----------------------------- MODULE WebAppProofs -----------------------------
(***************************************************************************)
(* What holds of the web application, whatever the terms, the documents    *)
(* and the index.                                                          *)
(*                                                                         *)
(* Read, Walk and RenderKeyval are recursive functions, so each of them    *)
(* needs a proof that its equation holds of it; it does, because the rest  *)
(* of a text is shorter and the parts of a value are less deep.  The rest  *)
(* goes by the length of a term (every term of well-formed pieces is read  *)
(* as documented, and a pair alone that is read so is well-formed), by the *)
(* depth of a value (what is rendered is its walk, with one break where    *)
(* dictionaries end), and by an inductive invariant of the pages: what     *)
(* their links are made of.                                                *)
(***************************************************************************)
EXTENDS WebApp, SequenceTheorems, FiniteSetTheorems, WellFoundedInduction, TLAPS

-----------------------------------------------------------------------------
(***************************************************************************)
(* Natural numbers, and what FlattenSeq puts together.                     *)
(***************************************************************************)

(* A non-empty set of natural numbers has a least one.                     *)
LEMMA Least ==
  ASSUME NEW U \in SUBSET Nat, U # {}
  PROVE  \E m \in U : \A k \in U : m <= k
<1>1. \E m \in U : \A k \in U : ~ (<<k, m>> \in OpToRel(<, Nat))
  BY NatLessThanWellFounded, WFMin
<1>2. PICK m \in U : \A k \in U : ~ (<<k, m>> \in OpToRel(<, Nat))
  BY <1>1
<1>3. \A k \in U : ~ (k < m)
  BY <1>2 DEF OpToRel
<1> QED BY <1>3

(* Induction over the natural numbers, for a set of them.                  *)
LEMMA All ==
  ASSUME NEW U, 0 \in U, \A n \in Nat : n \in U => n + 1 \in U
  PROVE  \A n \in Nat : n \in U
<1> DEFINE V == {n \in Nat : n \notin U}
<1> SUFFICES ASSUME V # {}
             PROVE  FALSE
  OBVIOUS
<1>1. PICK m \in V : \A k \in V : m <= k
  BY Least
<1>2. m \in Nat /\ m # 0 /\ m - 1 \in Nat /\ ~ (m <= m - 1) /\ (m - 1) + 1 = m
  OBVIOUS
<1>3. m - 1 \in U
  <2> HIDE DEF V
  <2>1. m - 1 \notin V
    BY <1>1, <1>2
  <2> QED BY <1>2, <2>1 DEF V
<1> QED BY <1>2, <1>3

-----------------------------------------------------------------------------
(* c is a with b behind it.                                                *)
Joins(a, b, c) == c = a \o b

(* Putting texts together does not depend on which two come first.         *)
LEMMA Regroup ==
  ASSUME NEW S, NEW x \in Seq(S), NEW y \in Seq(S), NEW z \in Seq(S), NEW a, NEW b, NEW c,
         Joins(x, y, a), Joins(a, z, b), Joins(y, z, c)
  PROVE  Joins(x, c, b)
BY DEF Joins

(* What FlattenSeq puts together, step by step: a function that takes the  *)
(* steps is there, and it ends with the whole.                             *)
Flattens(ss, f) ==
  /\ f[0] = << >>
  /\ \A i \in 1 .. Len(ss) : f[i] = f[i - 1] \o ss[i]

(* The first m steps of it.                                                *)
StepsTo(S, ss, m, f) ==
  /\ f \in [0 .. m -> Seq(S)]
  /\ f[0] = << >>
  /\ \A i \in 1 .. m : f[i] = f[i - 1] \o ss[i]

(* The steps can be taken.                                                 *)
LEMMA StepsThere ==
  ASSUME NEW S, NEW n \in Nat, NEW ss \in [1 .. n -> Seq(S)]
  PROVE  \E f : StepsTo(S, ss, n, f)
<1> DEFINE U == {m \in Nat : m <= n => \E f : StepsTo(S, ss, m, f)}
<1>1. 0 \in U
  <2>1. StepsTo(S, ss, 0, [i \in 0 .. 0 |-> << >>])
    BY DEF StepsTo
  <2> QED BY <2>1
<1>2. ASSUME NEW m \in Nat, m \in U
      PROVE  m + 1 \in U
  <2> SUFFICES ASSUME m + 1 <= n
               PROVE  \E f : StepsTo(S, ss, m + 1, f)
    OBVIOUS
  <2>1. PICK f : StepsTo(S, ss, m, f)
    BY <1>2
  <2> DEFINE g == [i \in 0 .. m + 1 |-> IF i <= m THEN f[i] ELSE f[m] \o ss[m + 1]]
  <2>2. \A i \in 0 .. m : g[i] = f[i]
    OBVIOUS
  <2>3. g[m + 1] = f[m] \o ss[m + 1] /\ f[m] \in Seq(S) /\ ss[m + 1] \in Seq(S)
    <3>1. m + 1 \in 0 .. m + 1 /\ ~ (m + 1 <= m) /\ m + 1 \in 1 .. n /\ m \in 0 .. m
      OBVIOUS
    <3>2. f \in [0 .. m -> Seq(S)]
      BY <2>1 DEF StepsTo
    <3>3. f[m] \in Seq(S) /\ ss[m + 1] \in Seq(S)
      BY <3>1, <3>2
    <3> QED BY <3>1, <3>3
  <2>4. g[m + 1] \in Seq(S)
    <3> HIDE DEF g
    <3> QED BY <2>3, ConcatProperties
  <2>5. g \in [0 .. m + 1 -> Seq(S)]
    <3>1. \A i \in 0 .. m + 1 : i \in 0 .. m \/ i = m + 1
      OBVIOUS
    <3>2. \A i \in 0 .. m : f[i] \in Seq(S)
      BY <2>1 DEF StepsTo
    <3>3. \A i \in 0 .. m + 1 : g[i] \in Seq(S)
      <4> HIDE DEF g
      <4> QED BY <2>2, <2>4, <3>1, <3>2
    <3>4. g = [i \in 0 .. m + 1 |-> g[i]]
      OBVIOUS
    <3> HIDE DEF g
    <3> QED BY <3>3, <3>4
  <2>6. \A i \in 1 .. m + 1 : g[i] = g[i - 1] \o ss[i]
    <3> TAKE i \in 1 .. m + 1
    <3>1. i - 1 \in 0 .. m /\ (i \in 1 .. m \/ i = m + 1)
      OBVIOUS
    <3> HIDE DEF g
    <3>2. g[i - 1] = f[i - 1]
      BY <2>2, <3>1
    <3>3. CASE i \in 1 .. m
      <4>1. f[i] = f[i - 1] \o ss[i]
        BY <2>1, <3>3, Zenon DEF StepsTo
      <4>2. g[i] = f[i]
        BY <2>2, <3>3
      <4> QED BY <3>2, <4>1, <4>2
    <3>4. CASE i = m + 1
      <4>1. i - 1 = m
        BY <3>4
      <4> QED BY <2>3, <3>2, <3>4, <4>1
    <3> QED BY <3>1, <3>3, <3>4
  <2>7. g[0] = << >>
    BY <2>1, <2>2 DEF StepsTo
  <2> HIDE DEF g
  <2>8. StepsTo(S, ss, m + 1, g)
    BY <2>5, <2>6, <2>7 DEF StepsTo
  <2> QED BY <2>8
<1>3. n \in U
  <2> HIDE DEF U
  <2> QED BY <1>1, <1>2, All
<1> QED BY <1>3

(* Whatever function takes the steps, FlattenSeq is where it ends.         *)
LEMMA FlattenIs ==
  ASSUME NEW n \in Nat, NEW ss, Len(ss) = n, n = 0 => ss = << >>, NEW f, Flattens(ss, f),
         1 <= n => f[1] = ss[1]
  PROVE  FlattenSeq(ss) = f[n]
<1>1. CASE n = 0
  BY <1>1 DEF FlattenSeq, Flattens
<1>2. CASE n # 0
  <2> DEFINE Step(h) == [i \in 1 .. Len(ss) |-> IF i = 1 THEN ss[i] ELSE h[i - 1] \o ss[i]]
             h == [i \in 1 .. n |-> f[i]]
  <2>1. h = Step(h)
    <3>1. \A i \in 1 .. n : f[i] = IF i = 1 THEN ss[i] ELSE h[i - 1] \o ss[i]
      <4> TAKE i \in 1 .. n
      <4>1. CASE i = 1
        BY <4>1
      <4>2. CASE i # 1
        <5>1. i - 1 \in 1 .. n
          BY <4>2
        <5>2. h[i - 1] = f[i - 1]
          BY <5>1
        <5> QED BY <4>2, <5>2 DEF Flattens
      <4> QED BY <4>1, <4>2
    <3> HIDE DEF h
    <3>2. h = [i \in 1 .. n |-> IF i = 1 THEN ss[i] ELSE h[i - 1] \o ss[i]]
      BY <3>1 DEF h
    <3> QED BY <3>2
  <2> DEFINE c == CHOOSE g : g = Step(g)
  <2>2. c = Step(c)
    <3> HIDE DEF h
    <3> QED BY <2>1
  <2>3. FlattenSeq(ss) = c[n]
    BY <1>2 DEF FlattenSeq
  <2> HIDE DEF c
  <2>4. \A i \in 1 .. n : c[i] = IF i = 1 THEN ss[i] ELSE c[i - 1] \o ss[i]
    BY <2>2
  <2> DEFINE U == {m \in Nat : m + 1 <= n => c[m + 1] = f[m + 1]}
  <2>5. 0 \in U
    BY <1>2, <2>4
  <2>6. \A m \in Nat : m \in U => m + 1 \in U
    <3> SUFFICES ASSUME NEW m \in Nat, m \in U, (m + 1) + 1 <= n
                 PROVE  c[(m + 1) + 1] = f[(m + 1) + 1]
      OBVIOUS
    <3>1. c[m + 1] = f[m + 1]
      OBVIOUS
    <3>2. (m + 1) + 1 \in 1 .. n /\ (m + 1) + 1 # 1 /\ ((m + 1) + 1) - 1 = m + 1
      OBVIOUS
    <3>3. c[(m + 1) + 1] = c[m + 1] \o ss[(m + 1) + 1]
      BY <2>4, <3>2
    <3>4. f[(m + 1) + 1] = f[m + 1] \o ss[(m + 1) + 1]
      BY <3>2 DEF Flattens
    <3> QED BY <3>1, <3>3, <3>4
  <2>7. n - 1 \in U
    <3> HIDE DEF U
    <3>1. n - 1 \in Nat
      BY <1>2
    <3> QED BY <2>5, <2>6, <3>1, All
  <2> QED BY <1>2, <2>3, <2>7
<1> QED BY <1>1, <1>2

(* What is put together is a sequence, and one item more comes at the end. *)
LEMMA FlattenSteps ==
  ASSUME NEW S, NEW ss \in Seq(Seq(S))
  PROVE  \E f \in [0 .. Len(ss) -> Seq(S)] : Flattens(ss, f) /\ FlattenSeq(ss) = f[Len(ss)]
<1>1. Len(ss) \in Nat /\ ss \in [1 .. Len(ss) -> Seq(S)]
  OBVIOUS
<1> DEFINE n == Len(ss)
<1>0. PICK f : StepsTo(S, ss, n, f)
  <2>1. n \in Nat /\ ss \in [1 .. n -> Seq(S)]
    BY <1>1
  <2> HIDE DEF n
  <2> QED BY <2>1, StepsThere
<1>2. /\ f \in [0 .. n -> Seq(S)]
      /\ f[0] = << >>
      /\ \A i \in 1 .. n : f[i] = f[i - 1] \o ss[i]
  BY <1>0, Zenon DEF StepsTo
<1>3. 1 <= Len(ss) => f[1] = ss[1]
  <2> HAVE 1 <= Len(ss)
  <2>1. ss[1] \in Seq(S) /\ 1 \in 1 .. n /\ 1 - 1 = 0
    BY <1>1
  <2>3. f[1] = f[1 - 1] \o ss[1]
    BY <1>2, <2>1, Zenon
  <2>2. f[1] = << >> \o ss[1]
    BY <1>2, <2>1, <2>3
  <2> QED BY <2>1, <2>2, ConcatEmptySeq
<1>4. FlattenSeq(ss) = f[Len(ss)]
  <2>1. Len(ss) = 0 => ss = << >>
    OBVIOUS
  <2>2. Flattens(ss, f)
    BY <1>2 DEF Flattens
  <2> QED BY <1>1, <1>3, <2>1, <2>2, FlattenIs
<1> QED BY <1>2, <1>4 DEF Flattens

(* Sequences of items make a sequence of items.                            *)
LEMMA FlattenType ==
  ASSUME NEW S, NEW ss \in Seq(Seq(S))
  PROVE  FlattenSeq(ss) \in Seq(S)
<1>1. Len(ss) \in 0 .. Len(ss)
  OBVIOUS
<1> QED BY <1>1, FlattenSteps

(* Nothing put together.                                                   *)
LEMMA FlattenNone == FlattenSeq(<< >>) = << >>
BY DEF FlattenSeq

(* One item more at the front.                                             *)
LEMMA FlattenCons ==
  ASSUME NEW S, NEW ss \in Seq(Seq(S)), NEW x \in Seq(S), NEW tt \in Seq(Seq(S)),
         Len(tt) = Len(ss) + 1, tt[1] = x, \A i \in 1 .. Len(ss) : tt[i + 1] = ss[i]
  PROVE  FlattenSeq(tt) = x \o FlattenSeq(ss)
<1> DEFINE n == Len(ss)
<1>1. PICK f \in [0 .. n -> Seq(S)] : Flattens(ss, f) /\ FlattenSeq(ss) = f[n]
  BY FlattenSteps
<1>2. PICK g \in [0 .. n + 1 -> Seq(S)] : Flattens(tt, g) /\ FlattenSeq(tt) = g[n + 1]
  BY FlattenSteps
<1>3. n \in Nat /\ Len(tt) = n + 1
  OBVIOUS
<1> DEFINE Ahead(m) == g[m + 1] = x \o f[m]
           U == {m \in Nat : m <= n => Ahead(m)}
<1>4. 0 \in U
  <2>1. g[1] = g[0] \o tt[1] /\ g[0] = << >> /\ f[0] = << >>
    <3>1. 1 \in 1 .. Len(tt) /\ 1 - 1 = 0
      BY <1>3
    <3> QED BY <1>1, <1>2, <3>1 DEF Flattens
  <2>2. g[1] = x \o << >>
    BY <2>1, ConcatEmptySeq
  <2> QED BY <2>1, <2>2
<1>5. ASSUME NEW m \in Nat, m \in U
      PROVE  m + 1 \in U
  <2> SUFFICES ASSUME m + 1 <= n
               PROVE  g[(m + 1) + 1] = x \o f[m + 1]
    <3> HIDE DEF n
    <3> QED BY DEF U, Ahead
  <2>1. g[m + 1] = x \o f[m]
    <3>1. Ahead(m)
      <4>1. m <= n
        BY <1>3
      <4> HIDE DEF Ahead, n
      <4> QED BY <1>5, <4>1
    <3> QED BY <3>1
  <2>2. (m + 1) + 1 \in 1 .. Len(tt) /\ ((m + 1) + 1) - 1 = m + 1 /\ m + 1 \in 1 .. n /\ (m + 1) - 1 = m
        /\ m \in 0 .. n
    BY <1>3
  <2>3. g[(m + 1) + 1] = g[m + 1] \o tt[(m + 1) + 1]
    BY <1>2, <2>2 DEF Flattens
  <2>4. f[m + 1] = f[m] \o ss[m + 1]
    BY <1>1, <2>2 DEF Flattens
  <2>5. tt[(m + 1) + 1] = ss[m + 1] /\ ss[m + 1] \in Seq(S) /\ f[m] \in Seq(S)
    <3>1. tt[(m + 1) + 1] = ss[m + 1]
      BY <2>2
    <3>2. ss[m + 1] \in Seq(S)
      BY <2>2, ElementOfSeq
    <3>3. f[m] \in Seq(S)
      BY <2>2
    <3> QED BY <3>1, <3>2, <3>3
  <2>6. Joins(x, f[m], g[m + 1]) /\ Joins(g[m + 1], ss[m + 1], g[(m + 1) + 1])
        /\ Joins(f[m], ss[m + 1], f[m + 1])
    BY <2>1, <2>3, <2>4, <2>5, Zenon DEF Joins
  <2>7. Joins(x, f[m + 1], g[(m + 1) + 1])
    <3>1. x \in Seq(S) /\ f[m] \in Seq(S) /\ ss[m + 1] \in Seq(S)
      BY <2>5
    <3> QED BY <2>6, <3>1, Regroup
  <2> QED BY <2>7, Zenon DEF Joins
<1>6. n \in U
  <2> HIDE DEF U, n
  <2> QED BY <1>3, <1>4, <1>5, All
<1> QED BY <1>1, <1>2, <1>3, <1>6

(* The first of them, before the others.                                   *)
LEMMA FlattenTail ==
  ASSUME NEW S, NEW ss \in Seq(Seq(S)), ss # << >>
  PROVE  FlattenSeq(ss) = ss[1] \o FlattenSeq(Tail(ss))
<1> DEFINE T == Seq(S)
<1>1. Tail(ss) \in Seq(T) /\ Len(ss) = Len(Tail(ss)) + 1 /\ ss[1] \in T
      /\ \A i \in 1 .. Len(Tail(ss)) : ss[i + 1] = Tail(ss)[i]
  <2>1. ss \in Seq(T)
    OBVIOUS
  <2> HIDE DEF T
  <2>2. Len(ss) \in Nat /\ Len(ss) # 0
    BY <2>1
  <2>3. ss[1] \in T
    BY <2>1, <2>2
  <2>4. Tail(ss) \in Seq(T) /\ Len(Tail(ss)) = Len(ss) - 1
        /\ \A i \in 1 .. Len(Tail(ss)) : Tail(ss)[i] = ss[i + 1]
    BY <2>1, HeadTailProperties
  <2> QED BY <2>2, <2>3, <2>4
<1> QED BY <1>1, FlattenCons

-----------------------------------------------------------------------------
(***************************************************************************)
(* Texts with a character between them.                                    *)
(***************************************************************************)

(* The characters a term is made of differ from each other.                *)
LEMMA CharsApart ==
  /\ Blank \in Chars /\ Colon \in Chars /\ Quote \in Chars /\ Star \in Chars
  /\ Blank # Colon /\ Blank # Quote /\ Blank # Star /\ Colon # Quote
  /\ <<Blank>> \in Texts
<1>1. Blank \in Chars /\ Colon \in Chars /\ Quote \in Chars /\ Star \in Chars
  BY CharsAssumption
<1>2. Blank # Colon /\ Blank # Quote /\ Blank # Star /\ Colon # Quote
  BY Zenon DEF Blank, Colon, Quote, Star
<1>3. <<Blank>> \in Texts
  BY <1>1 DEF Texts
<1> QED BY <1>1, <1>2, <1>3

(* Texts with a character before each of them.                             *)
Separated(texts, c) == [i \in DOMAIN texts |-> <<c>> \o texts[i]]

(* They are texts.                                                         *)
LEMMA SeparatedType ==
  ASSUME NEW texts \in Seq(Texts), NEW c \in Chars
  PROVE  Separated(texts, c) \in Seq(Texts)
<1>1. Len(texts) \in Nat /\ DOMAIN texts = 1 .. Len(texts)
  OBVIOUS
<1>2. \A i \in 1 .. Len(texts) : <<c>> \o texts[i] \in Texts
  <2> TAKE i \in 1 .. Len(texts)
  <2>1. texts[i] \in Seq(Chars)
    BY ElementOfSeq DEF Texts
  <2>2. <<c>> \in Seq(Chars)
    BY DEF Texts
  <2> QED BY <2>1, <2>2 DEF Texts
<1>3. Separated(texts, c) = [i \in 1 .. Len(texts) |-> <<c>> \o texts[i]]
  BY <1>1 DEF Separated
<1>4. Separated(texts, c) \in [1 .. Len(texts) -> Texts]
  BY <1>2, <1>3
<1> QED BY <1>1, <1>4, SeqDef

(* What is left of a sequence without its first item.                      *)
LEMMA TailType ==
  ASSUME NEW S, NEW s \in Seq(S), s # << >>
  PROVE  /\ Tail(s) \in Seq(S) /\ Len(Tail(s)) = Len(s) - 1 /\ DOMAIN Tail(s) = 1 .. Len(Tail(s))
         /\ \A i \in DOMAIN Tail(s) : Tail(s)[i] = s[i + 1]
         /\ s[1] \in S /\ Len(s) \in Nat /\ Len(s) # 0 /\ DOMAIN s = 1 .. Len(s)
OBVIOUS

(* The first of them, before the others.                                   *)
LEMMA SeparatedIs ==
  ASSUME NEW texts \in Seq(Texts), NEW c \in Chars, texts # << >>
  PROVE  FlattenSeq(Separated(texts, c)) =
           (<<c>> \o texts[1]) \o FlattenSeq(Separated(Tail(texts), c))
<1> DEFINE ss == Separated(texts, c)
           tt == Separated(Tail(texts), c)
<1>1. /\ Tail(texts) \in Seq(Texts) /\ Len(Tail(texts)) = Len(texts) - 1
      /\ DOMAIN Tail(texts) = 1 .. Len(Tail(texts))
      /\ \A i \in DOMAIN Tail(texts) : Tail(texts)[i] = texts[i + 1]
      /\ texts[1] \in Texts /\ Len(texts) \in Nat /\ Len(texts) # 0
      /\ DOMAIN texts = 1 .. Len(texts)
  BY TailType
<1>2. ss \in Seq(Seq(Chars)) /\ tt \in Seq(Seq(Chars))
  BY <1>1, SeparatedType DEF Texts
<1>3. Len(ss) = Len(texts) /\ Len(tt) = Len(texts) - 1
  <2>1. DOMAIN ss = 1 .. Len(texts) /\ DOMAIN tt = 1 .. Len(texts) - 1
    BY <1>1 DEF Separated
  <2>2. Len(texts) \in Nat /\ Len(texts) # 0
    BY <1>1
  <2> HIDE DEF ss, tt
  <2> QED BY <1>2, <2>1, <2>2
<1>4. ss[1] = <<c>> \o texts[1]
  BY <1>1 DEF Separated
<1>5. \A i \in 1 .. Len(tt) : ss[i + 1] = tt[i]
  <2> TAKE i \in 1 .. Len(tt)
  <2>1. i \in DOMAIN Tail(texts) /\ i + 1 \in DOMAIN texts
    BY <1>1, <1>3
  <2>2. ss[i + 1] = <<c>> \o texts[i + 1] /\ tt[i] = <<c>> \o Tail(texts)[i]
    BY <2>1 DEF Separated
  <2> QED BY <1>1, <2>1, <2>2
<1>6. ss[1] \in Seq(Chars)
  <2>1. texts[1] \in Seq(Chars)
    BY <1>1 DEF Texts
  <2>2. <<c>> \in Seq(Chars)
    BY DEF Texts
  <2> HIDE DEF ss
  <2> QED BY <1>4, <2>1, <2>2
<1>7. FlattenSeq(ss) = ss[1] \o FlattenSeq(tt)
  <2>1. Len(ss) = Len(tt) + 1
    <3>1. Len(texts) \in Nat
      BY <1>1
    <3> HIDE DEF ss, tt
    <3> QED BY <1>3, <3>1
  <2> HIDE DEF ss, tt
  <2> QED BY <1>2, <1>5, <1>6, <2>1, FlattenCons
<1> QED BY <1>4, <1>7

(* The first of texts, before the others with c before each.         *)
LEMMA JoinIs ==
  ASSUME NEW texts \in Seq(Texts), NEW c \in Chars, texts # << >>
  PROVE  JoinWith(texts, c) = texts[1] \o FlattenSeq(Separated(Tail(texts), c))
<1> DEFINE ss == [i \in DOMAIN texts |-> (IF i = 1 THEN << >> ELSE <<c>>) \o texts[i]]
           tt == Separated(Tail(texts), c)
<1>1. /\ Tail(texts) \in Seq(Texts) /\ Len(Tail(texts)) = Len(texts) - 1
      /\ DOMAIN Tail(texts) = 1 .. Len(Tail(texts))
      /\ \A i \in DOMAIN Tail(texts) : Tail(texts)[i] = texts[i + 1]
      /\ texts[1] \in Texts /\ Len(texts) \in Nat /\ Len(texts) # 0
      /\ DOMAIN texts = 1 .. Len(texts)
  BY TailType
<1>2. tt \in Seq(Seq(Chars))
  BY <1>1, SeparatedType DEF Texts
<1>3. Len(tt) = Len(texts) - 1
  <2>1. DOMAIN tt = 1 .. Len(texts) - 1
    BY <1>1 DEF Separated
  <2>2. Len(texts) \in Nat /\ Len(texts) # 0
    BY <1>1
  <2> HIDE DEF tt
  <2> QED BY <1>2, <2>1, <2>2
<1>4. \A i \in DOMAIN texts : ss[i] \in Texts
  <2> TAKE i \in DOMAIN texts
  <2>1. texts[i] \in Seq(Chars)
    BY <1>1, ElementOfSeq DEF Texts
  <2>2. (IF i = 1 THEN << >> ELSE <<c>>) \in Seq(Chars)
    <3>1. <<c>> \in Seq(Chars) /\ << >> \in Seq(Chars)
      BY DEF Texts
    <3> QED BY <3>1
  <2> DEFINE sep == IF i = 1 THEN << >> ELSE <<c>>
  <2>3. ss[i] = sep \o texts[i]
    OBVIOUS
  <2> HIDE DEF ss, sep
  <2>4. sep \o texts[i] \in Seq(Chars)
    BY <2>1, <2>2 DEF sep
  <2> QED BY <2>3, <2>4 DEF Texts
<1>5. ss \in Seq(Texts) /\ Len(ss) = Len(texts)
  <2>1. ss \in [1 .. Len(texts) -> Texts]
    BY <1>1, <1>4
  <2> HIDE DEF ss
  <2> QED BY <1>1, <2>1, SeqDef
<1>6. ss[1] = texts[1]
  <2>1. ss[1] = << >> \o texts[1] /\ texts[1] \in Seq(Chars)
    BY <1>1 DEF Texts
  <2> HIDE DEF ss
  <2> QED BY <2>1
<1>7. \A i \in 1 .. Len(tt) : ss[i + 1] = tt[i]
  <2> TAKE i \in 1 .. Len(tt)
  <2>1. i \in DOMAIN Tail(texts) /\ i + 1 \in DOMAIN texts /\ i + 1 # 1
    BY <1>1, <1>3
  <2>2. ss[i + 1] = <<c>> \o texts[i + 1] /\ tt[i] = <<c>> \o Tail(texts)[i]
    BY <2>1 DEF Separated
  <2> QED BY <1>1, <2>1, <2>2
<1>8. FlattenSeq(ss) = ss[1] \o FlattenSeq(tt)
  <2>1. Len(ss) = Len(tt) + 1 /\ ss \in Seq(Seq(Chars)) /\ ss[1] \in Seq(Chars)
    <3>1. ss \in Seq(Seq(Chars))
      BY <1>5 DEF Texts
    <3> HIDE DEF ss, tt
    <3> QED BY <1>1, <1>3, <1>5, <1>6, <3>1 DEF Texts
  <2> HIDE DEF ss, tt
  <2> QED BY <1>2, <1>7, <2>1, FlattenCons
<1> QED BY <1>6, <1>8 DEF JoinWith

(* No texts make the empty text.                                           *)
LEMMA JoinNone == \A c : JoinWith(<< >>, c) = << >>
<1> TAKE c
<1>1. [i \in DOMAIN << >> |-> (IF i = 1 THEN << >> ELSE <<c>>) \o << >>[i]] = << >>
  OBVIOUS
<1> QED BY <1>1, FlattenNone DEF JoinWith

(* Texts make a text.                                                      *)
LEMMA JoinType ==
  ASSUME NEW texts \in Seq(Texts), NEW c \in Chars
  PROVE  JoinWith(texts, c) \in Texts
<1>1. CASE texts = << >>
  <2>1. << >> \in Seq(Chars)
    OBVIOUS
  <2> QED BY <1>1, <2>1, JoinNone, Zenon DEF Texts
<1>2. CASE texts # << >>
  <2>1. Tail(texts) \in Seq(Texts) /\ texts[1] \in Seq(Chars)
    BY <1>2, TailType DEF Texts
  <2>2. FlattenSeq(Separated(Tail(texts), c)) \in Seq(Chars)
    BY <2>1, SeparatedType, FlattenType DEF Texts
  <2>3. texts[1] \o FlattenSeq(Separated(Tail(texts), c)) \in Seq(Chars)
    BY <2>1, <2>2
  <2> QED BY <1>2, <2>3, JoinIs DEF Texts
<1> QED BY <1>1, <1>2

(* One text before the others.                                             *)
LEMMA JoinTail ==
  ASSUME NEW texts \in Seq(Texts), NEW c \in Chars, texts # << >>
  PROVE  /\ Tail(texts) = << >> => JoinWith(texts, c) = texts[1]
         /\ Tail(texts) # << >> => JoinWith(texts, c) = (texts[1] \o <<c>>) \o JoinWith(Tail(texts), c)
<1>1. Tail(texts) \in Seq(Texts) /\ texts[1] \in Seq(Chars)
  BY TailType DEF Texts
<1>2. JoinWith(texts, c) = texts[1] \o FlattenSeq(Separated(Tail(texts), c))
  BY JoinIs
<1>3. CASE Tail(texts) = << >>
  <2>1. Separated(<< >>, c) = << >>
    BY DEF Separated
  <2>2. JoinWith(texts, c) = texts[1] \o << >>
    BY <1>2, <1>3, <2>1, FlattenNone
  <2> QED BY <1>1, <1>3, <2>2
<1>4. CASE Tail(texts) # << >>
  <2> DEFINE more == FlattenSeq(Separated(Tail(Tail(texts)), c))
             rest == Tail(texts)[1]
  <2>1. Tail(Tail(texts)) \in Seq(Texts) /\ rest \in Seq(Chars)
    BY <1>1, <1>4, TailType DEF Texts
  <2>2. more \in Seq(Chars)
    BY <2>1, SeparatedType, FlattenType DEF Texts
  <2>3. FlattenSeq(Separated(Tail(texts), c)) = (<<c>> \o rest) \o more
    BY <1>1, <1>4, SeparatedIs
  <2>4. JoinWith(Tail(texts), c) = rest \o more
    BY <1>1, <1>4, JoinIs
  <2> HIDE DEF more, rest
  <2>5. PICK first \in Seq(Chars) : first = texts[1]
    BY <1>1
  <2>6. first \o ((<<c>> \o rest) \o more) = (first \o <<c>>) \o (rest \o more)
    <3> DEFINE d == <<c>>
               r == rest \o more
    <3>1. d \in Seq(Chars) /\ r \in Seq(Chars)
      BY <2>1, <2>2
    <3>2. (d \o rest) \o more = d \o (rest \o more)
      <4> HIDE DEF d
      <4>1. d \in Seq(Chars) /\ rest \in Seq(Chars) /\ more \in Seq(Chars)
        BY <2>1, <2>2, <3>1
      <4> DEFINE e == d \o rest
                 f == e \o more
                 g == rest \o more
      <4>2. Joins(d, rest, e) /\ Joins(e, more, f) /\ Joins(rest, more, g)
        BY Zenon DEF Joins
      <4> HIDE DEF e, f, g
      <4>3. Joins(d, g, f)
        BY <4>1, <4>2, Regroup
      <4> QED BY <4>3, Zenon DEF Joins, e, f, g
    <3> HIDE DEF d, r
    <3>3. first \o (d \o r) = (first \o d) \o r
      BY <3>1
    <3> QED BY <3>2, <3>3, Zenon DEF d, r
  <2> QED BY <1>2, <1>4, <2>3, <2>4, <2>5, <2>6, Zenon
<1> QED BY <1>3, <1>4

(* The same of blanks between them: no texts,                              *)
LEMMA JoinedNone == Joined(<< >>) = << >>
BY JoinNone DEF Joined

(* some texts,                                                             *)
LEMMA JoinedType ==
  ASSUME NEW texts \in Seq(Texts)
  PROVE  Joined(texts) \in Texts
BY JoinType, CharsApart DEF Joined

(* and the first before the others.                                        *)
LEMMA JoinedTail ==
  ASSUME NEW texts \in Seq(Texts), texts # << >>
  PROVE  /\ Tail(texts) = << >> => Joined(texts) = texts[1]
         /\ Tail(texts) # << >> => Joined(texts) = (texts[1] \o <<Blank>>) \o Joined(Tail(texts))
BY JoinTail, CharsApart, Zenon DEF Joined

-----------------------------------------------------------------------------
(***************************************************************************)
(* Where get_query finds a pair in a text, and what is left of the text.   *)
(***************************************************************************)

(* Min and Max are least and greatest elements.                            *)
LEMMA MinIs ==
  ASSUME NEW T \in SUBSET Nat, T # {}
  PROVE  Min(T) \in T /\ \A x \in T : Min(T) <= x
<1>1. \E m \in T : \A k \in T : m <= k
  BY Least
<1> QED BY <1>1, Zenon DEF Min

(* A set of natural numbers up to n has a greatest one.                    *)
LEMMA MaxIs ==
  ASSUME NEW n \in Nat, NEW T \in SUBSET (0 .. n), T # {}
  PROVE  Max(T) \in T /\ \A x \in T : x <= Max(T)
<1> DEFINE U == {m \in Nat : n - m \in T}
<1>1. PICK x \in T : TRUE
  OBVIOUS
<1>2. n - x \in U
  OBVIOUS
<1>3. PICK m \in U : \A k \in U : m <= k
  BY <1>2, Least
<1>4. \A y \in T : n - y \in U /\ y \in Nat
  OBVIOUS
<1>5. n - m \in T /\ \A y \in T : y <= n - m
  BY <1>3, <1>4
<1> HIDE DEF U
<1>6. \E y \in T : \A z \in T : y >= z
  BY <1>5
<1>7. Max(T) \in T /\ \A z \in T : Max(T) >= z
  BY <1>6, Zenon DEF Max
<1> QED BY <1>7

(* The least element of a set is its Min,                                  *)
LEMMA MinOf ==
  ASSUME NEW T \in SUBSET Nat, NEW m \in T, \A x \in T : m <= x
  PROVE  Min(T) = m
<1>1. Min(T) \in T /\ Min(T) <= m
  BY MinIs
<1>2. m <= Min(T) /\ m \in Nat /\ Min(T) \in Nat
  BY <1>1
<1> QED BY <1>1, <1>2

(* and the greatest its Max.                                               *)
LEMMA MaxOf ==
  ASSUME NEW n \in Nat, NEW T \in SUBSET (0 .. n), NEW m \in T, \A x \in T : x <= m
  PROVE  Max(T) = m
<1>1. Max(T) \in T /\ m <= Max(T)
  BY MaxIs
<1>2. Max(T) <= m
  BY <1>1
<1>3. m \in 0 .. n /\ Max(T) \in 0 .. n
  BY <1>1
<1>4. \A a, b \in 0 .. n : a <= b /\ b <= a => a = b
  OBVIOUS
<1> QED BY <1>1, <1>2, <1>3, <1>4

-----------------------------------------------------------------------------
(* The parts of the first match in a text.                                 *)
Starts(s) == {p \in DOMAIN s : NameColons(s, p) # {}}
First(s) == Min(Starts(s))
ColonOf(s) == Max(NameColons(s, First(s)))
EndOf(s) == ValueEnd(s, ColonOf(s) + 1)
RestOf(s) == SubSeq(s, SkipBlanks(s, EndOf(s) + 1), Len(s))
QueryOf(s) == FieldQuery(SubSeq(s, First(s), ColonOf(s) - 1),
                         SubSeq(s, ColonOf(s) + 1, EndOf(s)))

(* A word ends behind its start, and has no blank in it.                   *)
LEMMA WordEndType ==
  ASSUME NEW s \in Texts, NEW v \in 1 .. Len(s), s[v] # Blank
  PROVE  WordEnd(s, v) \in v .. Len(s) /\ \A i \in v .. WordEnd(s, v) : s[i] # Blank
<1> DEFINE T == {r \in v .. Len(s) : \A i \in v .. r : s[i] # Blank}
<1>1. Len(s) \in Nat
  BY DEF Texts
<1>2. v \in T
  BY <1>1
<1>3. T \in SUBSET (0 .. Len(s))
  BY <1>1
<1>4. Max(T) \in T
  <2> HIDE DEF T
  <2> QED BY <1>1, <1>2, <1>3, MaxIs
<1> QED BY <1>4 DEF WordEnd

(* A value ends in the text.                                               *)
LEMMA ValueEndType ==
  ASSUME NEW s \in Texts, NEW v \in 1 .. Len(s), s[v] # Blank
  PROVE  ValueEnd(s, v) \in v .. Len(s)
<1> DEFINE closing == {i \in v + 2 .. Len(s) :
                         s[i] = Quote /\ \A j \in v + 1 .. i - 1 : s[j] # Quote}
<1>1. Len(s) \in Nat
  BY DEF Texts
<1>2. closing # {} => Min(closing) \in closing
  <2>1. closing \in SUBSET Nat
    BY <1>1
  <2> HIDE DEF closing
  <2> QED BY <2>1, MinIs
<1>3. closing # {} => Min(closing) \in v .. Len(s)
  BY <1>1, <1>2
<1>4. ValueEnd(s, v) = IF s[v] = Quote /\ closing # {} THEN Min(closing) ELSE WordEnd(s, v)
  BY DEF ValueEnd
<1> HIDE DEF closing
<1> QED BY <1>3, <1>4, WordEndType

(* Blanks end in the text or with it.                                      *)
LEMMA SkipBlanksType ==
  ASSUME NEW s \in Texts, NEW i \in 1 .. Len(s) + 1
  PROVE  SkipBlanks(s, i) \in i .. Len(s) + 1
<1> DEFINE T == {k \in i .. Len(s) + 1 : k = Len(s) + 1 \/ s[k] # Blank}
<1>1. Len(s) \in Nat
  BY DEF Texts
<1>2. T \in SUBSET Nat /\ Len(s) + 1 \in T
  BY <1>1
<1>3. Min(T) \in T
  <2> HIDE DEF T
  <2> QED BY <1>2, MinIs
<1> QED BY <1>3 DEF SkipBlanks

(* The colon of a name is behind its first character and before a value.   *)
LEMMA ColonsType ==
  ASSUME NEW s \in Texts, NEW p \in DOMAIN s, NameColons(s, p) # {}
  PROVE  /\ Max(NameColons(s, p)) \in p + 1 .. Len(s) - 1
         /\ s[Max(NameColons(s, p)) + 1] # Blank
<1>1. Len(s) \in Nat /\ p \in 1 .. Len(s)
  BY DEF Texts
<1>2. NameColons(s, p) \in SUBSET (0 .. Len(s))
  BY <1>1 DEF NameColons
<1>3. Max(NameColons(s, p)) \in NameColons(s, p)
  BY <1>1, <1>2, MaxIs
<1>4. \A e \in NameColons(s, p) : e \in p + 1 .. Len(s) - 1 /\ s[e + 1] # Blank
  <2> TAKE e \in NameColons(s, p)
  <2>1. e \in p + 1 .. Len(s) - 1 /\ \A i \in p .. e + 1 : s[i] # Blank
    BY DEF NameColons
  <2>2. e + 1 \in p .. e + 1
    BY <1>1, <2>1
  <2> QED BY <2>1, <2>2
<1> QED BY <1>3, <1>4

(* What is left is shorter.                                                *)
LEMMA PartsType ==
  ASSUME NEW s \in Texts, Starts(s) # {}
  PROVE  /\ First(s) \in 1 .. Len(s) /\ ColonOf(s) \in First(s) + 1 .. Len(s) - 1
         /\ EndOf(s) \in ColonOf(s) + 1 .. Len(s)
         /\ SkipBlanks(s, EndOf(s) + 1) \in EndOf(s) + 1 .. Len(s) + 1
         /\ RestOf(s) \in Texts /\ Len(RestOf(s)) < Len(s) /\ Len(s) \in Nat
<1>1. Len(s) \in Nat /\ DOMAIN s = 1 .. Len(s)
  BY DEF Texts
<1>2. First(s) \in Starts(s)
  <2>1. Starts(s) \in SUBSET Nat
    BY <1>1 DEF Starts
  <2> QED BY <2>1, MinIs DEF First
<1>3. First(s) \in DOMAIN s /\ NameColons(s, First(s)) # {}
  BY <1>2 DEF Starts
<1>4. ColonOf(s) \in First(s) + 1 .. Len(s) - 1 /\ s[ColonOf(s) + 1] # Blank
  BY <1>3, ColonsType DEF ColonOf
<1>5. ColonOf(s) + 1 \in 1 .. Len(s)
  BY <1>1, <1>3, <1>4
<1>6. EndOf(s) \in ColonOf(s) + 1 .. Len(s)
  BY <1>4, <1>5, ValueEndType DEF EndOf
<1>7. EndOf(s) + 1 \in 1 .. Len(s) + 1
  BY <1>1, <1>5, <1>6
<1>8. SkipBlanks(s, EndOf(s) + 1) \in EndOf(s) + 1 .. Len(s) + 1
  BY <1>7, SkipBlanksType
<1>9. RestOf(s) \in Texts /\ Len(RestOf(s)) < Len(s)
  <2> DEFINE k == SkipBlanks(s, EndOf(s) + 1)
  <2>1. k \in 2 .. Len(s) + 1
    BY <1>1, <1>5, <1>6, <1>8
  <2> HIDE DEF k
  <2>2. SubSeq(s, k, Len(s)) \in Seq(Chars) /\ Len(SubSeq(s, k, Len(s))) < Len(s)
    BY <1>1, <2>1 DEF Texts
  <2> QED BY <2>2 DEF RestOf, Texts, k
<1> QED BY <1>1, <1>3, <1>4, <1>6, <1>8, <1>9

-----------------------------------------------------------------------------
(***************************************************************************)
(* Recursive functions.  TLA+ has them as CHOOSE f : f = ...: that there   *)
(* is such an f is what makes the equation hold of it.                     *)
(***************************************************************************)

(* A function whose value at x is computed from its values of lower rank   *)
(* is there.                                                               *)
Fits(D, Y, rank, G, n, f) ==
  f \in [D -> Y] /\ \A x \in D : rank[x] < n => f[x] = G[f][x]

(* The value at x depends on the values of lower rank only.                *)
Local(D, Y, rank, G) ==
  \A f, g \in [D -> Y], x \in D :
    (\A z \in D : rank[z] < rank[x] => f[z] = g[z]) => G[f][x] = G[g][x]

(* Functions that fit up to a rank are equal up to it.                     *)
LEMMA Agree ==
  ASSUME NEW D, NEW rank \in [D -> Nat], NEW Y, NEW G, Local(D, Y, rank, G),
         NEW n \in Nat, NEW f, NEW g, Fits(D, Y, rank, G, n, f), Fits(D, Y, rank, G, n, g),
         NEW x \in D, rank[x] < n
  PROVE  f[x] = g[x]
<1> DEFINE U == {k \in Nat : k <= n => \A z \in D : rank[z] < k => f[z] = g[z]}
<1>1. 0 \in U
  OBVIOUS
<1>2. ASSUME NEW k \in Nat, k \in U
      PROVE  k + 1 \in U
  <2> SUFFICES ASSUME k + 1 <= n, NEW z \in D, rank[z] < k + 1
               PROVE  f[z] = g[z]
    OBVIOUS
  <2>1. \A y \in D : rank[y] < rank[z] => f[y] = g[y]
    BY <1>2
  <2>2. G[f][z] = G[g][z]
    BY <2>1 DEF Local, Fits
  <2> QED BY <2>2 DEF Fits
<1>3. n \in U
  <2> HIDE DEF U
  <2> QED BY <1>1, <1>2, All
<1> QED BY <1>3

(* There is one for every rank,                                            *)
LEMMA FitsThere ==
  ASSUME NEW D, NEW rank \in [D -> Nat], NEW Y, NEW y \in Y,
         NEW G \in [[D -> Y] -> [D -> Y]], Local(D, Y, rank, G)
  PROVE  \A n \in Nat : \E f : Fits(D, Y, rank, G, n, f)
<1> DEFINE U == {n \in Nat : \E f : Fits(D, Y, rank, G, n, f)}
<1>1. 0 \in U
  <2>1. Fits(D, Y, rank, G, 0, [x \in D |-> y])
    BY DEF Fits
  <2> QED BY <2>1
<1>2. ASSUME NEW n \in Nat, n \in U
      PROVE  n + 1 \in U
  <2>1. PICK f : Fits(D, Y, rank, G, n, f)
    BY <1>2
  <2>2. f \in [D -> Y] /\ G[f] \in [D -> Y] /\ \A x \in D : rank[x] < n => f[x] = G[f][x]
    BY <2>1 DEF Fits
  <2>3. \A x \in D : rank[x] < n + 1 => G[f][x] = G[G[f]][x]
    <3> SUFFICES ASSUME NEW x \in D, rank[x] < n + 1
                 PROVE  G[f][x] = G[G[f]][x]
      OBVIOUS
    <3>1. \A z \in D : rank[z] < rank[x] => f[z] = G[f][z]
      BY <2>2
    <3> QED BY <2>2, <3>1 DEF Local
  <2>4. Fits(D, Y, rank, G, n + 1, G[f])
    BY <2>2, <2>3 DEF Fits
  <2> QED BY <2>4
<1> HIDE DEF U
<1>3. \A n \in Nat : n \in U
  BY <1>1, <1>2, All
<1> QED BY <1>3 DEF U

(* What makes a recursive definition one,                                  *)
Computes(D, Y, rank, G) ==
  /\ rank \in [D -> Nat] /\ Y # {} /\ G \in [[D -> Y] -> [D -> Y]]
  /\ Local(D, Y, rank, G)

(* and one that fits all ranks.                                            *)
LEMMA Recursion ==
  ASSUME NEW D, NEW Y, NEW rank, NEW G, Computes(D, Y, rank, G)
  PROVE  \E f \in [D -> Y] : f = G[f]
<1> DEFINE at(x) == CHOOSE f : Fits(D, Y, rank, G, rank[x] + 1, f)
           h == [x \in D |-> at(x)[x]]
<1>0. /\ rank \in [D -> Nat] /\ G \in [[D -> Y] -> [D -> Y]]
      /\ Local(D, Y, rank, G) /\ \E y : y \in Y
  BY DEF Computes
<1>1. \A x \in D : Fits(D, Y, rank, G, rank[x] + 1, at(x))
  <2> TAKE x \in D
  <2>1. rank[x] + 1 \in Nat
    BY <1>0
  <2>2. \E f : Fits(D, Y, rank, G, rank[x] + 1, f)
    BY <1>0, <2>1, FitsThere
  <2> QED BY <2>2
<1> HIDE DEF at
<1>2. h \in [D -> Y]
  <2>1. \A x \in D : at(x)[x] \in Y
    BY <1>1 DEF Fits
  <2> QED BY <2>1
<1>3. ASSUME NEW x \in D, NEW z \in D, rank[z] < rank[x]
      PROVE  at(z)[z] = at(x)[z]
  <2>1. Fits(D, Y, rank, G, rank[z] + 1, at(x)) /\ Fits(D, Y, rank, G, rank[z] + 1, at(z))
    <3>1. rank[x] \in Nat /\ rank[z] \in Nat
      BY <1>0
    <3>2. \A w \in D : rank[w] \in Nat
      BY <1>0
    <3>3. Fits(D, Y, rank, G, rank[x] + 1, at(x)) /\ Fits(D, Y, rank, G, rank[z] + 1, at(z))
      BY <1>1
    <3> QED BY <1>3, <3>1, <3>2, <3>3 DEF Fits
  <2>2. rank[z] + 1 \in Nat /\ rank[z] < rank[z] + 1
    BY <1>0
  <2> QED BY <1>0, <2>1, <2>2, Agree
<1>4. \A x \in D : h[x] = G[h][x]
  <2> TAKE x \in D
  <2>1. \A z \in D : rank[z] < rank[x] => h[z] = at(x)[z]
    BY <1>3
  <2>2. at(x) \in [D -> Y] /\ at(x)[x] = G[at(x)][x]
    <3>1. rank[x] \in Nat /\ rank[x] < rank[x] + 1
      BY <1>0
    <3> QED BY <1>1, <3>1 DEF Fits
  <2>3. G[h][x] = G[at(x)][x]
    <3> HIDE DEF h
    <3> QED BY <1>0, <1>2, <2>1, <2>2 DEF Local
  <2> QED BY <2>2, <2>3
<1>5. G[h] \in [D -> Y]
  <2> HIDE DEF h
  <2> QED BY <1>0, <1>2
<1>6. h = G[h]
  <2> HIDE DEF h
  <2> QED BY <1>2, <1>4, <1>5
<1> HIDE DEF h
<1> QED BY <1>2, <1>6

-----------------------------------------------------------------------------
(***************************************************************************)
(* Read, the loop of get_query, satisfies its equation.                    *)
(***************************************************************************)

(* Strip leaves a text.                                                    *)
LEMMA StripType ==
  ASSUME NEW s \in Texts, NEW c
  PROVE  Strip(s, c) \in Texts
<1> DEFINE kept == {i \in DOMAIN s : s[i] # c}
<1>1. Len(s) \in Nat /\ DOMAIN s = 1 .. Len(s)
  BY DEF Texts
<1>2. CASE kept = {}
  <2>1. << >> \in Seq(Chars)
    OBVIOUS
  <2> QED BY <1>2, <2>1, Zenon DEF Strip, Texts
<1>3. CASE kept # {}
  <2>1. kept \in SUBSET Nat /\ kept \in SUBSET (0 .. Len(s)) /\ kept \in SUBSET (1 .. Len(s))
    BY <1>1
  <2> HIDE DEF kept
  <2>2. Min(kept) \in 1 .. Len(s) /\ Max(kept) \in 1 .. Len(s)
    <3>1. Min(kept) \in kept
      BY <1>3, <2>1, MinIs
    <3>2. Max(kept) \in kept
      BY <1>1, <1>3, <2>1, MaxIs
    <3> QED BY <2>1, <3>1, <3>2
  <2>3. \A a, b \in 1 .. Len(s) : SubSeq(s, a, b) \in Seq(Chars)
    BY <1>1 DEF Texts
  <2>4. SubSeq(s, Min(kept), Max(kept)) \in Seq(Chars)
    BY <2>2, <2>3
  <2>5. Strip(s, c) = SubSeq(s, Min(kept), Max(kept))
    BY <1>3, Zenon DEF kept, Strip
  <2> QED BY <2>4, <2>5 DEF Texts
<1> QED BY <1>2, <1>3

(* The queries of pairs, and what Read gives.                              *)
FieldQueries == [kind : {"term", "wildcard"}, field : Texts, value : Texts]
Reads == [queries : Seq(FieldQueries), free : Texts]

(* A pair is a query,                                                      *)
LEMMA FieldQueryType ==
  ASSUME NEW name \in Texts, NEW value \in Texts
  PROVE  FieldQuery(name, value) \in FieldQueries
<1> DEFINE bare == Strip(value, Quote)
<1>1. bare \in Texts
  BY StripType
<1> HIDE DEF bare
<1>2. WildcardQuery(name, bare) \in FieldQueries /\ TermQuery(name, bare) \in FieldQueries
  BY <1>1 DEF WildcardQuery, TermQuery, FieldQueries
<1> QED BY <1>2 DEF FieldQuery, bare

(* a part of a text a text,                                                *)
LEMMA PartOf ==
  ASSUME NEW s \in Texts, NEW a \in 1 .. Len(s), NEW b \in 0 .. Len(s)
  PROVE  SubSeq(s, a, b) \in Texts
BY DEF Texts

(* and the first match of a text is a pair.                                *)
LEMMA QueryOfType ==
  ASSUME NEW s \in Texts, Starts(s) # {}
  PROVE  QueryOf(s) \in FieldQueries
<1>1. /\ First(s) \in 1 .. Len(s) /\ ColonOf(s) \in First(s) + 1 .. Len(s) - 1
      /\ EndOf(s) \in ColonOf(s) + 1 .. Len(s) /\ Len(s) \in Nat
  BY PartsType
<1>2. ColonOf(s) - 1 \in 0 .. Len(s) /\ ColonOf(s) + 1 \in 1 .. Len(s) /\ EndOf(s) \in 0 .. Len(s)
  BY <1>1
<1>3. SubSeq(s, First(s), ColonOf(s) - 1) \in Texts /\ SubSeq(s, ColonOf(s) + 1, EndOf(s)) \in Texts
  BY <1>1, <1>2, PartOf
<1> QED BY <1>3, FieldQueryType DEF QueryOf

(* One step of Read, with f for what is read of the rest.                  *)
ReadOf(f, s) ==
  IF Starts(s) = {} THEN [queries |-> << >>, free |-> s]
  ELSE [queries |-> <<QueryOf(s)>> \o f[RestOf(s)].queries,
        free |-> FreeText(s, First(s) - 1, f[RestOf(s)].free)]

(* It gives what Read does.                                                *)
LEMMA ReadOfType ==
  ASSUME NEW f, NEW s \in Texts, Starts(s) # {} => f[RestOf(s)] \in Reads
  PROVE  ReadOf(f, s) \in Reads
<1>1. CASE Starts(s) = {}
  BY <1>1 DEF ReadOf, Reads
<1>2. CASE Starts(s) # {}
  <2> DEFINE r == f[RestOf(s)]
  <2>1. r \in Reads /\ QueryOf(s) \in FieldQueries
    BY <1>2, QueryOfType
  <2>2. r.queries \in Seq(FieldQueries) /\ r.free \in Seq(Chars)
    BY <2>1 DEF Reads, Texts
  <2>3. SubSeq(s, 1, First(s) - 1) \in Seq(Chars)
    <3>1. First(s) \in 1 .. Len(s) /\ Len(s) \in Nat
      BY <1>2, PartsType
    <3>2. 1 \in 1 .. Len(s) /\ First(s) - 1 \in 0 .. Len(s)
      BY <3>1
    <3> QED BY <3>2, PartOf DEF Texts
  <2> DEFINE before == SubSeq(s, 1, First(s) - 1)
  <2>4. ReadOf(f, s) = [queries |-> <<QueryOf(s)>> \o r.queries, free |-> before \o r.free]
    BY <1>2 DEF ReadOf, FreeText
  <2> HIDE DEF r, before
  <2>5. <<QueryOf(s)>> \o r.queries \in Seq(FieldQueries)
    BY <2>1, <2>2
  <2>6. before \o r.free \in Seq(Chars)
    BY <2>2, <2>3 DEF before
  <2> QED BY <2>4, <2>5, <2>6 DEF Reads, Texts
<1> QED BY <1>1, <1>2

(* Read takes such steps.                                                  *)
LEMMA ReadIs ==
  /\ Read \in [Texts -> Reads]
  /\ \A s \in Texts : Read[s] = ReadOf(Read, s)
<1> DEFINE rank == [s \in Texts |-> Len(s)]
           G == [f \in [Texts -> Reads] |-> [s \in Texts |-> ReadOf(f, s)]]
           none == [queries |-> << >>, free |-> << >>]
<1>1. rank \in [Texts -> Nat]
  BY DEF Texts
<1>2. none \in Reads
  <2>1. << >> \in Seq(FieldQueries) /\ << >> \in Texts
    BY DEF Texts
  <2> QED BY <2>1 DEF Reads
<1>3. \A f \in [Texts -> Reads] : \A s \in Texts : ReadOf(f, s) \in Reads
  BY ReadOfType, PartsType
<1>4. G \in [[Texts -> Reads] -> [Texts -> Reads]]
  BY <1>3
<1>5. Local(Texts, Reads, rank, G)
  <2> SUFFICES ASSUME NEW f \in [Texts -> Reads], NEW g \in [Texts -> Reads], NEW s \in Texts,
                      \A z \in Texts : rank[z] < rank[s] => f[z] = g[z]
               PROVE  G[f][s] = G[g][s]
    BY DEF Local
  <2>1. Starts(s) # {} => f[RestOf(s)] = g[RestOf(s)]
    BY PartsType
  <2>2. ReadOf(f, s) = ReadOf(g, s)
    BY <2>1 DEF ReadOf
  <2> QED BY <2>2
<1>6. \E f \in [Texts -> Reads] : f = G[f]
  <2> HIDE DEF rank, G, none
  <2>1. Computes(Texts, Reads, rank, G)
    BY <1>1, <1>2, <1>4, <1>5 DEF Computes
  <2> QED BY <2>1, Recursion
<1>7. \E f : f = [s \in Texts |-> ReadOf(f, s)]
  BY <1>6
<1>8. Read = CHOOSE f : f = [s \in Texts |-> ReadOf(f, s)]
  BY DEF Read, ReadOf, Starts, First, ColonOf, EndOf, RestOf, QueryOf
<1>9. Read = [s \in Texts |-> ReadOf(Read, s)]
  BY <1>7, <1>8
<1>10. \A s \in Texts : Read[s] = ReadOf(Read, s)
  BY <1>9
<1> DEFINE U == {n \in Nat : \A s \in Texts : Len(s) <= n => Read[s] \in Reads}
<1>11. 0 \in U
  <2> SUFFICES ASSUME NEW s \in Texts, Len(s) <= 0
               PROVE  Read[s] \in Reads
    OBVIOUS
  <2>1. Starts(s) = {}
    BY PartsType
  <2> QED BY <1>10, <2>1, ReadOfType
<1>12. ASSUME NEW n \in Nat, n \in U
       PROVE  n + 1 \in U
  <2> SUFFICES ASSUME NEW s \in Texts, Len(s) <= n + 1
               PROVE  Read[s] \in Reads
    OBVIOUS
  <2>1. Starts(s) # {} => RestOf(s) \in Texts /\ Len(RestOf(s)) <= n
    <3> SUFFICES ASSUME Starts(s) # {}
                 PROVE  RestOf(s) \in Texts /\ Len(RestOf(s)) <= n
      OBVIOUS
    <3>1. RestOf(s) \in Texts /\ Len(RestOf(s)) < Len(s) /\ Len(s) \in Nat /\ Len(RestOf(s)) \in Nat
      BY PartsType DEF Texts
    <3> QED BY <3>1
  <2>2. Starts(s) # {} => Read[RestOf(s)] \in Reads
    BY <1>12, <2>1
  <2> QED BY <1>10, <2>2, ReadOfType
<1>13. \A n \in Nat : n \in U
  <2> HIDE DEF U
  <2> QED BY <1>11, <1>12, All
<1>14. \A s \in Texts : Read[s] \in Reads
  <2> TAKE s \in Texts
  <2>1. Len(s) \in Nat
    BY DEF Texts
  <2> QED BY <1>13, <2>1
<1> QED BY <1>9, <1>10, <1>14

(* The same, part by part.                                                 *)
LEMMA ReadParts ==
  ASSUME NEW s \in Texts
  PROVE  /\ Starts(s) = {} => Read[s].queries = << >> /\ Read[s].free = s
         /\ Starts(s) # {} =>
              /\ Joins(<<QueryOf(s)>>, Read[RestOf(s)].queries, Read[s].queries)
              /\ Joins(SubSeq(s, 1, First(s) - 1), Read[RestOf(s)].free, Read[s].free)
<1> DEFINE before == SubSeq(s, 1, First(s) - 1)
           first == <<QueryOf(s)>>
           rest == Read[RestOf(s)]
<1>1. Read[s] = ReadOf(Read, s)
  BY ReadIs
<1>2. Starts(s) = {} => Read[s] = [queries |-> << >>, free |-> s]
  BY <1>1 DEF ReadOf
<1>3. Starts(s) # {} => Read[s] = [queries |-> first \o rest.queries, free |-> before \o rest.free]
  BY <1>1, Zenon DEF ReadOf, FreeText
<1> HIDE DEF before, first, rest
<1> DEFINE queries == first \o rest.queries
           free == before \o rest.free
<1>4. Starts(s) # {} => Read[s] = [queries |-> queries, free |-> free]
  BY <1>3
<1>5. Joins(first, rest.queries, queries) /\ Joins(before, rest.free, free)
  BY Zenon DEF Joins
<1> HIDE DEF queries, free
<1>6. Starts(s) # {} => Read[s].queries = queries /\ Read[s].free = free
  BY <1>4
<1>7. Starts(s) = {} => Read[s].queries = << >> /\ Read[s].free = s
  BY <1>2
<1>8. Starts(s) # {} =>
        /\ Joins(first, rest.queries, Read[s].queries)
        /\ Joins(before, rest.free, Read[s].free)
  BY <1>5, <1>6
<1> QED BY <1>7, <1>8 DEF before, first, rest

-----------------------------------------------------------------------------
(***************************************************************************)
(* A pair at the beginning of a text is found there, and ends where it     *)
(* should.                                                                 *)
(***************************************************************************)

(* A word ends where the text does or a blank is.                          *)
LEMMA WordEndIs ==
  ASSUME NEW s \in Texts, NEW v \in 1 .. Len(s), NEW r \in v .. Len(s),
         \A i \in v .. r : s[i] # Blank, r = Len(s) \/ s[r + 1] = Blank
  PROVE  WordEnd(s, v) = r
<1> DEFINE T == {q \in v .. Len(s) : \A i \in v .. q : s[i] # Blank}
<1>1. Len(s) \in Nat
  BY DEF Texts
<1>2. r \in T
  OBVIOUS
<1>3. T \in SUBSET (0 .. Len(s))
  BY <1>1
<1>4. \A q \in T : q <= r
  <2> SUFFICES ASSUME NEW q \in v .. Len(s), \A i \in v .. q : s[i] # Blank, ~ (q <= r)
               PROVE  FALSE
    BY <1>1
  <2>1. r # Len(s) /\ r + 1 \in v .. q
    BY <1>1
  <2> QED BY <2>1
<1>5. Max(T) = r
  <2> HIDE DEF T
  <2> QED BY <1>1, <1>2, <1>3, <1>4, MaxOf
<1> QED BY <1>5 DEF WordEnd

(* A pair at the beginning of a text: its name ends with the colon at      *)
(* n + 1, the only one before the blank or the end at t + 1 that has no    *)
(* blank before or behind it.                                              *)
PairAt(s, n, t) ==
  /\ n \in Nat \ {0} /\ t \in n + 2 .. Len(s)
  /\ \A i \in 1 .. n : s[i] # Blank
  /\ s[n + 1] = Colon /\ s[n + 2] # Blank
  /\ \A e \in n + 2 .. t : s[e] = Colon => e = t \/ \E i \in n + 2 .. e + 1 : s[i] = Blank
  /\ t = Len(s) \/ s[t + 1] = Blank

(* It is the first match, with that colon.                                 *)
LEMMA PairColon ==
  ASSUME NEW s \in Texts, NEW n, NEW t, PairAt(s, n, t)
  PROVE  Starts(s) # {} /\ First(s) = 1 /\ ColonOf(s) = n + 1
<1>0. DOMAIN s = 1 .. Len(s)
  BY DEF Texts
<1>1. Len(s) \in Nat /\ Len(s) >= n + 2 /\ n \in Nat /\ n # 0
      /\ t \in n + 2 .. Len(s)
  BY DEF Texts, PairAt
<1>2. n + 1 \in NameColons(s, 1)
  <2>1. \A i \in 1 .. (n + 1) + 1 : s[i] # Blank
    <3> TAKE i \in 1 .. (n + 1) + 1
    <3>1. i \in 1 .. n \/ i = n + 1 \/ i = n + 2
      BY <1>1
    <3>2. Colon # Blank
      BY CharsApart
    <3> QED BY <3>1, <3>2 DEF PairAt
  <2>2. n + 1 \in 1 + 1 .. Len(s) - 1 /\ s[n + 1] = Colon
    BY <1>1 DEF PairAt
  <2> QED BY <2>1, <2>2 DEF NameColons
<1>3. \A e \in NameColons(s, 1) : e <= n + 1
  <2> SUFFICES ASSUME NEW e \in NameColons(s, 1), ~ (e <= n + 1)
               PROVE  FALSE
    OBVIOUS
  <2>1. e \in 1 + 1 .. Len(s) - 1 /\ s[e] = Colon /\ \A i \in 1 .. e + 1 : s[i] # Blank
    BY DEF NameColons
  <2>2. CASE e \in n + 2 .. t /\ e # t
    <3>1. PICK i \in n + 2 .. e + 1 : s[i] = Blank
      BY <2>1, <2>2 DEF PairAt
    <3>2. i \in 1 .. e + 1
      BY <1>1, <2>1, <3>1
    <3> QED BY <2>1, <3>1, <3>2
  <2>3. CASE ~ (e \in n + 2 .. t /\ e # t)
    <3>1. e \in Int /\ e >= t /\ t + 1 \in 1 .. e + 1 /\ t # Len(s)
      BY <1>1, <2>1, <2>3
    <3>2. s[t + 1] = Blank
      BY <3>1 DEF PairAt
    <3> QED BY <2>1, <3>1, <3>2
  <2> QED BY <2>2, <2>3
<1>4. NameColons(s, 1) \in SUBSET (0 .. Len(s))
  BY <1>1 DEF NameColons
<1>5. Max(NameColons(s, 1)) = n + 1
  BY <1>1, <1>2, <1>3, <1>4, MaxOf
<1>6. 1 \in Starts(s) /\ Starts(s) \in SUBSET Nat /\ \A p \in Starts(s) : 1 <= p
  BY <1>0, <1>1, <1>2 DEF Starts
<1>7. First(s) = 1
  BY <1>6, MinOf DEF First
<1> QED BY <1>5, <1>6, <1>7 DEF ColonOf

(* One blank is skipped if a character follows.                            *)
LEMMA SkipBlanksIs ==
  ASSUME NEW s \in Texts, NEW t \in 1 .. Len(s)
  PROVE  /\ t = Len(s) => SkipBlanks(s, t + 1) = Len(s) + 1
         /\ t < Len(s) /\ s[t + 1] = Blank /\ (t + 2 <= Len(s) => s[t + 2] # Blank)
              => SkipBlanks(s, t + 1) = t + 2
<1> DEFINE T == {k \in t + 1 .. Len(s) + 1 : k = Len(s) + 1 \/ s[k] # Blank}
<1>1. Len(s) \in Nat
  BY DEF Texts
<1>2. T \in SUBSET Nat
  BY <1>1
<1>3. SkipBlanks(s, t + 1) = Min(T)
  BY DEF SkipBlanks
<1>4. ASSUME t = Len(s)
      PROVE  SkipBlanks(s, t + 1) = Len(s) + 1
  <2>1. Len(s) + 1 \in T /\ \A k \in T : Len(s) + 1 <= k
    BY <1>1, <1>4
  <2> HIDE DEF T
  <2> QED BY <1>2, <1>3, <2>1, MinOf
<1>5. ASSUME t < Len(s), s[t + 1] = Blank, t + 2 <= Len(s) => s[t + 2] # Blank
      PROVE  SkipBlanks(s, t + 1) = t + 2
  <2>1. t + 2 \in T
    BY <1>1, <1>5
  <2>2. \A k \in T : k # t + 1 /\ k \in t + 1 .. Len(s) + 1
    BY <1>1, <1>5
  <2>3. \A k \in T : t + 2 <= k
    BY <1>1, <2>2
  <2> HIDE DEF T
  <2> QED BY <1>2, <1>3, <2>1, <2>3, MinOf
<1> QED BY <1>4, <1>5

(* The value of a pair that is not in quotes ends with its word, the value *)
(* of one in quotes with the second of them.                               *)
LEMMA BareEnd ==
  ASSUME NEW s \in Texts, NEW n, NEW t, PairAt(s, n, t),
         s[n + 2] # Quote, \A i \in n + 2 .. t : s[i] # Blank
  PROVE  EndOf(s) = t
<1>1. Len(s) \in Nat /\ n \in Nat /\ t \in n + 2 .. Len(s) /\ (t = Len(s) \/ s[t + 1] = Blank)
  BY DEF Texts, PairAt
<1>2. ColonOf(s) + 1 = n + 2
  BY <1>1, PairColon
<1>3. n + 2 \in 1 .. Len(s) /\ s[n + 2] # Quote
  BY <1>1
<1>4. WordEnd(s, n + 2) = t
  BY <1>1, <1>3, WordEndIs
<1>5. ValueEnd(s, n + 2) = WordEnd(s, n + 2)
  BY <1>3 DEF ValueEnd
<1> QED BY <1>2, <1>4, <1>5 DEF EndOf

(* (The second quote.)                                                     *)
LEMMA QuotedEnd ==
  ASSUME NEW s \in Texts, NEW n, NEW t, PairAt(s, n, t), s[n + 2] = Quote, s[t] = Quote,
         n + 3 <= t, \A i \in n + 3 .. t - 1 : s[i] # Quote
  PROVE  EndOf(s) = t
<1> DEFINE v == n + 2
           closing == {i \in v + 2 .. Len(s) :
                         s[i] = Quote /\ \A j \in v + 1 .. i - 1 : s[j] # Quote}
<1>1. Len(s) \in Nat /\ n \in Nat /\ t \in n + 2 .. Len(s) /\ (t = Len(s) \/ s[t + 1] = Blank)
  BY DEF Texts, PairAt
<1>2. ColonOf(s) + 1 = v
  BY <1>1, PairColon
<1>3. ValueEnd(s, v) = IF s[v] = Quote /\ closing # {} THEN Min(closing) ELSE WordEnd(s, v)
  BY DEF ValueEnd
<1>4. closing \in SUBSET Nat
  BY <1>1
<1>5. CASE t = n + 3
  <2>1. closing = {}
    <3> SUFFICES ASSUME NEW i \in v + 2 .. Len(s), \A j \in v + 1 .. i - 1 : s[j] # Quote
                 PROVE  FALSE
      OBVIOUS
    <3>1. t \in v + 1 .. i - 1
      BY <1>1, <1>5
    <3> QED BY <3>1
  <2>2. \A i \in v .. t : s[i] # Blank
    <3> TAKE i \in v .. t
    <3>1. i = n + 2 \/ i = t
      BY <1>1, <1>5
    <3> QED BY <3>1, CharsApart
  <2>3. v \in 1 .. Len(s) /\ t \in v .. Len(s)
    BY <1>1
  <2>4. WordEnd(s, v) = t
    BY <1>1, <2>2, <2>3, WordEndIs
  <2> QED BY <1>2, <1>3, <2>1, <2>4 DEF EndOf
<1>6. CASE t # n + 3
  <2>1. t \in closing
    BY <1>1, <1>6
  <2>2. \A i \in closing : t <= i
    <3> SUFFICES ASSUME NEW i \in v + 2 .. Len(s), s[i] = Quote, ~ (t <= i)
                 PROVE  FALSE
      BY <1>1
    <3>1. i \in n + 3 .. t - 1
      BY <1>1
    <3> QED BY <3>1
  <2>3. Min(closing) = t
    <3> HIDE DEF closing
    <3> QED BY <1>4, <2>1, <2>2, MinOf
  <2> QED BY <1>2, <1>3, <2>1, <2>3 DEF EndOf
<1> QED BY <1>5, <1>6

(* What is left behind a pair.                                             *)
LEMMA PairRest ==
  ASSUME NEW s \in Texts, NEW n, NEW t, PairAt(s, n, t), EndOf(s) = t,
         t + 2 <= Len(s) => s[t + 2] # Blank
  PROVE  /\ t = Len(s) => RestOf(s) = << >>
         /\ t < Len(s) => RestOf(s) = SubSeq(s, t + 2, Len(s))
<1>1. Len(s) \in Nat /\ n \in Nat /\ t \in n + 2 .. Len(s) /\ (t = Len(s) \/ s[t + 1] = Blank)
  BY DEF Texts, PairAt
<1>2. t \in 1 .. Len(s)
  BY <1>1
<1>3. ASSUME t = Len(s)
      PROVE  RestOf(s) = << >>
  <2>1. RestOf(s) = SubSeq(s, Len(s) + 1, Len(s))
    BY <1>2, <1>3, SkipBlanksIs DEF RestOf
  <2>2. SubSeq(s, Len(s) + 1, Len(s)) = << >>
    BY <1>1 DEF Texts
  <2> QED BY <2>1, <2>2
<1>4. ASSUME t < Len(s)
      PROVE  RestOf(s) = SubSeq(s, t + 2, Len(s))
  <2>1. s[t + 1] = Blank
    BY <1>1, <1>4
  <2> QED BY <1>2, <1>4, <2>1, SkipBlanksIs DEF RestOf
<1> QED BY <1>3, <1>4

-----------------------------------------------------------------------------
(***************************************************************************)
(* Strip.                                                                  *)
(***************************************************************************)

(* What Strip leaves lies between the first and the last character kept.   *)
LEMMA StripIs ==
  ASSUME NEW s \in Texts, NEW c, NEW a \in 1 .. Len(s), NEW b \in a .. Len(s),
         s[a] # c, s[b] # c, \A i \in 1 .. Len(s) : i < a \/ b < i => s[i] = c
  PROVE  Strip(s, c) = SubSeq(s, a, b)
<1> DEFINE kept == {i \in DOMAIN s : s[i] # c}
<1>1. Len(s) \in Nat
  BY DEF Texts
<1>2. DOMAIN s = 1 .. Len(s)
  BY DEF Texts
<1>3. a \in kept /\ b \in kept /\ kept \in SUBSET (1 .. Len(s))
  BY <1>1, <1>2
<1>4. \A i \in kept : a <= i /\ i <= b
  BY <1>1, <1>2
<1>5. kept \in SUBSET Nat /\ kept \in SUBSET (0 .. Len(s)) /\ kept # {}
  BY <1>1, <1>3
<1> HIDE DEF kept
<1>6. Min(kept) = a
  BY <1>3, <1>4, <1>5, MinOf
<1>7. Max(kept) = b
  BY <1>1, <1>3, <1>4, <1>5, MaxOf
<1>8. Strip(s, c) = IF kept = {} THEN << >> ELSE SubSeq(s, Min(kept), Max(kept))
  BY DEF Strip, kept
<1> QED BY <1>5, <1>6, <1>7, <1>8

(* Of a text of nothing else, nothing is left.                             *)
LEMMA StripNone ==
  ASSUME NEW s \in Texts, NEW c, \A i \in 1 .. Len(s) : s[i] = c
  PROVE  Strip(s, c) = << >>
BY DEF Strip, Texts

(* A text is all of its characters.                                        *)
LEMMA WholeText ==
  ASSUME NEW s \in Texts
  PROVE  SubSeq(s, 1, Len(s)) = s
BY DEF Texts

(* A value in quotes is left as it is without them.                        *)
LEMMA StripQuotes ==
  ASSUME NEW w \in Texts, NEW c, NEW value \in Texts, Len(w) = Len(value) + 2,
         w[1] = c, w[Len(w)] = c, \A j \in 1 .. Len(value) : w[j + 1] = value[j] /\ value[j] # c
  PROVE  Strip(w, c) = value
<1>1. Len(w) \in Nat /\ Len(value) \in Nat
  BY DEF Texts
<1>2. CASE Len(value) = 0
  <2>1. \A i \in 1 .. Len(w) : w[i] = c
    BY <1>1, <1>2
  <2>2. value = << >>
    BY <1>2 DEF Texts
  <2> QED BY <2>1, <2>2, StripNone
<1>3. CASE Len(value) # 0
  <2> DEFINE m == Len(value)
  <2>1. m \in Nat \ {0} /\ Len(w) = m + 2 /\ 2 \in 1 .. Len(w) /\ m + 1 \in 2 .. Len(w)
    BY <1>1, <1>3
  <2>2. w[2] # c /\ w[m + 1] # c
    <3>1. 1 \in 1 .. Len(value) /\ m \in 1 .. Len(value) /\ 1 + 1 = 2
      BY <2>1
    <3> QED BY <3>1
  <2>3. \A i \in 1 .. Len(w) : i < 2 \/ m + 1 < i => w[i] = c
    <3> TAKE i \in 1 .. Len(w)
    <3> HAVE i < 2 \/ m + 1 < i
    <3>1. i = 1 \/ i = Len(w)
      BY <2>1
    <3> QED BY <3>1
  <2>4. Strip(w, c) = SubSeq(w, 2, m + 1)
    BY <2>1, <2>2, <2>3, StripIs
  <2>5. SubSeq(w, 2, m + 1) = value
    <3>1. SubSeq(w, 2, m + 1) \in Seq(Chars) /\ Len(SubSeq(w, 2, m + 1)) = m
      BY <2>1 DEF Texts
    <3>2. \A j \in 1 .. m : SubSeq(w, 2, m + 1)[j] = value[j]
      <4> TAKE j \in 1 .. m
      <4>1. SubSeq(w, 2, m + 1)[j] = w[j + 1]
        BY <2>1 DEF Texts
      <4> QED BY <4>1
    <3>3. value \in Seq(Chars)
      BY DEF Texts
    <3> HIDE DEF m
    <3> DEFINE part == SubSeq(w, 2, m + 1)
    <3> HIDE DEF part
    <3>4. part \in Seq(Chars) /\ Len(part) = Len(value) /\ \A j \in 1 .. Len(value) : part[j] = value[j]
      BY <3>1, <3>2 DEF part, m
    <3>5. part = value
      BY <3>3, <3>4, SeqEqual
    <3> QED BY <3>5 DEF part
  <2> QED BY <2>4, <2>5
<1> QED BY <1>2, <1>3

-----------------------------------------------------------------------------
(***************************************************************************)
(* The texts of pairs, and what comes behind them.                         *)
(***************************************************************************)

(* Two texts, one behind the other, character by character.                *)
WholeOf(a, n, b, m, c) ==
  /\ c \in Seq(Chars) /\ n \in Nat /\ m \in Nat /\ Len(c) = n + m
  /\ \A i \in 1 .. n : c[i] = a[i]
  /\ \A j \in 1 .. m : c[n + j] = b[j]

(* What is put together is that.                                           *)
LEMMA Both ==
  ASSUME NEW a \in Seq(Chars), NEW b \in Seq(Chars), NEW c, Joins(a, b, c),
         NEW n, n = Len(a), NEW m, m = Len(b)
  PROVE  WholeOf(a, n, b, m, c)
BY DEF Joins, WholeOf

(* The texts of pairs, character by character.                             *)
IsQuotedText(name, value, u) == u = name \o <<Colon, Quote>> \o value \o <<Quote>>

(* A name, a colon, a quote, a value and a quote.                          *)
QuotedChars(name, value, u) ==
  /\ u \in Texts /\ Len(u) = Len(name) + Len(value) + 3
  /\ \A i \in 1 .. Len(name) : u[i] = name[i]
  /\ u[Len(name) + 1] = Colon /\ u[Len(name) + 2] = Quote
  /\ \A j \in 1 .. Len(value) : u[Len(name) + 2 + j] = value[j]
  /\ u[Len(name) + Len(value) + 3] = Quote

(* That is the text of a quoted pair.                                      *)
LEMMA QuotedText ==
  ASSUME NEW name \in Texts, NEW value \in Texts, NEW u, IsQuotedText(name, value, u)
  PROVE  QuotedChars(name, value, u)
<1> DEFINE two == <<Colon, Quote>>
           one == <<Quote>>
           a == name \o two
           b == a \o value
           n == Len(name)
           m == Len(value)
<1>1. name \in Seq(Chars) /\ value \in Seq(Chars) /\ n \in Nat /\ m \in Nat
  BY DEF Texts
<1>2. /\ two \in Seq(Chars) /\ Len(two) = 2 /\ two[1] = Colon /\ two[2] = Quote
      /\ one \in Seq(Chars) /\ Len(one) = 1 /\ one[1] = Quote
  BY CharsApart
<1> HIDE DEF two, one
<1>0. Joins(name, two, a) /\ Joins(a, value, b) /\ Joins(b, one, u)
  BY Zenon DEF Joins, one, two, a, b, IsQuotedText
<1> HIDE DEF a, b
<1>3. /\ a \in Seq(Chars) /\ Len(a) = n + 2 /\ \A i \in 1 .. n : a[i] = name[i]
      /\ a[n + 1] = Colon /\ a[n + 2] = Quote
  <2>1. WholeOf(name, n, two, 2, a)
    BY <1>0, <1>1, <1>2, Both
  <2> QED BY <1>2, <2>1 DEF WholeOf
<1>4. /\ b \in Seq(Chars) /\ Len(b) = n + 2 + m /\ \A i \in 1 .. n + 2 : b[i] = a[i]
      /\ \A j \in 1 .. m : b[n + 2 + j] = value[j]
  <2>1. WholeOf(a, n + 2, value, m, b)
    BY <1>0, <1>1, <1>3, Both
  <2> QED BY <2>1 DEF WholeOf
<1>5. /\ u \in Seq(Chars) /\ Len(u) = n + m + 3 /\ \A i \in 1 .. n + 2 + m : u[i] = b[i]
      /\ u[n + m + 3] = Quote
  <2>1. WholeOf(b, n + 2 + m, one, 1, u)
    BY <1>0, <1>2, <1>4, Both
  <2>2. n + 2 + m + 1 = n + m + 3 /\ 1 \in 1 .. 1
    BY <1>1
  <2> QED BY <1>2, <2>1, <2>2 DEF WholeOf
<1>6. \A i \in 1 .. n : u[i] = name[i]
  BY <1>1, <1>3, <1>4, <1>5
<1>7. u[n + 1] = Colon /\ u[n + 2] = Quote
  <2>1. n + 1 \in 1 .. n + 2 + m /\ n + 1 \in 1 .. n + 2
    BY <1>1
  <2>2. n + 2 \in 1 .. n + 2 + m /\ n + 2 \in 1 .. n + 2
    BY <1>1
  <2> QED BY <1>3, <1>4, <1>5, <2>1, <2>2
<1>8. \A j \in 1 .. m : u[n + 2 + j] = value[j]
  <2> TAKE j \in 1 .. m
  <2>1. n + 2 + j \in 1 .. n + 2 + m
    BY <1>1
  <2> QED BY <1>4, <1>5, <2>1
<1>9. u \in Texts /\ Len(u) = n + m + 3 /\ u[n + m + 3] = Quote
  BY <1>5 DEF Texts
<1> QED BY <1>6, <1>7, <1>8, <1>9 DEF QuotedChars

(* A name, a colon and a value.                                            *)
IsBareText(name, value, u) == u = name \o <<Colon>> \o value

(* (Character by character.)                                               *)
BareChars(name, value, u) ==
  /\ u \in Texts /\ Len(u) = Len(name) + Len(value) + 1
  /\ \A i \in 1 .. Len(name) : u[i] = name[i]
  /\ u[Len(name) + 1] = Colon
  /\ \A j \in 1 .. Len(value) : u[Len(name) + 1 + j] = value[j]

(* That is the text of a bare pair.                                        *)
LEMMA BareText ==
  ASSUME NEW name \in Texts, NEW value \in Texts, NEW u, IsBareText(name, value, u)
  PROVE  BareChars(name, value, u)
<1> DEFINE one == <<Colon>>
           a == name \o one
           n == Len(name)
           m == Len(value)
<1>1. name \in Seq(Chars) /\ value \in Seq(Chars) /\ n \in Nat /\ m \in Nat
  BY DEF Texts
<1>2. one \in Seq(Chars) /\ Len(one) = 1 /\ one[1] = Colon
  BY CharsApart
<1> HIDE DEF one
<1>0. Joins(name, one, a) /\ Joins(a, value, u)
  BY Zenon DEF Joins, one, a, IsBareText
<1> HIDE DEF a
<1>3. /\ a \in Seq(Chars) /\ Len(a) = n + 1 /\ \A i \in 1 .. n : a[i] = name[i]
      /\ a[n + 1] = Colon
  <2>1. WholeOf(name, n, one, 1, a)
    BY <1>0, <1>1, <1>2, Both
  <2> QED BY <1>2, <2>1 DEF WholeOf
<1>4. /\ u \in Seq(Chars) /\ Len(u) = n + 1 + m /\ \A i \in 1 .. n + 1 : u[i] = a[i]
      /\ \A j \in 1 .. m : u[n + 1 + j] = value[j]
  <2>1. WholeOf(a, n + 1, value, m, u)
    BY <1>0, <1>1, <1>3, Both
  <2> QED BY <2>1 DEF WholeOf
<1>5. \A i \in 1 .. n : u[i] = name[i]
  BY <1>1, <1>3, <1>4
<1>6. u[n + 1] = Colon
  BY <1>1, <1>2, <1>3, <1>4
<1>7. u \in Texts /\ Len(u) = n + m + 1
  BY <1>1, <1>4 DEF Texts
<1> QED BY <1>4, <1>5, <1>6, <1>7 DEF BareChars

(* A text that begins with u and goes on, if at all, with a blank and c.   *)
After(s, u, c) ==
  /\ s \in Texts /\ u \in Texts /\ c \in Texts /\ Len(u) <= Len(s)
  /\ \A i \in 1 .. Len(u) : s[i] = u[i]
  /\ c = << >> => Len(s) = Len(u)
  /\ c # << >> => /\ Len(s) = Len(u) + 1 + Len(c)
                  /\ s[Len(u) + 1] = Blank
                  /\ \A j \in 1 .. Len(c) : s[Len(u) + 1 + j] = c[j]

(* Nothing, or a blank and more.                                           *)
LEMMA AfterNone ==
  ASSUME NEW u \in Texts
  PROVE  After(u, u, << >>)
<1>1. << >> \in Texts /\ Len(u) \in Nat
  BY DEF Texts
<1> QED BY <1>1 DEF After

(* (A blank and more.)                                                     *)
LEMMA AfterSome ==
  ASSUME NEW u \in Texts, NEW c \in Texts, c # << >>
  PROVE  After((u \o <<Blank>>) \o c, u, c)
<1> DEFINE one == <<Blank>>
           a == u \o one
           s == a \o c
           n == Len(u)
           m == Len(c)
<1>1. u \in Seq(Chars) /\ c \in Seq(Chars) /\ n \in Nat /\ m \in Nat
  BY DEF Texts
<1>2. one \in Seq(Chars) /\ Len(one) = 1 /\ one[1] = Blank
  BY CharsApart
<1> HIDE DEF one
<1>0. Joins(u, one, a) /\ Joins(a, c, s)
  BY Zenon DEF Joins
<1> HIDE DEF a, s
<1>3. /\ a \in Seq(Chars) /\ Len(a) = n + 1 /\ \A i \in 1 .. n : a[i] = u[i]
      /\ a[n + 1] = Blank
  <2>1. WholeOf(u, n, one, 1, a)
    BY <1>0, <1>1, <1>2, Both
  <2> QED BY <1>2, <2>1 DEF WholeOf
<1>4. /\ s \in Seq(Chars) /\ Len(s) = n + 1 + m /\ \A i \in 1 .. n + 1 : s[i] = a[i]
      /\ \A j \in 1 .. m : s[n + 1 + j] = c[j]
  <2>1. WholeOf(a, n + 1, c, m, s)
    BY <1>0, <1>1, <1>3, Both
  <2> QED BY <2>1 DEF WholeOf
<1>5. \A i \in 1 .. n : s[i] = u[i]
  BY <1>1, <1>3, <1>4
<1>6. s[n + 1] = Blank
  BY <1>1, <1>2, <1>3, <1>4
<1>7. s \in Texts /\ n <= Len(s)
  BY <1>1, <1>4 DEF Texts
<1>8. After(s, u, c)
  BY <1>4, <1>5, <1>6, <1>7 DEF After
<1> QED BY <1>8 DEF s, a, one

(* What is behind the blank.                                               *)
LEMMA AfterRest ==
  ASSUME NEW s, NEW u, NEW c, After(s, u, c), c # << >>
  PROVE  SubSeq(s, Len(u) + 2, Len(s)) = c
<1> DEFINE n == Len(u)
           m == Len(c)
           part == SubSeq(s, n + 2, Len(s))
<1>1. s \in Seq(Chars) /\ c \in Seq(Chars) /\ n \in Nat /\ m \in Nat \ {0} /\ Len(s) = n + 1 + m
      /\ \A j \in 1 .. m : s[n + 1 + j] = c[j]
  BY DEF After, Texts
<1>2. part \in Seq(Chars) /\ Len(part) = m /\ \A j \in 1 .. m : part[j] = s[n + 1 + j]
  BY <1>1
<1> HIDE DEF part
<1>3. Len(part) = Len(c) /\ \A j \in 1 .. Len(part) : part[j] = c[j]
  BY <1>1, <1>2
<1>4. part = c
  BY <1>1, <1>2, <1>3, SeqEqual
<1> QED BY <1>4 DEF part

(* A part of what a text begins with.                                      *)
PartIs(s, a, b, u) ==
  /\ a \in 1 .. Len(s) /\ b \in 0 .. Len(s) /\ Len(u) = b + 1 - a
  /\ \A i \in 1 .. Len(u) : s[a - 1 + i] = u[i]

(* It is that part.                                                        *)
LEMMA SamePart ==
  ASSUME NEW s \in Texts, NEW u \in Texts, NEW a, NEW b, PartIs(s, a, b, u)
  PROVE  SubSeq(s, a, b) = u
<1> DEFINE part == SubSeq(s, a, b)
<1>0. Len(u) \in Nat /\ Len(s) \in Nat
  BY DEF Texts
<1>1. part \in Seq(Chars) /\ Len(part) = Len(u) /\ \A i \in 1 .. Len(u) : part[i] = s[a - 1 + i]
  <2>1. s \in Seq(Chars) /\ a \in 1 .. Len(s) /\ b \in 0 .. Len(s) /\ Len(u) = b + 1 - a
    BY DEF Texts, PartIs
  <2> QED BY <1>0, <2>1
<1>2. u \in Seq(Chars)
  BY DEF Texts
<1> HIDE DEF part
<1>3. \A i \in 1 .. Len(part) : part[i] = u[i]
  BY <1>1 DEF PartIs
<1>4. part = u
  BY <1>1, <1>2, <1>3, SeqEqual
<1> QED BY <1>4 DEF part

-----------------------------------------------------------------------------
(***************************************************************************)
(* A well-formed pair at the beginning of a text is read as it was meant.  *)
(***************************************************************************)

(* The query a pair should be read as.                                     *)
PairQuery(name, value) ==
  IF EndsWith(value, Star) THEN WildcardQuery(name, value) ELSE TermQuery(name, value)

(* A pair is read as it was meant, and what comes behind it is left.       *)
ReadAs(s, name, value, c) ==
  /\ Starts(s) # {} /\ First(s) = 1
  /\ QueryOf(s) = PairQuery(name, value) /\ RestOf(s) = c

(* What the conditions on names and values say of their characters.        *)
LEMMA CharsOf ==
  ASSUME NEW text \in Texts
  PROVE  /\ Len(text) \in Nat
         /\ NoBlank(text) <=> Len(text) # 0 /\ \A i \in 1 .. Len(text) : text[i] # Blank
         /\ ~Contains(text, Quote) <=> \A i \in 1 .. Len(text) : text[i] # Quote
<1>1. Len(text) \in Nat /\ DOMAIN text = 1 .. Len(text) /\ (text # << >> <=> Len(text) # 0)
  BY DEF Texts
<1>2. NoBlank(text) <=> Len(text) # 0 /\ \A i \in 1 .. Len(text) : text[i] # Blank
  BY <1>1 DEF NoBlank, Contains
<1>3. ~Contains(text, Quote) <=> \A i \in 1 .. Len(text) : text[i] # Quote
  BY <1>1 DEF Contains
<1> QED BY <1>1, <1>2, <1>3

(* A quote more at the end of a value.                                     *)
LEMMA QuoteMore ==
  ASSUME NEW value \in Texts
  PROVE  LET more == Append(value, Quote)
         IN /\ Len(more) = Len(value) + 1 /\ more[Len(value) + 1] = Quote
            /\ \A i \in 1 .. Len(value) : more[i] = value[i]
BY DEF Texts

(* What comes of a pair once its name and value have been found.           *)
LEMMA PairReadAs ==
  ASSUME NEW s, NEW u, NEW c, After(s, u, c), c # << >> => c[1] # Blank,
         NEW n, NEW t, PairAt(s, n, t), t = Len(u), EndOf(s) = t,
         NEW name \in Texts, NEW value \in Texts, Len(name) = n,
         \A i \in 1 .. n : s[i] = name[i], Strip(SubSeq(s, n + 2, t), Quote) = value
  PROVE  ReadAs(s, name, value, c)
<1>1. s \in Texts /\ c \in Texts /\ Len(s) \in Nat /\ n \in Nat \ {0} /\ t \in n + 2 .. Len(s)
  BY DEF After, PairAt, Texts
<1>2. Starts(s) # {} /\ First(s) = 1 /\ ColonOf(s) = n + 1
  BY <1>1, PairColon
<1>3. SubSeq(s, 1, n) = name
  <2>1. 1 \in 1 .. Len(s) /\ n \in 0 .. Len(s) /\ Len(name) = n + 1 - 1
    BY <1>1
  <2>2. \A i \in 1 .. Len(name) : s[1 - 1 + i] = name[i]
    BY <1>1
  <2>3. PartIs(s, 1, n, name)
    BY <2>1, <2>2 DEF PartIs
  <2> QED BY <1>1, <2>3, SamePart
<1>4. QueryOf(s) = PairQuery(name, value)
  <2>1. (n + 1) - 1 = n /\ (n + 1) + 1 = n + 2
    BY <1>1
  <2>2. QueryOf(s) = FieldQuery(name, SubSeq(s, n + 2, t))
    BY <1>2, <1>3, <2>1 DEF QueryOf
  <2> QED BY <2>2 DEF FieldQuery, PairQuery
<1>5. RestOf(s) = c
  <2>1. CASE c = << >>
    <3>1. t = Len(s) /\ ~ (t + 2 <= Len(s))
      BY <1>1, <2>1 DEF After
    <3> QED BY <1>1, <2>1, <3>1, PairRest
  <2>2. CASE c # << >>
    <3>1. Len(c) \in Nat \ {0}
      BY <1>1, <2>2 DEF Texts
    <3>2. Len(s) = t + 1 + Len(c) /\ \A j \in 1 .. Len(c) : s[t + 1 + j] = c[j]
      BY <2>2 DEF After
    <3>3. t < Len(s) /\ s[t + 1 + 1] = c[1] /\ t + 1 + 1 = t + 2
      BY <1>1, <3>1, <3>2
    <3>4. s[t + 2] # Blank
      BY <2>2, <3>3
    <3>5. RestOf(s) = SubSeq(s, t + 2, Len(s))
      BY <1>1, <3>3, <3>4, PairRest
    <3>6. SubSeq(s, Len(u) + 2, Len(s)) = c
      BY <2>2, AfterRest
    <3> QED BY <3>5, <3>6
  <2> QED BY <2>1, <2>2
<1> QED BY <1>2, <1>4, <1>5 DEF ReadAs

(* A pair in quotes is read as it was meant,                               *)
LEMMA QuotedRead ==
  ASSUME NEW name \in Texts, NEW value \in Texts, NoBlank(name), ~Contains(value, Quote),
         ~RunsOn(Append(value, Quote)), NEW s, NEW c,
         After(s, name \o <<Colon, Quote>> \o value \o <<Quote>>, c), c # << >> => c[1] # Blank
  PROVE  ReadAs(s, name, value, c)
<1> DEFINE u == name \o <<Colon, Quote>> \o value \o <<Quote>>
           n == Len(name)
           m == Len(value)
           t == n + m + 3
<1>1. /\ u \in Texts /\ Len(u) = t
      /\ \A i \in 1 .. n : u[i] = name[i]
      /\ u[n + 1] = Colon /\ u[n + 2] = Quote /\ u[t] = Quote
      /\ \A j \in 1 .. m : u[n + 2 + j] = value[j]
  <2>1. QuotedChars(name, value, u)
    <3>1. IsQuotedText(name, value, u)
      BY Zenon DEF IsQuotedText
    <3> HIDE DEF u
    <3> QED BY <3>1, QuotedText
  <2> HIDE DEF u
  <2> QED BY <2>1 DEF QuotedChars
<1>0. After(s, u, c)
  OBVIOUS
<1> HIDE DEF u
<1>2. n \in Nat \ {0} /\ m \in Nat /\ (\A i \in 1 .. n : name[i] # Blank)
      /\ (\A i \in 1 .. m : value[i] # Quote)
  BY CharsOf
<1>10. \A i \in 1 .. m : value[i] = Colon => \E j \in 1 .. i + 1 : j <= m /\ value[j] = Blank
  <2> SUFFICES ASSUME NEW i \in 1 .. m, value[i] = Colon
               PROVE  \E j \in 1 .. i + 1 : j <= m /\ value[j] = Blank
    OBVIOUS
  <2> DEFINE more == Append(value, Quote)
  <2>1. Len(more) = m + 1 /\ more[m + 1] = Quote /\ \A j \in 1 .. m : more[j] = value[j]
    BY QuoteMore
  <2> HIDE DEF more
  <2>2. ~RunsOn(more)
    BY DEF more
  <2>3. i \in 1 .. Len(more) - 1 /\ more[i] = Colon
    BY <1>2, <2>1
  <2>4. PICK j \in 1 .. i + 1 : more[j] = Blank
    BY <2>2, <2>3 DEF RunsOn
  <2>5. j # m + 1
    BY <2>1, <2>4, CharsApart
  <2>6. j \in 1 .. m
    BY <1>2, <2>5
  <2> QED BY <2>1, <2>4, <2>6
<1> HIDE DEF n, m
<1>3. /\ s \in Texts /\ t <= Len(s) /\ Len(s) \in Nat /\ t \in Nat
      /\ \A i \in 1 .. t : s[i] = u[i]
      /\ t = Len(s) \/ s[t + 1] = Blank
  BY <1>0, <1>1, <1>2 DEF After, Texts
<1>4. /\ \A i \in 1 .. n : s[i] = name[i]
      /\ s[n + 1] = Colon /\ s[n + 2] = Quote /\ s[t] = Quote
      /\ \A j \in 1 .. m : s[n + 2 + j] = value[j]
  <2>1. \A i \in 1 .. n : i \in 1 .. t
    BY <1>2
  <2>2. n + 1 \in 1 .. t /\ n + 2 \in 1 .. t /\ t \in 1 .. t
    BY <1>2
  <2>3. \A j \in 1 .. m : n + 2 + j \in 1 .. t
    BY <1>2
  <2> HIDE DEF t
  <2> QED BY <1>1, <1>3, <2>1, <2>2, <2>3
<1>5. \A i \in n + 3 .. t - 1 : i - (n + 2) \in 1 .. m /\ s[i] = value[i - (n + 2)]
  <2> TAKE i \in n + 3 .. t - 1
  <2>1. i - (n + 2) \in 1 .. m /\ n + 2 + (i - (n + 2)) = i
    BY <1>2
  <2> QED BY <1>4, <2>1
<1>6. PairAt(s, n, t)
  <2>1. t \in n + 2 .. Len(s)
    BY <1>2, <1>3
  <2>2. \A i \in 1 .. n : s[i] # Blank
    BY <1>2, <1>4
  <2>3. s[n + 2] # Blank
    BY <1>4, CharsApart
  <2>4. ASSUME NEW e \in n + 2 .. t, s[e] = Colon
        PROVE  e = t \/ \E i \in n + 2 .. e + 1 : s[i] = Blank
    <3>1. e # n + 2 /\ e # t
      BY <1>4, <2>4, CharsApart
    <3>2. e \in n + 3 .. t - 1
      BY <1>2, <3>1
    <3> DEFINE j == e - (n + 2)
    <3>3. j \in 1 .. m /\ value[j] = Colon
      BY <1>5, <2>4, <3>2
    <3>4. PICK k \in 1 .. j + 1 : k <= m /\ value[k] = Blank
      BY <1>10, <3>3
    <3>5. k \in 1 .. m /\ n + 2 + k \in n + 2 .. e + 1
      BY <1>2, <3>2, <3>3, <3>4
    <3>6. s[n + 2 + k] = Blank
      BY <1>4, <3>4, <3>5
    <3> QED BY <3>5, <3>6
  <2> HIDE DEF t
  <2> QED BY <1>2, <1>3, <1>4, <2>1, <2>2, <2>3, <2>4 DEF PairAt
<1>7. EndOf(s) = t
  <2>1. \A i \in n + 3 .. t - 1 : s[i] # Quote
    BY <1>2, <1>5
  <2>2. n + 3 <= t
    BY <1>2
  <2> HIDE DEF t
  <2> QED BY <1>3, <1>4, <1>6, <2>1, <2>2, QuotedEnd
<1>8. Strip(SubSeq(s, n + 2, t), Quote) = value
  <2> DEFINE w == SubSeq(s, n + 2, t)
  <2>1. w \in Seq(Chars) /\ Len(w) = m + 2 /\ \A i \in 1 .. m + 2 : w[i] = s[n + 1 + i]
    <3>1. s \in Seq(Chars) /\ Len(s) \in Nat /\ n + 2 \in 1 .. Len(s) /\ t \in n + 2 .. Len(s)
          /\ t = n + m + 3
      BY <1>2, <1>3 DEF Texts
    <3> HIDE DEF t
    <3> QED BY <1>2, <3>1
  <2> HIDE DEF w
  <2>2. w[1] = Quote /\ w[m + 2] = Quote
    <3>1. 1 \in 1 .. m + 2 /\ m + 2 \in 1 .. m + 2 /\ n + 1 + 1 = n + 2 /\ n + 1 + (m + 2) = t
      BY <1>2
    <3> HIDE DEF t
    <3> QED BY <1>4, <2>1, <3>1
  <2>3. \A j \in 1 .. m : w[j + 1] = value[j] /\ value[j] # Quote
    <3> TAKE j \in 1 .. m
    <3>1. j + 1 \in 1 .. m + 2 /\ n + 1 + (j + 1) = n + 2 + j
      BY <1>2
    <3> QED BY <1>2, <1>4, <2>1, <3>1
  <2>4. w \in Texts /\ Len(w) = Len(value) + 2 /\ w[Len(w)] = Quote
        /\ \A j \in 1 .. Len(value) : w[j + 1] = value[j] /\ value[j] # Quote
    BY <2>1, <2>2, <2>3 DEF Texts, m
  <2>5. Strip(w, Quote) = value
    BY <2>2, <2>4, StripQuotes
  <2> QED BY <2>5 DEF w
<1> HIDE DEF t
<1>9. Len(name) = n
  BY DEF n
<1> QED BY <1>0, <1>1, <1>4, <1>6, <1>7, <1>8, <1>9, PairReadAs

(* and so is one without quotes.                                           *)
LEMMA BareRead ==
  ASSUME NEW name \in Texts, NEW value \in Texts, NoBlank(name), NoBlank(value),
         Quote \notin {Head(value), Last(value)}, ~RunsOn(value), NEW s, NEW c,
         After(s, name \o <<Colon>> \o value, c), c # << >> => c[1] # Blank
  PROVE  ReadAs(s, name, value, c)
<1> DEFINE u == name \o <<Colon>> \o value
           n == Len(name)
           m == Len(value)
           t == n + m + 1
<1>1. /\ u \in Texts /\ Len(u) = t
      /\ \A i \in 1 .. n : u[i] = name[i]
      /\ u[n + 1] = Colon
      /\ \A j \in 1 .. m : u[n + 1 + j] = value[j]
  <2>1. BareChars(name, value, u)
    <3>1. IsBareText(name, value, u)
      BY Zenon DEF IsBareText
    <3> HIDE DEF u
    <3> QED BY <3>1, BareText
  <2> HIDE DEF u
  <2> QED BY <2>1 DEF BareChars
<1>0. After(s, u, c)
  OBVIOUS
<1> HIDE DEF u
<1>2. n \in Nat \ {0} /\ m \in Nat \ {0} /\ (\A i \in 1 .. n : name[i] # Blank)
      /\ (\A i \in 1 .. m : value[i] # Blank)
  BY CharsOf
<1>11. value[1] # Quote /\ value[m] # Quote
  BY <1>2 DEF Last, Texts
<1>12. \A i \in 1 .. m : value[i] = Colon => i = m
  <2> SUFFICES ASSUME NEW i \in 1 .. m, value[i] = Colon, i # m
               PROVE  FALSE
    OBVIOUS
  <2>1. i \in 1 .. Len(value) - 1 /\ \A j \in 1 .. i + 1 : j \in 1 .. m
    BY <1>2
  <2> QED BY <1>2, <2>1 DEF RunsOn
<1> HIDE DEF n, m
<1>3. /\ s \in Texts /\ t <= Len(s) /\ Len(s) \in Nat /\ t \in Nat
      /\ \A i \in 1 .. t : s[i] = u[i]
      /\ t = Len(s) \/ s[t + 1] = Blank
  BY <1>0, <1>1, <1>2 DEF After, Texts
<1>4. /\ \A i \in 1 .. n : s[i] = name[i]
      /\ s[n + 1] = Colon
      /\ \A j \in 1 .. m : s[n + 1 + j] = value[j]
  <2>1. \A i \in 1 .. n : i \in 1 .. t
    BY <1>2
  <2>2. n + 1 \in 1 .. t
    BY <1>2
  <2>3. \A j \in 1 .. m : n + 1 + j \in 1 .. t
    BY <1>2
  <2> HIDE DEF t
  <2> QED BY <1>1, <1>3, <2>1, <2>2, <2>3
<1>5. \A i \in n + 2 .. t : i - (n + 1) \in 1 .. m /\ s[i] = value[i - (n + 1)]
  <2> TAKE i \in n + 2 .. t
  <2>1. i - (n + 1) \in 1 .. m /\ n + 1 + (i - (n + 1)) = i
    BY <1>2
  <2> QED BY <1>4, <2>1
<1>6. /\ \A i \in n + 2 .. t : s[i] # Blank /\ (s[i] = Colon => i = t)
      /\ s[n + 2] # Quote
  <2>1. ASSUME NEW i \in n + 2 .. t
        PROVE  s[i] # Blank /\ (s[i] = Colon => i = t)
    <3> DEFINE k == i - (n + 1)
    <3>1. k \in 1 .. m /\ s[i] = value[k] /\ (k = m => i = t)
      BY <1>2, <1>5
    <3> HIDE DEF k, t
    <3> QED BY <1>2, <1>12, <3>1
  <2>2. 1 \in 1 .. m /\ n + 1 + 1 = n + 2
    BY <1>2
  <2>3. s[n + 2] # Quote
    BY <1>4, <1>11, <2>2
  <2> HIDE DEF t
  <2> QED BY <2>1, <2>3
<1>7. PairAt(s, n, t)
  <2>1. t \in n + 2 .. Len(s) /\ n + 2 \in n + 2 .. t
    BY <1>2, <1>3
  <2>2. \A i \in 1 .. n : s[i] # Blank
    BY <1>2, <1>4
  <2> HIDE DEF t
  <2> QED BY <1>2, <1>3, <1>4, <1>6, <2>1, <2>2 DEF PairAt
<1>8. Strip(SubSeq(s, n + 2, t), Quote) = value
  <2>1. n + 2 \in 1 .. Len(s) /\ t \in 0 .. Len(s) /\ m = t + 1 - (n + 2)
    BY <1>2, <1>3
  <2>2. \A i \in 1 .. m : s[n + 2 - 1 + i] = value[i]
    <3> TAKE i \in 1 .. m
    <3>1. n + 2 - 1 + i = n + 1 + i
      BY <1>2
    <3> QED BY <1>4, <3>1
  <2>3. SubSeq(s, n + 2, t) = value
    <3> HIDE DEF t
    <3>1. PartIs(s, n + 2, t, value)
      BY <1>2, <2>1, <2>2 DEF PartIs, m
    <3> QED BY <1>3, <3>1, SamePart
  <2>4. Strip(value, Quote) = value
    <3>1. 1 \in 1 .. m /\ m \in 1 .. m /\ \A i \in 1 .. m : ~ (i < 1 \/ m < i)
      BY <1>2
    <3>2. Strip(value, Quote) = SubSeq(value, 1, m)
      BY <1>11, <3>1, StripIs DEF m
    <3> QED BY <3>2, WholeText DEF m
  <2> QED BY <2>3, <2>4
<1> HIDE DEF t
<1>9. EndOf(s) = t
  BY <1>3, <1>6, <1>7, BareEnd
<1>10. Len(name) = n
  BY DEF n
<1> QED BY <1>0, <1>1, <1>4, <1>7, <1>8, <1>9, <1>10, PairReadAs

-----------------------------------------------------------------------------
(***************************************************************************)
(* A text before another one shifts what is found in it.                   *)
(***************************************************************************)

(* A text that is c from the character after k on.                         *)
Beyond(s, k, c) ==
  /\ s \in Texts /\ c \in Texts /\ k \in Nat /\ Len(s) = k + Len(c)
  /\ \A i \in 1 .. Len(c) : s[i + k] = c[i]

(* The names and colons in c are where they are in the whole, k later,     *)
LEMMA ShiftColons ==
  ASSUME NEW s, NEW k, NEW c, Beyond(s, k, c), NEW p \in 1 .. Len(c)
  PROVE  /\ \A e \in NameColons(c, p) : e + k \in NameColons(s, p + k)
         /\ \A e \in NameColons(s, p + k) : e - k \in NameColons(c, p)
<1>1. k \in Nat /\ Len(c) \in Nat /\ Len(s) = k + Len(c) /\ \A i \in 1 .. Len(c) : s[i + k] = c[i]
  BY DEF Beyond, Texts
<1>2. ASSUME NEW e \in NameColons(c, p)
      PROVE  e + k \in NameColons(s, p + k)
  <2>1. e \in p + 1 .. Len(c) - 1 /\ c[e] = Colon /\ \A i \in p .. e + 1 : c[i] # Blank
    BY DEF NameColons
  <2>2. e + k \in p + k + 1 .. Len(s) - 1 /\ s[e + k] = Colon
    BY <1>1, <2>1
  <2>3. \A i \in p + k .. e + k + 1 : s[i] # Blank
    <3> TAKE i \in p + k .. e + k + 1
    <3>1. i - k \in p .. e + 1 /\ i - k \in 1 .. Len(c) /\ (i - k) + k = i
      BY <1>1, <2>1
    <3> QED BY <1>1, <2>1, <3>1
  <2> QED BY <2>2, <2>3 DEF NameColons
<1>3. ASSUME NEW e \in NameColons(s, p + k)
      PROVE  e - k \in NameColons(c, p)
  <2>1. e \in p + k + 1 .. Len(s) - 1 /\ s[e] = Colon /\ \A i \in p + k .. e + 1 : s[i] # Blank
    BY DEF NameColons
  <2>2. e - k \in p + 1 .. Len(c) - 1 /\ e - k \in 1 .. Len(c) /\ (e - k) + k = e
    BY <1>1, <2>1
  <2>3. c[e - k] = Colon
    BY <1>1, <2>1, <2>2
  <2>4. \A i \in p .. (e - k) + 1 : c[i] # Blank
    <3> TAKE i \in p .. (e - k) + 1
    <3>1. i + k \in p + k .. e + 1 /\ i \in 1 .. Len(c)
      BY <1>1, <2>1, <2>2
    <3> QED BY <1>1, <2>1, <3>1
  <2> QED BY <2>2, <2>3, <2>4 DEF NameColons
<1> QED BY <1>2, <1>3

(* with the last of the colons,                                            *)
LEMMA ShiftColon ==
  ASSUME NEW s, NEW k, NEW c, Beyond(s, k, c), NEW p \in 1 .. Len(c), NameColons(c, p) # {}
  PROVE  Max(NameColons(s, p + k)) = Max(NameColons(c, p)) + k
<1> DEFINE C == NameColons(c, p)
           S == NameColons(s, p + k)
<1>1. k \in Nat /\ Len(c) \in Nat /\ Len(s) \in Nat /\ c \in Texts /\ s \in Texts
  BY DEF Beyond, Texts
<1>2. C \in SUBSET (0 .. Len(c)) /\ S \in SUBSET (0 .. Len(s))
  BY <1>1 DEF NameColons
<1>3. (\A e \in C : e + k \in S) /\ \A e \in S : e - k \in C
  BY ShiftColons
<1> HIDE DEF C, S
<1>4. C # {}
  BY DEF C
<1>5. Max(C) \in C /\ \A e \in C : e <= Max(C)
  BY <1>1, <1>2, <1>4, MaxIs
<1> DEFINE m == Max(C)
<1>0. (\A e \in C : e \in Nat) /\ (\A e \in S : e \in Nat)
  BY <1>1, <1>2
<1>6. m \in C /\ m \in Nat /\ m + k \in S
  BY <1>0, <1>3, <1>5
<1>7. \A e \in S : e <= m + k
  <2> TAKE e \in S
  <2>1. e - k <= m /\ e \in Int
    BY <1>0, <1>3, <1>5
  <2> HIDE DEF m
  <2> QED BY <1>1, <1>6, <2>1
<1> HIDE DEF m
<1>8. Max(S) = m + k
  BY <1>1, <1>2, <1>6, <1>7, MaxOf
<1> QED BY <1>8 DEF m, C, S

(* Where a word ends, the text does or a blank is.                         *)
LEMMA WordEndNext ==
  ASSUME NEW s \in Texts, NEW v \in 1 .. Len(s), s[v] # Blank
  PROVE  WordEnd(s, v) = Len(s) \/ s[WordEnd(s, v) + 1] = Blank
<1> DEFINE T == {r \in v .. Len(s) : \A i \in v .. r : s[i] # Blank}
           r == WordEnd(s, v)
<1>1. Len(s) \in Nat
  BY DEF Texts
<1>2. v \in T
  BY <1>1
<1>3. T \in SUBSET (0 .. Len(s))
  BY <1>1
<1>4. r \in T /\ \A q \in T : q <= r
  <2>1. r = Max(T)
    BY DEF WordEnd
  <2> HIDE DEF T, r
  <2> QED BY <1>1, <1>2, <1>3, <2>1, MaxIs
<1> HIDE DEF r
<1>5. r \in v .. Len(s) /\ \A i \in v .. r : s[i] # Blank
  BY <1>4
<1> SUFFICES ASSUME r # Len(s), s[r + 1] # Blank
             PROVE  FALSE
  BY DEF r
<1>6. r + 1 \in v .. Len(s) /\ \A i \in v .. r + 1 : i \in v .. r \/ i = r + 1
  BY <1>1, <1>5
<1>7. r + 1 \in T
  BY <1>5, <1>6
<1>8. r + 1 <= r /\ r \in Int
  BY <1>4, <1>5, <1>7
<1> QED BY <1>8

(* the ends of words,                                                      *)
LEMMA ShiftWordEnd ==
  ASSUME NEW s, NEW k, NEW c, Beyond(s, k, c), NEW v \in 1 .. Len(c), c[v] # Blank
  PROVE  WordEnd(s, v + k) = WordEnd(c, v) + k
<1> DEFINE r == WordEnd(c, v)
<1>1. /\ k \in Nat /\ Len(c) \in Nat /\ Len(s) = k + Len(c) /\ c \in Texts /\ s \in Texts
      /\ \A i \in 1 .. Len(c) : s[i + k] = c[i]
  BY DEF Beyond, Texts
<1>2. r \in v .. Len(c) /\ \A i \in v .. r : c[i] # Blank
  BY <1>1, WordEndType
<1>3. r = Len(c) \/ c[r + 1] = Blank
  BY <1>1, WordEndNext
<1> HIDE DEF r
<1>4. v + k \in 1 .. Len(s) /\ r + k \in v + k .. Len(s)
  BY <1>1, <1>2
<1>5. \A i \in v + k .. r + k : s[i] # Blank
  <2> TAKE i \in v + k .. r + k
  <2>1. i - k \in v .. r /\ i - k \in 1 .. Len(c) /\ (i - k) + k = i
    BY <1>1, <1>2
  <2> QED BY <1>1, <1>2, <2>1
<1>6. r + k = Len(s) \/ s[(r + k) + 1] = Blank
  <2>1. CASE r = Len(c)
    BY <1>1, <2>1
  <2>2. CASE r # Len(c)
    <3>1. r + 1 \in 1 .. Len(c) /\ (r + 1) + k = (r + k) + 1
      BY <1>1, <1>2, <2>2
    <3> QED BY <1>1, <1>3, <2>2, <3>1
  <2> QED BY <2>1, <2>2
<1>7. WordEnd(s, v + k) = r + k
  BY <1>1, <1>4, <1>5, <1>6, WordEndIs
<1> QED BY <1>7 DEF r

(* the ends of values,                                                     *)
LEMMA ShiftValueEnd ==
  ASSUME NEW s, NEW k, NEW c, Beyond(s, k, c), NEW v \in 1 .. Len(c), c[v] # Blank
  PROVE  ValueEnd(s, v + k) = ValueEnd(c, v) + k
<1> DEFINE C == {i \in v + 2 .. Len(c) : c[i] = Quote /\ \A j \in v + 1 .. i - 1 : c[j] # Quote}
           S == {i \in v + k + 2 .. Len(s) :
                   s[i] = Quote /\ \A j \in v + k + 1 .. i - 1 : s[j] # Quote}
<1>1. /\ k \in Nat /\ Len(c) \in Nat /\ Len(s) = k + Len(c) /\ c \in Texts /\ s \in Texts
      /\ \A i \in 1 .. Len(c) : s[i + k] = c[i]
  BY DEF Beyond, Texts
<1>2. ASSUME NEW i \in C
      PROVE  i + k \in S
  <2>1. i + k \in v + k + 2 .. Len(s) /\ i \in 1 .. Len(c)
    BY <1>1
  <2>2. \A j \in v + k + 1 .. i + k - 1 : s[j] # Quote
    <3> TAKE j \in v + k + 1 .. i + k - 1
    <3>1. j - k \in v + 1 .. i - 1 /\ j - k \in 1 .. Len(c) /\ (j - k) + k = j
      BY <1>1
    <3> QED BY <1>1, <3>1
  <2> QED BY <1>1, <2>1, <2>2
<1>3. ASSUME NEW i \in S
      PROVE  i - k \in C
  <2>1. i - k \in v + 2 .. Len(c) /\ i - k \in 1 .. Len(c) /\ (i - k) + k = i
    BY <1>1
  <2>2. \A j \in v + 1 .. (i - k) - 1 : c[j] # Quote
    <3> TAKE j \in v + 1 .. (i - k) - 1
    <3>1. j + k \in v + k + 1 .. i - 1 /\ j \in 1 .. Len(c)
      BY <1>1
    <3> QED BY <1>1, <3>1
  <2> QED BY <1>1, <2>1, <2>2
<1>4. C \in SUBSET Nat /\ S \in SUBSET Nat
  BY <1>1
<1>5. /\ ValueEnd(c, v) = IF c[v] = Quote /\ C # {} THEN Min(C) ELSE WordEnd(c, v)
      /\ ValueEnd(s, v + k) = IF s[v + k] = Quote /\ S # {} THEN Min(S) ELSE WordEnd(s, v + k)
  BY DEF ValueEnd
<1> HIDE DEF C, S
<1>6. s[v + k] = c[v] /\ (C # {} <=> S # {})
  BY <1>1, <1>2, <1>3
<1>7. C # {} => Min(S) = Min(C) + k
  <2> SUFFICES ASSUME C # {}
               PROVE  Min(S) = Min(C) + k
    OBVIOUS
  <2> DEFINE m == Min(C)
  <2>1. m \in C /\ \A i \in C : m <= i
    BY <1>4, MinIs
  <2>2. m \in Nat /\ m + k \in S
    BY <1>2, <1>4, <2>1
  <2>3. \A i \in S : m + k <= i
    <3> TAKE i \in S
    <3>1. m <= i - k /\ i \in Nat
      BY <1>3, <1>4, <2>1
    <3> HIDE DEF m
    <3> QED BY <1>1, <2>2, <3>1
  <2> HIDE DEF m
  <2>4. Min(S) = m + k
    BY <1>4, <2>2, <2>3, MinOf
  <2> QED BY <2>4 DEF m
<1>8. WordEnd(s, v + k) = WordEnd(c, v) + k
  BY ShiftWordEnd
<1> QED BY <1>5, <1>6, <1>7, <1>8

(* the ends of blanks,                                                     *)
LEMMA ShiftSkip ==
  ASSUME NEW s, NEW k, NEW c, Beyond(s, k, c), NEW i \in 1 .. Len(c) + 1
  PROVE  SkipBlanks(s, i + k) = SkipBlanks(c, i) + k
<1> DEFINE C == {j \in i .. Len(c) + 1 : j = Len(c) + 1 \/ c[j] # Blank}
           S == {j \in i + k .. Len(s) + 1 : j = Len(s) + 1 \/ s[j] # Blank}
<1>1. /\ k \in Nat /\ Len(c) \in Nat /\ Len(s) = k + Len(c)
      /\ \A j \in 1 .. Len(c) : s[j + k] = c[j]
  BY DEF Beyond, Texts
<1>2. ASSUME NEW j \in C
      PROVE  j + k \in S
  <2>1. j + k \in i + k .. Len(s) + 1 /\ (j = Len(c) + 1 => j + k = Len(s) + 1)
        /\ (j # Len(c) + 1 => j \in 1 .. Len(c))
    BY <1>1
  <2> QED BY <1>1, <2>1
<1>3. ASSUME NEW j \in S
      PROVE  j - k \in C
  <2>1. j - k \in i .. Len(c) + 1 /\ (j = Len(s) + 1 => j - k = Len(c) + 1)
        /\ (j # Len(s) + 1 => j - k \in 1 .. Len(c)) /\ (j - k) + k = j
    BY <1>1
  <2> QED BY <1>1, <2>1
<1>4. C \in SUBSET Nat /\ S \in SUBSET Nat /\ Len(c) + 1 \in C
  BY <1>1
<1>5. SkipBlanks(c, i) = Min(C) /\ SkipBlanks(s, i + k) = Min(S)
  BY DEF SkipBlanks
<1> HIDE DEF C, S
<1> DEFINE m == Min(C)
<1>6. m \in C /\ \A j \in C : m <= j
  BY <1>4, MinIs
<1>7. m \in Nat /\ m + k \in S
  BY <1>2, <1>4, <1>6
<1>8. \A j \in S : m + k <= j
  <2> TAKE j \in S
  <2>1. m <= j - k /\ j \in Nat
    BY <1>3, <1>4, <1>6
  <2> HIDE DEF m
  <2> QED BY <1>1, <1>7, <2>1
<1> HIDE DEF m
<1>9. Min(S) = m + k
  BY <1>4, <1>7, <1>8, MinOf
<1> QED BY <1>5, <1>9 DEF m

(* and the parts of it.                                                    *)
PartShifts(k, c, a, b, d, e) ==
  a \in 1 .. Len(c) + 1 /\ b \in 0 .. Len(c) /\ d = a + k /\ e = b + k

(* Two parts that are the same text.                                       *)
SameCut(s, d, e, c, a, b) == SubSeq(s, d, e) = SubSeq(c, a, b)

(* A part of a text,                                                       *)
LEMMA CutIs ==
  ASSUME NEW c \in Seq(Chars), NEW a \in 1 .. Len(c), NEW b \in a .. Len(c)
  PROVE  /\ SubSeq(c, a, b) \in Seq(Chars) /\ Len(SubSeq(c, a, b)) = b + 1 - a
         /\ \A i \in 1 .. b + 1 - a : SubSeq(c, a, b)[i] = c[a - 1 + i]
OBVIOUS

(* and the part k later of the whole, which is the same.                   *)
LEMMA ShiftPart ==
  ASSUME NEW s, NEW k, NEW c, Beyond(s, k, c), NEW a, NEW b, NEW d, NEW e,
         PartShifts(k, c, a, b, d, e)
  PROVE  SameCut(s, d, e, c, a, b)
<1>0. a \in 1 .. Len(c) + 1 /\ b \in 0 .. Len(c) /\ d = a + k /\ e = b + k
  BY DEF PartShifts
<1> SUFFICES SubSeq(s, a + k, b + k) = SubSeq(c, a, b)
  BY <1>0, Zenon DEF SameCut
<1> DEFINE x == SubSeq(s, a + k, b + k)
           y == SubSeq(c, a, b)
<1>1. /\ k \in Nat /\ Len(c) \in Nat /\ Len(s) = k + Len(c)
      /\ \A j \in 1 .. Len(c) : s[j + k] = c[j]
  BY DEF Beyond, Texts
<1>2. s \in Seq(Chars) /\ c \in Seq(Chars)
  BY DEF Beyond, Texts
<1>3. a + k \in 1 .. Len(s) + 1 /\ b + k \in 0 .. Len(s) /\ (b + k) + 1 - (a + k) = b + 1 - a
  BY <1>0, <1>1
<1>4. CASE a <= b
  <2>1. x \in Seq(Chars) /\ Len(x) = b + 1 - a /\ \A i \in 1 .. b + 1 - a : x[i] = s[a + k - 1 + i]
    BY <1>0, <1>1, <1>2, <1>3, <1>4
  <2>2. y \in Seq(Chars) /\ Len(y) = b + 1 - a /\ \A i \in 1 .. b + 1 - a : y[i] = c[a - 1 + i]
    <3>1. a \in 1 .. Len(c) /\ b \in a .. Len(c)
      BY <1>0, <1>1, <1>4
    <3> QED BY <1>2, <3>1, CutIs
  <2> HIDE DEF x, y
  <2>3. \A i \in 1 .. b + 1 - a : x[i] = y[i]
    <3> TAKE i \in 1 .. b + 1 - a
    <3>1. a - 1 + i \in 1 .. Len(c) /\ (a - 1 + i) + k = a + k - 1 + i
      BY <1>0, <1>1, <1>4
    <3> QED BY <1>1, <2>1, <2>2, <3>1
  <2>4. x = y
    BY <2>1, <2>2, <2>3, SeqEqual
  <2> QED BY <2>4 DEF x, y
<1>5. CASE ~ (a <= b)
  <2>1. a \in Int /\ b \in Int /\ a + k \in Int /\ b + k \in Int /\ b < a /\ b + k < a + k
    BY <1>0, <1>1, <1>5
  <2>2. x = << >> /\ y = << >>
    BY <2>1, SubSeqEmpty
  <2> QED BY <2>2 DEF x, y
<1> QED BY <1>4, <1>5

-----------------------------------------------------------------------------
(***************************************************************************)
(* A free word at the beginning of a text leaves what is found behind it.  *)
(***************************************************************************)

(* A free word and a blank before a text: nothing more is found in the     *)
(* whole than in the text, and only the free text is longer.               *)
LEMMA WordStarts ==
  ASSUME NEW s, NEW k, NEW c, Beyond(s, k, c), k # 0, s[k] = Blank,
         \A i \in 1 .. k - 1 : s[i] # Colon
  PROVE  /\ \A p \in Starts(c) : p + k \in Starts(s)
         /\ \A p \in Starts(s) : p - k \in Starts(c)
<1>1. /\ k \in Nat /\ Len(c) \in Nat /\ Len(s) = k + Len(c)
      /\ \A i \in 1 .. Len(c) : s[i + k] = c[i]
  BY DEF Beyond, Texts
<1>0. DOMAIN c = 1 .. Len(c) /\ DOMAIN s = 1 .. Len(s)
  BY DEF Beyond, Texts
<1>2. ASSUME NEW p \in Starts(c)
      PROVE  p + k \in Starts(s)
  <2>1. p \in 1 .. Len(c) /\ NameColons(c, p) # {}
    BY <1>0 DEF Starts
  <2>2. NameColons(s, p + k) # {}
    BY <2>1, ShiftColons
  <2>3. p + k \in 1 .. Len(s)
    BY <1>1, <2>1
  <2> QED BY <1>0, <2>2, <2>3 DEF Starts
<1>3. ASSUME NEW p \in Starts(s)
      PROVE  p - k \in Starts(c)
  <2>1. p \in 1 .. Len(s) /\ NameColons(s, p) # {}
    BY <1>0 DEF Starts
  <2>2. PICK e \in NameColons(s, p) : TRUE
    BY <2>1
  <2>3. e \in p + 1 .. Len(s) - 1 /\ s[e] = Colon /\ \A i \in p .. e + 1 : s[i] # Blank
    BY <2>2 DEF NameColons
  <2>4. p > k
    <3> SUFFICES ASSUME ~ (p > k)
                 PROVE  FALSE
      OBVIOUS
    <3>1. e # k
      BY <2>3, CharsApart
    <3>2. ~ (e \in 1 .. k - 1)
      BY <2>3
    <3>3. k \in p .. e + 1
      BY <1>1, <2>1, <2>3, <3>1, <3>2
    <3> QED BY <2>3, <3>3
  <2>5. p - k \in 1 .. Len(c) /\ (p - k) + k = p
    BY <1>1, <2>1, <2>4
  <2>6. NameColons(c, p - k) # {}
    BY <2>1, <2>5, ShiftColons
  <2> QED BY <1>0, <2>5, <2>6 DEF Starts
<1> QED BY <1>2, <1>3

(* So the first match is the same one.                                     *)
LEMMA WordParts ==
  ASSUME NEW s, NEW k, NEW c, Beyond(s, k, c), k # 0, s[k] = Blank,
         \A i \in 1 .. k - 1 : s[i] # Colon
  PROVE  /\ Starts(s) = {} <=> Starts(c) = {}
         /\ Starts(c) # {} =>
              /\ First(s) = First(c) + k /\ QueryOf(s) = QueryOf(c)
              /\ RestOf(s) = RestOf(c)
<1>1. k \in Nat /\ Len(c) \in Nat /\ Len(s) = k + Len(c) /\ c \in Texts /\ s \in Texts
  BY DEF Beyond, Texts
<1>0. DOMAIN c = 1 .. Len(c) /\ DOMAIN s = 1 .. Len(s)
  BY DEF Beyond, Texts
<1>2. (\A p \in Starts(c) : p + k \in Starts(s)) /\ \A p \in Starts(s) : p - k \in Starts(c)
  BY WordStarts
<1>3. Starts(s) = {} <=> Starts(c) = {}
  BY <1>2
<1>4. ASSUME Starts(c) # {}
      PROVE  /\ First(s) = First(c) + k /\ QueryOf(s) = QueryOf(c)
             /\ RestOf(s) = RestOf(c)
  <2> DEFINE f == First(c)
             colon == ColonOf(c)
             end == EndOf(c)
  <2>1. Starts(c) \in SUBSET Nat /\ Starts(s) \in SUBSET Nat
    BY <1>0, <1>1 DEF Starts
  <2>2. f \in Starts(c) /\ \A p \in Starts(c) : f <= p
    BY <1>4, <2>1, MinIs DEF First
  <2>3. /\ f \in 1 .. Len(c) /\ colon \in f + 1 .. Len(c) - 1 /\ end \in colon + 1 .. Len(c)
        /\ SkipBlanks(c, end + 1) \in end + 1 .. Len(c) + 1
    BY <1>1, <1>4, PartsType
  <2>0. colon = Max(NameColons(c, f)) /\ NameColons(c, f) # {} /\ end = ValueEnd(c, colon + 1)
    BY <2>2 DEF ColonOf, Starts, EndOf
  <2> HIDE DEF f, colon, end
  <2>4. First(s) = f + k
    <3>1. f + k \in Starts(s)
      BY <1>2, <2>2
    <3>2. \A p \in Starts(s) : f + k <= p
      <4> TAKE p \in Starts(s)
      <4>1. f <= p - k /\ p \in Nat
        BY <1>2, <2>1, <2>2
      <4> QED BY <1>1, <2>3, <4>1
    <3> QED BY <2>1, <3>1, <3>2, MinOf DEF First
  <2>5. ColonOf(s) = colon + k
    BY <2>0, <2>3, <2>4, ShiftColon DEF ColonOf
  <2>6. c[colon + 1] # Blank /\ colon + 1 \in 1 .. Len(c) /\ (colon + k) + 1 = (colon + 1) + k
    <3>1. f \in DOMAIN c
      BY <1>0, <2>3
    <3>2. c[colon + 1] # Blank
      BY <1>1, <2>0, <3>1, ColonsType
    <3> QED BY <1>1, <2>3, <3>2
  <2>7. EndOf(s) = end + k
    BY <2>0, <2>5, <2>6, ShiftValueEnd DEF EndOf
  <2>8. RestOf(s) = RestOf(c)
    <3> DEFINE next == SkipBlanks(c, end + 1)
    <3>1. end + 1 \in 1 .. Len(c) + 1 /\ (end + k) + 1 = (end + 1) + k
      BY <1>1, <2>3
    <3>2. SkipBlanks(s, EndOf(s) + 1) = next + k
      BY <2>7, <3>1, ShiftSkip
    <3>3. next \in 1 .. Len(c) + 1 /\ Len(c) \in 0 .. Len(c) /\ Len(s) = Len(c) + k
      BY <1>1, <2>3
    <3> HIDE DEF next
    <3>0. PartShifts(k, c, next, Len(c), next + k, Len(s))
      BY <3>3 DEF PartShifts
    <3>6. SameCut(s, next + k, Len(s), c, next, Len(c))
      BY <3>0, ShiftPart
    <3>4. SubSeq(s, next + k, Len(s)) = SubSeq(c, next, Len(c))
      BY <3>6, Zenon DEF SameCut
    <3> QED BY <3>2, <3>3, <3>4 DEF RestOf, next, end
  <2>9. QueryOf(s) = QueryOf(c)
    <3>1. f \in 1 .. Len(c) + 1 /\ colon - 1 \in 0 .. Len(c) /\ (colon - 1) + k = (colon + k) - 1
      BY <1>1, <2>3
    <3>0. PartShifts(k, c, f, colon - 1, f + k, (colon + k) - 1)
      BY <3>1 DEF PartShifts
    <3>7. SameCut(s, f + k, (colon + k) - 1, c, f, colon - 1)
      BY <3>0, ShiftPart
    <3>2. SubSeq(s, f + k, (colon + k) - 1) = SubSeq(c, f, colon - 1)
      BY <3>7, Zenon DEF SameCut
    <3>3. colon + 1 \in 1 .. Len(c) + 1 /\ end \in 0 .. Len(c)
      BY <1>1, <2>3
    <3>5. PartShifts(k, c, colon + 1, end, (colon + k) + 1, end + k)
      BY <2>6, <3>3 DEF PartShifts
    <3>6. SameCut(s, (colon + k) + 1, end + k, c, colon + 1, end)
      BY <3>5, ShiftPart
    <3>4. SubSeq(s, (colon + k) + 1, end + k) = SubSeq(c, colon + 1, end)
      BY <3>6, Zenon DEF SameCut
    <3> QED BY <2>4, <2>5, <2>7, <3>2, <3>4 DEF QueryOf, f, colon, end
  <2> QED BY <2>4, <2>8, <2>9 DEF f
<1> QED BY <1>3, <1>4

(* Read of a word, a blank and a text.                                     *)
LEMMA WordRead ==
  ASSUME NEW w \in Texts, NEW c \in Texts, c # << >>, \A i \in 1 .. Len(w) : w[i] # Colon,
         NEW s, Joins(w \o <<Blank>>, c, s)
  PROVE  /\ Read[s].queries = Read[c].queries
         /\ Joins(w \o <<Blank>>, Read[c].free, Read[s].free)
<1> DEFINE head == w \o <<Blank>>
           k == Len(w) + 1
<1>1. After(s, w, c)
  BY AfterSome DEF Joins
<1>2. head \in Seq(Chars) /\ Len(head) = k
  <2>1. w \in Seq(Chars) /\ <<Blank>> \in Seq(Chars)
    BY CharsApart DEF Texts
  <2> QED BY <2>1
<1>0. Joins(head, c, s)
  OBVIOUS
<1> HIDE DEF head
<1>3. Len(w) \in Nat /\ k \in Nat /\ k # 0 /\ Len(c) \in Nat /\ s \in Texts
  BY <1>1 DEF After, Texts
<1>4. Beyond(s, k, c) /\ s[k] = Blank
  <2>1. Len(s) = k + Len(c) /\ s[k] = Blank /\ \A j \in 1 .. Len(c) : s[k + j] = c[j]
    BY <1>1 DEF After
  <2>2. \A j \in 1 .. Len(c) : k + j = j + k
    BY <1>3
  <2> HIDE DEF k
  <2> QED BY <1>3, <2>1, <2>2 DEF Beyond
<1>5. \A i \in 1 .. k - 1 : s[i] # Colon
  <2> TAKE i \in 1 .. k - 1
  <2>1. i \in 1 .. Len(w)
    BY <1>3
  <2>2. s[i] = w[i]
    BY <1>1, <2>1 DEF After
  <2> QED BY <2>1, <2>2
<1> HIDE DEF k
<1>6. /\ Starts(s) = {} <=> Starts(c) = {}
      /\ Starts(c) # {} =>
           First(s) = First(c) + k /\ QueryOf(s) = QueryOf(c) /\ RestOf(s) = RestOf(c)
  BY <1>3, <1>4, <1>5, WordParts
<1>7. CASE Starts(c) = {}
  <2>1. Read[s].queries = << >> /\ Read[s].free = s /\ Read[c].queries = << >> /\ Read[c].free = c
    BY <1>3, <1>6, <1>7, ReadParts
  <2> QED BY <1>0, <2>1 DEF head
<1>8. CASE Starts(c) # {}
  <2> DEFINE f == First(c)
             free == Read[RestOf(c)].free
             before == SubSeq(c, 1, f - 1)
             front == SubSeq(s, 1, (f + k) - 1)
             freeOfC == Read[c].free
             freeOfS == Read[s].free
             rest == Read[RestOf(c)].queries
  <2>0. Joins(<<QueryOf(c)>>, rest, Read[c].queries) /\ Joins(before, free, freeOfC)
    BY <1>8, ReadParts
  <2>1. Joins(<<QueryOf(c)>>, rest, Read[s].queries) /\ Joins(front, free, freeOfS)
    <3>1. Starts(s) # {} /\ First(s) = f + k /\ QueryOf(s) = QueryOf(c) /\ RestOf(s) = RestOf(c)
      BY <1>6, <1>8
    <3>2. /\ Joins(<<QueryOf(s)>>, Read[RestOf(s)].queries, Read[s].queries)
          /\ Joins(SubSeq(s, 1, First(s) - 1), Read[RestOf(s)].free, Read[s].free)
      BY <1>3, <3>1, ReadParts
    <3>3. First(s) - 1 = (f + k) - 1
      BY <3>1, Zenon
    <3>4. SubSeq(s, 1, First(s) - 1) = front
      BY <3>3, Zenon
    <3>5. Joins(front, free, freeOfS)
      BY <3>1, <3>2, <3>4, Zenon
    <3>6. Joins(<<QueryOf(c)>>, rest, Read[s].queries)
      BY <3>1, <3>2, Zenon
    <3> QED BY <3>5, <3>6
  <2>2. Read[s].queries = Read[c].queries
    BY <2>0, <2>1, Zenon DEF Joins
  <2>4. f \in 1 .. Len(c) /\ RestOf(c) \in Texts
    BY <1>8, PartsType
  <2>5. free \in Seq(Chars)
    BY <2>4, ReadIs DEF Reads, Texts
  <2> HIDE DEF free, f
  <2>6. before \in Seq(Chars)
    <3>1. 1 \in 1 .. Len(c) /\ f - 1 \in 0 .. Len(c)
      BY <1>3, <2>4
    <3> QED BY <3>1, PartOf DEF Texts
  <2>7. Joins(head, before, front)
    <3>1. WholeOf(head, k, c, Len(c), s)
      <4>1. c \in Seq(Chars)
        BY DEF Texts
      <4> QED BY <1>0, <1>2, <4>1, Both
    <3>2. front \in Seq(Chars) /\ Len(front) = (f + k) - 1 /\ \A i \in 1 .. (f + k) - 1 : front[i] = s[i]
      <4>1. s \in Seq(Chars) /\ (f + k) - 1 \in 0 .. Len(s)
        BY <1>3, <1>4, <2>4 DEF Texts, Beyond
      <4> QED BY <4>1
    <3>3. Len(before) = f - 1 /\ \A i \in 1 .. f - 1 : before[i] = c[i]
      <4>1. c \in Seq(Chars) /\ f - 1 \in 0 .. Len(c)
        BY <1>3, <2>4 DEF Texts
      <4> QED BY <4>1
    <3> DEFINE both == head \o before
    <3>4. Joins(head, before, both)
      BY Zenon DEF Joins
    <3> HIDE DEF both, before, front
    <3>5. WholeOf(head, k, before, f - 1, both)
      BY <1>2, <2>6, <3>3, <3>4, Both
    <3>6. both \in Seq(Chars) /\ Len(both) = (f + k) - 1
      BY <1>3, <2>4, <3>5 DEF WholeOf
    <3>7. \A i \in 1 .. (f + k) - 1 : front[i] = both[i]
      <4> TAKE i \in 1 .. (f + k) - 1
      <4>1. CASE i <= k
        <5>1. i \in 1 .. k
          BY <1>3, <4>1
        <5>2. s[i] = head[i] /\ both[i] = head[i]
          BY <3>1, <3>5, <5>1 DEF WholeOf
        <5> QED BY <3>2, <5>2
      <4>2. CASE ~ (i <= k)
        <5> DEFINE j == i - k
        <5>1. j \in 1 .. f - 1 /\ j \in 1 .. Len(c) /\ k + j = i
          BY <1>3, <2>4, <4>2
        <5> HIDE DEF j
        <5>2. s[k + j] = c[j] /\ both[k + j] = before[j] /\ before[j] = c[j]
          BY <3>1, <3>3, <3>5, <5>1 DEF WholeOf
        <5> QED BY <3>2, <5>1, <5>2
      <4> QED BY <4>1, <4>2
    <3>8. front = both
      BY <3>2, <3>6, <3>7, SeqEqual
    <3> QED BY <3>4, <3>8
  <2> HIDE DEF before, front, freeOfC, freeOfS
  <2>8. Joins(head, freeOfC, freeOfS)
    BY <1>2, <2>0, <2>1, <2>5, <2>6, <2>7, Regroup
  <2> QED BY <2>2, <2>8 DEF freeOfC, freeOfS, head
<1> QED BY <1>7, <1>8

-----------------------------------------------------------------------------
(***************************************************************************)
(* The pieces of a term.                                                   *)
(***************************************************************************)

(* The three kinds of pieces,                                              *)
LEMMA PieceIs ==
  ASSUME NEW piece \in Pieces
  PROVE  /\ piece.kind \in {"quoted", "bare", "word"}
         /\ piece.kind = "word" => piece.text \in Texts
         /\ piece.kind # "word" => piece.name \in Texts /\ piece.value \in Texts
BY DEF Pieces

(* their texts,                                                            *)
LEMMA PieceTextIs ==
  ASSUME NEW piece \in Pieces
  PROVE  /\ piece.kind = "word" => PieceText(piece) = piece.text
         /\ piece.kind = "bare" => PieceText(piece) = piece.name \o <<Colon>> \o piece.value
         /\ piece.kind = "quoted" =>
              PieceText(piece) = piece.name \o <<Colon, Quote>> \o piece.value \o <<Quote>>
<1>1. CASE piece.kind = "word"
  BY <1>1, Zenon DEF PieceText
<1>2. CASE piece.kind = "bare"
  BY <1>2, Zenon DEF PieceText
<1>3. CASE piece.kind = "quoted"
  BY <1>3, Zenon DEF PieceText
<1> QED BY <1>1, <1>2, <1>3, PieceIs

(* which are not empty and do not begin with a blank.                      *)
LEMMA PieceTextType ==
  ASSUME NEW piece \in Pieces
  PROVE  /\ PieceText(piece) \in Texts
         /\ WellFormed(piece) => PieceText(piece) # << >> /\ PieceText(piece)[1] # Blank
<1> DEFINE text == PieceText(piece)
<1>1. CASE piece.kind = "word"
  <2>1. text = piece.text /\ text \in Texts
    BY <1>1, PieceIs, PieceTextIs
  <2>2. WellFormed(piece) => NoBlank(text)
    BY <1>1, <2>1, PieceIs DEF WellFormed
  <2> HIDE DEF text
  <2>3. WellFormed(piece) => Len(text) # 0 /\ Len(text) \in Nat /\ \A i \in 1 .. Len(text) : text[i] # Blank
    BY <2>1, <2>2, CharsOf
  <2>4. text = << >> => Len(text) = 0
    OBVIOUS
  <2>5. WellFormed(piece) => text # << >> /\ text[1] # Blank
    BY <2>3, <2>4
  <2> QED BY <2>1, <2>5 DEF text
<1>2. ASSUME piece.kind # "word", NEW n, n = Len(piece.name),
             text \in Texts, Len(text) > n, \A i \in 1 .. n : text[i] = piece.name[i]
      PROVE  WellFormed(piece) => text # << >> /\ text[1] # Blank
  <2>1. piece.name \in Texts
    BY <1>2, PieceIs
  <2>2. WellFormed(piece) => NoBlank(piece.name)
    BY <1>2, PieceIs DEF WellFormed
  <2>3. n \in Nat /\ Len(text) \in Nat /\ (text = << >> => Len(text) = 0)
    BY <1>2, <2>1 DEF Texts
  <2>4. WellFormed(piece) => n # 0 /\ \A i \in 1 .. n : piece.name[i] # Blank
    BY <1>2, <2>1, <2>2, CharsOf
  <2> HIDE DEF text
  <2>5. WellFormed(piece) => 1 \in 1 .. n
    BY <2>3, <2>4
  <2> QED BY <1>2, <2>3, <2>4, <2>5
<1>3. CASE piece.kind = "bare"
  <2>1. piece.name \in Texts /\ piece.value \in Texts
    BY <1>3, PieceIs
  <2>2. text = piece.name \o <<Colon>> \o piece.value
    BY <1>3, PieceTextIs
  <2>3. /\ text \in Texts /\ Len(text) = Len(piece.name) + Len(piece.value) + 1
        /\ \A i \in 1 .. Len(piece.name) : text[i] = piece.name[i]
    <3> HIDE DEF text
    <3>0. IsBareText(piece.name, piece.value, text)
      BY <2>2, Zenon DEF IsBareText
    <3>1. BareChars(piece.name, piece.value, text)
      BY <2>1, <3>0, BareText
    <3> QED BY <3>1 DEF BareChars
  <2>4. Len(text) > Len(piece.name)
    <3>1. Len(piece.name) \in Nat /\ Len(piece.value) \in Nat
      BY <2>1 DEF Texts
    <3>2. \A n, m \in Nat : n + m + 1 > n
      OBVIOUS
    <3> HIDE DEF text
    <3> QED BY <2>3, <3>1, <3>2
  <2> HIDE DEF text
  <2>5. piece.kind # "word"
    BY <1>3
  <2> QED BY <1>2, <2>3, <2>4, <2>5 DEF text
<1>4. CASE piece.kind = "quoted"
  <2>1. piece.name \in Texts /\ piece.value \in Texts
    BY <1>4, PieceIs
  <2>2. text = piece.name \o <<Colon, Quote>> \o piece.value \o <<Quote>>
    BY <1>4, PieceTextIs
  <2>3. /\ text \in Texts /\ Len(text) = Len(piece.name) + Len(piece.value) + 3
        /\ \A i \in 1 .. Len(piece.name) : text[i] = piece.name[i]
    <3> HIDE DEF text
    <3>0. IsQuotedText(piece.name, piece.value, text)
      BY <2>2, Zenon DEF IsQuotedText
    <3>1. QuotedChars(piece.name, piece.value, text)
      BY <2>1, <3>0, QuotedText
    <3> QED BY <3>1 DEF QuotedChars
  <2>4. Len(text) > Len(piece.name)
    <3>1. Len(piece.name) \in Nat /\ Len(piece.value) \in Nat
      BY <2>1 DEF Texts
    <3>2. \A n, m \in Nat : n + m + 3 > n
      OBVIOUS
    <3> HIDE DEF text
    <3> QED BY <2>3, <3>1, <3>2
  <2> HIDE DEF text
  <2>5. piece.kind # "word"
    BY <1>4
  <2> QED BY <1>2, <2>3, <2>4, <2>5 DEF text
<1> QED BY <1>1, <1>3, <1>4, PieceIs

-----------------------------------------------------------------------------
(* What is made of the items of a sequence, one by one.                    *)
LEMMA MapType ==
  ASSUME NEW n \in Nat, NEW T, NEW F \in [1 .. n -> T]
  PROVE  F \in Seq(T) /\ Len(F) = n
BY SeqDef

(* A sequence without its first item.                                      *)
LEMMA TailIs ==
  ASSUME NEW T, NEW s \in Seq(T), NEW t \in Seq(T), Len(s) = Len(t) + 1,
         \A i \in 1 .. Len(t) : s[i + 1] = t[i]
  PROVE  Tail(s) = t
<1>1. Len(t) \in Nat /\ s # << >>
  OBVIOUS
<1>2. /\ Tail(s) \in Seq(T) /\ Len(Tail(s)) = Len(s) - 1
      /\ \A i \in 1 .. Len(Tail(s)) : Tail(s)[i] = s[i + 1]
  BY <1>1, HeadTailProperties
<1> DEFINE r == Tail(s)
<1> HIDE DEF r
<1>3. r \in Seq(T) /\ Len(r) = Len(t) /\ \A i \in 1 .. Len(r) : r[i] = t[i]
  <2>1. Len(r) = Len(t)
    BY <1>1, <1>2 DEF r
  <2> QED BY <1>2, <2>1 DEF r
<1>4. r = t
  BY <1>3, SeqEqual
<1> QED BY <1>4 DEF r

(* The texts, words and queries of the pieces of a term, one by one.       *)
TextsOf(pieces) == [i \in DOMAIN pieces |-> PieceText(pieces[i])]
(* (The words.)                                                            *)
WordsOf(pieces) ==
  [i \in DOMAIN pieces |-> IF pieces[i].kind = "word" THEN <<pieces[i].text>> ELSE << >>]
(* (The queries.)                                                          *)
QueriesOf(pieces) ==
  [i \in DOMAIN pieces |->
    CASE pieces[i].kind = "word" -> << >>
      [] pieces[i].kind # "word" /\ EndsWith(pieces[i].value, Star) ->
           <<WildcardQuery(pieces[i].name, pieces[i].value)>>
      [] OTHER -> <<TermQuery(pieces[i].name, pieces[i].value)>>]

(* What they are.                                                          *)
LEMMA OfType ==
  ASSUME NEW pieces \in Seq(Pieces)
  PROVE  /\ TextsOf(pieces) \in Seq(Texts) /\ Len(TextsOf(pieces)) = Len(pieces)
         /\ \A i \in 1 .. Len(pieces) : TextsOf(pieces)[i] = PieceText(pieces[i])
         /\ WordsOf(pieces) \in Seq(Seq(Texts)) /\ Len(WordsOf(pieces)) = Len(pieces)
         /\ \A i \in 1 .. Len(pieces) :
              /\ pieces[i].kind = "word" => WordsOf(pieces)[i] = <<pieces[i].text>>
              /\ pieces[i].kind # "word" => WordsOf(pieces)[i] = << >>
         /\ QueriesOf(pieces) \in Seq(Seq(FieldQueries)) /\ Len(QueriesOf(pieces)) = Len(pieces)
         /\ \A i \in 1 .. Len(pieces) :
              /\ pieces[i].kind = "word" => QueriesOf(pieces)[i] = << >>
              /\ pieces[i].kind # "word" =>
                   QueriesOf(pieces)[i] = <<PairQuery(pieces[i].name, pieces[i].value)>>
<1> DEFINE n == Len(pieces)
<1>1. n \in Nat /\ DOMAIN pieces = 1 .. n
  OBVIOUS
<1>2. \A i \in 1 .. n : pieces[i] \in Pieces
  OBVIOUS
<1> HIDE DEF n
<1>3. /\ TextsOf(pieces) \in [1 .. n -> Texts]
      /\ \A i \in 1 .. n : TextsOf(pieces)[i] = PieceText(pieces[i])
  BY <1>1, <1>2, PieceTextType DEF TextsOf
<1>4. /\ WordsOf(pieces) \in [1 .. n -> Seq(Texts)]
      /\ \A i \in 1 .. n :
              /\ pieces[i].kind = "word" => WordsOf(pieces)[i] = <<pieces[i].text>>
              /\ pieces[i].kind # "word" => WordsOf(pieces)[i] = << >>
  <2>1. \A i \in 1 .. n : (IF pieces[i].kind = "word" THEN <<pieces[i].text>> ELSE << >>) \in Seq(Texts)
    <3> TAKE i \in 1 .. n
    <3>1. pieces[i].kind = "word" => <<pieces[i].text>> \in Seq(Texts)
      BY <1>2, PieceIs
    <3> QED BY <3>1
  <2> QED BY <1>1, <2>1 DEF WordsOf
<1>5. /\ QueriesOf(pieces) \in [1 .. n -> Seq(FieldQueries)]
      /\ \A i \in 1 .. n :
              /\ pieces[i].kind = "word" => QueriesOf(pieces)[i] = << >>
              /\ pieces[i].kind # "word" =>
                   QueriesOf(pieces)[i] = <<PairQuery(pieces[i].name, pieces[i].value)>>
  <2>1. \A i \in 1 .. n :
          /\ pieces[i].kind = "word" => QueriesOf(pieces)[i] = << >>
          /\ pieces[i].kind # "word" =>
               QueriesOf(pieces)[i] = <<PairQuery(pieces[i].name, pieces[i].value)>>
    BY <1>1 DEF QueriesOf, PairQuery
  <2>2. \A i \in 1 .. n : QueriesOf(pieces)[i] \in Seq(FieldQueries)
    <3> TAKE i \in 1 .. n
    <3>1. CASE pieces[i].kind = "word"
      <4>1. QueriesOf(pieces)[i] = << >>
        BY <2>1, <3>1
      <4>2. << >> \in Seq(FieldQueries)
        OBVIOUS
      <4> QED BY <4>1, <4>2, Zenon
    <3>2. CASE pieces[i].kind # "word"
      <4>1. pieces[i].name \in Texts /\ pieces[i].value \in Texts
        BY <1>2, <3>2, PieceIs
      <4>2. PairQuery(pieces[i].name, pieces[i].value) \in FieldQueries
        BY <4>1 DEF PairQuery, WildcardQuery, TermQuery, FieldQueries
      <4>3. QueriesOf(pieces)[i] = <<PairQuery(pieces[i].name, pieces[i].value)>>
        BY <2>1, <3>2
      <4>4. <<PairQuery(pieces[i].name, pieces[i].value)>> \in Seq(FieldQueries)
        BY <4>2
      <4> QED BY <4>3, <4>4, Zenon
    <3> QED BY <3>1, <3>2
  <2>3. QueriesOf(pieces) = [i \in 1 .. n |-> QueriesOf(pieces)[i]]
    BY <1>1 DEF QueriesOf
  <2> QED BY <2>1, <2>2, <2>3
<1>6. TextsOf(pieces) \in Seq(Texts) /\ Len(TextsOf(pieces)) = n
  BY <1>1, <1>3, MapType
<1>7. WordsOf(pieces) \in Seq(Seq(Texts)) /\ Len(WordsOf(pieces)) = n
  BY <1>1, <1>4, MapType
<1>8. QueriesOf(pieces) \in Seq(Seq(FieldQueries)) /\ Len(QueriesOf(pieces)) = n
  BY <1>1, <1>5, MapType
<1> QED BY <1>3, <1>4, <1>5, <1>6, <1>7, <1>8 DEF n

(* A term, its words and its queries, with the first piece taken off.      *)
LEMMA ComposeTail ==
  ASSUME NEW pieces \in Seq(Pieces), pieces # << >>
  PROVE  /\ Tail(pieces) = << >> => Compose(pieces) = PieceText(pieces[1])
         /\ Tail(pieces) # << >> =>
              Joins(PieceText(pieces[1]) \o <<Blank>>, Compose(Tail(pieces)), Compose(pieces))
<1> DEFINE ss == TextsOf(pieces)
           tt == TextsOf(Tail(pieces))
<1>1. /\ Tail(pieces) \in Seq(Pieces) /\ Len(Tail(pieces)) = Len(pieces) - 1
      /\ \A i \in 1 .. Len(Tail(pieces)) : Tail(pieces)[i] = pieces[i + 1]
      /\ Len(pieces) \in Nat /\ Len(pieces) # 0
  BY TailType
<1>2. /\ ss \in Seq(Texts) /\ Len(ss) = Len(pieces)
      /\ \A i \in 1 .. Len(pieces) : ss[i] = PieceText(pieces[i])
  BY OfType
<1>3. /\ tt \in Seq(Texts) /\ Len(tt) = Len(Tail(pieces))
      /\ \A i \in 1 .. Len(Tail(pieces)) : tt[i] = PieceText(Tail(pieces)[i])
  BY <1>1, OfType
<1>4. Compose(pieces) = Joined(ss) /\ Compose(Tail(pieces)) = Joined(tt)
  BY DEF Compose, TextsOf
<1> HIDE DEF ss, tt
<1>5. Tail(ss) = tt /\ ss # << >> /\ ss[1] = PieceText(pieces[1])
  <2>1. Len(ss) = Len(tt) + 1
    BY <1>1, <1>2, <1>3
  <2>2. \A i \in 1 .. Len(tt) : ss[i + 1] = tt[i]
    <3> TAKE i \in 1 .. Len(tt)
    <3>1. i \in 1 .. Len(Tail(pieces)) /\ i + 1 \in 1 .. Len(pieces)
      BY <1>1, <1>3
    <3> QED BY <1>1, <1>2, <1>3, <3>1
  <2>3. ss[1] = PieceText(pieces[1]) /\ ss # << >>
    BY <1>1, <1>2
  <2> QED BY <1>2, <1>3, <2>1, <2>2, <2>3, TailIs
<1>6. Tail(pieces) = << >> <=> tt = << >>
  <2>1. Tail(pieces) = << >> <=> Len(Tail(pieces)) = 0
    <3> DEFINE more == Tail(pieces)
    <3>1. more \in Seq(Pieces)
      BY <1>1
    <3> HIDE DEF more
    <3>2. more = << >> <=> Len(more) = 0
      BY <3>1
    <3> QED BY <3>2 DEF more
  <2>2. tt = << >> <=> Len(tt) = 0
    BY <1>3
  <2> QED BY <1>3, <2>1, <2>2
<1>7. CASE tt = << >>
  <2>1. Joined(ss) = ss[1]
    BY <1>2, <1>5, <1>7, JoinedTail
  <2> QED BY <1>4, <1>5, <1>6, <1>7, <2>1
<1>8. CASE tt # << >>
  <2>1. Joined(ss) = (ss[1] \o <<Blank>>) \o Joined(Tail(ss))
    BY <1>2, <1>5, <1>8, JoinedTail
  <2>2. Compose(pieces) = (PieceText(pieces[1]) \o <<Blank>>) \o Compose(Tail(pieces))
    BY <1>4, <1>5, <2>1, Zenon
  <2>3. Joins(PieceText(pieces[1]) \o <<Blank>>, Compose(Tail(pieces)), Compose(pieces))
    BY <2>2, Zenon DEF Joins
  <2> QED BY <1>6, <1>8, <2>3
<1> QED BY <1>7, <1>8

(* Its queries,                                                            *)
LEMMA QueriesTail ==
  ASSUME NEW pieces \in Seq(Pieces), pieces # << >>
  PROVE  /\ PairQueries(Tail(pieces)) \in Seq(FieldQueries)
         /\ pieces[1].kind = "word" => PairQueries(pieces) = PairQueries(Tail(pieces))
         /\ pieces[1].kind # "word" =>
              Joins(<<PairQuery(pieces[1].name, pieces[1].value)>>, PairQueries(Tail(pieces)),
                    PairQueries(pieces))
<1> DEFINE ss == QueriesOf(pieces)
           tt == QueriesOf(Tail(pieces))
<1>1. /\ Tail(pieces) \in Seq(Pieces) /\ Len(Tail(pieces)) = Len(pieces) - 1
      /\ \A i \in 1 .. Len(Tail(pieces)) : Tail(pieces)[i] = pieces[i + 1]
      /\ Len(pieces) \in Nat /\ Len(pieces) # 0
  BY TailType
<1>2. /\ ss \in Seq(Seq(FieldQueries)) /\ Len(ss) = Len(pieces)
      /\ \A i \in 1 .. Len(pieces) :
           /\ pieces[i].kind = "word" => ss[i] = << >>
           /\ pieces[i].kind # "word" => ss[i] = <<PairQuery(pieces[i].name, pieces[i].value)>>
  BY OfType
<1>3. /\ tt \in Seq(Seq(FieldQueries)) /\ Len(tt) = Len(Tail(pieces))
      /\ \A i \in 1 .. Len(Tail(pieces)) :
           /\ Tail(pieces)[i].kind = "word" => tt[i] = << >>
           /\ Tail(pieces)[i].kind # "word" =>
                tt[i] = <<PairQuery(Tail(pieces)[i].name, Tail(pieces)[i].value)>>
  BY <1>1, OfType
<1>4. PairQueries(pieces) = FlattenSeq(ss) /\ PairQueries(Tail(pieces)) = FlattenSeq(tt)
  BY Zenon DEF PairQueries, QueriesOf
<1> HIDE DEF ss, tt
<1>5. Len(ss) = Len(tt) + 1 /\ Len(ss) \in Nat
  BY <1>1, <1>2, <1>3
<1>6. \A i \in 1 .. Len(tt) : ss[i + 1] = tt[i]
  <2> TAKE i \in 1 .. Len(tt)
  <2>1. i \in 1 .. Len(Tail(pieces)) /\ i + 1 \in 1 .. Len(pieces)
    BY <1>1, <1>3
  <2>2. Tail(pieces)[i] = pieces[i + 1]
    BY <1>1, <2>1
  <2> QED BY <1>2, <1>3, <2>1, <2>2
<1>7. /\ pieces[1].kind = "word" => ss[1] = << >>
      /\ pieces[1].kind # "word" => ss[1] = <<PairQuery(pieces[1].name, pieces[1].value)>>
  BY <1>1, <1>2
<1>8. ss[1] \in Seq(FieldQueries)
  <2>1. 1 \in 1 .. Len(ss)
    BY <1>1, <1>2
  <2> QED BY <1>2, <2>1, ElementOfSeq
<1>9. FlattenSeq(ss) = ss[1] \o FlattenSeq(tt) /\ FlattenSeq(tt) \in Seq(FieldQueries)
  BY <1>2, <1>3, <1>5, <1>6, <1>8, FlattenCons, FlattenType
<1> DEFINE a == FlattenSeq(ss)
           b == FlattenSeq(tt)
<1>10. Joins(ss[1], b, a) /\ b \in Seq(FieldQueries)
  BY <1>9 DEF Joins
<1> HIDE DEF a, b
<1>11. ss[1] = << >> => a = b
  BY <1>10 DEF Joins
<1>12. PairQueries(pieces) = a /\ PairQueries(Tail(pieces)) = b
  BY <1>4 DEF a, b
<1> QED BY <1>7, <1>10, <1>11, <1>12

(* and its words.                                                          *)
LEMMA WordsTail ==
  ASSUME NEW pieces \in Seq(Pieces), pieces # << >>
  PROVE  /\ Words(Tail(pieces)) \in Seq(Texts) /\ Words(pieces) \in Seq(Texts)
         /\ pieces[1].kind # "word" => Words(pieces) = Words(Tail(pieces))
         /\ pieces[1].kind = "word" =>
              /\ Words(pieces) # << >> /\ Words(pieces)[1] = pieces[1].text
              /\ Tail(Words(pieces)) = Words(Tail(pieces))
<1> DEFINE ss == WordsOf(pieces)
           tt == WordsOf(Tail(pieces))
<1>1. /\ Tail(pieces) \in Seq(Pieces) /\ Len(Tail(pieces)) = Len(pieces) - 1
      /\ \A i \in 1 .. Len(Tail(pieces)) : Tail(pieces)[i] = pieces[i + 1]
      /\ Len(pieces) \in Nat /\ Len(pieces) # 0
  BY TailType
<1>2. /\ ss \in Seq(Seq(Texts)) /\ Len(ss) = Len(pieces)
      /\ \A i \in 1 .. Len(pieces) :
           /\ pieces[i].kind = "word" => ss[i] = <<pieces[i].text>>
           /\ pieces[i].kind # "word" => ss[i] = << >>
  BY OfType
<1>3. /\ tt \in Seq(Seq(Texts)) /\ Len(tt) = Len(Tail(pieces))
      /\ \A i \in 1 .. Len(Tail(pieces)) :
           /\ Tail(pieces)[i].kind = "word" => tt[i] = <<Tail(pieces)[i].text>>
           /\ Tail(pieces)[i].kind # "word" => tt[i] = << >>
  BY <1>1, OfType
<1>4. Words(pieces) = FlattenSeq(ss) /\ Words(Tail(pieces)) = FlattenSeq(tt)
  BY Zenon DEF Words, WordsOf
<1> HIDE DEF ss, tt
<1>5. Len(ss) = Len(tt) + 1 /\ Len(ss) \in Nat
  BY <1>1, <1>2, <1>3
<1>6. \A i \in 1 .. Len(tt) : ss[i + 1] = tt[i]
  <2> TAKE i \in 1 .. Len(tt)
  <2>1. i \in 1 .. Len(Tail(pieces)) /\ i + 1 \in 1 .. Len(pieces)
    BY <1>1, <1>3
  <2>2. Tail(pieces)[i] = pieces[i + 1]
    BY <1>1, <2>1
  <2> QED BY <1>2, <1>3, <2>1, <2>2
<1>7. /\ pieces[1].kind = "word" => ss[1] = <<pieces[1].text>>
      /\ pieces[1].kind # "word" => ss[1] = << >>
  BY <1>1, <1>2
<1>8. ss[1] \in Seq(Texts)
  <2>1. 1 \in 1 .. Len(ss)
    BY <1>1, <1>2
  <2> QED BY <1>2, <2>1, ElementOfSeq
<1>9. FlattenSeq(ss) = ss[1] \o FlattenSeq(tt) /\ FlattenSeq(tt) \in Seq(Texts)
  <2>1. ss \in Seq(Seq(Texts)) /\ tt \in Seq(Seq(Texts))
    BY <1>2, <1>3
  <2> QED BY <2>1, <1>5, <1>6, <1>8, FlattenCons, FlattenType
<1> DEFINE a == FlattenSeq(ss)
           b == FlattenSeq(tt)
<1>10. Joins(ss[1], b, a) /\ b \in Seq(Texts)
  BY <1>9 DEF Joins
<1>13. a \in Seq(Texts)
  BY <1>2, FlattenType
<1> HIDE DEF a, b
<1>11. ss[1] = << >> => a = b
  BY <1>10 DEF Joins
<1>12. Words(pieces) = a /\ Words(Tail(pieces)) = b
  BY <1>4 DEF a, b
<1>14. ASSUME NEW w, w \in Texts, ss[1] = <<w>>
       PROVE  a # << >> /\ a[1] = w /\ Tail(a) = b
  <2>1. a = <<w>> \o b /\ w \in Texts /\ b \in Seq(Texts)
    BY <1>10, <1>14 DEF Joins
  <2>2. ASSUME NEW S, NEW x \in S, NEW s \in Seq(S), NEW t, t = <<x>> \o s
        PROVE  t # << >> /\ t[1] = x /\ Tail(t) = s
    <3>1. <<x>> \in Seq(S) /\ Len(<<x>>) = 1 /\ <<x>>[1] = x /\ Len(s) \in Nat
      OBVIOUS
    <3>2. /\ t \in Seq(S) /\ Len(t) = 1 + Len(s)
          /\ \A i \in 1 .. 1 + Len(s) : t[i] = IF i <= 1 THEN <<x>>[i] ELSE s[i - 1]
      BY <2>2, <3>1, ConcatProperties
    <3>3. \A i \in 1 .. Len(s) : t[i + 1] = s[i]
      <4> TAKE i \in 1 .. Len(s)
      <4>1. i + 1 \in 1 .. 1 + Len(s) /\ ~ (i + 1 <= 1) /\ (i + 1) - 1 = i
        BY <3>1
      <4> QED BY <3>2, <4>1
    <3>4. t[1] = x /\ t # << >> /\ Len(t) = Len(s) + 1
      BY <3>1, <3>2
    <3>5. Tail(t) = s
      BY <3>2, <3>3, <3>4, TailIs
    <3> QED BY <3>4, <3>5
  <2> QED BY <2>1, <2>2
<1>15. pieces[1].kind = "word" => pieces[1].text \in Texts
  <2>1. pieces[1] \in Pieces
    BY <1>1
  <2> QED BY <2>1, PieceIs
<1> QED BY <1>7, <1>10, <1>11, <1>12, <1>13, <1>14, <1>15

-----------------------------------------------------------------------------
(***************************************************************************)
(* By induction on the pieces: get_query understands a term.               *)
(***************************************************************************)

(* What get_query must find in a term of pieces: their queries, and the    *)
(* free words with blanks between them, perhaps one behind.                *)
Clean(j) == j \in Texts /\ j # << >> /\ j[1] # Blank /\ j[Len(j)] # Blank

(* The free text: nothing, or the words and perhaps a blank.               *)
FreeIs(free, words) ==
  IF words = << >> THEN free = << >>
  ELSE /\ Clean(Joined(words))
       /\ free = Joined(words) \/ Joins(Joined(words), <<Blank>>, free)

(* All of a term.                                                          *)
Understood(pieces, s) ==
  /\ s \in Texts
  /\ pieces = << >> <=> s = << >>
  /\ s # << >> => s[1] # Blank
  /\ Read[s].queries = PairQueries(pieces)
  /\ FreeIs(Read[s].free, Words(pieces))

(* No pieces.                                                              *)
LEMMA NoPieces ==
  Compose(<< >>) = << >> /\ PairQueries(<< >>) = << >> /\ Words(<< >>) = << >>
<1>1. Compose(<< >>) = << >>
  <2>1. [i \in DOMAIN << >> |-> PieceText(<< >>[i])] = << >>
    OBVIOUS
  <2> QED BY <2>1, JoinedNone DEF Compose
<1>2. PairQueries(<< >>) = << >>
  <2>1. QueriesOf(<< >>) = << >>
    BY DEF QueriesOf
  <2>2. PairQueries(<< >>) = FlattenSeq(QueriesOf(<< >>))
    BY Zenon DEF PairQueries, QueriesOf
  <2> QED BY <2>1, <2>2, FlattenNone
<1>3. Words(<< >>) = << >>
  <2>1. WordsOf(<< >>) = << >>
    BY DEF WordsOf
  <2>2. Words(<< >>) = FlattenSeq(WordsOf(<< >>))
    BY Zenon DEF Words, WordsOf
  <2> QED BY <2>1, <2>2, FlattenNone
<1> QED BY <1>1, <1>2, <1>3

(* They are understood.                                                    *)
LEMMA NoneUnderstood == Understood(<< >>, Compose(<< >>))
<1>1. Compose(<< >>) = << >> /\ PairQueries(<< >>) = << >> /\ Words(<< >>) = << >>
  BY NoPieces
<1>4. << >> \in Texts
  BY DEF Texts
<1>5. Starts(<< >>) = {}
  BY DEF Starts
<1>6. Read[<< >>].queries = << >> /\ Read[<< >>].free = << >>
  BY <1>4, <1>5, ReadParts
<1> QED BY <1>1, <1>4, <1>6 DEF Understood, FreeIs

(* The term of a piece and more: the text of the piece, a blank, the rest. *)
LEMMA PieceAfter ==
  ASSUME NEW pieces \in Seq(Pieces), pieces # << >>, WellFormed(pieces[1]),
         Understood(Tail(pieces), Compose(Tail(pieces)))
  PROVE  /\ After(Compose(pieces), PieceText(pieces[1]), Compose(Tail(pieces)))
         /\ Compose(Tail(pieces)) # << >> => Compose(Tail(pieces))[1] # Blank
         /\ Compose(pieces) \in Texts /\ Compose(pieces) # << >> /\ Compose(pieces)[1] # Blank
<1> DEFINE u == PieceText(pieces[1])
           c == Compose(Tail(pieces))
           s == Compose(pieces)
<1>1. pieces[1] \in Pieces
  BY TailType
<1>2. u \in Texts /\ u # << >> /\ u[1] # Blank
  BY <1>1, PieceTextType
<1>3. c \in Texts /\ (Tail(pieces) = << >> <=> c = << >>) /\ (c # << >> => c[1] # Blank)
  BY DEF Understood
<1>4. /\ c = << >> => s = u
      /\ c # << >> => Joins(u \o <<Blank>>, c, s)
  BY <1>3, ComposeTail
<1> HIDE DEF u, c, s
<1>5. After(s, u, c)
  <2>1. CASE c = << >>
    BY <1>2, <1>4, <2>1, AfterNone, Zenon
  <2>2. CASE c # << >>
    <3>1. s = (u \o <<Blank>>) \o c
      BY <1>4, <2>2, Zenon DEF Joins
    <3> QED BY <1>2, <1>3, <2>2, <3>1, AfterSome, Zenon
  <2> QED BY <2>1, <2>2
<1>6. s \in Texts /\ s # << >> /\ s[1] # Blank
  <2>1. s \in Seq(Chars) /\ Len(u) <= Len(s) /\ \A i \in 1 .. Len(u) : s[i] = u[i]
    BY <1>5 DEF After, Texts
  <2>2. Len(u) \in Nat \ {0}
    BY <1>2 DEF Texts
  <2>3. 1 \in 1 .. Len(u) /\ Len(s) # 0
    BY <2>1, <2>2
  <2>4. s # << >>
    BY <2>1, <2>3
  <2> QED BY <1>2, <2>1, <2>3, <2>4 DEF Texts
<1> QED BY <1>3, <1>5, <1>6 DEF u, c, s

(* A pair before an understood term makes one.                             *)
LEMMA PairUnderstood ==
  ASSUME NEW pieces \in Seq(Pieces), pieces # << >>, WellFormed(pieces[1]),
         pieces[1].kind # "word", Understood(Tail(pieces), Compose(Tail(pieces)))
  PROVE  Understood(pieces, Compose(pieces))
<1> DEFINE name == pieces[1].name
           value == pieces[1].value
           c == Compose(Tail(pieces))
           s == Compose(pieces)
<1>1. pieces[1] \in Pieces
  BY TailType
<1>2. name \in Texts /\ value \in Texts
  BY <1>1, PieceIs
<1>3. /\ After(s, PieceText(pieces[1]), c) /\ (c # << >> => c[1] # Blank)
      /\ s \in Texts /\ s # << >> /\ s[1] # Blank
  BY PieceAfter
<1>4. ReadAs(s, name, value, c)
  <2>1. CASE pieces[1].kind = "quoted"
    <3>1. NoBlank(name) /\ ~Contains(value, Quote) /\ ~RunsOn(Append(value, Quote))
      BY <2>1 DEF WellFormed
    <3>2. PieceText(pieces[1]) = name \o <<Colon, Quote>> \o value \o <<Quote>>
      BY <1>1, <2>1, PieceTextIs, Zenon
    <3> HIDE DEF name, value, c, s
    <3>3. After(s, name \o <<Colon, Quote>> \o value \o <<Quote>>, c)
      BY <1>3, <3>2, Zenon
    <3> QED BY <1>2, <1>3, <3>1, <3>3, QuotedRead, Zenon
  <2>2. CASE pieces[1].kind = "bare"
    <3>1. /\ NoBlank(name) /\ NoBlank(value)
          /\ Quote \notin {Head(value), Last(value)} /\ ~RunsOn(value)
      BY <2>2 DEF WellFormed
    <3>2. PieceText(pieces[1]) = name \o <<Colon>> \o value
      BY <1>1, <2>2, PieceTextIs, Zenon
    <3> HIDE DEF name, value, c, s
    <3>3. After(s, name \o <<Colon>> \o value, c)
      BY <1>3, <3>2, Zenon
    <3> QED BY <1>2, <1>3, <3>1, <3>3, BareRead, Zenon
  <2> QED BY <1>1, <2>1, <2>2, PieceIs
<1>5. c \in Texts /\ Read[c].queries = PairQueries(Tail(pieces))
      /\ FreeIs(Read[c].free, Words(Tail(pieces)))
  BY DEF Understood
<1>6. /\ Joins(<<PairQuery(name, value)>>, PairQueries(Tail(pieces)), PairQueries(pieces))
      /\ Words(pieces) = Words(Tail(pieces))
  BY QueriesTail, WordsTail
<1> HIDE DEF name, value, c, s
<1>7. /\ Joins(<<PairQuery(name, value)>>, Read[c].queries, Read[s].queries)
      /\ Joins(SubSeq(s, 1, First(s) - 1), Read[c].free, Read[s].free)
      /\ First(s) = 1
  BY <1>3, <1>4, ReadParts DEF ReadAs
<1>8. Read[s].queries = PairQueries(pieces)
  BY <1>5, <1>6, <1>7, Zenon DEF Joins
<1>9. Read[s].free = Read[c].free
  <2>1. SubSeq(s, 1, First(s) - 1) = << >>
    BY <1>3, <1>7 DEF Texts
  <2>2. Read[c].free \in Texts
    BY <1>5, ReadIs DEF Reads
  <2> DEFINE f == Read[c].free
             g == Read[s].free
  <2>3. Joins(<< >>, f, g)
    BY <1>7, <2>1
  <2> HIDE DEF f, g
  <2>4. f \in Seq(Chars)
    BY <2>2 DEF f, Texts
  <2>5. g = f
    BY <2>3, <2>4 DEF Joins
  <2> QED BY <2>5 DEF f, g
<1> QED BY <1>3, <1>5, <1>6, <1>8, <1>9, Zenon DEF Understood, s

(* A word begins and ends with no blank.                                   *)
LEMMA CleanWord ==
  ASSUME NEW w \in Texts, NoBlank(w)
  PROVE  Clean(w)
<1>1. Len(w) \in Nat \ {0} /\ \A i \in 1 .. Len(w) : w[i] # Blank
  BY CharsOf
<1>2. w # << >>
  BY DEF NoBlank
<1> QED BY <1>1, <1>2 DEF Clean

(* A clean text behind a word and a blank.                                 *)
LEMMA CleanBehind ==
  ASSUME NEW w \in Texts, NoBlank(w), NEW j, Clean(j), NEW g, Joins(w \o <<Blank>>, j, g)
  PROVE  Clean(g)
<1>1. Len(w) \in Nat \ {0} /\ \A i \in 1 .. Len(w) : w[i] # Blank
  BY CharsOf
<1>2. j \in Seq(Chars) /\ j # << >> /\ j[Len(j)] # Blank /\ w \in Seq(Chars)
  BY DEF Clean, Texts
<1>3. Len(j) \in Nat \ {0}
  BY <1>2
<1>4. /\ w \o <<Blank>> \in Seq(Chars) /\ Len(w \o <<Blank>>) = Len(w) + 1
      /\ (w \o <<Blank>>)[1] = w[1]
  <2>1. <<Blank>> \in Seq(Chars) /\ Len(<<Blank>>) = 1
    BY CharsApart DEF Texts
  <2> QED BY <1>1, <1>2, <2>1
<1>5. WholeOf(w \o <<Blank>>, Len(w) + 1, j, Len(j), g)
  BY <1>2, <1>4, Both
<1>6. /\ g \in Seq(Chars) /\ Len(g) = Len(w) + 1 + Len(j)
      /\ \A i \in 1 .. Len(w) + 1 : g[i] = (w \o <<Blank>>)[i]
      /\ \A i \in 1 .. Len(j) : g[Len(w) + 1 + i] = j[i]
  BY <1>5 DEF WholeOf
<1>7. 1 \in 1 .. Len(w) + 1 /\ Len(j) \in 1 .. Len(j) /\ 1 \in 1 .. Len(w) /\ Len(g) # 0
  BY <1>1, <1>3, <1>6
<1>8. g[1] # Blank /\ g[Len(g)] # Blank
  BY <1>1, <1>2, <1>4, <1>6, <1>7
<1>9. g # << >>
  BY <1>6, <1>7
<1> QED BY <1>6, <1>8, <1>9 DEF Clean, Texts

(* The free text of one word,                                              *)
LEMMA FreeAlone ==
  ASSUME NEW words \in Seq(Texts), words # << >>, Tail(words) = << >>, NoBlank(words[1])
  PROVE  FreeIs(words[1], words)
<1>1. words[1] \in Texts
  BY TailType
<1>2. Joined(words) = words[1]
  BY JoinedTail
<1> QED BY <1>1, <1>2, CleanWord DEF FreeIs

(* and of one more.                                                        *)
LEMMA FreeWord ==
  ASSUME NEW words \in Seq(Texts), words # << >>, NoBlank(words[1]),
         NEW f, FreeIs(f, Tail(words)), NEW g, Joins(words[1] \o <<Blank>>, f, g)
  PROVE  FreeIs(g, words)
<1> DEFINE w == words[1]
           more == Tail(words)
<1>1. w \in Texts /\ more \in Seq(Texts)
  BY TailType
<1>2. /\ more = << >> => Joined(words) = w
      /\ more # << >> => Joined(words) = (w \o <<Blank>>) \o Joined(more)
  BY JoinedTail
<1>3. NoBlank(w) /\ FreeIs(f, more) /\ Joins(w \o <<Blank>>, f, g)
  OBVIOUS
<1> HIDE DEF w, more
<1>4. <<Blank>> \in Seq(Chars) /\ w \in Seq(Chars)
  BY <1>1, CharsApart DEF Texts
<1>5. w \o <<Blank>> \in Seq(Chars)
  BY <1>4
<1>6. CASE more = << >>
  <2>1. f = << >> /\ Joined(words) = w
    BY <1>2, <1>3, <1>6 DEF FreeIs
  <2> DEFINE u == w \o <<Blank>>
  <2>2. Joins(u, << >>, g) /\ u \in Seq(Chars)
    BY <1>3, <1>5, <2>1
  <2> HIDE DEF u
  <2>3. g = u
    BY <2>2 DEF Joins
  <2>4. Joins(w, <<Blank>>, g)
    BY <2>3, Zenon DEF Joins, u
  <2> QED BY <1>1, <1>3, <2>1, <2>4, CleanWord, Zenon DEF FreeIs
<1>7. CASE more # << >>
  <2> DEFINE u == w \o <<Blank>>
             j == Joined(more)
             k == Joined(words)
  <2>1. Joins(u, j, k)
    BY <1>2, <1>7, Zenon DEF Joins
  <2>2. Clean(j) /\ (f = j \/ Joins(j, <<Blank>>, f)) /\ u \in Seq(Chars) /\ Joins(u, f, g)
    BY <1>3, <1>5, <1>7, Zenon DEF FreeIs
  <2>3. Clean(k)
    BY <1>1, <1>3, <2>1, <2>2, CleanBehind, Zenon
  <2> HIDE DEF u, j, k
  <2>4. j \in Seq(Chars) /\ k \in Seq(Chars)
    BY <2>2, <2>3 DEF Clean, Texts
  <2>5. ASSUME f = j PROVE g = k
    BY <2>1, <2>2, <2>5, Zenon DEF Joins
  <2>6. ASSUME Joins(j, <<Blank>>, f) PROVE Joins(k, <<Blank>>, g)
    <3>1. \E b : Joins(k, <<Blank>>, b)
      BY Zenon DEF Joins
    <3>2. PICK b : Joins(k, <<Blank>>, b)
      BY <3>1
    <3>3. Joins(u, f, b)
      BY <1>4, <2>1, <2>2, <2>4, <2>6, <3>2, Regroup, Zenon
    <3>4. b = g
      BY <2>2, <3>3, Zenon DEF Joins
    <3> QED BY <3>2, <3>4
  <2>7. words # << >>
    OBVIOUS
  <2> QED BY <2>2, <2>3, <2>5, <2>6, <2>7, Zenon DEF FreeIs, k
<1> QED BY <1>6, <1>7

(* A word before an understood term makes one.                             *)
LEMMA WordUnderstood ==
  ASSUME NEW pieces \in Seq(Pieces), pieces # << >>, WellFormed(pieces[1]),
         pieces[1].kind = "word", Understood(Tail(pieces), Compose(Tail(pieces)))
  PROVE  Understood(pieces, Compose(pieces))
<1> DEFINE w == pieces[1].text
           c == Compose(Tail(pieces))
           s == Compose(pieces)
           words == Words(pieces)
<1>1. pieces[1] \in Pieces
  BY TailType
<1>2. w \in Texts /\ PieceText(pieces[1]) = w
  BY <1>1, PieceIs, PieceTextIs
<1>3. NoBlank(w) /\ ~Contains(w, Colon)
  BY DEF WellFormed
<1>4. /\ s \in Texts /\ s # << >> /\ s[1] # Blank
  BY PieceAfter
<1>5. /\ c \in Texts /\ Read[c].queries = PairQueries(Tail(pieces))
      /\ FreeIs(Read[c].free, Words(Tail(pieces))) /\ (Tail(pieces) = << >> <=> c = << >>)
  BY DEF Understood
<1>6. /\ PairQueries(pieces) = PairQueries(Tail(pieces)) /\ words \in Seq(Texts)
      /\ words # << >> /\ words[1] = w /\ Tail(words) = Words(Tail(pieces))
  BY QueriesTail, WordsTail
<1>7. /\ c = << >> => s = w
      /\ c # << >> => Joins(w \o <<Blank>>, c, s)
  BY <1>2, <1>5, ComposeTail
<1> HIDE DEF w, c, s, words
<1>8. \A i \in 1 .. Len(w) : w[i] # Colon
  BY <1>2, <1>3 DEF Contains, Texts
<1>9. CASE c = << >>
  <2>1. Starts(w) = {}
    <3>1. ASSUME NEW p \in DOMAIN w, NEW e \in NameColons(w, p)
          PROVE  FALSE
      <4>1. p \in 1 .. Len(w) /\ Len(w) \in Nat
        BY <1>2 DEF Texts
      <4>2. e \in p + 1 .. Len(w) - 1 /\ w[e] = Colon
        BY DEF NameColons
      <4>3. e \in 1 .. Len(w)
        BY <4>1, <4>2
      <4> QED BY <1>8, <4>2, <4>3
    <3> QED BY <3>1 DEF Starts
  <2>2. Read[w].queries = << >> /\ Read[w].free = w
    BY <1>2, <2>1, ReadParts
  <2>3. Read[c].queries = << >> /\ Words(Tail(pieces)) = << >>
    <3>1. Understood(<< >>, << >>) /\ Words(<< >>) = << >> /\ PairQueries(<< >>) = << >>
      BY NoPieces, NoneUnderstood
    <3> QED BY <1>5, <1>9, <3>1
  <2>4. FreeIs(w, words)
    BY <1>3, <1>6, <2>3, FreeAlone
  <2> QED BY <1>4, <1>5, <1>6, <1>7, <1>9, <2>2, <2>3, <2>4 DEF Understood, s, words
<1>10. CASE c # << >>
  <2>1. /\ Read[s].queries = Read[c].queries
        /\ Joins(w \o <<Blank>>, Read[c].free, Read[s].free)
    BY <1>2, <1>5, <1>7, <1>8, <1>10, WordRead, Zenon
  <2>2. FreeIs(Read[s].free, words)
    BY <1>3, <1>5, <1>6, <2>1, FreeWord, Zenon
  <2> QED BY <1>4, <1>5, <1>6, <2>1, <2>2, Zenon DEF Understood, s, words
<1> QED BY <1>9, <1>10

(* All pieces are well formed.                                             *)
AllWell(pieces) == \A i \in DOMAIN pieces : WellFormed(pieces[i])

(* Such a term is understood, however many pieces it has.                  *)
LEMMA AllUnderstood ==
  ASSUME NEW pieces \in Seq(Pieces), AllWell(pieces)
  PROVE  Understood(pieces, Compose(pieces))
<1> DEFINE Good(ps) == Understood(ps, Compose(ps))
           U == {n \in Nat : \A ps \in Seq(Pieces) : Len(ps) = n /\ AllWell(ps) => Good(ps)}
<1>1. 0 \in U
  <2>1. ASSUME NEW ps \in Seq(Pieces), Len(ps) = 0
        PROVE  Good(ps)
    <3>1. ps = << >>
      BY <2>1
    <3> QED BY <3>1, NoneUnderstood
  <2> HIDE DEF Good
  <2> QED BY <2>1
<1>2. \A n \in Nat : n \in U => n + 1 \in U
  <2> TAKE n \in Nat
  <2> HAVE n \in U
  <2>1. \A ps \in Seq(Pieces) : Len(ps) = n /\ AllWell(ps) => Good(ps)
    <3> HIDE DEF Good
    <3> QED OBVIOUS
  <2>2. ASSUME NEW ps \in Seq(Pieces), Len(ps) = n + 1, AllWell(ps)
        PROVE  Good(ps)
    <3>1. ps # << >>
      BY <2>2
    <3>2. /\ Tail(ps) \in Seq(Pieces) /\ Len(Tail(ps)) = Len(ps) - 1
          /\ DOMAIN Tail(ps) = 1 .. Len(Tail(ps))
          /\ \A i \in DOMAIN Tail(ps) : Tail(ps)[i] = ps[i + 1]
          /\ ps[1] \in Pieces /\ DOMAIN ps = 1 .. Len(ps)
      BY <3>1, TailType
    <3>3. Len(Tail(ps)) = n
      BY <2>2, <3>2
    <3>4. AllWell(Tail(ps)) /\ WellFormed(ps[1])
      <4>1. \A i \in 1 .. n : i + 1 \in 1 .. n + 1
        OBVIOUS
      <4>2. 1 \in 1 .. n + 1
        OBVIOUS
      <4> QED BY <2>2, <3>2, <3>3, <4>1, <4>2 DEF AllWell
    <3>5. Good(Tail(ps))
      <4> HIDE DEF Good
      <4> QED BY <2>1, <3>2, <3>3, <3>4
    <3> QED BY <3>1, <3>4, <3>5, PairUnderstood, WordUnderstood, Zenon
  <2> HIDE DEF Good
  <2> QED BY <2>2
<1>3. \A n \in Nat : n \in U
  <2> HIDE DEF U
  <2> QED BY <1>1, <1>2, All
<1>4. Len(pieces) \in Nat
  OBVIOUS
<1>5. Good(pieces)
  <2> HIDE DEF Good
  <2> QED BY <1>3, <1>4
<1> QED BY <1>5

(* Strip takes away the blank behind, and no more.                         *)
LEMMA StripClean ==
  ASSUME NEW j, Clean(j)
  PROVE  /\ Strip(j, Blank) = j
         /\ \A f : Joins(j, <<Blank>>, f) => Strip(f, Blank) = j
<1>1. j \in Texts /\ j \in Seq(Chars) /\ j # << >> /\ j[1] # Blank /\ j[Len(j)] # Blank
  BY DEF Clean, Texts
<1>2. Len(j) \in Nat \ {0}
  BY <1>1
<1>3. 1 \in 1 .. Len(j) /\ Len(j) \in 1 .. Len(j)
  BY <1>2
<1>4. Strip(j, Blank) = j
  <2>1. \A i \in 1 .. Len(j) : ~(i < 1 \/ Len(j) < i)
    BY <1>2
  <2>2. Strip(j, Blank) = SubSeq(j, 1, Len(j))
    BY <1>1, <1>3, <2>1, StripIs
  <2> QED BY <1>1, <2>2, WholeText
<1>5. ASSUME NEW f, Joins(j, <<Blank>>, f)
      PROVE  Strip(f, Blank) = j
  <2>1. <<Blank>> \in Seq(Chars) /\ Len(<<Blank>>) = 1 /\ <<Blank>>[1] = Blank
    BY CharsApart DEF Texts
  <2>2. WholeOf(j, Len(j), <<Blank>>, 1, f)
    BY <1>1, <1>5, <2>1, Both
  <2>3. /\ f \in Seq(Chars) /\ Len(f) = Len(j) + 1 /\ (\A i \in 1 .. Len(j) : f[i] = j[i])
        /\ f[Len(j) + 1] = Blank
    BY <2>1, <2>2 DEF WholeOf
  <2>4. 1 \in 1 .. Len(f) /\ Len(j) \in 1 .. Len(f)
    BY <1>2, <2>3
  <2>5. \A i \in 1 .. Len(f) : i < 1 \/ Len(j) < i => f[i] = Blank
    <3>1. \A i \in 1 .. Len(f) : i < 1 \/ Len(j) < i => i = Len(j) + 1
      BY <1>2, <2>3
    <3> QED BY <2>3, <3>1
  <2>6. f \in Texts /\ f[1] # Blank /\ f[Len(j)] # Blank
    BY <1>1, <1>3, <2>3 DEF Texts
  <2>7. Strip(f, Blank) = SubSeq(f, 1, Len(j))
    BY <1>3, <2>4, <2>5, <2>6, StripIs
  <2>8. PartIs(f, 1, Len(j), j)
    BY <1>2, <2>3, <2>4 DEF PartIs
  <2>9. SubSeq(f, 1, Len(j)) = j
    BY <1>1, <2>6, <2>8, SamePart
  <2> QED BY <2>7, <2>9
<1> QED BY <1>4, <1>5

(* A term of well-formed pieces is read as documented, however many        *)
(* pieces it has and in whatever order.                                    *)
LEMMA ReadAsDocumented ==
  ASSUME NEW pieces \in Seq(Pieces), AllWell(pieces)
  PROVE  GetQuery(Compose(pieces)) = Documented(pieces)
<1> DEFINE s == Compose(pieces)
           free == Read[s].free
           words == Words(pieces)
<1>1. Read[s].queries = PairQueries(pieces) /\ FreeIs(free, words)
  BY AllUnderstood DEF Understood
<1>2. Strip(free, Blank) = Joined(words)
  <2> HIDE DEF free, words
  <2>1. CASE words = << >>
    <3>1. << >> \in Texts /\ \A i \in 1 .. Len(<< >>) : << >>[i] = Blank
      BY DEF Texts
    <3>2. Strip(<< >>, Blank) = << >>
      BY <3>1, StripNone
    <3>3. free = << >>
      BY <1>1, <2>1 DEF FreeIs
    <3> QED BY <2>1, <3>2, <3>3, JoinedNone
  <2>2. CASE words # << >>
    BY <1>1, <2>2, StripClean DEF FreeIs
  <2> QED BY <2>1, <2>2
<1> QED BY <1>1, <1>2, Zenon DEF GetQuery, Documented

-----------------------------------------------------------------------------
(***************************************************************************)
(* JSON values, and their depth.                                           *)
(***************************************************************************)

(* The JSON values with one more list or dictionary around those of S.     *)
Scalars == [kind : {"scalar"}, text : ScalarTexts]
Around(S) ==
  Scalars \cup ([kind : {"list"}, items : Seq(S)]
                  \cup [kind : {"dict"}, fields : [Names -> S \cup {Absent}]])

(* The values with at most n of them inside each other.                    *)
JsonLevel(f, n) == IF n = 0 THEN Scalars ELSE Around(f[n - 1])

(* Up to every nesting they are there,                                     *)
LEMMA LevelsThere ==
  ASSUME NEW m \in Nat
  PROVE  \E f : f = [n \in 0 .. m |-> JsonLevel(f, n)]
<1> DEFINE U == {k \in Nat : \E f : f = [n \in 0 .. k |-> JsonLevel(f, n)]}
<1>1. 0 \in U
  <2> DEFINE f == [n \in 0 .. 0 |-> Scalars]
  <2>1. \A n \in 0 .. 0 : JsonLevel(f, n) = Scalars
    BY DEF JsonLevel
  <2>2. f = [n \in 0 .. 0 |-> JsonLevel(f, n)]
    BY <2>1
  <2> QED BY <2>2
<1>2. ASSUME NEW k \in Nat, k \in U
      PROVE  k + 1 \in U
  <2>1. PICK f : f = [n \in 0 .. k |-> JsonLevel(f, n)]
    BY <1>2
  <2> DEFINE g == [n \in 0 .. k + 1 |-> IF n <= k THEN f[n] ELSE Around(f[k])]
  <2>2. \A n \in 0 .. k : g[n] = f[n]
    OBVIOUS
  <2>3. g[k + 1] = Around(f[k])
    <3>1. k + 1 \in 0 .. k + 1 /\ ~ (k + 1 <= k)
      OBVIOUS
    <3> QED BY <3>1
  <2>4. g = [n \in 0 .. k + 1 |-> g[n]]
    OBVIOUS
  <2> HIDE DEF g
  <2>5. ASSUME NEW n \in 0 .. k + 1
        PROVE  g[n] = JsonLevel(g, n)
    <3>1. CASE n = k + 1
      <4>1. n # 0 /\ n - 1 = k /\ k \in 0 .. k
        BY <3>1
      <4>2. g[k] = f[k]
        BY <2>2, <4>1
      <4> QED BY <2>3, <3>1, <4>1, <4>2 DEF JsonLevel
    <3>2. CASE n # k + 1
      <4>1. n \in 0 .. k
        BY <3>2
      <4>2. f[n] = JsonLevel(f, n)
        BY <2>1, <4>1
      <4>3. n # 0 => n - 1 \in 0 .. k
        BY <4>1
      <4>4. JsonLevel(f, n) = JsonLevel(g, n)
        BY <2>2, <4>3 DEF JsonLevel
      <4> QED BY <2>2, <4>1, <4>2, <4>4
    <3> QED BY <3>1, <3>2
  <2>6. g = [n \in 0 .. k + 1 |-> JsonLevel(g, n)]
    BY <2>4, <2>5
  <2> QED BY <2>6
<1>3. m \in U
  <2> HIDE DEF U
  <2> QED BY <1>1, <1>2, All
<1> QED BY <1>3

(* and they are those of JsonOf.                                           *)
LEMMA JsonOfIs ==
  /\ JsonOf[0] = Scalars
  /\ \A n \in 1 .. MaxNesting : JsonOf[n] = Around(JsonOf[n - 1])
<1>1. MaxNesting \in Nat
  BY RenderAssumption
<1>2. \E f : f = [n \in 0 .. MaxNesting |-> JsonLevel(f, n)]
  BY <1>1, LevelsThere
<1>3. JsonOf = CHOOSE f : f = [n \in 0 .. MaxNesting |-> JsonLevel(f, n)]
  <2>1. ASSUME NEW f, NEW n \in 0 .. MaxNesting
        PROVE  JsonLevel(f, n) =
                 [kind : {"scalar"}, text : ScalarTexts]
                   \cup IF n = 0 THEN {}
                        ELSE [kind : {"list"}, items : Seq(f[n - 1])]
                               \cup [kind : {"dict"}, fields : [Names -> f[n - 1] \cup {Absent}]]
    BY Zenon DEF JsonLevel, Scalars, Around
  <2>2. ASSUME NEW f
        PROVE  [n \in 0 .. MaxNesting |-> JsonLevel(f, n)] =
                 [n \in 0 .. MaxNesting |->
                 [kind : {"scalar"}, text : ScalarTexts]
                   \cup IF n = 0 THEN {}
                        ELSE [kind : {"list"}, items : Seq(f[n - 1])]
                               \cup [kind : {"dict"}, fields : [Names -> f[n - 1] \cup {Absent}]]]
    BY <2>1
  <2> QED BY <2>2, Zenon DEF JsonOf
<1>4. JsonOf = [n \in 0 .. MaxNesting |-> JsonLevel(JsonOf, n)]
  BY <1>2, <1>3
<1>5. \A n \in 0 .. MaxNesting : JsonOf[n] = JsonLevel(JsonOf, n)
  BY <1>4
<1>6. 0 \in 0 .. MaxNesting /\ \A n \in 1 .. MaxNesting : n \in 0 .. MaxNesting /\ n # 0
  BY <1>1
<1> QED BY <1>5, <1>6 DEF JsonLevel

(* More values, more around them;                                          *)
LEMMA AroundGrows ==
  ASSUME NEW S, NEW T, S \subseteq T
  PROVE  Around(S) \subseteq Around(T)
<1> SUFFICES ASSUME NEW v \in Around(S)
             PROVE  v \in Around(T)
  OBVIOUS
<1>1. CASE v \in Scalars
  BY <1>1 DEF Around
<1>2. CASE v \in [kind : {"list"}, items : Seq(S)]
  <2>1. \A items \in Seq(S) : items \in Seq(T)
    <3> TAKE items \in Seq(S)
    <3>1. Len(items) \in Nat /\ items \in [1 .. Len(items) -> S]
      OBVIOUS
    <3>2. items \in [1 .. Len(items) -> T]
      BY <3>1
    <3> QED BY <3>1, <3>2, SeqDef
  <2>2. v \in [kind : {"list"}, items : Seq(T)]
    BY <1>2, <2>1
  <2> QED BY <2>2 DEF Around
<1>3. CASE v \in [kind : {"dict"}, fields : [Names -> S \cup {Absent}]]
  <2>1. \A fields \in [Names -> S \cup {Absent}] : fields \in [Names -> T \cup {Absent}]
    OBVIOUS
  <2>2. v \in [kind : {"dict"}, fields : [Names -> T \cup {Absent}]]
    BY <1>3, <2>1
  <2> QED BY <2>2 DEF Around
<1> QED BY <1>1, <1>2, <1>3, Zenon DEF Around

(* so every level has those before it.                                     *)
LEMMA JsonGrows ==
  \A n \in 1 .. MaxNesting : JsonOf[n - 1] \subseteq JsonOf[n]
<1> DEFINE U == {m \in Nat : m + 1 <= MaxNesting => JsonOf[m] \subseteq JsonOf[m + 1]}
<1>0. MaxNesting \in Nat
  BY RenderAssumption
<1>1. 0 \in U
  <2> SUFFICES ASSUME 0 + 1 <= MaxNesting
               PROVE  JsonOf[0] \subseteq JsonOf[0 + 1]
    OBVIOUS
  <2>1. 1 \in 1 .. MaxNesting /\ 0 + 1 = 1 /\ 1 - 1 = 0
    BY <1>0
  <2>2. JsonOf[1] = Around(JsonOf[0]) /\ JsonOf[0] = Scalars
    BY <2>1, JsonOfIs
  <2>3. JsonOf[0] \subseteq JsonOf[1]
    BY <2>2, Zenon DEF Around
  <2> QED BY <2>1, <2>3
<1>2. \A m \in Nat : m \in U => m + 1 \in U
  <2> SUFFICES ASSUME NEW m \in Nat, m \in U, (m + 1) + 1 <= MaxNesting
               PROVE  JsonOf[m + 1] \subseteq JsonOf[(m + 1) + 1]
    OBVIOUS
  <2>1. /\ m + 1 \in 1 .. MaxNesting /\ (m + 1) - 1 = m
        /\ (m + 1) + 1 \in 1 .. MaxNesting /\ ((m + 1) + 1) - 1 = m + 1
    BY <1>0
  <2>2. JsonOf[m] \subseteq JsonOf[m + 1]
    BY <2>1
  <2>3. JsonOf[m + 1] = Around(JsonOf[m]) /\ JsonOf[(m + 1) + 1] = Around(JsonOf[m + 1])
    <3>1. JsonOf[m + 1] = Around(JsonOf[(m + 1) - 1])
      BY <2>1, JsonOfIs
    <3>2. JsonOf[(m + 1) + 1] = Around(JsonOf[((m + 1) + 1) - 1])
      BY <2>1, JsonOfIs
    <3> QED BY <2>1, <3>1, <3>2
  <2> QED BY <2>2, <2>3, AroundGrows
<1>3. \A m \in Nat : m \in U
  <2> HIDE DEF U
  <2> QED BY <1>1, <1>2, All
<1> SUFFICES ASSUME NEW n \in 1 .. MaxNesting
             PROVE  JsonOf[n - 1] \subseteq JsonOf[n]
  OBVIOUS
<1>4. n - 1 \in Nat /\ (n - 1) + 1 = n /\ n <= MaxNesting
  BY <1>0
<1> QED BY <1>3, <1>4

(* How many lists and dictionaries a value has inside each other.          *)
DepthIs(v, n) ==
  /\ n \in 0 .. MaxNesting /\ v \in JsonOf[n]
  /\ \A k \in 0 .. MaxNesting : v \in JsonOf[k] => n <= k

(* The depth of a value.                                                   *)
Depth == [v \in Json |-> CHOOSE n : DepthIs(v, n)]

(* Every value has one.                                                    *)
LEMMA DepthFound ==
  ASSUME NEW v \in Json
  PROVE  DepthIs(v, Depth[v])
<1> DEFINE U == {n \in 0 .. MaxNesting : v \in JsonOf[n]}
<1>1. MaxNesting \in Nat /\ v \in JsonOf[MaxNesting]
  BY RenderAssumption DEF Json
<1>2. U \in SUBSET Nat /\ U # {}
  BY <1>1
<1>3. PICK m \in U : \A k \in U : m <= k
  <2> HIDE DEF U
  <2> QED BY <1>2, Least
<1>4. DepthIs(v, m)
  BY <1>3 DEF DepthIs
<1> QED BY <1>4, Zenon DEF Depth

(* The parts of a value are values of less depth.                          *)
Part(u, v) == u \in Json /\ Depth[u] < Depth[v]

(* Values of the level below are parts.                                    *)
LEMMA PartThere ==
  ASSUME NEW v \in Json, NEW n \in 1 .. MaxNesting, DepthIs(v, n), NEW u \in JsonOf[n - 1]
  PROVE  Part(u, v)
<1>1. MaxNesting \in Nat
  BY RenderAssumption
<1>2. u \in Json
  <2> DEFINE U == {m \in Nat : n - 1 + m <= MaxNesting => u \in JsonOf[(n - 1) + m]}
  <2>1. 0 \in U
    BY <1>1
  <2>2. \A m \in Nat : m \in U => m + 1 \in U
    <3> SUFFICES ASSUME NEW m \in Nat, m \in U, n - 1 + (m + 1) <= MaxNesting
                 PROVE  u \in JsonOf[(n - 1) + (m + 1)]
      OBVIOUS
    <3>1. /\ (n - 1) + m <= MaxNesting /\ (n - 1) + (m + 1) \in 1 .. MaxNesting
          /\ ((n - 1) + (m + 1)) - 1 = (n - 1) + m
      BY <1>1
    <3> QED BY <3>1, JsonGrows
  <2>3. \A m \in Nat : m \in U
    <3> HIDE DEF U
    <3> QED BY <2>1, <2>2, All
  <2>4. MaxNesting - (n - 1) \in Nat /\ (n - 1) + (MaxNesting - (n - 1)) = MaxNesting
    BY <1>1
  <2>5. MaxNesting - (n - 1) \in U
    <3> HIDE DEF U
    <3> QED BY <2>3, <2>4
  <2> QED BY <2>4, <2>5 DEF Json
<1>3. DepthIs(u, Depth[u]) /\ DepthIs(v, Depth[v])
  BY <1>2, DepthFound
<1>4. n - 1 \in 0 .. MaxNesting /\ n \in 0 .. MaxNesting
  BY <1>1
<1>5. Depth[u] <= n - 1 /\ n <= Depth[v] /\ Depth[u] \in Nat /\ Depth[v] \in Nat
  BY <1>1, <1>3, <1>4 DEF DepthIs
<1>6. Depth[u] < Depth[v]
  BY <1>5
<1> QED BY <1>2, <1>6 DEF Part

(* The three kinds of values, and their parts.                             *)
LEMMA ValueIs ==
  ASSUME NEW v \in Json
  PROVE  /\ v.kind \in {"scalar", "list", "dict"}
         /\ v.kind = "scalar" => v.text \in ScalarTexts
         /\ v.kind = "list" =>
              v.items \in Seq(Json) /\ \A i \in DOMAIN v.items : Part(v.items[i], v)
         /\ v.kind = "dict" =>
              /\ v.fields \in [Names -> Json \cup {Absent}]
              /\ \A n \in Names : v.fields[n] # Absent => Part(v.fields[n], v)
<1> DEFINE n == Depth[v]
<1>1. MaxNesting \in Nat /\ DepthIs(v, n)
  BY RenderAssumption, DepthFound
<1> HIDE DEF n
<1>2. n \in 0 .. MaxNesting /\ v \in JsonOf[n]
  BY <1>1 DEF DepthIs
<1>3. CASE v \in Scalars
  BY <1>3 DEF Scalars
<1>4. CASE v \notin Scalars
  <2> DEFINE S == JsonOf[n - 1]
  <2>1. n \in 1 .. MaxNesting
    BY <1>1, <1>2, <1>4, JsonOfIs
  <2>2. v \in Around(S)
    BY <1>2, <2>1, JsonOfIs
  <2>3. \A u \in S : Part(u, v) /\ u \in Json
    BY <1>1, <2>1, PartThere DEF Part
  <2> HIDE DEF S
  <2>4. CASE v \in [kind : {"list"}, items : Seq(S)]
    <3>1. v.kind = "list" /\ v.items \in Seq(S)
      BY <2>4
    <3>2. \A i \in DOMAIN v.items : v.items[i] \in S
      BY <3>1
    <3>3. v.items \in Seq(Json)
      <4>1. Len(v.items) \in Nat /\ v.items \in [1 .. Len(v.items) -> S]
        BY <3>1
      <4>2. v.items \in [1 .. Len(v.items) -> Json]
        BY <2>3, <4>1
      <4> QED BY <4>1, <4>2, SeqDef
    <3> QED BY <2>3, <3>1, <3>2, <3>3
  <2>5. CASE v \in [kind : {"dict"}, fields : [Names -> S \cup {Absent}]]
    <3>1. v.kind = "dict" /\ v.fields \in [Names -> S \cup {Absent}]
      BY <2>5
    <3>2. \A name \in Names : v.fields[name] # Absent => v.fields[name] \in S
      BY <3>1
    <3>3. v.fields \in [Names -> Json \cup {Absent}]
      BY <2>3, <3>1
    <3> QED BY <2>3, <3>1, <3>2, <3>3
  <2> QED BY <1>4, <2>2, <2>4, <2>5 DEF Around
<1> QED BY <1>3, <1>4

(* The names of the fields there are.                                      *)
LEMMA SortedNamesType ==
  ASSUME NEW fields
  PROVE  SortedNames(fields) \in Seq({n \in Names : fields[n] # Absent})
<1> DEFINE S == {n \in Names : fields[n] # Absent}
           ss == [i \in DOMAIN NameOrder |->
                    IF fields[NameOrder[i]] = Absent THEN << >> ELSE <<NameOrder[i]>>]
<1>1. /\ NameOrder \in Seq(Names) /\ Len(NameOrder) \in Nat /\ DOMAIN NameOrder = 1 .. Len(NameOrder)
      /\ \A i \in 1 .. Len(NameOrder) : NameOrder[i] \in Names
  BY RenderAssumption
<1>2. ASSUME NEW i \in DOMAIN NameOrder
      PROVE  ss[i] \in Seq(S)
  <2>1. ss[i] = IF fields[NameOrder[i]] = Absent THEN << >> ELSE <<NameOrder[i]>>
    OBVIOUS
  <2>2. fields[NameOrder[i]] # Absent => NameOrder[i] \in S
    BY <1>1
  <2> HIDE DEF S, ss
  <2>3. << >> \in Seq(S) /\ (NameOrder[i] \in S => <<NameOrder[i]>> \in Seq(S))
    OBVIOUS
  <2> QED BY <2>1, <2>2, <2>3, Zenon
<1>3. ss \in [1 .. Len(NameOrder) -> Seq(S)]
  <2>1. ss = [i \in 1 .. Len(NameOrder) |-> ss[i]]
    BY <1>1
  <2> HIDE DEF S, ss
  <2> QED BY <1>1, <1>2, <2>1
<1>4. SortedNames(fields) = FlattenSeq(ss)
  BY Zenon DEF SortedNames
<1> HIDE DEF S, ss
<1>5. ss \in Seq(Seq(S))
  BY <1>1, <1>3, MapType
<1> QED BY <1>4, <1>5, FlattenType DEF S

(* No fields, no names.                                                    *)
LEMMA NoNames ==
  ASSUME NEW fields, \A n \in Names : fields[n] = Absent
  PROVE  SortedNames(fields) = << >>
<1> DEFINE S == {n \in Names : fields[n] # Absent}
           names == SortedNames(fields)
<1>1. names \in Seq(S) /\ S = {}
  BY SortedNamesType
<1> HIDE DEF names, S
<1>2. Len(names) \in Nat /\ \A i \in 1 .. Len(names) : names[i] \in S
  BY <1>1
<1>3. Len(names) = 0
  <2>1. Len(names) # 0 => 1 \in 1 .. Len(names)
    BY <1>2
  <2> QED BY <1>1, <1>2, <2>1
<1>4. names = << >>
  BY <1>1, <1>3
<1> QED BY <1>4 DEF names

(* A path with one name more is a path.                                    *)
LEMMA PathTail ==
  ASSUME NEW path \in Seq(Names), NEW n \in Names
  PROVE  Append(path, n) \in Paths
BY DEF Paths

-----------------------------------------------------------------------------
(***************************************************************************)
(* Walk satisfies its equation: by recursion on the depth of a value.      *)
(***************************************************************************)

(* One step of Walk, with f for the walks of the parts.                    *)
ListWalks(f, v, path) == [i \in DOMAIN v.items |-> f[v.items[i]][path]]
(* (The walks of the fields.)                                              *)
DictWalks(f, v, path) ==
  LET names == SortedNames(v.fields)
  IN [i \in DOMAIN names |-> f[v.fields[names[i]]][Append(path, names[i])]]
(* What a dictionary that has fields ends with.                            *)
EndMark(v) == IF SortedNames(v.fields) = << >> THEN << >> ELSE <<Break>>

(* A scalar, a list and a dictionary,                                      *)
WalkAt(f, v, path) ==
  IF v.kind = "scalar" THEN <<Row(path, v.text)>>
  ELSE IF v.kind = "list" THEN FlattenSeq(ListWalks(f, v, path))
  ELSE FlattenSeq(DictWalks(f, v, path)) \o EndMark(v)

(* for every path.                                                         *)
WalkOf(f, v) == [path \in Paths |-> WalkAt(f, v, path)]

(* What the walks of a value are.                                          *)
Walks == [Paths -> Seq(Rows)]

(* Rows, and the end mark, which is none of a scalar.                      *)
LEMMA RowsType ==
  /\ Break \in Rows /\ << >> \in Seq(Rows) /\ <<Break>> \in Seq(Rows)
  /\ \A path \in Paths, text \in ScalarTexts :
       /\ Row(path, text) \in Rows /\ <<Row(path, text)>> \in Seq(Rows)
       /\ Row(path, text) # Break
<1>1. Break \in Rows
  BY DEF Rows
<1>2. \A path \in Paths, text \in ScalarTexts : Row(path, text) \in Rows
  BY DEF Row, Rows
<1>3. \A path \in Paths, text \in ScalarTexts : Row(path, text) # Break
  BY DEF Row, Break, Paths
<1>4. << >> \in Seq(Rows) /\ \A r \in Rows : <<r>> \in Seq(Rows)
  OBVIOUS
<1> QED BY <1>1, <1>2, <1>3, <1>4, Zenon

(* The walks of the items of a list,                                       *)
LEMMA ListWalksType ==
  ASSUME NEW v \in Json, v.kind = "list", NEW f, \A u : Part(u, v) => f[u] \in Walks,
         NEW path \in Paths
  PROVE  /\ ListWalks(f, v, path) \in Seq(Seq(Rows))
         /\ Len(ListWalks(f, v, path)) = Len(v.items)
         /\ \A i \in 1 .. Len(v.items) : ListWalks(f, v, path)[i] = f[v.items[i]][path]
<1> DEFINE n == Len(v.items)
           ss == ListWalks(f, v, path)
<1>1. n \in Nat /\ DOMAIN v.items = 1 .. n /\ \A i \in 1 .. n : Part(v.items[i], v)
  BY ValueIs
<1> HIDE DEF n
<1>2. ss = [i \in 1 .. n |-> f[v.items[i]][path]]
  BY <1>1, Zenon DEF ListWalks
<1>3. \A i \in 1 .. n : f[v.items[i]][path] \in Seq(Rows)
  <2>1. \A w \in Walks : w[path] \in Seq(Rows)
    BY DEF Walks
  <2> QED BY <1>1, <2>1, Zenon
<1> HIDE DEF ss
<1>4. ss \in [1 .. n -> Seq(Rows)] /\ \A i \in 1 .. n : ss[i] = f[v.items[i]][path]
  BY <1>2, <1>3
<1>5. ss \in Seq(Seq(Rows)) /\ Len(ss) = n
  BY <1>1, <1>4, MapType
<1> QED BY <1>4, <1>5 DEF n, ss

(* the fields of a dictionary,                                             *)
LEMMA DictParts ==
  ASSUME NEW v \in Json, v.kind = "dict"
  PROVE  /\ SortedNames(v.fields) \in Seq(Names)
         /\ Len(SortedNames(v.fields)) \in Nat
         /\ DOMAIN SortedNames(v.fields) = 1 .. Len(SortedNames(v.fields))
         /\ \A i \in 1 .. Len(SortedNames(v.fields)) :
              SortedNames(v.fields)[i] \in Names /\ Part(v.fields[SortedNames(v.fields)[i]], v)
<1> DEFINE S == {n \in Names : v.fields[n] # Absent}
           names == SortedNames(v.fields)
<1>1. names \in Seq(S)
  BY SortedNamesType
<1>2. \A n \in S : n \in Names /\ Part(v.fields[n], v)
  BY ValueIs
<1> HIDE DEF S, names
<1>3. /\ Len(names) \in Nat /\ DOMAIN names = 1 .. Len(names)
      /\ \A i \in 1 .. Len(names) : names[i] \in S
      /\ names \in [1 .. Len(names) -> S]
  BY <1>1
<1>4. names \in Seq(Names)
  <2>1. names \in [1 .. Len(names) -> Names]
    BY <1>2, <1>3
  <2> QED BY <1>3, <2>1, SeqDef
<1> QED BY <1>2, <1>3, <1>4 DEF names

(* and their walks.                                                        *)
LEMMA DictWalksType ==
  ASSUME NEW v \in Json, v.kind = "dict", NEW f, \A u : Part(u, v) => f[u] \in Walks,
         NEW path \in Seq(Names)
  PROVE  /\ DictWalks(f, v, path) \in Seq(Seq(Rows))
         /\ Len(DictWalks(f, v, path)) = Len(SortedNames(v.fields))
         /\ \A i \in 1 .. Len(SortedNames(v.fields)) :
              DictWalks(f, v, path)[i] =
                f[v.fields[SortedNames(v.fields)[i]]][Append(path, SortedNames(v.fields)[i])]
<1> DEFINE names == SortedNames(v.fields)
           n == Len(names)
           ss == DictWalks(f, v, path)
<1>1. /\ n \in Nat /\ DOMAIN names = 1 .. n
      /\ \A i \in 1 .. n : names[i] \in Names /\ Part(v.fields[names[i]], v)
  BY DictParts
<1>2. ss = [i \in DOMAIN names |-> f[v.fields[names[i]]][Append(path, names[i])]]
  BY Zenon DEF DictWalks
<1> HIDE DEF n, names, ss
<1>3. \A i \in 1 .. n : f[v.fields[names[i]]][Append(path, names[i])] \in Seq(Rows)
  <2>1. \A w \in Walks, p \in Paths : w[p] \in Seq(Rows)
    BY DEF Walks
  <2>2. \A i \in 1 .. n : Append(path, names[i]) \in Paths
    BY <1>1, PathTail
  <2> QED BY <1>1, <2>1, <2>2, Zenon
<1>4. /\ ss \in [1 .. n -> Seq(Rows)]
      /\ \A i \in 1 .. n : ss[i] = f[v.fields[names[i]]][Append(path, names[i])]
  BY <1>1, <1>2, <1>3
<1>5. ss \in Seq(Seq(Rows)) /\ Len(ss) = n
  BY <1>1, <1>4, MapType
<1> QED BY <1>4, <1>5 DEF n, names, ss

(* A step gives walks if its parts had them.                               *)
LEMMA WalkOfType ==
  ASSUME NEW v \in Json, NEW f, \A u : Part(u, v) => f[u] \in Walks
  PROVE  WalkOf(f, v) \in Walks
<1>1. ASSUME NEW path \in Paths
      PROVE  WalkAt(f, v, path) \in Seq(Rows)
  <2>1. CASE v.kind = "scalar"
    <3>1. WalkAt(f, v, path) = <<Row(path, v.text)>>
      BY <2>1 DEF WalkAt
    <3>2. v.text \in ScalarTexts
      BY <2>1, ValueIs
    <3> QED BY <3>1, <3>2, RowsType
  <2>2. CASE v.kind = "list"
    <3>1. WalkAt(f, v, path) = FlattenSeq(ListWalks(f, v, path))
      BY <2>2 DEF WalkAt
    <3> QED BY <2>2, <3>1, ListWalksType, FlattenType
  <2>3. CASE v.kind = "dict"
    <3>1. WalkAt(f, v, path) = FlattenSeq(DictWalks(f, v, path)) \o EndMark(v)
      BY <2>3 DEF WalkAt
    <3>2. path \in Seq(Names)
      BY DEF Paths
    <3>3. FlattenSeq(DictWalks(f, v, path)) \in Seq(Rows)
      BY <2>3, <3>2, DictWalksType, FlattenType
    <3>4. EndMark(v) \in Seq(Rows)
      BY RowsType, Zenon DEF EndMark
    <3> DEFINE a == FlattenSeq(DictWalks(f, v, path))
               b == EndMark(v)
    <3> HIDE DEF a, b
    <3>5. a \in Seq(Rows) /\ b \in Seq(Rows)
      BY <3>3, <3>4 DEF a, b
    <3>6. a \o b \in Seq(Rows)
      BY <3>5
    <3> QED BY <3>1, <3>6 DEF a, b
  <2> QED BY <2>1, <2>2, <2>3, ValueIs
<1> DEFINE W(path) == WalkAt(f, v, path)
<1>2. WalkOf(f, v) = [path \in Paths |-> W(path)] /\ \A path \in Paths : W(path) \in Seq(Rows)
  BY <1>1 DEF WalkOf
<1> HIDE DEF W
<1> QED BY <1>2 DEF Walks

(* A step depends on the walks of the parts only.                          *)
LEMMA WalkOfLocal ==
  ASSUME NEW v \in Json, NEW f, NEW g, \A u : Part(u, v) => f[u] = g[u]
  PROVE  WalkOf(f, v) = WalkOf(g, v)
<1>1. ASSUME NEW path \in Paths
      PROVE  WalkAt(f, v, path) = WalkAt(g, v, path)
  <2>1. v.kind = "list" => ListWalks(f, v, path) = ListWalks(g, v, path)
    <3> HAVE v.kind = "list"
    <3>1. \A i \in DOMAIN v.items : f[v.items[i]][path] = g[v.items[i]][path]
      BY ValueIs
    <3> QED BY <3>1 DEF ListWalks
  <2>2. v.kind = "dict" => DictWalks(f, v, path) = DictWalks(g, v, path)
    <3> HAVE v.kind = "dict"
    <3> DEFINE names == SortedNames(v.fields)
    <3>1. \A i \in DOMAIN names : Part(v.fields[names[i]], v)
      BY DictParts
    <3> HIDE DEF names
    <3>2. \A i \in DOMAIN names :
            f[v.fields[names[i]]][Append(path, names[i])] = g[v.fields[names[i]]][Append(path, names[i])]
      BY <3>1, Zenon
    <3>3. [i \in DOMAIN names |-> f[v.fields[names[i]]][Append(path, names[i])]]
            = [i \in DOMAIN names |-> g[v.fields[names[i]]][Append(path, names[i])]]
      BY <3>2, Zenon
    <3> QED BY <3>3, Zenon DEF DictWalks, names
  <2>3. v.kind \in {"scalar", "list", "dict"}
    BY ValueIs
  <2>4. /\ v.kind = "scalar" => WalkAt(f, v, path) = WalkAt(g, v, path)
        /\ v.kind = "list" => WalkAt(f, v, path) = WalkAt(g, v, path)
        /\ v.kind = "dict" => WalkAt(f, v, path) = WalkAt(g, v, path)
    BY <2>1, <2>2 DEF WalkAt
  <2> QED BY <2>3, <2>4
<1> QED BY <1>1, Zenon DEF WalkOf

(* Depths are natural numbers.                                             *)
LEMMA DepthType == Depth \in [Json -> Nat]
<1>1. \A v \in Json : Depth[v] \in Nat
  BY DepthFound, RenderAssumption DEF DepthIs
<1>2. Depth = [v \in Json |-> Depth[v]]
  BY DEF Depth
<1> QED BY <1>1, <1>2

(* What holds of a value if it holds of its parts holds of every value.    *)
LEMMA ValuesAll ==
  ASSUME NEW U, \A v \in Json : (\A u : Part(u, v) => u \in U) => v \in U
  PROVE  \A v \in Json : v \in U
<1> DEFINE V == {n \in Nat : \A v \in Json : Depth[v] < n => v \in U}
<1>1. 0 \in V
  <2>1. \A v \in Json : ~ (Depth[v] < 0)
    BY DepthType
  <2> QED BY <2>1
<1>2. \A n \in Nat : n \in V => n + 1 \in V
  <2> SUFFICES ASSUME NEW n \in Nat, n \in V, NEW v \in Json, Depth[v] < n + 1
               PROVE  v \in U
    OBVIOUS
  <2>1. ASSUME NEW u, Part(u, v)
        PROVE  u \in U
    <3>1. u \in Json /\ Depth[u] \in Nat /\ Depth[v] \in Nat /\ Depth[u] < Depth[v]
      BY <2>1, DepthType DEF Part
    <3> QED BY <3>1
  <2> QED BY <2>1
<1>3. \A n \in Nat : n \in V
  <2> HIDE DEF V
  <2> QED BY <1>1, <1>2, All
<1> TAKE v \in Json
<1>4. Depth[v] \in Nat
  BY DepthType
<1>5. Depth[v] + 1 \in V /\ Depth[v] < Depth[v] + 1
  BY <1>3, <1>4
<1> QED BY <1>5

(* Walk takes such steps.                                                  *)
LEMMA WalkIs ==
  /\ \A v \in Json : Walk[v] \in Walks
  /\ \A v \in Json : Walk[v] = WalkOf(Walk, v)
<1> DEFINE G == [f \in [Json -> Walks] |-> [v \in Json |-> WalkOf(f, v)]]
<1>1. Walks # {}
  <2>1. [path \in Paths |-> << >>] \in Walks
    BY RowsType DEF Walks
  <2> QED BY <2>1
<1>2. \A f \in [Json -> Walks], v \in Json : WalkOf(f, v) \in Walks
  <2> TAKE f \in [Json -> Walks], v \in Json
  <2>1. \A u : Part(u, v) => f[u] \in Walks
    BY DEF Part
  <2> QED BY <2>1, WalkOfType
<1>3. G \in [[Json -> Walks] -> [Json -> Walks]]
  BY <1>2
<1>4. Local(Json, Walks, Depth, G)
  <2> SUFFICES ASSUME NEW f \in [Json -> Walks], NEW g \in [Json -> Walks], NEW v \in Json,
                      \A z \in Json : Depth[z] < Depth[v] => f[z] = g[z]
               PROVE  G[f][v] = G[g][v]
    BY DEF Local
  <2>1. \A u : Part(u, v) => f[u] = g[u]
    BY DEF Part
  <2>2. WalkOf(f, v) = WalkOf(g, v)
    BY <2>1, WalkOfLocal
  <2> QED BY <2>2
<1>5. \E f \in [Json -> Walks] : f = G[f]
  <2> HIDE DEF G
  <2>1. Computes(Json, Walks, Depth, G)
    BY <1>1, <1>3, <1>4, DepthType DEF Computes
  <2> QED BY <2>1, Recursion
<1>6. \E f : f = [v \in Json |-> WalkOf(f, v)]
  BY <1>5
<1>7. Walk = CHOOSE f : f = [v \in Json |-> WalkOf(f, v)]
  BY Zenon DEF Walk, WalkOf, WalkAt, ListWalks, DictWalks, EndMark
<1>8. Walk = [v \in Json |-> WalkOf(Walk, v)]
  BY <1>6, <1>7
<1>9. \A v \in Json : Walk[v] = WalkOf(Walk, v)
  BY <1>8
<1> DEFINE U == {v \in Json : Walk[v] \in Walks}
<1>10. ASSUME NEW v \in Json, \A u : Part(u, v) => u \in U
       PROVE  v \in U
  <2>1. \A u : Part(u, v) => Walk[u] \in Walks
    BY <1>10
  <2> QED BY <1>9, <2>1, WalkOfType
<1>11. \A v \in Json : v \in U
  <2> HIDE DEF U
  <2> QED BY <1>10, ValuesAll
<1> QED BY <1>9, <1>11

-----------------------------------------------------------------------------
(***************************************************************************)
(* Calls that append to an output, one after the other.                    *)
(***************************************************************************)

(* Calls one after the other, step by step.                                *)
Calls == [Outputs -> Outputs]

(* What is there before and after each of them.                            *)
CallRun(calls, out, f) ==
  /\ f \in [0 .. Len(calls) -> Outputs]
  /\ f[0] = out /\ f[Len(calls)] = Through(calls, out)
  /\ \A m \in 1 .. Len(calls) : f[m] = calls[m][f[m - 1]]

(* The fold they are, for the first of the calls.                          *)
CallSteps(h, calls, out, n) ==
  [T \in SUBSET (1 .. n) |-> IF T = {} THEN out ELSE calls[Max(T)][h[T \ {Max(T)}]]]

(* The last of some calls.                                                 *)
LEMMA MaxThere ==
  ASSUME NEW n \in Nat, NEW T \in SUBSET (1 .. n), T # {}
  PROVE  /\ Max(T) \in 1 .. n /\ Max(T) \in T /\ T \ {Max(T)} \in SUBSET (1 .. n)
         /\ \A x \in T : x <= Max(T)
<1>1. T \in SUBSET (0 .. n)
  OBVIOUS
<1>2. Max(T) \in T /\ \A x \in T : x <= Max(T)
  BY <1>1, MaxIs
<1> QED BY <1>2

(* The fold is there.                                                      *)
LEMMA CallStepsThere ==
  ASSUME NEW calls \in Seq(Calls), NEW out \in Outputs, NEW n \in Nat, n = Len(calls)
  PROVE  \E h : h \in [SUBSET (1 .. n) -> Outputs] /\ h = CallSteps(h, calls, out, n)
<1> DEFINE D == SUBSET (1 .. n)
           rank == [T \in D |-> IF T = {} THEN 0 ELSE Max(T)]
           G == [f \in [D -> Outputs] |-> CallSteps(f, calls, out, n)]
<1>1. \A T \in D : T # {} => /\ Max(T) \in 1 .. n /\ T \ {Max(T)} \in D
                             /\ calls[Max(T)] \in Calls
  <2> TAKE T \in D
  <2> HAVE T # {}
  <2>1. Max(T) \in 1 .. n /\ T \ {Max(T)} \in D
    BY MaxThere
  <2>2. calls[Max(T)] \in Calls
    <3> HIDE DEF D
    <3> QED BY <2>1, ElementOfSeq
  <2> QED BY <2>1, <2>2
<1>2. rank \in [D -> Nat]
  <2>1. \A T \in D : (IF T = {} THEN 0 ELSE Max(T)) \in Nat
    BY <1>1
  <2> HIDE DEF D
  <2> QED BY <2>1
<1>3. \A f \in [D -> Outputs] : CallSteps(f, calls, out, n) \in [D -> Outputs]
  <2> TAKE f \in [D -> Outputs]
  <2>1. \A T \in D : (IF T = {} THEN out ELSE calls[Max(T)][f[T \ {Max(T)}]]) \in Outputs
    <3> TAKE T \in D
    <3>1. T # {} => calls[Max(T)] \in Calls /\ f[T \ {Max(T)}] \in Outputs
      <4> HAVE T # {}
      <4>1. T \ {Max(T)} \in D /\ calls[Max(T)] \in Calls
        BY <1>1
      <4> HIDE DEF D
      <4> QED BY <4>1
    <3>2. \A c \in Calls, o \in Outputs : c[o] \in Outputs
      BY DEF Calls
    <3> QED BY <3>1, <3>2, Zenon
  <2> DEFINE e(T) == IF T = {} THEN out ELSE calls[Max(T)][f[T \ {Max(T)}]]
  <2>2. CallSteps(f, calls, out, n) = [T \in D |-> e(T)] /\ \A T \in D : e(T) \in Outputs
    BY <2>1 DEF CallSteps
  <2> HIDE DEF D, e
  <2> QED BY <2>2
<1>4. G \in [[D -> Outputs] -> [D -> Outputs]]
  <2> HIDE DEF D
  <2> QED BY <1>3
<1>5. Local(D, Outputs, rank, G)
  <2> SUFFICES ASSUME NEW f \in [D -> Outputs], NEW g \in [D -> Outputs], NEW T \in D,
                      \A z \in D : rank[z] < rank[T] => f[z] = g[z]
               PROVE  G[f][T] = G[g][T]
    BY DEF Local
  <2>1. T # {} => f[T \ {Max(T)}] = g[T \ {Max(T)}]
    <3> HAVE T # {}
    <3> DEFINE U == T \ {Max(T)}
    <3>1. U \in D /\ Max(T) \in 1 .. n /\ \A x \in T : x <= Max(T)
      BY <1>1, MaxThere
    <3>2. rank[T] = Max(T) /\ rank[U] = IF U = {} THEN 0 ELSE Max(U)
      BY <3>1
    <3>3. U # {} => Max(U) \in 1 .. n /\ Max(U) \in U
      BY <3>1, MaxThere
    <3>4. rank[U] < rank[T]
      <4>1. U # {} => Max(U) <= Max(T) /\ Max(U) # Max(T)
        BY <3>1, <3>3
      <4> HIDE DEF U, rank
      <4> QED BY <3>1, <3>2, <3>3, <4>1
    <3> QED BY <3>1, <3>4
  <2>2. CallSteps(f, calls, out, n)[T] = CallSteps(g, calls, out, n)[T]
    BY <2>1 DEF CallSteps
  <2> QED BY <2>2
<1>6. \E h \in [D -> Outputs] : h = G[h]
  <2> HIDE DEF D, rank, G
  <2>1. Computes(D, Outputs, rank, G)
    BY <1>2, <1>4, <1>5 DEF Computes
  <2> QED BY <2>1, Recursion
<1> QED BY <1>6

(* Through runs the calls,                                                 *)
LEMMA CallsRun ==
  ASSUME NEW calls \in Seq(Calls), NEW out \in Outputs
  PROVE  \E f : CallRun(calls, out, f)
<1> DEFINE n == Len(calls)
           Step(h) == CallSteps(h, calls, out, n)
           it == CHOOSE h : h = Step(h)
<1>1. n \in Nat /\ DOMAIN calls = 1 .. n /\ \A m \in 1 .. n : calls[m] \in Calls
  OBVIOUS
<1>2. it = Step(it)
  <2>1. \E h : h = Step(h)
    BY <1>1, CallStepsThere
  <2> HIDE DEF Step
  <2> QED BY <2>1
<1>3. Through(calls, out) = it[1 .. n]
  BY <1>1 DEF Through, FoldLeft, MapThenFoldSet, CallSteps
<1> HIDE DEF it, n
<1> USE DEF CallSteps
<1> DEFINE f == [m \in 0 .. n |-> it[1 .. m]]
<1>4. f[0] = out
  <2>1. 1 .. 0 = {} /\ {} \in SUBSET (1 .. n) /\ 0 \in 0 .. n
    BY <1>1
  <2>2. it[{}] = out
    BY <1>2, <2>1
  <2> QED BY <2>1, <2>2
<1>5. f[n] = Through(calls, out)
  BY <1>1, <1>3
<1>6. ASSUME NEW m \in 1 .. n
      PROVE  f[m] = calls[m][f[m - 1]]
  <2>1. /\ 1 .. m \in SUBSET (1 .. n) /\ 1 .. m # {}
        /\ m \in 0 .. n /\ m - 1 \in 0 .. n
    <3>1. 1 \in 1 .. m /\ m \in 0 .. n /\ m - 1 \in 0 .. n
      BY <1>1
    <3>2. \A x \in 1 .. m : x \in 1 .. n
      BY <1>1
    <3> QED BY <3>1, <3>2
  <2>2. Max(1 .. m) = m
    <3>1. \A x \in 1 .. m : x <= Max(1 .. m)
      BY <1>1, <2>1, MaxThere
    <3>2. Max(1 .. m) \in 1 .. m
      BY <1>1, <2>1, MaxThere
    <3>3. m \in 1 .. m
      BY <1>1
    <3> QED BY <1>1, <3>1, <3>2, <3>3
  <2>3. (1 .. m) \ {m} = 1 .. (m - 1)
    BY <1>1
  <2>4. it[1 .. m] = calls[Max(1 .. m)][it[(1 .. m) \ {Max(1 .. m)}]]
    BY <1>2, <2>1
  <2> QED BY <2>1, <2>2, <2>3, <2>4
<1> HIDE DEF f
<1>7. \A m \in 0 .. n : f[m] \in Outputs
  <2> DEFINE U == {m \in Nat : m <= n => f[m] \in Outputs}
  <2>1. 0 \in U
    BY <1>4
  <2>2. \A m \in Nat : m \in U => m + 1 \in U
    <3> SUFFICES ASSUME NEW m \in Nat, m \in U, m + 1 <= n
                 PROVE  f[m + 1] \in Outputs
      OBVIOUS
    <3>1. m + 1 \in 1 .. n /\ (m + 1) - 1 = m /\ f[m] \in Outputs
      BY <1>1
    <3>2. f[m + 1] = calls[m + 1][f[m]] /\ calls[m + 1] \in Calls
      BY <1>1, <1>6, <3>1
    <3> QED BY <3>1, <3>2 DEF Calls
  <2>3. \A m \in Nat : m \in U
    <3> HIDE DEF U
    <3> QED BY <2>1, <2>2, All
  <2> QED BY <1>1, <2>3
<1>8. f \in [0 .. n -> Outputs]
  <2>1. f = [m \in 0 .. n |-> f[m]]
    BY DEF f
  <2> QED BY <1>7, <2>1
<1>9. CallRun(calls, out, f)
  BY <1>4, <1>5, <1>6, <1>8 DEF CallRun, n
<1> QED BY <1>9

(* and gives an output.                                                    *)
LEMMA ThroughType ==
  ASSUME NEW calls \in Seq(Calls), NEW out \in Outputs
  PROVE  Through(calls, out) \in Outputs
<1>1. PICK f : CallRun(calls, out, f)
  BY CallsRun
<1>2. Len(calls) \in Nat
  OBVIOUS
<1>3. Len(calls) \in 0 .. Len(calls)
  BY <1>2
<1> QED BY <1>1, <1>3 DEF CallRun

-----------------------------------------------------------------------------
(***************************************************************************)
(* RenderKeyval satisfies its equation: by recursion on the depth as well. *)
(***************************************************************************)

(* One step of RenderKeyval, with f for the rendering of the parts.        *)
ListCalls(f, v, path) ==
  [i \in DOMAIN v.items |-> f[v.items[i]][ListPath(Front(path), Last(path))]]
(* (The calls for the fields.)                                             *)
DictCalls(f, v, path) ==
  LET names == SortedNames(v.fields)
  IN [i \in DOMAIN names |-> f[v.fields[names[i]]][Append(path, names[i])]]

(* A scalar, a list and a dictionary,                                      *)
RenderAt(f, v, path, out) ==
  IF v.kind = "scalar" THEN AppendRow(out, Row(path, v.text))
  ELSE IF v.kind = "list" THEN Through(ListCalls(f, v, path), out)
  ELSE IF SortedNames(v.fields) = << >> THEN out
  ELSE AppendBreak(Through(DictCalls(f, v, path), out))

(* for every path and output.                                              *)
RenderOf(f, v) == [path \in Paths |-> [out \in Outputs |-> RenderAt(f, v, path, out)]]

(* What the renderings of a value are.                                     *)
Renders == [Paths -> Calls]

(* The first items of a sequence.                                          *)
LEMMA Prefix ==
  ASSUME NEW S, NEW s \in Seq(S), NEW n \in 0 .. Len(s)
  PROVE  /\ SubSeq(s, 1, n) \in Seq(S) /\ Len(SubSeq(s, 1, n)) = n
         /\ \A i \in 1 .. n : SubSeq(s, 1, n)[i] = s[i]
<1>1. n \in Nat /\ \A i \in 1 .. n : s[i] \in S
  <2>1. Len(s) \in Nat /\ \A i \in 1 .. Len(s) : s[i] \in S
    OBVIOUS
  <2> QED BY <2>1
<1> DEFINE r == SubSeq(s, 1, n)
<1>2. /\ r \in Seq(S) /\ Len(r) = IF 1 <= n THEN n - 1 + 1 ELSE 0
      /\ \A i \in 1 .. n - 1 + 1 : r[i] = s[1 + i - 1]
  BY <1>1, SubSeqProperties
<1> HIDE DEF r
<1>3. /\ Len(r) = n /\ \A i \in 1 .. n : r[i] = s[i]
  <2>1. n - 1 + 1 = n /\ (~ (1 <= n) => n = 0) /\ \A i \in 1 .. n : 1 + i - 1 = i
    BY <1>1
  <2> QED BY <1>2, <2>1
<1> QED BY <1>2, <1>3 DEF r

(* The path of an item of a list is that of the list.                      *)
LEMMA SamePath ==
  ASSUME NEW path \in Paths
  PROVE  ListPath(Front(path), Last(path)) = path
<1>1. path \in Seq(Names) /\ path # << >>
  BY DEF Paths
<1>2. Len(path) \in Nat \ {0}
  BY <1>1
<1> DEFINE front == Front(path)
           last == Last(path)
<1>3. /\ front \in Seq(Names) /\ Len(front) = Len(path) - 1
      /\ \A i \in 1 .. Len(front) : front[i] = path[i]
      /\ last = path[Len(path)] /\ last \in Names
  <2>1. 1 \in 1 .. Len(path) /\ Len(path) - 1 \in 0 .. Len(path) /\ Len(path) \in 1 .. Len(path)
    BY <1>2
  <2>2. front = SubSeq(path, 1, Len(path) - 1) /\ last = path[Len(path)]
    BY Zenon DEF Front, Last
  <2>3. /\ SubSeq(path, 1, Len(path) - 1) \in Seq(Names)
        /\ Len(SubSeq(path, 1, Len(path) - 1)) = Len(path) - 1
        /\ \A i \in 1 .. Len(path) - 1 : SubSeq(path, 1, Len(path) - 1)[i] = path[i]
    BY <1>1, <2>1, Prefix
  <2>4. path[Len(path)] \in Names
    BY <1>1, <2>1, ElementOfSeq
  <2> HIDE DEF front, last
  <2> QED BY <2>2, <2>3, <2>4
<1> HIDE DEF front, last
<1> DEFINE r == Append(front, last)
<1>4. /\ r \in Seq(Names) /\ Len(r) = Len(front) + 1 /\ r[Len(front) + 1] = last
      /\ \A i \in 1 .. Len(front) : r[i] = front[i]
  BY <1>3
<1> HIDE DEF r
<1>5. Len(r) = Len(path) /\ \A i \in 1 .. Len(r) : r[i] = path[i]
  <2>1. Len(r) = Len(path)
    BY <1>2, <1>3, <1>4
  <2>2. \A i \in 1 .. Len(r) : i \in 1 .. Len(front) \/ (i = Len(path) /\ i = Len(front) + 1)
    BY <1>2, <1>3, <1>4
  <2> QED BY <1>3, <1>4, <2>1, <2>2
<1>6. r = path
  BY <1>1, <1>4, <1>5, SeqEqual
<1> QED BY <1>6, Zenon DEF ListPath, r, front, last

(* A row or a break more makes an output.                                  *)
LEMMA AppendsType ==
  ASSUME NEW out \in Outputs
  PROVE  /\ out.ret \in Seq(Rows) /\ out.failed \in BOOLEAN
         /\ out = [ret |-> out.ret, failed |-> out.failed]
         /\ AppendBreak(out) \in Outputs
         /\ \A row \in Rows : AppendRow(out, row) \in Outputs
<1>1. /\ out.ret \in Seq(Rows) /\ out.failed \in BOOLEAN
      /\ out = [ret |-> out.ret, failed |-> out.failed]
  BY DEF Outputs
<1>2. \A row \in Rows : Append(out.ret, row) \in Seq(Rows)
  BY <1>1
<1>3. \A row \in Rows : [out EXCEPT !.ret = Append(@, row)] \in Outputs
  BY <1>1, <1>2 DEF Outputs
<1>4. [out EXCEPT !.failed = TRUE] \in Outputs
  BY <1>1 DEF Outputs
<1>5. \A row \in Rows : AppendRow(out, row) \in Outputs
  BY <1>3 DEF AppendRow
<1>6. AppendBreak(out) \in Outputs
  BY <1>3, <1>4, RowsType, Zenon DEF AppendBreak
<1> QED BY <1>1, <1>5, <1>6

(* The calls for the items of a list,                                      *)
LEMMA ListCallsType ==
  ASSUME NEW v \in Json, v.kind = "list", NEW f, \A u : Part(u, v) => f[u] \in Renders,
         NEW path \in Paths
  PROVE  /\ ListCalls(f, v, path) \in Seq(Calls)
         /\ Len(ListCalls(f, v, path)) = Len(v.items)
         /\ \A i \in 1 .. Len(v.items) : ListCalls(f, v, path)[i] = f[v.items[i]][path]
<1> DEFINE n == Len(v.items)
           ss == ListCalls(f, v, path)
<1>1. n \in Nat /\ DOMAIN v.items = 1 .. n /\ \A i \in 1 .. n : Part(v.items[i], v)
  BY ValueIs
<1> HIDE DEF n
<1>2. ss = [i \in 1 .. n |-> f[v.items[i]][path]]
  BY <1>1, SamePath, Zenon DEF ListCalls
<1>3. \A i \in 1 .. n : f[v.items[i]][path] \in Calls
  <2>1. \A w \in Renders : w[path] \in Calls
    BY DEF Renders
  <2> QED BY <1>1, <2>1, Zenon
<1> HIDE DEF ss
<1>4. ss \in [1 .. n -> Calls] /\ \A i \in 1 .. n : ss[i] = f[v.items[i]][path]
  BY <1>2, <1>3
<1>5. ss \in Seq(Calls) /\ Len(ss) = n
  BY <1>1, <1>4, MapType
<1> QED BY <1>4, <1>5 DEF n, ss

(* and for the fields of a dictionary.                                     *)
LEMMA DictCallsType ==
  ASSUME NEW v \in Json, v.kind = "dict", NEW f, \A u : Part(u, v) => f[u] \in Renders,
         NEW path \in Seq(Names)
  PROVE  /\ DictCalls(f, v, path) \in Seq(Calls)
         /\ Len(DictCalls(f, v, path)) = Len(SortedNames(v.fields))
         /\ \A i \in 1 .. Len(SortedNames(v.fields)) :
              DictCalls(f, v, path)[i] =
                f[v.fields[SortedNames(v.fields)[i]]][Append(path, SortedNames(v.fields)[i])]
<1> DEFINE names == SortedNames(v.fields)
           n == Len(names)
           ss == DictCalls(f, v, path)
<1>1. /\ n \in Nat /\ DOMAIN names = 1 .. n
      /\ \A i \in 1 .. n : names[i] \in Names /\ Part(v.fields[names[i]], v)
  BY DictParts
<1>2. ss = [i \in DOMAIN names |-> f[v.fields[names[i]]][Append(path, names[i])]]
  BY Zenon DEF DictCalls
<1> HIDE DEF n, names, ss
<1>3. \A i \in 1 .. n : f[v.fields[names[i]]][Append(path, names[i])] \in Calls
  <2>1. \A w \in Renders, p \in Paths : w[p] \in Calls
    BY DEF Renders
  <2>2. \A i \in 1 .. n : Append(path, names[i]) \in Paths
    BY <1>1, PathTail
  <2> QED BY <1>1, <2>1, <2>2, Zenon
<1>4. /\ ss \in [1 .. n -> Calls]
      /\ \A i \in 1 .. n : ss[i] = f[v.fields[names[i]]][Append(path, names[i])]
  BY <1>1, <1>2, <1>3
<1>5. ss \in Seq(Calls) /\ Len(ss) = n
  BY <1>1, <1>4, MapType
<1> QED BY <1>4, <1>5 DEF n, names, ss

(* A step gives renderings if its parts had them.                          *)
LEMMA RenderOfType ==
  ASSUME NEW v \in Json, NEW f, \A u : Part(u, v) => f[u] \in Renders
  PROVE  RenderOf(f, v) \in Renders
<1>1. ASSUME NEW path \in Paths, NEW out \in Outputs
      PROVE  RenderAt(f, v, path, out) \in Outputs
  <2>1. CASE v.kind = "scalar"
    <3>1. v.text \in ScalarTexts
      BY <2>1, ValueIs
    <3>2. Row(path, v.text) \in Rows
      BY <3>1, RowsType
    <3> QED BY <2>1, <3>2, AppendsType DEF RenderAt
  <2>2. CASE v.kind = "list"
    <3>1. RenderAt(f, v, path, out) = Through(ListCalls(f, v, path), out)
      BY <2>2 DEF RenderAt
    <3> QED BY <2>2, <3>1, ListCallsType, ThroughType
  <2>3. CASE v.kind = "dict"
    <3>1. path \in Seq(Names)
      BY DEF Paths
    <3>2. Through(DictCalls(f, v, path), out) \in Outputs
      BY <2>3, <3>1, DictCallsType, ThroughType
    <3>3. AppendBreak(Through(DictCalls(f, v, path), out)) \in Outputs
      BY <3>2, AppendsType
    <3> QED BY <2>3, <3>3 DEF RenderAt
  <2> QED BY <2>1, <2>2, <2>3, ValueIs
<1> DEFINE R(path, out) == RenderAt(f, v, path, out)
<1>2. /\ RenderOf(f, v) = [path \in Paths |-> [out \in Outputs |-> R(path, out)]]
      /\ \A path \in Paths, out \in Outputs : R(path, out) \in Outputs
  BY <1>1 DEF RenderOf
<1> HIDE DEF R
<1>3. \A path \in Paths : [out \in Outputs |-> R(path, out)] \in Calls
  BY <1>2 DEF Calls
<1> QED BY <1>2, <1>3 DEF Renders

(* A step depends on the renderings of the parts only.                     *)
LEMMA RenderOfLocal ==
  ASSUME NEW v \in Json, NEW f, NEW g, \A u : Part(u, v) => f[u] = g[u]
  PROVE  RenderOf(f, v) = RenderOf(g, v)
<1>1. ASSUME NEW path \in Paths, NEW out \in Outputs
      PROVE  RenderAt(f, v, path, out) = RenderAt(g, v, path, out)
  <2>1. v.kind = "list" => ListCalls(f, v, path) = ListCalls(g, v, path)
    <3> HAVE v.kind = "list"
    <3> DEFINE p == ListPath(Front(path), Last(path))
    <3> HIDE DEF p
    <3>1. \A i \in DOMAIN v.items : f[v.items[i]][p] = g[v.items[i]][p]
      BY ValueIs
    <3>2. [i \in DOMAIN v.items |-> f[v.items[i]][p]] = [i \in DOMAIN v.items |-> g[v.items[i]][p]]
      BY <3>1, Zenon
    <3> QED BY <3>2, Zenon DEF ListCalls, p
  <2>2. v.kind = "dict" => DictCalls(f, v, path) = DictCalls(g, v, path)
    <3> HAVE v.kind = "dict"
    <3> DEFINE names == SortedNames(v.fields)
    <3>1. \A i \in DOMAIN names : Part(v.fields[names[i]], v)
      BY DictParts
    <3> HIDE DEF names
    <3>2. \A i \in DOMAIN names :
            f[v.fields[names[i]]][Append(path, names[i])] = g[v.fields[names[i]]][Append(path, names[i])]
      BY <3>1, Zenon
    <3>3. [i \in DOMAIN names |-> f[v.fields[names[i]]][Append(path, names[i])]]
            = [i \in DOMAIN names |-> g[v.fields[names[i]]][Append(path, names[i])]]
      BY <3>2, Zenon
    <3> QED BY <3>3, Zenon DEF DictCalls, names
  <2>3. v.kind \in {"scalar", "list", "dict"}
    BY ValueIs
  <2>4. /\ v.kind = "scalar" => RenderAt(f, v, path, out) = RenderAt(g, v, path, out)
        /\ v.kind = "list" => RenderAt(f, v, path, out) = RenderAt(g, v, path, out)
        /\ v.kind = "dict" => RenderAt(f, v, path, out) = RenderAt(g, v, path, out)
    BY <2>1, <2>2 DEF RenderAt
  <2> QED BY <2>3, <2>4
<1>2. ASSUME NEW path \in Paths
      PROVE  [out \in Outputs |-> RenderAt(f, v, path, out)] = [out \in Outputs |-> RenderAt(g, v, path, out)]
  BY <1>1, Zenon
<1> QED BY <1>2, Zenon DEF RenderOf

(* RenderKeyval takes such steps.                                          *)
LEMMA RenderIs ==
  /\ \A v \in Json : RenderKeyval[v] \in Renders
  /\ \A v \in Json : RenderKeyval[v] = RenderOf(RenderKeyval, v)
<1> DEFINE G == [f \in [Json -> Renders] |-> [v \in Json |-> RenderOf(f, v)]]
<1>1. Renders # {}
  <2>1. [out \in Outputs |-> out] \in Calls
    BY DEF Calls
  <2>2. [path \in Paths |-> [out \in Outputs |-> out]] \in Renders
    BY <2>1 DEF Renders
  <2> QED BY <2>2
<1>2. \A f \in [Json -> Renders], v \in Json : RenderOf(f, v) \in Renders
  <2> TAKE f \in [Json -> Renders], v \in Json
  <2>1. \A u : Part(u, v) => f[u] \in Renders
    BY DEF Part
  <2> QED BY <2>1, RenderOfType
<1>3. G \in [[Json -> Renders] -> [Json -> Renders]]
  BY <1>2
<1>4. Local(Json, Renders, Depth, G)
  <2> SUFFICES ASSUME NEW f \in [Json -> Renders], NEW g \in [Json -> Renders], NEW v \in Json,
                      \A z \in Json : Depth[z] < Depth[v] => f[z] = g[z]
               PROVE  G[f][v] = G[g][v]
    BY DEF Local
  <2>1. \A u : Part(u, v) => f[u] = g[u]
    BY DEF Part
  <2>2. RenderOf(f, v) = RenderOf(g, v)
    BY <2>1, RenderOfLocal
  <2> QED BY <2>2
<1>5. \E f \in [Json -> Renders] : f = G[f]
  <2> HIDE DEF G
  <2>1. Computes(Json, Renders, Depth, G)
    BY <1>1, <1>3, <1>4, DepthType DEF Computes
  <2> QED BY <2>1, Recursion
<1>6. \E f : f = [v \in Json |-> RenderOf(f, v)]
  BY <1>5
<1>7. RenderKeyval = CHOOSE f : f = [v \in Json |-> RenderOf(f, v)]
  BY Zenon DEF RenderKeyval, RenderOf, RenderAt, ListCalls, DictCalls
<1>8. RenderKeyval = [v \in Json |-> RenderOf(RenderKeyval, v)]
  BY <1>6, <1>7
<1>9. \A v \in Json : RenderKeyval[v] = RenderOf(RenderKeyval, v)
  BY <1>8
<1> DEFINE U == {v \in Json : RenderKeyval[v] \in Renders}
<1>10. ASSUME NEW v \in Json, \A u : Part(u, v) => u \in U
       PROVE  v \in U
  <2>1. \A u : Part(u, v) => RenderKeyval[u] \in Renders
    BY <1>10
  <2> QED BY <1>9, <2>1, RenderOfType
<1>11. \A v \in Json : v \in U
  <2> HIDE DEF U
  <2> QED BY <1>10, ValuesAll
<1> QED BY <1>9, <1>11

-----------------------------------------------------------------------------
(***************************************************************************)
(* Rendering a value puts the rows of its walk one behind the other.       *)
(***************************************************************************)

(* Rows put behind each other: what is rendered of a walk.                 *)
PutRow(row) == [out \in Outputs |-> IF row = Break THEN AppendBreak(out) ELSE AppendRow(out, row)]

(* One call for each row,                                                  *)
PutCalls(rows) == [i \in DOMAIN rows |-> PutRow(rows[i])]
(* one after the other,                                                    *)
Put(rows, out) == Through(PutCalls(rows), out)

(* step by step.                                                           *)
PutRun(rows, out, f) ==
  /\ f[0] = out
  /\ \A m \in 1 .. Len(rows) : f[m] = PutRow(rows[m])[f[m - 1]]

(* Putting a row gives an output,                                          *)
LEMMA PutRowType ==
  ASSUME NEW row \in Rows
  PROVE  PutRow(row) \in Calls
<1>1. \A out \in Outputs : (IF row = Break THEN AppendBreak(out) ELSE AppendRow(out, row)) \in Outputs
  BY AppendsType
<1> DEFINE p(out) == IF row = Break THEN AppendBreak(out) ELSE AppendRow(out, row)
<1>2. PutRow(row) = [out \in Outputs |-> p(out)] /\ \A out \in Outputs : p(out) \in Outputs
  BY <1>1 DEF PutRow
<1> HIDE DEF p
<1> QED BY <1>2 DEF Calls

(* and so do all of them.                                                  *)
LEMMA PutCallsType ==
  ASSUME NEW rows \in Seq(Rows)
  PROVE  /\ PutCalls(rows) \in Seq(Calls) /\ Len(PutCalls(rows)) = Len(rows)
         /\ \A i \in 1 .. Len(rows) : PutCalls(rows)[i] = PutRow(rows[i])
<1> DEFINE n == Len(rows)
           cs == PutCalls(rows)
<1>1. n \in Nat /\ DOMAIN rows = 1 .. n /\ \A i \in 1 .. n : rows[i] \in Rows
  OBVIOUS
<1> HIDE DEF n
<1>2. cs = [i \in 1 .. n |-> PutRow(rows[i])]
  BY <1>1, Zenon DEF PutCalls
<1> HIDE DEF cs
<1>3. cs \in [1 .. n -> Calls] /\ \A i \in 1 .. n : cs[i] = PutRow(rows[i])
  BY <1>1, <1>2, PutRowType
<1>4. cs \in Seq(Calls) /\ Len(cs) = n
  BY <1>1, <1>3, MapType
<1> QED BY <1>3, <1>4 DEF n, cs

(* The steps can be taken.                                                 *)
LEMMA PutThere ==
  ASSUME NEW rows \in Seq(Rows), NEW out \in Outputs
  PROVE  \E f : /\ PutRun(rows, out, f) /\ f[Len(rows)] = Put(rows, out)
                /\ \A m \in 0 .. Len(rows) : f[m] \in Outputs
<1>1. /\ PutCalls(rows) \in Seq(Calls) /\ Len(PutCalls(rows)) = Len(rows)
      /\ \A i \in 1 .. Len(rows) : PutCalls(rows)[i] = PutRow(rows[i])
  BY PutCallsType
<1>2. PICK f : CallRun(PutCalls(rows), out, f)
  BY <1>1, CallsRun
<1>3. /\ f \in [0 .. Len(rows) -> Outputs] /\ f[0] = out /\ f[Len(rows)] = Put(rows, out)
      /\ \A m \in 1 .. Len(rows) : f[m] = PutCalls(rows)[m][f[m - 1]]
  BY <1>1, <1>2, Zenon DEF CallRun, Put
<1>4. PutRun(rows, out, f)
  BY <1>1, <1>3, Zenon DEF PutRun
<1>5. \A m \in 0 .. Len(rows) : f[m] \in Outputs
  BY <1>3
<1> QED BY <1>3, <1>4, <1>5

(* A run is where Put ends.                                                *)
LEMMA PutEnds ==
  ASSUME NEW rows \in Seq(Rows), NEW out \in Outputs, NEW f, PutRun(rows, out, f)
  PROVE  Put(rows, out) = f[Len(rows)]
<1>1. PICK g : PutRun(rows, out, g) /\ g[Len(rows)] = Put(rows, out)
  BY PutThere
<1> DEFINE U == {m \in Nat : m <= Len(rows) => f[m] = g[m]}
<1>2. Len(rows) \in Nat
  OBVIOUS
<1>3. 0 \in U
  BY <1>1 DEF PutRun
<1>4. \A m \in Nat : m \in U => m + 1 \in U
  <2> SUFFICES ASSUME NEW m \in Nat, m \in U, m + 1 <= Len(rows)
               PROVE  f[m + 1] = g[m + 1]
    OBVIOUS
  <2>1. m + 1 \in 1 .. Len(rows) /\ (m + 1) - 1 = m /\ f[m] = g[m]
    BY <1>2
  <2>2. f[m + 1] = PutRow(rows[m + 1])[f[(m + 1) - 1]] /\ g[m + 1] = PutRow(rows[m + 1])[g[(m + 1) - 1]]
    BY <1>1, <2>1, Zenon DEF PutRun
  <2> QED BY <2>1, <2>2
<1>5. \A m \in Nat : m \in U
  <2> HIDE DEF U
  <2> QED BY <1>3, <1>4, All
<1>6. f[Len(rows)] = g[Len(rows)]
  BY <1>2, <1>5
<1> QED BY <1>1, <1>6

(* Put gives an output.                                                    *)
LEMMA PutType ==
  ASSUME NEW rows \in Seq(Rows), NEW out \in Outputs
  PROVE  Put(rows, out) \in Outputs
<1>1. PICK f : f[Len(rows)] = Put(rows, out) /\ \A m \in 0 .. Len(rows) : f[m] \in Outputs
  BY PutThere
<1>2. Len(rows) \in 0 .. Len(rows)
  <2>1. Len(rows) \in Nat
    OBVIOUS
  <2> QED BY <2>1
<1> QED BY <1>1, <1>2

(* No row and one row.                                                     *)
LEMMA PutShort ==
  ASSUME NEW out \in Outputs
  PROVE  /\ Put(<< >>, out) = out
         /\ \A row \in Rows : Put(<<row>>, out) = PutRow(row)[out]
<1>1. << >> \in Seq(Rows) /\ Len(<< >>) = 0
  OBVIOUS
<1>2. PutRun(<< >>, out, [m \in 0 .. 0 |-> out])
  BY <1>1 DEF PutRun
<1>3. Put(<< >>, out) = [m \in 0 .. 0 |-> out][0]
  BY <1>1, <1>2, PutEnds
<1>4. ASSUME NEW row \in Rows
      PROVE  Put(<<row>>, out) = PutRow(row)[out]
  <2> DEFINE f == [m \in 0 .. 1 |-> IF m = 0 THEN out ELSE PutRow(row)[out]]
  <2>1. <<row>> \in Seq(Rows) /\ Len(<<row>>) = 1 /\ <<row>>[1] = row
    OBVIOUS
  <2>2. f[0] = out /\ f[1] = PutRow(row)[out]
    OBVIOUS
  <2> HIDE DEF f
  <2>3. \A m \in 1 .. 1 : m = 1 /\ m - 1 = 0
    OBVIOUS
  <2>4. PutRun(<<row>>, out, f)
    BY <2>1, <2>2, <2>3 DEF PutRun
  <2>5. Put(<<row>>, out) = f[Len(<<row>>)]
    BY <2>1, <2>4, PutEnds
  <2> QED BY <2>1, <2>2, <2>5
<1> QED BY <1>3, <1>4

(* Rows put behind other rows.                                             *)
LEMMA PutBoth ==
  ASSUME NEW a \in Seq(Rows), NEW b \in Seq(Rows), NEW c, Joins(a, b, c), NEW out \in Outputs
  PROVE  Put(c, out) = Put(b, Put(a, out))
<1> DEFINE n == Len(a)
           m == Len(b)
<1>1. /\ n \in Nat /\ m \in Nat /\ c \in Seq(Rows) /\ Len(c) = n + m
      /\ \A i \in 1 .. n : c[i] = a[i]
      /\ \A i \in 1 .. m : c[n + i] = b[i]
  BY DEF Joins
<1>2. PICK f : /\ PutRun(c, out, f) /\ f[Len(c)] = Put(c, out)
               /\ \A i \in 0 .. Len(c) : f[i] \in Outputs
  BY <1>1, PutThere
<1> HIDE DEF n, m
<1>3. f[0] = out /\ \A i \in 1 .. n + m : f[i] = PutRow(c[i])[f[i - 1]]
  BY <1>1, <1>2 DEF PutRun
<1>4. Put(a, out) = f[n]
  <2>1. \A i \in 1 .. n : i \in 1 .. n + m
    BY <1>1
  <2>2. PutRun(a, out, f)
    BY <1>1, <1>3, <2>1 DEF PutRun, n
  <2> QED BY <2>2, PutEnds DEF n
<1> DEFINE h == [i \in 0 .. m |-> f[n + i]]
<1>5. \A i \in 0 .. m : h[i] = f[n + i]
  OBVIOUS
<1> HIDE DEF h
<1>6. PutRun(b, f[n], h)
  <2>1. h[0] = f[n]
    <3>1. 0 \in 0 .. m /\ n + 0 = n
      BY <1>1
    <3> QED BY <1>5, <3>1
  <2>2. ASSUME NEW i \in 1 .. m
        PROVE  h[i] = PutRow(b[i])[h[i - 1]]
    <3>1. /\ i \in 0 .. m /\ i - 1 \in 0 .. m /\ n + i \in 1 .. n + m
          /\ (n + i) - 1 = n + (i - 1)
      BY <1>1
    <3>2. h[i] = f[n + i] /\ h[i - 1] = f[n + (i - 1)]
      BY <1>5, <3>1
    <3>3. f[n + i] = PutRow(c[n + i])[f[(n + i) - 1]]
      BY <1>3, <3>1
    <3> QED BY <1>1, <3>1, <3>2, <3>3
  <2> QED BY <2>1, <2>2 DEF PutRun, m
<1>7. f[n] \in Outputs
  <2>1. n \in 0 .. Len(c)
    BY <1>1
  <2> QED BY <1>2, <2>1
<1>8. Put(b, f[n]) = h[m]
  BY <1>6, <1>7, PutEnds DEF m
<1>9. h[m] = f[Len(c)]
  <2>1. m \in 0 .. m
    BY <1>1
  <2> QED BY <1>1, <1>5, <2>1
<1> QED BY <1>2, <1>4, <1>8, <1>9

(* Calls that put the rows of ss, one item each, put all rows of ss.       *)
Putting(calls, ss) ==
  /\ calls \in Seq(Calls) /\ ss \in Seq(Seq(Rows)) /\ Len(calls) = Len(ss)
  /\ \A i \in 1 .. Len(ss) : \A out \in Outputs : calls[i][out] = Put(ss[i], out)

(* (All of them, one after the other.)                                     *)
LEMMA PutFlatten ==
  ASSUME NEW calls, NEW ss, Putting(calls, ss), NEW out \in Outputs
  PROVE  Through(calls, out) = Put(FlattenSeq(ss), out)
<1> DEFINE n == Len(ss)
<1>1. /\ calls \in Seq(Calls) /\ ss \in Seq(Seq(Rows)) /\ Len(calls) = n /\ n \in Nat
      /\ \A i \in 1 .. n : \A o \in Outputs : calls[i][o] = Put(ss[i], o)
      /\ \A i \in 1 .. n : ss[i] \in Seq(Rows)
  BY DEF Putting
<1>2. PICK f : CallRun(calls, out, f)
  BY <1>1, CallsRun
<1>3. PICK g \in [0 .. n -> Seq(Rows)] : Flattens(ss, g) /\ FlattenSeq(ss) = g[n]
  BY <1>1, FlattenSteps
<1> HIDE DEF n
<1>4. /\ f \in [0 .. n -> Outputs] /\ f[0] = out /\ f[n] = Through(calls, out)
      /\ \A m \in 1 .. n : f[m] = calls[m][f[m - 1]]
  BY <1>1, <1>2, Zenon DEF CallRun
<1>5. g[0] = << >> /\ \A m \in 1 .. n : g[m] = g[m - 1] \o ss[m]
  BY <1>3 DEF Flattens, n
<1> DEFINE U == {m \in Nat : m <= n => f[m] = Put(g[m], out)}
<1>6. 0 \in U
  BY <1>4, <1>5, PutShort
<1>7. ASSUME NEW m \in Nat, m \in U
      PROVE  m + 1 \in U
  <2> SUFFICES ASSUME m + 1 <= n
               PROVE  f[m + 1] = Put(g[m + 1], out)
    OBVIOUS
  <2>1. /\ m + 1 \in 1 .. n /\ (m + 1) - 1 = m /\ m \in 0 .. n /\ m + 1 \in 0 .. n
        /\ f[m] = Put(g[m], out)
    BY <1>1, <1>7
  <2>2. f[m + 1] = calls[m + 1][f[m]] /\ g[m + 1] = g[m] \o ss[m + 1]
    BY <1>4, <1>5, <2>1
  <2>3. f[m] \in Outputs /\ g[m] \in Seq(Rows) /\ ss[m + 1] \in Seq(Rows)
    BY <1>1, <1>3, <1>4, <2>1
  <2>4. calls[m + 1][f[m]] = Put(ss[m + 1], f[m])
    BY <1>1, <2>1, <2>3
  <2>5. Joins(g[m], ss[m + 1], g[m + 1])
    BY <2>2 DEF Joins
  <2>6. Put(g[m + 1], out) = Put(ss[m + 1], Put(g[m], out))
    BY <2>3, <2>5, PutBoth
  <2> QED BY <2>1, <2>2, <2>4, <2>6
<1>8. \A m \in Nat : m \in U
  <2> HIDE DEF U
  <2> QED BY <1>6, <1>7, All
<1>9. f[n] = Put(g[n], out)
  BY <1>1, <1>8
<1> QED BY <1>3, <1>4, <1>9

-----------------------------------------------------------------------------
(* A value is rendered as the rows of its walk are put.                    *)
RenderedAs(v) ==
  \A path \in Paths, out \in Outputs : RenderKeyval[v][path][out] = Put(Walk[v][path], out)

(* A list, if its items are,                                               *)
LEMMA ListRendered ==
  ASSUME NEW v \in Json, v.kind = "list", \A u : Part(u, v) => RenderedAs(u),
         NEW path \in Paths, NEW out \in Outputs
  PROVE  RenderAt(RenderKeyval, v, path, out) = Put(WalkAt(Walk, v, path), out)
<1> DEFINE cs == ListCalls(RenderKeyval, v, path)
           ws == ListWalks(Walk, v, path)
<1>1. \A u : Part(u, v) => RenderKeyval[u] \in Renders /\ Walk[u] \in Walks
  BY RenderIs, WalkIs DEF Part
<1>2. /\ cs \in Seq(Calls) /\ Len(cs) = Len(v.items)
      /\ \A i \in 1 .. Len(v.items) : cs[i] = RenderKeyval[v.items[i]][path]
  BY <1>1, ListCallsType
<1>3. /\ ws \in Seq(Seq(Rows)) /\ Len(ws) = Len(v.items)
      /\ \A i \in 1 .. Len(v.items) : ws[i] = Walk[v.items[i]][path]
  BY <1>1, ListWalksType
<1>4. RenderAt(RenderKeyval, v, path, out) = Through(cs, out) /\ WalkAt(Walk, v, path) = FlattenSeq(ws)
  BY Zenon DEF RenderAt, WalkAt
<1> HIDE DEF cs, ws
<1>5. \A i \in 1 .. Len(v.items) : Part(v.items[i], v)
  BY ValueIs
<1>6. ASSUME NEW i \in 1 .. Len(ws), NEW o \in Outputs
      PROVE  cs[i][o] = Put(ws[i], o)
  <2>1. i \in 1 .. Len(v.items)
    BY <1>3
  <2>2. /\ cs[i] = RenderKeyval[v.items[i]][path] /\ ws[i] = Walk[v.items[i]][path]
        /\ RenderedAs(v.items[i])
    BY <1>2, <1>3, <1>5, <2>1
  <2>3. RenderKeyval[v.items[i]][path][o] = Put(Walk[v.items[i]][path], o)
    BY <2>2, Zenon DEF RenderedAs
  <2> QED BY <2>2, <2>3
<1>7. Putting(cs, ws)
  BY <1>2, <1>3, <1>6 DEF Putting
<1> QED BY <1>4, <1>7, PutFlatten

(* and a dictionary, if its fields are.                                    *)
LEMMA DictRendered ==
  ASSUME NEW v \in Json, v.kind = "dict", \A u : Part(u, v) => RenderedAs(u),
         NEW path \in Paths, NEW out \in Outputs
  PROVE  RenderAt(RenderKeyval, v, path, out) = Put(WalkAt(Walk, v, path), out)
<1> DEFINE cs == DictCalls(RenderKeyval, v, path)
           ws == DictWalks(Walk, v, path)
           names == SortedNames(v.fields)
<1>1. \A u : Part(u, v) => RenderKeyval[u] \in Renders /\ Walk[u] \in Walks
  BY RenderIs, WalkIs DEF Part
<1>2. path \in Seq(Names)
  BY DEF Paths
<1>3. /\ cs \in Seq(Calls) /\ Len(cs) = Len(names)
      /\ \A i \in 1 .. Len(names) : cs[i] = RenderKeyval[v.fields[names[i]]][Append(path, names[i])]
  BY <1>1, <1>2, DictCallsType
<1>4. /\ ws \in Seq(Seq(Rows)) /\ Len(ws) = Len(names)
      /\ \A i \in 1 .. Len(names) : ws[i] = Walk[v.fields[names[i]]][Append(path, names[i])]
  BY <1>1, <1>2, DictWalksType
<1>5. \A i \in 1 .. Len(names) : names[i] \in Names /\ Part(v.fields[names[i]], v)
  BY DictParts
<1>6. /\ RenderAt(RenderKeyval, v, path, out) =
            IF names = << >> THEN out ELSE AppendBreak(Through(cs, out))
      /\ WalkAt(Walk, v, path) =
            FlattenSeq(ws) \o (IF names = << >> THEN << >> ELSE <<Break>>)
  BY Zenon DEF RenderAt, WalkAt, EndMark
<1> HIDE DEF cs, ws, names
<1>7. ASSUME NEW i \in 1 .. Len(ws), NEW o \in Outputs
      PROVE  cs[i][o] = Put(ws[i], o)
  <2> DEFINE u == v.fields[names[i]]
             to == Append(path, names[i])
  <2>1. i \in 1 .. Len(names)
    BY <1>4
  <2>2. names[i] \in Names /\ RenderedAs(u)
    BY <1>5, <2>1
  <2>3. to \in Paths
    BY <1>2, <2>2, PathTail
  <2>4. cs[i] = RenderKeyval[u][to] /\ ws[i] = Walk[u][to]
    BY <1>3, <1>4, <2>1
  <2> HIDE DEF u, to
  <2>5. RenderKeyval[u][to][o] = Put(Walk[u][to], o)
    BY <2>2, <2>3, Zenon DEF RenderedAs
  <2> QED BY <2>4, <2>5
<1>8. Putting(cs, ws)
  BY <1>3, <1>4, <1>7 DEF Putting
<1>9. Through(cs, out) = Put(FlattenSeq(ws), out) /\ FlattenSeq(ws) \in Seq(Rows)
  BY <1>4, <1>8, PutFlatten, FlattenType
<1>10. CASE names = << >>
  <2>1. Len(ws) = 0
    BY <1>4, <1>10
  <2>2. ws = << >>
    BY <1>4, <2>1
  <2>3. FlattenSeq(ws) \o << >> = << >>
    BY <2>2, FlattenNone
  <2> QED BY <1>6, <1>10, <2>3, PutShort
<1>11. CASE names # << >>
  <2>1. WalkAt(Walk, v, path) = FlattenSeq(ws) \o <<Break>>
    BY <1>6, <1>11
  <2>2. Joins(FlattenSeq(ws), <<Break>>, WalkAt(Walk, v, path))
    BY <2>1 DEF Joins
  <2>3. Put(WalkAt(Walk, v, path), out) = Put(<<Break>>, Put(FlattenSeq(ws), out))
    <3> DEFINE b == <<Break>>
               a == FlattenSeq(ws)
               c == WalkAt(Walk, v, path)
    <3>1. a \in Seq(Rows) /\ b \in Seq(Rows) /\ Joins(a, b, c)
      BY <1>9, <2>2, RowsType
    <3> HIDE DEF a, b, c
    <3>2. Put(c, out) = Put(b, Put(a, out))
      BY <3>1, PutBoth
    <3> QED BY <3>2 DEF a, b, c
  <2>4. Put(FlattenSeq(ws), out) \in Outputs
    BY <1>9, PutType
  <2>5. Put(<<Break>>, Put(FlattenSeq(ws), out)) = AppendBreak(Put(FlattenSeq(ws), out))
    BY <2>4, PutShort, RowsType DEF PutRow
  <2> QED BY <1>6, <1>9, <1>11, <2>3, <2>5
<1> QED BY <1>10, <1>11

(* So every value is.                                                      *)
LEMMA RenderWalks ==
  \A v \in Json : RenderedAs(v)
<1> DEFINE U == {v \in Json : RenderedAs(v)}
<1>1. ASSUME NEW v \in Json, \A u : Part(u, v) => u \in U
      PROVE  v \in U
  <2>1. \A u : Part(u, v) => RenderedAs(u)
    BY <1>1
  <2>2. ASSUME NEW path \in Paths, NEW out \in Outputs
        PROVE  RenderKeyval[v][path][out] = Put(Walk[v][path], out)
    <3>1. RenderKeyval[v][path][out] = RenderAt(RenderKeyval, v, path, out)
      <4>1. RenderKeyval[v] = RenderOf(RenderKeyval, v)
        BY RenderIs
      <4>2. RenderOf(RenderKeyval, v)[path][out] = RenderAt(RenderKeyval, v, path, out)
        BY Zenon DEF RenderOf
      <4> QED BY <4>1, <4>2
    <3>2. Walk[v][path] = WalkAt(Walk, v, path)
      <4>1. Walk[v] = WalkOf(Walk, v)
        BY WalkIs
      <4>2. WalkOf(Walk, v)[path] = WalkAt(Walk, v, path)
        BY Zenon DEF WalkOf
      <4> QED BY <4>1, <4>2
    <3>3. CASE v.kind = "scalar"
      <4>1. /\ RenderAt(RenderKeyval, v, path, out) = AppendRow(out, Row(path, v.text))
            /\ WalkAt(Walk, v, path) = <<Row(path, v.text)>>
        BY <3>3, Zenon DEF RenderAt, WalkAt
      <4>2. v.text \in ScalarTexts
        BY <3>3, ValueIs
      <4>3. Row(path, v.text) \in Rows /\ Row(path, v.text) # Break
        BY <4>2, RowsType
      <4>4. Put(<<Row(path, v.text)>>, out) = PutRow(Row(path, v.text))[out]
        BY <4>3, PutShort
      <4>5. PutRow(Row(path, v.text))[out] = AppendRow(out, Row(path, v.text))
        BY <4>3, Zenon DEF PutRow
      <4> QED BY <3>1, <3>2, <4>1, <4>4, <4>5
    <3>4. CASE v.kind = "list"
      BY <2>1, <3>1, <3>2, <3>4, ListRendered
    <3>5. CASE v.kind = "dict"
      BY <2>1, <3>1, <3>2, <3>5, DictRendered
    <3> QED BY <3>3, <3>4, <3>5, ValueIs
  <2> QED BY <2>2 DEF RenderedAs
<1>2. \A v \in Json : v \in U
  <2> HIDE DEF U
  <2> QED BY <1>1, ValuesAll
<1> QED BY <1>2

(* A document is a value with the names of its fields as paths.            *)
LEMMA RenderPuts ==
  ASSUME NEW doc \in Documents
  PROVE  /\ Walked(doc) \in Seq(Rows)
         /\ Nothing \in Outputs
         /\ Render(doc) = Put(Walked(doc), Nothing)
<1> DEFINE names == SortedNames(doc.fields)
           e(i) == Walk[doc.fields[names[i]]][<<names[i]>>]
           c(i) == RenderKeyval[doc.fields[names[i]]][<<names[i]>>]
           ws == [i \in DOMAIN names |-> e(i)]
           cs == [i \in DOMAIN names |-> c(i)]
<1>1. doc.fields \in [Names -> Json \cup {Absent}]
  BY DEF Documents
<1>2. names \in Seq({n \in Names : doc.fields[n] # Absent})
  BY SortedNamesType
<1>3. Len(names) \in Nat /\ DOMAIN names = 1 .. Len(names)
  BY <1>2
<1>4. \A i \in 1 .. Len(names) : names[i] \in Names /\ doc.fields[names[i]] \in Json
  <2>1. \A i \in 1 .. Len(names) : names[i] \in {n \in Names : doc.fields[n] # Absent}
    <3> HIDE DEF names
    <3> QED BY <1>2
  <2> HIDE DEF names
  <2> QED BY <1>1, <2>1
<1>5. Walked(doc) = FlattenSeq(ws) /\ Render(doc) = Through(cs, Nothing)
  BY Zenon DEF Walked, Render
<1>6. \A i \in 1 .. Len(names) : <<names[i]>> \in Paths
  <2> HIDE DEF names
  <2> QED BY <1>4 DEF Paths
<1>7. \A i \in 1 .. Len(names) : e(i) \in Seq(Rows) /\ c(i) \in Calls
  <2> TAKE i \in 1 .. Len(names)
  <2>1. doc.fields[names[i]] \in Json /\ <<names[i]>> \in Paths
    BY <1>4, <1>6, Zenon
  <2>2. Walk[doc.fields[names[i]]] \in Walks /\ RenderKeyval[doc.fields[names[i]]] \in Renders
    BY <2>1, WalkIs, RenderIs, Zenon
  <2> HIDE DEF names
  <2> QED BY <2>1, <2>2 DEF Walks, Renders
<1>8. \A i \in 1 .. Len(names) : \A o \in Outputs : c(i)[o] = Put(e(i), o)
  <2> TAKE i \in 1 .. Len(names)
  <2> TAKE o \in Outputs
  <2>1. doc.fields[names[i]] \in Json /\ <<names[i]>> \in Paths
    BY <1>4, <1>6, Zenon
  <2>2. RenderedAs(doc.fields[names[i]])
    BY <2>1, RenderWalks, Zenon
  <2> QED BY <2>1, <2>2, Zenon DEF RenderedAs
<1> HIDE DEF names, e, c
<1>9. /\ ws \in [1 .. Len(names) -> Seq(Rows)] /\ cs \in [1 .. Len(names) -> Calls]
      /\ \A i \in 1 .. Len(names) : ws[i] = e(i) /\ cs[i] = c(i)
  BY <1>3, <1>7
<1> HIDE DEF ws, cs
<1>10. ws \in Seq(Seq(Rows)) /\ cs \in Seq(Calls) /\ Len(ws) = Len(names) /\ Len(cs) = Len(names)
  BY <1>3, <1>9, MapType
<1>11. \A i \in 1 .. Len(ws) : \A o \in Outputs : cs[i][o] = Put(ws[i], o)
  BY <1>8, <1>9, <1>10
<1>12. Putting(cs, ws)
  BY <1>10, <1>11 DEF Putting
<1>13. Nothing \in Outputs
  BY DEF Nothing, Outputs
<1> QED BY <1>5, <1>10, <1>12, <1>13, PutFlatten, FlattenType

-----------------------------------------------------------------------------
(***************************************************************************)
(* What is put: the walk with one break where several dictionaries end,    *)
(* unless it begins with a break.                                          *)
(***************************************************************************)

(* An ended view stays as it is.                                           *)
LEMMA PutEnded ==
  ASSUME NEW row \in Rows, NEW out \in Outputs, out.failed
  PROVE  PutRow(row)[out] = out
<1>1. PutRow(row)[out] = IF row = Break THEN AppendBreak(out) ELSE AppendRow(out, row)
  BY Zenon DEF PutRow
<1>2. AppendBreak(out) = out /\ AppendRow(out, row) = out
  BY DEF AppendBreak, AppendRow
<1> QED BY <1>1, <1>2

(* A walk that begins with an end mark ends the view.                      *)
LEMMA PutFails ==
  ASSUME NEW w \in Seq(Rows), w # << >>, w[1] = Break
  PROVE  Put(w, Nothing).failed
<1>1. Nothing \in Outputs /\ Nothing.ret = << >> /\ Nothing.failed = FALSE
  BY DEF Nothing, Outputs
<1>2. PICK f : /\ PutRun(w, Nothing, f) /\ f[Len(w)] = Put(w, Nothing)
               /\ \A m \in 0 .. Len(w) : f[m] \in Outputs
  BY <1>1, PutThere
<1>3. Len(w) \in Nat /\ Len(w) # 0
  OBVIOUS
<1>4. f[1].failed
  <2>1. 1 \in 1 .. Len(w) /\ 1 - 1 = 0
    BY <1>3
  <2>2. f[0] = Nothing /\ f[1] = PutRow(w[1])[f[1 - 1]]
    BY <1>2, <2>1, Zenon DEF PutRun
  <2>3. f[1] = PutRow(Break)[Nothing]
    BY <2>1, <2>2
  <2>4. f[1] = AppendBreak(Nothing)
    BY <1>1, <2>3 DEF PutRow
  <2>5. AppendBreak(Nothing) = [Nothing EXCEPT !.failed = TRUE]
    BY <1>1 DEF AppendBreak
  <2> QED BY <1>1, <2>4, <2>5 DEF Nothing
<1> DEFINE U == {m \in Nat : m + 1 <= Len(w) => f[m + 1].failed}
<1>5. 0 \in U
  BY <1>4
<1>6. ASSUME NEW m \in Nat, m \in U
      PROVE  m + 1 \in U
  <2> SUFFICES ASSUME (m + 1) + 1 <= Len(w)
               PROVE  f[(m + 1) + 1].failed
    OBVIOUS
  <2>1. /\ (m + 1) + 1 \in 1 .. Len(w) /\ ((m + 1) + 1) - 1 = m + 1 /\ m + 1 \in 0 .. Len(w)
        /\ f[m + 1].failed
    BY <1>3, <1>6
  <2>2. f[(m + 1) + 1] = PutRow(w[(m + 1) + 1])[f[((m + 1) + 1) - 1]]
    BY <1>2, <2>1, Zenon DEF PutRun
  <2>3. f[m + 1] \in Outputs /\ w[(m + 1) + 1] \in Rows
    BY <1>2, <2>1
  <2>4. PutRow(w[(m + 1) + 1])[f[m + 1]] = f[m + 1]
    BY <2>1, <2>3, PutEnded
  <2> QED BY <2>1, <2>2, <2>4
<1>7. \A m \in Nat : m \in U
  <2> HIDE DEF U
  <2> QED BY <1>5, <1>6, All
<1>8. Len(w) - 1 \in U
  BY <1>3, <1>7
<1>9. f[Len(w)].failed
  BY <1>3, <1>8
<1> QED BY <1>2, <1>9

-----------------------------------------------------------------------------
(* What OneBreakEach keeps of each item of a walk.                         *)
KeptOf(w) ==
  [i \in DOMAIN w |-> IF i > 1 /\ w[i] = Break /\ w[i - 1] = Break THEN << >> ELSE <<w[i]>>]

(* It keeps the item itself or nothing.                                    *)
LEMMA KeptType ==
  ASSUME NEW w \in Seq(Rows)
  PROVE  /\ KeptOf(w) \in Seq(Seq(Rows)) /\ Len(KeptOf(w)) = Len(w) /\ Len(w) \in Nat
         /\ \A i \in 1 .. Len(w) :
              /\ w[i] \in Rows
              /\ i > 1 /\ w[i] = Break /\ w[i - 1] = Break => KeptOf(w)[i] = << >>
              /\ ~(i > 1 /\ w[i] = Break /\ w[i - 1] = Break) => KeptOf(w)[i] = <<w[i]>>
         /\ OneBreakEach(w) = FlattenSeq(KeptOf(w))
<1> DEFINE e(i) == IF i > 1 /\ w[i] = Break /\ w[i - 1] = Break THEN << >> ELSE <<w[i]>>
           ks == KeptOf(w)
<1>1. Len(w) \in Nat /\ DOMAIN w = 1 .. Len(w) /\ \A i \in 1 .. Len(w) : w[i] \in Rows
  OBVIOUS
<1>2. \A i \in 1 .. Len(w) : e(i) \in Seq(Rows)
  BY <1>1
<1>3. ks = [i \in 1 .. Len(w) |-> e(i)]
  BY <1>1, Zenon DEF KeptOf
<1>4. OneBreakEach(w) = FlattenSeq(ks)
  BY Zenon DEF OneBreakEach, KeptOf
<1>5. \A i \in 1 .. Len(w) :
        /\ i > 1 /\ w[i] = Break /\ w[i - 1] = Break => e(i) = << >>
        /\ ~(i > 1 /\ w[i] = Break /\ w[i - 1] = Break) => e(i) = <<w[i]>>
  OBVIOUS
<1> HIDE DEF e, ks
<1>6. ks \in [1 .. Len(w) -> Seq(Rows)] /\ \A i \in 1 .. Len(w) : ks[i] = e(i)
  BY <1>2, <1>3
<1>7. ks \in Seq(Seq(Rows)) /\ Len(ks) = Len(w)
  BY <1>1, <1>6, MapType
<1>8. \A i \in 1 .. Len(w) :
        /\ w[i] \in Rows
        /\ i > 1 /\ w[i] = Break /\ w[i - 1] = Break => ks[i] = << >>
        /\ ~(i > 1 /\ w[i] = Break /\ w[i - 1] = Break) => ks[i] = <<w[i]>>
  BY <1>1, <1>5, <1>6
<1> QED BY <1>1, <1>4, <1>7, <1>8 DEF ks

(* The output after the rows kept, the last of them being row.             *)
PutSoFar(out, rows, row) ==
  /\ out \in Outputs /\ out.failed = FALSE /\ out.ret = rows
  /\ rows \in Seq(Rows) /\ rows # << >> /\ Last(rows) = row

(* One row more.                                                           *)
LEMMA PutOne ==
  ASSUME NEW out, NEW rows, NEW last, PutSoFar(out, rows, last), NEW row \in Rows,
         ~(row = Break /\ last = Break)
  PROVE  PutSoFar(PutRow(row)[out], rows \o <<row>>, row)
<1>1. PutRow(row)[out] = IF row = Break THEN AppendBreak(out) ELSE AppendRow(out, row)
  BY Zenon DEF PutRow, PutSoFar
<1>2. /\ out \in Outputs /\ out.failed = FALSE /\ out.ret = rows
      /\ rows \in Seq(Rows) /\ rows # << >> /\ Last(rows) = last
  BY DEF PutSoFar
<1>3. PutRow(row)[out] = [out EXCEPT !.ret = Append(out.ret, row)]
  <2>1. CASE row = Break
    <3>1. PutRow(row)[out] = AppendBreak(out)
      BY <1>1, <2>1
    <3>2. out.ret # << >> /\ Last(out.ret) # Break /\ ~out.failed
      BY <1>2, <2>1
    <3> QED BY <2>1, <3>1, <3>2, Zenon DEF AppendBreak
  <2>2. CASE row # Break
    <3>1. PutRow(row)[out] = AppendRow(out, row)
      BY <1>1, <2>2
    <3> QED BY <1>2, <3>1, Zenon DEF AppendRow
  <2> QED BY <2>1, <2>2
<1>4. /\ Append(rows, row) = rows \o <<row>> /\ Append(rows, row) \in Seq(Rows)
      /\ Append(rows, row) # << >>
      /\ Len(Append(rows, row)) = Len(rows) + 1 /\ Append(rows, row)[Len(rows) + 1] = row
  BY <1>2
<1>5. Last(Append(rows, row)) = row
  BY <1>4 DEF Last
<1> DEFINE more == Append(rows, row)
           new == [out EXCEPT !.ret = more]
<1>6. PutRow(row)[out] = new
  BY <1>2, <1>3
<1>7. new \in Outputs /\ new.failed = FALSE /\ new.ret = more
  <2>1. more \in Seq(Rows)
    BY <1>4
  <2> HIDE DEF more
  <2> QED BY <1>2, <2>1 DEF Outputs
<1> HIDE DEF new
<1> QED BY <1>4, <1>5, <1>6, <1>7 DEF PutSoFar

(* The first row.                                                          *)
LEMMA PutFirst ==
  ASSUME NEW row \in Rows, row # Break
  PROVE  PutSoFar(PutRow(row)[Nothing], <<row>>, row)
<1>1. Nothing \in Outputs /\ Nothing.ret = << >> /\ Nothing.failed = FALSE
  BY DEF Nothing, Outputs
<1>2. PutRow(row)[Nothing] = AppendRow(Nothing, row)
  BY <1>1, Zenon DEF PutRow
<1>3. AppendRow(Nothing, row) = [Nothing EXCEPT !.ret = Append(<< >>, row)]
  BY <1>1 DEF AppendRow
<1>4. Append(<< >>, row) = <<row>> /\ <<row>> \in Seq(Rows) /\ <<row>> # << >> /\ Last(<<row>>) = row
  BY DEF Last
<1> DEFINE one == <<row>>
           new == [Nothing EXCEPT !.ret = one]
<1>5. PutRow(row)[Nothing] = new
  BY <1>2, <1>3, <1>4
<1>6. new \in Outputs /\ new.failed = FALSE /\ new.ret = one
  <2>1. one \in Seq(Rows)
    BY <1>4
  <2> HIDE DEF one
  <2> QED BY <1>1, <2>1 DEF Outputs
<1> HIDE DEF new
<1> QED BY <1>4, <1>5, <1>6 DEF PutSoFar

(* A walk that does not begin with an end mark is put with one break where *)
(* several dictionaries end.                                               *)
LEMMA PutKept ==
  ASSUME NEW w \in Seq(Rows), w # << >>, w[1] # Break
  PROVE  Put(w, Nothing) = [ret |-> OneBreakEach(w), failed |-> FALSE]
<1> DEFINE n == Len(w)
<1>1. Nothing \in Outputs
  BY DEF Nothing, Outputs
<1>2. PICK f : PutRun(w, Nothing, f) /\ f[n] = Put(w, Nothing)
  BY <1>1, PutThere
<1>3. /\ KeptOf(w) \in Seq(Seq(Rows)) /\ Len(KeptOf(w)) = n /\ n \in Nat
      /\ OneBreakEach(w) = FlattenSeq(KeptOf(w))
  BY KeptType
<1>4. \A i \in 1 .. n :
        /\ w[i] \in Rows
        /\ i > 1 /\ w[i] = Break /\ w[i - 1] = Break => KeptOf(w)[i] = << >>
        /\ ~(i > 1 /\ w[i] = Break /\ w[i - 1] = Break) => KeptOf(w)[i] = <<w[i]>>
  BY KeptType
<1>5. PICK g \in [0 .. n -> Seq(Rows)] : Flattens(KeptOf(w), g) /\ FlattenSeq(KeptOf(w)) = g[n]
  BY <1>3, FlattenSteps
<1>6. n # 0
  OBVIOUS
<1>7. f[0] = Nothing /\ \A m \in 1 .. n : f[m] = PutRow(w[m])[f[m - 1]]
  BY <1>2, Zenon DEF PutRun
<1>8. g[0] = << >> /\ \A m \in 1 .. n : g[m] = g[m - 1] \o KeptOf(w)[m]
  BY <1>3, <1>5, Zenon DEF Flattens
<1> HIDE DEF n
<1> DEFINE U == {m \in Nat : m + 1 <= n => PutSoFar(f[m + 1], g[m + 1], w[m + 1])}
<1>9. 0 \in U
  <2>1. 1 \in 1 .. n /\ 1 - 1 = 0 /\ ~(1 > 1) /\ 0 + 1 = 1
    BY <1>3, <1>6
  <2>2. f[1] = PutRow(w[1])[Nothing] /\ g[1] = << >> \o <<w[1]>> /\ w[1] \in Rows
    BY <1>4, <1>7, <1>8, <2>1
  <2>3. << >> \o <<w[1]>> = <<w[1]>>
    OBVIOUS
  <2>4. PutSoFar(PutRow(w[1])[Nothing], <<w[1]>>, w[1])
    BY <2>2, PutFirst
  <2>5. PutSoFar(f[1], g[1], w[1])
    BY <2>2, <2>3, <2>4
  <2> QED BY <2>1, <2>5
<1>10. ASSUME NEW m \in Nat, m \in U
       PROVE  m + 1 \in U
  <2> SUFFICES ASSUME (m + 1) + 1 <= n
               PROVE  PutSoFar(f[(m + 1) + 1], g[(m + 1) + 1], w[(m + 1) + 1])
    OBVIOUS
  <2> DEFINE k == (m + 1) + 1
  <2>1. k \in 1 .. n /\ k - 1 = m + 1 /\ k > 1 /\ PutSoFar(f[m + 1], g[m + 1], w[m + 1])
    BY <1>3, <1>10
  <2> HIDE DEF k
  <2>2. PutSoFar(f[k - 1], g[k - 1], w[k - 1]) /\ w[k] \in Rows
    BY <1>4, <2>1
  <2>3. f[k] = PutRow(w[k])[f[k - 1]] /\ g[k] = g[k - 1] \o KeptOf(w)[k]
    BY <1>7, <1>8, <2>1
  <2>4. CASE ~(w[k] = Break /\ w[k - 1] = Break)
    <3>1. KeptOf(w)[k] = <<w[k]>>
      BY <1>4, <2>1, <2>4
    <3>2. PutSoFar(PutRow(w[k])[f[k - 1]], g[k - 1] \o <<w[k]>>, w[k])
      BY <2>2, <2>4, PutOne
    <3> QED BY <2>3, <3>1, <3>2 DEF k
  <2>5. CASE w[k] = Break /\ w[k - 1] = Break
    <3>1. KeptOf(w)[k] = << >>
      BY <1>4, <2>1, <2>5
    <3>2. g[k - 1] \in Seq(Rows) /\ f[k - 1] \in Outputs
      BY <2>2 DEF PutSoFar
    <3>3. g[k] = g[k - 1]
      BY <2>3, <3>1, <3>2
    <3>4. f[k] = AppendBreak(f[k - 1])
      BY <2>3, <2>5, <3>2, Zenon DEF PutRow
    <3>5. AppendBreak(f[k - 1]) = f[k - 1]
      BY <2>2, <2>5 DEF PutSoFar, AppendBreak
    <3>6. PutSoFar(f[k], g[k], w[k])
      BY <2>2, <2>5, <3>3, <3>4, <3>5
    <3> QED BY <3>6 DEF k
  <2> QED BY <2>4, <2>5
<1>11. \A m \in Nat : m \in U
  <2> HIDE DEF U
  <2> QED BY <1>9, <1>10, All
<1>12. n - 1 \in U /\ (n - 1) + 1 = n
  <2>1. n - 1 \in Nat /\ (n - 1) + 1 = n
    BY <1>3, <1>6
  <2> HIDE DEF U
  <2> QED BY <1>11, <2>1
<1>13. PutSoFar(f[n], g[n], w[n])
  BY <1>3, <1>12
<1>14. f[n] = [ret |-> g[n], failed |-> FALSE]
  BY <1>13 DEF PutSoFar, Outputs
<1> QED BY <1>2, <1>3, <1>5, <1>14

(* Every document is rendered as it should be, however deep it is and      *)
(* however many rows it has.                                               *)
LEMMA AllRender ==
  ASSUME NEW doc \in Documents
  PROVE  RendersAs(doc)
<1> DEFINE w == Walked(doc)
<1>1. w \in Seq(Rows) /\ Render(doc) = Put(w, Nothing)
  BY RenderPuts
<1>2. Unshowable(doc) <=> w # << >> /\ Head(w) = Break
  BY DEF Unshowable
<1>3. RendersAs(doc) <=> IF Unshowable(doc) THEN Render(doc).failed
                         ELSE Render(doc) = [ret |-> OneBreakEach(w), failed |-> FALSE]
  BY DEF RendersAs
<1> HIDE DEF w
<1>4. w # << >> => Head(w) = w[1]
  BY <1>1
<1>5. CASE w = << >>
  <2>1. Put(w, Nothing) = Nothing
    BY <1>5, PutShort, RenderPuts
  <2>2. OneBreakEach(w) = << >>
    <3>1. DOMAIN << >> = {}
      OBVIOUS
    <3>2. KeptOf(w) \in Seq(Seq(Rows)) /\ Len(KeptOf(w)) = 0 /\ OneBreakEach(w) = FlattenSeq(KeptOf(w))
      BY <1>1, <1>5, KeptType
    <3>3. KeptOf(w) = << >>
      BY <3>2
    <3> QED BY <3>2, <3>3, FlattenNone
  <2> QED BY <1>1, <1>2, <1>3, <1>5, <2>1, <2>2 DEF Nothing
<1>6. CASE w # << >> /\ w[1] = Break
  BY <1>1, <1>2, <1>3, <1>4, <1>6, PutFails
<1>7. CASE w # << >> /\ w[1] # Break
  BY <1>1, <1>2, <1>3, <1>4, <1>7, PutKept
<1> QED BY <1>5, <1>6, <1>7

-----------------------------------------------------------------------------
(***************************************************************************)
(* What the rows shown have to do with the scalars of a document.          *)
(***************************************************************************)

(* The items of sequences one behind the other.                            *)
LEMMA JoinItems ==
  ASSUME NEW S, NEW a \in Seq(S), NEW b \in Seq(S), NEW c, Joins(a, b, c)
  PROVE  \A x : x \in ToSet(c) <=> x \in ToSet(a) \/ x \in ToSet(b)
<1>1. /\ c \in Seq(S) /\ Len(c) = Len(a) + Len(b) /\ Len(a) \in Nat /\ Len(b) \in Nat
      /\ \A i \in 1 .. Len(a) : c[i] = a[i]
      /\ \A i \in 1 .. Len(b) : c[Len(a) + i] = b[i]
      /\ DOMAIN a = 1 .. Len(a) /\ DOMAIN b = 1 .. Len(b) /\ DOMAIN c = 1 .. Len(c)
  BY DEF Joins
<1> TAKE x
<1>2. ASSUME x \in ToSet(c)
      PROVE  x \in ToSet(a) \/ x \in ToSet(b)
  <2>1. PICK i \in 1 .. Len(c) : c[i] = x
    BY <1>1, <1>2 DEF ToSet
  <2>2. CASE i <= Len(a)
    <3>1. i \in 1 .. Len(a) /\ a[i] = x
      BY <1>1, <2>1, <2>2
    <3> QED BY <1>1, <3>1 DEF ToSet
  <2>3. CASE ~(i <= Len(a))
    <3>1. i - Len(a) \in 1 .. Len(b) /\ Len(a) + (i - Len(a)) = i
      BY <1>1, <2>1, <2>3
    <3>2. b[i - Len(a)] = x
      BY <1>1, <2>1, <3>1
    <3> QED BY <1>1, <3>1, <3>2 DEF ToSet
  <2> QED BY <2>2, <2>3
<1>3. ASSUME x \in ToSet(a)
      PROVE  x \in ToSet(c)
  <2>1. PICK i \in 1 .. Len(a) : a[i] = x
    BY <1>1, <1>3 DEF ToSet
  <2>2. i \in 1 .. Len(c) /\ c[i] = x
    BY <1>1, <2>1
  <2> QED BY <1>1, <2>2 DEF ToSet
<1>4. ASSUME x \in ToSet(b)
      PROVE  x \in ToSet(c)
  <2>1. PICK i \in 1 .. Len(b) : b[i] = x
    BY <1>1, <1>4 DEF ToSet
  <2>2. Len(a) + i \in 1 .. Len(c) /\ c[Len(a) + i] = x
    BY <1>1, <2>1
  <2> QED BY <1>1, <2>2 DEF ToSet
<1> QED BY <1>2, <1>3, <1>4

(* Those of many are those of each.                                        *)
LEMMA FlattenItems ==
  ASSUME NEW S, NEW ss \in Seq(Seq(S))
  PROVE  \A x : x \in ToSet(FlattenSeq(ss)) <=> \E i \in 1 .. Len(ss) : x \in ToSet(ss[i])
<1> DEFINE n == Len(ss)
<1>1. n \in Nat /\ \A i \in 1 .. n : ss[i] \in Seq(S)
  OBVIOUS
<1>2. PICK f \in [0 .. n -> Seq(S)] : Flattens(ss, f) /\ FlattenSeq(ss) = f[n]
  BY FlattenSteps
<1>3. f[0] = << >> /\ \A m \in 1 .. n : f[m] = f[m - 1] \o ss[m]
  BY <1>2 DEF Flattens
<1> HIDE DEF n
<1> DEFINE Has(m) == \A x : x \in ToSet(f[m]) <=> \E i \in 1 .. m : x \in ToSet(ss[i])
           U == {m \in Nat : m <= n => Has(m)}
<1>4. 0 \in U
  <2>1. ToSet(<< >>) = {}
    BY DEF ToSet
  <2>2. 1 .. 0 = {}
    OBVIOUS
  <2>3. Has(0)
    BY <1>3, <2>1, <2>2
  <2> QED BY <2>3
<1>5. ASSUME NEW m \in Nat, m \in U
      PROVE  m + 1 \in U
  <2> SUFFICES ASSUME m + 1 <= n
               PROVE  Has(m + 1)
    OBVIOUS
  <2>1. m + 1 \in 1 .. n /\ (m + 1) - 1 = m /\ m \in 0 .. n /\ Has(m)
    BY <1>1, <1>5
  <2>2. f[m + 1] = f[m] \o ss[m + 1] /\ f[m] \in Seq(S) /\ ss[m + 1] \in Seq(S)
    BY <1>1, <1>3, <2>1
  <2>3. Joins(f[m], ss[m + 1], f[m + 1])
    BY <2>2 DEF Joins
  <2>4. \A x : x \in ToSet(f[m + 1]) <=> x \in ToSet(f[m]) \/ x \in ToSet(ss[m + 1])
    BY <2>2, <2>3, JoinItems
  <2>5. \A i : i \in 1 .. m + 1 <=> i \in 1 .. m \/ i = m + 1
    OBVIOUS
  <2> QED BY <2>1, <2>4, <2>5, Zenon
<1>6. \A m \in Nat : m \in U
  <2> HIDE DEF U
  <2> QED BY <1>4, <1>5, All
<1>7. n \in U
  <2> HIDE DEF U
  <2> QED BY <1>1, <1>6
<1>8. Has(n)
  BY <1>1, <1>7
<1> QED BY <1>2, <1>8 DEF n

(* Some items of a sequence.                                               *)
KeepsSome(w, ks) ==
  /\ ks \in Seq(Seq(Rows)) /\ Len(ks) = Len(w)
  /\ \A i \in 1 .. Len(w) : ks[i] = << >> \/ ks[i] = <<w[i]>>

(* They are items of it.                                                   *)
LEMMA SomeItems ==
  ASSUME NEW w \in Seq(Rows), NEW ks, KeepsSome(w, ks)
  PROVE  \A x \in ToSet(FlattenSeq(ks)) : x \in ToSet(w)
<1>1. /\ ks \in Seq(Seq(Rows)) /\ Len(ks) = Len(w) /\ DOMAIN w = 1 .. Len(w)
      /\ \A i \in 1 .. Len(w) : ks[i] = << >> \/ ks[i] = <<w[i]>>
  BY DEF KeepsSome
<1> TAKE x \in ToSet(FlattenSeq(ks))
<1>2. PICK i \in 1 .. Len(w) : x \in ToSet(ks[i])
  BY <1>1, FlattenItems
<1>3. ToSet(<< >>) = {} /\ ToSet(<<w[i]>>) = {w[i]}
  BY DEF ToSet
<1>4. x = w[i]
  BY <1>1, <1>2, <1>3
<1> QED BY <1>1, <1>2, <1>4 DEF ToSet

(* OneBreakEach keeps some,                                                *)
LEMMA KeptItems ==
  ASSUME NEW w \in Seq(Rows)
  PROVE  OneBreakEach(w) \in Seq(Rows) /\ \A x \in ToSet(OneBreakEach(w)) : x \in ToSet(w)
<1>1. KeptOf(w) \in Seq(Seq(Rows)) /\ OneBreakEach(w) = FlattenSeq(KeptOf(w))
  BY KeptType
<1>2. KeepsSome(w, KeptOf(w))
  BY KeptType DEF KeepsSome
<1> QED BY <1>1, <1>2, SomeItems, FlattenType

(* and RemoveBreaks the rows that are no breaks.                           *)
ShownOf(rows) == [i \in DOMAIN rows |-> IF rows[i] = Break THEN << >> ELSE <<rows[i]>>]

(* Exactly those.                                                          *)
LEMMA RemovedItems ==
  ASSUME NEW w \in Seq(Rows)
  PROVE  /\ RemoveBreaks(w) \in Seq(Rows)
         /\ \A x : x \in ToSet(RemoveBreaks(w)) <=> x \in ToSet(w) /\ x # Break
<1> DEFINE e(i) == IF w[i] = Break THEN << >> ELSE <<w[i]>>
           ks == ShownOf(w)
<1>1. Len(w) \in Nat /\ DOMAIN w = 1 .. Len(w) /\ \A i \in 1 .. Len(w) : w[i] \in Rows
  OBVIOUS
<1>2. \A i \in 1 .. Len(w) : e(i) \in Seq(Rows)
  BY <1>1
<1>3. ks = [i \in 1 .. Len(w) |-> e(i)]
  BY <1>1, Zenon DEF ShownOf
<1>4. RemoveBreaks(w) = FlattenSeq(ks)
  BY Zenon DEF RemoveBreaks, ShownOf
<1>5. \A i \in 1 .. Len(w) : (w[i] = Break => e(i) = << >>) /\ (w[i] # Break => e(i) = <<w[i]>>)
  OBVIOUS
<1> HIDE DEF e, ks
<1>6. ks \in [1 .. Len(w) -> Seq(Rows)] /\ \A i \in 1 .. Len(w) : ks[i] = e(i)
  BY <1>2, <1>3
<1>7. ks \in Seq(Seq(Rows)) /\ Len(ks) = Len(w)
  BY <1>1, <1>6, MapType
<1>8. \A x : x \in ToSet(FlattenSeq(ks)) <=> \E i \in 1 .. Len(w) : x \in ToSet(ks[i])
  BY <1>7, FlattenItems
<1>9. ToSet(<< >>) = {} /\ \A y : ToSet(<<y>>) = {y}
  BY DEF ToSet
<1>10. \A i \in 1 .. Len(w) : \A x : x \in ToSet(ks[i]) <=> x = w[i] /\ w[i] # Break
  BY <1>5, <1>6, <1>9
<1>11. \A x : x \in ToSet(w) <=> \E i \in 1 .. Len(w) : x = w[i]
  BY <1>1 DEF ToSet
<1>12. RemoveBreaks(w) \in Seq(Rows)
  BY <1>4, <1>7, FlattenType
<1>13. \A x : x \in ToSet(RemoveBreaks(w)) <=> \E i \in 1 .. Len(w) : x = w[i] /\ w[i] # Break
  <2> TAKE x
  <2>1. x \in ToSet(RemoveBreaks(w)) <=> \E i \in 1 .. Len(w) : x \in ToSet(ks[i])
    BY <1>4, <1>8
  <2>2. \A i \in 1 .. Len(w) : x \in ToSet(ks[i]) <=> x = w[i] /\ w[i] # Break
    BY <1>10
  <2> HIDE DEF ks
  <2> QED BY <2>1, <2>2
<1>14. \A x : x \in ToSet(RemoveBreaks(w)) <=> x \in ToSet(w) /\ x # Break
  BY <1>11, <1>13, Zenon
<1> QED BY <1>12, <1>14

(* The scalars of a document.                                              *)
LEMMA LeavesType ==
  ASSUME NEW doc \in Documents
  PROVE  /\ Leaves(doc) \in Seq(Rows)
         /\ \A x \in ToSet(Leaves(doc)) :
              x.path \in Paths /\ x.text \in ScalarTexts /\ x = Row(x.path, x.text)
<1>1. Walked(doc) \in Seq(Rows)
  BY RenderPuts
<1>2. Leaves(doc) \in Seq(Rows) /\ \A x \in ToSet(Leaves(doc)) : x # Break
  BY <1>1, RemovedItems DEF Leaves
<1>3. ASSUME NEW x \in ToSet(Leaves(doc))
      PROVE  x.path \in Paths /\ x.text \in ScalarTexts /\ x = Row(x.path, x.text)
  <2>1. x \in Rows /\ x # Break
    BY <1>2 DEF ToSet
  <2>2. x \in [path : Paths, text : ScalarTexts]
    BY <2>1 DEF Rows
  <2> QED BY <2>2 DEF Row
<1> QED BY <1>2, <1>3

(* The rows shown are scalars of the document.                             *)
LEMMA RenderedItems ==
  ASSUME NEW doc \in Documents
  PROVE  /\ Render(doc).ret \in Seq(Rows)
         /\ Render(doc).failed <=> Unshowable(doc)
         /\ ~Render(doc).failed =>
              \A x \in ToSet(RemoveBreaks(Render(doc).ret)) : x \in ToSet(Leaves(doc))
<1>1. /\ Walked(doc) \in Seq(Rows) /\ Render(doc) \in Outputs
  BY RenderPuts, PutType
<1>2. Render(doc).ret \in Seq(Rows)
  BY <1>1 DEF Outputs
<1>3. IF Unshowable(doc) THEN Render(doc).failed
      ELSE Render(doc) = [ret |-> OneBreakEach(Walked(doc)), failed |-> FALSE]
  BY AllRender DEF RendersAs
<1>4. Render(doc).failed <=> Unshowable(doc)
  BY <1>3
<1>5. ASSUME ~Render(doc).failed, NEW x \in ToSet(RemoveBreaks(Render(doc).ret))
      PROVE  x \in ToSet(Leaves(doc))
  <2>1. Render(doc).ret = OneBreakEach(Walked(doc))
    BY <1>3, <1>5
  <2>2. x \in ToSet(OneBreakEach(Walked(doc))) /\ x # Break
    BY <1>2, <1>5, <2>1, RemovedItems
  <2>3. x \in ToSet(Walked(doc))
    BY <1>1, <2>2, KeptItems
  <2> QED BY <1>1, <2>2, <2>3, RemovedItems DEF Leaves
<1> QED BY <1>2, <1>4, <1>5

-----------------------------------------------------------------------------
(***************************************************************************)
(* A pair more at the end of a term.                                       *)
(***************************************************************************)

(* One item more at the end.                                               *)
OneMore(S, ss, x, tt) ==
  /\ ss \in Seq(Seq(S)) /\ tt \in Seq(Seq(S)) /\ x \in Seq(S)
  /\ Len(tt) = Len(ss) + 1 /\ tt[Len(ss) + 1] = x
  /\ \A i \in 1 .. Len(ss) : tt[i] = ss[i]

(* It comes behind the others.                                             *)
LEMMA FlattenMore ==
  ASSUME NEW S, NEW ss, NEW x, NEW tt, OneMore(S, ss, x, tt)
  PROVE  FlattenSeq(tt) = FlattenSeq(ss) \o x
<1> DEFINE n == Len(ss)
<1>1. /\ n \in Nat /\ \A i \in 1 .. n : ss[i] \in Seq(S) /\ tt[i] = ss[i]
      /\ tt \in Seq(Seq(S)) /\ Len(tt) = n + 1 /\ tt[n + 1] = x
  BY DEF OneMore
<1>2. PICK g \in [0 .. Len(tt) -> Seq(S)] : Flattens(tt, g) /\ FlattenSeq(tt) = g[Len(tt)]
  BY <1>1, FlattenSteps
<1>3. n = 0 => ss = << >>
  BY DEF OneMore
<1> HIDE DEF n
<1>4. g[0] = << >> /\ \A i \in 1 .. n + 1 : g[i] = g[i - 1] \o tt[i]
  BY <1>1, <1>2 DEF Flattens
<1>5. \A i \in 1 .. n : i \in 1 .. n + 1 /\ tt[i] = ss[i]
  BY <1>1
<1>6. Flattens(ss, g)
  BY <1>4, <1>5 DEF Flattens, n
<1>7. 1 <= n => g[1] = ss[1]
  <2> HAVE 1 <= n
  <2>1. 1 \in 1 .. n /\ 1 - 1 = 0
    BY <1>1
  <2>2. g[1] = << >> \o ss[1] /\ ss[1] \in Seq(S)
    BY <1>1, <1>4, <1>5, <2>1
  <2> QED BY <2>2
<1>8. Len(ss) = n
  BY DEF n
<1>9. FlattenSeq(ss) = g[n]
  BY <1>1, <1>3, <1>6, <1>7, <1>8, FlattenIs
<1>10. n + 1 \in 1 .. n + 1 /\ (n + 1) - 1 = n
  BY <1>1
<1>11. g[n + 1] = g[n] \o tt[n + 1]
  BY <1>4, <1>10
<1> QED BY <1>1, <1>2, <1>9, <1>11

(* A pair more at the end of a term asks for one thing more.               *)
LEMMA OnePairMore ==
  ASSUME NEW pieces \in Seq(Pieces), NEW pair \in Pieces, pair.kind # "word"
  PROVE  /\ Append(pieces, pair) \in Seq(Pieces)
         /\ PairQueries(pieces) \in Seq(FieldQueries)
         /\ Joins(PairQueries(pieces), <<PairQuery(pair.name, pair.value)>>,
                  PairQueries(Append(pieces, pair)))
         /\ Words(Append(pieces, pair)) = Words(pieces)
<1> DEFINE more == Append(pieces, pair)
           n == Len(pieces)
           q == PairQuery(pair.name, pair.value)
           qs == QueriesOf(pieces)
           qt == QueriesOf(more)
           ws == WordsOf(pieces)
           wt == WordsOf(more)
<1>1. /\ more \in Seq(Pieces) /\ Len(more) = n + 1 /\ n \in Nat /\ more[n + 1] = pair
      /\ \A i \in 1 .. n : more[i] = pieces[i]
  OBVIOUS
<1> HIDE DEF more
<1>2. /\ qs \in Seq(Seq(FieldQueries)) /\ Len(qs) = n
      /\ \A i \in 1 .. n :
           /\ pieces[i].kind = "word" => qs[i] = << >>
           /\ pieces[i].kind # "word" => qs[i] = <<PairQuery(pieces[i].name, pieces[i].value)>>
  BY OfType
<1>3. /\ qt \in Seq(Seq(FieldQueries)) /\ Len(qt) = n + 1
      /\ \A i \in 1 .. n + 1 :
           /\ more[i].kind = "word" => qt[i] = << >>
           /\ more[i].kind # "word" => qt[i] = <<PairQuery(more[i].name, more[i].value)>>
  BY <1>1, OfType
<1>4. /\ ws \in Seq(Seq(Texts)) /\ Len(ws) = n
      /\ \A i \in 1 .. n :
           /\ pieces[i].kind = "word" => ws[i] = <<pieces[i].text>>
           /\ pieces[i].kind # "word" => ws[i] = << >>
  BY OfType
<1>5. /\ wt \in Seq(Seq(Texts)) /\ Len(wt) = n + 1
      /\ \A i \in 1 .. n + 1 :
           /\ more[i].kind = "word" => wt[i] = <<more[i].text>>
           /\ more[i].kind # "word" => wt[i] = << >>
  BY <1>1, OfType
<1>6. /\ PairQueries(pieces) = FlattenSeq(qs) /\ PairQueries(more) = FlattenSeq(qt)
      /\ Words(pieces) = FlattenSeq(ws) /\ Words(more) = FlattenSeq(wt)
  BY Zenon DEF PairQueries, QueriesOf, Words, WordsOf
<1>7. pair.name \in Texts /\ pair.value \in Texts
  BY PieceIs
<1>8. q \in FieldQueries
  BY <1>7 DEF PairQuery, FieldQueries, WildcardQuery, TermQuery
<1> HIDE DEF n, qs, qt, ws, wt, q
<1>9. n + 1 \in 1 .. n + 1 /\ \A i \in 1 .. n : i \in 1 .. n + 1
  BY <1>1
<1>10. qt[n + 1] = <<q>> /\ wt[n + 1] = << >>
  BY <1>1, <1>3, <1>5, <1>9 DEF q
<1>11. \A i \in 1 .. n : qt[i] = qs[i] /\ wt[i] = ws[i]
  <2> TAKE i \in 1 .. n
  <2>1. more[i] = pieces[i] /\ i \in 1 .. n + 1
    BY <1>1, <1>9
  <2>2. CASE pieces[i].kind = "word"
    BY <1>2, <1>3, <1>4, <1>5, <2>1, <2>2
  <2>3. CASE pieces[i].kind # "word"
    <3>1. qt[i] = <<PairQuery(pieces[i].name, pieces[i].value)>> /\ wt[i] = << >>
      BY <1>3, <1>5, <2>1, <2>3
    <3>2. qs[i] = <<PairQuery(pieces[i].name, pieces[i].value)>> /\ ws[i] = << >>
      BY <1>2, <1>4, <2>3
    <3> QED BY <3>1, <3>2
  <2> QED BY <2>2, <2>3
<1>12. FlattenSeq(qt) = FlattenSeq(qs) \o <<q>>
  <2> DEFINE one == <<q>>
  <2>1. one \in Seq(FieldQueries) /\ qt[n + 1] = one
    BY <1>8, <1>10
  <2> HIDE DEF one
  <2>2. OneMore(FieldQueries, qs, one, qt)
    BY <1>2, <1>3, <1>11, <2>1 DEF OneMore
  <2>3. FlattenSeq(qt) = FlattenSeq(qs) \o one
    BY <2>2, FlattenMore
  <2> QED BY <2>3 DEF one
<1>13. FlattenSeq(wt) = FlattenSeq(ws)
  <2>1. FlattenSeq(wt) = FlattenSeq(ws) \o << >>
    <3> DEFINE none == << >>
    <3>1. none \in Seq(Texts) /\ wt[n + 1] = none
      BY <1>10
    <3> HIDE DEF none
    <3>2. OneMore(Texts, ws, none, wt)
      BY <1>4, <1>5, <1>11, <3>1 DEF OneMore
    <3>3. FlattenSeq(wt) = FlattenSeq(ws) \o none
      BY <3>2, FlattenMore
    <3> QED BY <3>3 DEF none
  <2>2. FlattenSeq(ws) \in Seq(Texts)
    BY <1>4, FlattenType
  <2> QED BY <2>1, <2>2
<1>14. FlattenSeq(qs) \in Seq(FieldQueries)
  BY <1>2, FlattenType
<1>15. Joins(PairQueries(pieces), <<q>>, PairQueries(more))
  BY <1>6, <1>12 DEF Joins
<1> QED BY <1>1, <1>6, <1>13, <1>14, <1>15 DEF more, q

-----------------------------------------------------------------------------
(***************************************************************************)
(* A piece more at the end of a term, and what arrives of it.              *)
(***************************************************************************)

(* Texts, each but the first with the blank before it.                     *)
PartsOf(texts) ==
  [i \in DOMAIN texts |-> (IF i = 1 THEN << >> ELSE <<Blank>>) \o texts[i]]

(* That is what is joined.                                                 *)
LEMMA Parted ==
  ASSUME NEW S, Blank \in S, NEW texts \in Seq(Seq(S))
  PROVE  /\ Joined(texts) = FlattenSeq(PartsOf(texts))
         /\ PartsOf(texts) \in Seq(Seq(S)) /\ Len(PartsOf(texts)) = Len(texts)
         /\ \A i \in 1 .. Len(texts) : i # 1 => PartsOf(texts)[i] = <<Blank>> \o texts[i]
         /\ Len(texts) # 0 => PartsOf(texts)[1] = texts[1]
<1> DEFINE n == Len(texts)
           parts == PartsOf(texts)
<1>1. n \in Nat /\ DOMAIN texts = 1 .. n /\ \A i \in 1 .. n : texts[i] \in Seq(S)
  OBVIOUS
<1>2. Joined(texts) = FlattenSeq(parts)
  BY Zenon DEF Joined, JoinWith, PartsOf
<1> HIDE DEF n
<1>3. DOMAIN parts = 1 .. n /\ parts = [i \in 1 .. n |-> parts[i]]
  BY <1>1 DEF PartsOf
<1>4. \A i \in 1 .. n : i # 1 => parts[i] = <<Blank>> \o texts[i]
  BY <1>1 DEF PartsOf
<1>5. n # 0 => parts[1] = texts[1]
  <2> SUFFICES ASSUME n # 0
               PROVE  parts[1] = texts[1]
    OBVIOUS
  <2>1. 1 \in 1 .. n
    BY <1>1
  <2>2. parts[1] = << >> \o texts[1] /\ texts[1] \in Seq(S)
    BY <1>1, <2>1 DEF PartsOf
  <2> QED BY <2>2
<1> HIDE DEF parts
<1>6. \A i \in 1 .. n : parts[i] \in Seq(S)
  <2> TAKE i \in 1 .. n
  <2> DEFINE one == <<Blank>>
  <2>1. one \in Seq(S) /\ texts[i] \in Seq(S)
    BY <1>1
  <2>2. i # 1 => parts[i] = one \o texts[i]
    BY <1>4
  <2> HIDE DEF one
  <2>5. one \o texts[i] \in Seq(S)
    BY <2>1, ConcatProperties
  <2>3. i # 1 => parts[i] \in Seq(S)
    BY <2>2, <2>5
  <2>4. i = 1 => parts[i] = texts[i]
    BY <1>1, <1>5
  <2> QED BY <2>1, <2>3, <2>4
<1>7. parts \in [1 .. n -> Seq(S)]
  BY <1>3, <1>6
<1>8. parts \in Seq(Seq(S)) /\ Len(parts) = n
  BY <1>1, <1>7, MapType
<1> QED BY <1>2, <1>4, <1>5, <1>8 DEF parts, n

(* The text of a term with a piece more.                                   *)
LEMMA ComposeMore ==
  ASSUME NEW pieces \in Seq(Pieces), NEW piece \in Pieces
  PROVE  /\ pieces = << >> => Compose(Append(pieces, piece)) = PieceText(piece)
         /\ pieces # << >> => Compose(Append(pieces, piece)) =
                                (Compose(pieces) \o <<Blank>>) \o PieceText(piece)
<1> DEFINE more == Append(pieces, piece)
           n == Len(pieces)
           ss == TextsOf(pieces)
           tt == TextsOf(more)
           text == PieceText(piece)
<1>1. /\ more \in Seq(Pieces) /\ Len(more) = n + 1 /\ n \in Nat /\ more[n + 1] = piece
      /\ \A i \in 1 .. n : more[i] = pieces[i]
  OBVIOUS
<1>2. ASSUME pieces = << >>
      PROVE  Compose(more) = text
  <2>1. more # << >> /\ Tail(more) = << >> /\ more[1] = piece
    BY <1>2
  <2> HIDE DEF more, text
  <2>2. Compose(more) = PieceText(more[1])
    BY <1>1, <2>1, ComposeTail
  <2> QED BY <2>1, <2>2 DEF text
<1>3. ASSUME pieces # << >>
      PROVE  Compose(more) = (Compose(pieces) \o <<Blank>>) \o text
  <2>0. n # 0
    BY <1>3
  <2> HIDE DEF more, n
  <2>1. /\ ss \in Seq(Texts) /\ Len(ss) = n
        /\ \A i \in 1 .. n : ss[i] = PieceText(pieces[i])
    BY OfType DEF n
  <2>2. /\ tt \in Seq(Texts) /\ Len(tt) = n + 1
        /\ \A i \in 1 .. n + 1 : tt[i] = PieceText(more[i])
    BY <1>1, OfType
  <2>3. Compose(pieces) = Joined(ss) /\ Compose(more) = Joined(tt)
    BY DEF Compose, TextsOf
  <2> HIDE DEF ss, tt
  <2>4. \A i \in 1 .. n : i \in 1 .. n + 1 /\ tt[i] = ss[i]
    BY <1>1, <2>1, <2>2
  <2>5. n + 1 \in 1 .. n + 1 /\ n + 1 # 1 /\ tt[n + 1] = text
    BY <1>1, <2>0, <2>2
  <2>6. Blank \in Chars /\ Texts = Seq(Chars)
    BY CharsApart DEF Texts
  <2> DEFINE ps == PartsOf(ss)
             pt == PartsOf(tt)
             one == <<Blank>>
             x == one \o text
  <2>7. /\ Joined(ss) = FlattenSeq(ps) /\ ps \in Seq(Seq(Chars)) /\ Len(ps) = n
        /\ (\A i \in 1 .. n : i # 1 => ps[i] = one \o ss[i]) /\ ps[1] = ss[1]
    BY <2>0, <2>1, <2>6, Parted
  <2>8. /\ Joined(tt) = FlattenSeq(pt) /\ pt \in Seq(Seq(Chars)) /\ Len(pt) = n + 1
        /\ (\A i \in 1 .. n + 1 : i # 1 => pt[i] = one \o tt[i]) /\ pt[1] = tt[1]
    <3>1. tt \in Seq(Seq(Chars)) /\ Len(tt) = n + 1 /\ Len(tt) # 0
      BY <1>1, <2>2, <2>6
    <3> QED BY <2>6, <3>1, Parted
  <2>9. text \in Seq(Chars) /\ one \in Seq(Chars)
    BY <2>6, PieceTextType
  <2>10. pt[n + 1] = x
    BY <2>5, <2>8
  <2> HIDE DEF ps, pt, one, text
  <2>11. x \in Seq(Chars)
    BY <2>9
  <2>12. \A i \in 1 .. n : pt[i] = ps[i]
    <3> TAKE i \in 1 .. n
    <3>1. i = 1 => pt[i] = ps[i]
      BY <2>4, <2>7, <2>8
    <3>2. i # 1 => pt[i] = ps[i]
      BY <2>4, <2>7, <2>8
    <3> QED BY <3>1, <3>2
  <2> HIDE DEF x
  <2>13. OneMore(Chars, ps, x, pt)
    BY <1>1, <2>7, <2>8, <2>10, <2>11, <2>12 DEF OneMore
  <2>14. Joined(tt) = Joined(ss) \o x
    BY <2>7, <2>8, <2>13, FlattenMore
  <2>15. Joined(ss) \in Seq(Chars)
    BY <2>1, <2>6, JoinedType
  <2> DEFINE j == Joined(ss)
  <2> HIDE DEF j
  <2>16. j \o x = (j \o one) \o text
    <3>1. j \in Seq(Chars)
      BY <2>15 DEF j
    <3> QED BY <2>9, <3>1 DEF x
  <2> QED BY <2>3, <2>14, <2>16, Zenon DEF j, one
<1> QED BY <1>2, <1>3 DEF more, text

(* The characters a URL leaves as they are.                                *)
SafeChars == Chars \ {Plus, Amp, Hash, Escape}

(* A text of these.                                                        *)
LEMMA SafeTexts ==
  ASSUME NEW text \in Texts
  PROVE  UrlSafe(text) <=> text \in Seq(SafeChars)
<1>1. Len(text) \in Nat /\ DOMAIN text = 1 .. Len(text) /\ text \in [1 .. Len(text) -> Chars]
  BY DEF Texts
<1> DEFINE n == Len(text)
<1> HIDE DEF n
<1>2. ASSUME UrlSafe(text)
      PROVE  text \in Seq(SafeChars)
  <2>1. text \in [1 .. n -> SafeChars]
    BY <1>1, <1>2 DEF n, UrlSafe, SafeChars
  <2> QED BY <1>1, <2>1, MapType DEF n
<1>3. ASSUME text \in Seq(SafeChars)
      PROVE  UrlSafe(text)
  BY <1>1, <1>3 DEF UrlSafe, SafeChars
<1> QED BY <1>2, <1>3

(* No text of a piece has a character that a URL gives another meaning.    *)
AllSafe(pieces) == \A i \in DOMAIN pieces : UrlSafe(PieceText(pieces[i]))

(* A term of such pieces is one.                                           *)
LEMMA ComposeSafe ==
  ASSUME NEW pieces \in Seq(Pieces)
  PROVE  Compose(pieces) \in Texts /\ (AllSafe(pieces) => UrlSafe(Compose(pieces)))
<1> DEFINE n == Len(pieces)
           ss == TextsOf(pieces)
<1>1. /\ ss \in Seq(Texts) /\ Len(ss) = n /\ n \in Nat /\ DOMAIN pieces = 1 .. n
      /\ \A i \in 1 .. n : ss[i] = PieceText(pieces[i])
  BY OfType
<1>2. Compose(pieces) = Joined(ss)
  BY DEF Compose, TextsOf
<1> HIDE DEF n, ss
<1>3. Compose(pieces) \in Texts
  BY <1>1, <1>2, JoinedType
<1>4. ASSUME AllSafe(pieces)
      PROVE  UrlSafe(Compose(pieces))
  <2>1. Blank \in SafeChars
    <3>1. Blank # Plus /\ Blank # Amp /\ Blank # Hash /\ Blank # Escape
      BY Zenon DEF Blank, Plus, Amp, Hash, Escape
    <3> QED BY <3>1, CharsApart DEF SafeChars
  <2>2. ss \in [1 .. n -> Seq(SafeChars)]
    <3>1. ss = [i \in 1 .. n |-> ss[i]]
      BY <1>1
    <3>2. ASSUME NEW i \in 1 .. n
          PROVE  ss[i] \in Seq(SafeChars)
      <4>1. ss[i] \in Texts /\ UrlSafe(ss[i])
        BY <1>1, <1>4 DEF AllSafe
      <4> QED BY <4>1, SafeTexts
    <3> QED BY <3>1, <3>2
  <2>3. ss \in Seq(Seq(SafeChars))
    BY <1>1, <2>2, MapType
  <2>4. Joined(ss) = FlattenSeq(PartsOf(ss)) /\ PartsOf(ss) \in Seq(Seq(SafeChars))
    BY <2>1, <2>3, Parted
  <2>5. Joined(ss) \in Seq(SafeChars)
    BY <2>4, FlattenType
  <2> QED BY <1>2, <1>3, <2>5, SafeTexts
<1> QED BY <1>3, <1>4

(* A text with nothing a URL cuts or decodes arrives with its blanks.      *)
LEMMA ArrivedIs ==
  ASSUME NEW text \in Texts, NEW u \in Texts, Len(u) = Len(text),
         \A i \in 1 .. Len(text) : /\ text[i] \notin {Amp, Hash, Escape}
                                   /\ u[i] = IF text[i] = Plus THEN Blank ELSE text[i]
  PROVE  Arrived(text) = u
<1> DEFINE cuts == {i \in DOMAIN text : text[i] \in {Amp, Hash}}
           sent == IF cuts = {} THEN text ELSE SubSeq(text, 1, Min(cuts) - 1)
           char(i) == CASE sent[i] = Plus -> Blank
                        [] sent[i] = Escape -> Unescaped
                        [] OTHER -> sent[i]
<1>1. Arrived(text) = [i \in DOMAIN sent |-> char(i)]
  BY Zenon DEF Arrived
<1>2. DOMAIN text = 1 .. Len(text) /\ DOMAIN u = 1 .. Len(text) /\ u = [i \in 1 .. Len(text) |-> u[i]]
  BY DEF Texts
<1>3. cuts = {}
  BY <1>2
<1>4. sent = text
  BY <1>3, Zenon
<1> HIDE DEF cuts, sent
<1>5. \A i \in 1 .. Len(text) : char(i) = u[i]
  <2> TAKE i \in 1 .. Len(text)
  <2>1. sent[i] = text[i] /\ text[i] # Escape
    BY <1>4
  <2>2. Plus # Escape
    BY Zenon DEF Plus, Escape
  <2> QED BY <2>1, <2>2
<1> HIDE DEF char
<1>6. [i \in DOMAIN sent |-> char(i)] = [i \in 1 .. Len(text) |-> u[i]]
  BY <1>2, <1>4, <1>5
<1> QED BY <1>1, <1>2, <1>6

(* So does a safe one,                                                     *)
LEMMA ArrivesSafe ==
  ASSUME NEW text \in Texts, UrlSafe(text)
  PROVE  Arrived(text) = text
<1>1. DOMAIN text = 1 .. Len(text)
  BY DEF Texts
<1>2. \A i \in 1 .. Len(text) : text[i] \notin {Plus, Amp, Hash, Escape}
  BY <1>1 DEF UrlSafe
<1> QED BY <1>2, ArrivedIs

(* and a safe one behind another.                                          *)
LEMMA ArrivesBehind ==
  ASSUME NEW a \in Texts, NEW b \in Texts, UrlSafe(a), UrlSafe(b)
  PROVE  Arrived(a \o <<Plus>> \o b) = (a \o <<Blank>>) \o b
<1> DEFINE plus == <<Plus>>
           one == <<Blank>>
           d == a \o plus
           e == a \o one
           t == d \o b
           u == e \o b
           n == Len(a)
           m == Len(b)
<1>1. a \in Seq(Chars) /\ b \in Seq(Chars) /\ n \in Nat /\ m \in Nat
  BY DEF Texts
<1>2. /\ plus \in Seq(Chars) /\ Len(plus) = 1 /\ plus[1] = Plus
      /\ one \in Seq(Chars) /\ Len(one) = 1 /\ one[1] = Blank
  BY CharsApart, WebAssumption
<1> HIDE DEF plus, one
<1>3. Joins(a, plus, d) /\ Joins(d, b, t) /\ Joins(a, one, e) /\ Joins(e, b, u)
  BY Zenon DEF Joins
<1> HIDE DEF d, e, t, u
<1>4. WholeOf(a, n, plus, 1, d) /\ WholeOf(a, n, one, 1, e)
  BY <1>1, <1>2, <1>3, Both
<1>5. d \in Seq(Chars) /\ Len(d) = n + 1 /\ e \in Seq(Chars) /\ Len(e) = n + 1
  BY <1>4 DEF WholeOf
<1>6. WholeOf(d, n + 1, b, m, t) /\ WholeOf(e, n + 1, b, m, u)
  BY <1>1, <1>3, <1>5, Both
<1>7. /\ t \in Texts /\ Len(t) = n + 1 + m /\ u \in Texts /\ Len(u) = n + 1 + m
      /\ \A i \in 1 .. n + 1 : t[i] = d[i] /\ u[i] = e[i]
      /\ \A j \in 1 .. m : t[n + 1 + j] = b[j] /\ u[n + 1 + j] = b[j]
      /\ \A i \in 1 .. n : d[i] = a[i] /\ e[i] = a[i]
      /\ d[n + 1] = Plus /\ e[n + 1] = Blank
  BY <1>2, <1>4, <1>6 DEF WholeOf, Texts
<1>8. DOMAIN a = 1 .. n /\ DOMAIN b = 1 .. m
  BY DEF Texts
<1> HIDE DEF n, m
<1>9. Plus \notin {Amp, Hash, Escape}
  BY Zenon DEF Plus, Amp, Hash, Escape
<1>10. \A i \in 1 .. Len(t) : /\ t[i] \notin {Amp, Hash, Escape}
                              /\ u[i] = IF t[i] = Plus THEN Blank ELSE t[i]
  <2> TAKE i \in 1 .. Len(t)
  <2>1. i \in 1 .. n \/ i = n + 1 \/ i \in n + 2 .. n + 1 + m
    BY <1>1, <1>7
  <2>2. CASE i \in 1 .. n
    <3>1. i \in 1 .. n + 1
      BY <1>1, <2>2
    <3>2. t[i] = a[i] /\ u[i] = a[i]
      BY <1>7, <2>2, <3>1
    <3> QED BY <1>8, <2>2, <3>2 DEF UrlSafe
  <2>3. CASE i = n + 1
    <3>1. n + 1 \in 1 .. n + 1
      BY <1>1
    <3> QED BY <1>7, <1>9, <2>3, <3>1
  <2>4. CASE i \in n + 2 .. n + 1 + m
    <3> DEFINE j == i - (n + 1)
    <3>1. j \in 1 .. m /\ n + 1 + j = i
      BY <1>1, <2>4
    <3> HIDE DEF j
    <3>2. t[i] = b[j] /\ u[i] = b[j]
      BY <1>7, <3>1
    <3> QED BY <1>8, <3>1, <3>2 DEF UrlSafe
  <2> QED BY <2>1, <2>2, <2>3, <2>4
<1>11. Arrived(t) = u
  BY <1>7, <1>10, ArrivedIs
<1> QED BY <1>11 DEF t, u, d, e, plus, one

(* A term of such pieces arrives as it was meant.                          *)
TermInv(pieces, term) ==
  pieces \in Seq(Pieces) /\ (AllSafe(pieces) => term = Compose(pieces))

(* A term that is typed,                                                   *)
LEMMA TermTyped ==
  ASSUME NEW pieces \in Seq(Pieces)
  PROVE  TermInv(pieces, Compose(pieces))
BY DEF TermInv

(* one that a link has alone,                                              *)
LEMMA TermFollowed ==
  ASSUME NEW link \in Pieces
  PROVE  TermInv(<<link>>, Arrived(PieceText(link))) /\ Compose(<<link>>) = PieceText(link)
<1> DEFINE none == << >>
           one == <<link>>
<1>1. none \in Seq(Pieces) /\ Append(none, link) = one /\ one \in Seq(Pieces)
      /\ one[1] = link /\ 1 \in DOMAIN one
  OBVIOUS
<1> HIDE DEF one
<1>2. Compose(one) = PieceText(link)
  BY <1>1, ComposeMore
<1>3. AllSafe(one) => UrlSafe(PieceText(link))
  BY <1>1 DEF AllSafe
<1>4. PieceText(link) \in Texts
  BY PieceTextType
<1>5. AllSafe(one) => Arrived(PieceText(link)) = PieceText(link)
  BY <1>3, <1>4, ArrivesSafe
<1> QED BY <1>1, <1>2, <1>5 DEF TermInv, one

(* and one that a link makes longer arrive as they were meant.             *)
LEMMA TermNarrowed ==
  ASSUME NEW pieces, NEW term, TermInv(pieces, term), term # << >>,
         NEW row, ValueLink(row) \in Pieces
  PROVE  TermInv(Append(pieces, ValueLink(row)), Arrived(NarrowedBy(term, row)))
<1> DEFINE link == ValueLink(row)
           text == PieceText(link)
           longer == Append(pieces, link)
<1>1. pieces \in Seq(Pieces) /\ link \in Pieces
  BY DEF TermInv
<1>2. NarrowedBy(term, row) = term \o <<Plus>> \o text
  BY Zenon DEF NarrowedBy
<1> HIDE DEF link
<1>3. /\ longer \in Seq(Pieces) /\ DOMAIN longer = 1 .. Len(pieces) + 1
      /\ Len(pieces) \in Nat /\ DOMAIN pieces = 1 .. Len(pieces)
      /\ longer[Len(pieces) + 1] = link /\ \A i \in 1 .. Len(pieces) : longer[i] = pieces[i]
  BY <1>1
<1> SUFFICES ASSUME AllSafe(longer)
             PROVE  Arrived(term \o <<Plus>> \o text) = Compose(longer)
  BY <1>2, <1>3, Zenon DEF TermInv, link
<1> HIDE DEF longer
<1>4. AllSafe(pieces) /\ UrlSafe(text)
  <2>1. Len(pieces) + 1 \in DOMAIN longer /\ \A i \in DOMAIN pieces : i \in DOMAIN longer
    BY <1>3
  <2> QED BY <1>3, <2>1 DEF AllSafe
<1>5. term = Compose(pieces)
  BY <1>4 DEF TermInv
<1>6. pieces # << >>
  BY <1>5, NoPieces
<1>7. UrlSafe(term) /\ term \in Texts /\ text \in Texts
  BY <1>1, <1>4, <1>5, ComposeSafe, PieceTextType
<1>8. Compose(longer) = (Compose(pieces) \o <<Blank>>) \o text
  BY <1>1, <1>6, ComposeMore DEF longer
<1> HIDE DEF text
<1>9. Arrived(term \o <<Plus>> \o text) = (term \o <<Blank>>) \o text
  BY <1>4, <1>7, ArrivesBehind
<1> QED BY <1>5, <1>8, <1>9

-----------------------------------------------------------------------------
(***************************************************************************)
(* The name a path has in the index, and what a link asks for.             *)
(***************************************************************************)

(* It is a text.                                                           *)
LEMMA FieldNameType ==
  ASSUME NEW path \in Paths
  PROVE  FieldName(path) \in Texts
<1>1. path \in Seq(Texts)
  <2>1. Len(path) \in Nat /\ path \in [1 .. Len(path) -> Names]
    BY DEF Paths
  <2>2. path \in [1 .. Len(path) -> Texts]
    BY <2>1, WebAssumption
  <2> QED BY <2>1, <2>2, MapType
<1>2. Dot \in Chars
  BY WebAssumption
<1> QED BY <1>1, <1>2, JoinType DEF FieldName

-----------------------------------------------------------------------------
(* What the queries of pairs match.                                        *)
LEMMA TermMatches ==
  ASSUME NEW name, NEW value, NEW doc
  PROVE  Matches(TermQuery(name, value), doc) <=>
           \E row \in Indexed(doc) : FieldName(row.path) = name /\ row.text = value
<1> DEFINE q == TermQuery(name, value)
<1>1. q.kind = "term" /\ q.kind # "all" /\ q.field = name /\ q.value = value
  BY DEF TermQuery
<1> HIDE DEF q
<1>2. \A row : (CASE q.kind = "all" -> FALSE
                  [] q.kind = "term" -> FieldName(row.path) = q.field /\ row.text = q.value
                  [] q.kind = "wildcard" ->
                       FieldName(row.path) = q.field /\ Glob(q.value, row.text)
                  [] q.kind = "text" ->
                       \E i \in DOMAIN row.text :
                         IsPrefix(q.text, SubSeq(row.text, i, Len(row.text))))
                 <=> FieldName(row.path) = name /\ row.text = value
  BY <1>1
<1>3. Matches(q, doc) <=>
        \E row \in Indexed(doc) : FieldName(row.path) = name /\ row.text = value
  BY <1>1, <1>2 DEF Matches
<1> QED BY <1>3 DEF q

(* A pattern without wildcards, or with, matches itself.                   *)
LEMMA GlobSelf ==
  ASSUME NEW s \in Texts
  PROVE  Glob(s, s)
<1>1. Len(s) \in Nat /\ DOMAIN s = 1 .. Len(s)
  BY DEF Texts
<1> DEFINE end == [i \in 0 .. Len(s) |-> i]
<1>2. end \in [0 .. Len(s) -> 0 .. Len(s)] /\ \A i \in 0 .. Len(s) : end[i] = i
  OBVIOUS
<1> HIDE DEF end
<1>3. end[0] = 0 /\ end[Len(s)] = Len(s)
  BY <1>1, <1>2
<1>4. \A i \in 1 .. Len(s) :
        IF s[i] = Star THEN end[i - 1] <= end[i]
        ELSE end[i] = end[i - 1] + 1 /\ s[end[i]] = s[i]
  <2> TAKE i \in 1 .. Len(s)
  <2>1. end[i] = i /\ end[i - 1] = i - 1 /\ i - 1 <= i /\ i = (i - 1) + 1
    BY <1>1, <1>2
  <2> QED BY <2>1
<1> QED BY <1>1, <1>2, <1>3, <1>4 DEF Glob

(* So a pair with a star finds the value it was made of.                   *)
LEMMA WildcardMatches ==
  ASSUME NEW name, NEW value \in Texts, NEW doc, NEW row \in Indexed(doc),
         FieldName(row.path) = name, row.text = value
  PROVE  Matches(WildcardQuery(name, value), doc)
<1> DEFINE q == WildcardQuery(name, value)
<1>1. q.kind = "wildcard" /\ q.field = name /\ q.value = value
  BY DEF WildcardQuery
<1> HIDE DEF q
<1>2. Glob(value, value)
  BY GlobSelf
<1>3. (CASE q.kind = "all" -> FALSE
         [] q.kind = "term" -> FieldName(row.path) = q.field /\ row.text = q.value
         [] q.kind = "wildcard" -> FieldName(row.path) = q.field /\ Glob(q.value, row.text)
         [] q.kind = "text" ->
              \E i \in DOMAIN row.text : IsPrefix(q.text, SubSeq(row.text, i, Len(row.text))))
  BY <1>1, <1>2
<1>4. Matches(q, doc)
  BY <1>3 DEF Matches
<1> QED BY <1>4 DEF q

(* The link of a value of a document asks for what that document has.      *)
LEMMA LinkMatches ==
  ASSUME NEW doc \in Documents, NEW row \in Indexed(doc)
  PROVE  Matches(PairQuery(FieldName(row.path), row.text), doc)
<1>1. row.text \in Texts
  BY LeavesType, WebAssumption DEF Indexed
<1>2. Matches(TermQuery(FieldName(row.path), row.text), doc)
  BY TermMatches
<1>3. Matches(WildcardQuery(FieldName(row.path), row.text), doc)
  BY <1>1, WildcardMatches
<1> QED BY <1>2, <1>3 DEF PairQuery

(* A link is a pair in quotes.                                             *)
LEMMA LinkType ==
  ASSUME NEW path \in Paths, NEW text \in ScalarTexts
  PROVE  LET link == Quoted(FieldName(path), text)
         IN /\ link \in Pieces /\ link.kind = "quoted" /\ link.kind # "word"
            /\ link.name = FieldName(path) /\ link.value = text
<1>1. FieldName(path) \in Texts /\ text \in Texts
  BY FieldNameType, WebAssumption
<1> QED BY <1>1 DEF Quoted, Pieces

-----------------------------------------------------------------------------
(***************************************************************************)
(* The invariant of the pages.                                             *)
(***************************************************************************)

(* A document matches a term.                                              *)
Asked(term, doc) ==
  LET queries == GetQuery(term)
  IN \A i \in DOMAIN queries : Matches(queries[i], doc)

(* The results of a search render and are what was asked for.              *)
ResultsInv(pieces, term, results) ==
  /\ TermInv(pieces, term) /\ term # << >>
  /\ \A result \in results :
       /\ result.doc \in Documents /\ ~Render(result.doc).failed
       /\ Asked(term, result.doc)

(* (Every kind of page.)                                                   *)
PageInv(p) ==
  /\ p.view = "error" => p.pieces \in Seq(Pieces)
  /\ p.view = "search" => ResultsInv(p.pieces, p.term, p.results)
  /\ p.view = "detail" => \A type \in DOMAIN p.data : p.data[type] \in Seq(Rows)
  /\ p.view = "facet" =>
       \A i \in DOMAIN p.facets : \A row \in p.facets[i] :
         row.field \in Paths /\ row.term \in ScalarTexts
  /\ p.view = "500" /\ p.request = "search" => \E doc \in p.docs : Unshowable(doc)

(* Documents are in the index.                                             *)
IndexInv == index \in [Slots -> Documents]

(* The inductive invariant.                                                *)
WebInv == IndexInv /\ PageInv(page)

(* The document that is not there is empty.                                *)
LEMMA NoDocIs ==
  /\ NoDoc \in Documents
  /\ Leaves(NoDoc) = << >>
<1> DEFINE fs == [n \in Names |-> Absent]
<1>1. NoDoc = [kind |-> "dict", fields |-> fs]
  <2>1. DOMAIN << >> = {}
    OBVIOUS
  <2>2. [n \in Names |-> IF n \in DOMAIN << >> THEN << >>[n] ELSE Absent] = fs
    <3> DEFINE e(n) == IF n \in DOMAIN << >> THEN << >>[n] ELSE Absent
    <3>1. \A n \in Names : e(n) = Absent
      BY <2>1, Zenon
    <3> HIDE DEF e
    <3>2. [n \in Names |-> e(n)] = fs
      BY <3>1
    <3> QED BY <3>2, Zenon DEF e
  <2> QED BY <2>2, Zenon DEF NoDoc, Dict
<1>2. fs \in [Names -> Json \cup {Absent}] /\ \A n \in Names : fs[n] = Absent
  OBVIOUS
<1> HIDE DEF fs
<1>3. NoDoc \in Documents /\ NoDoc.fields = fs
  BY <1>1, <1>2 DEF Documents
<1>4. SortedNames(NoDoc.fields) = << >>
  BY <1>2, <1>3, NoNames
<1>5. Walked(NoDoc) = << >>
  <2> DEFINE names == SortedNames(NoDoc.fields)
             ws == [i \in DOMAIN names |-> Walk[NoDoc.fields[names[i]]][<<names[i]>>]]
  <2>1. Walked(NoDoc) = FlattenSeq(ws)
    BY Zenon DEF Walked
  <2>2. DOMAIN names = {}
    BY <1>4
  <2> HIDE DEF names
  <2>3. DOMAIN ws = {}
    BY <2>2
  <2>4. ws = << >>
    <3> DEFINE w(i) == Walk[NoDoc.fields[names[i]]][<<names[i]>>]
    <3>1. ws = [i \in 1 .. 0 |-> w(i)] /\ \A i \in 1 .. 0 : w(i) \in Nat
      <4>1. 1 .. 0 = {}
        OBVIOUS
      <4> HIDE DEF w
      <4> QED BY <2>2, <4>1 DEF w
    <3> HIDE DEF w, ws
    <3>2. ws \in [1 .. 0 -> Nat]
      BY <3>1
    <3>3. ws \in Seq(Nat) /\ Len(ws) = 0
      BY <3>2, MapType
    <3> QED BY <3>3
  <2> QED BY <2>1, <2>4, FlattenNone
<1>6. Leaves(NoDoc) = << >>
  <2>1. Leaves(NoDoc) = RemoveBreaks(<< >>)
    BY <1>5 DEF Leaves
  <2>2. << >> \in Seq(Rows) /\ ToSet(<< >>) = {}
    BY DEF ToSet
  <2>3. RemoveBreaks(<< >>) \in Seq(Rows) /\ \A x : x \notin ToSet(RemoveBreaks(<< >>))
    BY <2>2, RemovedItems
  <2>4. RemoveBreaks(<< >>) = << >>
    <3> DEFINE r == RemoveBreaks(<< >>)
    <3>1. r \in Seq(Rows) /\ \A x : x \notin ToSet(r)
      BY <2>3
    <3> HIDE DEF r
    <3>2. r # << >> => r[1] \in ToSet(r)
      BY <3>1 DEF ToSet
    <3>3. r = << >>
      BY <3>1, <3>2
    <3> QED BY <3>3 DEF r
  <2> QED BY <2>1, <2>4
<1> QED BY <1>3, <1>6

(* The pages that show nothing of the index.                               *)
LEMMA PagesInv ==
  /\ PageInv(BlankPage)
  /\ \A pieces \in Seq(Pieces) : \A term : PageInv(ErrorPage(pieces, term))
  /\ \A docs : PageInv(ServerError("detail", docs))
<1>1. BlankPage.view = "blank"
  BY DEF BlankPage
<1>2. PageInv(BlankPage)
  BY <1>1 DEF PageInv
<1>3. ASSUME NEW pieces \in Seq(Pieces), NEW term
      PROVE  PageInv(ErrorPage(pieces, term))
  <2>1. ErrorPage(pieces, term).view = "error" /\ ErrorPage(pieces, term).pieces = pieces
    BY DEF ErrorPage
  <2> QED BY <2>1 DEF PageInv
<1>4. ASSUME NEW docs
      PROVE  PageInv(ServerError("detail", docs))
  <2>1. ServerError("detail", docs).view = "500" /\ ServerError("detail", docs).request = "detail"
    BY DEF ServerError
  <2> QED BY <2>1 DEF PageInv
<1> QED BY <1>2, <1>3, <1>4

(* A search that shows what it found,                                      *)
LEMMA SearchPageInv ==
  ASSUME IndexInv, NEW pieces, NEW term, TermInv(pieces, term), term # << >>,
         NEW type, NEW count, NEW shown \in SUBSET Found(term, type)
  PROVE  PageInv(SearchPage(pieces, term, shown, count))
<1> DEFINE docs == {index[slot] : slot \in shown}
           results == {[type |-> TypeOf(slot), file |-> FileOf(slot), doc |-> index[slot]] :
                         slot \in shown}
           failing == \E doc \in docs : Render(doc).failed
<1>1. \A slot \in shown : index[slot] \in Documents /\ Asked(term, index[slot])
  <2> TAKE slot \in shown
  <2>1. slot \in Found(term, type)
    OBVIOUS
  <2>2. slot \in Slots /\ Asked(term, index[slot])
    BY <2>1 DEF Found, Asked
  <2> QED BY <2>2 DEF IndexInv
<1>2. SearchPage(pieces, term, shown, count) =
        IF failing THEN ServerError("search", docs)
        ELSE [view |-> "search", pieces |-> pieces, term |-> term, results |-> results,
              count |-> count]
  BY Zenon DEF SearchPage
<1>3. CASE failing
  <2>1. PICK doc \in docs : Render(doc).failed
    BY <1>3
  <2>2. doc \in Documents
    BY <1>1, <2>1
  <2>3. Unshowable(doc)
    BY <2>1, <2>2, RenderedItems
  <2> HIDE DEF docs, results, failing
  <2>4. ServerError("search", docs).view = "500" /\ ServerError("search", docs).docs = docs
    BY DEF ServerError
  <2>5. PageInv(ServerError("search", docs))
    BY <2>1, <2>3, <2>4 DEF PageInv
  <2> QED BY <1>2, <1>3, <2>5
<1>4. CASE ~failing
  <2>1. \A result \in results : \E slot \in shown : result.doc = index[slot]
    OBVIOUS
  <2>2. \A slot \in shown : ~Render(index[slot]).failed
    BY <1>4
  <2> DEFINE p == [view |-> "search", pieces |-> pieces, term |-> term, results |-> results,
                   count |-> count]
  <2> HIDE DEF docs, results, failing
  <2>3. ResultsInv(pieces, term, results)
    BY <1>1, <2>1, <2>2 DEF ResultsInv
  <2>4. p.view = "search" /\ p.pieces = pieces /\ p.term = term /\ p.results = results
    OBVIOUS
  <2> HIDE DEF p
  <2>5. PageInv(p)
    BY <2>3, <2>4 DEF PageInv
  <2> QED BY <1>2, <1>4, <2>5 DEF p
<1> QED BY <1>3, <1>4

(* whatever becomes of it,                                                 *)
LEMMA SearchInv ==
  ASSUME WebInv, NEW pieces, NEW term, TermInv(pieces, term), NEW type, NEW max,
         Search(pieces, term, type, max)
  PROVE  WebInv'
<1>1. IndexInv /\ index' = index
  BY DEF WebInv, Search
<1>2. IndexInv'
  BY <1>1 DEF IndexInv
<1>3. PageInv(page')
  <2>1. CASE page' = BlankPage
    BY <2>1, PagesInv
  <2>2. CASE page' = SearchFails(pieces, term, max)
    BY <2>2, PagesInv DEF SearchFails, TermInv
  <2>3. CASE term # << >> /\ \E shown \in SUBSET Found(term, type) :
               page' = SearchPage(pieces, term, shown, Cardinality(Found(term, type)))
    BY <1>1, <2>3, SearchPageInv
  <2>4. \/ page' = BlankPage
        \/ page' = SearchFails(pieces, term, max)
        \/ term # << >> /\ \E shown \in SUBSET Found(term, type) :
             page' = SearchPage(pieces, term, shown, Cardinality(Found(term, type)))
    BY Zenon DEF Search, Searched
  <2> QED BY <2>1, <2>2, <2>3, <2>4
<1>4. PageInv(page)'
  BY <1>3 DEF PageInv
<1> QED BY <1>2, <1>4 DEF WebInv

(* and a detail page.                                                      *)
LEMMA DetailInv ==
  ASSUME WebInv, NEW file \in Files, Detail(file)
  PROVE  PageInv(page')
<1> DEFINE stored == {type \in Types : index[<<type, file>>] # NoDoc}
           docs == {index[<<type, file>>] : type \in stored}
           data == [type \in stored |-> Render(index[<<type, file>>]).ret]
           p == [view |-> "detail", file |-> file, data |-> data]
<1>1. \/ page' = ServerError("detail", docs)
      \/ page' = p
      \/ page' = ServerError("detail", {})
  <2>1. page' \in {IF \E doc \in docs : Render(doc).failed THEN ServerError("detail", docs) ELSE p,
                   ServerError("detail", {})}
    BY Zenon DEF Detail
  <2> HIDE DEF stored, docs, data, p
  <2> QED BY <2>1
<1>2. PageInv(p)
  <2>1. \A type \in stored : index[<<type, file>>] \in Documents
    BY DEF WebInv, IndexInv, Slots
  <2>2. \A type \in stored : Render(index[<<type, file>>]).ret \in Seq(Rows)
    BY <2>1, RenderedItems
  <2>3. \A type \in DOMAIN data : data[type] \in Seq(Rows)
    <3> HIDE DEF stored
    <3> QED BY <2>2
  <2> HIDE DEF data
  <2>4. p.view = "detail" /\ p.data = data
    OBVIOUS
  <2> HIDE DEF p
  <2> QED BY <2>3, <2>4 DEF PageInv
<1> QED BY <1>1, <1>2, PagesInv

(* A row of a facet and the values it is about.                            *)
LEMMA FacetTermIs ==
  ASSUME NEW type, NEW path, NEW row \in FacetTerms(type, path)
  PROVE  /\ row.field = path
         /\ \E f \in Files : \E r \in ToSet(Leaves(index[<<type, f>>])) : row.term = r.text
<1> DEFINE rows == {r \in UNION {Indexed(index[<<type, f>>]) : f \in Files} : r.path = path}
           texts == {r.text : r \in rows}
           having(text) == {f \in Files : Row(path, text) \in Indexed(index[<<type, f>>])}
           e(text) == [field |-> path, term |-> text, count |-> Cardinality(having(text))]
<1>1. FacetTerms(type, path) = {e(text) : text \in texts}
  BY Zenon DEF FacetTerms
<1> HIDE DEF texts
<1>2. PICK text \in texts : row = e(text)
  BY <1>1, Zenon
<1>3. row.field = path /\ row.term = text
  BY <1>2
<1>4. \E f \in Files : \E r \in ToSet(Leaves(index[<<type, f>>])) : text = r.text
  <2>1. PICK r \in rows : text = r.text
    BY DEF texts
  <2> QED BY <2>1 DEF Indexed
<1> QED BY <1>3, <1>4

(* A facet page.                                                           *)
LEMMA FacetInv ==
  ASSUME WebInv, NEW type, Facet(type)
  PROVE  PageInv(page')
<1>1. CASE page' = ErrorPage(<< >>, << >>)
  <2>1. << >> \in Seq(Pieces)
    OBVIOUS
  <2> QED BY <1>1, <2>1, PagesInv
<1>2. CASE page' # ErrorPage(<< >>, << >>)
  <2>1. type \in Types
    BY <1>2 DEF Facet
  <2> DEFINE n == DOMAIN Fields[type]
  <2>2. PICK facets \in [n -> UNION {TopTerms(FacetTerms(type, Fields[type][i])) : i \in n}] :
          /\ \A i \in DOMAIN facets : facets[i] \in TopTerms(FacetTerms(type, Fields[type][i]))
          /\ page' = [view |-> "facet", type |-> type, facets |-> facets]
    BY <1>2, Zenon DEF Facet
  <2>3. page'.view = "facet" /\ page'.facets = facets
    BY <2>2
  <2>4. ASSUME NEW i \in DOMAIN facets, NEW row \in facets[i]
        PROVE  row.field \in Paths /\ row.term \in ScalarTexts
    <3>1. Fields[type] \in Seq(Paths)
      BY <2>1, WebAssumption
    <3>2. i \in DOMAIN Fields[type]
      BY <2>2
    <3>3. Fields[type][i] \in Paths
      BY <3>1, <3>2
    <3>4. facets[i] \in TopTerms(FacetTerms(type, Fields[type][i]))
      BY <2>2
    <3> HIDE DEF n
    <3>5. row \in FacetTerms(type, Fields[type][i])
      BY <3>4 DEF TopTerms
    <3>6. row.field = Fields[type][i]
      BY <3>5, FacetTermIs
    <3>7. PICK f \in Files : \E r \in ToSet(Leaves(index[<<type, f>>])) : row.term = r.text
      BY <3>5, FacetTermIs
    <3>8. index[<<type, f>>] \in Documents
      BY <2>1 DEF WebInv, IndexInv, Slots
    <3> QED BY <3>3, <3>6, <3>7, <3>8, LeavesType
  <2>5. \A i \in DOMAIN facets : \A row \in facets[i] : row.field \in Paths /\ row.term \in ScalarTexts
    BY <2>4
  <2> QED BY <2>3, <2>5 DEF PageInv
<1> QED BY <1>1, <1>2

-----------------------------------------------------------------------------
(***************************************************************************)
(* A value link of a search result keeps the result.                       *)
(***************************************************************************)

(* The items of what a term asks for.                                      *)
Queries == (FieldQueries \cup {MatchAllQuery}) \cup {TextQuery(text) : text \in Texts}

(* Free text asks for one thing at most.                                   *)
LEMMA FreeQueryType ==
  ASSUME NEW text \in Texts
  PROVE  FreeQuery(text) \in Seq(Queries)
<1> DEFINE all == MatchAllQuery
           asked == TextQuery(text)
<1>1. all \in Queries /\ asked \in Queries
  BY DEF Queries
<1>2. FreeQuery(text) = << >> \/ FreeQuery(text) = <<all>> \/ FreeQuery(text) = <<asked>>
  <2>1. CASE text = << >>
    BY <2>1 DEF FreeQuery
  <2>2. CASE text # << >> /\ text = <<Star>>
    BY <2>2 DEF FreeQuery
  <2>3. CASE text # << >> /\ text # <<Star>>
    BY <2>3 DEF FreeQuery
  <2> QED BY <2>1, <2>2, <2>3
<1> HIDE DEF all, asked
<1>3. << >> \in Seq(Queries) /\ <<all>> \in Seq(Queries) /\ <<asked>> \in Seq(Queries)
  BY <1>1
<1> QED BY <1>2, <1>3

(* All of them match.                                                      *)
LEMMA AskedItems ==
  ASSUME NEW term, NEW doc
  PROVE  Asked(term, doc) <=> \A q \in ToSet(GetQuery(term)) : Matches(q, doc)
<1> DEFINE qs == GetQuery(term)
<1>1. Asked(term, doc) <=> \A i \in DOMAIN qs : Matches(qs[i], doc)
  BY Zenon DEF Asked
<1>2. ToSet(qs) = {qs[i] : i \in DOMAIN qs}
  BY Zenon DEF ToSet
<1> HIDE DEF qs
<1>3. (\A q \in ToSet(qs) : Matches(q, doc)) <=> \A i \in DOMAIN qs : Matches(qs[i], doc)
  BY <1>2
<1> QED BY <1>1, <1>3 DEF qs

(* The items a term asks for: those of its pairs and of its words.         *)
LEMMA GetQueryItems ==
  ASSUME NEW pieces \in Seq(Pieces), AllWell(pieces), PairQueries(pieces) \in Seq(FieldQueries)
  PROVE  \A q : q \in ToSet(GetQuery(Compose(pieces))) <=>
                  \/ q \in ToSet(PairQueries(pieces))
                  \/ q \in ToSet(FreeQuery(Joined(Words(pieces))))
<1> DEFINE a == PairQueries(pieces)
           b == FreeQuery(Joined(Words(pieces)))
           c == GetQuery(Compose(pieces))
<1>1. c = a \o b
  BY ReadAsDocumented, Zenon DEF Documented
<1>2. Words(pieces) \in Seq(Texts)
  <2>1. CASE pieces = << >>
    <3>1. << >> \in Seq(Texts)
      OBVIOUS
    <3> QED BY <2>1, <3>1, NoPieces
  <2>2. CASE pieces # << >>
    BY <2>2, WordsTail
  <2> QED BY <2>1, <2>2
<1>3. b \in Seq(Queries)
  BY <1>2, JoinedType, FreeQueryType
<1>4. a \in Seq(Queries)
  <2>1. FieldQueries \subseteq Queries
    BY DEF Queries
  <2>2. a \in Seq(FieldQueries)
    OBVIOUS
  <2> HIDE DEF a
  <2>3. Len(a) \in Nat /\ a \in [1 .. Len(a) -> FieldQueries]
    BY <2>2
  <2>4. a \in [1 .. Len(a) -> Queries]
    BY <2>1, <2>3
  <2> QED BY <2>3, <2>4, MapType
<1>5. Joins(a, b, c)
  BY <1>1 DEF Joins
<1> HIDE DEF a, b, c
<1>6. \A q : q \in ToSet(c) <=> q \in ToSet(a) \/ q \in ToSet(b)
  BY <1>3, <1>4, <1>5, JoinItems
<1> QED BY <1>6 DEF a, b, c

(* A search with a link of a result is still one for that result.          *)
LEMMA LongerAsked ==
  ASSUME NEW pieces \in Seq(Pieces), NEW doc \in Documents, Asked(Compose(pieces), doc),
         NEW row \in Indexed(doc), AllWell(Append(pieces, ValueLink(row)))
  PROVE  Asked(Compose(Append(pieces, ValueLink(row))), doc)
<1> DEFINE link == ValueLink(row)
           longer == Append(pieces, link)
           q == PairQuery(link.name, link.value)
<1>1. /\ link \in Pieces /\ link.kind # "word"
      /\ link.name = FieldName(row.path) /\ link.value = row.text
  BY LeavesType, LinkType DEF ValueLink, Indexed
<1> HIDE DEF link
<1>2. /\ longer \in Seq(Pieces)
      /\ PairQueries(pieces) \in Seq(FieldQueries)
      /\ Joins(PairQueries(pieces), <<q>>, PairQueries(longer))
      /\ Words(longer) = Words(pieces)
  BY <1>1, OnePairMore
<1>3. AllWell(longer)
  BY DEF link
<1>4. AllWell(pieces)
  <2>1. DOMAIN pieces = 1 .. Len(pieces) /\ DOMAIN longer = 1 .. Len(pieces) + 1 /\ Len(pieces) \in Nat
    BY <1>1
  <2>2. \A i \in 1 .. Len(pieces) : i \in 1 .. Len(pieces) + 1 /\ longer[i] = pieces[i]
    BY <1>1, <2>1
  <2> HIDE DEF longer
  <2> QED BY <1>3, <2>1, <2>2 DEF AllWell
<1>5. Matches(q, doc)
  BY <1>1, LinkMatches
<1>6. q \in FieldQueries
  <2>1. link.name \in Texts /\ link.value \in Texts
    BY <1>1, PieceIs
  <2> QED BY <2>1 DEF PairQuery, FieldQueries, WildcardQuery, TermQuery
<1> HIDE DEF q, longer
<1> DEFINE one == <<q>>
<1>7. one \in Seq(FieldQueries) /\ \A x : x \in ToSet(one) <=> x = q
  BY <1>6 DEF ToSet
<1>8. Joins(PairQueries(pieces), one, PairQueries(longer))
  BY <1>2
<1> HIDE DEF one
<1>9. \A x : x \in ToSet(PairQueries(longer)) <=> x \in ToSet(PairQueries(pieces)) \/ x \in ToSet(one)
  BY <1>2, <1>7, <1>8, JoinItems
<1>10. PairQueries(longer) \in Seq(FieldQueries)
  BY <1>2, <1>7, <1>8 DEF Joins
<1>11. ASSUME NEW x \in ToSet(GetQuery(Compose(longer)))
       PROVE  Matches(x, doc)
  <2>1. \/ x \in ToSet(PairQueries(longer))
        \/ x \in ToSet(FreeQuery(Joined(Words(longer))))
    BY <1>2, <1>3, <1>10, GetQueryItems
  <2>2. \/ x = q
        \/ x \in ToSet(PairQueries(pieces))
        \/ x \in ToSet(FreeQuery(Joined(Words(pieces))))
    BY <1>2, <1>7, <1>9, <2>1
  <2>3. x = q \/ x \in ToSet(GetQuery(Compose(pieces)))
    BY <1>2, <1>4, <2>2, GetQueryItems
  <2>4. \A y \in ToSet(GetQuery(Compose(pieces))) : Matches(y, doc)
    BY AskedItems
  <2> QED BY <1>5, <2>3, <2>4
<1>12. Asked(Compose(longer), doc)
  BY <1>11, AskedItems
<1> QED BY <1>12 DEF longer, link

(* What a result shows is in its document.                                 *)
LEMMA ShownItems ==
  ASSUME NEW doc \in Documents, ~Render(doc).failed
  PROVE  \A row \in ToSet(ShownRows(doc)) : row \in ToSet(Leaves(doc))
<1> DEFINE rows == RemoveBreaks(Render(doc).ret)
           m == Min({MaxRows, Len(rows)})
<1>1. rows \in Seq(Rows) /\ \A row \in ToSet(rows) : row \in ToSet(Leaves(doc))
  BY RenderedItems, RemovedItems
<1>2. ShownRows(doc) = SubSeq(rows, 1, m)
  BY Zenon DEF ShownRows
<1> HIDE DEF rows
<1>3. Len(rows) \in Nat /\ MaxRows \in Nat /\ DOMAIN rows = 1 .. Len(rows)
  BY <1>1, WebAssumption
<1>4. m \in {MaxRows, Len(rows)} /\ m <= Len(rows)
  <2> DEFINE T == {MaxRows, Len(rows)}
  <2>1. T \in SUBSET Nat /\ T # {} /\ Len(rows) \in T
    BY <1>3
  <2> HIDE DEF T
  <2>2. Min(T) \in T /\ Min(T) <= Len(rows)
    BY <2>1, MinIs
  <2> QED BY <2>2 DEF T
<1>5. m \in 0 .. Len(rows)
  BY <1>3, <1>4
<1> HIDE DEF m
<1> DEFINE s == SubSeq(rows, 1, m)
<1>6. s \in Seq(Rows) /\ Len(s) = m /\ \A i \in 1 .. m : s[i] = rows[i]
  BY <1>1, <1>5, Prefix
<1> HIDE DEF s
<1>7. \A row \in ToSet(s) : row \in ToSet(rows)
  <2> TAKE row \in ToSet(s)
  <2>1. DOMAIN s = 1 .. m
    BY <1>6
  <2>2. PICK i \in 1 .. m : row = s[i]
    BY <2>1 DEF ToSet
  <2>3. i \in DOMAIN rows /\ row = rows[i]
    BY <1>3, <1>5, <1>6, <2>2
  <2> QED BY <2>3 DEF ToSet
<1> QED BY <1>1, <1>2, <1>7 DEF s

(* Such a search has the result among what it finds.                       *)
LEMMA NarrowKeeps ==
  ASSUME NEW pieces, NEW term, NEW results, ResultsInv(pieces, term, results),
         NEW result \in results, NEW row \in ToSet(ShownRows(result.doc)), row.text # Null,
         AllWell(Append(pieces, ValueLink(row))), AllSafe(Append(pieces, ValueLink(row)))
  PROVE  Asked(Arrived(NarrowedBy(term, row)), result.doc)
<1> DEFINE link == ValueLink(row)
           longer == Append(pieces, link)
<1>1. /\ TermInv(pieces, term) /\ term # << >>
      /\ result.doc \in Documents /\ ~Render(result.doc).failed /\ Asked(term, result.doc)
  BY DEF ResultsInv
<1>2. row \in ToSet(Leaves(result.doc))
  BY <1>1, ShownItems
<1>3. row \in Indexed(result.doc) /\ link \in Pieces
  BY <1>1, <1>2, LeavesType, LinkType DEF Indexed, ValueLink
<1>4. TermInv(longer, Arrived(NarrowedBy(term, row)))
  BY <1>1, <1>3, TermNarrowed
<1>5. Arrived(NarrowedBy(term, row)) = Compose(longer)
  BY <1>4 DEF TermInv
<1>6. pieces \in Seq(Pieces) /\ AllSafe(pieces)
  <2>1. pieces \in Seq(Pieces)
    BY <1>1 DEF TermInv
  <2> HIDE DEF link
  <2>2. /\ DOMAIN longer = 1 .. Len(pieces) + 1 /\ DOMAIN pieces = 1 .. Len(pieces)
        /\ Len(pieces) \in Nat /\ \A i \in 1 .. Len(pieces) : longer[i] = pieces[i]
    BY <1>3, <2>1
  <2>3. AllSafe(longer)
    BY DEF link
  <2> HIDE DEF longer
  <2>4. \A i \in DOMAIN pieces : i \in DOMAIN longer /\ longer[i] = pieces[i]
    BY <2>2
  <2> QED BY <2>1, <2>3, <2>4 DEF AllSafe
<1>7. Asked(Compose(pieces), result.doc)
  BY <1>1, <1>6 DEF TermInv
<1>8. Asked(Compose(longer), result.doc)
  BY <1>1, <1>3, <1>6, <1>7, LongerAsked
<1> QED BY <1>5, <1>8

(* A link alone finds the documents that have its value.                   *)
LEMMA ValueFound ==
  ASSUME IndexInv, NEW slot \in Slots, NEW row \in Indexed(index[slot]),
         WellFormed(ValueLink(row)), UrlSafe(PieceText(ValueLink(row)))
  PROVE  slot \in Found(Arrived(PieceText(ValueLink(row))), TypeOf(slot))
<1> DEFINE link == ValueLink(row)
           none == << >>
           one == Append(none, link)
           doc == index[slot]
<1>1. doc \in Documents
  BY DEF IndexInv
<1>2. link \in Pieces
  BY <1>1, LeavesType, LinkType DEF Indexed, ValueLink
<1>3. none \in Seq(Pieces) /\ one = <<link>> /\ one[1] = link /\ DOMAIN one = {1}
  OBVIOUS
<1>4. Asked(Compose(none), doc)
  <2>1. DOMAIN GetQuery(Compose(none)) = {}
    <3>1. AllWell(none)
      BY DEF AllWell
    <3>2. GetQuery(Compose(none)) = PairQueries(none) \o FreeQuery(Joined(Words(none)))
      BY <1>3, <3>1, ReadAsDocumented, Zenon DEF Documented
    <3>3. FreeQuery(Joined(Words(none))) = << >>
      <4>1. Joined(Words(none)) = << >>
        BY NoPieces, JoinedNone
      <4>2. FreeQuery(<< >>) = << >>
        BY DEF FreeQuery
      <4> QED BY <4>1, <4>2
    <3>4. GetQuery(Compose(none)) = << >> \o << >>
      BY <3>2, <3>3, NoPieces
    <3> QED BY <3>4
  <2> QED BY <2>1 DEF Asked
<1>5. AllWell(one)
  <2> HIDE DEF one
  <2> QED BY <1>3 DEF AllWell
<1>6. Asked(Compose(one), doc)
  BY <1>1, <1>3, <1>4, <1>5, LongerAsked
<1>7. Arrived(PieceText(link)) = Compose(one)
  <2>1. PieceText(link) \in Texts
    BY <1>2, PieceTextType
  <2>2. Arrived(PieceText(link)) = PieceText(link)
    BY <2>1, ArrivesSafe
  <2> HIDE DEF link
  <2> QED BY <1>2, <1>3, <2>2, TermFollowed
<1>8. doc # NoDoc
  <2>1. Leaves(doc) # << >>
    BY DEF Indexed, ToSet
  <2> QED BY <2>1, NoDocIs
<1> HIDE DEF one
<1>9. Asked(Arrived(PieceText(link)), doc)
  BY <1>6, <1>7
<1> QED BY <1>8, <1>9 DEF Found, Asked

(* So no link loses what it was taken from.                                *)
LEMMA LinksKeep == ASSUME WebInv PROVE LinksKeepTheResult
<1>1. ASSUME page.view = "search", NEW result \in page.results,
             NEW row \in ToSet(ShownRows(result.doc)), row.text # Null,
             \A i \in DOMAIN Append(page.pieces, ValueLink(row)) :
               Faithful(Append(page.pieces, ValueLink(row))[i]),
             NEW i \in DOMAIN GetQuery(Arrived(NarrowedBy(page.term, row)))
      PROVE  Matches(GetQuery(Arrived(NarrowedBy(page.term, row)))[i], result.doc)
  <2>1. ResultsInv(page.pieces, page.term, page.results)
    BY <1>1 DEF WebInv, PageInv
  <2> DEFINE longer == Append(page.pieces, ValueLink(row))
  <2>2. \A k \in DOMAIN longer : Faithful(longer[k])
    BY <1>1
  <2> HIDE DEF longer
  <2>3. AllWell(longer) /\ AllSafe(longer)
    BY <2>2 DEF Faithful, AllWell, AllSafe
  <2>4. Asked(Arrived(NarrowedBy(page.term, row)), result.doc)
    BY <1>1, <2>1, <2>3, NarrowKeeps DEF longer
  <2> QED BY <1>1, <2>4, Zenon DEF Asked
<1>2. ASSUME NEW slot \in Slots, NEW row \in Indexed(index[slot]), Faithful(ValueLink(row))
      PROVE  slot \in Found(Arrived(PieceText(ValueLink(row))), TypeOf(slot))
  BY <1>2, ValueFound DEF Faithful, WebInv
<1> QED BY <1>1, <1>2, Zenon DEF LinksKeepTheResult

-----------------------------------------------------------------------------
(***************************************************************************)
(* A pair that is read as it was meant is well-formed.                     *)
(***************************************************************************)

(* What a pair alone should ask for.                                       *)
LEMMA LonePair ==
  ASSUME NEW piece \in Pieces, IsPair(piece)
  PROVE  /\ Compose(<<piece>>) = PieceText(piece)
         /\ Documented(<<piece>>) = <<PairQuery(piece.name, piece.value)>>
<1> DEFINE none == << >>
           one == <<piece>>
           q == PairQuery(piece.name, piece.value)
           qs == <<q>>
<1>1. none \in Seq(Pieces) /\ Append(none, piece) = one /\ piece.kind # "word"
  BY DEF IsPair
<1>2. PairQueries(none) = << >> /\ Words(none) = << >>
  BY NoPieces
<1>3. q \in FieldQueries
  BY <1>1, PieceIs DEF PairQuery, FieldQueries, TermQuery, WildcardQuery
<1> HIDE DEF none, one, q
<1>4. Joins(PairQueries(none), qs, PairQueries(one)) /\ Words(one) = Words(none)
  BY <1>1, OnePairMore DEF q
<1>5. qs \in Seq(FieldQueries)
  BY <1>3
<1> HIDE DEF qs
<1>6. PairQueries(one) = qs
  BY <1>2, <1>4, <1>5 DEF Joins
<1>7. FreeQuery(Joined(Words(one))) = << >>
  <2>1. Joined(Words(one)) = << >>
    BY <1>2, <1>4, JoinedNone
  <2>2. FreeQuery(<< >>) = << >>
    BY DEF FreeQuery
  <2> QED BY <2>1, <2>2
<1>8. Documented(one) = qs \o << >>
  BY <1>6, <1>7 DEF Documented
<1>9. qs \o << >> = qs
  BY <1>5
<1> QED BY <1>8, <1>9, TermFollowed DEF one, qs, q

(* A term that asks for one pair begins with it.                           *)
LEMMA ReadAlone ==
  ASSUME NEW s \in Texts, NEW q \in FieldQueries, GetQuery(s) = <<q>>
  PROVE  Starts(s) # {} /\ QueryOf(s) = q
<1> DEFINE free == Strip(Read[s].free, Blank)
           f == FreeQuery(free)
           qs == Read[s].queries
           one == <<q>>
<1>1. qs \in Seq(FieldQueries) /\ Read[s].free \in Texts
  BY ReadIs DEF Reads
<1>2. f \in Seq(Queries)
  BY <1>1, StripType, FreeQueryType
<1>3. qs \o f = one
  BY Zenon DEF GetQuery
<1>4. Len(one) = 1 /\ one[1] = q
  OBVIOUS
<1>5. Starts(s) # {}
  <2> SUFFICES ASSUME Starts(s) = {}
               PROVE  FALSE
    OBVIOUS
  <2>1. qs = << >>
    BY ReadParts
  <2> HIDE DEF f, qs, one
  <2>2. f = one
    BY <1>2, <1>3, <2>1
  <2>3. f # << >> => \/ f = <<MatchAllQuery>>
                     \/ f = <<TextQuery(free)>>
    <3> HIDE DEF free
    <3>1. CASE free = << >>
      BY <3>1 DEF FreeQuery, f
    <3>2. CASE free # << >> /\ free = <<Star>>
      BY <3>2 DEF FreeQuery, f
    <3>3. CASE free # << >> /\ free # <<Star>>
      BY <3>3 DEF FreeQuery, f
    <3> QED BY <3>1, <3>2, <3>3
  <2>4. f[1] = MatchAllQuery \/ f[1] = TextQuery(free)
    <3>1. f # << >>
      BY <1>4, <2>2
    <3> QED BY <2>3, <3>1
  <2>5. q.kind = "all" \/ q.kind = "text"
    BY <1>4, <2>2, <2>4 DEF MatchAllQuery, TextQuery
  <2> QED BY <2>5 DEF FieldQueries
<1>6. QueryOf(s) = q
  <2> DEFINE first == QueryOf(s)
             two == <<first>>
             rest == Read[RestOf(s)].queries
  <2>1. Joins(two, rest, qs)
    BY <1>5, ReadParts
  <2>2. rest \in Seq(FieldQueries) /\ first \in FieldQueries
    BY <1>5, PartsType, QueryOfType, ReadIs DEF Reads
  <2>3. two \in Seq(FieldQueries) /\ Len(two) = 1 /\ two[1] = first
    BY <2>2
  <2> HIDE DEF two, rest, first, f, qs, one
  <2>4. Len(qs) >= 1 /\ qs[1] = first
    <3>1. Len(rest) \in Nat
      BY <2>2
    <3>2. Len(two \o rest) = Len(two) + Len(rest) /\ (two \o rest)[1] = two[1]
      <4>1. 1 \in 1 .. Len(two) + Len(rest) /\ 1 <= Len(two)
        BY <2>3, <3>1
      <4> QED BY <2>2, <2>3, <4>1, ConcatProperties
    <3> QED BY <2>1, <2>3, <3>1, <3>2 DEF Joins
  <2>5. (qs \o f)[1] = qs[1]
    BY <1>1, <1>2, <2>4
  <2> QED BY <1>3, <1>4, <2>4, <2>5 DEF first
<1> QED BY <1>5, <1>6

(* A part of a text, character by character.                               *)
LEMMA PartFrom ==
  ASSUME NEW s \in Texts, NEW k \in Nat, NEW e \in k + 1 .. Len(s)
  PROVE  LET w == SubSeq(s, k + 1, e)
         IN w \in Texts /\ Len(w) = e - k /\ \A i \in 1 .. Len(w) : w[i] = s[k + i]
BY DEF Texts

(* What Strip leaves is a part that begins and ends with another one.      *)
LEMMA StripEnds ==
  ASSUME NEW w \in Texts, NEW c, NEW u, u = Strip(w, c), u # << >>
  PROVE  \E a \in 1 .. Len(w) : \E b \in a .. Len(w) :
           w[a] # c /\ w[b] # c /\ PartIs(w, a, b, u)
<1> DEFINE kept == {i \in DOMAIN w : w[i] # c}
<1>1. Len(w) \in Nat /\ DOMAIN w = 1 .. Len(w) /\ w \in Seq(Chars)
  BY DEF Texts
<1>2. kept # {} /\ u = SubSeq(w, Min(kept), Max(kept))
  BY Zenon DEF Strip
<1>3. kept \in SUBSET Nat /\ kept \in SUBSET (0 .. Len(w)) /\ kept \in SUBSET (1 .. Len(w))
      /\ \A i \in kept : w[i] # c
  BY <1>1
<1> HIDE DEF kept
<1> DEFINE a == Min(kept)
           b == Max(kept)
<1>4. a \in kept /\ b \in kept /\ a <= b
  BY <1>1, <1>2, <1>3, MinIs, MaxIs
<1> HIDE DEF a, b
<1>5. a \in 1 .. Len(w) /\ b \in a .. Len(w) /\ w[a] # c /\ w[b] # c
  BY <1>1, <1>3, <1>4
<1>6. u = SubSeq(w, a, b)
  BY <1>2 DEF a, b
<1>7. PartIs(w, a, b, u)
  BY <1>1, <1>5, <1>6 DEF PartIs
<1> QED BY <1>5, <1>7

(* The first match of a text that is read as a name and a value: the name  *)
(* from p on, its colon at k, which is the last one, and the value from    *)
(* there to e.                                                             *)
MatchedAs(s, name, value, p, k, e) ==
  /\ p \in 1 .. Len(s) /\ k \in p + 1 .. Len(s) - 1 /\ e \in k + 1 .. Len(s)
  /\ p = First(s) /\ k = ColonOf(s) /\ e = ValueEnd(s, k + 1)
  /\ PartIs(s, p, k - 1, name)
  /\ \A i \in p .. k + 1 : s[i] # Blank
  /\ \A x \in NameColons(s, p) : x <= k
  /\ value = Strip(SubSeq(s, k + 1, e), Quote)

(* Such a match is there.                                                  *)
LEMMA MatchIs ==
  ASSUME NEW s \in Texts, Starts(s) # {}, NEW name \in Texts, NEW value \in Texts,
         QueryOf(s) = PairQuery(name, value)
  PROVE  MatchedAs(s, name, value, First(s), ColonOf(s), EndOf(s))
<1> DEFINE p == First(s)
           k == ColonOf(s)
           e == EndOf(s)
           n == SubSeq(s, p, k - 1)
           w == SubSeq(s, k + 1, e)
           bare == Strip(w, Quote)
<1>1. /\ p \in 1 .. Len(s) /\ k \in p + 1 .. Len(s) - 1 /\ e \in k + 1 .. Len(s)
      /\ Len(s) \in Nat /\ DOMAIN s = 1 .. Len(s) /\ s \in Seq(Chars)
  BY PartsType DEF Texts
<1>2. e = ValueEnd(s, k + 1)
  BY DEF EndOf
<1>3. QueryOf(s) = FieldQuery(n, w)
  BY Zenon DEF QueryOf
<1>4. FieldQuery(n, w).field = n /\ FieldQuery(n, w).value = bare
  <2> HIDE DEF n, w
  <2> QED BY DEF FieldQuery, WildcardQuery, TermQuery
<1>5. PairQuery(name, value).field = name /\ PairQuery(name, value).value = value
  BY DEF PairQuery, WildcardQuery, TermQuery
<1>6. name = n /\ value = bare
  BY <1>3, <1>4, <1>5
<1>7. \A x \in NameColons(s, p) : x <= k
  <2>1. NameColons(s, p) \in SUBSET (0 .. Len(s))
    BY <1>1 DEF NameColons
  <2> QED BY <1>1, <2>1, MaxIs DEF ColonOf
<1>8. \A i \in p .. k + 1 : s[i] # Blank
  <2>1. NameColons(s, p) \in SUBSET (0 .. Len(s)) /\ NameColons(s, p) # {}
    <3>1. p \in Starts(s)
      <4>1. Starts(s) \in SUBSET Nat
        BY <1>1 DEF Starts
      <4> QED BY <4>1, MinIs DEF First
    <3> QED BY <1>1, <3>1 DEF NameColons, Starts
  <2>2. k \in NameColons(s, p)
    BY <1>1, <2>1, MaxIs DEF ColonOf
  <2> QED BY <2>2 DEF NameColons
<1> HIDE DEF p, k, e
<1>9. PartIs(s, p, k - 1, name)
  BY <1>1, <1>6 DEF PartIs
<1> QED BY <1>1, <1>2, <1>6, <1>7, <1>8, <1>9 DEF MatchedAs, p, k, e

(* Its parts follow each other.                                            *)
LEMMA MatchOrder ==
  ASSUME NEW s \in Texts, NEW name, NEW value, NEW p, NEW k, NEW e,
         MatchedAs(s, name, value, p, k, e)
  PROVE  /\ k \in Nat /\ e \in Nat /\ p \in Nat /\ Len(s) \in Nat
         /\ 1 <= p /\ p + 1 <= k /\ k + 1 <= e /\ e <= Len(s)
<1>1. p \in 1 .. Len(s) /\ k \in p + 1 .. Len(s) - 1 /\ e \in k + 1 .. Len(s)
  BY DEF MatchedAs
<1>2. Len(s) \in Nat
  BY DEF Texts
<1> QED BY <1>1, <1>2

(* The name has no blank then.                                             *)
LEMMA NameIs ==
  ASSUME NEW s \in Texts, NEW name \in Texts, NEW value, NEW p, NEW k, NEW e,
         MatchedAs(s, name, value, p, k, e)
  PROVE  /\ NoBlank(name) /\ Len(name) = k - p /\ Len(name) \in Nat /\ Len(s) \in Nat
         /\ \A i \in 1 .. Len(name) : name[i] # Blank
<1>1. /\ p \in 1 .. Len(s) /\ k \in p + 1 .. Len(s) - 1 /\ PartIs(s, p, k - 1, name)
      /\ \A i \in p .. k + 1 : s[i] # Blank
  BY DEF MatchedAs
<1>2. Len(name) = k - p /\ Len(name) \in Nat /\ Len(s) \in Nat /\ Len(name) # 0
  BY <1>1 DEF PartIs, Texts
<1>3. \A i \in 1 .. Len(name) : name[i] # Blank
  <2> TAKE i \in 1 .. Len(name)
  <2>1. p - 1 + i \in p .. k + 1
    BY <1>1, <1>2
  <2> QED BY <1>1, <2>1 DEF PartIs
<1> QED BY <1>2, <1>3, CharsOf

(* A colon behind one of a name that begins the text is no other such.     *)
LEMMA NoLaterColon ==
  ASSUME NEW s \in Texts, NEW n \in Nat, NEW d \in Nat, NEW u \in Texts,
         \A x \in NameColons(s, 1) : x <= n + 1, n # 0, n + 1 <= d,
         \A i \in 1 .. d : s[i] # Blank,
         Len(s) >= d + Len(u), \A j \in 1 .. Len(u) : s[d + j] = u[j]
  PROVE  ~RunsOn(u)
<1> SUFFICES ASSUME NEW c \in 1 .. Len(u) - 1, u[c] = Colon,
                    \A i \in 1 .. c + 1 : u[i] # Blank
             PROVE  FALSE
  BY DEF RunsOn
<1>1. Len(s) \in Nat /\ Len(u) \in Nat /\ c \in 1 .. Len(u)
  BY DEF Texts
<1>2. s[d + c] = Colon /\ d + c \in 1 + 1 .. Len(s) - 1
  BY <1>1
<1>3. \A i \in 1 .. (d + c) + 1 : s[i] # Blank
  <2> TAKE i \in 1 .. (d + c) + 1
  <2>1. CASE i \in 1 .. d
    BY <2>1
  <2>2. CASE i \notin 1 .. d
    <3> DEFINE j == i - d
    <3>1. j \in 1 .. c + 1 /\ j \in 1 .. Len(u) /\ d + j = i
      BY <1>1, <2>2
    <3> HIDE DEF j
    <3> QED BY <3>1
  <2> QED BY <2>1, <2>2
<1>4. d + c \in NameColons(s, 1)
  BY <1>2, <1>3 DEF NameColons
<1>5. d + c <= n + 1
  BY <1>4
<1> QED BY <1>1, <1>5

(* A bare pair that is read as it was meant is well-formed,                *)
LEMMA OnlyBare ==
  ASSUME NEW name \in Texts, NEW value \in Texts, NEW s, BareChars(name, value, s),
         NEW p, NEW k, NEW e, MatchedAs(s, name, value, p, k, e)
  PROVE  /\ NoBlank(name) /\ NoBlank(value)
         /\ Quote \notin {Head(value), Last(value)} /\ ~RunsOn(value)
<1> DEFINE n == Len(name)
           m == Len(value)
           w == SubSeq(s, k + 1, e)
<1>1. /\ s \in Texts /\ Len(s) = n + m + 1 /\ s[n + 1] = Colon /\ m \in Nat
      /\ \A i \in 1 .. n : s[i] = name[i]
      /\ \A j \in 1 .. m : s[n + 1 + j] = value[j]
  BY DEF BareChars, Texts
<1>2. NoBlank(name) /\ n = k - p /\ n \in Nat /\ \A i \in 1 .. n : name[i] # Blank
  BY <1>1, NameIs
<1>3. /\ p \in 1 .. Len(s) /\ k \in p + 1 .. Len(s) - 1 /\ e \in k + 1 .. Len(s)
      /\ e = ValueEnd(s, k + 1) /\ value = Strip(w, Quote)
      /\ \A x \in NameColons(s, p) : x <= k
  BY DEF MatchedAs
<1> HIDE DEF n, m
<1>14. k \in Nat /\ e \in Nat /\ p \in Nat /\ 1 <= p /\ p + 1 <= k /\ k + 1 <= e /\ e <= Len(s)
  BY <1>1, MatchOrder
<1>4. w \in Texts /\ Len(w) = e - k /\ \A i \in 1 .. Len(w) : w[i] = s[k + i]
  <2>1. s \in Texts /\ e \in k + 1 .. Len(s)
    BY <1>1, <1>3
  <2> QED BY <1>14, <2>1, PartFrom
<1> HIDE DEF w
<1>5. value # << >>
  <2> SUFFICES ASSUME value = << >>
               PROVE  FALSE
    OBVIOUS
  <2>1. m = 0
    BY DEF m
  <2> QED BY <1>1, <1>2, <1>3, <2>1
<1>6. PICK a \in 1 .. Len(w) : \E b \in a .. Len(w) :
        w[a] # Quote /\ w[b] # Quote /\ PartIs(w, a, b, value)
  BY <1>3, <1>4, <1>5, StripEnds
<1>7. PICK b \in a .. Len(w) : w[a] # Quote /\ w[b] # Quote /\ PartIs(w, a, b, value)
  BY <1>6
<1>8. m = b + 1 - a /\ \A i \in 1 .. m : w[a - 1 + i] = value[i]
  BY <1>7 DEF PartIs, m
<1>9. p = 1 /\ k = n + 1 /\ e = Len(s) /\ a = 1 /\ b = m /\ m # 0
  <2>1. a \in Nat /\ b \in Nat /\ 1 <= a /\ a <= b /\ b <= e - k
    BY <1>4, <1>14
  <2>2. m = b + 1 - a /\ Len(s) = n + m + 1 /\ n = k - p /\ n \in Nat /\ m \in Nat
    BY <1>1, <1>2, <1>8
  <2> QED BY <1>14, <2>1, <2>2
<1>10. value[1] # Quote /\ value[m] # Quote
  <2>1. 1 \in 1 .. m /\ m \in 1 .. m /\ a - 1 + 1 = a /\ a - 1 + m = b
    BY <1>1, <1>9
  <2> QED BY <1>7, <1>8, <2>1
<1>11. Head(value) = value[1] /\ Last(value) = value[m]
  BY DEF Last, m
<1>12. NoBlank(value)
  <2>1. s[k + 1] = value[1] /\ k + 1 \in 1 .. Len(s)
    <3>1. 1 \in 1 .. m /\ n + 1 + 1 = k + 1
      BY <1>1, <1>2, <1>9
    <3> QED BY <1>1, <1>3, <1>9, <3>1
  <2>2. e = WordEnd(s, k + 1)
    BY <1>3, <1>10, <2>1 DEF ValueEnd
  <2>3. s[k + 1] # Blank
    <3>1. k + 1 \in p .. k + 1
      BY <1>3
    <3> QED BY <3>1 DEF MatchedAs
  <2>4. \A i \in k + 1 .. e : s[i] # Blank
    BY <1>1, <2>1, <2>2, <2>3, WordEndType
  <2>5. \A j \in 1 .. m : value[j] # Blank
    <3> TAKE j \in 1 .. m
    <3>1. n + 1 + j \in k + 1 .. e
      BY <1>1, <1>2, <1>9
    <3> QED BY <1>1, <2>4, <3>1
  <2> QED BY <1>9, <2>5, CharsOf DEF m
<1>13. ~RunsOn(value)
  <2>1. \A i \in 1 .. n + 1 : s[i] # Blank
    <3> TAKE i \in 1 .. n + 1
    <3>1. i \in 1 .. n \/ i = n + 1
      BY <1>2
    <3> QED BY <1>1, <1>2, <3>1, CharsApart
  <2>2. n # 0
    BY <1>3, <1>9
  <2> DEFINE d == n + 1
  <2>3. d \in Nat /\ n \in Nat /\ n + 1 <= d /\ Len(s) >= d + m
    BY <1>1, <1>2
  <2>4. (\A i \in 1 .. d : s[i] # Blank) /\ \A j \in 1 .. m : s[d + j] = value[j]
    BY <1>1, <2>1
  <2>5. \A x \in NameColons(s, 1) : x <= n + 1
    BY <1>3, <1>9
  <2> HIDE DEF d
  <2> QED BY <1>1, <2>2, <2>3, <2>4, <2>5, NoLaterColon DEF m
<1> QED BY <1>2, <1>10, <1>11, <1>12, <1>13

(* and so is a quoted one.                                                 *)
LEMMA OnlyQuoted ==
  ASSUME NEW name \in Texts, NEW value \in Texts, NEW s, QuotedChars(name, value, s),
         NEW p, NEW k, NEW e, MatchedAs(s, name, value, p, k, e)
  PROVE  NoBlank(name) /\ ~Contains(value, Quote) /\ ~RunsOn(Append(value, Quote))
<1> DEFINE n == Len(name)
           m == Len(value)
           v == n + 2
           w == SubSeq(s, k + 1, e)
<1>1. /\ s \in Texts /\ Len(s) = n + m + 3 /\ s[n + 1] = Colon /\ s[v] = Quote
      /\ s[n + m + 3] = Quote /\ m \in Nat
      /\ \A i \in 1 .. n : s[i] = name[i]
      /\ \A j \in 1 .. m : s[v + j] = value[j]
  BY DEF QuotedChars, Texts
<1>2. NoBlank(name) /\ n = k - p /\ n \in Nat /\ \A i \in 1 .. n : name[i] # Blank
  BY <1>1, NameIs
<1>3. /\ p \in 1 .. Len(s) /\ k \in p + 1 .. Len(s) - 1 /\ e \in k + 1 .. Len(s)
      /\ e = ValueEnd(s, k + 1) /\ value = Strip(w, Quote) /\ p = First(s)
      /\ \A x \in NameColons(s, p) : x <= k
  BY DEF MatchedAs
<1> HIDE DEF n, m
<1>4. n # 0 /\ \A i \in 1 .. n + 2 : s[i] # Blank
  <2>1. n # 0
    BY <1>2, <1>3
  <2>2. \A i \in 1 .. n + 2 : s[i] # Blank
    <3> TAKE i \in 1 .. n + 2
    <3>1. i \in 1 .. n \/ i = n + 1 \/ i = n + 2
      BY <1>2
    <3> QED BY <1>1, <1>2, <3>1, CharsApart
  <2> QED BY <2>1, <2>2
<1>5. p = 1
  <2>1. n + 1 \in NameColons(s, 1)
    <3>1. n + 1 \in 1 + 1 .. Len(s) - 1 /\ (n + 1) + 1 = n + 2
      BY <1>1, <1>2, <1>4
    <3> QED BY <1>1, <1>4, <3>1 DEF NameColons
  <2>2. 1 \in Starts(s) /\ Starts(s) \in SUBSET Nat /\ \A x \in Starts(s) : 1 <= x
    <3>1. DOMAIN s = 1 .. Len(s) /\ Len(s) \in Nat /\ 1 \in 1 .. Len(s)
      BY <1>1, <1>2 DEF Texts
    <3> QED BY <2>1, <3>1 DEF Starts
  <2> QED BY <1>3, <2>2, MinOf DEF First
<1>6. k = n + 1
  BY <1>2, <1>3, <1>5
<1>7. ~RunsOn(Append(value, Quote))
  <2> DEFINE more == Append(value, Quote)
  <2>1. Len(more) = m + 1 /\ more[m + 1] = Quote /\ \A j \in 1 .. m : more[j] = value[j]
    BY QuoteMore DEF m
  <2>2. more \in Texts
    BY CharsApart DEF Texts
  <2> HIDE DEF more
  <2>3. \A j \in 1 .. Len(more) : s[v + j] = more[j]
    <3> TAKE j \in 1 .. Len(more)
    <3>2. m \in Nat /\ n \in Nat /\ Len(more) = m + 1
      BY <1>1, <1>2, <2>1
    <3>1. j \in 1 .. m \/ (j = m + 1 /\ v + j = n + m + 3)
      BY <3>2
    <3> QED BY <1>1, <2>1, <3>1
  <2>4. v \in Nat /\ n + 1 <= v /\ Len(s) >= v + Len(more)
    BY <1>1, <1>2, <2>1
  <2>5. \A x \in NameColons(s, 1) : x <= n + 1
    BY <1>3, <1>5, <1>6
  <2>6. ~RunsOn(more)
    BY <1>1, <1>2, <1>4, <2>2, <2>3, <2>4, <2>5, NoLaterColon
  <2> QED BY <2>6 DEF more
<1>8. k + 1 = v /\ v \in Nat
  BY <1>2, <1>6
<1>12. k \in Nat /\ e \in Nat /\ k + 1 <= e /\ e <= Len(s)
  BY <1>1, MatchOrder
<1>9. w \in Texts /\ Len(w) = e - k /\ \A i \in 1 .. Len(w) : w[i] = s[k + i]
  <2>1. s \in Texts /\ e \in k + 1 .. Len(s)
    BY <1>1, <1>3
  <2> QED BY <1>12, <2>1, PartFrom
<1> HIDE DEF w, v
<1>10. ASSUME NEW j \in 1 .. m, value[j] = Quote
       PROVE  FALSE
  <2>1. value # << >>
    BY <1>1, <1>10 DEF m
  <2>2. PICK a \in 1 .. Len(w) : \E b \in a .. Len(w) :
          w[a] # Quote /\ w[b] # Quote /\ PartIs(w, a, b, value)
    BY <1>3, <1>9, <2>1, StripEnds
  <2>3. PICK b \in a .. Len(w) : w[a] # Quote /\ w[b] # Quote /\ PartIs(w, a, b, value)
    BY <2>2
  <2>4. m = b + 1 - a /\ \A i \in 1 .. m : w[a - 1 + i] = value[i]
    BY <2>3 DEF PartIs, m
  <2>5. value[1] # Quote
    <3>1. 1 \in 1 .. m /\ a - 1 + 1 = a
      BY <1>1, <1>10
    <3> QED BY <2>3, <2>4, <3>1
  <2> DEFINE quotes == {i \in v + 2 .. Len(s) : s[i] = Quote}
             closing == {i \in v + 2 .. Len(s) :
                           s[i] = Quote /\ \A i2 \in v + 1 .. i - 1 : s[i2] # Quote}
  <2>6. v + j \in quotes /\ quotes \in SUBSET Nat /\ Len(s) \in Nat
    <3>1. j # 1
      BY <1>10, <2>5
    <3>2. v + j \in v + 2 .. Len(s) /\ Len(s) \in Nat
      <4>1. Len(s) = v + m + 1
        BY <1>1, <1>2 DEF v
      <4> QED BY <1>1, <1>8, <1>10, <3>1, <4>1
    <3> QED BY <1>1, <1>8, <1>10, <3>2
  <2>7. PICK t \in quotes : \A i \in quotes : t <= i
    <3> HIDE DEF quotes
    <3> QED BY <2>6, Least
  <2>8. t \in closing
    <3> SUFFICES ASSUME NEW i \in v + 1 .. t - 1, s[i] = Quote
                 PROVE  FALSE
      BY <2>7
    <3>1. i # v + 1
      <4>1. 1 \in 1 .. m
        BY <1>1, <1>10
      <4> QED BY <1>1, <2>5, <4>1
    <3>2. i \in v + 2 .. Len(s) /\ ~ (t <= i)
      BY <1>8, <2>6, <2>7, <3>1
    <3> QED BY <2>7, <3>2
  <2>9. closing \in SUBSET Nat /\ \A i \in closing : s[i] = Quote /\ i >= v + 2
    BY <1>8, <2>6
  <2>10. e = Min(closing)
    <3>1. e = IF s[v] = Quote /\ closing # {} THEN Min(closing) ELSE WordEnd(s, v)
      BY <1>3, <1>8, Zenon DEF ValueEnd
    <3> HIDE DEF closing
    <3> QED BY <1>1, <2>8, <3>1
  <2> HIDE DEF closing
  <2>11. e \in closing /\ e <= t
    BY <2>8, <2>9, <2>10, MinIs
  <2>12. s[e] = Quote /\ e <= v + j
    <3>1. t <= v + j /\ t \in Nat
      BY <2>6, <2>7
    <3> HIDE DEF quotes
    <3> QED BY <1>3, <1>8, <1>10, <2>9, <2>11, <3>1
  <2>13. a # 1 /\ b # Len(w)
    <3>0. Len(w) = e - k
      BY <1>9
    <3>1. 1 \in 1 .. Len(w) /\ Len(w) \in 1 .. Len(w) /\ k + Len(w) = e
      BY <1>12, <3>0
    <3>2. w[1] = Quote /\ w[Len(w)] = Quote
      BY <1>1, <1>8, <1>9, <2>12, <3>1
    <3> QED BY <2>3, <3>2
  <2>14. a \in Nat /\ b \in Nat /\ 2 <= a /\ b + 1 <= e - k
    BY <1>9, <1>12, <2>13
  <2>15. e <= k + 1 + j /\ j <= m /\ j \in Nat /\ m \in Nat /\ m = b + 1 - a
    BY <1>1, <1>8, <1>10, <2>4, <2>12
  <2> QED BY <1>12, <2>14, <2>15
<1>11. ~Contains(value, Quote)
  BY <1>10, CharsOf DEF m
<1> QED BY <1>2, <1>7, <1>11

(* A pair alone that is read as it was meant is well-formed.               *)
LEMMA OnlyWellFormed ==
  ASSUME NEW piece \in Pieces, IsPair(piece),
         GetQuery(PieceText(piece)) = <<PairQuery(piece.name, piece.value)>>
  PROVE  WellFormed(piece)
<1> DEFINE name == piece.name
           value == piece.value
           s == PieceText(piece)
<1>1. name \in Texts /\ value \in Texts /\ piece.kind \in {"quoted", "bare"} /\ s \in Texts
  BY PieceIs, PieceTextType DEF IsPair
<1>2. PairQuery(name, value) \in FieldQueries
  BY <1>1 DEF PairQuery, FieldQueries, TermQuery, WildcardQuery
<1>3. MatchedAs(s, name, value, First(s), ColonOf(s), EndOf(s))
  BY <1>1, <1>2, ReadAlone, MatchIs
<1>4. CASE piece.kind = "quoted"
  <2>1. IsQuotedText(name, value, s)
    BY <1>4, PieceTextIs DEF IsQuotedText
  <2> HIDE DEF name, value, s
  <2>2. QuotedChars(name, value, s)
    BY <1>1, <2>1, QuotedText
  <2>3. NoBlank(name) /\ ~Contains(value, Quote) /\ ~RunsOn(Append(value, Quote))
    BY <1>1, <1>3, <2>2, OnlyQuoted
  <2> QED BY <1>4, <2>3, Zenon DEF WellFormed, name, value
<1>5. CASE piece.kind = "bare"
  <2>1. IsBareText(name, value, s)
    BY <1>5, PieceTextIs DEF IsBareText
  <2> HIDE DEF name, value, s
  <2>2. BareChars(name, value, s)
    BY <1>1, <2>1, BareText
  <2>3. /\ NoBlank(name) /\ NoBlank(value)
        /\ Quote \notin {Head(value), Last(value)} /\ ~RunsOn(value)
    BY <1>1, <1>3, <2>2, OnlyBare
  <2> QED BY <1>5, <2>3, Zenon DEF WellFormed, name, value
<1> QED BY <1>1, <1>4, <1>5

-----------------------------------------------------------------------------
(***************************************************************************)
(* The steps of the web application.                                       *)
(***************************************************************************)

(* A link that searches for one value.                                     *)
LEMMA FollowInv ==
  ASSUME WebInv, NEW row, row.path \in Paths, row.text \in ScalarTexts, NEW type,
         FollowValue(row, type)
  PROVE  WebInv'
<1> DEFINE link == ValueLink(row)
<1>1. link \in Pieces
  BY LinkType DEF ValueLink
<1>2. Search(<<link>>, Arrived(PieceText(link)), type, DefaultMax)
  BY Zenon DEF FollowValue
<1> HIDE DEF link
<1>3. TermInv(<<link>>, Arrived(PieceText(link)))
  BY <1>1, TermFollowed
<1> QED BY <1>2, <1>3, SearchInv

(* The invariant holds at the start,                                       *)
LEMMA InitWeb == Init => WebInv
<1> SUFFICES ASSUME Init
             PROVE  WebInv
  OBVIOUS
<1>1. IndexInv
  BY NoDocIs DEF Init, IndexInv
<1>2. PageInv(page)
  BY PagesInv DEF Init
<1> QED BY <1>1, <1>2 DEF WebInv

(* and every step keeps it.                                                *)
LEMMA NextWeb == WebInv /\ [Next]_vars => WebInv'
<1> SUFFICES ASSUME WebInv, [Next]_vars
             PROVE  WebInv'
  OBVIOUS
<1>1. IndexInv /\ PageInv(page)
  BY DEF WebInv
<1>2. ASSUME index' = index, PageInv(page')
      PROVE  WebInv'
  BY <1>1, <1>2 DEF WebInv, IndexInv, PageInv
<1>3. CASE TypeTerm
  <2>1. PICK pieces \in Terms, max \in MaxRes \cup {NotANumber} :
          Search(pieces, Compose(pieces), NoType, max)
    BY <1>3 DEF TypeTerm
  <2>2. pieces \in Seq(Pieces)
    BY WebAssumption
  <2>3. TermInv(pieces, Compose(pieces))
    BY <2>2, TermTyped
  <2> QED BY <2>1, <2>3, SearchInv
<1>4. CASE Narrow
  <2>1. PICK result, row :
          /\ result \in page.results /\ row \in ToSet(ShownRows(result.doc))
          /\ Search(Append(page.pieces, ValueLink(row)), Arrived(NarrowedBy(page.term, row)),
                    result.type, LinkMaxOf(NarrowedBy(page.term, row)))
    BY <1>4, Zenon DEF Narrow
  <2>2. /\ TermInv(page.pieces, page.term) /\ page.term # << >>
        /\ result.doc \in Documents /\ ~Render(result.doc).failed
    BY <1>1, <1>4, <2>1 DEF PageInv, ResultsInv, Narrow
  <2>3. row.path \in Paths /\ row.text \in ScalarTexts
    BY <2>1, <2>2, ShownItems, LeavesType
  <2>4. ValueLink(row) \in Pieces
    BY <2>3, LinkType DEF ValueLink
  <2>5. TermInv(Append(page.pieces, ValueLink(row)), Arrived(NarrowedBy(page.term, row)))
    BY <2>2, <2>4, TermNarrowed
  <2> QED BY <2>1, <2>5, SearchInv
<1>5. CASE ListType
  <2> DEFINE star == <<Star>>
             word == Word(star)
  <2>1. PICK type : Search(<<word>>, star, type, DefaultMax)
    BY <1>5, Zenon DEF ListType
  <2>2. star \in Texts
    BY CharsApart DEF Texts
  <2> HIDE DEF star
  <2>3. word \in Pieces /\ PieceText(word) = star
    BY <2>2 DEF Word, Pieces, PieceText
  <2> HIDE DEF word
  <2>4. <<word>> \in Seq(Pieces) /\ Compose(<<word>>) = star
    BY <2>3, TermFollowed
  <2>5. TermInv(<<word>>, star)
    BY <2>4, TermTyped
  <2> QED BY <2>1, <2>5, SearchInv
<1>6. CASE FollowDetailValue
  <2>1. PICK type, row :
          /\ type \in DOMAIN page.data /\ row \in ToSet(RemoveBreaks(page.data[type]))
          /\ FollowValue(row, type)
    BY <1>6, Zenon DEF FollowDetailValue
  <2>2. page.data[type] \in Seq(Rows)
    BY <1>1, <1>6, <2>1 DEF PageInv, FollowDetailValue
  <2>3. row \in ToSet(page.data[type]) /\ row # Break
    BY <2>1, <2>2, RemovedItems
  <2>4. row \in Rows
    BY <2>2, <2>3 DEF ToSet
  <2>5. row.path \in Paths /\ row.text \in ScalarTexts
    BY <2>3, <2>4 DEF Rows
  <2> QED BY <2>1, <2>5, FollowInv
<1>7. CASE FollowFacetTerm
  <2>1. PICK i, row :
          /\ i \in DOMAIN page.facets /\ row \in page.facets[i]
          /\ FollowValue(Row(row.field, row.term), page.type)
    BY <1>7, Zenon DEF FollowFacetTerm
  <2>2. row.field \in Paths /\ row.term \in ScalarTexts
    BY <1>1, <1>7, <2>1 DEF PageInv, FollowFacetTerm
  <2>3. Row(row.field, row.term).path \in Paths /\ Row(row.field, row.term).text \in ScalarTexts
    BY <2>2 DEF Row
  <2> QED BY <2>1, <2>3, FollowInv
<1>8. CASE ShowDetail
  <2>1. PICK file \in Files : Detail(file)
    BY <1>8 DEF ShowDetail
  <2>2. index' = index
    BY <2>1 DEF Detail
  <2>3. PageInv(page')
    BY <2>1, DetailInv
  <2> QED BY <1>2, <2>2, <2>3
<1>9. CASE ShowJson
  <2>1. PICK types : DetailJson(page.file, types)
    BY <1>9, Zenon DEF ShowJson
  <2>2. index' = index
    BY <2>1 DEF DetailJson
  <2>3. PageInv(page')
    <3> DEFINE docs == {<<type, index[<<type, page.file>>]>> :
                          type \in {t \in types : index[<<t, page.file>>] # NoDoc}}
               p == [view |-> "json", file |-> page.file, docs |-> docs]
    <3>1. page' = p \/ page' = ServerError("detail", {})
      BY <2>1, Zenon DEF DetailJson
    <3> HIDE DEF docs
    <3>2. p.view = "json"
      OBVIOUS
    <3> HIDE DEF p
    <3>3. PageInv(p)
      BY <3>2 DEF PageInv
    <3> QED BY <3>1, <3>3, PagesInv
  <2> QED BY <1>2, <2>2, <2>3
<1>10. CASE ShowFacet
  <2>1. PICK type \in Types \cup {UnknownType} : Facet(type)
    BY <1>10 DEF ShowFacet
  <2>2. index' = index
    BY <2>1 DEF Facet
  <2>3. PageInv(page')
    BY <2>1, FacetInv
  <2> QED BY <1>2, <2>2, <2>3
<1>11. CASE Store
  <2>1. PICK slot \in Slots, doc \in Docs : index' = [index EXCEPT ![slot] = doc]
    BY <1>11, Zenon DEF Store
  <2>2. page' = page
    BY <1>11 DEF Store
  <2>3. doc \in Documents
    BY WebAssumption
  <2>4. IndexInv'
    BY <1>1, <2>1, <2>3 DEF IndexInv
  <2> QED BY <1>1, <2>2, <2>4 DEF WebInv, PageInv
<1>12. CASE UNCHANGED vars
  BY <1>1, <1>2, <1>12 DEF vars
<1> QED BY <1>3, <1>4, <1>5, <1>6, <1>7, <1>8, <1>9, <1>10, <1>11, <1>12 DEF Next

-----------------------------------------------------------------------------
(* What the index and the pages hold is what the links are made of.        *)
THEOREM WebInvariant == Spec => []WebInv
<1> QED BY InitWeb, NextWeb, PTL DEF Spec

(* Every document, however deep and however many rows it has, is rendered  *)
(* as its scalars with one break where dictionaries end, or not at all if  *)
(* a dictionary ends before the first scalar, and nothing else makes a     *)
(* search end in a server error.                                           *)
THEOREM RendersAlways == Spec => []DocsRender
<1>1. WebInv => DocsRender
  <2> SUFFICES ASSUME WebInv
               PROVE  DocsRender
    OBVIOUS
  <2>1. SamplesRender
    BY AllRender, WebAssumption DEF SamplesRender
  <2>2. \A slot \in Slots : RendersAs(index[slot])
    BY AllRender DEF WebInv, IndexInv
  <2>3. SearchErrorsCaught
    BY DEF WebInv, PageInv, SearchErrorsCaught
  <2> QED BY <2>1, <2>2, <2>3 DEF DocsRender
<1> QED BY <1>1, WebInvariant, PTL

(* A term of well-formed pieces is read as documented, however many pieces *)
(* it has and in whatever order; and a pair alone that is read so is       *)
(* well-formed.                                                            *)
THEOREM ReadsAlways == Spec => []TermsAsDocumented
<1>1. ASSUME WebInv, page.view \in {"search", "error"}, page.term = Compose(page.pieces)
      PROVE  /\ (\A i \in DOMAIN page.pieces : WellFormed(page.pieces[i]))
                  => GetQuery(page.term) = Documented(page.pieces)
             /\ Len(page.pieces) = 1 /\ IsPair(page.pieces[1])
                  /\ GetQuery(page.term) = Documented(page.pieces)
                  => WellFormed(page.pieces[1])
  <2> DEFINE pieces == page.pieces
  <2>1. pieces \in Seq(Pieces)
    <3>1. PageInv(page)
      BY <1>1 DEF WebInv
    <3> QED BY <1>1, <3>1 DEF PageInv, ResultsInv, TermInv
  <2> HIDE DEF pieces
  <2>2. ASSUME \A i \in DOMAIN pieces : WellFormed(pieces[i])
        PROVE  GetQuery(Compose(pieces)) = Documented(pieces)
    BY <2>1, <2>2, ReadAsDocumented DEF AllWell
  <2>3. ASSUME Len(pieces) = 1, IsPair(pieces[1]),
               GetQuery(Compose(pieces)) = Documented(pieces)
        PROVE  WellFormed(pieces[1])
    <3>1. pieces[1] \in Pieces /\ pieces = <<pieces[1]>>
      BY <2>1, <2>3
    <3>2. GetQuery(PieceText(pieces[1])) = <<PairQuery(pieces[1].name, pieces[1].value)>>
      BY <2>3, <3>1, LonePair
    <3> QED BY <2>3, <3>1, <3>2, OnlyWellFormed
  <2> QED BY <1>1, <2>2, <2>3 DEF pieces
<1>2. WebInv => TermsAsDocumented
  BY <1>1, Zenon DEF TermsAsDocumented
<1> QED BY <1>2, WebInvariant, PTL

(* A link of a search result or to a value keeps the documents it was      *)
(* taken from, if its pieces are well-formed and pass a URL as they are.   *)
THEOREM LinksKeepAlways == Spec => []LinksKeepTheResult
<1> QED BY LinksKeep, WebInvariant, PTL
=============================================================================
