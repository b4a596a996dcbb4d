--------------------- MODULE SequenceFileBuilderProofs ---------------------
(***************************************************************************)
(* Proofs about SequenceFileBuilder: a sequence file holds a beginning of  *)
(* its source, and a source the run is done with is loaded.                *)
(***************************************************************************)
EXTENDS SequenceFileBuilder, SequenceTheorems, TLAPS

Loading == {"open", "read", "append", "finally"}

\* The files of source n among its first p entries.
Upto(n, p) == {k \in Bodies(n) : k <= p}
Increasing(r) == \A i, j \in DOMAIN r : i < j => r[i] < r[j]
Beginning(n, r) ==
  /\ Increasing(r)
  /\ \E p \in 0 .. Len(Entries(n)) : Range(r) = Upto(n, p)

\* While a source is loaded its file is open, and its name off the listing.
Placed ==
  pc \in Loading =>
    /\ current \in DOMAIN input
    /\ current \notin todo
    /\ files[current].state = "open"
    /\ pos \in 0 .. Len(Entries(current))

\* What the open file holds at each place.
CurrentRecords ==
  /\ pc = "open" => Range(Records(current)) = {} /\ pos = 0
  /\ pc = "read" => Range(Records(current)) = Upto(current, pos)
  /\ pc = "append" =>
       pos \in Bodies(current) /\ Range(Records(current)) = Upto(current, pos - 1)
  /\ pc = "finally" => current \in lost \/ Range(Records(current)) = Bodies(current)

IInv == TypeOK /\ Placed /\ CurrentRecords /\ PrefixOnly /\ FinishedAreLoaded

-----------------------------------------------------------------------------
(* Sequences of entry positions *)

(* The entries of a source are a sequence, and its files are among them.   *)
LEMMA SourceType ==
  ASSUME TypeOK, NEW n \in DOMAIN input
  PROVE  /\ Entries(n) \in Seq(BOOLEAN)
         /\ Bodies(n) \subseteq 1 .. Len(Entries(n))
         /\ files[n] \in SequenceFiles
         /\ Records(n) \in Seq(Nat)
<1>1. Entries(n) \in Seq(BOOLEAN)
  BY BuilderAssumption DEF TypeOK, Entries
<1>2. Bodies(n) \subseteq 1 .. Len(Entries(n))
  BY <1>1 DEF Bodies
<1>3. files[n] \in SequenceFiles /\ Records(n) \in Seq(Nat)
  BY DEF TypeOK, SequenceFiles, Records
<1> QED  BY <1>1, <1>2, <1>3

(* PrefixOnly, said with Beginning.                                        *)
LEMMA PrefixIsBeginning ==
  PrefixOnly <=> \A n \in DOMAIN input : Beginning(n, Records(n))
BY DEF PrefixOnly, Beginning, Increasing, Upto

(* A new file holds the empty beginning.                                   *)
LEMMA EmptyBeginning ==
  ASSUME TypeOK, NEW n \in DOMAIN input
  PROVE  Beginning(n, << >>) /\ Range(<< >>) = {}
<1>1. Range(<< >>) = {}
  BY DEF Range
<1>2. Upto(n, 0) = {}
  BY SourceType DEF Upto
<1>3. 0 \in 0 .. Len(Entries(n))
  BY SourceType
<1>4. Increasing(<< >>)
  BY DEF Increasing
<1>5. Range(<< >>) = Upto(n, 0)
  BY <1>1, <1>2
<1> QED  BY <1>1, <1>3, <1>4, <1>5 DEF Beginning

(* An unclosed file keeps a beginning of a beginning.                      *)
LEMMA CutBeginning ==
  ASSUME TypeOK, NEW n \in DOMAIN input, NEW r \in Seq(Nat), Beginning(n, r),
         NEW k \in 0 .. Len(r)
  PROVE  SubSeq(r, 1, k) \in Seq(Nat) /\ Beginning(n, SubSeq(r, 1, k))
<1> DEFINE s == SubSeq(r, 1, k)
<1>1. s \in Seq(Nat) /\ Len(s) = k /\ \A i \in 1 .. k : s[i] = r[i]
  OBVIOUS
<1>2. Increasing(s)
  <2>1. DOMAIN s = 1 .. k /\ \A i \in 1 .. k : i \in DOMAIN r /\ s[i] = r[i]
    BY <1>1
  <2> HIDE DEF s
  <2> QED BY <2>1 DEF Beginning, Increasing
<1>3. CASE k = 0
  <2>1. Range(s) = {}
    BY <1>1, <1>3 DEF Range
  <2>2. Upto(n, 0) = {} /\ 0 \in 0 .. Len(Entries(n))
    BY SourceType DEF Upto
  <2> QED  BY <1>1, <1>2, <2>1, <2>2 DEF Beginning
<1>4. CASE k > 0
  <2>1. PICK p \in 0 .. Len(Entries(n)) : Range(r) = Upto(n, p)
    BY DEF Beginning
  <2>2. r[k] \in Upto(n, p)
    BY <1>4, <2>1 DEF Range
  <2>3. r[k] \in 0 .. Len(Entries(n)) /\ r[k] <= p
    BY <2>2, SourceType DEF Upto
  <2>4. Range(s) \subseteq Upto(n, r[k])
    <3> SUFFICES ASSUME NEW i \in 1 .. k PROVE r[i] \in Upto(n, r[k])
      BY <1>1 DEF Range
    <3>1. r[i] \in Upto(n, p)
      BY <2>1 DEF Range
    <3>2. r[i] <= r[k]
      BY DEF Beginning, Increasing
    <3> QED  BY <3>1, <3>2 DEF Upto
  <2>5. Upto(n, r[k]) \subseteq Range(s)
    <3> SUFFICES ASSUME NEW b \in Upto(n, r[k]) PROVE b \in Range(s)
      OBVIOUS
    <3>1. b \in Upto(n, p) /\ b \in Nat /\ b <= r[k]
      BY <2>3, SourceType DEF Upto
    <3>2. PICK i \in 1 .. Len(r) : r[i] = b
      BY <2>1, <3>1 DEF Range
    <3>3. k \in DOMAIN r /\ i \in DOMAIN r /\ r[k] \in Nat
      BY <1>4
    <3>4. k < i => r[k] < r[i]
      BY <3>3 DEF Beginning, Increasing
    <3>5. i \in 1 .. k
      BY <1>4, <3>1, <3>2, <3>3, <3>4
    <3>6. s[i] = b /\ i \in DOMAIN s
      BY <1>1, <3>2, <3>5
    <3> QED  BY <3>6 DEF Range
  <2>6. Range(s) = Upto(n, r[k]) /\ r[k] \in 0 .. Len(Entries(n))
    BY <2>3, <2>4, <2>5
  <2> HIDE DEF s
  <2>7. Beginning(n, s)
    BY <1>2, <2>6 DEF Beginning
  <2> QED  BY <1>1, <2>7 DEF s
<1>5. k = 0 \/ k > 0
  OBVIOUS
<1> QED  BY <1>3, <1>4, <1>5

(* Appending the next file continues a beginning.                          *)
LEMMA NextBeginning ==
  ASSUME TypeOK, NEW n \in DOMAIN input, NEW r \in Seq(Nat), Increasing(r),
         NEW p \in Bodies(n), Range(r) = Upto(n, p - 1)
  PROVE  /\ Append(r, p) \in Seq(Nat)
         /\ Beginning(n, Append(r, p))
         /\ Range(Append(r, p)) = Upto(n, p)
<1> DEFINE s == Append(r, p)
<1>1. p \in 1 .. Len(Entries(n)) /\ p \in Nat /\ Len(Entries(n)) \in Nat
  BY SourceType
<1>2. /\ s \in Seq(Nat)
      /\ Len(s) = Len(r) + 1
      /\ \A i \in 1 .. Len(r) : s[i] = r[i]
      /\ s[Len(r) + 1] = p
  BY <1>1
<1>3. \A i \in 1 .. Len(r) : r[i] \in Nat /\ r[i] < p
  <2> SUFFICES ASSUME NEW i \in 1 .. Len(r) PROVE r[i] \in Nat /\ r[i] < p
    OBVIOUS
  <2>1. r[i] \in Upto(n, p - 1)
    BY DEF Range
  <2> QED  BY <2>1, <1>1 DEF Upto
<1>4. Increasing(s)
  BY <1>1, <1>2, <1>3 DEF Increasing
<1>5. Range(s) = Range(r) \cup {p}
  <2>1. DOMAIN s = 1 .. Len(r) + 1 /\ DOMAIN r = 1 .. Len(r) /\ Len(r) \in Nat
    BY <1>2
  <2> QED  BY <2>1, <1>2 DEF Range
<1>6. Upto(n, p) = Upto(n, p - 1) \cup {p}
  BY <1>1, SourceType DEF Upto
<1> QED  BY <1>1, <1>2, <1>4, <1>5, <1>6 DEF Beginning

-----------------------------------------------------------------------------
(* The steps *)

(* A step that leaves the files and the input alone.                       *)
LEMMA SameFiles ==
  ASSUME PrefixOnly, UNCHANGED <<input, files>>
  PROVE  PrefixOnly'
BY DEF PrefixOnly, Records, Entries, Bodies

(* A step that rewrites the current file with a beginning of its source.   *)
LEMMA CurrentFile ==
  ASSUME TypeOK, PrefixOnly, input' = input, NEW n \in DOMAIN input,
         NEW f \in SequenceFiles, Beginning(n, f.records),
         files' = [files EXCEPT ![n] = f]
  PROVE  /\ PrefixOnly'
         /\ files' \in [DOMAIN input' -> SequenceFiles]
         /\ files'[n] = f
         /\ \A m \in DOMAIN input : m # n => files'[m] = files[m]
<1>1. files \in [DOMAIN input -> SequenceFiles]
  BY DEF TypeOK
<1>2. /\ files' \in [DOMAIN input' -> SequenceFiles]
      /\ files'[n] = f
      /\ \A m \in DOMAIN input : m # n => files'[m] = files[m]
  BY <1>1
<1>3. ASSUME NEW m \in DOMAIN input
      PROVE  Beginning(m, files'[m].records)
  BY <1>2, PrefixIsBeginning DEF Records
<1>4. PrefixOnly'
  BY <1>3 DEF PrefixOnly, Beginning, Increasing, Upto, Records, Entries, Bodies
<1> QED  BY <1>2, <1>4

(* Abandon touches the current file at most, and only if it is open.       *)
LEMMA Abandoned ==
  ASSUME TypeOK, PrefixOnly, input' = input, Abandon
  PROVE  /\ PrefixOnly'
         /\ files' \in [DOMAIN input' -> SequenceFiles]
         /\ \A m \in DOMAIN input :
              m # current \/ files[m].state # "open" => files'[m] = files[m]
<1>1. CASE current # None /\ files[current].state = "open"
  <2>1. current \in DOMAIN input
    BY <1>1 DEF TypeOK
  <2>2. PICK k \in 0 .. Len(Records(current)) :
          files' = [files EXCEPT ![current] =
                      [records |-> SubSeq(Records(current), 1, k), state |-> "torn"]]
    BY <1>1, <2>1 DEF Abandon, Records, TypeOK
  <2> DEFINE f == [records |-> SubSeq(Records(current), 1, k), state |-> "torn"]
  <2>3. Beginning(current, Records(current)) /\ Records(current) \in Seq(Nat)
    BY <2>1, PrefixIsBeginning, SourceType
  <2>4. f.records \in Seq(Nat) /\ Beginning(current, f.records)
    BY <2>1, <2>3, CutBeginning
  <2>5. f \in SequenceFiles
    BY <2>4 DEF SequenceFiles
  <2>6. files' = [files EXCEPT ![current] = f]
    BY <2>2
  <2> HIDE DEF f
  <2> QED  BY <1>1, <2>1, <2>4, <2>5, <2>6, CurrentFile
<1>2. CASE ~(current # None /\ files[current].state = "open")
  <2>1. files' = files
    BY <1>2 DEF Abandon
  <2> QED  BY <2>1, SameFiles DEF TypeOK
<1> QED  BY <1>1, <1>2

(* The bound on runs is a number.                                          *)
LEMMA BoundType == MaxRuns \in Nat
BY BuilderAssumption

(* The initial states.                                                     *)
LEMMA InitInv == Init => IInv
<1> SUFFICES ASSUME Init PROVE IInv
  OBVIOUS
<1>1. DOMAIN input \subseteq Names /\ input \in [DOMAIN input -> Sources]
  BY DEF Init
<1>2. files \in [DOMAIN input -> SequenceFiles]
  BY DEF Init, SequenceFiles
<1>3. TypeOK
  <2>1. /\ tool \in {"archive", "dir"} /\ runs = 0 /\ pc = "fresh" /\ todo = {}
        /\ current = None /\ pos = 0 /\ pending = FALSE /\ lost = {}
    BY DEF Init
  <2>2. pending \in BOOLEAN
    BY <2>1, Zenon
  <2>3. runs \in 0 .. MaxRuns
    BY <2>1, BoundType
  <2> QED  BY <1>1, <1>2, <2>1, <2>2, <2>3 DEF TypeOK, Ended
<1>4. \A n \in DOMAIN input : Beginning(n, Records(n))
  BY <1>3, EmptyBeginning DEF Init, Records
<1> QED  BY <1>3, <1>4, PrefixIsBeginning
         DEF IInv, Init, Placed, Loading, CurrentRecords, FinishedAreLoaded

(* Actions that leave the files and the input alone.                       *)
LEMMA QuietSteps ==
  ASSUME IInv,
         \/ Return \/ Run \/ NextEntry \/ UNCHANGED vars
         \/ \E n \in DOMAIN input : Skip(n)
  PROVE  IInv'
<1> USE DEF IInv, Ended, Running, Loading
<1>1. input' = input /\ files' = files /\ PrefixOnly'
  <2>1. input' = input /\ files' = files
    BY DEF Return, Run, NextEntry, Skip, vars
  <2> QED  BY <2>1, SameFiles
<1>2. \A n : Loaded(n)' = Loaded(n)
  BY <1>1 DEF Loaded, Records, Bodies, Entries
<1>3. CASE Return
  <2>1. TypeOK' /\ Placed'
    BY <1>1, <1>3 DEF Return, TypeOK, Placed
  <2>2. CurrentRecords'
    BY <1>3 DEF Return, CurrentRecords
  <2>3. FinishedAreLoaded'
    BY <1>1, <1>2, <1>3 DEF Return, FinishedAreLoaded
  <2> QED  BY <1>1, <2>1, <2>2, <2>3
<1>4. CASE Run
  <2>0. /\ pending' \in BOOLEAN
        /\ runs' \in 0 .. MaxRuns
        /\ pc' \in {"list", "thrown"}
    <3>1. pending' \in BOOLEAN
      BY <1>4, Zenon DEF Run
    <3>2. runs' \in 0 .. MaxRuns
      BY <1>4, BoundType DEF Run, TypeOK
    <3> QED  BY <1>4, <3>1, <3>2 DEF Run
  <2>1. TypeOK' /\ Placed'
    BY <1>1, <1>4, <2>0 DEF Run, TypeOK, Placed
  <2>2. CurrentRecords'
    BY <1>4 DEF Run, CurrentRecords
  <2>3. FinishedAreLoaded'
    BY <1>1, <1>4 DEF Run, FinishedAreLoaded
  <2> QED  BY <1>1, <2>1, <2>2, <2>3
<1>5. CASE \E n \in DOMAIN input : Skip(n)
  <2> PICK n \in DOMAIN input : Skip(n)
    BY <1>5
  <2>1. TypeOK' /\ Placed'
    BY <1>1 DEF Skip, TypeOK, Placed
  <2>2. CurrentRecords'
    BY DEF Skip, CurrentRecords
  <2>3. FinishedAreLoaded'
    BY <1>1, <1>2 DEF Skip, FinishedAreLoaded
  <2> QED  BY <1>1, <2>1, <2>2, <2>3
<1>6. CASE NextEntry
  <2>1. /\ current \in DOMAIN input
        /\ Entries(current) \in Seq(BOOLEAN)
        /\ Bodies(current) \subseteq 1 .. Len(Entries(current))
        /\ pos \in Nat
    BY <1>6, SourceType DEF NextEntry, Placed, TypeOK
  <2>2. /\ current' = current /\ pos' = pos + 1 /\ pos' \in 1 .. Len(Entries(current))
        /\ todo' = todo /\ lost' = lost /\ pc = "read"
        /\ pc' = IF Entries(current)[pos + 1] THEN "append" ELSE "read"
    BY <1>6, <2>1 DEF NextEntry
  <2>3. TypeOK'
    BY <1>1, <1>6, <2>1, <2>2 DEF NextEntry, TypeOK
  <2>4. Placed'
    BY <1>1, <2>1, <2>2 DEF Placed, Entries
  <2>5. CurrentRecords'
    <3>1. Range(Records(current)) = Upto(current, pos)
      BY <2>2 DEF CurrentRecords
    <3>2. CASE Entries(current)[pos + 1]
      <4>1. pos + 1 \in Bodies(current) /\ (pos + 1) - 1 = pos
        BY <2>1, <2>2, <3>2 DEF Bodies
      <4> QED  BY <1>1, <2>2, <3>1, <3>2, <4>1
               DEF CurrentRecords, Records, Bodies, Entries, Upto
    <3>3. CASE ~Entries(current)[pos + 1]
      <4>1. Upto(current, pos + 1) = Upto(current, pos)
        BY <2>1, <2>2, <3>3 DEF Upto, Bodies
      <4> QED  BY <1>1, <2>2, <3>1, <3>3, <4>1
               DEF CurrentRecords, Records, Bodies, Entries, Upto
    <3> QED  BY <3>2, <3>3
  <2>6. FinishedAreLoaded'
    BY <1>1, <1>2, <2>2 DEF FinishedAreLoaded
  <2> QED  BY <1>1, <2>3, <2>4, <2>5, <2>6
<1>7. CASE UNCHANGED vars
  BY <1>1, <1>2, <1>7
     DEF vars, TypeOK, Placed, CurrentRecords, FinishedAreLoaded, Upto, Bodies,
         Entries, Records
<1> QED  BY <1>3, <1>4, <1>5, <1>6, <1>7

(* A run that ends by an exception or a kill.                              *)
LEMMA EndingSteps ==
  ASSUME IInv, Abandon, pc \in Running, pc' \in {"thrown", "killed"},
         UNCHANGED <<tool, input, runs, todo, current, pos>>,
         pending' \in BOOLEAN, lost' = lost
  PROVE  IInv'
<1> USE DEF IInv, Ended, Running, Loading
<1>1. /\ PrefixOnly'
      /\ files' \in [DOMAIN input' -> SequenceFiles]
      /\ \A m \in DOMAIN input :
           m # current \/ files[m].state # "open" => files'[m] = files[m]
  BY Abandoned
<1>2. TypeOK'
  BY <1>1 DEF TypeOK
<1>3. Placed' /\ CurrentRecords'
  BY DEF Placed, CurrentRecords
<1>4. FinishedAreLoaded'
  <2> SUFFICES ASSUME NEW n \in DOMAIN input, input[n].format # "none", n \notin todo,
                      n # current, n \notin lost
               PROVE  Loaded(n)'
    BY DEF FinishedAreLoaded
  <2>1. Loaded(n)
    BY DEF FinishedAreLoaded
  <2> QED  BY <1>1, <2>1 DEF Loaded, Records, Bodies, Entries
<1> QED  BY <1>1, <1>2, <1>3, <1>4

(* Kill, and every place where an exception leaves the writer unclosed.    *)
LEMMA KillStep ==
  ASSUME IInv, Kill
  PROVE  IInv'
BY EndingSteps DEF Kill, IInv, TypeOK

(* A source that is not the current one keeps its file.                    *)
LEMMA OthersLoaded ==
  ASSUME NEW n \in DOMAIN input, input' = input, files'[n] = files[n], Loaded(n)
  PROVE  Loaded(n)'
BY DEF Loaded, Records, Bodies, Entries

LEMMA CreateWriterStep ==
  ASSUME IInv, NEW n \in DOMAIN input, CreateWriter(n)
  PROVE  IInv'
<1> USE DEF IInv, Ended, Running, Loading
<1>1. /\ pc = "list" /\ n \in todo /\ todo' = todo \ {n} /\ current' = n /\ pos' = 0
      /\ UNCHANGED <<tool, input, runs, pending, lost>>
      /\ pc' \in {"open", "thrown"}
      /\ pc' = "open" => files' = [files EXCEPT ![n] = [records |-> << >>, state |-> "open"]]
      /\ \/ files' = files
         \/ \E st \in {"open", "torn"} :
              files' = [files EXCEPT ![n] = [records |-> << >>, state |-> st]]
  BY DEF CreateWriter
<1>2. Beginning(n, << >>) /\ Range(<< >>) = {} /\ 0 \in 0 .. Len(Entries(n))
  BY EmptyBeginning, SourceType
<1>3. /\ PrefixOnly'
      /\ files' \in [DOMAIN input' -> SequenceFiles]
      /\ \A m \in DOMAIN input : m # n => files'[m] = files[m]
  <2>1. CASE files' = files
    BY <1>1, <2>1, SameFiles DEF TypeOK
  <2>2. ASSUME NEW st \in {"open", "torn"},
               files' = [files EXCEPT ![n] = [records |-> << >>, state |-> st]]
        PROVE  /\ PrefixOnly'
               /\ files' \in [DOMAIN input' -> SequenceFiles]
               /\ \A m \in DOMAIN input : m # n => files'[m] = files[m]
    <3> DEFINE f == [records |-> << >>, state |-> st]
    <3>1. f \in SequenceFiles /\ Beginning(n, f.records) /\ files' = [files EXCEPT ![n] = f]
      BY <1>2, <2>2 DEF SequenceFiles
    <3> HIDE DEF f
    <3> QED  BY <1>1, <3>1, CurrentFile
  <2> QED  BY <1>1, <2>1, <2>2
<1>4. TypeOK'
  BY <1>1, <1>3 DEF TypeOK
<1>5. pc' = "open" => files'[n] = [records |-> << >>, state |-> "open"]
  BY <1>1 DEF TypeOK
<1>6. Placed'
  BY <1>1, <1>2, <1>5 DEF Placed, Entries
<1>7. CurrentRecords'
  BY <1>1, <1>2, <1>5 DEF CurrentRecords, Records
<1>8. FinishedAreLoaded'
  <2> SUFFICES ASSUME NEW m \in DOMAIN input, input[m].format # "none", m \notin todo',
                      m # n, m \notin lost
               PROVE  Loaded(m)'
    BY <1>1 DEF FinishedAreLoaded
  <2>1. Loaded(m)
    BY <1>1 DEF FinishedAreLoaded
  <2> QED  BY <1>1, <1>3, <2>1, OthersLoaded
<1> QED  BY <1>3, <1>4, <1>6, <1>7, <1>8

LEMMA OpenStreamStep ==
  ASSUME IInv, OpenStream
  PROVE  IInv'
<1> USE DEF IInv, Ended, Running, Loading
<1>1. CASE Throw
  BY <1>1, EndingSteps DEF OpenStream, Throw, TypeOK
<1>2. CASE pc' = "read" /\ files' = files
  <2>1. /\ pc = "open" /\ current \in DOMAIN input
        /\ UNCHANGED <<tool, input, runs, todo, current, pos, pending, lost, files>>
    BY <1>2 DEF OpenStream, Placed
  <2>2. TypeOK' /\ Placed' /\ PrefixOnly'
    BY <1>2, <2>1, SameFiles DEF TypeOK, Placed, Entries
  <2>3. Upto(current, 0) = {}
    BY <2>1, SourceType DEF Upto
  <2>4. CurrentRecords'
    BY <1>2, <2>1, <2>3 DEF CurrentRecords, Records, Upto, Bodies, Entries
  <2>5. FinishedAreLoaded'
    BY <1>2, <2>1 DEF FinishedAreLoaded, Loaded, Records, Bodies, Entries
  <2> QED  BY <2>2, <2>4, <2>5
<1> QED  BY <1>1, <1>2 DEF OpenStream

LEMMA EndOfEntriesStep ==
  ASSUME IInv, EndOfEntries
  PROVE  IInv'
<1> USE DEF IInv, Ended, Running, Loading
<1>1. CASE Throw /\ UNCHANGED pending
  BY <1>1, EndingSteps DEF EndOfEntries, Throw, TypeOK
<1>2. CASE pending' = (input[current].cut = "header") /\ pc' = "finally" /\ files' = files
  <2>1. /\ pc = "read" /\ current \in DOMAIN input /\ pos = Len(Entries(current))
        /\ UNCHANGED <<tool, input, runs, todo, current, pos, lost, files>>
    BY <1>2 DEF EndOfEntries, Placed
  <2>2. pending' \in BOOLEAN
    BY <1>2, Zenon
  <2>3. TypeOK' /\ Placed' /\ PrefixOnly'
    BY <1>2, <2>1, <2>2, SameFiles DEF TypeOK, Placed, Entries
  <2>4. Upto(current, pos) = Bodies(current)
    BY <2>1, SourceType DEF Upto
  <2>5. CurrentRecords'
    BY <1>2, <2>1, <2>4 DEF CurrentRecords, Records, Bodies, Entries
  <2>6. FinishedAreLoaded'
    BY <1>2, <2>1 DEF FinishedAreLoaded, Loaded, Records, Bodies, Entries
  <2> QED  BY <2>3, <2>5, <2>6
<1> QED  BY <1>1, <1>2 DEF EndOfEntries

LEMMA AppendRecordStep ==
  ASSUME IInv, AppendRecord
  PROVE  IInv'
<1> USE DEF IInv, Ended, Running, Loading
<1>1. /\ pc = "append" /\ current \in DOMAIN input /\ pos \in Bodies(current)
      /\ files[current].state = "open"
      /\ Range(Records(current)) = Upto(current, pos - 1)
      /\ UNCHANGED <<tool, input, runs, todo, current, pos, pending>>
  BY DEF AppendRecord, Placed, CurrentRecords
<1>2. CASE Throw /\ UNCHANGED lost
  BY <1>1, <1>2, EndingSteps DEF Throw, TypeOK
<1>3. CASE pc' = "finally" /\ lost' = lost \cup {current} /\ files' = files
  <2>1. TypeOK' /\ Placed' /\ PrefixOnly'
    BY <1>1, <1>3, SameFiles DEF TypeOK, Placed, Entries
  <2>2. CurrentRecords'
    BY <1>1, <1>3 DEF CurrentRecords
  <2>3. FinishedAreLoaded'
    BY <1>1, <1>3 DEF FinishedAreLoaded, Loaded, Records, Bodies, Entries
  <2> QED  BY <2>1, <2>2, <2>3
<1>4. CASE /\ pc' = "read" /\ lost' = lost
           /\ files' = [files EXCEPT ![current].records = Append(@, pos)]
  <2> DEFINE r == Append(Records(current), pos)
             f == [records |-> r, state |-> "open"]
  <2>1. /\ files[current] \in SequenceFiles
        /\ Records(current) \in Seq(Nat)
        /\ Increasing(Records(current))
    BY <1>1, SourceType, PrefixIsBeginning DEF Beginning
  <2>2. r \in Seq(Nat) /\ Beginning(current, r) /\ Range(r) = Upto(current, pos)
    BY <1>1, <2>1, NextBeginning
  <2>3. f \in SequenceFiles /\ f.records = r
    BY <2>2 DEF SequenceFiles
  <2>4. files' = [files EXCEPT ![current] = f]
    <3>1. \A q : [files[current] EXCEPT !.records = q] = [records |-> q, state |-> "open"]
      BY <1>1, <2>1 DEF SequenceFiles
    <3>2. files' = [files EXCEPT ![current] = [files[current] EXCEPT !.records = r]]
      BY <1>4 DEF Records
    <3> QED  BY <3>1, <3>2
  <2>5. f.state = "open"
    OBVIOUS
  <2> HIDE DEF f, r
  <2>6. /\ PrefixOnly'
        /\ files' \in [DOMAIN input' -> SequenceFiles]
        /\ files'[current] = f
        /\ \A m \in DOMAIN input : m # current => files'[m] = files[m]
    BY <1>1, <2>2, <2>3, <2>4, CurrentFile
  <2>7. TypeOK' /\ Placed'
    BY <1>1, <1>4, <2>5, <2>6 DEF TypeOK, Placed, Entries
  <2>8. CurrentRecords'
    BY <1>1, <1>4, <2>2, <2>3, <2>6 DEF CurrentRecords, Records, Upto, Bodies, Entries
  <2>9. FinishedAreLoaded'
    <3> SUFFICES ASSUME NEW m \in DOMAIN input, input[m].format # "none",
                        m \notin todo, m # current, m \notin lost
                 PROVE  Loaded(m)'
      BY <1>1, <1>4 DEF FinishedAreLoaded
    <3>1. Loaded(m)
      BY <1>1 DEF FinishedAreLoaded
    <3> QED  BY <1>1, <2>6, <3>1, OthersLoaded
  <2> QED  BY <2>6, <2>7, <2>8, <2>9
<1> QED  BY <1>2, <1>3, <1>4 DEF AppendRecord

LEMMA CloseStep ==
  ASSUME IInv, Close
  PROVE  IInv'
<1> USE DEF IInv, Ended, Running, Loading
<1>1. /\ pc = "finally" /\ current \in DOMAIN input
      /\ current \in lost \/ Range(Records(current)) = Bodies(current)
      /\ UNCHANGED <<tool, input, runs, todo, current, pos, pending, lost>>
  BY DEF Close, Placed, CurrentRecords
<1>2. CASE Throw
  BY <1>1, <1>2, EndingSteps DEF Throw, TypeOK
<1>3. CASE /\ files' = [files EXCEPT ![current].state = "closed"]
           /\ pc' \in {"thrown", "list"}
  <2> DEFINE f == [records |-> Records(current), state |-> "closed"]
  <2>1. /\ files[current] \in SequenceFiles
        /\ Records(current) \in Seq(Nat)
        /\ Beginning(current, Records(current))
    BY <1>1, SourceType, PrefixIsBeginning
  <2>2. f \in SequenceFiles /\ f.records = Records(current) /\ f.state = "closed"
    BY <2>1 DEF SequenceFiles
  <2>3. files' = [files EXCEPT ![current] = f]
    <3>1. [files[current] EXCEPT !.state = "closed"] = f
      BY <2>1 DEF SequenceFiles, Records
    <3>2. files' = [files EXCEPT ![current] = [files[current] EXCEPT !.state = "closed"]]
      BY <1>3
    <3> QED  BY <3>1, <3>2
  <2> HIDE DEF f
  <2>4. /\ PrefixOnly'
        /\ files' \in [DOMAIN input' -> SequenceFiles]
        /\ files'[current] = f
        /\ \A m \in DOMAIN input : m # current => files'[m] = files[m]
    BY <1>1, <2>1, <2>2, <2>3, CurrentFile
  <2>5. TypeOK' /\ Placed' /\ CurrentRecords'
    BY <1>1, <1>3, <2>4 DEF TypeOK, Placed, CurrentRecords
  <2>6. FinishedAreLoaded'
    <3> SUFFICES ASSUME NEW m \in DOMAIN input, input[m].format # "none",
                        m \notin todo, m \notin lost
                 PROVE  Loaded(m)'
      BY <1>1, <1>3 DEF FinishedAreLoaded
    <3>1. CASE m = current
      BY <1>1, <2>2, <2>4, <3>1 DEF Loaded, Records, Bodies, Entries
    <3>2. CASE m # current
      <4>1. Loaded(m)
        BY <1>1, <3>2 DEF FinishedAreLoaded
      <4> QED  BY <1>1, <2>4, <3>2, <4>1, OthersLoaded
    <3> QED  BY <3>1, <3>2
  <2> QED  BY <2>4, <2>5, <2>6
<1> QED  BY <1>2, <1>3 DEF Close

-----------------------------------------------------------------------------
(* The theorems *)

(* IInv is an invariant of the ingest tools.                               *)
THEOREM Inductive == Spec => []IInv
<1>1. Init => IInv
  BY InitInv
<1>2. IInv /\ [Next]_vars => IInv'
  BY QuietSteps, KillStep, CreateWriterStep, OpenStreamStep, EndOfEntriesStep,
     AppendRecordStep, CloseStep DEF Next
<1> QED  BY <1>1, <1>2, PTL DEF Spec

(* The state of the ingest tools keeps its types.                          *)
THEOREM TypeCorrect == Spec => []TypeOK
<1>1. IInv => TypeOK
  BY DEF IInv
<1> QED  BY <1>1, Inductive, PTL

(* Whatever fails, a sequence file holds a beginning of its source.        *)
THEOREM Prefixes == Spec => []PrefixOnly
<1>1. IInv => PrefixOnly
  BY DEF IInv
<1> QED  BY <1>1, Inductive, PTL

(* What a run is done with, and was not told to have lost, is loaded.      *)
THEOREM FinishedLoaded == Spec => []FinishedAreLoaded
<1>1. IInv => FinishedAreLoaded
  BY DEF IInv
<1> QED  BY <1>1, Inductive, PTL
=============================================================================
