----------------------- MODULE TextDaemonLoaderProofs -----------------------
(***************************************************************************)
(* The answers of a TextDaemonLoader lag behind its records by the records *)
(* that timed out on the same connection, and without a socket timeout it  *)
(* implements RecordScan: for any records, splits, timeouts and daemon.    *)
(***************************************************************************)
EXTENDS TextDaemonLoader, DaemonLinkProofs

(***************************************************************************)
(* The pieces that answer the records 1, 2, .. are numbered 2, 3, 4, 5, .. *)
(* On a connection in use the requests lead up to the record sent last,    *)
(* the pieces sent and not read follow each other up to the one the daemon *)
(* sends next, and so their number tells which piece is read next.         *)
(***************************************************************************)
Place(piece) == 2 * piece.of + (IF piece.part = "head" THEN 0 ELSE 1)

\* The record sent last.
LastSent == IF pc \in Reading THEN Record ELSE Record - 1

\* The place of the piece that the daemon sends next.
SentNext(k, last) == 2 * (last - Len(k.requests) + 1) + (IF k.begun THEN 1 ELSE 0)

\* The place of the piece that is read next.
ReadNext(k, last) == SentNext(k, last) - Len(k.replies)

RequestsFollow(k, last) ==
  \A i \in DOMAIN k.requests : k.requests[i] = last - Len(k.requests) + i

RepliesFollow(k, last) ==
  \A i \in DOMAIN k.replies : Place(k.replies[i]) = ReadNext(k, last) + i - 1

\* The record whose answer is next.
Expected == Record - late

\* The head of the answer that is next was read; in this readLine, unless
\* after a timeout.
HeadRead ==
  \/ part = [of |-> Expected, part |-> "head"]
  \/ part \in {Nothing, [of |-> Expected, part |-> "middle"]} /\ late > 0

\* Something can still be read of connection k, and it is the head of the
\* answer that is next, or what follows its head.
InStep(k, last) ==
  k.replies # << >> \/ k.more \/ k.link = "open" \/ part # Nothing =>
    \/ ReadNext(k, last) = 2 * Expected /\ part = Nothing
    \/ ReadNext(k, last) = 2 * Expected + 1 /\ HeadRead

InUse == pc \in Reading \cup {"next", "rewrite"}
Connected == InUse \/ pc = "reconnect"

Chain(k, last) ==
  /\ RequestsFollow(k, last)
  /\ RepliesFollow(k, last)
  /\ InStep(k, last)
  /\ k.more => k.begun

Progress ==
  /\ late <= Len(tuples) /\ Len(lags) = Len(tuples)
  /\ Len(tuples) <= SplitEnds[split]
  /\ Connected /\ pc # "next" => Len(tuples) < SplitEnds[split]
  /\ pc = "done" => Len(tuples) = Records
  /\ pc \notin Reading => part = Nothing
  /\ Connected => conns # << >>
  /\ InUse => Chain(conns[Current], LastSent)
  /\ SoTimeout = 0 => late = 0

IInv == TypeOK /\ BegunForRequest /\ Progress /\ OneConnection /\ AnswersLagByTimeouts

-----------------------------------------------------------------------------
(* One connection *)

(* The places are numbers.                                                 *)
LEMMA PlacesType ==
  ASSUME NEW k \in Connections, NEW last \in Int
  PROVE  /\ Len(k.requests) \in Nat /\ Len(k.replies) \in Nat
         /\ SentNext(k, last) \in Int /\ ReadNext(k, last) \in Int
         /\ SentNext(k, last) = ReadNext(k, last) + Len(k.replies)
<1>1. Len(k.requests) \in Nat /\ Len(k.replies) \in Nat
  BY DEF Connections
<1>2. SentNext(k, last) \in Int
  BY <1>1 DEF SentNext
<1> QED BY <1>1, <1>2 DEF ReadNext

(* One piece more is sent: the same is read next.                          *)
LEMMA OneFurther ==
  ASSUME NEW k \in Connections, NEW n \in Connections, NEW last \in Int,
         Len(n.replies) = Len(k.replies) + 1, SentNext(n, last) = SentNext(k, last) + 1
  PROVE  ReadNext(n, last) = ReadNext(k, last) /\ ReadNext(k, last) \in Int
<1> DEFINE a == SentNext(k, last)
           b == SentNext(n, last)
           l == Len(k.replies)
           m == Len(n.replies)
<1>1. a \in Int /\ l \in Int /\ b = a + 1 /\ m = l + 1
  BY PlacesType
<1> HIDE DEF a, b, l, m
<1>2. b - m = a - l /\ a - l \in Int
  BY <1>1
<1> QED BY <1>2 DEF ReadNext, a, b, l, m

(* A step of the daemon keeps requests and replies in order, and does not  *)
(* change what is read next.                                               *)
LEMMA SendKeepsOrder ==
  ASSUME NEW k \in Connections, NEW last \in Int,
         RequestsFollow(k, last), RepliesFollow(k, last), NEW n \in Connections,
         \/ k.requests # << >> /\ ~k.begun /\ n = HeadSent(k)
         \/ k.requests # << >> /\ k.begun /\ n = TailSent(k)
         \/ k.begun /\ k.replies = << >> /\ n = MoreSent(k)
         \/ \E state \in {"fin", "rst"} : n = [k EXCEPT !.link = state]
  PROVE  /\ RequestsFollow(n, last) /\ RepliesFollow(n, last)
         /\ ReadNext(n, last) = ReadNext(k, last)
<1> DEFINE h == [of |-> Head(k.requests), part |-> "head"]
           t == [of |-> Head(k.requests), part |-> "tail"]
<1>1. k.requests \in Seq(1 .. Records) /\ k.replies \in Seq(Pieces) /\ k.begun \in BOOLEAN
  BY DEF Connections
<1>2. /\ Len(k.requests) \in Nat /\ Len(k.replies) \in Nat
      /\ DOMAIN k.requests = 1 .. Len(k.requests) /\ DOMAIN k.replies = 1 .. Len(k.replies)
  BY <1>1
<1>3. ASSUME k.requests # << >>
      PROVE  /\ Len(k.requests) > 0
             /\ Head(k.requests) = last - Len(k.requests) + 1
             /\ Place(h) = 2 * (last - Len(k.requests) + 1)
             /\ Place(t) = 2 * (last - Len(k.requests) + 1) + 1
  <2>1. Len(k.requests) > 0 /\ Head(k.requests) = k.requests[1]
    BY <1>1, <1>2, <1>3
  <2>2. Head(k.requests) = last - Len(k.requests) + 1
    <3>1. 1 \in DOMAIN k.requests
      BY <1>2, <2>1
    <3> QED BY <2>1, <3>1 DEF RequestsFollow
  <2> QED BY <1>2, <2>1, <2>2 DEF Place
<1>4. ASSUME NEW p
      PROVE  /\ Len(Append(k.replies, p)) = Len(k.replies) + 1
             /\ Append(k.replies, p)[Len(k.replies) + 1] = p
             /\ \A i \in DOMAIN k.replies : Append(k.replies, p)[i] = k.replies[i]
             /\ DOMAIN Append(k.replies, p) = 1 .. Len(k.replies) + 1
  BY <1>1, <1>2, AppendProperties
<1>5. CASE k.requests # << >> /\ ~k.begun /\ n = HeadSent(k)
  <2>1. /\ n.requests = k.requests /\ n.begun /\ n.replies = Append(k.replies, h)
    BY <1>5 DEF HeadSent, Connections, h
  <2> HIDE DEF h
  <2>2. Len(n.replies) = Len(k.replies) + 1 /\ SentNext(n, last) = SentNext(k, last) + 1
    BY <1>2, <1>4, <1>5, <2>1 DEF SentNext
  <2>3. ReadNext(n, last) = ReadNext(k, last) /\ ReadNext(k, last) \in Int
    BY <2>2, OneFurther
  <2>4. ReadNext(k, last) + Len(k.replies) = Place(h)
    BY <1>2, <1>3, <1>5 DEF ReadNext, SentNext
  <2>5. RepliesFollow(n, last)
    <3> SUFFICES ASSUME NEW i \in 1 .. Len(k.replies) + 1
                 PROVE  Place(n.replies[i]) = ReadNext(n, last) + i - 1
      BY <1>4, <2>1 DEF RepliesFollow
    <3>1. CASE i \in 1 .. Len(k.replies)
      BY <1>2, <1>4, <2>1, <2>3, <3>1 DEF RepliesFollow
    <3>2. CASE i = Len(k.replies) + 1
      BY <1>2, <1>4, <2>1, <2>3, <2>4, <3>2
    <3> QED BY <1>2, <3>1, <3>2
  <2> QED BY <2>1, <2>3, <2>5 DEF RequestsFollow
<1>6. CASE k.requests # << >> /\ k.begun /\ n = TailSent(k)
  <2>1. /\ n.requests = Tail(k.requests) /\ ~n.begun /\ n.replies = Append(k.replies, t)
    BY <1>6 DEF TailSent, Connections, t
  <2> HIDE DEF t
  <2>2. /\ Len(n.requests) = Len(k.requests) - 1
        /\ \A i \in DOMAIN n.requests : n.requests[i] = k.requests[i + 1] /\ i + 1 \in DOMAIN k.requests
    <3> DEFINE S == 1 .. Records
               q == k.requests
    <3>1. q \in Seq(S) /\ q # << >>
      BY <1>1, <1>6
    <3> HIDE DEF S, q
    <3>2. /\ Len(Tail(q)) = Len(q) - 1
          /\ \A i \in DOMAIN Tail(q) : Tail(q)[i] = q[i + 1] /\ i + 1 \in DOMAIN q
      BY <3>1
    <3> QED BY <2>1, <3>2 DEF q
  <2>3. Len(n.replies) = Len(k.replies) + 1 /\ SentNext(n, last) = SentNext(k, last) + 1
    BY <1>2, <1>4, <1>6, <2>1, <2>2 DEF SentNext
  <2>4. ReadNext(n, last) = ReadNext(k, last) /\ ReadNext(k, last) \in Int
    BY <2>3, OneFurther
  <2>5. ReadNext(k, last) + Len(k.replies) = Place(t)
    BY <1>2, <1>3, <1>6 DEF ReadNext, SentNext
  <2>6. RepliesFollow(n, last)
    <3> SUFFICES ASSUME NEW i \in 1 .. Len(k.replies) + 1
                 PROVE  Place(n.replies[i]) = ReadNext(n, last) + i - 1
      BY <1>4, <2>1 DEF RepliesFollow
    <3>1. CASE i \in 1 .. Len(k.replies)
      BY <1>2, <1>4, <2>1, <2>4, <3>1 DEF RepliesFollow
    <3>2. CASE i = Len(k.replies) + 1
      BY <1>2, <1>4, <2>1, <2>4, <2>5, <3>2
    <3> QED BY <1>2, <3>1, <3>2
  <2>7. RequestsFollow(n, last)
    <3> SUFFICES ASSUME NEW i \in DOMAIN n.requests
                 PROVE  n.requests[i] = last - Len(n.requests) + i
      BY DEF RequestsFollow
    <3>1. i \in Int
      BY DEF Connections
    <3>2. k.requests[i + 1] = last - Len(k.requests) + (i + 1)
      BY <2>2 DEF RequestsFollow
    <3> DEFINE length == Len(k.requests)
    <3>3. n.requests[i] = last - length + (i + 1) /\ Len(n.requests) = length - 1
          /\ length \in Int
      BY <1>2, <2>2, <3>2
    <3> HIDE DEF length
    <3> QED BY <3>1, <3>3
  <2> QED BY <2>4, <2>6, <2>7
<1>7. CASE n = MoreSent(k) \/ \E state \in {"fin", "rst"} : n = [k EXCEPT !.link = state]
  <2>1. n.requests = k.requests /\ n.replies = k.replies /\ n.begun = k.begun
    BY <1>7 DEF MoreSent, Connections
  <2> QED BY <2>1 DEF RequestsFollow, RepliesFollow, ReadNext, SentNext
<1> QED BY <1>5, <1>6, <1>7

(* So does reading a piece, which has the place that is next.              *)
LEMMA ReadKeepsOrder ==
  ASSUME NEW k \in Connections, NEW last \in Int, k.replies # << >>,
         RequestsFollow(k, last), RepliesFollow(k, last)
  PROVE  LET n == [k EXCEPT !.replies = Tail(k.replies)] IN
         /\ n \in Connections
         /\ RequestsFollow(n, last) /\ RepliesFollow(n, last)
         /\ ReadNext(n, last) = ReadNext(k, last) + 1
         /\ Head(k.replies) \in Pieces /\ Place(Head(k.replies)) = ReadNext(k, last)
<1> DEFINE n == [k EXCEPT !.replies = Tail(k.replies)]
           q == k.replies
<1>1. q \in Seq(Pieces) /\ q # << >> /\ Len(k.requests) \in Nat /\ k.begun \in BOOLEAN
  BY DEF Connections
<1> HIDE DEF q
<1>2. /\ Tail(q) \in Seq(Pieces) /\ Head(q) \in Pieces /\ Head(q) = q[1] /\ 1 \in DOMAIN q
      /\ Len(q) \in Nat /\ Len(Tail(q)) = Len(q) - 1
      /\ \A i \in DOMAIN Tail(q) : i \in Int /\ Tail(q)[i] = q[i + 1] /\ i + 1 \in DOMAIN q
  BY <1>1
<1>3. n \in Connections /\ n.replies = Tail(q) /\ n.requests = k.requests /\ n.begun = k.begun
  BY <1>2 DEF Connections, q
<1> HIDE DEF n
<1>4. ReadNext(n, last) = ReadNext(k, last) + 1 /\ ReadNext(k, last) \in Int
  <2>1. SentNext(n, last) = SentNext(k, last) /\ Len(n.replies) = Len(k.replies) - 1
    BY <1>2, <1>3 DEF SentNext, q
  <2>2. /\ Len(k.replies) \in Int /\ ReadNext(k, last) \in Int
        /\ SentNext(k, last) = ReadNext(k, last) + Len(k.replies)
    BY PlacesType
  <2>3. ReadNext(n, last) \in Int /\ SentNext(n, last) = ReadNext(n, last) + Len(n.replies)
    BY <1>3, PlacesType
  <2> QED BY <2>1, <2>2, <2>3
<1>5. \A i \in DOMAIN q : Place(q[i]) = ReadNext(k, last) + i - 1
  BY DEF RepliesFollow, q
<1>6. RepliesFollow(n, last)
  <2> SUFFICES ASSUME NEW i \in DOMAIN Tail(q)
               PROVE  Place(Tail(q)[i]) = ReadNext(n, last) + i - 1
    BY <1>3 DEF RepliesFollow
  <2>1. Place(q[i + 1]) = ReadNext(k, last) + (i + 1) - 1
    BY <1>2, <1>5
  <2> QED BY <1>2, <1>4, <2>1
<1>7. RequestsFollow(n, last)
  BY <1>3 DEF RequestsFollow
<1>8. Place(Head(q)) = ReadNext(k, last)
  BY <1>2, <1>4, <1>5
<1> QED BY <1>2, <1>3, <1>4, <1>6, <1>7, <1>8 DEF n, q

(* And so does another request.                                            *)
LEMMA RequestKeepsOrder ==
  ASSUME NEW k \in Connections, NEW r \in 1 .. Records,
         RequestsFollow(k, r - 1), RepliesFollow(k, r - 1)
  PROVE  LET n == [k EXCEPT !.requests = Append(k.requests, r)] IN
         /\ n \in Connections /\ n.requests # << >>
         /\ RequestsFollow(n, r) /\ RepliesFollow(n, r)
         /\ ReadNext(n, r) = ReadNext(k, r - 1)
<1> DEFINE n == [k EXCEPT !.requests = Append(k.requests, r)]
           q == k.requests
           S == 1 .. Records
<1>1. q \in Seq(S) /\ r \in S /\ r \in Int /\ Len(k.replies) \in Nat /\ k.begun \in BOOLEAN
  BY DEF Connections
<1> HIDE DEF q, S
<1>2. /\ Append(q, r) \in Seq(S) /\ Append(q, r) # << >>
      /\ Len(q) \in Nat /\ Len(Append(q, r)) = Len(q) + 1
      /\ DOMAIN Append(q, r) = 1 .. Len(q) + 1
      /\ Append(q, r)[Len(q) + 1] = r
      /\ \A i \in 1 .. Len(q) : i \in DOMAIN q /\ Append(q, r)[i] = q[i]
  BY <1>1
<1>3. /\ n \in Connections /\ n.requests = Append(q, r)
      /\ n.replies = k.replies /\ n.begun = k.begun
  BY <1>2 DEF Connections, q, S
<1> HIDE DEF n
<1>4. ReadNext(n, r) = ReadNext(k, r - 1)
  <2> DEFINE length == Len(q)
  <2>1. Len(n.requests) = length + 1 /\ Len(k.requests) = length /\ length \in Int
    BY <1>2, <1>3 DEF q
  <2> HIDE DEF length
  <2>2. r - (length + 1) = (r - 1) - length
    BY <1>1, <2>1
  <2> QED BY <1>3, <2>1, <2>2 DEF ReadNext, SentNext
<1>5. RepliesFollow(n, r)
  BY <1>3, <1>4 DEF RepliesFollow
<1>6. RequestsFollow(n, r)
  <2>1. \A i \in DOMAIN q : q[i] = (r - 1) - Len(q) + i
    BY DEF RequestsFollow, q
  <2> SUFFICES ASSUME NEW i \in 1 .. Len(q) + 1
               PROVE  Append(q, r)[i] = r - (Len(q) + 1) + i
    BY <1>2, <1>3 DEF RequestsFollow
  <2>2. CASE i \in 1 .. Len(q)
    BY <1>1, <1>2, <2>1, <2>2
  <2>3. CASE i = Len(q) + 1
    BY <1>1, <1>2, <2>3
  <2> QED BY <1>2, <2>2, <2>3
<1> QED BY <1>2, <1>3, <1>4, <1>5, <1>6 DEF n, q

(* The piece at a place.                                                   *)
LEMMA PieceAt ==
  ASSUME NEW p \in Pieces, NEW e \in Int
  PROVE  /\ Place(p) = 2 * e => p = [of |-> e, part |-> "head"]
         /\ Place(p) = 2 * e + 1 => p = [of |-> e, part |-> "tail"]
<1>1. PICK r \in 1 .. Records, side \in {"head", "tail"} : p = [of |-> r, part |-> side]
  BY DEF Pieces
<1>2. r \in Int
  OBVIOUS
<1>3. CASE side = "head"
  BY <1>1, <1>2, <1>3 DEF Place
<1>4. CASE side = "tail"
  BY <1>1, <1>2, <1>4 DEF Place
<1> QED BY <1>3, <1>4

-----------------------------------------------------------------------------
(* The state *)

(* The splits end within the records, one after the other.                 *)
LEMMA SplitsEnd ==
  ASSUME TypeOK
  PROVE  /\ SplitEnds[split] \in 0 .. Records
         /\ split < Len(SplitEnds) =>
              split + 1 \in DOMAIN SplitEnds /\ SplitEnds[split] <= SplitEnds[split + 1]
         /\ split = Len(SplitEnds) => SplitEnds[split] = Records
<1>1. split \in 1 .. Len(SplitEnds) /\ DOMAIN SplitEnds = 1 .. Len(SplitEnds) /\ split \in Nat
      /\ Len(SplitEnds) \in Nat
  BY SplitAssumption DEF TypeOK
<1>2. SplitEnds[split] \in 0 .. Records
  <2> DEFINE S == 0 .. Records
  <2>1. SplitEnds \in Seq(S)
    BY SplitAssumption
  <2> HIDE DEF S
  <2>2. SplitEnds[split] \in S
    BY <1>1, <2>1
  <2> QED BY <2>2 DEF S
<1>3. ASSUME split < Len(SplitEnds)
      PROVE  split + 1 \in DOMAIN SplitEnds /\ SplitEnds[split] <= SplitEnds[split + 1]
  <2>1. split + 1 \in DOMAIN SplitEnds /\ split <= split + 1
    BY <1>1, <1>3
  <2> QED BY <1>1, <2>1, SplitAssumption
<1> QED BY <1>2, <1>3, SplitAssumption

(* The numbers of a record that is read or sent.                           *)
LEMMA Numbers ==
  ASSUME IInv
  PROVE  /\ Len(tuples) \in Nat /\ Record = Len(tuples) + 1 /\ Record \in Int
         /\ late \in Nat /\ Expected = Record - late /\ Expected \in Int
         /\ LastSent \in Int
         /\ Connected /\ pc # "next" => Record \in 1 .. Records
         /\ pc = "next" /\ Len(tuples) < SplitEnds[split] => Record \in 1 .. Records
<1>1. /\ Len(tuples) \in Nat /\ late \in Nat /\ SplitEnds[split] \in 0 .. Records
      /\ Records \in Nat
  BY SplitsEnd, LinkAssumption DEF IInv, TypeOK
<1>2. Len(tuples) < SplitEnds[split] => Len(tuples) + 1 \in 1 .. Records
  BY <1>1
<1> QED BY <1>1, <1>2 DEF IInv, Progress, Record, Expected, LastSent

(* The connection in use is there.                                         *)
LEMMA CurrentThere ==
  ASSUME IInv, Connected
  PROVE  /\ Current \in DOMAIN conns /\ conns[Current] \in Connections
         /\ conns[Current].begun => conns[Current].requests # << >>
         /\ conns[Current].begun \in BOOLEAN /\ conns[Current].held \in BOOLEAN
<1>1. conns \in Seq(Connections) /\ conns # << >>
  BY DEF IInv, TypeOK, LinkTypeOK, Progress
<1>2. Current \in DOMAIN conns
  BY <1>1 DEF Current
<1>3. conns[Current] \in Connections
  BY <1>1, <1>2
<1> QED BY <1>2, <1>3 DEF IInv, BegunForRequest, Connections

(* What a step on one connection does to the connections.                  *)
LEMMA OneStep ==
  ASSUME IInv, NEW c \in DOMAIN conns, NEW k \in Connections, conns' = [conns EXCEPT ![c] = k],
         k.begun => k.requests # << >>, k.held => conns[c].held
  PROVE  /\ conns' \in Seq(Connections) /\ Len(conns') = Len(conns) /\ Current' = Current
         /\ conns # << >> /\ conns' # << >>
         /\ conns'[c] = k /\ \A d \in DOMAIN conns \ {c} : conns'[d] = conns[d]
         /\ BegunForRequest'
         /\ \A d \in DOMAIN conns' : conns'[d].held => conns[d].held /\ d = Current
<1>1. conns \in Seq(Connections)
  BY DEF IInv, TypeOK, LinkTypeOK
<1>2. /\ conns' \in Seq(Connections) /\ Len(conns') = Len(conns) /\ DOMAIN conns' = DOMAIN conns
      /\ conns'[c] = k /\ \A d \in DOMAIN conns \ {c} : conns'[d] = conns[d]
  BY <1>1, ReplaceConnection
<1>3. conns # << >> /\ conns' # << >>
  BY <1>1, <1>2
<1>4. BegunForRequest'
  BY <1>2 DEF IInv, BegunForRequest
<1>5. \A d \in DOMAIN conns' : conns'[d].held => conns[d].held /\ d = Current
  BY <1>2 DEF IInv, OneConnection
<1> QED BY <1>2, <1>3, <1>4, <1>5 DEF Current

(* The piece that is read: it belongs to the answer that is expected.      *)
LEMMA NextPiece ==
  ASSUME IInv, pc \in Reading, Replies # << >>
  PROVE  /\ Head(Replies) \in Pieces
         /\ Head(Replies).part = "head" =>
              /\ part = Nothing /\ Head(Replies) = [of |-> Expected, part |-> "head"]
              /\ ReadNext(conns[Current], Record) = 2 * Expected
         /\ Head(Replies).part = "tail" =>
              /\ Head(Replies) = [of |-> Expected, part |-> "tail"]
              /\ ReadNext(conns[Current], Record) = 2 * Expected + 1
              /\ HeadRead
<1> DEFINE k == conns[Current]
<1>1. k \in Connections /\ Record \in Int /\ Expected \in Int
  BY CurrentThere, Numbers DEF Connected, InUse
<1>2. Chain(k, Record) /\ k.replies # << >>
  BY DEF IInv, Progress, InUse, LastSent, Replies
<1>3. Head(Replies) \in Pieces /\ Place(Head(Replies)) = ReadNext(k, Record)
  BY <1>1, <1>2, ReadKeepsOrder DEF Chain, Replies
<1>4. \/ ReadNext(k, Record) = 2 * Expected /\ part = Nothing
      \/ ReadNext(k, Record) = 2 * Expected + 1 /\ HeadRead
  BY <1>2 DEF Chain, InStep
<1> HIDE DEF k
<1>5. CASE ReadNext(k, Record) = 2 * Expected /\ part = Nothing
  <2>1. Head(Replies) = [of |-> Expected, part |-> "head"]
    BY <1>1, <1>3, <1>5, PieceAt
  <2> QED BY <1>3, <1>5, <2>1 DEF k
<1>6. CASE ReadNext(k, Record) = 2 * Expected + 1 /\ HeadRead
  <2>1. Head(Replies) = [of |-> Expected, part |-> "tail"]
    BY <1>1, <1>3, <1>6, PieceAt
  <2> QED BY <1>3, <1>6, <2>1 DEF k
<1> QED BY <1>4, <1>5, <1>6

-----------------------------------------------------------------------------
(* The loader's steps *)

(* init of a split, and init after a close: a connection that nothing was  *)
(* sent on yet, or a failed task.                                          *)
LEMMA OpenStep ==
  ASSUME IInv, NEW cs \in Seq(Connections), NEW next \in {"next", "rewrite"},
         OpenConnection(cs, next), Len(cs) = Len(conns),
         \A c \in DOMAIN cs : ~cs[c].held /\ cs[c].begun = conns[c].begun
                              /\ cs[c].requests = conns[c].requests,
         part = Nothing, next = "rewrite" => Len(tuples) < SplitEnds[split]
  PROVE  IInv'
<1> USE DEF IInv
<1> DEFINE fresh == [requests |-> << >>, replies |-> << >>, begun |-> FALSE,
                     more |-> FALSE, link |-> "open", held |-> TRUE]
<1>1. /\ UNCHANGED <<timeoutMS, part, split, tuples, lags>> /\ SoTimeout' = SoTimeout
      /\ Record' = Record /\ AnswersLagByTimeouts'
  BY DEF OpenConnection, SoTimeout, Record, AnswersLagByTimeouts
<1>2. conns \in Seq(Connections) /\ DOMAIN cs = DOMAIN conns /\ Record \in Int /\ 0 \in 0 .. Records
  BY Numbers, LinkAssumption DEF TypeOK, LinkTypeOK
<1>3. CASE conns' = cs /\ pc' = "failed" /\ UNCHANGED late
  <2>1. TypeOK'
    BY <1>1, <1>3 DEF TypeOK, LinkTypeOK
  <2>2. BegunForRequest' /\ OneConnection'
    BY <1>2, <1>3 DEF BegunForRequest, OneConnection
  <2>3. Progress'
    BY <1>1, <1>3 DEF Progress, Connected, InUse, Reading
  <2> QED BY <1>1, <2>1, <2>2, <2>3
<1>4. CASE conns' = Append(cs, Opened[Len(Opened)]) /\ pc' = next /\ late' = 0
  <2>1. fresh \in Connections /\ Opened[Len(Opened)] = fresh
    <3>1. Opened[Len(Opened)] = fresh
      BY <1>2, OpenConnectionAdded
    <3> QED BY <3>1 DEF Connections
  <2>2. /\ fresh.requests = << >> /\ fresh.replies = << >> /\ ~fresh.begun
        /\ fresh.link = "open" /\ fresh.held /\ ~fresh.more
    OBVIOUS
  <2> HIDE DEF fresh
  <2>3. /\ conns' \in Seq(Connections) /\ Len(conns') = Len(cs) + 1 /\ conns' # << >>
        /\ conns'[Len(conns')] = fresh /\ \A c \in DOMAIN cs : conns'[c] = cs[c]
        /\ \A c \in DOMAIN conns' : c \in DOMAIN cs \/ c = Len(conns')
    BY <1>4, <2>1
  <2>4. TypeOK'
    BY <1>1, <1>2, <1>4, <2>3 DEF TypeOK, LinkTypeOK
  <2>5. BegunForRequest' /\ OneConnection'
    <3>1. \A c \in DOMAIN conns' : conns'[c].begun => conns'[c].requests # << >>
      BY <1>2, <2>2, <2>3 DEF BegunForRequest
    <3>2. \A c \in DOMAIN conns' : conns'[c].held => c = Len(conns')
      BY <2>3
    <3>3. pc' \notin {"init", "done"}
      BY <1>4
    <3> QED BY <3>1, <3>2, <3>3 DEF BegunForRequest, OneConnection, Current
  <2>6. Chain(conns[Current], LastSent)'
    <3>1. conns'[Current'] = fresh
      BY <2>3 DEF Current
    <3>4. LastSent' = Record - 1 /\ Expected' = Record
      BY <1>1, <1>2, <1>4 DEF LastSent, Reading, Expected
    <3>2. RequestsFollow(fresh, Record - 1) /\ RepliesFollow(fresh, Record - 1)
      BY <2>2 DEF RequestsFollow, RepliesFollow
    <3>3. ReadNext(fresh, Record - 1) = 2 * Record
      BY <1>2, <2>2 DEF ReadNext, SentNext
    <3> QED BY <1>1, <2>2, <3>1, <3>2, <3>3, <3>4 DEF Chain, InStep
  <2>7. Progress'
    <3>1. 0 <= Len(tuples)
      BY DEF TypeOK
    <3> QED BY <1>1, <1>4, <2>3, <2>6, <3>1 DEF Progress, Connected, InUse, Reading
  <2> QED BY <1>1, <2>4, <2>5, <2>7
<1> QED BY <1>3, <1>4 DEF OpenConnection

LEMMA InitSplitStep ==
  ASSUME IInv, InitSplit
  PROVE  IInv'
<1>1. \A c \in DOMAIN conns : ~conns[c].held
  BY DEF IInv, OneConnection, InitSplit, TypeOK, LinkTypeOK, Connections
<1>2. part = Nothing /\ conns \in Seq(Connections)
  BY DEF IInv, Progress, Reading, InitSplit, TypeOK, LinkTypeOK
<1> QED BY <1>1, <1>2, OpenStep DEF InitSplit

(* What close does to the connections.                                     *)
LEMMA CloseStep ==
  ASSUME IInv, Connected
  PROVE  LET k == [conns[Current] EXCEPT !.held = FALSE] IN
         /\ k \in Connections /\ ~k.held
         /\ k.begun = conns[Current].begun /\ k.requests = conns[Current].requests
         /\ Closed(conns) = [conns EXCEPT ![Current] = k]
BY CurrentThere DEF Closed, Connections

LEMMA ReconnectStep ==
  ASSUME IInv, Reconnect
  PROVE  IInv'
<1> DEFINE k == [conns[Current] EXCEPT !.held = FALSE]
           cs == Closed(conns)
<1>1. Connected /\ part = Nothing /\ Len(tuples) < SplitEnds[split]
  BY DEF Reconnect, Connected, IInv, Progress, Reading
<1>2. /\ k \in Connections /\ ~k.held /\ cs = [conns EXCEPT ![Current] = k]
      /\ k.begun = conns[Current].begun /\ k.requests = conns[Current].requests
      /\ Current \in DOMAIN conns /\ conns \in Seq(Connections)
  BY <1>1, CloseStep, CurrentThere DEF IInv, TypeOK, LinkTypeOK
<1> HIDE DEF k, cs
<1>3. /\ cs \in Seq(Connections) /\ Len(cs) = Len(conns) /\ DOMAIN cs = DOMAIN conns
      /\ cs[Current] = k /\ \A c \in DOMAIN conns \ {Current} : cs[c] = conns[c]
  BY <1>2, ReplaceConnection
<1>4. \A c \in DOMAIN cs : ~cs[c].held /\ cs[c].begun = conns[c].begun
                           /\ cs[c].requests = conns[c].requests
  BY <1>2, <1>3 DEF IInv, OneConnection
<1> QED BY <1>1, <1>3, <1>4, OpenStep DEF Reconnect, cs

LEMMA CleanUpStep ==
  ASSUME IInv, CleanUp
  PROVE  IInv'
<1> DEFINE k == [conns[Current] EXCEPT !.held = FALSE]
<1>1. Connected /\ pc = "next" /\ Len(tuples) = SplitEnds[split]
      /\ UNCHANGED <<timeoutMS, part, tuples, late, lags>> /\ SoTimeout' = SoTimeout
  BY DEF CleanUp, Connected, InUse, SoTimeout
<1>2. /\ k \in Connections /\ ~k.held /\ conns' = [conns EXCEPT ![Current] = k]
      /\ k.begun => k.requests # << >>
      /\ Current \in DOMAIN conns
  BY <1>1, CloseStep, CurrentThere DEF CleanUp
<1> HIDE DEF k
<1>3. /\ conns' \in Seq(Connections) /\ conns' # << >> /\ conns'[Current] = k
      /\ BegunForRequest' /\ \A c \in DOMAIN conns' : conns'[c].held => c = Current
  BY <1>2, OneStep
<1>4. OneConnection'
  BY <1>2, <1>3 DEF OneConnection
<1>5. AnswersLagByTimeouts'
  BY <1>1 DEF IInv, AnswersLagByTimeouts
<1>6. part' = Nothing
  BY <1>1 DEF IInv, Progress, Reading
<1>7. /\ Len(tuples) \in Nat /\ SplitEnds[split] \in 0 .. Records
      /\ split \in Nat
  BY Numbers, SplitsEnd, SplitAssumption DEF IInv, TypeOK
<1>8. CASE split < Len(SplitEnds) /\ split' = split + 1 /\ pc' = "init"
  <2>1. split' \in DOMAIN SplitEnds /\ SplitEnds[split] <= SplitEnds[split']
    BY <1>8, SplitsEnd DEF IInv
  <2>2. TypeOK'
    BY <1>1, <1>3, <1>8, <2>1 DEF IInv, TypeOK, LinkTypeOK
  <2>3. Progress'
    BY <1>1, <1>6, <1>8, <2>1 DEF IInv, Progress, Connected, InUse, Reading
  <2> QED BY <1>3, <1>4, <1>5, <2>2, <2>3 DEF IInv
<1>9. CASE split = Len(SplitEnds) /\ pc' = "done" /\ UNCHANGED split
  <2>1. Len(tuples) = Records
    BY <1>1, <1>9, SplitsEnd DEF IInv
  <2>2. TypeOK'
    BY <1>1, <1>3, <1>9 DEF IInv, TypeOK, LinkTypeOK
  <2>3. Progress'
    BY <1>1, <1>6, <1>9, <2>1 DEF IInv, Progress, Connected, InUse, Reading
  <2> QED BY <1>3, <1>4, <1>5, <2>2, <2>3 DEF IInv
<1> QED BY <1>8, <1>9 DEF CleanUp

(* Steps that leave the connections: to a reconnection, or to the end of   *)
(* the task.                                                               *)
LEMMA LeavingStep ==
  ASSUME IInv, Connected,
         pc' \in {"reconnect", "failed"}, part' = Nothing,
         UNCHANGED <<timeoutMS, conns, split, tuples, late, lags>>,
         Len(tuples) < SplitEnds[split]
  PROVE  IInv'
<1> USE DEF IInv
<1>1. TypeOK'
  BY DEF TypeOK, LinkTypeOK, Parts
<1>2. BegunForRequest' /\ AnswersLagByTimeouts'
  BY DEF BegunForRequest, AnswersLagByTimeouts
<1>3. OneConnection'
  BY DEF OneConnection, Current
<1>4. Progress'
  BY DEF Progress, Connected, InUse, Reading, SoTimeout
<1> QED BY <1>1, <1>2, <1>3, <1>4

(* A request is sent: the first of a record, or the one of a retry.        *)
LEMMA SendStep ==
  ASSUME IInv, pc \in {"next", "rewrite"}, Len(tuples) < SplitEnds[split],
         conns' = Sent(Record), pc' \in Reading,
         UNCHANGED <<timeoutMS, part, split, tuples, late, lags>>
  PROVE  IInv'
<1> DEFINE q == conns[Current].requests
           k == [conns[Current] EXCEPT !.requests = Append(q, Record)]
<1>1. Connected /\ InUse /\ LastSent = Record - 1 /\ Record \in 1 .. Records
  BY Numbers DEF Connected, InUse, LastSent, Reading
<1>2. Chain(conns[Current], Record - 1)
  BY <1>1 DEF IInv, Progress
<1>3. /\ Current \in DOMAIN conns /\ conns[Current] \in Connections
      /\ conns' = [conns EXCEPT ![Current] = k]
  BY <1>1, CurrentThere DEF Sent
<1>4. /\ k \in Connections /\ k.requests # << >>
      /\ RequestsFollow(k, Record) /\ RepliesFollow(k, Record)
      /\ ReadNext(k, Record) = ReadNext(conns[Current], Record - 1)
  BY <1>1, <1>2, <1>3, RequestKeepsOrder DEF Chain
<1>5. /\ k.held = conns[Current].held /\ k.replies = conns[Current].replies
      /\ k.link = conns[Current].link /\ k.more = conns[Current].more
      /\ k.begun = conns[Current].begun
  BY <1>3 DEF Connections
<1> HIDE DEF k
<1>6. /\ conns' \in Seq(Connections) /\ Current' = Current /\ conns' # << >>
      /\ conns'[Current] = k
      /\ BegunForRequest' /\ \A c \in DOMAIN conns' : conns'[c].held => c = Current
  BY <1>3, <1>4, <1>5, OneStep
<1>7. TypeOK'
  BY <1>6 DEF IInv, TypeOK, LinkTypeOK
<1>8. OneConnection' /\ AnswersLagByTimeouts'
  BY <1>6 DEF IInv, OneConnection, AnswersLagByTimeouts, Reading
<1>9. Chain(conns[Current], LastSent)'
  <2>1. conns'[Current'] = k /\ LastSent' = Record /\ Expected' = Expected
    BY <1>6 DEF LastSent, Record, Expected
  <2>2. HeadRead' = HeadRead /\ part' = part
    BY <2>1 DEF HeadRead
  <2> QED BY <1>2, <1>4, <1>5, <2>1, <2>2 DEF Chain, InStep
<1>10. Progress'
  BY <1>6, <1>9 DEF IInv, Progress, Connected, InUse, Reading, SoTimeout
<1> QED BY <1>6, <1>7, <1>8, <1>10 DEF IInv

LEMMA WriteStep ==
  ASSUME IInv, Write
  PROVE  IInv'
<1>1. CASE Link # "rst" /\ conns' = Sent(Record) /\ pc' = "read"
  BY <1>1, SendStep DEF Write, Reading
<1>2. CASE WasReset /\ pc' = "reconnect" /\ UNCHANGED conns
  <2>1. part' = Nothing /\ Connected
    BY DEF Write, IInv, Progress, Reading, Connected, InUse
  <2> QED BY <1>2, <2>1, LeavingStep DEF Write
<1> QED BY <1>1, <1>2 DEF Write

LEMMA RewriteStep ==
  ASSUME IInv, Rewrite
  PROVE  IInv'
<1>1. Len(tuples) < SplitEnds[split] /\ Connected
  BY DEF Rewrite, IInv, Progress, Connected, InUse
<1>2. CASE Link # "rst" /\ conns' = Sent(Record) /\ pc' = "reread"
  BY <1>1, <1>2, SendStep DEF Rewrite, Reading
<1>3. CASE WasReset /\ pc' = "failed" /\ UNCHANGED conns
  <2>1. part' = Nothing
    BY DEF Rewrite, IInv, Progress, Reading
  <2> QED BY <1>1, <1>3, <2>1, LeavingStep DEF Rewrite
<1> QED BY <1>2, <1>3 DEF Rewrite

LEMMA ReadBreaksStep ==
  ASSUME IInv, ReadReset \/ RereadFails
  PROVE  IInv'
<1>1. Len(tuples) < SplitEnds[split] /\ Connected
  BY DEF ReadReset, RereadFails, IInv, Progress, Connected, InUse, Reading
<1> QED BY <1>1, LeavingStep DEF ReadReset, RereadFails

(* A piece is taken from the connection.                                   *)
LEMMA ReceivedOne ==
  ASSUME IInv, pc \in Reading, Replies # << >>, conns' = Received
  PROVE  \E k \in Connections :
           /\ Current' = Current /\ conns' \in Seq(Connections) /\ conns' # << >>
           /\ conns'[Current] = k /\ k.held = conns[Current].held
           /\ BegunForRequest' /\ \A c \in DOMAIN conns' : conns'[c].held => c = Current
           /\ RequestsFollow(k, Record) /\ RepliesFollow(k, Record)
           /\ ReadNext(k, Record) = ReadNext(conns[Current], Record) + 1
           /\ k.more => k.begun
<1> DEFINE k == [conns[Current] EXCEPT !.replies = Tail(conns[Current].replies)]
<1>1. Connected /\ Record \in Int /\ Chain(conns[Current], Record)
  BY Numbers DEF Connected, InUse, IInv, Progress, LastSent
<1>2. /\ Current \in DOMAIN conns /\ conns[Current] \in Connections
      /\ conns[Current].begun => conns[Current].requests # << >>
      /\ conns' = [conns EXCEPT ![Current] = k]
  BY <1>1, CurrentThere DEF Received
<1>3. /\ k \in Connections /\ RequestsFollow(k, Record) /\ RepliesFollow(k, Record)
      /\ ReadNext(k, Record) = ReadNext(conns[Current], Record) + 1
  BY <1>1, <1>2, ReadKeepsOrder DEF Chain, Replies
<1>4. /\ k.held = conns[Current].held /\ k.begun = conns[Current].begun
      /\ k.requests = conns[Current].requests /\ (k.more => k.begun)
  BY <1>1, <1>2 DEF Connections, Chain
<1> HIDE DEF k
<1> QED BY <1>2, <1>3, <1>4, OneStep

LEMMA ReadHeadStep ==
  ASSUME IInv, ReadHead
  PROVE  IInv'
<1>1. /\ pc \in Reading /\ Replies # << >> /\ Head(Replies).part = "head" /\ conns' = Received
      /\ UNCHANGED <<timeoutMS, pc, split, tuples, late, lags>>
  BY DEF ReadHead, HeadArrived
<1>2. PICK k \in Connections :
        /\ Current' = Current /\ conns' \in Seq(Connections) /\ conns' # << >>
        /\ conns'[Current] = k /\ k.held = conns[Current].held
        /\ BegunForRequest' /\ \A c \in DOMAIN conns' : conns'[c].held => c = Current
        /\ RequestsFollow(k, Record) /\ RepliesFollow(k, Record)
        /\ ReadNext(k, Record) = ReadNext(conns[Current], Record) + 1
        /\ k.more => k.begun
  BY <1>1, ReceivedOne
<1>3. /\ Head(Replies) \in Pieces /\ part' = [of |-> Expected, part |-> "head"]
      /\ ReadNext(k, Record) = 2 * Expected + 1
  BY <1>1, <1>2, NextPiece DEF ReadHead
<1>4. part' \in Parts
  BY <1>1, <1>3, NextPiece DEF Parts, Pieces
<1>5. TypeOK'
  BY <1>1, <1>2, <1>4 DEF IInv, TypeOK, LinkTypeOK
<1>6. OneConnection' /\ AnswersLagByTimeouts'
  BY <1>1, <1>2 DEF IInv, OneConnection, AnswersLagByTimeouts, Reading
<1>7. Chain(conns[Current], LastSent)'
  <2>1. conns'[Current'] = k /\ LastSent' = Record /\ Expected' = Expected
    BY <1>1, <1>2 DEF LastSent, Record, Expected
  <2>2. HeadRead'
    BY <1>3, <2>1 DEF HeadRead
  <2> QED BY <1>2, <1>3, <2>1, <2>2 DEF Chain, InStep
<1>8. Progress'
  BY <1>1, <1>2, <1>7 DEF IInv, Progress, Connected, InUse, SoTimeout
<1> QED BY <1>2, <1>5, <1>6, <1>8 DEF IInv

(* Reading on, beyond the head of the answer that is expected.             *)
LEMMA MoreOfNext ==
  ASSUME IInv, pc \in Reading, MoreArrived
  PROVE  /\ Head(conns[Current].requests) = Expected /\ Expected \in 1 .. Records
         /\ ReadNext(conns[Current], Record) = 2 * Expected + 1 /\ HeadRead
<1> DEFINE k == conns[Current]
           q == k.requests
           S == 1 .. Records
<1>1. k \in Connections /\ Record \in Int /\ Expected \in Int /\ (k.begun => q # << >>)
  BY CurrentThere, Numbers DEF Connected, InUse
<1>2. Chain(k, Record) /\ k.replies = << >> /\ k.more
  BY DEF IInv, Progress, InUse, LastSent, MoreArrived, Replies
<1>3. k.begun /\ q \in Seq(S) /\ q # << >>
  BY <1>1, <1>2 DEF Chain, Connections
<1>4. \A i \in DOMAIN q : q[i] = Record - Len(q) + i
  BY <1>2 DEF Chain, RequestsFollow
<1>5. Len(k.replies) = 0
  BY <1>2
<1>6. ReadNext(k, Record) = 2 * (Record - Len(q) + 1) + 1
  BY <1>1, <1>3, <1>5, PlacesType DEF ReadNext, SentNext
<1>7. \/ ReadNext(k, Record) = 2 * Expected
      \/ ReadNext(k, Record) = 2 * Expected + 1 /\ HeadRead
  BY <1>2 DEF Chain, InStep
<1> HIDE DEF k, q, S
<1>8. Head(q) \in S /\ Head(q) = q[1] /\ 1 \in DOMAIN q /\ Len(q) \in Nat
  BY <1>3
<1>9. Head(q) = Record - Len(q) + 1
  BY <1>4, <1>8
<1>10. Record - Len(q) + 1 = Expected /\ ReadNext(k, Record) = 2 * Expected + 1
  <2> DEFINE l == Len(q)
  <2>1. l \in Int /\ ReadNext(k, Record) = 2 * (Record - l + 1) + 1
    BY <1>6, <1>8
  <2> HIDE DEF l
  <2>2. ReadNext(k, Record) # 2 * Expected
    BY <1>1, <2>1
  <2>3. ReadNext(k, Record) = 2 * Expected + 1
    BY <1>7, <2>2
  <2>4. Record - l + 1 = Expected
    BY <1>1, <2>1, <2>3
  <2> QED BY <2>3, <2>4 DEF l
<1>11. HeadRead
  BY <1>1, <1>7, <1>10
<1> QED BY <1>8, <1>9, <1>10, <1>11 DEF k, q, S

LEMMA ReadMoreStep ==
  ASSUME IInv, ReadMore
  PROVE  IInv'
<1> DEFINE k == [conns[Current] EXCEPT !.more = FALSE]
<1>1. /\ pc \in Reading /\ MoreArrived /\ conns' = ReceivedMore /\ part' = LineSoFar
      /\ UNCHANGED <<timeoutMS, pc, split, tuples, late, lags>>
  BY DEF ReadMore
<1>2. /\ Connected /\ conns[Current] \in Connections /\ Current \in DOMAIN conns
      /\ conns[Current].begun => conns[Current].requests # << >>
      /\ Chain(conns[Current], Record)
  BY <1>1, CurrentThere DEF Connected, InUse, IInv, Progress, LastSent
<1>3. k \in Connections /\ conns' = [conns EXCEPT ![Current] = k]
  BY <1>1, <1>2 DEF ReceivedMore, Connections
<1>4. /\ k.replies = conns[Current].replies /\ k.requests = conns[Current].requests
      /\ k.begun = conns[Current].begun /\ k.held = conns[Current].held /\ ~k.more
  BY <1>2 DEF Connections
<1> HIDE DEF k
<1>5. /\ Current' = Current /\ conns' \in Seq(Connections) /\ conns' # << >>
      /\ conns'[Current] = k
      /\ BegunForRequest' /\ \A c \in DOMAIN conns' : conns'[c].held => c = Current
  BY <1>2, <1>3, <1>4, OneStep
<1>6. LastSent' = Record /\ Expected' = Expected /\ SoTimeout' = SoTimeout
  BY <1>1 DEF LastSent, Record, Expected, SoTimeout
<1>7. /\ Head(conns[Current].requests) = Expected /\ Expected \in 1 .. Records
      /\ ReadNext(conns[Current], Record) = 2 * Expected + 1 /\ HeadRead
  BY <1>1, MoreOfNext
<1>8. \/ part' = part /\ part # Nothing
      \/ part = Nothing /\ part' = [of |-> Expected, part |-> "middle"]
  BY <1>1, <1>7 DEF LineSoFar
<1>9. TypeOK'
  <2>1. part' \in Parts
    BY <1>7, <1>8 DEF IInv, TypeOK, LinkTypeOK, Parts
  <2> QED BY <1>1, <1>5, <2>1 DEF IInv, TypeOK, LinkTypeOK
<1>10. OneConnection' /\ AnswersLagByTimeouts'
  BY <1>1, <1>5 DEF IInv, OneConnection, AnswersLagByTimeouts, Reading
<1>11. Chain(conns[Current], LastSent)'
  <2>1. HeadRead'
    BY <1>1, <1>6, <1>7, <1>8 DEF HeadRead, Nothing
  <2>2. ReadNext(k, Record) = 2 * Expected + 1
    BY <1>4, <1>7 DEF ReadNext, SentNext
  <2>3. RequestsFollow(k, Record) /\ RepliesFollow(k, Record)
    BY <1>2, <1>4 DEF Chain, RequestsFollow, RepliesFollow, ReadNext, SentNext
  <2> QED BY <1>4, <1>5, <1>6, <2>1, <2>2, <2>3 DEF Chain, InStep
<1>12. Progress'
  BY <1>1, <1>5, <1>6, <1>11 DEF IInv, Progress, Connected, InUse
<1> QED BY <1>5, <1>9, <1>10, <1>12 DEF IInv

(* What a tuple may hold: nothing, or what was read of the answer that is  *)
(* expected, without its head only after a timeout.                        *)
Readable(r) ==
  r = Nothing \/ (r \in Scan!Lines /\ r.of = Expected /\ (r.part \in {"middle", "tail"} => late > 0))

LEMMA ReturnKeeps ==
  ASSUME IInv, pc \in Reading, NEW r, NEW timedOut \in BOOLEAN, Readable(r), Return(r, timedOut)
  PROVE  /\ tuples' \in Seq(Scan!Tuples) /\ lags' \in Seq(0 .. Records)
         /\ Len(tuples') = Len(tuples) + 1 /\ Len(lags') = Len(tuples')
         /\ Len(tuples) < SplitEnds[split] /\ Len(tuples') <= SplitEnds[split]
         /\ Record' = Record + 1 /\ LastSent' = Record
         /\ AnswersLagByTimeouts'
<1> DEFINE t == [result |-> r, timedOut |-> timedOut]
<1>1. /\ tuples \in Seq(Scan!Tuples) /\ lags \in Seq(0 .. Records) /\ late \in 0 .. Records
      /\ Len(lags) = Len(tuples) /\ Len(tuples) < SplitEnds[split]
      /\ SplitEnds[split] \in 0 .. Records
  BY SplitsEnd DEF IInv, TypeOK, Progress, Connected, InUse, Reading
<1>2. t \in Scan!Tuples
  BY DEF Readable, Scan!Tuples, Scan!Empty, Nothing
<1>3. /\ tuples' = Append(tuples, t) /\ lags' = Append(lags, late) /\ pc' = "next"
  BY DEF Return
<1> HIDE DEF t
<1>4. /\ tuples' \in Seq(Scan!Tuples) /\ Len(tuples') = Len(tuples) + 1
      /\ tuples'[Len(tuples) + 1] = t /\ \A i \in DOMAIN tuples : tuples'[i] = tuples[i]
      /\ DOMAIN tuples' = 1 .. Len(tuples) + 1 /\ DOMAIN tuples = 1 .. Len(tuples)
      /\ Len(tuples) \in Nat
  BY <1>1, <1>2, <1>3, AppendProperties
<1>5. /\ lags' \in Seq(0 .. Records) /\ Len(lags') = Len(tuples) + 1
      /\ lags'[Len(tuples) + 1] = late /\ \A i \in DOMAIN tuples : lags'[i] = lags[i]
  <2> DEFINE S == 0 .. Records
  <2>1. lags \in Seq(S) /\ late \in S
    BY <1>1
  <2> HIDE DEF S
  <2>2. /\ Append(lags, late) \in Seq(S) /\ Len(Append(lags, late)) = Len(lags) + 1
        /\ Append(lags, late)[Len(lags) + 1] = late
        /\ DOMAIN lags = 1 .. Len(lags)
        /\ \A i \in 1 .. Len(lags) : Append(lags, late)[i] = lags[i]
    BY <2>1, AppendProperties
  <2> QED BY <1>1, <1>3, <1>4, <2>2 DEF S
<1>6. AnswersLagByTimeouts'
  <2> SUFFICES ASSUME NEW i \in DOMAIN tuples', tuples'[i].result # Nothing
               PROVE  /\ tuples'[i].result.of = i - lags'[i]
                      /\ tuples'[i].result.part \in {"middle", "tail"} => lags'[i] > 0
    BY DEF AnswersLagByTimeouts
  <2>1. CASE i \in DOMAIN tuples
    BY <1>4, <1>5, <2>1 DEF IInv, AnswersLagByTimeouts
  <2>2. CASE i = Len(tuples) + 1
    <3>1. tuples'[i].result = r /\ lags'[i] = late
      BY <1>4, <1>5, <2>2 DEF t
    <3> QED BY <2>2, <3>1 DEF Readable, Expected, Record
  <2> QED BY <1>4, <2>1, <2>2
<1>7. Len(tuples') <= SplitEnds[split]
  BY <1>1, <1>4
<1>8. Record' = Record + 1 /\ LastSent' = Record
  BY <1>3, <1>4 DEF Record, LastSent, Reading
<1> QED BY <1>1, <1>4, <1>5, <1>6, <1>7, <1>8

LEMMA ReadLineStep ==
  ASSUME IInv, ReadLine
  PROVE  IInv' /\ Readable(LineEnding(Head(Replies)))
<1> DEFINE r == LineEnding(Head(Replies))
<1>1. /\ pc \in Reading /\ Replies # << >> /\ Head(Replies).part = "tail" /\ conns' = Received
      /\ Return(r, FALSE) /\ part' = Nothing /\ UNCHANGED <<timeoutMS, split, late>> /\ pc' = "next"
  BY DEF ReadLine, LineArrived, Return
<1>2. PICK k \in Connections :
        /\ Current' = Current /\ conns' \in Seq(Connections) /\ conns' # << >>
        /\ conns'[Current] = k /\ k.held = conns[Current].held
        /\ BegunForRequest' /\ \A c \in DOMAIN conns' : conns'[c].held => c = Current
        /\ RequestsFollow(k, Record) /\ RepliesFollow(k, Record)
        /\ ReadNext(k, Record) = ReadNext(conns[Current], Record) + 1
        /\ k.more => k.begun
  BY <1>1, ReceivedOne
<1>3. /\ Head(Replies) \in Pieces /\ Head(Replies) = [of |-> Expected, part |-> "tail"]
      /\ ReadNext(k, Record) = 2 * Expected + 1 + 1
      /\ part.part # "head" => late > 0
  BY <1>1, <1>2, NextPiece DEF HeadRead
<1>4. Readable(r)
  BY <1>3 DEF Readable, LineEnding, Scan!Lines, Pieces
<1> HIDE DEF r
<1>5. /\ tuples' \in Seq(Scan!Tuples) /\ lags' \in Seq(0 .. Records)
      /\ Len(tuples') = Len(tuples) + 1 /\ Len(lags') = Len(tuples')
      /\ Len(tuples') <= SplitEnds[split]
      /\ Record' = Record + 1 /\ LastSent' = Record /\ AnswersLagByTimeouts'
  BY <1>1, <1>4, ReturnKeeps
<1>6. TypeOK'
  BY <1>1, <1>2, <1>5 DEF IInv, TypeOK, LinkTypeOK, Parts
<1>7. OneConnection'
  BY <1>1, <1>2 DEF OneConnection
<1>8. Chain(conns[Current], LastSent)'
  <2>1. Expected' = Expected + 1 /\ Expected \in Int
    BY <1>1, <1>5, Numbers DEF Expected
  <2>2. 2 * Expected + 1 + 1 = 2 * Expected'
    BY <2>1
  <2> QED BY <1>1, <1>2, <1>3, <1>5, <2>2 DEF Chain, InStep
<1>9. Progress'
  <2>1. late <= Len(tuples')
    BY <1>5, Numbers DEF IInv, Progress
  <2> QED BY <1>1, <1>2, <1>5, <1>8, <2>1
          DEF IInv, Progress, Connected, InUse, Reading, SoTimeout
<1> QED BY <1>2, <1>4, <1>5, <1>6, <1>7, <1>9 DEF IInv, r

LEMMA ReadEndStep ==
  ASSUME IInv, ReadEnd
  PROVE  IInv' /\ Readable(part)
<1>1. /\ pc \in Reading /\ EndOfStream
      /\ Return(part, FALSE) /\ part' = Nothing /\ UNCHANGED <<timeoutMS, split, conns, late>>
      /\ pc' = "next"
  BY DEF ReadEnd, Return
<1>2. Chain(conns[Current], Record)
  BY <1>1 DEF IInv, Progress, InUse, LastSent
<1>3. Readable(part)
  <2>1. part \in Parts
    BY DEF IInv, TypeOK, LinkTypeOK
  <2>2. \/ part \in {Nothing, [of |-> Expected, part |-> "head"]}
        \/ part = [of |-> Expected, part |-> "middle"] /\ late > 0
    BY <1>2 DEF Chain, InStep, HeadRead
  <2> QED BY <2>1, <2>2 DEF Readable, Parts, Scan!Lines
<1>4. /\ tuples' \in Seq(Scan!Tuples) /\ lags' \in Seq(0 .. Records)
      /\ Len(tuples') = Len(tuples) + 1 /\ Len(lags') = Len(tuples')
      /\ Len(tuples') <= SplitEnds[split]
      /\ Record' = Record + 1 /\ LastSent' = Record /\ AnswersLagByTimeouts'
  BY <1>1, <1>3, ReturnKeeps
<1>5. TypeOK'
  BY <1>1, <1>4 DEF IInv, TypeOK, LinkTypeOK, Parts
<1>6. BegunForRequest' /\ OneConnection'
  BY <1>1 DEF IInv, BegunForRequest, OneConnection, Current
<1>7. Chain(conns[Current], LastSent)'
  <2>1. conns[Current].replies = << >> /\ ~conns[Current].more /\ conns[Current].link = "fin"
    BY <1>1 DEF EndOfStream, NothingArrived, Replies, Link
  <2> QED BY <1>1, <1>2, <1>4, <2>1 DEF Chain, InStep, Current
<1>8. Progress'
  <2>1. late <= Len(tuples')
    BY <1>4, Numbers DEF IInv, Progress
  <2>2. conns # << >>
    BY <1>1 DEF IInv, Progress, Connected, InUse
  <2> QED BY <1>1, <1>4, <1>7, <2>1, <2>2
          DEF IInv, Progress, Connected, InUse, Reading, SoTimeout
<1> QED BY <1>3, <1>4, <1>5, <1>6, <1>8 DEF IInv

LEMMA ReadTimeoutStep ==
  ASSUME IInv, ReadTimeout
  PROVE  IInv' /\ Readable(Nothing)
<1>1. /\ pc \in Reading /\ TimeIsUp /\ late' = late + 1
      /\ Return(Nothing, TRUE) /\ part' = Nothing /\ UNCHANGED <<timeoutMS, split, conns>>
      /\ pc' = "next"
  BY DEF ReadTimeout, Return, Reading
<1>2. Chain(conns[Current], Record) /\ conns[Current].link = "open"
  BY <1>1 DEF IInv, Progress, InUse, LastSent, TimeIsUp, Link
<1>3. Readable(Nothing)
  BY DEF Readable
<1>4. /\ tuples' \in Seq(Scan!Tuples) /\ lags' \in Seq(0 .. Records)
      /\ Len(tuples') = Len(tuples) + 1 /\ Len(lags') = Len(tuples')
      /\ Len(tuples) < SplitEnds[split] /\ Len(tuples') <= SplitEnds[split]
      /\ Record' = Record + 1 /\ LastSent' = Record /\ AnswersLagByTimeouts'
  BY <1>1, <1>3, ReturnKeeps
<1>5. late' \in 0 .. Records /\ late' <= Len(tuples') /\ late' > 0
  <2>1. /\ late \in Nat /\ Len(tuples) \in Nat /\ late <= Len(tuples)
        /\ SplitEnds[split] \in 0 .. Records /\ Records \in Nat
    BY Numbers, SplitsEnd, LinkAssumption DEF IInv, Progress
  <2>2. Len(tuples) + 1 <= Records
    BY <1>4, <2>1
  <2> QED BY <1>1, <1>4, <2>1, <2>2
<1>6. TypeOK'
  BY <1>1, <1>4, <1>5 DEF IInv, TypeOK, LinkTypeOK, Parts
<1>7. BegunForRequest' /\ OneConnection'
  BY <1>1 DEF IInv, BegunForRequest, OneConnection, Current
<1>8. Chain(conns[Current], LastSent)'
  <2>1. Expected' = Expected
    BY <1>1, <1>4, Numbers DEF Expected
  <2>2. \/ ReadNext(conns[Current], Record) = 2 * Expected
        \/ ReadNext(conns[Current], Record) = 2 * Expected + 1
    BY <1>2 DEF Chain, InStep
  <2>3. (ReadNext(conns[Current], Record) = 2 * Expected + 1) => HeadRead'
    BY <1>1, <1>5 DEF HeadRead
  <2> QED BY <1>1, <1>2, <1>4, <2>1, <2>2, <2>3 DEF Chain, InStep, Current
<1>9. Progress'
  <2>1. conns # << >> /\ SoTimeout' # 0
    BY <1>1 DEF IInv, Progress, Connected, InUse, TimeIsUp, SoTimeout
  <2> QED BY <1>1, <1>4, <1>5, <1>8, <2>1
          DEF IInv, Progress, Connected, InUse, Reading
<1> QED BY <1>3, <1>4, <1>6, <1>7, <1>9 DEF IInv

-----------------------------------------------------------------------------
(* The daemon's steps *)

LEMMA DaemonKeeps ==
  ASSUME IInv, Daemon, UNCHANGED <<pc, split, tuples, late, lags>>
  PROVE  IInv'
<1> USE DEF IInv
<1>1. PICK c \in DOMAIN conns, k \in Connections :
        /\ conns' = [conns EXCEPT ![c] = k]
        /\ \/ conns[c].link = "open" /\ conns[c].requests # << >> /\ ~conns[c].begun
              /\ k = HeadSent(conns[c])
           \/ conns[c].link = "open" /\ conns[c].requests # << >> /\ conns[c].begun
              /\ k = TailSent(conns[c])
           \/ /\ conns[c].link = "open" /\ conns[c].begun /\ conns[c].replies = << >>
              /\ k = MoreSent(conns[c])
           \/ \E state \in {"fin", "rst"} : k = [conns[c] EXCEPT !.link = state]
        /\ UNCHANGED <<timeoutMS, part>>
  BY DaemonStep DEF TypeOK
<1>2. conns \in Seq(Connections) /\ conns[c] \in Connections
  BY DEF TypeOK, LinkTypeOK
<1>3. k.held = conns[c].held /\ (k.begun => k.requests # << >>)
  BY <1>1, <1>2 DEF HeadSent, MoreSent, TailSent, Connections, BegunForRequest
<1>4. /\ conns' \in Seq(Connections) /\ Current' = Current /\ conns' # << >>
      /\ conns'[c] = k /\ \A d \in DOMAIN conns \ {c} : conns'[d] = conns[d]
      /\ BegunForRequest'
      /\ \A d \in DOMAIN conns' : conns'[d].held => conns[d].held /\ d = Current
      /\ DOMAIN conns' = DOMAIN conns
  BY <1>1, <1>2, <1>3, OneStep
<1>5. TypeOK'
  BY <1>1, <1>4 DEF TypeOK, LinkTypeOK
<1>6. OneConnection' /\ AnswersLagByTimeouts'
  BY <1>4 DEF OneConnection, AnswersLagByTimeouts
<1>7. LastSent' = LastSent /\ Expected' = Expected /\ SoTimeout' = SoTimeout
  BY <1>1 DEF LastSent, Record, Expected, SoTimeout
<1>8. ASSUME InUse
      PROVE  Chain(conns[Current], LastSent)'
  <2>1. Chain(conns[Current], LastSent) /\ Current \in DOMAIN conns /\ LastSent \in Int
    BY <1>8, CurrentThere, Numbers DEF Progress, Connected
  <2>2. CASE c = Current
    <3>1. /\ RequestsFollow(k, LastSent) /\ RepliesFollow(k, LastSent)
          /\ ReadNext(k, LastSent) = ReadNext(conns[c], LastSent)
      BY <1>1, <1>2, <2>1, <2>2, SendKeepsOrder DEF Chain
    <3>2. /\ k.replies # << >> \/ k.more \/ k.link = "open" =>
               conns[c].replies # << >> \/ conns[c].more \/ conns[c].link = "open"
          /\ k.more => k.begun
      BY <1>1, <1>2, <2>1, <2>2 DEF Connections, Chain, HeadSent, MoreSent, TailSent
    <3>3. HeadRead => HeadRead'
      BY <1>1, <1>7 DEF HeadRead, Nothing
    <3> QED BY <1>1, <1>4, <1>7, <2>1, <2>2, <3>1, <3>2, <3>3 DEF Chain, InStep
  <2>3. CASE c # Current
    BY <1>1, <1>4, <1>7, <2>1, <2>3 DEF Chain, InStep, HeadRead
  <2> QED BY <2>2, <2>3
<1>9. Progress'
  BY <1>4, <1>7, <1>8, <1>1 DEF Progress, Connected, InUse
<1> QED BY <1>4, <1>5, <1>6, <1>9

-----------------------------------------------------------------------------
(* Theorems *)

(* The invariant holds in every reachable state.                           *)
THEOREM Inductive == Spec => []IInv
<1>1. Init => IInv
  <2> SUFFICES ASSUME Init
               PROVE  IInv
    OBVIOUS
  <2>1. TypeOK
    BY LinkAssumption, SplitAssumption DEF Init, LinkInit, TypeOK, LinkTypeOK, Parts, Reading
  <2>2. BegunForRequest /\ OneConnection /\ AnswersLagByTimeouts
    BY DEF Init, LinkInit, BegunForRequest, OneConnection, AnswersLagByTimeouts
  <2>3. Progress
    <3>1. SplitEnds[split] \in 0 .. Records
      BY <2>1, SplitsEnd
    <3> QED BY <3>1 DEF Init, LinkInit, Progress, Connected, InUse, Reading
  <2> QED BY <2>1, <2>2, <2>3 DEF IInv
<1>2. IInv /\ [Next]_vars => IInv'
  <2> SUFFICES ASSUME IInv, [Next]_vars
               PROVE  IInv'
    OBVIOUS
  <2>1. CASE Loader
    BY <2>1, InitSplitStep, CleanUpStep, WriteStep, ReadHeadStep, ReadMoreStep, ReadLineStep, ReadEndStep,
       ReadTimeoutStep, ReadBreaksStep, ReconnectStep, RewriteStep DEF Loader
  <2>2. CASE Daemon /\ UNCHANGED <<pc, split, tuples, late, lags>>
    BY <2>2, DaemonKeeps
  <2>3. CASE UNCHANGED vars
    <3>1. TypeOK' /\ BegunForRequest' /\ OneConnection' /\ AnswersLagByTimeouts'
      BY <2>3 DEF vars, IInv, TypeOK, LinkTypeOK, BegunForRequest, OneConnection, Current,
                  AnswersLagByTimeouts
    <3>2. Progress'
      BY <2>3 DEF vars, IInv, Progress, Connected, InUse, Chain, InStep, HeadRead, Current, LastSent,
                  Record, Expected, SoTimeout
    <3> QED BY <3>1, <3>2 DEF IInv
  <2> QED BY <2>1, <2>2, <2>3 DEF Next
<1> QED BY <1>1, <1>2, PTL DEF Spec

(* Every variable keeps its type.                                          *)
THEOREM TypeCorrect == Spec => []TypeOK
BY Inductive, PTL DEF IInv

(* An answer is about the record it is given to, less the records that     *)
(* timed out on the same connection before it.                             *)
THEOREM AnswersLag == Spec => []AnswersLagByTimeouts
BY Inductive, PTL DEF IInv

(* The loader holds the connection in use and no other.                    *)
THEOREM HoldsOne == Spec => []OneConnection
BY Inductive, PTL DEF IInv

(* Without a socket timeout the loader implements the contract of a daemon *)
(* loader, whatever the daemon does to its connections and when.           *)
THEOREM Implements == Spec => ImplementsScan
<1>1. Init => Scan!Init
  BY DEF Init, Scan!Init, Status
<1>2. IInv /\ [Next]_vars => [SoTimeout = 0 => [Scan!Next]_<<tuples, Status>>]_vars
  <2> SUFFICES ASSUME IInv, Next, SoTimeout = 0
               PROVE  Scan!Next \/ UNCHANGED <<tuples, Status>>
    OBVIOUS
  <2>1. CASE ReadLine \/ ReadEnd \/ ReadTimeout
    <3>1. PICK r : \E b \in BOOLEAN : Readable(r) /\ Return(r, b) /\ (b => r = Nothing)
      <4>1. CASE ReadLine
        BY <4>1, ReadLineStep DEF ReadLine
      <4>2. CASE ReadEnd
        BY <4>2, ReadEndStep DEF ReadEnd
      <4>3. CASE ReadTimeout
        BY <4>3, ReadTimeoutStep DEF ReadTimeout
      <4> QED BY <2>1, <4>1, <4>2, <4>3
    <3> PICK timedOut \in BOOLEAN : Readable(r) /\ Return(r, timedOut) /\ (timedOut => r = Nothing)
      BY <3>1
    <3> DEFINE t == [result |-> r, timedOut |-> timedOut]
    <3>2. pc \in Reading /\ pc' = "next" /\ tuples' = Append(tuples, t)
      BY <2>1, <3>1 DEF ReadLine, ReadEnd, ReadTimeout, Reading, Return
    <3>3. /\ Record \in 1 .. Records /\ Record = Len(tuples) + 1 /\ Len(tuples) < Records
          /\ late = 0 /\ Expected = Record
      BY <3>2, Numbers, LinkAssumption
         DEF IInv, Progress, Connected, InUse, Expected, Reading
    <3>4. t \in Scan!Tuples /\ Scan!TupleAllowed(Len(tuples) + 1, t)
      BY <3>1, <3>3 DEF Readable, Scan!Tuples, Scan!Lines, Scan!TupleAllowed, Scan!OwnResults,
                        Scan!Empty, Nothing
    <3>5. Status = "running" /\ Status' = "running"
      BY <3>2 DEF Status, Reading
    <3> QED BY <3>2, <3>3, <3>4, <3>5 DEF Scan!Next, Scan!Deliver
  <2>2. CASE CleanUp
    <3>1. split = Len(SplitEnds) => Len(tuples) = Records
      BY <2>2, SplitsEnd DEF CleanUp, IInv
    <3>2. tuples' = tuples /\ pc = "next"
          /\ (pc' = "init" \/ (pc' = "done" /\ split = Len(SplitEnds)))
      BY <2>2 DEF CleanUp
    <3> QED BY <3>1, <3>2 DEF Scan!Next, Scan!Finish, Status
  <2>3. CASE InitSplit \/ Write \/ ReadHead \/ ReadMore \/ ReadReset \/ Reconnect \/ Rewrite
             \/ RereadFails
    <3>1. tuples' = tuples /\ pc \notin {"done", "failed"} /\ pc' # "done"
      BY <2>3 DEF InitSplit, Write, ReadHead, ReadMore, ReadReset, Reconnect, Rewrite, RereadFails,
                  OpenConnection, Reading
    <3> QED BY <3>1 DEF Scan!Next, Scan!Fail, Status
  <2>4. CASE UNCHANGED <<pc, tuples>>
    BY <2>4 DEF Status
  <2> QED BY <2>1, <2>2, <2>3, <2>4 DEF Next, Loader
<1> QED BY <1>1, <1>2, Inductive, PTL DEF Spec, ImplementsScan
=============================================================================
