--------------------- MODULE ClamScanDaemonLoaderProofs ---------------------
(***************************************************************************)
(* ClamScanDaemonLoader implements RecordScan, for any number of records,  *)
(* any timeout and any daemon.                                             *)
(***************************************************************************)
EXTENDS ClamScanDaemonLoader, DaemonLinkProofs

HeadOf(r) == [of |-> r, part |-> "head"]
TailOf(r) == [of |-> r, part |-> "tail"]

(***************************************************************************)
(* The one exchange of connection k: the request for r is unanswered, its  *)
(* reply has begun, or its reply is complete; and the loader has not yet   *)
(* read the head, or has.  Only then is there more of the reply to read.   *)
(***************************************************************************)
Exchange(k, r) ==
  \/ k.requests = <<r>> /\ k.begun /\ k.replies = << >> /\ part = HeadOf(r)
  \/ /\ ~k.more
     /\ \/ k.requests = <<r>> /\ ~k.begun /\ k.replies = << >> /\ part = Nothing
        \/ k.requests = <<r>> /\ k.begun /\ k.replies = <<HeadOf(r)>> /\ part = Nothing
        \/ k.requests = << >> /\ ~k.begun /\ k.replies = <<HeadOf(r), TailOf(r)>> /\ part = Nothing
        \/ k.requests = << >> /\ ~k.begun /\ k.replies = <<TailOf(r)>> /\ part = HeadOf(r)

Unused(k) == k.requests = << >> /\ k.replies = << >> /\ ~k.begun /\ ~k.more

Connected == pc \in {"write", "read"}

Progress ==
  /\ Len(tuples) <= Records
  /\ Connected => conns # << >> /\ Record <= Records
  /\ pc = "write" => Unused(conns[Current])
  /\ pc = "read" => Exchange(conns[Current], Record)
  /\ pc # "read" => part = Nothing

OnlyCurrentHeld ==
  \A c \in DOMAIN conns : conns[c].held => c = Current /\ Connected

IInv == TypeOK /\ BegunForRequest /\ Progress /\ OnlyCurrentHeld

-----------------------------------------------------------------------------
(* The daemon's steps *)

(* A step of the daemon on the current connection is one of the exchange.  *)
LEMMA ExchangeAdvances ==
  ASSUME NEW k \in Connections, NEW r \in 1 .. Records, Exchange(k, r),
         NEW n, UNCHANGED part,
         \/ k.requests # << >> /\ ~k.begun /\ n = HeadSent(k)
         \/ k.requests # << >> /\ k.begun /\ n = TailSent(k)
         \/ k.begun /\ k.replies = << >> /\ n = MoreSent(k)
         \/ \E state \in {"fin", "rst"} : n = [k EXCEPT !.link = state]
  PROVE  Exchange(n, r)'
<1>1. CASE k.requests # << >> /\ ~k.begun /\ n = HeadSent(k)
  <2>1. k.requests = <<r>> /\ k.replies = << >> /\ part = Nothing
    BY <1>1 DEF Exchange
  <2>2. Head(<<r>>) = r /\ Append(<< >>, HeadOf(r)) = <<HeadOf(r)>>
    OBVIOUS
  <2>3. n.requests = <<r>> /\ n.begun /\ n.replies = <<HeadOf(r)>> /\ n.more = k.more
    BY <1>1, <2>1, <2>2 DEF HeadSent, Connections, HeadOf
  <2>4. ~k.more
    BY <1>1 DEF Exchange
  <2> QED BY <2>1, <2>3, <2>4 DEF Exchange
<1>2. CASE k.requests # << >> /\ k.begun /\ n = TailSent(k)
  <2>1. k.requests = <<r>>
    BY <1>2 DEF Exchange
  <2>2. Head(<<r>>) = r /\ Tail(<<r>>) = << >>
    OBVIOUS
  <2>3. /\ Append(<< >>, TailOf(r)) = <<TailOf(r)>>
        /\ Append(<<HeadOf(r)>>, TailOf(r)) = <<HeadOf(r), TailOf(r)>>
    BY AppendToShort
  <2>4. n.requests = << >> /\ ~n.begun /\ ~n.more /\ n.replies = Append(k.replies, TailOf(r))
    BY <1>2, <2>1, <2>2 DEF TailSent, Connections, TailOf
  <2>5. \/ k.replies = <<HeadOf(r)>> /\ part = Nothing
        \/ k.replies = << >> /\ part = HeadOf(r)
    BY <1>2 DEF Exchange
  <2> QED BY <2>3, <2>4, <2>5 DEF Exchange
<1>3. CASE \E state \in {"fin", "rst"} : n = [k EXCEPT !.link = state]
  BY <1>3 DEF Exchange, Connections
<1>4. CASE k.begun /\ k.replies = << >> /\ n = MoreSent(k)
  <2>1. k.requests = <<r>> /\ part = HeadOf(r)
    BY <1>4 DEF Exchange
  <2>2. n.requests = k.requests /\ n.begun = k.begun /\ n.replies = k.replies
    BY <1>4 DEF MoreSent, Connections
  <2> QED BY <1>4, <2>1, <2>2 DEF Exchange
<1> QED BY <1>1, <1>2, <1>3, <1>4

LEMMA DaemonKeeps ==
  ASSUME IInv, Daemon, UNCHANGED <<pc, tuples>>
  PROVE  IInv'
<1> USE DEF IInv
<1>1. PICK c \in DOMAIN conns, k \in Connections :
        /\ conns' = [conns EXCEPT ![c] = k]
        /\ \/ conns[c].requests # << >> /\ ~conns[c].begun /\ k = HeadSent(conns[c])
           \/ conns[c].requests # << >> /\ conns[c].begun /\ k = TailSent(conns[c])
           \/ conns[c].begun /\ conns[c].replies = << >> /\ k = MoreSent(conns[c])
           \/ \E state \in {"fin", "rst"} : k = [conns[c] EXCEPT !.link = state]
        /\ UNCHANGED <<timeoutMS, part>>
  BY DaemonStep DEF TypeOK
<1>2. conns \in Seq(Connections) /\ conns[c] \in Connections
  BY DEF TypeOK, LinkTypeOK
<1>3. /\ conns' \in Seq(Connections) /\ Len(conns') = Len(conns)
      /\ conns'[c] = k /\ \A d \in DOMAIN conns \ {c} : conns'[d] = conns[d]
      /\ DOMAIN conns' = DOMAIN conns
  BY <1>1, <1>2, ReplaceConnection
<1>4. k.held = conns[c].held /\ (k.begun => k.requests # << >>)
  BY <1>1, <1>2 DEF HeadSent, MoreSent, TailSent, Connections, BegunForRequest
<1>5. TypeOK'
  BY <1>1, <1>3 DEF TypeOK, LinkTypeOK
<1>6. BegunForRequest'
  BY <1>3, <1>4 DEF BegunForRequest
<1>7. OnlyCurrentHeld'
  BY <1>3, <1>4 DEF OnlyCurrentHeld, Current, Connected
<1>8. Progress'
  <2>1. pc = "write" => Unused(conns'[Current])
    BY <1>1, <1>2, <1>3 DEF Progress, Unused, Connections, Connected, Current
  <2>2. ASSUME pc = "read"
        PROVE  Exchange(conns[Current], Record)'
    <3>1. Record \in 1 .. Records /\ Record' = Record /\ Current' = Current
      BY <1>3, <2>2 DEF Record, TypeOK, Progress, Connected, Current
    <3>2. Exchange(conns[Current], Record)
      BY <2>2 DEF Progress
    <3>3. CASE c = Current
      <4>1. Exchange(k, Record)'
        BY <1>1, <1>2, <3>1, <3>2, <3>3, ExchangeAdvances DEF Exchange
      <4> QED BY <1>3, <3>1, <3>3, <4>1
    <3>4. CASE c # Current
      BY <1>1, <1>2, <1>3, <2>2, <3>1, <3>2, <3>4 DEF Exchange, Current, Progress, Connected
    <3> QED BY <3>3, <3>4
  <2> QED BY <1>1, <1>3, <2>1, <2>2 DEF Progress, Connected, Record, Current
<1> QED BY <1>5, <1>6, <1>7, <1>8

-----------------------------------------------------------------------------
(* The loader's steps *)

LEMMA ConnectStep ==
  ASSUME IInv, Connect
  PROVE  IInv'
<1> USE DEF IInv
<1>1. pc = "next" /\ Record <= Records /\ UNCHANGED <<timeoutMS, part, tuples>>
  BY DEF Connect
<1>2. CASE pc' = "failed" /\ UNCHANGED conns
  BY <1>1, <1>2 DEF TypeOK, LinkTypeOK, BegunForRequest, Progress, OnlyCurrentHeld,
                    Connected, Current
<1>3. CASE pc' = "write" /\ conns' = Opened
  <2>1. /\ conns' \in Seq(Connections) /\ Len(conns') = Len(conns) + 1
        /\ \A c \in DOMAIN conns : conns'[c] = conns[c]
        /\ conns'[Len(conns')] =
             [requests |-> << >>, replies |-> << >>, begun |-> FALSE,
              more |-> FALSE, link |-> "open", held |-> TRUE]
    BY <1>3, OpenConnectionAdded DEF TypeOK, LinkTypeOK
  <2>2. \A c \in DOMAIN conns' : c \in DOMAIN conns \/ c = Len(conns')
    BY <2>1 DEF TypeOK, LinkTypeOK
  <2>3. conns' # << >>
    BY <2>1 DEF TypeOK, LinkTypeOK
  <2>4. TypeOK'
    BY <1>1, <1>3, <2>1 DEF TypeOK, LinkTypeOK
  <2>5. BegunForRequest'
    BY <2>1, <2>2 DEF BegunForRequest
  <2>6. Progress'
    BY <1>1, <1>3, <2>1, <2>3 DEF Progress, Connected, Unused, Current, Record
  <2>7. OnlyCurrentHeld'
    BY <1>1, <1>3, <2>1, <2>2 DEF OnlyCurrentHeld, Connected, Current
  <2> QED BY <2>4, <2>5, <2>6, <2>7
<1> QED BY <1>2, <1>3 DEF Connect

(* The connection in use is there.                                         *)
LEMMA CurrentThere ==
  ASSUME IInv, Connected
  PROVE  /\ Current \in DOMAIN conns /\ conns[Current] \in Connections
         /\ conns[Current].begun => conns[Current].requests # << >>
<1>1. conns \in Seq(Connections) /\ conns # << >>
  BY DEF IInv, TypeOK, LinkTypeOK, Progress
<1>2. Current \in DOMAIN conns
  BY <1>1 DEF Current
<1> QED BY <1>1, <1>2 DEF IInv, BegunForRequest

(* What every step on the current connection does to the connections.      *)
LEMMA CurrentStep ==
  ASSUME IInv, Connected, NEW k \in Connections, conns' = [conns EXCEPT ![Current] = k]
  PROVE  /\ Current \in DOMAIN conns /\ Current' = Current
         /\ conns' \in Seq(Connections) /\ conns' # << >>
         /\ conns'[Current] = k
         /\ \A c \in DOMAIN conns' \ {Current} : c \in DOMAIN conns /\ conns'[c] = conns[c]
<1>1. conns \in Seq(Connections) /\ conns # << >>
  BY DEF IInv, TypeOK, LinkTypeOK, Progress
<1>2. Current \in DOMAIN conns
  BY <1>1 DEF Current
<1> QED BY <1>1, <1>2, ReplaceConnection DEF Current

(* The steps that end an exchange: the connection is closed, and a tuple   *)
(* is returned or the task fails.                                          *)
LEMMA ClosingStep ==
  ASSUME IInv, Connected, NEW k \in Connections, conns' = [conns EXCEPT ![Current] = k],
         ~k.held, k.begun => k.requests # << >>,
         part' = Nothing, UNCHANGED timeoutMS,
         \/ pc' = "next" /\ \E t \in Scan!Tuples : tuples' = Append(tuples, t)
         \/ pc' = "failed" /\ tuples' = tuples
  PROVE  IInv'
<1> USE DEF IInv
<1>1. TypeOK'
  <2>1. tuples' \in Seq(Scan!Tuples)
    BY DEF TypeOK
  <2> QED BY <2>1, CurrentStep DEF TypeOK, LinkTypeOK, Parts
<1>2. BegunForRequest'
  BY CurrentStep DEF BegunForRequest
<1>3. Progress'
  <2>1. Len(tuples') <= Records
    <3>1. Len(tuples) \in Nat /\ Len(tuples) + 1 <= Records
      BY DEF Progress, Record, TypeOK
    <3>2. Len(tuples') = Len(tuples) \/ Len(tuples') = Len(tuples) + 1
      BY DEF TypeOK
    <3> QED BY <3>1, <3>2, LinkAssumption
  <2> QED BY <2>1 DEF Progress, Connected
<1>4. OnlyCurrentHeld'
  BY CurrentStep DEF OnlyCurrentHeld
<1> QED BY <1>1, <1>2, <1>3, <1>4

LEMMA WriteStep ==
  ASSUME IInv, Write
  PROVE  IInv'
<1> USE DEF IInv
<1>1. Connected /\ conns[Current] \in Connections /\ Record \in 1 .. Records
  BY CurrentStep DEF Write, Connected, TypeOK, LinkTypeOK, Progress, Record, Current
<1>2. part = Nothing /\ Unused(conns[Current])
  BY DEF Write, Progress
<1>3. CASE conns' = Sent(Record) /\ pc' = "read"
  <2> DEFINE k == [conns[Current] EXCEPT !.requests = <<Record>>]
  <2>1. conns' = [conns EXCEPT ![Current] = k]
    BY <1>2, <1>3, AppendToShort DEF Sent, Unused
  <2>2. k \in Connections
    <3>1. <<Record>> \in Seq(1 .. Records)
      BY <1>1
    <3> QED BY <1>1, <3>1 DEF Connections
  <2>3. k.requests = <<Record>> /\ k.replies = << >> /\ ~k.begun /\ ~k.more /\ k.held = conns[Current].held
    BY <1>1, <1>2 DEF Unused, Connections
  <2> HIDE DEF k
  <2>4. UNCHANGED <<timeoutMS, part, tuples>>
    BY DEF Write
  <2>5. TypeOK'
    BY <1>1, <1>3, <2>1, <2>2, <2>4, CurrentStep DEF TypeOK, LinkTypeOK
  <2>6. BegunForRequest'
    BY <1>1, <2>1, <2>2, <2>3, CurrentStep DEF BegunForRequest
  <2>7. Progress'
    BY <1>1, <1>2, <1>3, <2>1, <2>2, <2>3, <2>4, CurrentStep
       DEF Progress, Connected, Exchange, Record
  <2>8. OnlyCurrentHeld'
    BY <1>1, <1>3, <2>1, <2>2, <2>3, CurrentStep DEF OnlyCurrentHeld, Connected
  <2> QED BY <2>5, <2>6, <2>7, <2>8
<1>4. CASE conns' = Closed(conns) /\ pc' = "failed"
  <2> DEFINE k == [conns[Current] EXCEPT !.held = FALSE]
  <2>1. k \in Connections /\ ~k.held /\ ~k.begun
    BY <1>1, <1>2 DEF Connections, Unused
  <2>2. conns' = [conns EXCEPT ![Current] = k]
    BY <1>4 DEF Closed
  <2> QED BY <1>1, <1>2, <1>4, <2>1, <2>2, ClosingStep DEF Write
<1> QED BY <1>3, <1>4 DEF Write

(* What the loader reads: the head of the reply, more of it, its tail.     *)
LEMMA ReadsOwnReply ==
  ASSUME IInv, pc = "read", Replies # << >>
  PROVE  /\ Record \in 1 .. Records
         /\ Head(Replies).part = "head" =>
              /\ part = Nothing /\ Head(Replies) = HeadOf(Record) /\ ~conns[Current].more
              /\ \/ conns[Current].begun /\ Tail(Replies) = << >>
                    /\ conns[Current].requests = <<Record>>
                 \/ ~conns[Current].begun /\ Tail(Replies) = <<TailOf(Record)>>
                    /\ conns[Current].requests = << >>
         /\ Head(Replies).part = "tail" =>
              /\ part = HeadOf(Record) /\ Head(Replies) = TailOf(Record)
              /\ ~conns[Current].begun
<1>1. Record \in 1 .. Records /\ Exchange(conns[Current], Record)
  BY DEF IInv, Progress, Connected, Record, TypeOK
<1>2. /\ Head(<<HeadOf(Record)>>) = HeadOf(Record)
      /\ Tail(<<HeadOf(Record)>>) = << >>
      /\ Head(<<HeadOf(Record), TailOf(Record)>>) = HeadOf(Record)
      /\ Tail(<<HeadOf(Record), TailOf(Record)>>) = <<TailOf(Record)>>
      /\ Head(<<TailOf(Record)>>) = TailOf(Record)
  OBVIOUS
<1>3. HeadOf(Record).part = "head" /\ TailOf(Record).part = "tail"
  BY DEF HeadOf, TailOf
<1> QED BY <1>1, <1>2, <1>3 DEF Exchange, Replies

(* Reading keeps the rest of the connection.                               *)
LEMMA ReceivedOne ==
  ASSUME IInv, Connected, Replies # << >>
  PROVE  /\ [conns[Current] EXCEPT !.replies = Tail(Replies)] \in Connections
         /\ Received = [conns EXCEPT ![Current] =
                          [conns[Current] EXCEPT !.replies = Tail(Replies)]]
<1>1. conns[Current] \in Connections
  BY DEF IInv, TypeOK, LinkTypeOK, Progress, Current
<1>2. Tail(Replies) \in Seq(Pieces)
  <2>1. Replies \in Seq(Pieces)
    BY <1>1 DEF Replies, Connections
  <2> QED BY <2>1, HeadTailProperties
<1> QED BY <1>1, <1>2 DEF Received, Replies, Connections

LEMMA ReadHeadStep ==
  ASSUME IInv, ReadHead
  PROVE  IInv'
<1> USE DEF IInv
<1> DEFINE k == [conns[Current] EXCEPT !.replies = Tail(Replies)]
<1>1. pc = "read" /\ Connected /\ Replies # << >> /\ Head(Replies).part = "head"
  BY DEF ReadHead, HeadArrived, Connected
<1>2. conns[Current] \in Connections /\ k \in Connections /\ conns' = [conns EXCEPT ![Current] = k]
  BY <1>1, ReceivedOne DEF ReadHead, TypeOK, LinkTypeOK, Progress, Current
<1>3. /\ k.replies = Tail(Replies) /\ k.requests = conns[Current].requests
      /\ k.begun = conns[Current].begun /\ k.held = conns[Current].held
      /\ k.more = conns[Current].more
  BY <1>2 DEF Connections
<1> HIDE DEF k
<1>4. /\ Record \in 1 .. Records /\ part' = HeadOf(Record)
      /\ UNCHANGED <<timeoutMS, pc, tuples>>
  BY <1>1, ReadsOwnReply DEF ReadHead
<1>5. TypeOK'
  BY <1>1, <1>2, <1>4, CurrentStep DEF TypeOK, LinkTypeOK, Parts, HeadOf
<1>6. BegunForRequest'
  BY <1>1, <1>2, <1>3, CurrentStep DEF BegunForRequest
<1>7. Exchange(conns[Current], Record)'
  BY <1>1, <1>2, <1>3, <1>4, CurrentStep, ReadsOwnReply DEF Exchange, Record
<1>8. Progress'
  BY <1>1, <1>2, <1>4, <1>7, CurrentStep DEF Progress, Connected, Record
<1>9. OnlyCurrentHeld'
  BY <1>1, <1>2, <1>3, <1>4, CurrentStep DEF OnlyCurrentHeld, Connected
<1> QED BY <1>5, <1>6, <1>8, <1>9

LEMMA ReadMoreStep ==
  ASSUME IInv, ReadMore
  PROVE  IInv' /\ tuples' = tuples
<1> USE DEF IInv
<1> DEFINE k == [conns[Current] EXCEPT !.more = FALSE]
<1>1. pc = "read" /\ Connected /\ Replies = << >> /\ conns[Current].more
  BY DEF ReadMore, MoreArrived, Connected
<1>2. conns[Current] \in Connections /\ k \in Connections /\ conns' = [conns EXCEPT ![Current] = k]
  BY <1>1, CurrentThere DEF ReadMore, ReceivedMore, Connections
<1>3. /\ k.replies = conns[Current].replies /\ k.requests = conns[Current].requests
      /\ k.begun = conns[Current].begun /\ k.held = conns[Current].held
  BY <1>2 DEF Connections
<1> HIDE DEF k
<1>4. /\ conns[Current].requests = <<Record>> /\ conns[Current].begun
      /\ conns[Current].replies = << >> /\ part = HeadOf(Record)
  BY <1>1 DEF Progress, Exchange
<1>5. UNCHANGED <<timeoutMS, part, pc, tuples>>
  BY <1>4 DEF ReadMore, LineSoFar, HeadOf, Nothing
<1>6. TypeOK'
  BY <1>1, <1>2, <1>5, CurrentStep DEF TypeOK, LinkTypeOK
<1>7. BegunForRequest'
  BY <1>1, <1>2, <1>3, CurrentStep DEF BegunForRequest
<1>8. Progress'
  BY <1>1, <1>2, <1>3, <1>4, <1>5, CurrentStep DEF Progress, Connected, Exchange, Record
<1>9. OnlyCurrentHeld'
  BY <1>1, <1>2, <1>3, <1>5, CurrentStep DEF OnlyCurrentHeld, Connected
<1> QED BY <1>5, <1>6, <1>7, <1>8, <1>9

(* A tuple that is returned is one the contract allows.                    *)
LEMMA ReturnsAllowed ==
  ASSUME IInv, ReadLine \/ ReadEnd \/ ReadTimeout
  PROVE  /\ pc = "read" /\ pc' = "next" /\ Record \in 1 .. Records
         /\ \E t \in Scan!Tuples :
              Scan!TupleAllowed(Record, t) /\ tuples' = Append(tuples, t)
<1>1. pc = "read" /\ pc' = "next" /\ Record \in 1 .. Records
  BY DEF IInv, Progress, Connected, Record, TypeOK, ReadLine, ReadEnd, ReadTimeout, Return
<1>2. CASE ReadLine
  <2> DEFINE t == [result |-> [of |-> Record, part |-> "line"], timedOut |-> FALSE]
  <2>1. Head(Replies).of = Record /\ part.part = "head"
    BY <1>1, <1>2, ReadsOwnReply DEF ReadLine, LineArrived, HeadOf, TailOf
  <2>2. tuples' = Append(tuples, t)
    BY <1>2, <2>1 DEF ReadLine, Return, LineEnding
  <2>3. t \in Scan!Tuples /\ Scan!TupleAllowed(Record, t)
    BY <1>1 DEF Scan!Tuples, Scan!Lines, Scan!TupleAllowed, Scan!OwnResults
  <2> QED BY <1>1, <2>2, <2>3
<1>3. CASE ReadEnd
  <2> DEFINE t == [result |-> part, timedOut |-> FALSE]
  <2>1. part = Nothing \/ part = HeadOf(Record)
    BY <1>1 DEF IInv, Progress, Exchange
  <2>2. tuples' = Append(tuples, t)
    BY <1>3 DEF ReadEnd, Return
  <2>3. t \in Scan!Tuples /\ Scan!TupleAllowed(Record, t)
    BY <1>1, <2>1 DEF Scan!Tuples, Scan!Lines, Scan!TupleAllowed, Scan!OwnResults,
                      Scan!Empty, Nothing, HeadOf
  <2> QED BY <1>1, <2>2, <2>3
<1>4. CASE ReadTimeout
  <2> DEFINE t == [result |-> Nothing, timedOut |-> TRUE]
  <2>1. tuples' = Append(tuples, t)
    BY <1>4 DEF ReadTimeout, Return
  <2>2. t \in Scan!Tuples /\ Scan!TupleAllowed(Record, t)
    BY DEF Scan!Tuples, Scan!Lines, Scan!TupleAllowed, Scan!OwnResults, Scan!Empty, Nothing
  <2> QED BY <1>1, <2>1, <2>2
<1> QED BY <1>2, <1>3, <1>4

LEMMA ReturnStep ==
  ASSUME IInv, ReadLine \/ ReadEnd \/ ReadTimeout
  PROVE  IInv'
<1>1. Connected /\ conns[Current] \in Connections
  BY ReturnsAllowed DEF IInv, Connected, TypeOK, LinkTypeOK, Progress, Current
<1>2. part' = Nothing /\ UNCHANGED timeoutMS
  BY DEF ReadLine, ReadEnd, ReadTimeout, Return
<1>3. \E k \in Connections :
        /\ conns' = [conns EXCEPT ![Current] = k] /\ ~k.held
        /\ k.begun => k.requests # << >>
  <2>1. CASE ReadLine
    <3> DEFINE n == [conns[Current] EXCEPT !.replies = Tail(Replies)]
               k == [n EXCEPT !.held = FALSE]
    <3>1. n \in Connections /\ Received = [conns EXCEPT ![Current] = n]
      BY <1>1, <2>1, ReceivedOne DEF ReadLine, LineArrived
    <3>2. n.begun = conns[Current].begun
      BY <1>1 DEF Connections
    <3>3. ~conns[Current].begun
      BY <2>1, ReadsOwnReply DEF ReadLine, LineArrived
    <3>4. Received[Current] = n /\ conns' = [Received EXCEPT ![Current].held = FALSE]
      BY <1>1, <2>1, <3>1, CurrentStep DEF ReadLine, Return, Closed, IInv, TypeOK, LinkTypeOK,
         Progress, Current
    <3> HIDE DEF n
    <3>5. conns' = [conns EXCEPT ![Current] = k]
      BY <3>1, <3>4
    <3>6. k \in Connections /\ ~k.held /\ ~k.begun
      BY <3>1, <3>2, <3>3 DEF Connections
    <3> QED BY <3>5, <3>6
  <2>2. CASE ReadEnd \/ ReadTimeout
    <3> DEFINE k == [conns[Current] EXCEPT !.held = FALSE]
    <3>1. conns' = [conns EXCEPT ![Current] = k]
      BY <2>2 DEF ReadEnd, ReadTimeout, Return, Closed
    <3>2. k \in Connections /\ ~k.held /\ (k.begun => k.requests # << >>)
      BY <1>1, CurrentThere DEF Connections
    <3> QED BY <3>1, <3>2
  <2> QED BY <2>1, <2>2
<1> QED BY <1>1, <1>2, <1>3, ReturnsAllowed, ClosingStep

LEMMA ReadResetStep ==
  ASSUME IInv, ReadReset
  PROVE  IInv'
<1> DEFINE k == [conns[Current] EXCEPT !.held = FALSE]
<1>1. Connected /\ conns[Current] \in Connections
  BY DEF ReadReset, IInv, Connected, TypeOK, LinkTypeOK, Progress, Current
<1>2. conns' = [conns EXCEPT ![Current] = k]
  BY DEF ReadReset, Closed
<1>3. k \in Connections /\ ~k.held /\ (k.begun => k.requests # << >>)
  BY <1>1, CurrentThere DEF Connections
<1> QED BY <1>1, <1>2, <1>3, ClosingStep DEF ReadReset

LEMMA FinishStep ==
  ASSUME IInv, Finish
  PROVE  IInv'
BY DEF Finish, IInv, TypeOK, LinkTypeOK, BegunForRequest, Progress, OnlyCurrentHeld,
       Connected, Current

-----------------------------------------------------------------------------
(* Theorems *)

(* The invariant holds in every reachable state.                           *)
THEOREM Inductive == Spec => []IInv
<1>1. Init => IInv
  BY LinkAssumption DEF Init, LinkInit, IInv, TypeOK, LinkTypeOK, Parts, BegunForRequest, Progress,
         OnlyCurrentHeld, Connected, Current
<1>2. IInv /\ [Next]_vars => IInv'
  <2> SUFFICES ASSUME IInv, [Next]_vars
               PROVE  IInv'
    OBVIOUS
  <2>1. CASE Loader
    BY <2>1, ConnectStep, WriteStep, ReadHeadStep, ReadMoreStep, ReturnStep, ReadResetStep, FinishStep
       DEF Loader
  <2>2. CASE Daemon /\ UNCHANGED <<pc, tuples>>
    BY <2>2, DaemonKeeps
  <2>3. CASE UNCHANGED vars
    BY <2>3 DEF vars, IInv, TypeOK, LinkTypeOK, BegunForRequest, Progress,
                OnlyCurrentHeld, Connected, Current, Record, Unused, Exchange
  <2> QED BY <2>1, <2>2, <2>3 DEF Next
<1> QED BY <1>1, <1>2, PTL DEF Spec

(* Every variable keeps its type.                                          *)
THEOREM TypeCorrect == Spec => []TypeOK
BY Inductive, PTL DEF IInv

(* No path through processFile leaves a socket open.                       *)
THEOREM SocketsClosed == Spec => []NoSocketLeft
<1>1. IInv => NoSocketLeft
  BY DEF IInv, OnlyCurrentHeld, Connected, NoSocketLeft
<1> QED BY <1>1, Inductive, PTL

(* The loader implements the contract of a daemon loader: whatever the     *)
(* daemon does and whenever, no tuple carries another record's answer.     *)
THEOREM Implements == Spec => ImplementsScan
<1>1. Init => Scan!Init
  BY DEF Init, Scan!Init
<1>2. IInv /\ [Next]_vars => [Scan!Next]_<<tuples, IF pc \in {"done", "failed"} THEN pc ELSE "running">>
  <2> DEFINE status == IF pc \in {"done", "failed"} THEN pc ELSE "running"
  <2> SUFFICES ASSUME IInv, [Next]_vars
               PROVE  Scan!Next \/ UNCHANGED <<tuples, status>>
    OBVIOUS
  <2>1. CASE ReadLine \/ ReadEnd \/ ReadTimeout
    <3>1. PICK t \in Scan!Tuples :
            Scan!TupleAllowed(Record, t) /\ tuples' = Append(tuples, t)
      BY <2>1, ReturnsAllowed
    <3>2. pc = "read" /\ pc' = "next" /\ Record \in 1 .. Records
      BY <2>1, ReturnsAllowed
    <3>3. Len(tuples) < Records
      BY <3>2, LinkAssumption DEF Record, IInv, TypeOK
    <3> QED BY <3>1, <3>2, <3>3 DEF Scan!Next, Scan!Deliver, Record
  <2>2. CASE Finish
    <3>1. Len(tuples) = Records
      <4>1. Len(tuples) \in Nat /\ Len(tuples) + 1 > Records /\ Len(tuples) <= Records
        BY <2>2 DEF Finish, Record, IInv, TypeOK, Progress
      <4> QED BY <4>1, LinkAssumption
    <3> QED BY <2>2, <3>1 DEF Finish, Scan!Next, Scan!Finish
  <2>3. CASE Connect \/ Write \/ ReadHead \/ ReadMore \/ ReadReset
    <3>1. tuples' = tuples /\ pc \notin {"done", "failed"} /\ pc' # "done"
      BY <2>3 DEF Connect, Write, ReadHead, ReadMore, ReadReset
    <3> QED BY <3>1 DEF Scan!Next, Scan!Fail
  <2>4. CASE UNCHANGED <<pc, tuples>>
    BY <2>4
  <2> QED BY <2>1, <2>2, <2>3, <2>4 DEF Next, Loader, vars
<1> QED BY <1>1, <1>2, Inductive, PTL DEF Spec, ImplementsScan, Scan!Spec
=============================================================================
