-------------------------- MODULE DaemonLinkProofs --------------------------
(***************************************************************************)
(* What the daemon may do to a connection, and what each side keeps.       *)
(***************************************************************************)
EXTENDS DaemonLink, TLAPS, SequenceTheorems

(* Appending to a sequence of none or one.                                 *)
LEMMA AppendToShort ==
  ASSUME NEW x, NEW y
  PROVE  Append(<< >>, y) = <<y>> /\ Append(<<x>>, y) = <<x, y>>
<1> DEFINE S == {x, y}
<1>1. /\ << >> \in Seq(S) /\ <<x>> \in Seq(S) /\ <<y>> \in Seq(S) /\ <<x, y>> \in Seq(S)
      /\ Len(<< >>) = 0 /\ Len(<<x>>) = 1 /\ Len(<<y>>) = 1 /\ Len(<<x, y>>) = 2
  OBVIOUS
<1>2. /\ Append(<< >>, y) \in Seq(S) /\ Len(Append(<< >>, y)) = 1
      /\ Append(<< >>, y)[1] = y
  BY <1>1
<1>3. /\ Append(<<x>>, y) \in Seq(S) /\ Len(Append(<<x>>, y)) = 2
      /\ Append(<<x>>, y)[1] = x /\ Append(<<x>>, y)[2] = y
  BY <1>1
<1>4. Append(<< >>, y) = <<y>>
  <2>1. \A i \in 1 .. Len(Append(<< >>, y)) : Append(<< >>, y)[i] = <<y>>[i]
    BY <1>2
  <2> QED BY <1>1, <1>2, <2>1, SeqEqual
<1>5. Append(<<x>>, y) = <<x, y>>
  <2>1. \A i \in 1 .. Len(Append(<<x>>, y)) : Append(<<x>>, y)[i] = <<x, y>>[i]
    BY <1>3
  <2> QED BY <1>1, <1>3, <2>1, SeqEqual
<1> QED BY <1>4, <1>5

(* Replacing one connection, or adding one, gives connections again.       *)
LEMMA ReplaceConnection ==
  ASSUME conns \in Seq(Connections), NEW c \in DOMAIN conns, NEW k \in Connections
  PROVE  /\ [conns EXCEPT ![c] = k] \in Seq(Connections)
         /\ Len([conns EXCEPT ![c] = k]) = Len(conns)
         /\ [conns EXCEPT ![c] = k][c] = k
         /\ \A d \in DOMAIN conns \ {c} : [conns EXCEPT ![c] = k][d] = conns[d]
OBVIOUS

LEMMA OpenConnectionAdded ==
  ASSUME conns \in Seq(Connections)
  PROVE  /\ Opened \in Seq(Connections)
         /\ Len(Opened) = Len(conns) + 1
         /\ \A d \in DOMAIN conns : Opened[d] = conns[d]
         /\ Opened[Len(Opened)] =
              [requests |-> << >>, replies |-> << >>, begun |-> FALSE,
               more |-> FALSE, link |-> "open", held |-> TRUE]
<1> DEFINE k == [requests |-> << >>, replies |-> << >>, begun |-> FALSE,
                 more |-> FALSE, link |-> "open", held |-> TRUE]
<1>1. k \in Connections
  BY DEF Connections
<1> QED BY <1>1 DEF Opened

(* One step of the daemon, on the connection it concerns.                  *)
HeadSent(k) ==
  [k EXCEPT !.begun = TRUE,
            !.replies = Append(@, [of |-> Head(k.requests), part |-> "head"])]
MoreSent(k) == [k EXCEPT !.more = TRUE]
TailSent(k) ==
  [k EXCEPT !.begun = FALSE,
            !.more = FALSE,
            !.requests = Tail(@),
            !.replies = Append(@, [of |-> Head(k.requests), part |-> "tail"])]

(* The head and the tail leave a connection.                               *)
LEMMA SentType ==
  ASSUME NEW k \in Connections, k.requests # << >>
  PROVE  HeadSent(k) \in Connections /\ TailSent(k) \in Connections
<1> DEFINE h == [of |-> Head(k.requests), part |-> "head"]
           t == [of |-> Head(k.requests), part |-> "tail"]
<1>1. k.requests \in Seq(1 .. Records) /\ k.replies \in Seq(Pieces)
  BY DEF Connections
<1>2. Head(k.requests) \in 1 .. Records /\ Tail(k.requests) \in Seq(1 .. Records)
  <2> DEFINE S == 1 .. Records
             q == k.requests
  <2>1. q \in Seq(S) /\ q # << >>
    BY <1>1
  <2> HIDE DEF S, q
  <2>2. Head(q) \in S /\ Tail(q) \in Seq(S)
    BY <2>1
  <2> QED BY <2>2 DEF S, q
<1>3. h \in Pieces /\ t \in Pieces
  BY <1>2 DEF Pieces
<1> HIDE DEF h, t
<1>4. Append(k.replies, h) \in Seq(Pieces) /\ Append(k.replies, t) \in Seq(Pieces)
  BY <1>1, <1>3
<1>5. HeadSent(k) = [k EXCEPT !.begun = TRUE, !.replies = Append(k.replies, h)]
  BY DEF HeadSent, h, Connections
<1>6. TailSent(k) = [k EXCEPT !.begun = FALSE, !.more = FALSE,
                              !.requests = Tail(k.requests),
                              !.replies = Append(k.replies, t)]
  BY DEF TailSent, t, Connections
<1> QED BY <1>2, <1>4, <1>5, <1>6 DEF Connections

(* A reply that was begun is the reply to a request.                       *)
BegunForRequest ==
  \A c \in DOMAIN conns : conns[c].begun => conns[c].requests # << >>

LEMMA DaemonStep ==
  ASSUME LinkTypeOK, BegunForRequest, Daemon
  PROVE  \E c \in DOMAIN conns : \E k \in Connections :
           /\ conns' = [conns EXCEPT ![c] = k]
           /\ \/ /\ conns[c].link = "open" /\ conns[c].requests # << >> /\ ~conns[c].begun
                 /\ k = HeadSent(conns[c])
              \/ /\ conns[c].link = "open" /\ conns[c].requests # << >> /\ conns[c].begun
                 /\ k = TailSent(conns[c])
              \/ /\ conns[c].link = "open" /\ conns[c].begun /\ conns[c].replies = << >>
                 /\ k = MoreSent(conns[c])
              \/ \E state \in {"fin", "rst"} : k = [conns[c] EXCEPT !.link = state]
           /\ UNCHANGED <<timeoutMS, part>>
<1>1. PICK c \in DOMAIN conns : Answers(c) \/ CloseLink(c) \/ ResetLink(c)
  BY DEF Daemon
<1>2. conns[c] \in Connections
  BY DEF LinkTypeOK
<1>3. CASE SendHead(c)
  <2>1. HeadSent(conns[c]) \in Connections
    BY <1>2, <1>3, SentType DEF SendHead
  <2>2. conns' = [conns EXCEPT ![c] = HeadSent(conns[c])]
    BY <1>3 DEF SendHead, HeadSent
  <2> QED BY <1>3, <2>1, <2>2 DEF SendHead
<1>4. CASE SendTail(c)
  <2>1. TailSent(conns[c]) \in Connections
    BY <1>2, <1>4, SentType DEF SendTail, BegunForRequest
  <2>2. conns' = [conns EXCEPT ![c] = TailSent(conns[c])]
    BY <1>4 DEF SendTail, TailSent
  <2> QED BY <1>4, <2>1, <2>2 DEF SendTail, BegunForRequest
<1>5. CASE CloseLink(c) \/ ResetLink(c)
  <2>1. \A state \in {"fin", "rst"} : [conns[c] EXCEPT !.link = state] \in Connections
    BY <1>2 DEF Connections
  <2>2. \E state \in {"fin", "rst"} :
          conns' = [conns EXCEPT ![c] = [conns[c] EXCEPT !.link = state]]
    BY <1>5 DEF CloseLink, ResetLink
  <2> QED BY <1>5, <2>1, <2>2 DEF CloseLink, ResetLink
<1>6. CASE SendMore(c)
  <2>1. MoreSent(conns[c]) \in Connections
    BY <1>2 DEF MoreSent, Connections
  <2>2. conns' = [conns EXCEPT ![c] = MoreSent(conns[c])]
    BY <1>6 DEF SendMore, MoreSent
  <2> QED BY <1>6, <2>1, <2>2 DEF SendMore
<1> QED BY <1>1, <1>3, <1>4, <1>5, <1>6 DEF Answers
=============================================================================
