----------------------------- MODULE DaemonLink -----------------------------
(***************************************************************************)
(* The TCP connections between a loader and a scanning daemon on this      *)
(* host, and the daemon, seen from how the loaders and the test Server use *)
(* it: it reads a line per request, in order, and sends a line back, which *)
(* the loader may receive in any number of pieces.  It may close or abort  *)
(* a connection at any point.  Assumed: a connect and a write, which have  *)
(* no timeout, do not block (the daemon's host accepts, and a request fits *)
(* into the buffers of the socket).                                        *)
(***************************************************************************)
EXTENDS Integers, Sequences

CONSTANTS
  Records,   \* number of records, numbered from 1
  Timeouts,  \* the loader's timeoutMS argument
  MaxInt     \* Integer.MAX_VALUE

ASSUME LinkAssumption ==
  /\ Records \in Nat
  /\ Timeouts \subseteq Int
  /\ MaxInt \in Nat

VARIABLES
  timeoutMS,  \* the loader's field
  conns,      \* the connections made so far
  part        \* what the loader's current readLine has read of a line

(***************************************************************************)
(* A connection: requests the daemon has not answered, pieces of replies   *)
(* the loader has not read (bytes that follow a piece it has not read are  *)
(* part of that piece), whether the head of the reply to the first request *)
(* was sent, whether more of it, but not its end, came after the pieces    *)
(* were read, how the daemon's side stands, and whether the loader's side  *)
(* is open.                                                                *)
(***************************************************************************)
Pieces == [of : 1 .. Records, part : {"head", "tail"}]
Connections ==
  [requests : Seq(1 .. Records), replies : Seq(Pieces), begun : BOOLEAN,
   more : BOOLEAN, link : {"open", "fin", "rst"}, held : BOOLEAN]

Nothing == [of |-> 0, part |-> "none"]
Parts == {Nothing} \cup [of : 1 .. Records, part : {"head", "middle"}]

LinkTypeOK ==
  /\ timeoutMS \in Timeouts
  /\ conns \in Seq(Connections)
  /\ part \in Parts

LinkInit ==
  /\ timeoutMS \in Timeouts
  /\ conns = << >>
  /\ part = Nothing

-----------------------------------------------------------------------------
(* The loader's side *)

\* (int): the low bits.  setSoTimeout rejects a negative time, takes 0 for
\* "for ever", and is not called when the timeout exceeds an int.
ToInt(n) == ((n + MaxInt + 1) % (2 * (MaxInt + 1))) - (MaxInt + 1)
SoTimeout == IF timeoutMS < MaxInt THEN ToInt(timeoutMS) ELSE 0

Current == Len(conns)
Link == conns[Current].link
Replies == conns[Current].replies

Opened ==
  Append(conns, [requests |-> << >>, replies |-> << >>, begun |-> FALSE,
                 more |-> FALSE, link |-> "open", held |-> TRUE])
Closed(cs) == [cs EXCEPT ![Current].held = FALSE]
Sent(i) == [conns EXCEPT ![Current].requests = Append(@, i)]
Received == [conns EXCEPT ![Current].replies = Tail(@)]
ReceivedMore == [conns EXCEPT ![Current].more = FALSE]

\* What readLine has after reading on in a line, and what it returns at the
\* end of the line, given its last piece.
LineSoFar ==
  IF part = Nothing THEN [of |-> Head(conns[Current].requests), part |-> "middle"]
  ELSE part
LineEnding(piece) ==
  [of |-> piece.of, part |-> IF part.part = "head" THEN "line" ELSE "tail"]

\* What a blocked readLine meets.  The socket's timeout counts from the last
\* bytes that came, not from the call.
HeadArrived == Replies # << >> /\ Head(Replies).part = "head"
LineArrived == Replies # << >> /\ Head(Replies).part = "tail"
MoreArrived == Replies = << >> /\ conns[Current].more
NothingArrived == Replies = << >> /\ ~conns[Current].more
EndOfStream == NothingArrived /\ Link = "fin"
TimeIsUp == NothingArrived /\ Link = "open" /\ SoTimeout > 0
WasReset == Link = "rst"

-----------------------------------------------------------------------------
(* The daemon's side of connection c *)

\* The head of the reply to the first request, more of it, and its tail.
SendHead(c) ==
  /\ conns[c].link = "open"
  /\ conns[c].requests # << >>
  /\ ~conns[c].begun
  /\ conns' = [conns EXCEPT
       ![c].begun = TRUE,
       ![c].replies = Append(@, [of |-> Head(conns[c].requests), part |-> "head"])]
  /\ UNCHANGED <<timeoutMS, part>>

SendMore(c) ==
  /\ conns[c].link = "open"
  /\ conns[c].begun
  /\ conns[c].replies = << >>
  /\ ~conns[c].more
  /\ conns' = [conns EXCEPT ![c].more = TRUE]
  /\ UNCHANGED <<timeoutMS, part>>

SendTail(c) ==
  /\ conns[c].link = "open"
  /\ conns[c].begun
  /\ conns' = [conns EXCEPT
       ![c].begun = FALSE,
       ![c].more = FALSE,
       ![c].requests = Tail(@),
       ![c].replies = Append(@, [of |-> Head(conns[c].requests), part |-> "tail"])]
  /\ UNCHANGED <<timeoutMS, part>>

\* The daemon closes the connection: what it sent can still be read.
CloseLink(c) ==
  /\ conns[c].link = "open"
  /\ conns' = [conns EXCEPT ![c].link = "fin"]
  /\ UNCHANGED <<timeoutMS, part>>

\* The connection is reset: the daemon died, or was written to after a close.
ResetLink(c) ==
  /\ conns[c].link \in {"open", "fin"}
  /\ conns' = [conns EXCEPT ![c].link = "rst"]
  /\ UNCHANGED <<timeoutMS, part>>

Answers(c) == SendHead(c) \/ SendMore(c) \/ SendTail(c)
Drips == \E c \in DOMAIN conns : SendMore(c)
Daemon == \E c \in DOMAIN conns : Answers(c) \/ CloseLink(c) \/ ResetLink(c)
=============================================================================
