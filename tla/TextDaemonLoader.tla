-------------------------- MODULE TextDaemonLoader --------------------------
(***************************************************************************)
(* TextDaemonLoader over the splits of a task: init opens one connection   *)
(* per split, processFile sends every record over it and takes the next    *)
(* line for the answer, a SocketException makes it reconnect once, and     *)
(* cleanUp closes the connection at the end of the split.                  *)
(***************************************************************************)
EXTENDS DaemonLink

CONSTANT SplitEnds  \* the last record of each split

ASSUME SplitAssumption ==
  /\ SplitEnds \in Seq(0 .. Records)
  /\ Len(SplitEnds) > 0
  /\ SplitEnds[Len(SplitEnds)] = Records
  /\ \A s, t \in DOMAIN SplitEnds : s <= t => SplitEnds[s] <= SplitEnds[t]

VARIABLES
  pc,     \* how far the loader is with the record after the last tuple
  split,  \* the current split
  tuples, \* the tuples returned so far
  late,   \* history: records of the current connection that timed out
  lags    \* history: late when each tuple was made

vars == <<timeoutMS, conns, part, pc, split, tuples, late, lags>>

\* How RecordScan sees the task.
Status == IF pc \in {"done", "failed"} THEN pc ELSE "running"

Scan == INSTANCE RecordScan WITH status <- Status

Reading == {"read", "reread"}

TypeOK ==
  /\ LinkTypeOK
  /\ pc \in Reading \cup {"init", "next", "reconnect", "rewrite", "done", "failed"}
  /\ split \in DOMAIN SplitEnds
  /\ tuples \in Seq(Scan!Tuples)
  /\ late \in 0 .. Records
  /\ lags \in Seq(0 .. Records)

Init ==
  /\ LinkInit
  /\ pc = "init"
  /\ split = 1
  /\ tuples = << >>
  /\ late = 0
  /\ lags = << >>

Record == Len(tuples) + 1

-----------------------------------------------------------------------------
(* init and cleanUp *)

\* setSoTimeout and connect may throw; then the call that needed the
\* connection fails.
OpenConnection(cs, next) ==
  /\ \/ /\ SoTimeout >= 0
        /\ conns' = Append(cs, Opened[Len(Opened)])
        /\ pc' = next
        /\ late' = 0
     \/ /\ conns' = cs
        /\ pc' = "failed"
        /\ UNCHANGED late
  /\ UNCHANGED <<timeoutMS, part, split, tuples, lags>>

InitSplit == pc = "init" /\ OpenConnection(conns, "next")

CleanUp ==
  /\ pc = "next"
  /\ Len(tuples) = SplitEnds[split]
  /\ conns' = Closed(conns)
  /\ \/ split < Len(SplitEnds) /\ split' = split + 1 /\ pc' = "init"
     \/ split = Len(SplitEnds) /\ pc' = "done" /\ UNCHANGED split
  /\ UNCHANGED <<timeoutMS, part, tuples, late, lags>>

-----------------------------------------------------------------------------
(* processFile *)

Write ==
  /\ pc = "next"
  /\ Len(tuples) < SplitEnds[split]
  /\ \/ Link # "rst" /\ conns' = Sent(Record) /\ pc' = "read"
     \/ WasReset /\ pc' = "reconnect" /\ UNCHANGED conns
  /\ UNCHANGED <<timeoutMS, part, split, tuples, late, lags>>

\* Mutant: what arrives is not searched for the end of the line.
ReadHeadPastEnd ==
  /\ pc \in Reading
  /\ Replies # << >>
  /\ part' = Head(Replies)
  /\ conns' = Received
  /\ UNCHANGED <<timeoutMS, pc, split, tuples, late, lags>>

ReadHead ==
  /\ pc \in Reading
  /\ HeadArrived
  /\ part' = Head(Replies)
  /\ conns' = Received
  /\ UNCHANGED <<timeoutMS, pc, split, tuples, late, lags>>

ReadMore ==
  /\ pc \in Reading
  /\ MoreArrived
  /\ part' = LineSoFar
  /\ conns' = ReceivedMore
  /\ UNCHANGED <<timeoutMS, pc, split, tuples, late, lags>>

Return(result, timedOut) ==
  /\ part' = Nothing
  /\ tuples' = Append(tuples, [result |-> result, timedOut |-> timedOut])
  /\ lags' = Append(lags, late)
  /\ pc' = "next"
  /\ UNCHANGED <<timeoutMS, split>>

ReadLine ==
  /\ pc \in Reading
  /\ LineArrived
  /\ Return(LineEnding(Head(Replies)), FALSE)
  /\ conns' = Received
  /\ UNCHANGED late

\* The dead connection is kept.
ReadEnd ==
  /\ pc \in Reading
  /\ EndOfStream
  /\ Return(part, FALSE)
  /\ UNCHANGED <<conns, late>>

\* Mutant: a request that timed out is sent again on the same connection.
ReadTimeoutResends ==
  /\ pc = "read"
  /\ TimeIsUp
  /\ conns' = Sent(Record)
  /\ part' = Nothing
  /\ pc' = "reread"
  /\ UNCHANGED <<timeoutMS, split, tuples, late, lags>>

\* The connection is kept, and the answer is still to come on it.
ReadTimeout ==
  /\ pc = "read"
  /\ TimeIsUp
  /\ Return(Nothing, TRUE)
  /\ late' = late + 1
  /\ UNCHANGED conns

ReadReset ==
  /\ pc = "read"
  /\ WasReset
  /\ part' = Nothing
  /\ pc' = "reconnect"
  /\ UNCHANGED <<timeoutMS, conns, split, tuples, late, lags>>

\* Mutant: init without close.
ReconnectUnclosed == pc = "reconnect" /\ OpenConnection(conns, "rewrite")

\* close, then init, for the same record.
Reconnect == pc = "reconnect" /\ OpenConnection(Closed(conns), "rewrite")

\* Mutant: the first request, still buffered, goes out with the second.
RewriteTwice ==
  /\ pc = "rewrite"
  /\ \/ /\ Link # "rst"
        /\ conns' = [Sent(Record) EXCEPT ![Current].requests = Append(@, Record)]
        /\ pc' = "reread"
     \/ WasReset /\ pc' = "failed" /\ UNCHANGED conns
  /\ UNCHANGED <<timeoutMS, part, split, tuples, late, lags>>

Rewrite ==
  /\ pc = "rewrite"
  /\ \/ Link # "rst" /\ conns' = Sent(Record) /\ pc' = "reread"
     \/ WasReset /\ pc' = "failed" /\ UNCHANGED conns
  /\ UNCHANGED <<timeoutMS, part, split, tuples, late, lags>>

\* Mutant: a timeout of the second read is swallowed.
RereadSwallows ==
  /\ pc = "reread"
  /\ WasReset
  /\ part' = Nothing
  /\ pc' = "failed"
  /\ UNCHANGED <<timeoutMS, conns, split, tuples, late, lags>>

\* Nothing catches a timeout or a reset of the second read.
RereadFails ==
  /\ pc = "reread"
  /\ TimeIsUp \/ WasReset
  /\ part' = Nothing
  /\ pc' = "failed"
  /\ UNCHANGED <<timeoutMS, conns, split, tuples, late, lags>>

Loader ==
  \/ InitSplit \/ CleanUp \/ Write \/ ReadHead \/ ReadMore \/ ReadLine \/ ReadEnd \/ ReadTimeout
  \/ ReadReset \/ Reconnect \/ Rewrite \/ RereadFails

Next == Loader \/ (Daemon /\ UNCHANGED <<pc, split, tuples, late, lags>>)

(***************************************************************************)
(* The loader's thread runs and its socket times out.  Nothing is assumed  *)
(* of the daemon: it may stop at any point, and drip a reply for ever.     *)
(***************************************************************************)
Spec == Init /\ [][Next]_vars /\ WF_vars(Loader)

-----------------------------------------------------------------------------
(* Properties *)

(* Answers stay in step with the records but for one lag per timeout on    *)
(* the same connection: the answer given to record k is about record       *)
(* k - lags[k], and is cut at the front only after a timeout.  In          *)
(* particular reconnecting, or a new split, puts them in step again.       *)
AnswersLagByTimeouts ==
  \A k \in DOMAIN tuples :
    tuples[k].result # Nothing =>
      /\ tuples[k].result.of = k - lags[k]
      /\ tuples[k].result.part \in {"middle", "tail"} => lags[k] > 0

(* The loader never holds two connections, and none between splits and     *)
(* after the last.                                                         *)
OneConnection ==
  \A c \in DOMAIN conns :
    conns[c].held => c = Current /\ pc \notin {"init", "done"}

(* With a socket timeout the task ends, by giving all its tuples or by     *)
(* failing, unless the daemon drips: sends more and more of a reply, each  *)
(* time before the socket times out, and never its end.  The timeout is    *)
(* that of one read of the socket, not of the line (connecting and writing *)
(* have none, and are assumed not to block).                               *)
TaskEnds ==
  SoTimeout # 0 => <>(pc \in {"done", "failed"}) \/ []<><<Drips>>_vars

(* Without a socket timeout (one too large for an int counts as none), the *)
(* loader keeps the contract of a daemon loader, whatever the daemon does  *)
(* to the connection and when.                                             *)
ImplementsScan ==
  /\ Scan!Init
  /\ [][SoTimeout = 0 => [Scan!Next]_<<tuples, Status>>]_vars

(* What the test expects of every tuple: the daemon's reply to its file.   *)
OwnAnswer ==
  \A k \in DOMAIN tuples : Scan!TupleAllowed(k, tuples[k])

(* What the test expects of a daemon that is too slow: a tuple that says   *)
(* so.  No read fails the task while its connection stands.                *)
TimeoutGivesTuple ==
  [][(pc \in Reading /\ Link = "open") => (pc' # "failed")]_vars
=============================================================================
