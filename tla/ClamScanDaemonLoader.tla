------------------------ MODULE ClamScanDaemonLoader ------------------------
(***************************************************************************)
(* ClamScanDaemonLoader.processFile over the records of a task: a socket   *)
(* of its own for every record, closed in a finally clause.                *)
(***************************************************************************)
EXTENDS DaemonLink

VARIABLES
  pc,     \* how far the loader is with the record after the last tuple
  tuples  \* the tuples returned so far

vars == <<timeoutMS, conns, part, pc, tuples>>

Scan ==
  INSTANCE RecordScan
    WITH status <- IF pc \in {"done", "failed"} THEN pc ELSE "running"

TypeOK ==
  /\ LinkTypeOK
  /\ pc \in {"next", "write", "read", "done", "failed"}
  /\ tuples \in Seq(Scan!Tuples)

Init ==
  /\ LinkInit
  /\ pc = "next"
  /\ tuples = << >>

Record == Len(tuples) + 1

\* Mutant: the first record's socket serves them all.
ConnectOnce ==
  /\ pc = "next"
  /\ Record <= Records
  /\ conns' = IF conns = << >> THEN Opened ELSE conns
  /\ pc' = "write"
  /\ UNCHANGED <<timeoutMS, part, tuples>>

\* setSoTimeout and connect may throw before there is a connection.
Connect ==
  /\ pc = "next"
  /\ Record <= Records
  /\ \/ /\ SoTimeout >= 0
        /\ conns' = Opened
        /\ pc' = "write"
     \/ /\ pc' = "failed"
        /\ UNCHANGED conns
  /\ UNCHANGED <<timeoutMS, part, tuples>>

\* The request goes out, also to a daemon that has just closed its side.
Write ==
  /\ pc = "write"
  /\ \/ /\ Link # "rst"
        /\ conns' = Sent(Record)
        /\ pc' = "read"
     \/ /\ WasReset
        /\ conns' = Closed(conns)
        /\ pc' = "failed"
  /\ UNCHANGED <<timeoutMS, part, tuples>>

\* Mutant: what arrives is not searched for the end of the line.
ReadHeadPastEnd ==
  /\ pc = "read"
  /\ Replies # << >>
  /\ part' = Head(Replies)
  /\ conns' = Received
  /\ UNCHANGED <<timeoutMS, pc, tuples>>

ReadHead ==
  /\ pc = "read"
  /\ HeadArrived
  /\ part' = Head(Replies)
  /\ conns' = Received
  /\ UNCHANGED <<timeoutMS, pc, tuples>>

ReadMore ==
  /\ pc = "read"
  /\ MoreArrived
  /\ part' = LineSoFar
  /\ conns' = ReceivedMore
  /\ UNCHANGED <<timeoutMS, pc, tuples>>

\* The finally clause, and the tuple.
Return(cs, result, timedOut) ==
  /\ conns' = Closed(cs)
  /\ part' = Nothing
  /\ tuples' = Append(tuples, [result |-> result, timedOut |-> timedOut])
  /\ pc' = "next"
  /\ UNCHANGED timeoutMS

ReadLine == pc = "read" /\ LineArrived /\ Return(Received, LineEnding(Head(Replies)), FALSE)

\* readLine returns what it has at the end of the stream, or null.
ReadEnd == pc = "read" /\ EndOfStream /\ Return(conns, part, FALSE)

\* Mutant: a timeout is swallowed, and the line awaited again.
ReadTimeoutAgain == pc = "read" /\ TimeIsUp /\ UNCHANGED vars

ReadTimeout == pc = "read" /\ TimeIsUp /\ Return(conns, Nothing, TRUE)

\* Mutant: the sockets are closed in the catch clause only.
ReadResetUnclosed ==
  /\ pc = "read"
  /\ WasReset
  /\ part' = Nothing
  /\ pc' = "failed"
  /\ UNCHANGED <<timeoutMS, conns, tuples>>

ReadReset ==
  /\ pc = "read"
  /\ WasReset
  /\ conns' = Closed(conns)
  /\ part' = Nothing
  /\ pc' = "failed"
  /\ UNCHANGED <<timeoutMS, tuples>>

Finish ==
  /\ pc = "next"
  /\ Record > Records
  /\ pc' = "done"
  /\ UNCHANGED <<timeoutMS, conns, part, tuples>>

Loader ==
  \/ Connect \/ Write \/ ReadHead \/ ReadMore \/ ReadLine \/ ReadEnd \/ ReadTimeout \/ ReadReset
  \/ Finish

Next == Loader \/ (Daemon /\ UNCHANGED <<pc, tuples>>)

(***************************************************************************)
(* The loader's thread runs and its socket times out.  Nothing is assumed  *)
(* of the daemon: it may stop at any point, and drip a reply for ever.     *)
(***************************************************************************)
Spec == Init /\ [][Next]_vars /\ WF_vars(Loader)

-----------------------------------------------------------------------------
(* Properties *)

(* The loader keeps the contract of a daemon loader: a reply that comes    *)
(* after its record timed out is never taken for a later record's.         *)
ImplementsScan == Scan!Spec

(* Between records and after the last, or after a failure, no socket is    *)
(* left open: the finally clause is reached on every path.                 *)
NoSocketLeft ==
  pc \in {"next", "done", "failed"} => \A c \in DOMAIN conns : ~conns[c].held

(* With a socket timeout the task ends, by giving all its tuples or by     *)
(* failing, unless the daemon drips: sends more and more of a reply, each  *)
(* time before the socket times out, and never its end.  The timeout is    *)
(* that of one read of the socket, not of the line (connecting and writing *)
(* have none, and are assumed not to block).                               *)
TaskEnds ==
  SoTimeout # 0 => <>(pc \in {"done", "failed"}) \/ []<><<Drips>>_vars
=============================================================================
