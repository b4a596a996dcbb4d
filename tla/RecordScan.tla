----------------------------- MODULE RecordScan -----------------------------
(***************************************************************************)
(* What a daemon loader promises: one tuple per record, in order, whose    *)
(* result is what the daemon says of that very record, the beginning of it *)
(* if the daemon broke off, or empty; a tuple that timed out is empty.     *)
(* The task may fail at any record, and then gives no tuple any more.      *)
(***************************************************************************)
EXTENDS Naturals, Sequences

CONSTANT Records  \* number of records, a natural number

VARIABLES
  tuples,  \* the tuples returned so far
  status   \* how the task stands

(***************************************************************************)
(* A line of the daemon names the record it is about; part tells whether   *)
(* all of the line was read.                                               *)
(***************************************************************************)
Empty == [of |-> 0, part |-> "none"]
Lines == [of : 1 .. Records, part : {"line", "head", "middle", "tail"}]
Tuples == [result : Lines \cup {Empty}, timedOut : BOOLEAN]

OwnResults(i) == {Empty, [of |-> i, part |-> "line"], [of |-> i, part |-> "head"]}

TupleAllowed(i, t) ==
  /\ t \in Tuples
  /\ t.result \in OwnResults(i)
  /\ t.timedOut => t.result = Empty

Init ==
  /\ tuples = << >>
  /\ status = "running"

Deliver ==
  /\ status = "running"
  /\ Len(tuples) < Records
  /\ \E t \in {u \in Tuples : TupleAllowed(Len(tuples) + 1, u)} :
       tuples' = Append(tuples, t)
  /\ UNCHANGED status

Finish ==
  /\ status = "running"
  /\ Len(tuples) = Records
  /\ status' = "done"
  /\ UNCHANGED tuples

Fail ==
  /\ status = "running"
  /\ status' = "failed"
  /\ UNCHANGED tuples

Next == Deliver \/ Finish \/ Fail

Spec == Init /\ [][Next]_<<tuples, status>>
=============================================================================
