-------------------------- MODULE RenderTransform --------------------------
(***************************************************************************)
(* The rows the web pages show of a document: render_transform of views.py *)
(* walks the JSON value and appends a row per scalar and a break after     *)
(* every dictionary, to one list that all calls share.  Walk is what the   *)
(* rows should be.                                                         *)
(***************************************************************************)
EXTENDS Naturals, Sequences, SequencesExt

CONSTANTS
  NameOrder,    \* the field names, in the order sorted() gives them
  ScalarTexts,  \* the texts the page shows of scalars
  MaxNesting    \* bound: lists and dictionaries inside each other

Names == ToSet(NameOrder)

ASSUME RenderAssumption == NameOrder \in Seq(Names) /\ MaxNesting \in Nat

(***************************************************************************)
(* JSON values.  A scalar is whatever text the page shows of it; a name    *)
(* that a dictionary does not have is absent from it.                      *)
(***************************************************************************)
Scalar(text) == [kind |-> "scalar", text |-> text]
Listing(items) == [kind |-> "list", items |-> items]
Absent == [kind |-> "absent"]
Dict(fields) ==
  [kind |-> "dict",
   fields |-> [n \in Names |-> IF n \in DOMAIN fields THEN fields[n] ELSE Absent]]

\* The values with n lists and dictionaries inside each other, or less.
JsonOf[n \in 0 .. MaxNesting] ==
  [kind : {"scalar"}, text : ScalarTexts]
    \cup IF n = 0 THEN {}
         ELSE [kind : {"list"}, items : Seq(JsonOf[n - 1])]
                \cup [kind : {"dict"}, fields : [Names -> JsonOf[n - 1] \cup {Absent}]]

Json == JsonOf[MaxNesting]

Documents == [kind : {"dict"}, fields : [Names -> Json \cup {Absent}]]

SortedNames(fields) ==
  FlattenSeq([i \in DOMAIN NameOrder |->
    IF fields[NameOrder[i]] = Absent THEN << >> ELSE <<NameOrder[i]>>])

Row(path, text) == [path |-> path, text |-> text]
Break == Row(<< >>, << >>)

Paths == Seq(Names) \ {<< >>}
Rows == [path : Paths, text : ScalarTexts] \cup {Break}
Outputs == [ret : Seq(Rows), failed : BOOLEAN]

Nothing == [ret |-> << >>, failed |-> FALSE]

\* Mutant: every dictionary adds its break.
AppendBreakAlways(out) ==
  IF out.failed THEN out
  ELSE IF out.ret = << >> THEN [out EXCEPT !.failed = TRUE]
  ELSE [out EXCEPT !.ret = Append(@, Break)]

\* ret[-1] of an empty list is an IndexError, which ends the view.
AppendBreak(out) ==
  IF out.failed THEN out
  ELSE IF out.ret = << >> THEN [out EXCEPT !.failed = TRUE]
  ELSE IF Last(out.ret) = Break THEN out
  ELSE [out EXCEPT !.ret = Append(@, Break)]

\* A row is appended unless the view has ended.
AppendRow(out, row) == IF out.failed THEN out ELSE [out EXCEPT !.ret = Append(@, row)]

\* The elements of a list go by the name of the list.
ListPath(base, name) == Append(base, name)

\* One call after the other, each on the list the one before has left.
Through(calls, out) == FoldLeft(LAMBDA acc, call : call[acc], out, calls)

RenderKeyval[value \in Json] ==
  [path \in Paths |-> [out \in Outputs |->
     IF value.kind = "scalar" THEN AppendRow(out, Row(path, value.text))
     ELSE IF value.kind = "list"
     THEN Through([i \in DOMAIN value.items |->
                     RenderKeyval[value.items[i]][ListPath(Front(path), Last(path))]], out)
     ELSE LET names == SortedNames(value.fields)
          IN IF names = << >> THEN out
             ELSE AppendBreak(Through([i \in DOMAIN names |->
                    RenderKeyval[value.fields[names[i]]][Append(path, names[i])]], out))]]

Render(doc) ==
  LET names == SortedNames(doc.fields)
  IN Through([i \in DOMAIN names |-> RenderKeyval[doc.fields[names[i]]][<<names[i]>>]], Nothing)

RemoveBreaks(rows) ==
  FlattenSeq([i \in DOMAIN rows |-> IF rows[i] = Break THEN << >> ELSE <<rows[i]>>])

-----------------------------------------------------------------------------
(***************************************************************************)
(* What the rows stand for: the scalars of the document from left to       *)
(* right, each with the names on the way to it, and an end mark wherever a *)
(* dictionary that is not empty ends.                                      *)
(***************************************************************************)
Walk[value \in Json] ==
  [path \in Paths |->
     IF value.kind = "scalar" THEN <<Row(path, value.text)>>
     ELSE IF value.kind = "list"
     THEN FlattenSeq([i \in DOMAIN value.items |-> Walk[value.items[i]][path]])
     ELSE LET names == SortedNames(value.fields)
          IN FlattenSeq([i \in DOMAIN names |->
                           Walk[value.fields[names[i]]][Append(path, names[i])]])
               \o (IF names = << >> THEN << >> ELSE <<Break>>)]

\* There is no end mark of the document itself.
Walked(doc) ==
  LET names == SortedNames(doc.fields)
  IN FlattenSeq([i \in DOMAIN names |-> Walk[doc.fields[names[i]]][<<names[i]>>]])

Leaves(doc) == RemoveBreaks(Walked(doc))

\* A document cannot be shown if one of its dictionaries ends before the
\* first scalar.
Unshowable(doc) == Walked(doc) # << >> /\ Head(Walked(doc)) = Break

\* Several dictionaries that end together leave one break.
OneBreakEach(walk) ==
  FlattenSeq([i \in DOMAIN walk |->
    IF i > 1 /\ walk[i] = Break /\ walk[i - 1] = Break THEN << >> ELSE <<walk[i]>>])

RendersAs(doc) ==
  IF Unshowable(doc) THEN Render(doc).failed
  ELSE Render(doc) = [ret |-> OneBreakEach(Walked(doc)), failed |-> FALSE]
=============================================================================
