------------------------ MODULE SequenceFileBuilder ------------------------
(***************************************************************************)
(* The ingest tools.  BuildSequenceFileFromArchive writes one sequence     *)
(* file per archive of its input, BuildSequenceFileFromDir one sequence    *)
(* file of the files of a directory.  Both overwrite what an earlier run   *)
(* left, and an exception ends the run.                                    *)
(*                                                                         *)
(* A source is an archive, or the directory given to the second tool.  A   *)
(* record is named by the position of the entry it was made of.            *)
(***************************************************************************)
EXTENDS Naturals, Sequences, FiniteSets, Functions

CONSTANTS
  Names,    \* what the input can hold
  Sources,  \* what can be behind a name
  None,     \* no source yet
  MaxRuns   \* bound: how often a tool is run

(***************************************************************************)
(* entries[k] says whether entry k is a file; cut says whether the source  *)
(* goes on with an entry whose body or whose header cannot be read.  A     *)
(* source of no format is a subdirectory of the input.                     *)
(***************************************************************************)
ASSUME BuilderAssumption ==
  /\ Sources \subseteq
       [format : {"known", "unknown", "none"}, entries : Seq(BOOLEAN),
        cut : {"whole", "body", "header"}]
  /\ None \notin Names
  /\ MaxRuns \in Nat

VARIABLES
  tool,     \* which of the two runs
  input,    \* the sources in the input
  runs,     \* how often the tool was run
  pc,       \* how far the run is, or how the last one ended
  todo,     \* what is left of the listing
  current,  \* the source being loaded
  pos,      \* entries of it that were read
  pending,  \* whether an exception waits for the finally clause
  lost,     \* history: sources of this run with a record that was not written
  files     \* files[n]: the sequence file of source n

vars == <<tool, input, runs, pc, todo, current, pos, pending, lost, files>>

Ended == {"fresh", "returned", "thrown", "killed"}
Running == {"list", "open", "read", "append", "finally"}

Entries(n) == input[n].entries
Bodies(n) == {k \in DOMAIN Entries(n) : Entries(n)[k]}
SequenceFiles == [records : Seq(Nat), state : {"absent", "open", "closed", "torn"}]

TypeOK ==
  /\ tool \in {"archive", "dir"}
  /\ DOMAIN input \subseteq Names
  /\ input \in [DOMAIN input -> Sources]
  /\ runs \in 0 .. MaxRuns
  /\ pc \in Ended \cup Running
  /\ todo \subseteq DOMAIN input
  /\ current \in DOMAIN input \cup {None}
  /\ pos \in Nat
  /\ pending \in BOOLEAN
  /\ lost \subseteq DOMAIN input
  /\ files \in [DOMAIN input -> SequenceFiles]

(***************************************************************************)
(* An input directory, or a single archive; the directory tool has one     *)
(* source, its directory.                                                  *)
(***************************************************************************)
Init ==
  /\ tool \in {"archive", "dir"}
  /\ \E names \in SUBSET Names :
       /\ input \in [names -> Sources]
       /\ tool = "dir" =>
            /\ Cardinality(names) = 1
            /\ \A n \in names : input[n].format = "known" /\ input[n].cut # "header"
  /\ runs = 0
  /\ pc = "fresh"
  /\ todo = {}
  /\ current = None
  /\ pos = 0
  /\ pending = FALSE
  /\ lost = {}
  /\ files = [n \in DOMAIN input |-> [records |-> << >>, state |-> "absent"]]

-----------------------------------------------------------------------------
(* How a run ends *)

\* A file that nobody closed keeps a beginning of what was appended.
Abandon ==
  IF current # None /\ files[current].state = "open"
  THEN \E k \in 0 .. Len(files[current].records) :
         files' = [files EXCEPT ![current] =
                     [records |-> SubSeq(@.records, 1, k), state |-> "torn"]]
  ELSE UNCHANGED files

Throw == pc' = "thrown" /\ Abandon

Return ==
  /\ pc = "list"
  /\ todo = {}
  /\ pc' = "returned"
  /\ UNCHANGED <<tool, input, runs, todo, current, pos, pending, lost, files>>

Kill ==
  /\ pc \in Running
  /\ pc' = "killed"
  /\ Abandon
  /\ UNCHANGED <<tool, input, runs, todo, current, pos, pending, lost>>

-----------------------------------------------------------------------------
(* run *)

\* Mutant: a single archive is taken for the directory it lies in.
RunSiblings ==
  /\ pc \in Ended
  /\ runs < MaxRuns
  /\ runs' = runs + 1
  /\ todo' = Names
  /\ current' = None
  /\ pending' = FALSE
  /\ lost' = {}
  /\ \E next \in {"list", "thrown"} : pc' = next
  /\ UNCHANGED <<tool, input, pos, files>>

\* The file systems may not answer, and the listing be null.
Run ==
  /\ pc \in Ended
  /\ runs < MaxRuns
  /\ runs' = runs + 1
  /\ todo' = DOMAIN input
  /\ current' = None
  /\ pending' = FALSE
  /\ lost' = {}
  /\ \E next \in {"list", "thrown"} : pc' = next
  /\ UNCHANGED <<tool, input, pos, files>>

Skip(n) ==
  /\ pc = "list"
  /\ n \in todo
  /\ input[n].format = "none"
  /\ todo' = todo \ {n}
  /\ UNCHANGED <<tool, input, runs, pc, current, pos, pending, lost, files>>

-----------------------------------------------------------------------------
(* load, and the one loop of the directory tool *)

\* Mutant: an existing sequence file is appended to.
CreateWriterAppending(n) ==
  /\ pc = "list"
  /\ n \in todo
  /\ input[n].format # "none"
  /\ todo' = todo \ {n}
  /\ current' = n
  /\ pos' = 0
  /\ files' = [files EXCEPT ![n].state = "open"]
  /\ pc' = "open"
  /\ UNCHANGED <<tool, input, runs, pending, lost>>

\* createWriter replaces the file, or throws before or after it did; then
\* the finally clause has no stream to close, and throws as well.
CreateWriter(n) ==
  /\ pc = "list"
  /\ n \in todo
  /\ input[n].format # "none"
  /\ todo' = todo \ {n}
  /\ current' = n
  /\ pos' = 0
  /\ \/ /\ files' = [files EXCEPT ![n] = [records |-> << >>, state |-> "open"]]
        /\ pc' = "open"
     \/ /\ pc' = "thrown"
        /\ \/ files' = [files EXCEPT ![n] = [records |-> << >>, state |-> "torn"]]
           \/ UNCHANGED files
  /\ UNCHANGED <<tool, input, runs, pending, lost>>

\* An unknown suffix, a bad magic number, a missing listing: the finally
\* clause throws at its first line, and the writer is never closed.
OpenStream ==
  /\ pc = "open"
  /\ \/ /\ input[current].format = "known"
        /\ pc' = "read"
        /\ UNCHANGED files
     \/ Throw
  /\ UNCHANGED <<tool, input, runs, todo, current, pos, pending, lost>>

\* Directories are skipped.
NextEntry ==
  /\ pc = "read"
  /\ pos < Len(Entries(current))
  /\ pos' = pos + 1
  /\ pc' = IF Entries(current)[pos + 1] THEN "append" ELSE "read"
  /\ UNCHANGED <<tool, input, runs, todo, current, pending, lost, files>>

\* getNextEntry returns null, or throws past the inner catch clause; a body
\* that cannot be read ends the archive, but not the directory tool's run.
EndOfEntries ==
  /\ pc = "read"
  /\ pos = Len(Entries(current))
  /\ \/ /\ tool = "archive" \/ input[current].cut = "whole"
        /\ pending' = (input[current].cut = "header")
        /\ pc' = "finally"
        /\ UNCHANGED files
     \/ /\ tool = "dir"
        /\ input[current].cut = "body"
        /\ Throw
        /\ UNCHANGED pending
  /\ UNCHANGED <<tool, input, runs, todo, current, pos, lost>>

\* An append that fails is taken for a truncated archive; the directory tool
\* does not catch it.
AppendRecord ==
  /\ pc = "append"
  /\ \/ /\ files' = [files EXCEPT ![current].records = Append(@, pos)]
        /\ pc' = "read"
        /\ UNCHANGED lost
     \/ /\ tool = "archive"
        /\ lost' = lost \cup {current}
        /\ pc' = "finally"
        /\ UNCHANGED files
     \/ /\ tool = "dir"
        /\ Throw
        /\ UNCHANGED lost
  /\ UNCHANGED <<tool, input, runs, todo, current, pos, pending>>

\* Mutant: an exception in close is printed and forgotten.
CloseQuietly ==
  /\ pc = "finally"
  /\ \/ files' = [files EXCEPT ![current].state = "closed"]
     \/ Abandon
  /\ pc' = IF pending THEN "thrown" ELSE "list"
  /\ UNCHANGED <<tool, input, runs, todo, current, pos, pending, lost>>

\* The finally clause of load, or the last line of the directory tool.
Close ==
  /\ pc = "finally"
  /\ \/ /\ files' = [files EXCEPT ![current].state = "closed"]
        /\ pc' = IF pending THEN "thrown" ELSE "list"
     \/ Throw
  /\ UNCHANGED <<tool, input, runs, todo, current, pos, pending, lost>>

Next ==
  \/ Run \/ Return \/ Kill
  \/ \E n \in DOMAIN input : Skip(n) \/ CreateWriter(n)
  \/ OpenStream \/ NextEntry \/ EndOfEntries \/ AppendRecord \/ Close

Spec == Init /\ [][Next]_vars

-----------------------------------------------------------------------------
(* Properties *)

Records(n) == files[n].records

(* Whatever fails, and however often the tool is killed and run again, a   *)
(* sequence file holds a beginning of its source's files, in their order   *)
(* and each once.                                                          *)
PrefixOnly ==
  \A n \in DOMAIN input :
    /\ \A i, j \in DOMAIN Records(n) : i < j => Records(n)[i] < Records(n)[j]
    /\ \E p \in 0 .. Len(Entries(n)) : Range(Records(n)) = {k \in Bodies(n) : k <= p}

Loaded(n) == files[n].state = "closed" /\ Range(Records(n)) = Bodies(n)

(* A source the run is done with is loaded as far as it can be read, in a  *)
(* closed file, also when a later source ends the run, a kill does, or an  *)
(* earlier run had failed on it: unless an append to it failed.            *)
FinishedAreLoaded ==
  \A n \in DOMAIN input :
    (/\ pc # "fresh"
     /\ input[n].format # "none"
     /\ n \notin todo
     /\ n # current \/ pc \in {"list", "returned"}
     /\ n \notin lost)
      => Loaded(n)

(* What the comment "Truncated Archive" says of the inner catch clause:    *)
(* entries are given up only where the archive is cut, so a run that       *)
(* returns has loaded every whole archive.                                 *)
WholeArchivesLoaded ==
  pc = "returned" =>
    \A n \in DOMAIN input :
      input[n].format = "known" /\ input[n].cut = "whole" => Loaded(n)
=============================================================================
