--------------------------- MODULE ProgramExector ---------------------------
(***************************************************************************)
(* One AbstractExecutingLoader.processFile call.  The loader's thread      *)
(* starts a program on the dropped file, with a ProgramExector thread that *)
(* polls the program and destroys it at its deadline; meanwhile it forwards *)
(* the program's stderr, and once the ProgramExector thread is dead it     *)
(* reads what the program left in its stdout pipe.                         *)
(*                                                                         *)
(* Output is counted in chunks, time in ticks; a Java long holds           *)
(* -(MaxLong + 1) .. MaxLong.                                              *)
(***************************************************************************)
EXTENDS Integers

CONSTANTS
  Programs,      \* the programs the call may start
  Timeouts,      \* the loader's timeoutMS argument
  PipeCapacity,  \* chunks a pipe holds
  MaxLong,       \* Long.MAX_VALUE
  MaxNow,        \* bound: the clock stops here
  MaxOutput      \* bound: chunks a program writes to a stream

(***************************************************************************)
(* A program writes out chunks to stdout and err chunks to stderr; ends    *)
(* says whether it ends by itself, obeys whether it dies of a SIGTERM.     *)
(***************************************************************************)
ASSUME ExectorAssumption ==
  /\ PipeCapacity \in Nat \ {0}
  /\ MaxNow \in Nat \ {0}
  /\ MaxLong \in Nat
  /\ MaxNow < MaxLong
  /\ MaxOutput \in Nat
  /\ Timeouts \subseteq -MaxLong .. MaxLong
  /\ Programs \subseteq
       [out : 0 .. MaxOutput, err : 0 .. MaxOutput, ends : BOOLEAN, obeys : BOOLEAN]

VARIABLES
  program,    \* the program of this call
  timeoutMS,  \* the loader's field
  now,        \* System.currentTimeMillis()
  started,    \* the clock when the constructor first read it
  endtime,    \* the ProgramExector's fields
  timedOut,
  loader,     \* where the loader's thread is
  watcher,    \* where the ProgramExector thread is
  child,      \* the program's process
  sigterm,    \* whether it was sent a SIGTERM
  open,       \* whether the loader's ends of the pipes are open
  written,    \* chunks the program wrote to each stream
  read        \* chunks the loader read from each stream

execVars == <<program, timeoutMS, now, started, endtime, timedOut, loader, watcher,
          child, sigterm, open, written, read>>
config == <<program, timeoutMS>>

Streams == {"out", "err"}
Unread(s) == written[s] - read[s]

ExecTypeOK ==
  /\ program \in Programs
  /\ timeoutMS \in Timeouts
  /\ now \in 1 .. MaxNow
  /\ started \in 0 .. MaxNow
  /\ endtime \in -(MaxLong + 1) .. MaxLong
  /\ timedOut \in BOOLEAN
  /\ loader \in {"check", "start", "wait", "sleep", "drain", "done", "failed"}
  /\ watcher \in {"none", "poll", "late", "dead"}
  /\ child \in {"none", "running", "gone"}
  /\ sigterm \in BOOLEAN
  /\ open \in BOOLEAN
  /\ written \in [Streams -> 0 .. MaxOutput]
  /\ read \in [Streams -> 0 .. MaxOutput]

ExecInit ==
  /\ program \in Programs
  /\ timeoutMS \in Timeouts
  /\ now = 1
  /\ started = 0
  /\ endtime = 0
  /\ timedOut = FALSE
  /\ loader = "check"
  /\ watcher = "none"
  /\ child = "none"
  /\ sigterm = FALSE
  /\ open = FALSE
  /\ written = [s \in Streams |-> 0]
  /\ read = [s \in Streams |-> 0]

-----------------------------------------------------------------------------
(* The constructor, in the loader's thread *)

\* Mutant: the sum does not wrap.
WrapNot(n) == n

\* The sum of two non-negative longs.
Wrap(n) == IF n > MaxLong THEN n - 2 * (MaxLong + 1) ELSE n

\* Mutant: the sum is not checked.
NoDeadlineUnchecked == timeoutMS <= 0

NoDeadline == timeoutMS <= 0 \/ Wrap(now + timeoutMS) <= 0

\* The clock is read to see whether there is a deadline ...
CheckTimeout ==
  /\ loader = "check"
  /\ started' = now
  /\ endtime' = IF NoDeadline THEN MaxLong ELSE 0
  /\ loader' = "start"
  /\ UNCHANGED <<config, now, timedOut, watcher, child, sigterm, open, written, read>>

\* ... and again to compute it.  Then the program is started, or exec throws.
Start ==
  /\ loader = "start"
  /\ endtime' = IF endtime = MaxLong THEN MaxLong ELSE Wrap(now + timeoutMS)
  /\ \/ /\ child' = "running"
        /\ open' = TRUE
        /\ watcher' = "poll"
        /\ loader' = "wait"
     \/ /\ loader' = "failed"
        /\ UNCHANGED <<child, open, watcher>>
  /\ UNCHANGED <<config, now, started, timedOut, sigterm, written, read>>

-----------------------------------------------------------------------------
(* ProgramExector.run *)

\* Mutant: the watcher gives up when the loader did.
PollWithLoader ==
  /\ watcher = "poll"
  /\ watcher' = IF child = "gone" \/ loader = "failed" THEN "dead" ELSE "late"
  /\ UNCHANGED <<config, now, started, endtime, timedOut, loader, child, sigterm,
                 open, written, read>>

\* exitValue(): the program's status, or an exception while it runs.
Poll ==
  /\ watcher = "poll"
  /\ watcher' = IF child = "gone" THEN "dead" ELSE "late"
  /\ UNCHANGED <<config, now, started, endtime, timedOut, loader, child, sigterm,
                 open, written, read>>

\* Mutant: destroy() only sends the signal and leaves the pipes open.
CheckClockPipesOpen ==
  /\ watcher = "late"
  /\ \/ /\ now >= endtime
        /\ timedOut' = TRUE
        /\ sigterm' = (child = "running")
        /\ watcher' = "dead"
     \/ /\ now < endtime
        /\ watcher' = "poll"
        /\ UNCHANGED <<timedOut, sigterm>>
  /\ UNCHANGED <<config, now, started, endtime, loader, child, open, written, read>>

\* Mutant: the timeout is recorded and nothing is destroyed.
CheckClockNoDestroy ==
  /\ watcher = "late"
  /\ timedOut' = (now >= endtime)
  /\ watcher' = IF now >= endtime THEN "dead" ELSE "poll"
  /\ UNCHANGED <<config, now, started, endtime, loader, child, sigterm, open,
                 written, read>>

\* The program was running a moment ago: sleep, or destroy it, which sends a
\* SIGTERM and closes the loader's ends of the pipes.
CheckClock ==
  /\ watcher = "late"
  /\ \/ /\ now >= endtime
        /\ timedOut' = TRUE
        /\ sigterm' = (child = "running")
        /\ open' = FALSE
        /\ watcher' = "dead"
     \/ /\ now < endtime
        /\ watcher' = "poll"
        /\ UNCHANGED <<timedOut, sigterm, open>>
  /\ UNCHANGED <<config, now, started, endtime, loader, child, written, read>>

-----------------------------------------------------------------------------
(* processFile and waitOnProgramExecutor, in the loader's thread *)

CheckAlive ==
  /\ loader = "wait"
  /\ loader' = IF watcher = "dead" THEN "drain" ELSE "sleep"
  /\ UNCHANGED <<config, now, started, endtime, timedOut, watcher, child, sigterm,
                 open, written, read>>

\* drainInputStream: what is available now; a closed stream has nothing.
Drain(streams) ==
  read' = [s \in Streams |-> IF s \in streams /\ open THEN written[s] ELSE read[s]]

\* Mutant: stderr is left for the end, as stdout is.
ForwardStderrLater ==
  /\ loader = "sleep"
  /\ loader' = "wait"
  /\ UNCHANGED <<config, now, started, endtime, timedOut, watcher, child, sigterm,
                 open, written, read>>

ForwardStderr ==
  /\ loader = "sleep"
  /\ Drain({"err"})
  /\ loader' = "wait"
  /\ UNCHANGED <<config, now, started, endtime, timedOut, watcher, child, sigterm,
                 open, written>>

\* The thread is interrupted in its sleep: nothing is closed or destroyed.
Interrupt ==
  /\ loader = "sleep"
  /\ loader' = "failed"
  /\ UNCHANGED <<config, now, started, endtime, timedOut, watcher, child, sigterm,
                 open, written, read>>

\* Mutant: stderr is not looked at again after the watcher's death.
MakeTupleNoLastStderr ==
  /\ loader = "drain"
  /\ Drain({"out"})
  /\ open' = FALSE
  /\ loader' = "done"
  /\ UNCHANGED <<config, now, started, endtime, timedOut, watcher, child, sigterm,
                 written>>

\* The last of stderr, then stdout, closeStreams and the tuple.
MakeTuple ==
  /\ loader = "drain"
  /\ Drain(Streams)
  /\ open' = FALSE
  /\ loader' = "done"
  /\ UNCHANGED <<config, now, started, endtime, timedOut, watcher, child, sigterm,
                 written>>

-----------------------------------------------------------------------------
(* The program, and the clock *)

\* A write into a full pipe blocks; one into a closed pipe is lost, and kills
\* the program unless it caught the signal.
Write(s) ==
  /\ child = "running"
  /\ written[s] < program[s]
  /\ open => Unread(s) < PipeCapacity
  /\ written' = [written EXCEPT ![s] = @ + 1]
  /\ \/ child' = child
     \/ ~open /\ child' = "gone"
  /\ UNCHANGED <<config, now, started, endtime, timedOut, loader, watcher, sigterm,
                 open, read>>

Exit ==
  /\ child = "running"
  /\ \/ program.ends /\ \A s \in Streams : written[s] = program[s]
     \/ sigterm /\ program.obeys
  /\ child' = "gone"
  /\ UNCHANGED <<config, now, started, endtime, timedOut, loader, watcher, sigterm,
                 open, written, read>>

Tick ==
  /\ now < MaxNow
  /\ now' = now + 1
  /\ UNCHANGED <<config, started, endtime, timedOut, loader, watcher, child, sigterm,
                 open, written, read>>

LoaderThread == CheckTimeout \/ Start \/ CheckAlive \/ ForwardStderr \/ MakeTuple
WatcherThread == Poll \/ CheckClock
Child == Exit \/ \E s \in Streams : Write(s)

ExecNext == LoaderThread \/ Interrupt \/ WatcherThread \/ Child \/ Tick

(***************************************************************************)
(* The threads are scheduled, the clock goes on, and a program that can    *)
(* write or exit does so in the end.  Nobody need interrupt the loader.    *)
(***************************************************************************)
Fairness ==
  WF_execVars(LoaderThread) /\ WF_execVars(WatcherThread) /\ WF_execVars(Child) /\ WF_execVars(Tick)

ExecSpec == ExecInit /\ [][ExecNext]_execVars /\ Fairness

-----------------------------------------------------------------------------
(* Properties *)

(* A tuple that does not say "timed out" carries all of the program's      *)
(* stdout, and all of its stderr was forwarded: no chunk is lost between   *)
(* the watcher seeing the exit and the loader's last look at the pipes.    *)
CompleteOutput ==
  loader = "done" /\ ~timedOut =>
    program.ends /\ \A s \in Streams : read[s] = program[s]

(* A tuple that says "timed out" carries no output at all, even if the     *)
(* program wrote some or ended while the watcher was about to destroy it.  *)
TimedOutIsEmpty ==
  loader = "done" /\ timedOut => read["out"] = 0

(* A tuple has the whole output of the program or says "timed out" and has *)
(* nothing of it, never a part.                                            *)
OutputWhole == CompleteOutput /\ TimedOutIsEmpty

(* The program is destroyed only when a timeout was asked for, the clock   *)
(* can represent the deadline, and it has passed.  The exception is a sum  *)
(* that passes Long.MAX_VALUE between the constructor's two clock reads.   *)
TimesOutWhenDue ==
  timedOut =>
    /\ timeoutMS > 0
    /\ started + timeoutMS <= MaxLong
    /\ endtime > 0 => now >= started + timeoutMS

(* The program is never left alone: while it runs, the watcher still polls *)
(* it, even after the loader was interrupted, or has destroyed it.         *)
NeverAbandoned ==
  child = "running" => watcher \in {"poll", "late"} \/ (timedOut /\ sigterm)

(* A call ends when its endtime is one the clock reaches, whatever the     *)
(* program does, or when the program ends and its stdout fits the pipe.    *)
HasDeadline == endtime <= MaxNow

CallEnds ==
  (child = "running" /\ (HasDeadline \/ (program.ends /\ program.out <= PipeCapacity)))
    ~> loader \in {"done", "failed"}

(* With a deadline the program does not outlive the call for ever if it    *)
(* heeds SIGTERM, not even when the loader was interrupted.                *)
ChildEnds ==
  (child = "running" /\ HasDeadline /\ program.obeys) ~> child = "gone"

(* What the loaders' test expects of the default timeout: a program that   *)
(* ends by itself gives its output, so the call ends.                      *)
EndingProgramEndsCall ==
  (child = "running" /\ program.ends) ~> loader \in {"done", "failed"}
=============================================================================
