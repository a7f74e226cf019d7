------------------------------ MODULE CmdLines ------------------------------
(***************************************************************************)
(* sslf/reader/cmdlines.py, cmdjson.py and the RateLimit of util/misc.py:  *)
(* readers that follow the output of a child process.  The actors are the  *)
(* one thread of the daemon, which asks the readers in turn, the children, *)
(* and the clock.                                                          *)
(*                                                                         *)
(* A child writes line l in two pieces, 2l-1 and 2l; the newline is in the *)
(* second.  Between the child and the daemon there are the pipe, which     *)
(* select() sees, and the buffer of the file object, which it does not.    *)
(***************************************************************************)
EXTENDS Integers, Sequences, SequencesExt, FiniteSets

CONSTANTS N,        \* the readers are 1 .. N, in the order of the daemon's paths
          Cmd,      \* the command of each reader, as the first reader that has it
          Prlimits, \* what proc_restart_rlimit may be for each reader
          Text,     \* it is set in the config file, as text that nothing converts
          StartTime,\* time.time() when the daemon starts
          MaxLines, \* bound: lines that the children of a reader ever write
          MaxTime   \* bound: how far the clock goes

Readers == 1 .. N

ASSUME CmdLinesAssumption ==
  /\ N \in Nat \ {0} /\ StartTime \in Nat /\ MaxLines \in Nat /\ MaxTime \in Nat
  /\ Text \notin Nat /\ Prlimits \subseteq [Readers -> Nat \cup {Text}]
  /\ Cmd \in [Readers -> Readers] /\ \A r \in Readers : Cmd[Cmd[r]] = Cmd[r]

VARIABLES child,   \* self._proc: "none", "running", or "ended" and not waited for
          open,    \* whether anyone still has the writing end of the pipe
          half,    \* whether the last line written lacks its second piece
          pipe, buf,
          lines,   \* lines begun so far, the counter of the bound
          pc, cur, \* where the daemon is, and in the code of which reader
          prlimit, \* self.prlimit
          limits,  \* RateLimit.limits
          now      \* time.time()

(* For the properties only *)
VARIABLES out,     \* what each readline() of a reader returned
          wasOpen, \* open[cur] when ready asked first
          started  \* when a child was last started with each command

vars ==
  <<child, open, half, pipe, buf, lines, pc, cur, prlimit, limits, now, out, wasOpen, started>>

daemon == <<pc, cur, prlimit, limits, out, wasOpen, started>>
stream == <<open, half, pipe, buf, lines>>

Newline(c) == c % 2 = 0
LineOf(c) == (c + 1) \div 2

Init ==
  /\ child = [r \in Readers |-> "none"]
  /\ open = [r \in Readers |-> FALSE] /\ half = [r \in Readers |-> FALSE]
  /\ pipe = [r \in Readers |-> <<>>] /\ buf = [r \in Readers |-> <<>>]
  /\ lines = [r \in Readers |-> 0]
  /\ pc = "asking" /\ cur = 1
  /\ prlimit \in Prlimits /\ limits = [r \in Readers |-> 0] /\ now = StartTime
  /\ out = [r \in Readers |-> <<>>] /\ wasOpen = FALSE
  /\ started = [r \in Readers |-> 0]

------------------------------------------------------------------------------
(* The children.  A process that a child left in the background may keep the *)
(* pipe open and write to it after the child has ended.                      *)

Begin(r) ==
  /\ open[r] /\ ~half[r] /\ lines[r] < MaxLines
  /\ lines' = [lines EXCEPT ![r] = @ + 1]
  /\ pipe' = [pipe EXCEPT ![r] = Append(@, 2 * lines[r] + 1)]
  /\ half' = [half EXCEPT ![r] = TRUE]
  /\ UNCHANGED <<child, open, buf, now, daemon>>

Finish(r) ==
  /\ open[r] /\ half[r]
  /\ pipe' = [pipe EXCEPT ![r] = Append(@, 2 * lines[r])]
  /\ half' = [half EXCEPT ![r] = FALSE]
  /\ UNCHANGED <<child, open, buf, lines, now, daemon>>

CloseOut(r) ==
  /\ open[r] /\ open' = [open EXCEPT ![r] = FALSE]
  /\ UNCHANGED <<child, half, pipe, buf, lines, now, daemon>>

Exit(r) ==
  /\ child[r] = "running" /\ child' = [child EXCEPT ![r] = "ended"]
  /\ UNCHANGED <<stream, now, daemon>>

Tick ==
  /\ now < StartTime + MaxTime /\ now' = now + 1
  /\ UNCHANGED <<child, stream, daemon>>

------------------------------------------------------------------------------
(* Mutant: the end of the output is nothing to read. *)
SpollPipeOnly(r) == child[r] # "none" /\ pipe[r] # <<>>

(* spoll: select() finds the end of the pipe readable too. *)
Spoll(r) == child[r] # "none" /\ (pipe[r] # <<>> \/ ~open[r])

Died(r) == child[r] # "running"

NextReader == pc' = "asking" /\ cur' = (cur % N) + 1

(* Mutant: a dead child is replaced although there is something to read. *)
ReadyDiedFirst ==
  /\ pc = "asking"
  /\ pc' = IF Spoll(cur) /\ ~Died(cur) THEN "reading" ELSE "polled"
  /\ wasOpen' = open[cur]
  /\ UNCHANGED <<child, stream, cur, prlimit, limits, now, out, started>>

(* ready, up to its first answer. *)
Ready ==
  /\ pc = "asking"
  /\ pc' = IF Spoll(cur) THEN "reading" ELSE "polled"
  /\ wasOpen' = open[cur]
  /\ UNCHANGED <<child, stream, cur, prlimit, limits, now, out, started>>

AskDied ==
  /\ pc = "polled"
  /\ IF Died(cur) THEN pc' = "starting" /\ UNCHANGED cur ELSE NextReader
  /\ UNCHANGED <<child, stream, prlimit, limits, now, out, wasOpen, started>>

(* Mutant: a limit for each reader. *)
TagOfPath(r) == r

(* RateLimit: the tag of start() is the command, the limit is the reader's. *)
Tag(r) == Cmd[r]
DtOk(r) == now - limits[Tag(r)] >= prlimit[r]

(* dt_ok cannot compare a number with text, and nothing in the daemon catches *)
(* what it raises; stop() and Popen are not reached.                          *)
TextLimit ==
  /\ pc = "starting" /\ prlimit[cur] = Text
  /\ pc' = "raised"
  /\ UNCHANGED <<child, stream, cur, prlimit, limits, now, out, wasOpen, started>>

(* Mutant: the next child's output is read through the same buffer. *)
ReapKeepsBuffer(r) ==
  /\ child' = [child EXCEPT ![r] = "none"]
  /\ pipe' = [pipe EXCEPT ![r] = <<>>]
  /\ open' = [open EXCEPT ![r] = FALSE] /\ half' = [half EXCEPT ![r] = FALSE]
  /\ UNCHANGED buf

(* wait() takes the status and drops the file object with its buffer. *)
Reap(r) ==
  /\ child' = [child EXCEPT ![r] = "none"]
  /\ pipe' = [pipe EXCEPT ![r] = <<>>] /\ buf' = [buf EXCEPT ![r] = <<>>]
  /\ open' = [open EXCEPT ![r] = FALSE] /\ half' = [half EXCEPT ![r] = FALSE]

(* Mutant: stop() has nothing to do for a child that has died. *)
StopDead ==
  /\ pc = "starting" /\ prlimit[cur] # Text
  /\ pc' = IF DtOk(cur) THEN "popen" ELSE "leaving"
  /\ UNCHANGED <<child, stream, cur, prlimit, limits, now, out, wasOpen, started>>

(* start(), "if rl" and stop(); the child has died, so stop() only waits. *)
Stop ==
  /\ pc = "starting" /\ prlimit[cur] # Text
  /\ IF DtOk(cur)
     THEN pc' = "popen"
          /\ IF child[cur] = "none" THEN UNCHANGED <<child, stream>>
             ELSE Reap(cur) /\ UNCHANGED lines
     ELSE pc' = "leaving" /\ UNCHANGED <<child, stream>>
  /\ UNCHANGED <<cur, prlimit, limits, now, out, wasOpen, started>>

(* Popen raises if there is no such command, and nothing in the daemon *)
(* catches that.                                                       *)
Popen ==
  /\ pc = "popen"
  /\ \/ /\ pc' = "leaving"
        /\ child' = [child EXCEPT ![cur] = "running"]
        /\ open' = [open EXCEPT ![cur] = TRUE] /\ half' = [half EXCEPT ![cur] = FALSE]
        /\ pipe' = [pipe EXCEPT ![cur] = <<>>] /\ buf' = [buf EXCEPT ![cur] = <<>>]
        /\ started' = [started EXCEPT ![Cmd[cur]] = now]
     \/ pc' = "raised" /\ UNCHANGED <<child, open, half, pipe, buf, started>>
  /\ UNCHANGED <<lines, cur, prlimit, limits, now, out, wasOpen>>

(* __exit__ asks dt_ok again, so an attempt that was refused may count when *)
(* the limit runs out between the two.                                      *)
Leave ==
  /\ pc = "leaving" /\ pc' = "started"
  /\ limits' = IF DtOk(cur) THEN [limits EXCEPT ![Tag(cur)] = now] ELSE limits
  /\ UNCHANGED <<child, stream, cur, prlimit, now, out, wasOpen, started>>

(* Mutant: a reader that was just started is ready. *)
AskStarted ==
  /\ pc = "started" /\ pc' = "reading"
  /\ UNCHANGED <<child, stream, cur, prlimit, limits, now, out, wasOpen, started>>

AskAgain ==
  /\ pc = "started"
  /\ IF Spoll(cur) THEN pc' = "reading" /\ UNCHANGED cur ELSE NextReader
  /\ UNCHANGED <<child, stream, prlimit, limits, now, out, wasOpen, started>>

------------------------------------------------------------------------------
(* read(), with readline() of the file object: one raw read takes what is in *)
(* the pipe, as far as it fits into the buffer.                              *)

HasLine(r) == \E k \in DOMAIN buf[r] : Newline(buf[r][k])

Fill ==
  /\ pc = "reading" /\ ~HasLine(cur)
  /\ \E n \in 1 .. Len(pipe[cur]) :
       /\ buf' = [buf EXCEPT ![cur] = @ \o SubSeq(pipe[cur], 1, n)]
       /\ pipe' = [pipe EXCEPT ![cur] = SubSeq(@, n + 1, Len(@))]
  /\ UNCHANGED <<child, open, half, lines, now, daemon>>

AtEnd(r) == ~HasLine(r) /\ pipe[r] = <<>> /\ ~open[r]

(* Mutant: everything in the buffer. *)
WholeBuffer(r) == Len(buf[r])

(* Up to the first newline, or the rest if there is none. *)
FirstLine(r) ==
  IF HasLine(r) THEN SelectInSeq(buf[r], Newline) ELSE Len(buf[r])

(* A line is returned and yielded, unless cmdjson cannot decode it; then, as *)
(* when the daemon closes the generator, the read is over.  rlep_line may    *)
(* raise, and nothing catches that.                                          *)
ReadLine ==
  /\ pc = "reading" /\ (HasLine(cur) \/ AtEnd(cur))
  /\ buf[cur] # <<>>
  /\ out' = [out EXCEPT ![cur] = Append(@, SubSeq(buf[cur], 1, FirstLine(cur)))]
  /\ buf' = [buf EXCEPT ![cur] = SubSeq(@, FirstLine(cur) + 1, Len(@))]
  /\ pc' \in {"yielded", "raised"}
  /\ UNCHANGED <<child, open, half, pipe, lines, cur, prlimit, limits, now, wasOpen, started>>

GoOn ==
  /\ pc = "yielded"
  /\ \/ Spoll(cur) /\ pc' = "reading" /\ UNCHANGED cur
     \/ NextReader
  /\ UNCHANGED <<child, stream, prlimit, limits, now, out, wasOpen, started>>

(* readline() returned nothing: the child is waited for if it has ended. *)
ReadNothing ==
  /\ pc = "reading" /\ AtEnd(cur) /\ buf[cur] = <<>>
  /\ IF Died(cur) THEN Reap(cur) ELSE UNCHANGED <<child, open, half, pipe, buf>>
  /\ NextReader
  /\ UNCHANGED <<lines, prlimit, limits, now, out, wasOpen, started>>

Daemon ==
  \/ Ready \/ AskDied \/ TextLimit \/ Stop \/ Popen \/ Leave \/ AskAgain
  \/ Fill \/ ReadLine \/ GoOn \/ ReadNothing

Next ==
  \/ Daemon \/ Tick
  \/ \E r \in Readers : Begin(r) \/ Finish(r) \/ CloseOut(r) \/ Exit(r)

Spec == Init /\ [][Next]_vars

(* The daemon runs, and a child does not stop for ever in the middle of a *)
(* line: it writes the rest or closes its output.                         *)
LiveSpec ==
  /\ Spec
  /\ WF_vars(Daemon)
  /\ \A r \in Readers : WF_vars(Finish(r) \/ (half[r] /\ CloseOut(r)))

------------------------------------------------------------------------------
Piece == 1 .. 2 * MaxLines

(* Type correctness of the readers, their children and the daemon. *)
TypeOK ==
  /\ child \in [Readers -> {"none", "running", "ended"}]
  /\ open \in [Readers -> BOOLEAN] /\ half \in [Readers -> BOOLEAN]
  /\ pipe \in [Readers -> Seq(Piece)] /\ buf \in [Readers -> Seq(Piece)]
  /\ lines \in [Readers -> 0 .. MaxLines]
  /\ pc \in {"asking", "polled", "starting", "popen", "leaving", "started",
             "reading", "yielded", "raised"}
  /\ cur \in Readers /\ now \in StartTime .. StartTime + MaxTime
  /\ prlimit \in [Readers -> Nat \cup {Text}]
  /\ limits \in [Readers -> 0 .. StartTime + MaxTime]
  /\ started \in [Readers -> 0 .. StartTime + MaxTime]
  /\ out \in [Readers -> Seq(Seq(Piece))] /\ wasOpen \in BOOLEAN
  (* a reader without a child has nothing left of one *)
  /\ \A r \in Readers :
       child[r] = "none" => ~open[r] /\ ~half[r] /\ pipe[r] = <<>> /\ buf[r] = <<>>

Read(r) == FlattenSeq(out[r])
Missing(r) ==
  {l \in 1 .. lines[r] : 2 * l - 1 \notin ToSet(Read(r) \o buf[r] \o pipe[r])}

(* Every event is one line, never two and never a part of one whose rest is *)
(* another event, and the lines of a reader come in the order in which its  *)
(* children wrote them (cmdlines.py:133-142).                               *)
OneLineEach ==
  \A r \in Readers : \A i, j \in DOMAIN out[r] :
    \A a \in ToSet(out[r][i]), b \in ToSet(out[r][j]) :
      /\ i = j => LineOf(a) = LineOf(b)
      /\ i < j => LineOf(a) < LineOf(b)

(* A line is lost only with the restart of a child whose pipe was still open *)
(* when ready looked at it (cmdlines.py:125-130): what a child wrote that    *)
(* had closed its output before is read before the child is replaced, also   *)
(* what only the buffer holds.                                               *)
LostOnlyInRestart ==
  [][\A r \in Readers :
       Missing(r)' # Missing(r) => r = cur /\ pc = "starting" /\ wasOpen]_vars

(* "make sure we don't leave orphan procs and zombies" (cmdlines.py:101): a *)
(* child is never dropped while it runs, and is waited for before the next. *)
NoOrphanNoZombie ==
  [][\A r \in Readers :
       /\ child[r] = "running" => child'[r] # "none"
       /\ child[r] = "ended" => child'[r] # "running"]_vars

(* A reader starts a child only when its own limit has passed since any       *)
(* reader started one with the same command, although readers that share a    *)
(* command have different limits, a refused attempt may count, and the clock  *)
(* moves on between the checks of RateLimit.__bool__ and __exit__             *)
(* (misc.py:59-76, cmdlines.py:25, 99).  So one without a limit starts its    *)
(* child at once, as in t/test_cmd_lines.py:41-46, and one whose limit is     *)
(* text never does.                                                           *)
RateRespected ==
  [][\A r \in Readers :
       child[r] # "running" /\ child'[r] = "running" =>
         prlimit[r] # Text /\ now - started[Cmd[r]] >= prlimit[r]]_vars

(* The daemon, and all its readers with it, waits inside readline() for one  *)
(* reason only: a child has written a part of a line (cmdlines.py:135-136).  *)
BlockedByHalfLine ==
  pc = "reading" /\ open[cur] /\ pipe[cur] = <<>> => buf[cur] # <<>>

(* Liveness: what a child has written, also the last line without a newline, *)
(* leaves pipe and buffer once its output is closed, whatever the other      *)
(* readers do and however early reads are stopped, if nothing is raised.     *)
ClosedIsDrained ==
  \A r \in Readers :
    (child[r] # "none" /\ ~open[r]) ~>
      (pc = "raised" \/ (pipe[r] = <<>> /\ buf[r] = <<>>))
==============================================================================
