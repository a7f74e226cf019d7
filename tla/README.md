# Verification of sslf

sslf follows files and commands and forwards what it reads, as events, to a
Splunk HTTP event collector (HEC).  This directory holds TLA+ modules of its
core, the TLC runs that check them on small instances, and TLAPS proofs of the
most important invariants for all values of the constants.  Paths such as
`dq.py:94` are relative to `sslf/util`, `sslf/returner`, `sslf/reader`, or
`sslf` in the repository.

## 1. The system

One process with one thread.  `Daemon.loop` calls `step` for ever (or, with
`one_step`, until there is nothing left to do) and sleeps in between.  A step
first flushes the queue of every configured path that has events and is not in
backoff, then asks every reader whether it is ready and puts what it reads into
the queue of its path.

```
 file ----> filelines Reader --+                      +--> MemQueue
 command -> cmdlines Reader  --+-> Daemon.step --> MySplunkHEC     \
                               |   (read loop)    queue_event       v
                               |                  flush <--- DiskBackedQueue
                               |   (flush loop) --->|        (MemQueue + DiskQueue)
                               +-- meta files       +-> HTTP collector
```

| Part | State | Operations | What is hard |
|---|---|---|---|
| `MemQueue` (dq.py:42-123) | a deque of byte strings, a size limit | put, unget, get, pop, getz | batches that come back to the front; two limits, one per queue and one per batch |
| `DiskQueue` (dq.py:126-245) | one file per item; counters `cn`, `sz` | put, get, pop, peek, getz, clear, `_count` | counters beside the directory, file names made of the second and the counter, writes that fail, restarts |
| `DiskBackedQueue` (dq.py:247-316) | one of each | put, get, getz, pop, unget, `_disk_to_mem` | items between memory and disk when the process dies |
| HEC returner (hec.py:110-321) | its queue | queue_event, flush, `_send_event` | lost and late answers, retries, order, exceptions |
| queue cache (hec.py:42-64) | weak references to queues | get_queue | paths that share a queue; two queues that share a directory |
| step and loop (daemon.py:340-440) | backoff of each path, step timer | step, loop | order of flushes and reads, backoff of shared queues, fairness among readers, when to end |
| configuration (daemon.py:77-330) | settings | `_grok_args`, `read_config`, `parse_args` | precedence of three sources read in four passes |
| life cycle (daemon.py:464-525) | pid file | start, kill_other | two daemons at once |
| `filelines` reader (filelines.py) and `meta.py` | position, size, mtime, signature; meta file | ready, read, save, load | a file that is appended to, truncated, replaced; stopping early; dying |
| `cmdlines`, `cmdjson`, `tshark` readers | child process, pipe, rate limit | ready, read, start, stop | a child that writes and ends at any time |
| `re.py`, `transform/*` | patterns; last parsed time | compute_fields, rlep_line | patterns that use each other's fields; events without a time |
| `util/misc.py` | rate limit table | RateLimit, AttrProxyList, DateParser | expiry against failure |
| json returner, `cimport`, tz table | none | | |

What makes each part correct is stated with its properties below.  The full
list of hazards, with the line where each one bites, is in `PROJECT.json`.

## 2. Modules

| Module | Models | Extends / instantiates |
|---|---|---|
| `Payload` | byte strings as the events in them plus a length; batches, separators, sizes | |
| `MemQueue` | `MemQueue` and the one caller that may hold a batch | `Payload` |
| `EventFifo` | abstract: a FIFO whose front block may be taken, settled or returned | |
| `MemQueueFifo` | refinement mapping `MemQueue` => `EventFifo` | `MemQueue` |
| `DiskQueue` | the directory, its names and counters, as formulas | `Payload` |
| `DiskQueueUse` | a `DiskQueue` on its own, called in any order | `DiskQueue` |
| `DiskBackedQueue` | both queues composed, with deaths and restarts | `MemQueue`, `DiskQueue` |
| `AtLeastOnce` | abstract: what forwarding promises | |
| `Hec` | the returner against a collector, refining `AtLeastOnce` | `MemQueue` |
| `Daemon` | step and loop | |
| `FileLines` | the file reader, its meta file, and the program that writes the file | |
| `CmdLines` | the readers of commands, their children and pipes, the rate limit | |
| `Config` | the four passes over keywords, command line and config file | |
| `LineEvents` | `compute_fields` and `rlep_line`: fields and times of lines | |
| `Configured` | one process from its configuration to the events of a path | `Config`, `LineEvents` |
| `PayloadLemmas` | what the operations of queues do to bytes and events, as lemmas | `Payload` |
| `MemQueueProofs`, `DbqProofs`, `HecProofs`, `DaemonProofs`, `FileLinesProofs`, `CmdLinesProofs`, `ConfiguredProofs` | proofs about the module of that name (`DbqProofs`: `DiskQueue` and `DiskBackedQueue`) | the module; `DbqProofs` and `HecProofs` also `MemQueueProofs` |
| `MC*` | constants for TLC | |

### How state and actions correspond to the code

*Payloads.*  The queues look only at the length of a byte string, so a payload
is a record of the events in it and a length.  `Bytes` is the sum of lengths,
written as the cardinality of a set so that no recursion is needed.

*MemQueue.*  `mq` is the deque.  `hand` is the local `r` of `getz` while its
loop runs (one turn per step, `GetzStep`) and `payloadz` of `flush` afterwards.
The methods are formulas on `mq` and `hand` (`MemAppend`, `MemUnget`,
`GetzTurn`, `GetzReturn`) that `DiskBackedQueue` and `Hec` use again.  Between a
take and its `Release` or `Unget` nothing is put, because the program has one
thread.

*DiskQueue.*  `files` maps names to payloads.  A name is a pair of the second
and the counter, in the order in which `files` lists them; `dcn` and `dsz` are
the counters `cn` and `sz`, which only `_count` compares with the directory.
`DiskWrite` opens with 'wb', so a name that is taken is overwritten.
`DiskWriteCut` is a put that fails in the middle: some or all of the bytes are
there and the counters have not moved.  `getz` cannot succeed: line 205 calls a
function the `os` module does not have, so it raises if the first file fits and
otherwise gives nothing (t/test_dq.py:57, 78 expects a batch).

*DiskBackedQueue.*  `pc` walks through getz: "getz" (memory's loop), "spill"
(what `dq.getz` adds), "fill" and "unlink" (the two halves of a turn of
`_disk_to_mem`), "held".  "raised" is an exception that nothing catches up to
the top of the process, so `Collapse` follows.  `Kill` is possible at every
step, `KillInPut` while a file is written; `Restart` opens the directory again.

*Hec.*  `flush` is a loop over batches; each batch ends in one of `Sent` (2xx
with code 0), `Declined` (2xx with another code or no JSON in the body),
`Refused400`, `Failed`, `Unanswered`, `Uncaught`.  After `Declined` the batch is
gone, whether or not the collector has it: every 2xx is `data_ok`
(hec.py:227-233, 262), so the branch for transient errors (hec.py:311-318) is
never taken.  `Unanswered` is a read timeout after the collector took the
batch.  `accepted`, `receipts`, `unsure`,
`dropped` and `lost` record history for the properties only.  The collector is
external: it counts what it gets.

*Daemon.*  One action per way through the body of each of the two loops of
`step`.  A queue is its number of events.  A flush that is ok leaves a queue in
memory empty, which is what `FlushOkDrains` of `Hec` shows.  One with a disk
behind it (`DiskBacked`) may keep events (`MayStay`): flush stops when getz gives
nothing, which `DiskBackedQueue` also does for an item that fits no batch
(hec.py:296-297, dq.py:199-206, 302), as the run `disk_drains` shows; and it
starts with what an earlier process left on disk (`_count`).  A flush that is
not ok leaves at least one event.  `late` is the step timer, which may run out at any event.

*FileLines.*  A line is written at once or in pieces (`Half`).  Pieces are
numbered in the order they are written, so that the properties can tell them
apart; the program cannot: it compares their texts (`Text`), and two pieces may
have the same.  `Changed` compares the texts of the signature with those at the
beginning of the file, so a file that was truncated or replaced and begins with
the same text is taken for the one before (`Mistaken`), its position is kept
(`Resumed`), and what lies before it counts as read without having been
(`taken`).  Positions and sizes count pieces.  `LineEnd` is
`readline`, which gives what is there of an unfinished line.  The writer
appends, truncates, removes and creates the file at any time; two changes may carry the same mtime.  `Ready` is `ready` together with the
daemon's decision to read at once.  `ReadLine` may end in "closing" because the
daemon stopped the generator, whose `finally` is `Save`, or in "raising"
because `rlep_line` raised: `finally` saves the position behind that line and
the process ends.  With `Racing` FALSE the file is truncated or replaced only while it is not being read.

*CmdLines.*  The thread of the daemon asks the readers in turn (`cur`); a child
(`child`) writes each line in two pieces, so that a half line exists, closes
its output (`open`), and ends, in any order: a process in the background may
keep the pipe open.  `Spoll` is select() on the pipe, which does not see `buf`,
the buffer of the file object.  `Ready`, `AskDied`, `Stop`, `Popen`, `Leave`
and `AskAgain` are one call of `ready`, cut wherever the clock or a child may
come between; `Fill`, `ReadLine`, `GoOn` and `ReadNothing` are `read`.  A raw
read takes any part of the pipe, as the buffer is finite.  `ReadLine` too may
raise.  `limits` is the table of `RateLimit`, indexed by command; the limit
itself is each reader's own (`prlimit`, cmdlines.py:25, 99), so that readers of
one command may have different ones.  One that comes from a config file is
text, as nothing converts it (daemon.py:137-142, 171); `dt_ok` compares it with a
number (misc.py:65), and the exception ends the daemon (`TextLimit`).

*Config.*  What is given (`given`) is chosen at the start: keywords, a command
line, and the content of each config file.  `phase` walks through `__init__`:
"kw" (`GrokKw`), "named" and "opts" (the first `parse_args`, cut where
`--show-config` reads the file), "file" (`ReadConfig`), "named again" and "opts
again" (the second), "paths".  A value is a type and a text, because
`Converted` decides by the type of the value it replaces.  The default of an
option of argparse is the setting at the time (`Unset`); that of a flag is
False.  `paths` keeps the options of a path in the order of the dictionary,
which is the order of its patterns.

*LineEvents.*  A turn of the loop of `compute_fields` is `Skip` or `Search`;
`todo` is the deque and `goOn` is `fields_to_find`.  What a pattern finds in a
text (`Found`) and which time a text means (`TimeOf`) are constants; a text
that is no date makes `Emit` raise, and one that means the epoch counts as
none, as 0.0 is false.  An input is a line, or the dictionary that the JSON
readers hand to `rlep_line` after the line itself.

*Configured.*  `UpdatePaths` is `update_path_config`: a path is served if it or
the daemon has a collector and a token, and its options become the table of
patterns, where the last pattern of one name takes the place of the first.

## 3. Runs

Every run is complete for its bounds.  "Violation" runs check a statement that
a test or a docstring of the repository makes and that the code does not keep.

| Run | Question | Bounds |
|---|---|---|
| `mem_queue` | Are the queue's limits kept, is nothing lost, duplicated, reordered or stuck, does it refine `EventFifo`? | five events of 1, 1, 2, 3 and 5 bytes, batch limit 5, memory 6: batches of up to three events, an event beyond the batch limit, refusals |
| `disk_counters` (violation) | "assert q.cn == item_count" (t/test_dq.py:33-40) | three events, two seconds, one failed write; collisions happen after every pop in the same second |
| `disk_backed_queue` | What is lost, is anything held twice, do the counters never hide a file, and does the directory stay within its size, with kills at every step? | four events of 1, 1, 3 and 3 bytes, memory 3, disk 4, two seconds, one failed write, one kill: what a collision takes, and the TypeError it leads to, happen |
| `disk_drains` (violation) | "return it anyway to prevent getting stuck" (dq.py:86-87) | two events of 4 and 5 bytes, memory 2, batch limit 3; no kill, no failure |
| `hec` | Is forwarding in order, at least once, with duplicates only after missing answers, and live? | four events, one filtered, one beyond the batch limit, two missing answers per event, one death |
| `daemon` | Backoff, fairness among readers, termination with one_step, queues drain | three paths on two queues (the first and the third share one that has a disk, the second has its own in memory), capacity 2, two lines for the first path and one for the others, two failed flushes per queue, one exception |
| `file_lines` | Are lines skipped, repeated or left unread? | four pieces: the first two have the same text, the third is half a line, the fourth makes rlep_line raise; signature of two pieces, two replacements, three mtimes, two deaths |
| `file_lines_race` (violation) | After a truncation the new line is read (t/test_file_lines.py:23-26) | as `file_lines`, but the file may be truncated during a read |
| `cmd_lines` | Are lines whole, in order and not lost, are children waited for and started within the rate, and is a closed output read to its end? | two readers that share one command, two lines (four pieces) for each, limits of one second and none, or of none and a text, two seconds: races of a restart with a last line, lines left in the buffer, refused starts and a half line that blocks the daemon all happen |
| `configured` | Which source is in force after four passes, does `--show-config` show it, and which fields and times do lines get from it? | 17280 choices: keywords, flags, two options of their own, `-o`, `-p`, `--show-config`, five sections and four orders of patterns in the file, a second file; unknown fields, numbers and booleans that are none; then three of four inputs |
| `re_patterns` (violation) | "apply patterns to it" and "skipping (for now)" (re.py:36, 72) | as `configured` |
| `file_flags` (violation) | "parse args again to make sure they override configs when given" (daemon.py:84), of a flag that is not given | as `configured` |

Why the bounds are enough: each hazard needs few actors.  A reordering needs a
batch that comes back with one event behind it and one in front; a collision
needs two files of one second; the backoff needs two failures in a row to tell
doubling from adding; a signature needs one truncation followed by more lines
than before, and two pieces of one text to be mistaken; a search needs three patterns, one that waits for a field, one
that finds it and one that finds nothing.  Every property has a mutant, a plausible bug in one
definition, that the run finds.

What the properties say, beyond type correctness:

* `Conserved`, `ImplementsFifo`: events come out once, in the order they went
  in, through any mixture of batches, returned batches and single gets.
  `MemBounded`: `unget` may exceed the size, but by the payload in front only.
  `BatchLimit`, `GetzProgress`: batches keep the limit and getz gives nothing
  only if there is nothing.
* `NeverUndercounts`: callers look at `cn` before they look at files, so a file
  that `cn` does not cover would be invisible until a restart.  Name collisions
  only ever make `cn` too large; a failed write makes it too small by one each.
  `DiskBounded`: without failed writes the counter `sz` is never below what is
  on disk.  Both are asked of the two queues together, where items also come
  back from disk to memory and the process restarts.
* `DbqConserved`: there are exactly three ways to lose an event: put raised,
  its file was overwritten by a collision, or the process died while only
  memory had it.  The last one includes the exception of `dq.getz`, which is
  reached in normal operation as soon as the disk holds an item that fits.
  `NoSecondCopy`: the copy to memory and the unlink of `_disk_to_mem` are in the
  order that neither duplicates nor loses.  `HalvesKept`: the invariants of the
  two queues survive their composition, with kills and restarts.
* `ImplementsAtLeastOnce`: an event that was accepted stays until the collector
  has confirmed it, has answered 400, has answered 2xx with an error or nothing
  readable, or the process dies.  The third is a loss that the code logs as an
  error and does not retry.  `DuplicatesExplained`: a copy beyond the first needs
  a request that was taken and not answered.  `InOrder`, `EventuallySettled`: see
  the comments in `Hec`.  `FlushOkDrains` is about a queue in memory.
* `BackoffExact`, `EveryReaderServed`: see the comments in `Daemon`.
  `QueuesDrain` is asked of the queues in memory, also next to a disk that never
  empties.  `OneStepEnds` excepts one case only: an event stays in a disk-backed
  queue for ever.  Then every flush is ok, `step_unfinished` stays True and
  `one_step` never returns (daemon.py:372-378); TLC finds this if the exception
  is left out.  `ExitDrained`: if it returns, all queues are empty.
* `NoSkip`, `NoRepeat`, `UnreadIsRead`: see the comments in `FileLines`.  They
  hold as long as the file is not truncated or replaced during a read; the
  violation run shows why.  A line that makes `rlep_line` raise is read once:
  the position is behind it when the process ends.  `UnreadIsRead` starts from
  a ready reader, because a line that is written between the end of a read and
  `save` is counted in the saved size (filelines.py:115) and waits unread until
  the next line comes.  A line that is read while it is half written becomes
  two events; nothing of it is lost or repeated.  What they except is what a
  file that begins with the signed text of the one before, and is not seen to be
  smaller, has before the old position (`Taken`): it is skipped.  The exception is no
  wider than that position, and ends with the next replacement.
* `LostOnlyInRestart`, `ClosedIsDrained`: the order of `spoll` and `died` in
  `ready` saves every line of a child that had closed its output before it was
  asked.  The lines of a child that ends between the two are lost with the next
  start, and so are complete lines that the buffer still held.
  `BlockedByHalfLine`: the daemon waits in `readline` for half lines only.
  `RateRespected`: a reader starts a command only when its own limit has passed
  since the command was last started by any reader, and one whose limit is
  a text starts nothing.
* `InForce` (`CommandLineWins`, `FileIsHeard`, `KeywordOrDefault`,
  `PathsInForce`), `ShownIsFinal`: the command line before the file, the file
  before a keyword, a keyword before the class attribute, each where no source
  before it has the setting.  Of flags `InForce` says only that one on the
  command line is in force: a flag that only the file sets, as
  example/sslf.conf does, is turned off again by the second parse, which
  `FileFlagsHeard` denies and `file_flags` shows.  A word that is no boolean
  turns a flag into a text, and then a later "no" is true.  `--show-config`
  shows the value of the file where the command line has another.
* `FieldsInForce`, `TimeIsNearest`, `SearchEnds`: the fields that
  `compute_fields` returns are exactly those found by the patterns up to the
  first that finds nothing, by the order of the options in force, each with the
  value that the last of them found; the event's time is its own or that of the nearest
  line before it, and the search ends.  `EveryPatternApplied`, what the
  docstring promises, does not hold: a pattern that is put back is never taken
  up again, and one that finds nothing hides those behind it.

### Fairness

* `Hec`: weak fairness of the steps of flush, because the interpreter goes on;
  weak fairness of starting a flush while the queue is not empty, because the
  daemon's backoff is finite after each failure; strong fairness of `Sent`: a
  collector that is asked again and again accepts at some time.  No fairness of
  producers, deaths or other answers.  A dead process need not be restarted:
  what was in it is counted as lost when it dies.
* `DiskBackedQueue` (`disk_drains` only): the steps of a call, the daemon that
  keeps asking, the restart, and a caller that succeeds again and again.  The
  violation is not due to a step that stops being taken.
* `Daemon`: weak fairness of the thread.  Failures are bounded, so the
  conclusion is "drained once the collector stops failing".  Deadlock is not
  checked there, as the daemon may end.
* `FileLines`: weak fairness of the reader (the daemon asks it in each step).
* `CmdLines`: weak fairness of the thread, and of the end of a half line: a
  child that has written part of a line writes the rest or closes its output.
  Without the second the daemon may wait in `readline` for ever, which no code
  prevents.  Deadlock is not checked, as a Popen that fails ends the daemon.
* `Configured`: weak fairness of the steps of `compute_fields` and `rlep_line`,
  because the interpreter goes on with a call that has begun; none of new lines.
  Deadlock is not checked, as a configuration may fail or be shown only, and
  the lines are bounded.

## 4. Proofs

TLAPS proves, for every set of events, all sizes, limits and bounds:

* `MemQueueProofs`: `MemTypeOK`, `Conserved`, `MemBounded`, `BatchLimit` and
  `GetzProgress` are invariants of `MemSpec`.  None but the first is inductive.
  `MemIInv` adds that every payload in the queue is at least one byte long and
  is a single event if it reaches the batch limit (`Good`), that the batch in
  hand has the same shape and, while the loop runs, is below the limit
  (`HandFits`), and that after a take the rest of the queue fits in its size
  (`RoomAfterTake`), which is why a batch that comes back cannot exceed the
  size by more than itself.
* `DbqProofs`, first part: `DiskTypeOK`, `NeverUndercounts` and `DiskBounded` are
  invariants of `DqSpec`, a `DiskQueue` whose methods are called in any order
  (TLC checks them in the composition, as `HalvesKept` and by name); together they are inductive (`DiskIInv`).  The oldest
  file is a `CHOOSE`; that it exists (`OldestExists`) is proved from the order
  of names being total and the well-foundedness of inclusion of finite sets.
  `StoredAdds` says that a write adds at most one name and at most the item's
  bytes, whether or not the name was taken, which is why collisions can only
  make the counters too large.
* `DbqProofs`, second part: `HalvesKept`, `DbqConserved` and `NoSecondCopy` are
  invariants of `DbqSpec`, with kills at every step.  The methods of the two
  halves are formulas, so the lemmas about each half on its own are cited for
  the steps of both together.  `DbqIInv` adds to them where the second copy
  of a payload is between the put and the unlink of `_disk_to_mem` (`Placed`),
  that no event is in two files or twice in memory (`FilesApart`, `NoneTwice`),
  and that a file cut short may hold a payload without events, which is why
  `HalvesKept` has no `Good`.
* `HecProofs`: `DuplicatesExplained`, `InOrder` and `FlushOkDrains` are
  invariants or action properties of `HecSpec`, and every step of it is one of
  `AtLeastOnce` or leaves that unchanged: the safety half of
  `ImplementsAtLeastOnce`, with a batch that is answered 2xx and an error among
  those given up (`Decline`).  `InOrder` needs that the queue is in the order of
  acceptance (`InLine`), through getz and unget, and that nothing is accepted
  twice.  `DuplicatesExplained` needs the same bound for events still pending,
  with one copy less (`Copies`), and `Accounted`: what is pending was accepted,
  and what was accepted is pending or settled.
* `DaemonProofs`: `TypeOK`, `EveryReaderServed`, `ExitDrained` and
  `BackoffExact`, for any paths, any sharing of queues and all bounds.
  `ServedSoFar` and `DrainedSoFar` say what the loops have done up to the index
  they are at.  `BackoffExact` counts for queues what the code counts for paths:
  `BackoffOfFirst` shows that only the counters of the first path of a queue
  matter, because whoever comes later finds the queue in `done`, or empty
  (`LookedAfter`).
* `CmdLinesProofs`: `TypeOK`, `OneLineEach`, `BlockedByHalfLine`,
  `NoOrphanNoZombie` and `RateRespected`.  `Streams` says that the buffer and
  the pipe hold the last pieces written, without a gap, and begin with a whole
  line unless the pipe is closed; then `readline` cannot give half a line of one
  child and go on with another.  `Points` and `StartsCounted` carry what `ready`
  has checked, among it that the limit of this reader is a number and has passed
  (`LimitPassed`), over the places where the clock moves or a child ends.
* `FileLinesProofs`: `TypeOK`, and, if the file is not replaced in the middle of
  a read (`~Racing`, without which the violation run shows that they are
  false), `NoSkip` and `NoRepeat`, for every signature length, any number of
  pieces and any texts, half lines and bounds.  The pieces before the first one
  of a version of the file are its `Base`.  A signature remembers which pieces it
  was made of (`Signed`), although the program compares only their texts; where
  these pieces are those of the file, what lies before the position has been
  read or was taken for it, and where the text is the same but the pieces are
  not, the check moves `taken` up to the position (`Mistaken`).  A position may
  lie behind the end of the file only for that reason (`Reached`).
  `OnceBehind`: what has been read more often than the process died is behind
  the place from which the reader goes on, and the file is at least as long as
  when that place was saved, so that the next check does not go back to the
  start.
* `ConfiguredProofs`: `TypeOK`, `InForce`, `ShownIsFinal`, `TimeIsNearest` and
  `FieldsInForce`, for all settings, flags, options, files, patterns and lines.
  `PassesDone` names the settings between the passes (`S1` to `S6`, `Shown1`,
  `Shown2`) and says which of them each phase has reached; one lemma for each
  kind of pass says what it does to one field, given the type that the field has
  by then (`TypesOf`), and precedence is read off.  `SearchSoFar` says that the
  work list is what is left of the patterns after the first n, all of which
  found something.  That the two functions defined by recursion (`After`,
  `PatternsOf`) satisfy their equations is proved by hand, from a least length
  at which there would be no solution.
* `PayloadLemmas`: the arithmetic of bytes (`BytesSplit`, `BytesAppend`,
  `BytesTail`), the events under the operations of a queue, and which relations
  between the events of different payloads they keep (`Across`): distinctness in
  `DbqProofs`, order in `HecProofs`.

Assumptions are those of the modules: sizes of encoded events are positive
(`SizeAssumption`), the batch limit is at least two bytes (`SzAssumption`),
the lists of paths and readers are finite, sizes and bounds are naturals, the
limit that is text is no number (`CmdLinesAssumption`); what
is given for the configuration is text, keywords have the type of their field
(`GivenAssumption`: they are Python values, and a program that passes a word for
a flag gets what a config file gets), and no date means the error value
(`LinesAssumption`).  TLC evaluates them in the runs.

Only model-checked: `ImplementsFifo` of `MemQueue`
and `LostOnlyInRestart` of `CmdLines`, which speak of the concatenation of
sequences of sequences by a fold (an induction over data); and all liveness properties
(`QueuesDrain`, `OneStepEnds`, `EventuallySettled`, `UnreadIsRead`,
`ClosedIsDrained`, `SearchEnds`), as fairness is out of reach of this prover.

## 5. What is not modelled, and what is abstracted

* Type checks of payloads, encoding of events, connection options, logging.
* `DiskQueue.put`'s failure in `_mkdir`: nothing is changed then and the event
  is lost as in `PutFails`.
* In `CmdLines`, the capacity of the pipe (a child that is ahead just waits),
  the wrappers around a command, and `stop` of a running child, which only the
  setter of `cmd` calls; the daemon sets `cmd` once, before there is a child.
* The clock only moves forward, and inside a `DiskBackedQueue` call it stands
  still, as only put reads it.
* The file reader's buffering and text that cannot be decoded; signatures of equal texts are equal, those of different texts differ: md5
  collisions do not occur.
* In `Hec`, payloads are refused because of memory only (no disk queue is
  configured); `DiskBackedQueue` covers the other case without the collector.
* In `Config`: `-V`, the `G` and DEFAULT sections, options without a value,
  the spelling of words (`lower`), the classes of readers and returners, and
  options whose form is not understood, which raise.  A second `Daemon` in the
  same process would share `_path_config`; the program makes one.
* In `LineEvents`: regular expressions that do not compile (they are left out),
  flags of patterns (never used by the code), calendars and time zones.
* `kill_other` and the pid file: the other half of that protocol is
  python-daemonize's.  The rewriting of keys in `tsharkek.py` is a function of
  the spelling of names.
* Components without a module are listed in `PROJECT.json` with the reason.

## 6. Plan

Done: the queues, the returner, the loop, both line readers, the configuration
and the events of lines, with the proofs above.  Next, in this order:

1. `SharedSpool` (hec.py:42-64): two `DiskBackedQueue`s on one directory.
2. `Forwarder`: reader, queue, returner and loop composed; a line that was
   written is received, refused or accounted for.
3. Proofs: the order of events in `ImplementsFifo` and `LostOnlyInRestart`, by a
   formulation of the concatenation that needs no fold.
