# A TLA+ model of nginx-clickhouse

nginx-clickhouse reads NGINX access log lines, buffers them in memory or on
disk, and inserts them into ClickHouse in batches.  This directory holds a
TLA+ model of its control: who touches a line when, what a failure does to it,
and what a caller may rely on.  Paths and line numbers refer to the repository.

## Inventory

| Component | State it keeps | Operations | What is hard about it |
|---|---|---|---|
| Pipeline (`main.go`) | lines drained by each running `flush`; `shutdownOnce` | startup replay, read loop, `flush`, `flushLoop`, `doShutdown` | three goroutines flush the same buffer; a batch lives in a local slice from `ReadAll` to the end of `Save`; end of input races a signal; kill and restart |
| Memory buffer (`buffer/buffer.go`) | a slice of lines, its capacity | `Write`, `ReadAll`, `Replay`, `Len` | full while a failed batch is written back |
| Disk buffer (`buffer/disk.go`) | numbered segment files, open file, byte account, segment counter, line count | `NewDiskBuffer`, `Write`, `ReadAll`, `Replay`, `Len`, `Close` | counters rebuilt from files; rotation; quota; crash between two removals; partial writes; lines that cannot be read back |
| Circuit breaker (`circuitbreaker/`) | state, failure count, time opened | `Allow`, `RecordSuccess`, `RecordFailure`, `State` | outcomes recorded long after they were allowed, in any order |
| Retry (`retry/`) | attempt, delay | `Do`, `Backoff` | overflow of the doubled delay, zero and negative settings |
| ClickHouse client (`clickhouse/clickhouse.go`) | the shared connection under `c.mu` | `Save`, `Healthy`, `Close`, `connect`, `resetConn` | other callers between two attempts; broken connections; commits reported as errors |
| Row building, enrichments, user agents (`clickhouse/clickhouse.go`) | the user agent parser's cache | `buildRow`, `resolveEnrichment` | a field converted here for the row and in `filter` for the rule; extra enrichments of file and environment |
| Parsing (`nginx/`) | none | `ParseLogs`, `ParseJSONLogs`, `ParseField` | lines that do not parse vanish from a batch; JSON numbers pass through texts |
| Filter chain (`filter/`) | compiled rules | `NewChain`, `Apply` | the output of a rule is the next one's input; expressions that fail on an entry; sampling drawn anew when a batch is flushed again |
| Configuration (`config/`) | the settings | `Read`, `SetEnvVariables` | overrides that do not convert, lists rebuilt from the environment, defaults set in three places of `main` |
| Startup (`main.go`) | the settings, what has been opened | `main` up to the read loop | its order: what is drained or served before a later step ends the process |
| Check mode (`clickhouse/check.go`, `runCheck`) | the verdict so far | `-check` | what it accepts against what `main` and `Save` need; a server that changes between two queries |
| Metrics, `/healthz` (`main.go`) | counters and gauges | HTTP server on port 2112 | gauges set outside the mutexes |
| Line sources (`main.go`) | file position | tail, `-once`, `-stdin` | the end of the input |

Interactions.  The reader (`main`), the flush loop and the signal handler call
`flush`.  `flush` asks the breaker, drains the buffer, parses and filters,
calls `Client.Save`, tells the breaker the outcome, and after a failure writes
the raw lines back.  `Save` runs its attempts through `retry.Do`; each attempt
holds `c.mu`, the sleep between two does not.  `/healthz` takes `c.mu` from the
HTTP server's goroutines.  Buffer, breaker and client have a mutex each;
nothing orders one flush against another.

What makes the components correct:

- pipeline: a line is in one place at any one time and leaves it only as
  stored, discarded, dropped or lost; what the read loop and re-buffering give
  up is counted, while a failed save of replayed lines is only logged; an outage
  within the buffer's capacity costs nothing; an input that ends makes the
  process exit with nothing left behind but what the flush loop has in its hands;
- buffers: a FIFO queue whose length and size are never more than what is
  stored, and exactly that until a failure the code does not account for (which
  ones: `SizeTracked`, `LenTracked`); nothing refused comes out, a failure costs
  one accepted line at most;
- breaker: refuses exactly while a full streak of failures has not rested;
- retry: the delay is the capped exponential one, an error means that every
  attempt has been made, and none is made for a negative number of retries only;
- client: nil means committed if there was an attempt to make, a fault costs one
  attempt, duplicates need a fault, every call returns;
- filter chain: an entry's fate depends on the entry, the rules and the draws,
  not on its neighbours or on the order of the rules; an expression that fails
  costs no entry; what is stored satisfies the rules by the values stored;
- configuration and startup: the rules in force are the ones asked for; the
  settings reach buffer and breaker within what these assume; the lines of a
  previous process are not touched before log format and rules have proved
  usable (log and port are tried only afterwards); `-check` says yes exactly
  when what it looks at is there, and what it passes starts and saves but for
  what it does not look at.

`PROJECT.json` lists the hazards with their source lines and the properties
about them.

## Modules

    Breaker          what the breaker promises its callers (abstract)
    CircuitBreaker   circuitbreaker.go, shown to implement Breaker
    CircuitBreakerProofs
    LineQueue        what a buffer promises (abstract)
    DiskBuffer       disk.go, shown to implement LineQueue
    DiskBufferProofs
    Pipeline         main.go, built on Breaker and on the buffer as a queue
    PipelineProofs, PipelineFlushProofs
    Retry            retry.go with the defaults of Save
    RetryProofs
    Client           Save's attempts and Close on one connection
    ClientProofs
    Settings         config.go: what the environment makes of the file's settings
    Entries          nginx.go, json.go, buildRow: from a line to a row
    FilterChain      filter.go
    Startup          main from Read to the read loop, -check, the first flushes
    StartupProofs    also about Settings, Entries and FilterChain
    FoldLemmas       induction and folds, for the proofs
    MC...            instances for TLC

**Breaker / CircuitBreaker.**  The variables are the fields of the struct, a
clock, and for each caller whether an allowed flush is running.  A method is a
step, since it runs under `cb.mu`.  `Abandon` is a flush that was allowed and
returns before `Save`.  Breaker forgets state names and clock: a streak of
failures up to the threshold, and whether it has rested.  The refinement maps
the failure count to the streak and "count at the threshold and cooldown over"
to `rested`, so that `Allow` grants exactly what the abstract breaker grants.

**Pipeline.**  `pc` holds where each of the goroutines `main`, `loop` and `sig`
is; `held` the raw lines its flush drained, `kept` the subset that became
entries; `buf` the buffer; `fate` what became of each line.  A step is what
happens between two points where another goroutine can be seen: `Allow`,
`Drain` (ReadAll, with the parsing and filtering that touch only local data),
`SaveSucceeds`/`SaveFails` (the whole of `Save`), the breaker's outcome, one
step per line written back (`Rebuffer`), `Receive` (one `Write` of the reader)
and `Check` (its look at `Len`).  `Shutdown` is the entry of `sync.Once`, where
the second caller blocks; `Exit` is `os.Exit`.  A crash or an exit loses what
the goroutines hold; with a disk buffer the queue survives, but for a prefix
when a `ReadAll` was running, as LineQueue says.  That is the disk buffer while
no write is cut short and files are listed and removed (`DiskIsAQueue`); what
these failures do to lines is in DiskBuffer only.  `Restart` is a
new process that reads on where the last one stopped (`seek_from_end`).  Lines
of `Unwanted` do not parse or are filtered; of `Sampled` a filter rule with a
sample rate decides anew in each flush.

**LineQueue / DiskBuffer.**  `segments` maps a segment number to its lines, its
size, and what stands after its last newline; the counters are those of the
struct.  `Failing` names the file operations that may fail, `failed` those that
have.  `NewDiskBuffer` is `Open`, which may skip a segment it cannot stat and
count a part of one it cannot open or read, `OpenUnlisted` (`filepath.Glob` hides
its errors, so the directory looks empty) or `OpenFails`.  A `Write` is one step.
It may store nothing, or any proper part of the line: all of it but the newline
reads back as the whole line (`Part`), and the next line is appended to what is
there, which makes one element of the two that is neither (`Joined`).  `ReadAll`
is one step up to the removals, one for each `os.Remove` and one for the return,
with crashes in between.  While it removes, the abstract queue is what it has read:
a crash then loses a front of the queue.  The crash is one of the process; the
files are taken to keep what was written to them.

**Retry.**  One `Do` with all its calls and the loop of `Backoff` inside,
durations from `-HalfRange` to `HalfRange - 1` that wrap around.

**Client.**  `pc` of each caller in `Save`, the mutex, the connection (none,
good or broken), and for each batch how often it was committed and what `Save`
returned.  The number of retries, any but 0 after the default, and whether any
column is configured are chosen at the start; `Attempted` says for which batches
`Save` makes an attempt, for the others it returns nil at once.  `Healthy` takes the mutex and changes nothing.  The driver and
ClickHouse are external: calls fail, connections break and may heal, a failing
`Send` may or may not have committed.

**Settings, Entries, FilterChain, Startup** extend each other in this order.
Settings and Entries are functions: the overrides of `SetEnvVariables`, the
conversion of JSON values and of fields, and the row of an entry.  What Go's
libraries make of a text (`strconv`, the URL and user agent parsers, the split
at `:`) is a table, a constant that the instance fills for the few texts that
occur.  FilterChain has the compiled rules, the batch, and the place `Apply` has
come to: a step is one entry in one rule, with its draw.  The expression language
is external; an expression is a test of one field, which may fail for an entry or
not compile.  In Startup a step is one thing `main`, `runCheck` or `Client.Check`
does; `dead` is `logrus.Fatal`, a panic or `os.Exit(1)`.  Its file, environment,
host, ClickHouse server and lines are chosen at the start, and the server may
change between any two steps.  A passing `-check` may be followed by a start for
good with the same files.  That the log is there (`os.Stat`, "log") and that it
can be opened ("readable") are two things of the host.  A column of the server
takes some types of values: a row that does not fit is left out or fails the
`Send`, as the driver pleases (`Fits`, `Save`).  Seconds beyond `MaxSeconds` wrap
as a `time.Duration`.  Pipeline begins where Startup ends: here one flush
after the other with the contents of entries, there all of them at once without.

## Runs

Passing runs, and why their bounds suffice:

| Run | What it shows | Bounds |
|---|---|---|
| `breaker_states` | state, counter and clock agree, a half-open breaker has cooled, a failed probe reopens, refinement of Breaker | three callers (the program has three), threshold and cooldown 2, clock to 6: three cooldowns, so a breaker trips, half-opens and trips again |
| `pipeline_memory` | drops only for want of room and none while healthy, the last flush leaves nothing, the process exits, protocol of the breaker | 4 lines of an input that ends, one unparsable and one sampled, through a buffer of 2, so it fills, drains, fills again and overflows while a batch is written back; 3 failed saves trip a breaker of threshold 2 and fail its probe; a signal at any moment |
| `pipeline_disk` | conservation, one place at any one time, losses counted but for failed replays, through crashes, restarts and file errors, and that each line settles | 3 lines, room for 2, 3 failures, 2 restarts: a restart after a restart, replay that fails, a full disk, and a breaker that opens |
| `disk_queue` | refinement of LineQueue, stored lines come out | 5 lines of 1 to 3 bytes, segments of 4, quota 8: up to four segments; 2 failures of any operation but those that break the queue (torn writes, files not listed or not removed), 2 crashes |
| `disk_faulty` | byte and line counters, quota, what comes out of failing writes, damage of a failure | the same lines and segments, one line overlong, every operation failing, 3 failures, 2 crashes: a torn line, one appended to it and a restart that skips the file |
| `retry_backoff` | delays and number of calls | 6-bit durations, initial and maximum at, below and above every boundary, -1 to 6 retries |
| `client_shared` | one owner of the connection, nil means committed if attempted, one fault one attempt, duplicates need faults, every Save returns | 3 callers, 4 batches, one refused by the driver and one without an entry, 1 retry or a negative number, columns or none, 2 faults: as many as one Save does not survive |
| `service_start` | `-check` is exact (for a server that does not change between its queries) and what it passes starts and saves; rules as asked for, applied entry by entry and true of the rows; defaults; replay last | files, environments, hosts and servers with one thing wrong at a time, in every combination, among them a log that is there but cannot be opened, a column of another type and a cooldown that wraps; up to 3 rules; 2 lines; 2 flushes, so one is repeated after an error; one change of the server |

They have between 854 (`breaker_states`) and 1.4 million distinct states
(`disk_faulty`, `service_start`).

Each property of these runs has a *slip* in the modules, a definition beside
the code's one with a plausible mistake in it, that breaks the property when it
takes the other's place (`mutants` in `PROJECT.json`).

Runs that end in a counterexample, each against a sentence of the repository:

| Run | The sentence | What happens |
|---|---|---|
| `shutdown_loses_lines` | no data loss (`README.md:363`) | exit while the loop is in `Save`, or a line read after the last flush |
| `crash_loses_lines` | at-least-once (`README.md:381`) | segments are gone before `Save` returns |
| `overlong_line_wedges` | returns all stored lines (`disk.go:114`) | a line of 64 KB makes every later `ReadAll` fail |
| `check_skips_enrichment` | enrichment columns need not exist in the table (`check.go:132`) | `-check` passes, `Save` names the column and fails every time |

Further disagreements, which the models show but no run is spent on:

- in half-open every goroutine passes until the first outcome is recorded
  (`AllowHalfOpen`), where `circuitbreaker.go:16` speaks of one probe;
- with `-once` too the process may exit while the flush loop is in `Save`
  (`OnceDrains` makes that exception), where `README.md:84` says flush all
  entries and exit;
- a failed save of replayed lines is only logged, and no counter shows it (fate
  "unrestored"), where `README.md:381` promises at-least-once delivery;
- a refused flush counts no line (`Refuse`), where `README.md:399` has skipped
  lines counted as not processed;
- the line after a torn write is appended to its rest and lost (`DamageBounded`
  bounds it), where `buffer.go:18` returns all stored lines; and a line cut just
  before its newline is counted as not processed and stored all the same (`cut`
  in `RefusedStayOut`);
- a segment skipped at startup, or a part of a torn line, is missing in the byte
  account, so that the files may exceed the quota (`WithinLimit` ends there):
  `disk.go:31` calls the limit approximate, `README.md:126` does not;
- an initial delay above the maximum is used as it is (`Jittered`), where
  `README.md:123` names the maximum;
- with a negative number of retries `Do` makes no call and returns nil
  (`More`), where `retry.go:40` returns the last error, and `Save` reports
  success for lines it never sent (`Attempted`), as it does when no column is
  configured; and 0 retries mean 3 (`Default`), where `README.md:329` says that 0
  disables them;
- `FILTER_RULES` with nothing but malformed entries leaves no rule at all, not
  those of the file (`OverrideFilters`);
- the branches of `runCheck` that report a bad format or bad filters
  (`main.go:461`, `main.go:475`) are never reached: `main` has ended before
  (`CheckHost` only after `NewParser` and `NewChain`);
- `-check` asks for the log file, which a start with `-stdin` does not need, and
  only for its being there: one that cannot be opened passes, and ends the start
  after the replay has drained the disk buffer (`CheckHost` against
  `OpenLineSource`);
- a metrics port that is taken ends the process at any time after `Serve`, also
  in the middle of its first flush (`ServeFails`);
- `/healthz` answers 503 until the first `Save` has connected, where
  `README.md:538` says that ClickHouse is unreachable.

Named bounds: `MaxTime` (clock), `MaxFaults` (failed saves, file operations,
calls, broken connections), `MaxRestarts`, `NumLines`, `NumBatches`, `MaxFlushes`, `MaxChanges`
(changes of the server).  Deadlock
is checked in every run: where the system stops on purpose (the process has
ended, `Do` has returned, a batch is saved, the clock is at its bound) the model has a step of
its own that says so.  Symmetry is used for the callers of the breaker, which
are interchangeable.

## Fairness

- Pipeline: weak fairness of each goroutine (the Go scheduler runs what can
  run, sleeps end, `Save` returns: its retries are finite) and of the cooldown
  (time passes).  Signals, crashes, restarts and successful saves get none;
  failures are bounded by `MaxFaults`, which makes an outage end.
- DiskBuffer: weak fairness of `ReadAll`, which the flush loop calls at every
  interval, and of `Open` after a crash.
- Client: weak fairness of an attempt's steps, strong fairness of taking the
  mutex: Go hands a mutex to a waiter that has waited for a millisecond.  The
  calls over the connection are assumed to return.
- Startup states no fairness: only safety is claimed of it.

## Proofs

TLAPS checks `CircuitBreakerProofs` for any set of callers, any threshold and
any cooldown above 0 (`ConfigAssumption`).  The inductive invariant `IInv` is
`TypeOK /\ StateMatchesStreak /\ HalfOpenHasCooled`.  `StateMatchesStreak` is
inductive by itself; `HalfOpenHasCooled` is what the refinement needs beyond
it, since `AllowHalfOpen` must find the abstract breaker rested.  From it
follow the three invariants, the action property `FailedProbeReopens` and
`Refinement`: `Spec => ImplementsBreaker`.

`PipelineProofs` proves `TypeOK`, `Accounted` and `OnePlace` of the pipeline for
any input, buffer size, quota, threshold and number of failures and restarts
(`SettingsAssumption`: what `main` makes of settings that are not negative).  Neither of the last
two is inductive.  The invariant `IInv` is `Shape /\ Places`:

- `Shape` adds to the types who may be in a flush (`FlushersInOrder`: only the
  owner of `shutdownOnce` flushes from the signal handler, and during the
  startup replay the other goroutines have not been launched) and that a
  goroutine holds lines exactly from the drain to the end of the save or of the
  re-buffering (`HeldInOrder`).  Without it a `Drain` could overwrite lines
  still held, and an empty batch could be written back.
- `Places` adds to `Accounted` and `OnePlace` that lines not yet read have been
  nowhere (`UnreadInOrder`): without it the reader could write a line that the
  buffer already has.

The proof has a lemma for each way in which lines move (`BufferTaken`,
`BatchSettled`, `LineRead`, `LineWrittenBack`, `ProcessEnds`, ...), and one for
each group of actions that shows which of these moves its steps are.

`PipelineFlushProofs` proves what needs the course of a flush.  For `LossCounted`:
`flush` counts the entries when the save fails and gives lines up later, one by
one.  `HeldExcused` bridges the two: a flush that saves holds, besides its
entries, only lines that do not parse or that a rule may drop, and one whose save
has failed holds only such lines and counted ones.  `ReplayInv` has the other half,
that lines go uncounted only in a replay: what `main` replays and gives up was left
on disk by a process before this one.  `ImplementsBreaker` is proved
for a process that is not restarted (`MaxRestarts = 0`: a restart is a new process
with a new breaker); besides `IInv` it needs that without a breaker the streak
stays 0.  With `Refinement` above, `main.go` and `circuitbreaker.go` fit.

`NoDropWhileHealthy` and `OnceDrains` speak of a process without a failure yet.
`Healthy` says what that implies: no goroutine is on its way to write back, the
streak is 0, and the memory buffer is below its capacity wherever `main` is about
to write, since it flushes as soon as the buffer is full and the other goroutines
only empty it.  `OnceDrains` holds for the buffers in which that is so (`Roomy`:
memory, or a disk without a quota).  `DropsNeedOverflow` follows from the step and
`OnePlace`: a refused write finds a full buffer of distinct live lines.

`ClientProofs` proves the five invariants of Client for any callers, batches and
numbers of retries, negative ones included (`ClientAssumption`; 0 has become the
default by then).  `MutexHeld` (one caller inside an attempt, the owner of `c.mu`)
carries `ConnOwned`; `SavedCommitted` needs besides that nobody is in an attempt
for a batch without one, and nothing is committed of it (`IdleUncommitted`).  The two that compare numbers are paid for
one by one: `FaultsPaid` has failed attempts and the broken connection that is
still kept covered by faults, `ExcessPaid` gives every batch with a commit no
`nil` answers for a fault of its own; `OwnBatches` keeps batches apart.

`RetryProofs` proves all of Retry for durations of any width
(`SettingsAssumption`).  A doubled delay that does not fit is negative
(`WrappedOverflows`) and therefore reaches the cap, so the delay stays between the
bounds; `CallsCounted` ties the calls made to the loop's counter.  `CapExact`
needs `Exponential`: inside the loop of `Backoff` the delay is
`initial * PowerOfTwo[doublings]` and still below the cap, and once the cap has
been met it stays met, for powers of two only grow.  `PowerOfTwo` is a recursive
function since the provers do not know `^`.

`FoldLemmas` replaces induction over a property by induction over a set:
`SetInduction` says that a set with 0 and the successor of each of its numbers
has all of them, which follows from the cardinality of a finite set and a
shorter copy of itself.  From it come induction over subsets and along initial
segments, recursion over the numbers (`NatRecursion`), and that a fold has a
solution.  `LeftFoldExists` and `FoldExists` show the function that the CHOOSE
in `MapThenFoldSet` and `FoldLeft` speaks of to exist; what it computes follows
from its equations: sums over sets, joined sequences, selections, maps built up.

`DiskBufferProofs` proves every invariant of DiskBuffer and the refinement, for
lines, sizes, segments and quotas of any number (`SizesAssumption`), and, but for
the refinement, for any set of failing file operations.

- `Shape` (the types, and how `mode`, the open file and what `ReadAll` still has
  to remove belong together) and `Honest` (files and results hold nothing but
  accepted lines, lines whose write was cut short, and garbage) give `TypeOK` and
  `RefusedStayOut`.
- `Account` bounds the counters whatever has failed: by the bytes and lines of the
  files below the segment counter.  Files from there upwards, which could not be
  removed, are truncated when the counter comes to their numbers, and are not in
  the account.
- `Numbered` (the counter is above every file), `Sized` (the account is the sum
  over the directory, within the quota), `Ordered` (what `ReadAll` has read is a
  front followed by what is still there) and `AllCounted` each hold until one of
  the operations in question has failed (`Numbering`, `Sizing`, `Ordering`,
  `Counting`; `failed` only grows).  With `Account` they give `SizeTracked`,
  `WithinLimit` and `LenTracked`.  These name the failures after which the
  counters may fall short, and promise nothing more from then on; every other
  failing operation, and crashes at every point, are included.
- `DiskIsAQueue` assumes that writes are not cut short and that files are listed
  and removed, as the run `disk_queue` does: after one of these the files are not
  the queue of the lines.
- `DamageBounded`: `Damage` adds to the lines that are gone the files that end in
  a part of a line, since the next line written there will be lost without another
  fault; and a segment that could not be removed holds only lines already returned,
  so overwriting it costs nothing.

`StartupProofs` is about any files, environments, hosts, servers, rules and
batches.  Its assumptions say what the constants stand for: numerals are integers
(`NumeralAssumption`); a settings record has its fields and a list of rules
(`FilesAssumption`); an environment, a batch and what `strings.Split` makes of a
value are sequences, and it makes something of every value of `FILTER_RULES`
(`EnvironsAssumption`, `BatchesAssumption`, `RuleEntriesAssumption`); a product of
seconds is an integer, wrapped or not (`DurationAssumption`); and a source
`_extra.x` is none of the other sources that begin with `_` (`SourcesAssumption`),
which the `switch` of `resolveEnrichment` tells apart by name.

- `SettingsInv` says that the settings in force are, but for numbers, those a
  start with this file, environment and host comes to, and which steps a valid
  format and valid rules are behind; `CheckInv` what each query of `-check` has
  established, and what a passed check is worth to the start after it.  From these,
  and from `BatchInv` and `ErrorInv` (a `Save` that fails after a passed check has
  a column or a value to blame), follow `CheckExact` and `CheckedStartSaves`.  That
  nothing changes meanwhile is a premise of both, as in the run.
- `RecoveryIsLast`: `RecoveryInv` has no metrics server, and so nothing that could
  end the start, from the replay to the end of its `Save`.
- `AssumptionsMet`: `DefaultsInv` follows the three defaults to the read loop.
- `DecidedByEntry`: `FilterInv` has the entries kept and still to be looked at in
  ascending order, without repetition, and for each entry what the rules so far
  say (`Judged`), which is the same whatever its neighbours are.
- `RulesAsAsked` and `ExtraReachesRows`: `PickedElements` says what appending one
  well-formed entry after the other yields, `LastVariableWins` what the loop over
  `os.Environ` leaves in the extra map; `ChainInv` and `RowsInv` carry both to the
  compiled rules and to the rows, through one batch after another.
- `StoredRowsPassRules`: `SeenAsStored`, wherever `ParseField` makes a number of a
  field, `buildEnv` shows the expression the same number.

Every invariant of a passing run is therefore also a theorem, and so are the
action properties and the refinements.  Only model-checked is what lies out of
the provers' reach: liveness (`Drains`, `Settles`, `Terminates`, `SaveReturns`),
since it rests on fairness and `ENABLED`.  The runs that end in a counterexample
need no proof.

## Not modelled

TLS, connection options and the text of queries.  The decoding of YAML, and the
insides of the libraries that parse lines, URLs, user agents and expressions:
tables instead.  The cache of the user agent parser and its figures, which are
only touched under `c.mu`.  The gauges and the other counters of `/metrics` but
for `lines_not_processed_total`: they are set after the mutexes have been
released, so a gauge may show the older of two values until the next flush; no
code reads them.  The leak of a connection whose first ping fails, since no state
of the program sees it.  A call to ClickHouse that never returns.  A power failure
that loses file contents.  Segment numbers beyond 999999, and files named like
segments that the buffer did not create, for which `disk.go:78-80` has a fallback.
In Pipeline the disk buffer without torn writes and without files that are not
listed or removed.

## Plan

Done: Breaker, CircuitBreaker, Pipeline, LineQueue, DiskBuffer, Retry, Client,
Settings, Entries, FilterChain, Startup, and proofs of all their invariants,
action properties and refinements.  Left:

1. A composition of Pipeline with LineQueue, so that the disk buffer's promise
   is used by name as the breaker's is, with its refinement proved.
2. `Gauges`: buffer size, breaker state and the counters of parse errors and
   filtered lines, as set by concurrent flushes.
3. By how much a torn write, a removal that fails or a skipped segment can put
   the account of bytes off.
