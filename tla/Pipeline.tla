------------------------------ MODULE Pipeline ------------------------------
(***************************************************************************)
(* main.go: the way of a log line from the input to ClickHouse.  Three     *)
(* goroutines run flush: main when the buffer is full and at the end of    *)
(* the input, flushLoop at every interval, and the signal handler at       *)
(* shutdown.  flush drains the whole buffer into a local slice, saves it,  *)
(* and writes the raw lines back one by one when the save failed; nothing  *)
(* but the buffer's and the breaker's own mutexes orders the goroutines.   *)
(*                                                                         *)
(* Lines are numbered in the order of the input.  The buffer is the        *)
(* sequence both implementations of buffer.Buffer stand for, as long as    *)
(* none of the disk buffer's writes is cut short and its files are listed  *)
(* and removed (DiskBuffer has the rest); the circuit breaker is the       *)
(* promise of module Breaker.                                              *)
(***************************************************************************)
EXTENDS Naturals, SequencesExt

CONSTANTS
  NumLines,        \* lines of the input
  Unwanted,        \* lines that fail to parse or that a filter rule drops
  Sampled,         \* lines a sampling rule keeps or drops at random
  MaxBufferSize,   \* settings.max_buffer_size
  Disk,            \* buffer.type is "disk"
  DiskLimit,       \* lines max_disk_bytes leaves room for; 0: no limit
  DiskFaults,      \* file operations of the disk buffer may fail
  Tailing,         \* the input never ends (neither -once nor -stdin)
  BreakerEnabled,
  Threshold,
  Signals,         \* SIGTERM or SIGINT may arrive
  Crashes,         \* the process may be killed
  MaxFaults,       \* bound on failed saves and failed file operations
  MaxRestarts      \* bound on restarts

Lines == 1 .. NumLines
Flushers == {"main", "loop", "sig"}

ASSUME SettingsAssumption ==
  /\ NumLines \in Nat
  /\ Unwanted \subseteq Lines
  /\ Sampled \subseteq Lines
  /\ MaxBufferSize \in Nat \ {0}   \* main.go replaces 0 by 10000
  /\ DiskLimit \in Nat
  /\ Threshold \in Nat \ {0}       \* main.go replaces 0 by 5
  /\ {Disk, DiskFaults, Tailing, BreakerEnabled, Signals, Crashes} \subseteq BOOLEAN
  /\ MaxFaults \in Nat
  /\ MaxRestarts \in Nat

VARIABLES
  pc,           \* where each goroutine is
  held,         \* per goroutine: the lines its flush drained
  kept,         \* per goroutine: those of them that are entries to save
  buf,          \* the buffer
  next,         \* the next line of the input
  fate,         \* what became of each line
  notProcessed, \* the lines nginx_clickhouse_lines_not_processed_total counted
  streak,       \* the circuit breaker: see module Breaker
  rested,
  owner,        \* the goroutine that runs the body of shutdownOnce
  ended,        \* "no", or how the process ended
  faults,       \* failures so far
  restarts      \* restarts so far

flushVars == <<held, kept, buf, next, fate, notProcessed>>
breakerVars == <<streak, rested>>
processVars == <<owner, ended, faults, restarts>>
vars == <<pc, flushVars, breakerVars, processVars>>

(* "rebuffer" is the loop of flush that writes lines back, "close" the end *)
(* of doShutdown after its flush.                                          *)
FlushSteps == {"allow", "drain", "save", "succeed", "fail", "rebuffer"}

Steps ==
  [main |-> FlushSteps \union {"replay", "restore", "read", "check", "once", "close"},
   loop |-> FlushSteps \union {"off", "sleep"},
   sig  |-> FlushSteps \union {"off", "wait", "once", "close"}]

(* "stored": Save has returned nil.  "unrestored": recovered at startup,   *)
(* but its Save returned an error.                                         *)
Fates == {"unread", "live", "stored", "discarded", "dropped", "lost", "unrestored"}

TypeOK ==
  /\ pc \in [Flushers -> UNION {Steps[t] : t \in Flushers}]
  /\ \A t \in Flushers : pc[t] \in Steps[t]
  /\ held \in [Flushers -> Seq(Lines)]
  /\ kept \in [Flushers -> SUBSET Lines]
  /\ buf \in Seq(Lines)
  /\ next \in 1 .. NumLines + 1
  /\ fate \in [Lines -> Fates]
  /\ notProcessed \subseteq Lines
  /\ streak \in 0 .. Threshold
  /\ rested \in BOOLEAN
  /\ owner \in Flushers \union {"none"}
  /\ ended \in {"no", "exit", "crash"}
  /\ faults \in 0 .. MaxFaults
  /\ restarts \in 0 .. MaxRestarts

CB == INSTANCE Breaker WITH
  Callers <- Flushers,
  phase   <- [t \in Flushers |->
                IF pc[t] \in FlushSteps \ {"allow", "rebuffer"} THEN "trying" ELSE "idle"]

Launching == [main |-> "replay", loop |-> "off", sig |-> "off"]
Launched  == [main |-> "read", loop |-> "sleep", sig |-> "wait"]

Init ==
  /\ pc = Launching
  /\ held = [t \in Flushers |-> <<>>]
  /\ kept = [t \in Flushers |-> {}]
  /\ buf = <<>>
  /\ next = 1
  /\ fate = [l \in Lines |-> "unread"]
  /\ notProcessed = {}
  /\ CB!BreakerInit
  /\ owner = "none"
  /\ ended = "no"
  /\ faults = 0
  /\ restarts = 0

-----------------------------------------------------------------------------
Goto(t, step) == pc' = [pc EXCEPT ![t] = step]

(* slip: the flush of doShutdown is followed by nothing                    *)
ResumeWithoutClose(t) == Goto(t, IF t = "main" THEN "read" ELSE "sleep")

(* Where a goroutine goes on when its flush returns.                       *)
Resume(t) ==
  Goto(t, IF owner = t THEN "close" ELSE IF t = "main" THEN "read" ELSE "sleep")

Hold(t, lines, entries) ==
  /\ held' = [held EXCEPT ![t] = lines]
  /\ kept' = [kept EXCEPT ![t] = entries]

Settle(ls, f) == fate' = [l \in Lines |-> IF l \in ls THEN f ELSE fate[l]]

(* The lines of s are saved, except those that are no entries.             *)
SettleBatch(s, entries, f) ==
  fate' = [l \in Lines |-> IF l \notin ToSet(s) THEN fate[l]
                           ELSE IF l \in entries THEN f ELSE "discarded"]

(* slip: the counter is set, not added to                                  *)
CountAnew(ls) == notProcessed' = ls

(* linesNotProcessed.Add                                                   *)
Count(ls) == notProcessed' = notProcessed \union ls

(* A failure; MaxFaults bounds them.                                       *)
Fault ==
  /\ faults < MaxFaults
  /\ faults' = faults + 1

FileFault == Disk /\ DiskFaults /\ Fault

(* Parsing and filtering: sampling rules draw anew for every flush.        *)
Selections(s) ==
  LET entries == ToSet(s) \ Unwanted
  IN  {entries \ gone : gone \in SUBSET (Sampled \intersect entries)}

(* slip: one line short                                                    *)
HasRoomStrict ==
  IF Disk THEN DiskLimit = 0 \/ Len(buf) + 1 < DiskLimit
          ELSE Len(buf) + 1 < MaxBufferSize

HasRoom ==
  IF Disk THEN DiskLimit = 0 \/ Len(buf) < DiskLimit
          ELSE Len(buf) < MaxBufferSize

(* slip: the buffer is flushed one line too late                           *)
BufferOver == Len(buf) > MaxBufferSize

BufferFull == Len(buf) >= MaxBufferSize

(* slip: the lines returned stay in the buffer                             *)
EmptiedCopying == UNCHANGED buf

Emptied == buf' = <<>>

(* slip: the segments are deleted although one of them cannot be read      *)
ReadFailsDeleting ==
  /\ FileFault
  /\ buf' = <<>>

(* ReadAll returns an error and leaves the segments where they are.        *)
ReadFails ==
  /\ FileFault
  /\ UNCHANGED buf

-----------------------------------------------------------------------------
(* Startup: the lines a previous process left in the buffer are drained,   *)
(* parsed and filtered as in a flush, and saved without the breaker.       *)
Launch == pc' = Launched

Replay ==
  /\ pc["main"] = "replay"
  /\ IF buf = <<>>
     THEN Launch /\ UNCHANGED <<held, kept, buf>>
     ELSE /\ \E entries \in Selections(buf) : Hold("main", buf, entries)
          /\ Emptied
          /\ Goto("main", "restore")
  /\ UNCHANGED <<next, fate, notProcessed, breakerVars, processVars>>

ReplayFails ==
  /\ pc["main"] = "replay"
  /\ ReadFails
  /\ Launch
  /\ UNCHANGED <<held, kept, next, fate, notProcessed, breakerVars, owner, ended, restarts>>

(* A failed save is only logged: main has no copy of the lines any more.   *)
Restore ==
  /\ pc["main"] = "restore"
  /\ \/ /\ SettleBatch(held["main"], kept["main"], "stored")
        /\ UNCHANGED faults
     \/ /\ kept["main"] # {}
        /\ Fault
        /\ SettleBatch(held["main"], kept["main"], "unrestored")
  /\ Hold("main", <<>>, {})
  /\ Launch
  /\ UNCHANGED <<buf, next, notProcessed, breakerVars, owner, ended, restarts>>

-----------------------------------------------------------------------------
(* The read loop of main.                                                  *)
Accept ==
  /\ HasRoom
  /\ buf' = Append(buf, next)
  /\ Settle({next}, "live")
  /\ Goto("main", "check")
  /\ UNCHANGED <<notProcessed, faults>>

Reject ==
  /\ \/ ~HasRoom /\ UNCHANGED faults
     \/ HasRoom /\ FileFault
  /\ Settle({next}, "dropped")
  /\ Count({next})
  /\ UNCHANGED <<pc, buf>>

Receive ==
  /\ pc["main"] = "read"
  /\ next <= NumLines
  /\ next' = next + 1
  /\ Accept \/ Reject
  /\ UNCHANGED <<held, kept, breakerVars, owner, ended, restarts>>

(* The other goroutines may have drained or filled the buffer since Write. *)
Check ==
  /\ pc["main"] = "check"
  /\ Goto("main", IF BufferFull THEN "allow" ELSE "read")
  /\ UNCHANGED <<flushVars, breakerVars, processVars>>

EndOfInput ==
  /\ pc["main"] = "read"
  /\ ~Tailing
  /\ next > NumLines
  /\ Goto("main", "once")
  /\ UNCHANGED <<flushVars, breakerVars, processVars>>

(* The interval of flushLoop is over.                                      *)
Wake ==
  /\ pc["loop"] = "sleep"
  /\ Goto("loop", "allow")
  /\ UNCHANGED <<flushVars, breakerVars, processVars>>

-----------------------------------------------------------------------------
(* flush, run by goroutine t.                                              *)

(* slip: the breaker's answer is ignored                                   *)
PermittedAlways == TRUE

Permitted == BreakerEnabled => CB!Passes

Allow(t) ==
  /\ pc[t] = "allow"
  /\ Permitted
  /\ Goto(t, "drain")
  /\ UNCHANGED <<flushVars, breakerVars, processVars>>

Refuse(t) ==
  /\ pc[t] = "allow"
  /\ ~Permitted
  /\ Resume(t)
  /\ UNCHANGED <<flushVars, breakerVars, processVars>>

(* ReadAll, parsing and filtering.  An empty buffer and a batch without    *)
(* entries end the flush, and the breaker hears of neither.                *)
Drain(t) ==
  /\ pc[t] = "drain"
  /\ \/ /\ buf = <<>>
        /\ Resume(t)
        /\ UNCHANGED <<held, kept, fate>>
     \/ /\ buf # <<>>
        /\ {} \in Selections(buf)
        /\ SettleBatch(buf, {}, "stored")
        /\ Resume(t)
        /\ UNCHANGED <<held, kept>>
     \/ /\ \E entries \in Selections(buf) \ {{}} : Hold(t, buf, entries)
        /\ Goto(t, "save")
        /\ UNCHANGED fate
  /\ Emptied
  /\ UNCHANGED <<next, notProcessed, breakerVars, processVars>>

DrainFails(t) ==
  /\ pc[t] = "drain"
  /\ ReadFails
  /\ Resume(t)
  /\ UNCHANGED <<held, kept, next, fate, notProcessed, breakerVars, owner, ended, restarts>>

(* client.Save with all its retries.                                       *)
SaveSucceeds(t) ==
  /\ pc[t] = "save"
  /\ SettleBatch(held[t], kept[t], "stored")
  /\ Hold(t, <<>>, {})
  /\ Goto(t, "succeed")
  /\ UNCHANGED <<buf, next, notProcessed, breakerVars, processVars>>

SaveFails(t) ==
  /\ pc[t] = "save"
  /\ Fault
  /\ Count(kept[t])
  /\ Goto(t, "fail")
  /\ UNCHANGED <<held, kept, buf, next, fate, breakerVars, owner, ended, restarts>>

RecordSuccess(t) ==
  /\ pc[t] = "succeed"
  /\ IF BreakerEnabled THEN CB!Succeed ELSE UNCHANGED breakerVars
  /\ Resume(t)
  /\ UNCHANGED <<flushVars, processVars>>

RecordFailure(t) ==
  /\ pc[t] = "fail"
  /\ IF BreakerEnabled THEN CB!Fail ELSE UNCHANGED breakerVars
  /\ Goto(t, "rebuffer")
  /\ UNCHANGED <<flushVars, processVars>>

(* slip: re-buffering stops at the first refused line                      *)
RestUnlessFull(t) == IF HasRoom THEN Tail(held[t]) ELSE <<>>

RestToRebuffer(t) == Tail(held[t])

(* One line is written back; a refused one is lost with a warning.  Lines  *)
(* main or another flush wrote in the meantime come before it.             *)
Rebuffer(t) ==
  /\ pc[t] = "rebuffer"
  /\ LET line == Head(held[t])
         rest == RestToRebuffer(t)
     IN  /\ \/ /\ HasRoom
               /\ buf' = Append(buf, line)
               /\ UNCHANGED <<fate, faults>>
            \/ /\ \/ ~HasRoom /\ UNCHANGED faults
                  \/ HasRoom /\ FileFault
               /\ Settle({line}, "dropped")
               /\ UNCHANGED buf
         /\ IF rest = <<>>
            THEN Hold(t, <<>>, {}) /\ Resume(t)
            ELSE Hold(t, rest, kept[t]) /\ UNCHANGED pc
  /\ UNCHANGED <<next, notProcessed, breakerVars, owner, ended, restarts>>

-----------------------------------------------------------------------------
(* doShutdown, run by main at the end of the input or by the signal        *)
(* handler.  sync.Once lets one of them in and blocks the other for ever.  *)
SignalArrives ==
  /\ Signals
  /\ pc["sig"] = "wait"
  /\ Goto("sig", "once")
  /\ UNCHANGED <<flushVars, breakerVars, processVars>>

(* slip: doShutdown closes without a last flush                            *)
ShutdownWithoutFlush(t) ==
  /\ pc[t] = "once"
  /\ owner = "none"
  /\ owner' = t
  /\ Goto(t, "close")
  /\ UNCHANGED <<flushVars, breakerVars, ended, faults, restarts>>

Shutdown(t) ==
  /\ pc[t] = "once"
  /\ owner = "none"
  /\ owner' = t
  /\ Goto(t, "allow")
  /\ UNCHANGED <<flushVars, breakerVars, ended, faults, restarts>>

(* The process ends: what the goroutines hold goes with its memory.  A     *)
(* ReadAll of the disk buffer removes the segment files one by one, so it  *)
(* may have removed the first cut lines of a buffer it has not returned.   *)
EndProcess(how) ==
  /\ ended' = how
  /\ \E cut \in 0 .. Len(buf) :
       /\ cut > 0 => ~Disk \/ \E t \in Flushers : pc[t] \in {"replay", "drain"}
       /\ buf' = SubSeq(buf, cut + 1, Len(buf))
  /\ ~Disk => buf' = <<>>
  /\ fate' = [l \in Lines |-> IF fate[l] = "live" /\ l \notin ToSet(buf')
                              THEN "lost" ELSE fate[l]]
  /\ held' = [t \in Flushers |-> <<>>]
  /\ kept' = [t \in Flushers |-> {}]
  /\ UNCHANGED <<pc, next, notProcessed, breakerVars, owner, faults, restarts>>

(* The client and the buffer are closed and os.Exit(0) follows.            *)
Exit(t) ==
  /\ pc[t] = "close"
  /\ EndProcess("exit")

Crash ==
  /\ Crashes
  /\ EndProcess("crash")

(* The process starts again with seek_from_end: it reads on where it was.  *)
Restart ==
  /\ ended # "no"
  /\ Tailing
  /\ restarts < MaxRestarts
  /\ pc' = Launching
  /\ streak' = 0
  /\ rested' = FALSE
  /\ owner' = "none"
  /\ ended' = "no"
  /\ restarts' = restarts + 1
  /\ UNCHANGED <<flushVars, faults>>

(* The cooldown of a tripped breaker ends.                                 *)
CoolDown ==
  /\ BreakerEnabled
  /\ CB!Rest
  /\ UNCHANGED <<pc, flushVars, processVars>>

(* The process has ended and nobody starts it again.                       *)
Ended ==
  /\ ended # "no"
  /\ ~(Tailing /\ restarts < MaxRestarts)
  /\ UNCHANGED vars

Flush(t) ==
  \/ Allow(t) \/ Refuse(t)
  \/ Drain(t) \/ DrainFails(t)
  \/ SaveSucceeds(t) \/ SaveFails(t)
  \/ RecordSuccess(t) \/ RecordFailure(t)
  \/ Rebuffer(t)

Main ==
  \/ Replay \/ ReplayFails \/ Restore
  \/ Receive \/ Check \/ EndOfInput

(* What goroutine t does of its own accord.                                *)
Step(t) ==
  /\ ended = "no"
  /\ \/ Flush(t) \/ Shutdown(t) \/ Exit(t)
     \/ t = "main" /\ Main
     \/ t = "loop" /\ Wake

Environment ==
  /\ ended = "no"
  /\ SignalArrives \/ CoolDown \/ Crash

Next ==
  \/ \E t \in Flushers : Step(t)
  \/ Environment
  \/ Restart
  \/ Ended

Spec == Init /\ [][Next]_vars

(* The Go scheduler runs every goroutine that can go on, time.Sleep and    *)
(* the cooldown end.  Nothing is asked of signals, crashes and restarts,   *)
(* nor of a save but that it returns.                                      *)
Fairness ==
  /\ \A t \in Flushers : WF_vars(Step(t))
  /\ WF_vars(ended = "no" /\ CoolDown)

FairSpec == Spec /\ Fairness

-----------------------------------------------------------------------------
LinesHeld == UNION {ToSet(held[t]) : t \in Flushers}

(* Conservation: a line is live exactly while it is in the buffer or in a  *)
(* flush.  No line vanishes on the way from the reader through Write,      *)
(* ReadAll, Save and re-buffering, and no line that was stored, discarded, *)
(* dropped or lost comes back (main.flush, main.main).                     *)
Accounted ==
  \A l \in Lines : fate[l] = "live" <=> l \in ToSet(buf) \union LinesHeld

(* At any one time a line is in one place only: no two flushes hold it,    *)
(* and none holds what is in the buffer.  Only a flush after the one that  *)
(* wrote it back saves it again (ReadAll, re-buffering in main.flush).     *)
OnePlace ==
  /\ IsInjective(buf)
  /\ \A t \in Flushers :
       /\ IsInjective(held[t])
       /\ ToSet(held[t]) \intersect ToSet(buf) = {}
       /\ \A u \in Flushers \ {t} : ToSet(held[t]) \intersect ToSet(held[u]) = {}

(* A line that the read loop or re-buffering gives up is counted by        *)
(* lines_not_processed_total, though re-buffering itself counts nothing    *)
(* (main.go:409, 418-420), unless it was no entry of the failed flush.     *)
(* Lines are given up uncounted in one way only: recovered from disk after *)
(* a restart, when the Save of the replay fails (main.go:190).             *)
LossCounted ==
  \A l \in Lines :
    /\ fate[l] = "dropped" => l \in notProcessed \union Unwanted \union Sampled
    /\ fate[l] = "unrestored" => Disk /\ restarts > 0

(* "When the buffer is full, it flushes immediately" (README, Buffer       *)
(* Limits): while saves succeed the memory buffer never refuses a line,    *)
(* though main looks at its length only after Write and the other          *)
(* goroutines drain it meanwhile.                                          *)
NoDropWhileHealthy ==
  ~Disk /\ faults = 0 => \A l \in Lines : fate[l] # "dropped"

(* Lines are dropped for want of room only: a step that drops a line, with *)
(* no file operation failing, finds more lines read and not dealt with     *)
(* than the buffer can hold, those in the hands of the flushes included.   *)
(* An outage that leaves fewer behind loses none (main.flush, Write).      *)
Capacity == IF Disk THEN DiskLimit ELSE MaxBufferSize

Unsettled == {l \in Lines : fate[l] = "live"}

DropsNeedOverflow ==
  [][\A l \in Lines :
       fate'[l] = "dropped" /\ fate[l] # "dropped" /\ faults' = faults =>
         Cardinality(Unsettled \union {l}) > Capacity]_vars

(* At the end of the input main closes with every line dealt with, but for *)
(* those another goroutine's flush still holds (doShutdown).               *)
OnceDrains ==
  pc["main"] = "close" /\ ended = "no" /\ faults = 0 =>
    \A l \in Lines : fate[l] \in {"stored", "discarded"} \/ l \in ToSet(held["loop"])

(* The goroutines use the breaker as its protocol asks: every outcome      *)
(* recorded belongs to one allowed flush, and records itself once.         *)
ImplementsBreaker == CB!Spec

(* A line in the buffer or in a flush does not stay there for ever: once   *)
(* the failures end it is stored or discarded, if no full buffer has made  *)
(* it drop and no failed replay has given it up, whatever breaker, flushes *)
(* and re-buffering did before (flushLoop).                                *)
Settles ==
  \A l \in Lines : fate[l] = "live" ~> fate[l] # "live" \/ ended # "no"

(* With an input that ends the process exits, with or without signals:     *)
(* sync.Once and os.Exit leave no goroutine the process waits for.         *)
Terminates == ~Tailing => <>(ended = "exit")

-----------------------------------------------------------------------------
(* "This ensures no data loss during deployments or container restarts"    *)
(* (README.md:363): a graceful exit loses no line the process had read.    *)
GracefulExitKeeps ==
  ended = "exit" /\ faults = 0 => \A l \in Lines : fate[l] # "lost"

(* "If the process crashes, unprocessed segments are automatically         *)
(* replayed on restart.  This provides at-least-once delivery"             *)
(* (README.md:381): no line the disk buffer accepted is lost by a crash,   *)
(* nor by a replay whose save fails.                                       *)
AtLeastOnce ==
  Disk => \A l \in Lines : fate[l] \notin {"lost", "unrestored"}

=============================================================================
