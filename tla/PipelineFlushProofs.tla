------------------------- MODULE PipelineFlushProofs -------------------------
(***************************************************************************)
(* What the flushes of the pipeline promise, for any input, buffer and     *)
(* settings: every line dropped is counted as not processed, although      *)
(* flush counts at the failed save and drops lines later; the goroutines   *)
(* use the circuit breaker as module Breaker asks of its callers; and      *)
(* while nothing fails no line is refused, main closes with every line     *)
(* dealt with, and only more lines than the buffer can hold make a flush   *)
(* or the reader drop one.                                                 *)
(***************************************************************************)
EXTENDS PipelineProofs, FiniteSetTheorems

(* Counted, or no entry of every flush: what may be dropped.               *)
Excused == notProcessed \union Unwanted \union Sampled

(* A flush that saves holds nothing but entries and lines a rule may drop; *)
(* when the save has failed, all it holds is excused.                      *)
HeldExcused ==
  \A t \in Flushers :
    /\ pc[t] = "save" => ToSet(held[t]) \ kept[t] \subseteq Unwanted \union Sampled
    /\ pc[t] \in {"fail", "rebuffer"} => ToSet(held[t]) \subseteq Excused

DropsExcused == \A l \in Lines : fate[l] = "dropped" => l \in Excused

LossInv == HeldExcused /\ DropsExcused

-----------------------------------------------------------------------------
(* What a filter takes out of a batch a rule may drop.                     *)
LEMMA SelectionsExcused ==
  ASSUME NEW q, NEW entries \in Selections(q)
  PROVE  ToSet(q) \ entries \subseteq Unwanted \union Sampled
<1> QED
  BY DEF Selections

(* A step of one goroutine that forgets no count and drops only what is    *)
(* excused.                                                                *)
LEMMA OneMoves ==
  ASSUME LossInv, NEW t \in Flushers,
         notProcessed \subseteq notProcessed',
         \A u \in Flushers \ {t} :
           pc'[u] = pc[u] /\ held'[u] = held[u] /\ kept'[u] = kept[u],
         pc'[t] = "save" => ToSet(held'[t]) \ kept'[t] \subseteq Unwanted \union Sampled,
         pc'[t] \in {"fail", "rebuffer"} => ToSet(held'[t]) \subseteq Excused',
         \A l \in Lines : fate'[l] = "dropped" => fate[l] = "dropped" \/ l \in Excused'
  PROVE  LossInv'
<1>1. HeldExcused'
  BY DEF LossInv, HeldExcused, Excused
<1>2. DropsExcused'
  BY DEF LossInv, DropsExcused, Excused
<1> QED
  BY <1>1, <1>2 DEF LossInv

(* A step that leaves lines, fates and counts alone, to a place where no   *)
(* save runs or has failed.                                                *)
LEMMA QuietMove ==
  ASSUME LossInv, TypeOK, NEW t \in Flushers, NEW step, Goto(t, step),
         step \notin {"save", "fail", "rebuffer"},
         UNCHANGED <<held, kept, fate, notProcessed>>
  PROVE  LossInv'
<1>1. pc'[t] = step /\ \A u \in Flushers \ {t} : pc'[u] = pc[u]
  BY DEF Goto, TypeOK
<1> QED
  BY <1>1, OneMoves

(* A flush that returns.                                                   *)
LEMMA QuietReturn ==
  ASSUME LossInv, TypeOK, NEW t \in Flushers, Resume(t),
         UNCHANGED <<held, kept, notProcessed>>,
         \A l \in Lines : fate'[l] = "dropped" => fate[l] = "dropped"
  PROVE  LossInv'
<1>1. pc'[t] \notin {"save", "fail", "rebuffer"} /\ \A u \in Flushers \ {t} : pc'[u] = pc[u]
  BY DEF Resume, Goto, TypeOK
<1> QED
  BY <1>1, OneMoves

(* No goroutine is in a save or in re-buffering.                           *)
LEMMA NobodySaves ==
  ASSUME LossInv,
         \A u \in Flushers : held'[u] = <<>> \/ pc'[u] \notin {"save", "fail", "rebuffer"},
         UNCHANGED notProcessed,
         \A l \in Lines : fate'[l] = "dropped" => fate[l] = "dropped"
  PROVE  LossInv'
<1>1. HeldExcused'
  BY EmptyHoldsNothing DEF HeldExcused
<1>2. DropsExcused'
  BY DEF LossInv, DropsExcused, Excused
<1> QED
  BY <1>1, <1>2 DEF LossInv

-----------------------------------------------------------------------------
LEMMA MainKeepsLoss ==
  ASSUME IInv, LossInv, Main
  PROVE  LossInv'
<1>1. TypeOK /\ "main" \in Flushers
  BY DEF IInv, Shape, Flushers
<1>2. CASE Replay \/ ReplayFails \/ Restore
  <2>1. pc["loop"] = "off" /\ pc["sig"] = "off"
    BY <1>2 DEF Replay, ReplayFails, Restore, IInv, Shape, FlushersInOrder
  <2>2. Launch \/ Goto("main", "restore")
    BY <1>2 DEF Replay, ReplayFails, Restore
  <2>3. \A u \in Flushers : pc'[u] \notin {"save", "fail", "rebuffer"}
    <3>1. CASE Launch
      BY <3>1 DEF Launch, Launched, Flushers
    <3>2. CASE Goto("main", "restore")
      BY <1>1, <2>1, <3>2 DEF Goto, TypeOK, Flushers
    <3> QED
      BY <2>2, <3>1, <3>2
  <2>4. UNCHANGED notProcessed
    BY <1>2 DEF Replay, ReplayFails, Restore
  <2>5. \A l \in Lines : fate'[l] = "dropped" => fate[l] = "dropped"
    BY <1>2 DEF Replay, ReplayFails, Restore, SettleBatch
  <2> QED
    BY <2>3, <2>4, <2>5, NobodySaves
<1>3. CASE Receive /\ Accept
  <2>1. /\ Goto("main", "check")
        /\ UNCHANGED <<held, kept, notProcessed>>
        /\ \A l \in Lines : fate'[l] = "dropped" => fate[l] = "dropped"
    BY <1>3 DEF Receive, Accept, Settle
  <2>2. pc'["main"] = "check" /\ \A u \in Flushers \ {"main"} : pc'[u] = pc[u]
    BY <1>1, <2>1 DEF Goto, TypeOK
  <2> QED
    BY <1>1, <2>1, <2>2, OneMoves
<1>4. CASE Receive /\ Reject
  <2>1. /\ UNCHANGED <<pc, held, kept>>
        /\ notProcessed' = notProcessed \union {next}
        /\ \A l \in Lines : fate'[l] = "dropped" => fate[l] = "dropped" \/ l = next
    BY <1>4 DEF Receive, Reject, Settle, Count
  <2>2. /\ \A l \in Lines : fate'[l] = "dropped" => fate[l] = "dropped" \/ l \in Excused'
        /\ Excused \subseteq Excused'
    BY <2>1 DEF Excused
  <2> QED
    BY <1>1, <2>1, <2>2, OneMoves DEF LossInv, HeldExcused
<1>5. CASE Check \/ EndOfInput
  <2>1. /\ Goto("main", "allow") \/ Goto("main", "read") \/ Goto("main", "once")
        /\ UNCHANGED <<held, kept, fate, notProcessed>>
    BY <1>5 DEF Check, EndOfInput, flushVars
  <2> QED
    BY <1>1, <2>1, QuietMove
<1> QED
  BY <1>2, <1>3, <1>4, <1>5 DEF Main, Receive

LEMMA FlushKeepsLoss ==
  ASSUME IInv, LossInv, ended = "no", NEW t \in Flushers, Flush(t)
  PROVE  LossInv'
<1>1. TypeOK
  BY DEF IInv, Shape
<1>2. CASE Allow(t) \/ SaveSucceeds(t)
  <2>1. CASE Allow(t)
    BY <1>1, <2>1, QuietMove DEF Allow, flushVars
  <2>2. CASE SaveSucceeds(t)
    <3>1. /\ Goto(t, "succeed") /\ Hold(t, <<>>, {}) /\ UNCHANGED notProcessed
          /\ \A l \in Lines : fate'[l] = "dropped" => fate[l] = "dropped"
      BY <2>2 DEF SaveSucceeds, SettleBatch
    <3>2. /\ pc'[t] = "succeed"
          /\ \A u \in Flushers \ {t} :
               pc'[u] = pc[u] /\ held'[u] = held[u] /\ kept'[u] = kept[u]
      BY <1>1, <3>1 DEF Goto, Hold, TypeOK
    <3> QED
      BY <3>1, <3>2, OneMoves
  <2> QED
    BY <1>2, <2>1, <2>2
<1>3. CASE Refuse(t) \/ DrainFails(t) \/ RecordSuccess(t)
  BY <1>1, <1>3, QuietReturn DEF Refuse, DrainFails, RecordSuccess, flushVars
<1>4. CASE Drain(t)
  <2>1. CASE Resume(t) /\ UNCHANGED <<held, kept, fate>>
    BY <1>1, <1>4, <2>1, QuietReturn DEF Drain
  <2>2. CASE Resume(t) /\ UNCHANGED <<held, kept>> /\ SettleBatch(buf, {}, "stored")
    <3>1. \A l \in Lines : fate'[l] = "dropped" => fate[l] = "dropped"
      BY <2>2 DEF SettleBatch
    <3> QED
      BY <1>1, <1>4, <2>2, <3>1, QuietReturn DEF Drain
  <2>3. ASSUME NEW entries \in Selections(buf), Hold(t, buf, entries), Goto(t, "save"),
               UNCHANGED fate
        PROVE  LossInv'
    <3>1. /\ pc'[t] = "save" /\ held'[t] = buf /\ kept'[t] = entries
          /\ \A u \in Flushers \ {t} :
               pc'[u] = pc[u] /\ held'[u] = held[u] /\ kept'[u] = kept[u]
      BY <1>1, <2>3 DEF Goto, Hold, TypeOK
    <3>2. ToSet(buf) \ entries \subseteq Unwanted \union Sampled
      BY <2>3, SelectionsExcused
    <3>3. UNCHANGED notProcessed
      BY <1>4 DEF Drain
    <3> QED
      BY <2>3, <3>1, <3>2, <3>3, OneMoves
  <2> QED
    BY <1>4, <2>1, <2>2, <2>3 DEF Drain
<1>5. CASE SaveFails(t)
  <2>1. /\ pc[t] = "save" /\ Goto(t, "fail") /\ UNCHANGED <<held, kept, fate>>
        /\ notProcessed' = notProcessed \union kept[t]
    BY <1>5 DEF SaveFails, Count
  <2>2. pc'[t] = "fail" /\ \A u \in Flushers \ {t} : pc'[u] = pc[u]
    BY <1>1, <2>1 DEF Goto, TypeOK
  <2>3. ToSet(held[t]) \subseteq Excused'
    BY <2>1 DEF LossInv, HeldExcused, Excused
  <2> QED
    BY <2>1, <2>2, <2>3, OneMoves
<1>6. CASE RecordFailure(t)
  <2>1. /\ pc[t] = "fail" /\ Goto(t, "rebuffer")
        /\ UNCHANGED <<held, kept, fate, notProcessed>>
    BY <1>6 DEF RecordFailure, flushVars
  <2>2. pc'[t] = "rebuffer" /\ \A u \in Flushers \ {t} : pc'[u] = pc[u]
    BY <1>1, <2>1 DEF Goto, TypeOK
  <2>3. ToSet(held[t]) \subseteq Excused'
    BY <2>1 DEF LossInv, HeldExcused, Excused
  <2> QED
    BY <2>1, <2>2, <2>3, OneMoves
<1>7. CASE Rebuffer(t)
  <2> DEFINE line == Head(held[t])
             rest == Tail(held[t])
  <2>1. pc[t] = "rebuffer" /\ UNCHANGED notProcessed
    BY <1>7 DEF Rebuffer
  <2>2. held[t] \in Seq(Lines) /\ held[t] # <<>>
    BY <1>1, <2>1 DEF IInv, Shape, HeldInOrder, HoldSteps, TypeOK
  <2>3. ToSet(held[t]) = ToSet(rest) \union {line} /\ Excused' = Excused
    BY <2>1, <2>2, TailHolds DEF Excused
  <2>4. line \in Excused' /\ ToSet(rest) \subseteq Excused'
    BY <2>1, <2>3 DEF LossInv, HeldExcused
  <2>5. \A l \in Lines : fate'[l] = "dropped" => fate[l] = "dropped" \/ l \in Excused'
    <3>1. UNCHANGED fate \/ Settle({line}, "dropped")
      BY <1>7 DEF Rebuffer
    <3> QED
      BY <2>4, <3>1 DEF Settle
  <2>6. \/ held' = [held EXCEPT ![t] = rest] /\ kept' = [kept EXCEPT ![t] = kept[t]]
           /\ UNCHANGED pc
        \/ Hold(t, <<>>, {}) /\ Resume(t)
    BY <1>7 DEF Rebuffer, RestToRebuffer, Hold
  <2> HIDE DEF line, rest
  <2>7. CASE held' = [held EXCEPT ![t] = rest] /\ kept' = [kept EXCEPT ![t] = kept[t]]
             /\ UNCHANGED pc
    <3>1. /\ held'[t] = rest
          /\ \A u \in Flushers \ {t} : held'[u] = held[u] /\ kept'[u] = kept[u]
      BY <1>1, <2>7 DEF TypeOK
    <3> QED
      BY <2>1, <2>4, <2>5, <2>7, <3>1, OneMoves
  <2>8. CASE Hold(t, <<>>, {}) /\ Resume(t)
    <3>1. /\ pc'[t] \notin {"save", "fail", "rebuffer"}
          /\ \A u \in Flushers \ {t} :
               pc'[u] = pc[u] /\ held'[u] = held[u] /\ kept'[u] = kept[u]
      BY <1>1, <2>8 DEF Resume, Goto, Hold, TypeOK
    <3> QED
      BY <2>1, <2>5, <3>1, OneMoves
  <2> QED
    BY <2>6, <2>7, <2>8
<1> QED
  BY <1>2, <1>3, <1>4, <1>5, <1>6, <1>7 DEF Flush

LEMMA StepKeepsLoss == IInv /\ LossInv /\ [Next]_vars => LossInv'
<1> SUFFICES ASSUME IInv, LossInv, [Next]_vars PROVE LossInv'
  OBVIOUS
<1>1. TypeOK
  BY DEF IInv, Shape
<1>2. ASSUME NEW t \in Flushers, Step(t) PROVE LossInv'
  <2>1. CASE Flush(t)
    BY <1>2, <2>1, FlushKeepsLoss DEF Step
  <2>2. CASE Main
    BY <2>2, MainKeepsLoss
  <2>3. CASE Wake
    <3>1. "loop" \in Flushers
      BY DEF Flushers
    <3> QED
      BY <1>1, <2>3, <3>1, QuietMove DEF Wake, flushVars
  <2>4. CASE Shutdown(t)
    BY <1>1, <2>4, QuietMove DEF Shutdown, flushVars
  <2>5. CASE Exit(t)
    BY <2>5, NobodySaves DEF Exit, EndProcess
  <2> QED
    BY <1>2, <2>1, <2>2, <2>3, <2>4, <2>5 DEF Step
<1>3. CASE Environment
  <2>1. CASE SignalArrives
    <3>1. "sig" \in Flushers
      BY DEF Flushers
    <3> QED
      BY <1>1, <2>1, <3>1, QuietMove DEF SignalArrives, flushVars
  <2>2. CASE CoolDown
    BY <2>2 DEF CoolDown, flushVars, LossInv, HeldExcused, DropsExcused, Excused
  <2>3. CASE Crash
    BY <2>3, NobodySaves DEF Crash, EndProcess
  <2> QED
    BY <1>3, <2>1, <2>2, <2>3 DEF Environment
<1>4. CASE Restart
  BY <1>4, NobodySaves DEF Restart, Launching, Flushers, flushVars
<1>5. CASE Ended \/ UNCHANGED vars
  BY <1>5 DEF Ended, vars, flushVars, LossInv, HeldExcused, DropsExcused, Excused
<1> QED
  BY <1>2, <1>3, <1>4, <1>5 DEF Next

-----------------------------------------------------------------------------
(* A process finds lines to replay only on disk and after a restart.       *)
ReplayInv ==
  /\ ended # "no" /\ buf # <<>> => Disk
  /\ pc["main"] = "replay" /\ buf # <<>> => Disk /\ restarts > 0
  /\ pc["main"] = "restore" => Disk /\ restarts > 0
  /\ \A l \in Lines : fate[l] = "unrestored" => Disk /\ restarts > 0

(* Main is behind its replay, and nothing else is up.                      *)
LEMMA ReplayBehind ==
  ASSUME ReplayInv, pc'["main"] \notin {"replay", "restore"}, UNCHANGED <<ended, restarts>>,
         ended = "no",
         \A l \in Lines : fate'[l] = "unrestored" => fate[l] = "unrestored"
  PROVE  ReplayInv'
<1> QED
  BY DEF ReplayInv

(* The end of a process leaves a part of what was there.                   *)
LEMMA EndKeepsReplay ==
  ASSUME ReplayInv, NEW how, EndProcess(how)
  PROVE  ReplayInv'
<1>1. PICK cut \in 0 .. Len(buf) : buf' = SubSeq(buf, cut + 1, Len(buf))
  BY DEF EndProcess
<1>2. buf' # <<>> => buf # <<>>
  <2>1. ASSUME buf = <<>> PROVE buf' = <<>>
    BY <1>1, <2>1
  <2> QED
    BY <2>1
<1>3. /\ buf' # <<>> => Disk
      /\ UNCHANGED <<pc, restarts>>
      /\ \A l \in Lines : fate'[l] = "unrestored" => fate[l] = "unrestored"
  BY DEF EndProcess
<1> QED
  BY <1>2, <1>3 DEF ReplayInv

LEMMA FlushKeepsReplay ==
  ASSUME IInv, ReplayInv, ended = "no", NEW t \in Flushers, Flush(t)
  PROVE  ReplayInv'
<1>1. TypeOK /\ "main" \in Flushers
  BY DEF IInv, Shape, Flushers
<1>2. pc[t] \in FlushSteps
  BY DEF Flush, Allow, Refuse, Drain, DrainFails, SaveSucceeds, SaveFails, RecordSuccess,
         RecordFailure, Rebuffer, FlushSteps
<1>3. pc["main"] \notin {"replay", "restore"}
  <2>1. t \in {"main", "loop", "sig"} /\ pc[t] \notin {"off", "replay", "restore"}
    BY <1>2 DEF Flushers, FlushSteps
  <2> QED
    BY <2>1 DEF IInv, Shape, FlushersInOrder
<1>4. /\ \E step : step \notin {"replay", "restore"} /\ (Goto(t, step) \/ UNCHANGED pc)
      /\ UNCHANGED <<ended, restarts>>
  BY DEF Flush, Allow, Refuse, Drain, DrainFails, SaveSucceeds, SaveFails, RecordSuccess,
         RecordFailure, Rebuffer, Resume, processVars
<1>5. pc'["main"] \notin {"replay", "restore"}
  BY <1>1, <1>3, <1>4 DEF Goto, TypeOK
<1>6. \A l \in Lines : fate'[l] = "unrestored" => fate[l] = "unrestored"
  BY DEF Flush, Allow, Refuse, Drain, DrainFails, SaveSucceeds, SaveFails, RecordSuccess,
         RecordFailure, Rebuffer, flushVars, SettleBatch, Settle
<1> QED
  BY <1>4, <1>5, <1>6, ReplayBehind

LEMMA MainKeepsReplay ==
  ASSUME IInv, ReplayInv, ended = "no", Main
  PROVE  ReplayInv'
<1>1. TypeOK /\ "main" \in Flushers
  BY DEF IInv, Shape, Flushers
<1>2. UNCHANGED <<ended, restarts>>
  BY DEF Main, Replay, ReplayFails, Restore, Receive, Accept, Reject, Check, EndOfInput, processVars
<1>3. CASE Replay
  <2>1. pc["main"] = "replay" /\ UNCHANGED fate
    BY <1>3 DEF Replay
  <2>2. CASE Launch
    <3>1. pc'["main"] = "read"
      BY <2>2 DEF Launch, Launched
    <3> QED
      BY <1>2, <2>1, <3>1, ReplayBehind
  <2>3. CASE buf # <<>> /\ Goto("main", "restore")
    <3>1. pc'["main"] = "restore" /\ Disk /\ restarts > 0
      BY <1>1, <2>1, <2>3 DEF Goto, TypeOK, ReplayInv
    <3> QED
      BY <1>2, <2>1, <3>1 DEF ReplayInv
  <2> QED
    BY <1>3, <2>2, <2>3 DEF Replay
<1>4. CASE ReplayFails \/ Restore
  <2>1. pc'["main"] = "read"
    BY <1>4 DEF ReplayFails, Restore, Launch, Launched
  <2>2. \A l \in Lines : fate'[l] = "unrestored" =>
          fate[l] = "unrestored" \/ pc["main"] = "restore"
    BY <1>4 DEF ReplayFails, Restore, SettleBatch
  <2> QED
    BY <1>2, <2>1, <2>2 DEF ReplayInv
<1>5. CASE Receive \/ Check \/ EndOfInput
  <2>1. pc["main"] \in {"read", "check"} /\ (Goto("main", "check") \/ Goto("main", "allow")
           \/ Goto("main", "read") \/ Goto("main", "once") \/ UNCHANGED pc)
    BY <1>5 DEF Receive, Accept, Reject, Check, EndOfInput
  <2>2. pc'["main"] \notin {"replay", "restore"}
    BY <1>1, <2>1 DEF Goto, TypeOK
  <2>3. \A l \in Lines : fate'[l] = "unrestored" => fate[l] = "unrestored"
    BY <1>5 DEF Receive, Accept, Reject, Check, EndOfInput, flushVars, Settle
  <2> QED
    BY <1>2, <2>2, <2>3, ReplayBehind
<1> QED
  BY <1>3, <1>4, <1>5 DEF Main

LEMMA StepKeepsReplay == IInv /\ ReplayInv /\ [Next]_vars => ReplayInv'
<1> SUFFICES ASSUME IInv, ReplayInv, [Next]_vars PROVE ReplayInv'
  OBVIOUS
<1>1. TypeOK /\ "main" \in Flushers
  BY DEF IInv, Shape, Flushers
<1>2. ASSUME NEW t \in Flushers, NEW step, Goto(t, step), t = "main" => step \notin {"replay", "restore"},
             UNCHANGED <<buf, fate, ended, restarts>>
      PROVE  ReplayInv'
  <2>1. pc'["main"] = pc["main"] \/ pc'["main"] \notin {"replay", "restore"}
    BY <1>1, <1>2 DEF Goto, TypeOK
  <2> QED
    BY <1>2, <2>1 DEF ReplayInv
<1>3. ASSUME NEW t \in Flushers, Step(t) PROVE ReplayInv'
  <2>1. CASE Flush(t)
    BY <1>3, <2>1, FlushKeepsReplay DEF Step
  <2>2. CASE t = "main" /\ Main
    BY <1>3, <2>2, MainKeepsReplay DEF Step
  <2>3. CASE t = "loop" /\ Wake
    BY <1>2, <2>3 DEF Wake, flushVars, processVars
  <2>4. CASE Shutdown(t)
    BY <1>2, <2>4 DEF Shutdown, flushVars
  <2>5. CASE Exit(t)
    BY <2>5, EndKeepsReplay DEF Exit
  <2> QED
    BY <1>3, <2>1, <2>2, <2>3, <2>4, <2>5 DEF Step
<1>4. CASE Environment
  <2>1. CASE SignalArrives
    <3>1. "sig" \in Flushers
      BY DEF Flushers
    <3> QED
      BY <1>2, <2>1, <3>1 DEF SignalArrives, flushVars, processVars
  <2>2. CASE CoolDown
    BY <2>2 DEF CoolDown, flushVars, processVars, ReplayInv
  <2>3. CASE Crash
    BY <2>3, EndKeepsReplay DEF Crash
  <2> QED
    BY <1>4, <2>1, <2>2, <2>3 DEF Environment
<1>5. CASE Restart
  <2>1. /\ pc'["main"] = "replay" /\ ended # "no" /\ ended' = "no" /\ restarts' = restarts + 1
        /\ UNCHANGED <<buf, fate>>
    BY <1>5 DEF Restart, Launching, flushVars
  <2>2. restarts' > 0
    BY <1>1, <2>1, SettingsAssumption DEF TypeOK
  <2> QED
    BY <2>1, <2>2 DEF ReplayInv
<1>6. CASE Ended \/ UNCHANGED vars
  BY <1>6 DEF Ended, vars, flushVars, processVars, ReplayInv
<1> QED
  BY <1>3, <1>4, <1>5, <1>6 DEF Next

(* Whatever line the running process drops, at a full buffer, a failing    *)
(* file operation or a full disk, in the read loop or in re-buffering, is  *)
(* counted by nginx_clickhouse_lines_not_processed_total, or is one that   *)
(* does not parse or that a rule may drop (main.flush, main.main); what    *)
(* is given up besides comes from a replay of a disk buffer.               *)
THEOREM LossIsCounted == Spec => []LossCounted
<1>1. Init => LossInv /\ ReplayInv
  BY DEF Init, LossInv, HeldExcused, DropsExcused, ReplayInv, Launching, Flushers
<1>2. LossInv /\ ReplayInv => LossCounted
  BY DEF LossInv, DropsExcused, Excused, ReplayInv, LossCounted
<1> QED
  BY <1>1, <1>2, StepKeepsLoss, StepKeepsReplay, Invariance, PTL DEF Spec

-----------------------------------------------------------------------------

(* Without a breaker nothing is ever counted.                              *)
DisabledUntouched == ~BreakerEnabled => streak = 0

Trying == FlushSteps \ {"allow", "rebuffer"}

(* What an allowed flush is to the breaker.                                *)
Phase == [t \in Flushers |-> IF pc[t] \in Trying THEN "trying" ELSE "idle"]

LEMMA DisabledKept == IInv /\ DisabledUntouched /\ [Next]_vars => DisabledUntouched'
<1> SUFFICES ASSUME IInv, DisabledUntouched, [Next]_vars, ~BreakerEnabled
             PROVE  streak' = 0
  BY DEF DisabledUntouched
<1>1. streak = 0
  BY DEF DisabledUntouched
<1>2. ASSUME NEW t \in Flushers, Step(t) PROVE streak' = streak
  <2>1. CASE Flush(t)
    BY <2>1 DEF Flush, Allow, Refuse, Drain, DrainFails, SaveSucceeds, SaveFails,
                RecordSuccess, RecordFailure, Rebuffer, breakerVars
  <2>2. CASE Main \/ Wake \/ Shutdown(t) \/ Exit(t)
    BY <2>2 DEF Main, Replay, ReplayFails, Restore, Receive, Check, EndOfInput, Wake,
                Shutdown, Exit, EndProcess, breakerVars
  <2> QED
    BY <1>2, <2>1, <2>2 DEF Step
<1>3. CASE Environment
  BY <1>1, <1>3 DEF Environment, SignalArrives, CoolDown, Crash, EndProcess, breakerVars
<1>4. CASE Restart
  BY <1>4 DEF Restart
<1>5. CASE Ended \/ UNCHANGED vars
  BY <1>1, <1>5 DEF Ended, vars, breakerVars
<1> QED
  BY <1>1, <1>2, <1>3, <1>4, <1>5 DEF Next

-----------------------------------------------------------------------------
(* A goroutine moves from one step to another.                             *)
LEMMA PhaseMoves ==
  ASSUME TypeOK, NEW t \in Flushers, NEW step, Goto(t, step)
  PROVE  Phase' = [Phase EXCEPT ![t] = IF step \in Trying THEN "trying" ELSE "idle"]
<1> DEFINE new == IF step \in Trying THEN "trying" ELSE "idle"
<1>1. pc'[t] = step /\ \A u \in Flushers \ {t} : pc'[u] = pc[u]
  BY DEF Goto, TypeOK
<1>2. \A u \in Flushers : Phase'[u] = IF u = t THEN new ELSE Phase[u]
  BY <1>1 DEF Phase
<1>3. Phase' = [u \in Flushers |-> Phase'[u]] /\ Phase = [u \in Flushers |-> Phase[u]]
  BY DEF Phase
<1> HIDE DEF new
<1>4. Phase' = [Phase EXCEPT ![t] = new]
  BY <1>2, <1>3
<1> QED
  BY <1>4 DEF new

(* The same when the breaker sees no difference.                           *)
LEMMA PhaseStays ==
  ASSUME TypeOK, NEW t \in Flushers, NEW step, Goto(t, step),
         pc[t] \in Trying <=> step \in Trying
  PROVE  Phase' = Phase
<1>1. pc'[t] = step /\ \A u \in Flushers \ {t} : pc'[u] = pc[u]
  BY DEF Goto, TypeOK
<1>2. \A u \in Flushers : pc'[u] \in Trying <=> pc[u] \in Trying
  BY <1>1
<1> QED
  BY <1>2 DEF Phase

(* A flush returns: its attempt is over.                                   *)
LEMMA PhaseReturns ==
  ASSUME TypeOK, NEW t \in Flushers, Resume(t)
  PROVE  Phase' = [Phase EXCEPT ![t] = "idle"]
<1>1. \E step \in {"close", "read", "sleep"} : Goto(t, step)
  BY DEF Resume
<1>2. {"close", "read", "sleep"} \intersect Trying = {}
  BY DEF Trying, FlushSteps
<1> QED
  BY <1>1, <1>2, PhaseMoves

LEMMA FlushUsesBreaker ==
  ASSUME IInv, DisabledUntouched, NEW t \in Flushers, Flush(t)
  PROVE  CB!Next \/ UNCHANGED <<streak, rested, Phase>>
<1>1. TypeOK /\ Phase[t] = IF pc[t] \in Trying THEN "trying" ELSE "idle"
  BY DEF IInv, Shape, Phase
<1>3. ASSUME pc[t] \in Trying, Resume(t), UNCHANGED breakerVars PROVE CB!Next
  <2>1. Phase' = [Phase EXCEPT ![t] = "idle"]
    BY <1>1, <1>3, PhaseReturns
  <2>2. CB!Abandon(t)
    BY <1>1, <1>3, <2>1 DEF CB!Abandon, CB!breakerVars, breakerVars, Phase, Trying
  <2> QED
    BY <2>2 DEF CB!Next
<1>4. CASE Allow(t)
  <2>1. pc[t] = "allow" /\ Goto(t, "drain") /\ Permitted /\ UNCHANGED breakerVars
    BY <1>4 DEF Allow
  <2>2. Phase[t] = "idle" /\ Phase' = [Phase EXCEPT ![t] = "trying"]
    BY <1>1, <2>1, PhaseMoves DEF Trying, FlushSteps
  <2>3. CB!Passes
    BY <2>1, SettingsAssumption DEF Permitted, DisabledUntouched, CB!Passes, CB!Tripped
  <2>4. CB!Allow(t)
    BY <2>1, <2>2, <2>3 DEF CB!Allow, CB!breakerVars, breakerVars, Phase, Trying
  <2> QED
    BY <2>4 DEF CB!Next
<1>5. CASE Refuse(t)
  <2>1. Phase[t] = "idle" /\ Phase' = [Phase EXCEPT ![t] = "idle"]
    BY <1>1, <1>5, PhaseReturns DEF Refuse, Trying, FlushSteps
  <2>2. Phase' = Phase
    BY <2>1 DEF Phase
  <2> QED
    BY <1>5, <2>2 DEF Refuse, breakerVars
<1>6. CASE Drain(t)
  <2>1. pc[t] = "drain" /\ UNCHANGED breakerVars /\ (Resume(t) \/ Goto(t, "save"))
    BY <1>6 DEF Drain
  <2>2. CASE Resume(t)
    BY <1>3, <2>1, <2>2 DEF Trying, FlushSteps
  <2>3. CASE Goto(t, "save")
    BY <1>1, <2>1, <2>3, PhaseStays DEF Trying, FlushSteps, breakerVars
  <2> QED
    BY <2>1, <2>2, <2>3
<1>7. CASE DrainFails(t)
  BY <1>3, <1>7 DEF DrainFails, Trying, FlushSteps
<1>8. CASE SaveSucceeds(t)
  BY <1>1, <1>8, PhaseStays DEF SaveSucceeds, Trying, FlushSteps, breakerVars
<1>9. CASE SaveFails(t)
  BY <1>1, <1>9, PhaseStays DEF SaveFails, Trying, FlushSteps, breakerVars
<1>10. CASE RecordSuccess(t)
  <2>1. pc[t] = "succeed" /\ Resume(t)
    BY <1>10 DEF RecordSuccess
  <2>2. CASE BreakerEnabled
    <3>1. Phase[t] = "trying" /\ Phase' = [Phase EXCEPT ![t] = "idle"]
      BY <1>1, <2>1, PhaseReturns DEF Trying, FlushSteps
    <3>2. CB!RecordSuccess(t)
      BY <1>10, <2>2, <3>1 DEF RecordSuccess, CB!RecordSuccess, Phase, Trying
    <3> QED
      BY <3>2 DEF CB!Next
  <2>3. CASE ~BreakerEnabled
    BY <1>3, <1>10, <2>1, <2>3 DEF RecordSuccess, Trying, FlushSteps
  <2> QED
    BY <2>2, <2>3
<1>11. CASE RecordFailure(t)
  <2>1. pc[t] = "fail" /\ Goto(t, "rebuffer")
    BY <1>11 DEF RecordFailure
  <2>2. Phase[t] = "trying" /\ Phase' = [Phase EXCEPT ![t] = "idle"]
    BY <1>1, <2>1, PhaseMoves DEF Trying, FlushSteps
  <2>3. CASE BreakerEnabled
    <3>1. CB!RecordFailure(t)
      BY <1>11, <2>2, <2>3 DEF RecordFailure, CB!RecordFailure, Phase, Trying
    <3> QED
      BY <3>1 DEF CB!Next
  <2>4. CASE ~BreakerEnabled
    <3>1. CB!Abandon(t)
      BY <1>11, <2>2, <2>4
         DEF RecordFailure, CB!Abandon, CB!breakerVars, breakerVars, Phase, Trying
    <3> QED
      BY <3>1 DEF CB!Next
  <2> QED
    BY <2>3, <2>4
<1>12. CASE Rebuffer(t)
  <2>1. pc[t] = "rebuffer" /\ UNCHANGED breakerVars /\ (Resume(t) \/ UNCHANGED pc)
    BY <1>12 DEF Rebuffer
  <2>2. CASE Resume(t)
    <3>1. Phase[t] = "idle" /\ Phase' = [Phase EXCEPT ![t] = "idle"]
      BY <1>1, <2>1, <2>2, PhaseReturns DEF Trying, FlushSteps
    <3>2. Phase' = Phase
      BY <3>1 DEF Phase
    <3> QED
      BY <2>1, <3>2 DEF breakerVars
  <2>3. CASE UNCHANGED pc
    BY <2>1, <2>3 DEF Phase, breakerVars
  <2> QED
    BY <2>1, <2>2, <2>3
<1> QED
  BY <1>4, <1>5, <1>6, <1>7, <1>8, <1>9, <1>10, <1>11, <1>12 DEF Flush

(* A step of the process is a step of the breaker and its callers, or none *)
(* that they notice.                                                       *)
LEMMA StepUsesBreaker ==
  ASSUME MaxRestarts = 0
  PROVE  IInv /\ DisabledUntouched /\ [Next]_vars => [CB!Next]_(CB!vars)
<1> SUFFICES ASSUME IInv, DisabledUntouched, [Next]_vars
             PROVE  CB!Next \/ UNCHANGED <<streak, rested, Phase>>
  BY DEF CB!vars, Phase, Trying
<1>1. TypeOK
  BY DEF IInv, Shape
<1>2. ASSUME NEW t \in Flushers, Step(t)
      PROVE  CB!Next \/ UNCHANGED <<streak, rested, Phase>>
  <2>1. CASE Flush(t)
    BY <2>1, FlushUsesBreaker
  <2>2. CASE Replay \/ ReplayFails \/ Restore
    <3>1. pc["main"] \in {"replay", "restore"} /\ pc["loop"] = "off" /\ pc["sig"] = "off"
      BY <2>2 DEF Replay, ReplayFails, Restore, IInv, Shape, FlushersInOrder
    <3>2. Launch \/ Goto("main", "restore")
      BY <2>2 DEF Replay, ReplayFails, Restore
    <3>3. \A u \in Flushers : pc[u] \notin Trying /\ pc'[u] \notin Trying
      BY <1>1, <3>1, <3>2 DEF Launch, Launched, Goto, TypeOK, Flushers, Trying, FlushSteps
    <3>4. Phase' = Phase
      BY <3>3 DEF Phase
    <3> QED
      BY <2>2, <3>4 DEF Replay, ReplayFails, Restore, breakerVars
  <2>3. CASE Receive \/ Check \/ EndOfInput
    <3>1. /\ pc["main"] \in {"read", "check"}
          /\ \/ UNCHANGED pc
             \/ \E step \in {"check", "allow", "read", "once"} : Goto("main", step)
          /\ UNCHANGED breakerVars
      BY <2>3 DEF Receive, Accept, Reject, Check, EndOfInput
    <3>2. Phase' = Phase
      BY <1>1, <3>1, PhaseStays DEF Phase, Trying, FlushSteps, Flushers
    <3> QED
      BY <3>1, <3>2 DEF breakerVars
  <2>4. CASE Wake
    <3>1. Phase' = Phase
      BY <1>1, <2>4, PhaseStays DEF Wake, Trying, FlushSteps, Flushers
    <3> QED
      BY <2>4, <3>1 DEF Wake, breakerVars
  <2>5. CASE Shutdown(t)
    <3>1. Phase' = Phase
      BY <1>1, <2>5, PhaseStays DEF Shutdown, Trying, FlushSteps
    <3> QED
      BY <2>5, <3>1 DEF Shutdown, breakerVars
  <2>6. CASE Exit(t)
    BY <2>6 DEF Exit, EndProcess, breakerVars, Phase
  <2> QED
    BY <1>2, <2>1, <2>2, <2>3, <2>4, <2>5, <2>6 DEF Step, Main
<1>3. CASE Environment
  <2>1. CASE SignalArrives
    <3>1. Phase' = Phase
      BY <1>1, <2>1, PhaseStays DEF SignalArrives, Trying, FlushSteps, Flushers
    <3> QED
      BY <2>1, <3>1 DEF SignalArrives, breakerVars
  <2>2. CASE CoolDown
    <3>1. CB!Rest /\ UNCHANGED pc
      BY <2>2 DEF CoolDown
    <3>2. CB!Elapse
      BY <3>1 DEF CB!Elapse
    <3> QED
      BY <3>2 DEF CB!Next
  <2>3. CASE Crash
    BY <2>3 DEF Crash, EndProcess, breakerVars, Phase
  <2> QED
    BY <1>3, <2>1, <2>2, <2>3 DEF Environment
<1>4. ~Restart
  BY <1>1 DEF Restart, TypeOK
<1>5. CASE Ended \/ UNCHANGED vars
  BY <1>5 DEF Ended, vars, breakerVars, Phase
<1> QED
  BY <1>2, <1>3, <1>4, <1>5 DEF Next

(* One process asks the breaker and tells it outcomes as Breaker's callers *)
(* do, with or without a breaker, through empty batches, read errors and   *)
(* a shutdown in the middle of a flush (main.flush): together with the     *)
(* refinement of Breaker by CircuitBreaker, main.go and circuitbreaker.go  *)
(* fit.  A restart is another process with another breaker.                *)
THEOREM BreakerUsedAsPromised ==
  ASSUME MaxRestarts = 0
  PROVE  Spec => ImplementsBreaker
<1>1. Init => CB!Init /\ DisabledUntouched
  <2> SUFFICES ASSUME Init PROVE CB!Init /\ DisabledUntouched
    OBVIOUS
  <2>1. CB!BreakerInit
    BY DEF Init
  <2>2. \A t \in Flushers : pc[t] \notin FlushSteps
    BY DEF Init, Launching, Flushers, FlushSteps
  <2>3. DisabledUntouched
    BY <2>1 DEF DisabledUntouched, CB!BreakerInit
  <2> QED
    BY <2>1, <2>2, <2>3 DEF CB!Init
<1>2. IInv /\ DisabledUntouched /\ [Next]_vars => [CB!Next]_(CB!vars)
  BY StepUsesBreaker
<1> QED
  BY <1>1, <1>2, DisabledKept, Invariance, PTL DEF Spec, ImplementsBreaker, CB!Spec

-----------------------------------------------------------------------------

(* A buffer that is flushed before it refuses a line, or has no limit.     *)
Roomy == ~Disk \/ DiskLimit = 0

(* What holds until the first failure.  Nobody writes lines back, so that  *)
(* main alone adds to the buffer, and it has flushed a full one before it  *)
(* reads on.                                                               *)
Healthy ==
  /\ streak = 0
  /\ \A t \in Flushers : pc[t] \notin {"fail", "rebuffer"}
  /\ pc["main"] \in {"save", "succeed", "close"} => buf = <<>>
  /\ pc["main"] \in {"once", "close"} \/ owner = "main" => ~Tailing /\ next > NumLines
  /\ pc["main"] = "close" => owner = "main"
  /\ ~Disk => Len(buf) <= MaxBufferSize
  /\ ~Disk /\ pc["main"] \notin {"check", "allow", "drain"} => Len(buf) < MaxBufferSize
  /\ \A l \in Lines : fate[l] # "unrestored"
  /\ Roomy => \A l \in Lines : fate[l] # "dropped"
  /\ ~Tailing /\ ended = "no" => \A l \in Lines : fate[l] # "lost"

HealthInv ==
  /\ faults = 0 => Healthy
  /\ ~Disk /\ ended # "no" => buf = <<>>
  /\ \A l \in Lines : l < next => fate[l] # "unread"

-----------------------------------------------------------------------------
(* A goroutine goes on without a failure and without a line being read.    *)
LEMMA HealthyGoesOn ==
  ASSUME TypeOK, Healthy, NEW t \in Flushers, NEW step, Goto(t, step),
         step \notin {"fail", "rebuffer", "once", "close"},
         t = "main" /\ step \in {"save", "succeed"} => buf' = <<>>,
         t = "main" /\ ~Disk /\ step \notin {"check", "allow", "drain"} => Len(buf') < MaxBufferSize,
         buf' = buf \/ buf' = <<>>,
         streak' = 0, UNCHANGED <<next, owner, ended>>,
         \A l \in Lines : fate'[l] \in {fate[l], "stored", "discarded"}
  PROVE  Healthy'
<1>1. pc'[t] = step /\ \A u \in Flushers \ {t} : pc'[u] = pc[u]
  BY DEF TypeOK, Goto
<1>2. Len(<<>>) = 0 /\ "main" \in Flushers /\ MaxBufferSize \in Nat \ {0}
  BY SettingsAssumption DEF Flushers
<1>3. \A u \in Flushers : pc'[u] \notin {"fail", "rebuffer"}
  BY <1>1 DEF Healthy
<1>4. pc'["main"] \in {"save", "succeed", "close"} => buf' = <<>>
  BY <1>1, <1>2 DEF Healthy
<1>5. /\ pc'["main"] \in {"once", "close"} \/ owner' = "main" => ~Tailing /\ next' > NumLines
      /\ pc'["main"] = "close" => owner' = "main"
  BY <1>1, <1>2 DEF Healthy
<1>6. /\ ~Disk => Len(buf') <= MaxBufferSize
      /\ ~Disk /\ pc'["main"] \notin {"check", "allow", "drain"} => Len(buf') < MaxBufferSize
  BY <1>1, <1>2 DEF Healthy
<1>7. /\ \A l \in Lines : fate'[l] # "unrestored"
      /\ Roomy => \A l \in Lines : fate'[l] # "dropped"
      /\ ~Tailing /\ ended' = "no" => \A l \in Lines : fate'[l] # "lost"
  BY DEF Healthy
<1> QED
  BY <1>3, <1>4, <1>5, <1>6, <1>7 DEF Healthy, Roomy

(* A flush returns: nobody's buffer holds lines when it is main's.         *)
LEMMA HealthyReturns ==
  ASSUME TypeOK, Healthy, NEW t \in Flushers, Resume(t),
         t = "main" => buf' = <<>>,
         buf' = buf \/ buf' = <<>>,
         streak' = 0, UNCHANGED <<next, owner, ended>>,
         \A l \in Lines : fate'[l] \in {fate[l], "stored", "discarded"}
  PROVE  Healthy'
<1>1. Len(<<>>) = 0 /\ MaxBufferSize \in Nat \ {0} /\ "main" \in Flushers
  BY SettingsAssumption DEF Flushers
<1>2. CASE owner # t
  <2>1. Goto(t, IF t = "main" THEN "read" ELSE "sleep")
    BY <1>2 DEF Resume
  <2> QED
    BY <1>1, <2>1, HealthyGoesOn
<1>3. CASE owner = t
  <2>1. pc'[t] = "close" /\ \A u \in Flushers \ {t} : pc'[u] = pc[u]
    BY <1>3 DEF Resume, Goto, TypeOK
  <2>2. \A u \in Flushers : pc'[u] \notin {"fail", "rebuffer"}
    BY <2>1 DEF Healthy
  <2>3. pc'["main"] \in {"save", "succeed", "close"} => buf' = <<>>
    BY <1>1, <2>1 DEF Healthy
  <2>4. /\ pc'["main"] \in {"once", "close"} \/ owner' = "main" => ~Tailing /\ next' > NumLines
        /\ pc'["main"] = "close" => owner' = "main"
    BY <1>1, <1>3, <2>1 DEF Healthy
  <2>5. /\ ~Disk => Len(buf') <= MaxBufferSize
        /\ ~Disk /\ pc'["main"] \notin {"check", "allow", "drain"} => Len(buf') < MaxBufferSize
    BY <1>1, <2>1 DEF Healthy
  <2>6. /\ \A l \in Lines : fate'[l] # "unrestored"
        /\ Roomy => \A l \in Lines : fate'[l] # "dropped"
        /\ ~Tailing /\ ended' = "no" => \A l \in Lines : fate'[l] # "lost"
    BY DEF Healthy
  <2> QED
    BY <2>2, <2>3, <2>4, <2>5, <2>6 DEF Healthy, Roomy
<1> QED
  BY <1>2, <1>3

-----------------------------------------------------------------------------
(* A step that fails adds to the failures; the others leave them alone.    *)
LEMMA FaultsCounted ==
  ASSUME TypeOK, faults' = faults \/ Fault, faults' = 0
  PROVE  faults = 0 /\ faults' = faults
<1>1. faults \in Nat
  BY SettingsAssumption DEF TypeOK
<1> QED
  BY <1>1 DEF Fault

(* A flush without failures.                                               *)
LEMMA FlushHealthy ==
  ASSUME IInv, HealthInv, ended = "no", NEW t \in Flushers, Flush(t), faults' = 0
  PROVE  Healthy'
<1>1. TypeOK /\ 0 \in Nat /\ Threshold \in Nat \ {0}
  BY SettingsAssumption DEF IInv, Shape
<1>2. faults' = faults \/ Fault
  BY DEF Flush, Allow, Refuse, Drain, DrainFails, ReadFails, FileFault, SaveSucceeds,
         SaveFails, RecordSuccess, RecordFailure, Rebuffer, processVars
<1>3. Healthy /\ faults' = faults /\ faults = 0
  BY <1>1, <1>2, FaultsCounted DEF HealthInv
<1>4. ~DrainFails(t) /\ ~SaveFails(t)
  BY <1>3 DEF DrainFails, ReadFails, SaveFails, FileFault, Fault
<1>5. streak = 0 /\ pc[t] \notin {"fail", "rebuffer"}
  BY <1>3 DEF Healthy
<1>6. ~Refuse(t) /\ ~RecordFailure(t) /\ ~Rebuffer(t)
  BY <1>1, <1>5 DEF Refuse, Permitted, CB!Passes, CB!Tripped, RecordFailure, Rebuffer
<1>7. CASE Allow(t)
  <2>1. /\ Goto(t, "drain") /\ UNCHANGED <<buf, next, owner, ended, fate>> /\ streak' = 0
    BY <1>5, <1>7 DEF Allow, flushVars, breakerVars, processVars
  <2> QED
    BY <1>1, <1>3, <2>1, HealthyGoesOn
<1>8. CASE Drain(t)
  <2>1. buf' = <<>> /\ UNCHANGED <<next, owner, ended>> /\ streak' = 0
    BY <1>5, <1>8 DEF Drain, Emptied, breakerVars, processVars
  <2>2. CASE Goto(t, "save") /\ UNCHANGED fate
    <3>1. Len(<<>>) = 0 /\ MaxBufferSize \in Nat \ {0}
      BY SettingsAssumption
    <3> QED
      BY <1>1, <1>3, <2>1, <2>2, <3>1, HealthyGoesOn
  <2>3. CASE Resume(t) /\ (UNCHANGED fate \/ SettleBatch(buf, {}, "stored"))
    <3>1. \A l \in Lines : fate'[l] \in {fate[l], "stored", "discarded"}
      BY <2>3 DEF SettleBatch
    <3> QED
      BY <1>1, <1>3, <2>1, <2>3, <3>1, HealthyReturns
  <2> QED
    BY <1>8, <2>2, <2>3 DEF Drain
<1>9. CASE SaveSucceeds(t)
  <2>1. /\ pc[t] = "save" /\ Goto(t, "succeed") /\ UNCHANGED <<buf, next, owner, ended>>
        /\ SettleBatch(held[t], kept[t], "stored") /\ streak' = 0
    BY <1>5, <1>9 DEF SaveSucceeds, breakerVars, processVars
  <2>2. \A l \in Lines : fate'[l] \in {fate[l], "stored", "discarded"}
    BY <2>1 DEF SettleBatch
  <2>3. t = "main" => buf = <<>> /\ (~Disk => Len(buf) < MaxBufferSize)
    BY <1>3, <2>1 DEF Healthy
  <2> QED
    BY <1>1, <1>3, <2>1, <2>2, <2>3, HealthyGoesOn
<1>10. CASE RecordSuccess(t)
  <2>1. /\ pc[t] = "succeed" /\ Resume(t) /\ UNCHANGED <<buf, next, owner, ended, fate>>
        /\ streak' = 0
    BY <1>5, <1>10 DEF RecordSuccess, CB!Succeed, flushVars, breakerVars, processVars
  <2>2. t = "main" => buf = <<>>
    BY <1>3, <2>1 DEF Healthy
  <2> QED
    BY <1>1, <1>3, <2>1, <2>2, HealthyReturns
<1> QED
  BY <1>4, <1>6, <1>7, <1>8, <1>9, <1>10 DEF Flush

(* The process is started or its goroutines are launched.                  *)
LEMMA HealthyLaunch ==
  ASSUME TypeOK, Healthy, pc' \in {Launching, Launched}, owner' \in {owner, "none"},
         ~Disk => Len(buf') < MaxBufferSize /\ Len(buf') <= MaxBufferSize,
         streak' = 0, UNCHANGED next, Tailing \/ UNCHANGED ended,
         \A l \in Lines : fate'[l] \in {fate[l], "stored", "discarded"}
  PROVE  Healthy'
<1>1. \A t \in Flushers : pc'[t] \notin {"fail", "rebuffer", "save", "succeed", "close", "once"}
  BY DEF Launching, Launched, Flushers
<1>2. \A t \in Flushers : pc'[t] \notin {"fail", "rebuffer"}
  BY <1>1
<1>3. /\ pc'["main"] \in {"save", "succeed", "close"} => buf' = <<>>
      /\ pc'["main"] \in {"once", "close"} \/ owner' = "main" => ~Tailing /\ next' > NumLines
      /\ pc'["main"] = "close" => owner' = "main"
  BY <1>1 DEF Flushers, Healthy
<1>4. /\ \A l \in Lines : fate'[l] # "unrestored"
      /\ Roomy => \A l \in Lines : fate'[l] # "dropped"
      /\ ~Tailing /\ ended' = "no" => \A l \in Lines : fate'[l] # "lost"
  BY DEF Healthy
<1> QED
  BY <1>2, <1>3, <1>4 DEF Healthy, Roomy

(* Startup and the read loop without failures.                             *)
LEMMA MainHealthy ==
  ASSUME IInv, HealthInv, ended = "no", Main, faults' = 0
  PROVE  Healthy'
<1>1. TypeOK /\ "main" \in Flushers
  BY DEF IInv, Shape, Flushers
<1>2. faults' = faults \/ Fault
  BY DEF Main, Replay, ReplayFails, Restore, ReadFails, FileFault, Receive, Accept, Reject,
         Check, EndOfInput, processVars
<1>3. Healthy /\ faults' = faults /\ faults = 0
  BY <1>1, <1>2, FaultsCounted DEF HealthInv
<1>4. streak' = 0 /\ owner' = owner /\ ended' = ended
  BY <1>3 DEF Healthy, Main, Replay, ReplayFails, Restore, Receive, Check, EndOfInput,
              breakerVars, processVars
<1>5. ~ReplayFails
  BY <1>3 DEF ReplayFails, ReadFails, FileFault, Fault
<1>6. CASE Replay
  <2>1. buf' = <<>> /\ UNCHANGED <<next, fate>>
    BY <1>6 DEF Replay, Emptied
  <2>2. Len(<<>>) = 0 /\ MaxBufferSize \in Nat \ {0}
    BY SettingsAssumption
  <2>3. CASE Launch
    BY <1>1, <1>3, <1>4, <2>1, <2>2, <2>3, HealthyLaunch DEF Launch
  <2>4. CASE Goto("main", "restore")
    BY <1>1, <1>3, <1>4, <2>1, <2>2, <2>4, HealthyGoesOn
  <2> QED
    BY <1>6, <2>3, <2>4 DEF Replay
<1>7. CASE Restore
  <2>1. /\ Launch /\ UNCHANGED <<buf, next>> /\ pc["main"] = "restore"
        /\ SettleBatch(held["main"], kept["main"], "stored")
    BY <1>3, <1>7 DEF Restore, Fault
  <2>2. \A l \in Lines : fate'[l] \in {fate[l], "stored", "discarded"}
    BY <2>1 DEF SettleBatch
  <2>3. ~Disk => Len(buf) < MaxBufferSize /\ Len(buf) <= MaxBufferSize
    BY <1>3, <2>1 DEF Healthy
  <2> QED
    BY <1>1, <1>3, <1>4, <2>1, <2>2, <2>3, HealthyLaunch DEF Launch
<1>8. CASE Receive
  <2>1. /\ pc["main"] = "read" /\ next' = next + 1 /\ next \in Lines
    BY <1>1, <1>8, SettingsAssumption DEF Receive, TypeOK, Lines
  <2>2. Roomy => HasRoom
    BY <1>3, <2>1 DEF Roomy, HasRoom, Healthy
  <2>3. CASE Accept
    <3>1. /\ pc'["main"] = "check" /\ \A u \in Flushers \ {"main"} : pc'[u] = pc[u]
          /\ buf' = Append(buf, next)
          /\ \A l \in Lines : fate'[l] = IF l = next THEN "live" ELSE fate[l]
      BY <1>1, <2>3 DEF Accept, Goto, Settle, TypeOK
    <3>2. /\ Len(buf') = Len(buf) + 1 /\ Len(buf) \in Nat
      BY <1>1, <2>1, <3>1, AppendProperties, LenProperties DEF TypeOK
    <3>3. \A u \in Flushers : pc'[u] \notin {"fail", "rebuffer"}
      BY <1>3, <3>1 DEF Healthy
    <3>4. ~Disk => Len(buf') <= MaxBufferSize
      BY <2>1, <2>3, <3>2, SettingsAssumption DEF Accept, HasRoom
    <3>5. owner # "main"
      BY <1>1, <1>3, <2>1, SettingsAssumption DEF Healthy, Lines
    <3>6. /\ \A l \in Lines : fate'[l] # "unrestored"
          /\ Roomy => \A l \in Lines : fate'[l] # "dropped"
          /\ ~Tailing /\ ended' = "no" => \A l \in Lines : fate'[l] # "lost"
      BY <1>3, <1>4, <3>1 DEF Healthy
    <3> QED
      BY <1>4, <3>1, <3>3, <3>4, <3>5, <3>6 DEF Healthy, Roomy
  <2>4. CASE Reject
    <3>1. /\ UNCHANGED <<pc, buf>> /\ ~Roomy
          /\ \A l \in Lines : fate'[l] \in {fate[l], "dropped"}
      BY <1>3, <2>2, <2>4 DEF Reject, Settle, FileFault, Fault
    <3>2. owner # "main"
      BY <1>1, <1>3, <2>1, SettingsAssumption DEF Healthy, Lines
    <3>3. /\ \A l \in Lines : fate'[l] # "unrestored"
          /\ ~Tailing /\ ended' = "no" => \A l \in Lines : fate'[l] # "lost"
      BY <1>3, <1>4, <3>1 DEF Healthy
    <3> QED
      BY <1>3, <1>4, <2>1, <3>1, <3>2, <3>3 DEF Healthy, Roomy
  <2> QED
    BY <1>8, <2>3, <2>4 DEF Receive
<1>9. CASE Check
  <2>1. /\ Goto("main", IF BufferFull THEN "allow" ELSE "read")
        /\ UNCHANGED <<buf, next, fate>>
    BY <1>9 DEF Check, flushVars
  <2>2. ~BufferFull => Len(buf) < MaxBufferSize
    BY <1>1, SettingsAssumption, LenProperties DEF BufferFull, TypeOK
  <2> QED
    BY <1>1, <1>3, <1>4, <2>1, <2>2, HealthyGoesOn
<1>10. CASE EndOfInput
  <2>1. /\ pc["main"] = "read" /\ pc'["main"] = "once" /\ ~Tailing /\ next > NumLines
        /\ \A u \in Flushers \ {"main"} : pc'[u] = pc[u]
        /\ UNCHANGED <<buf, next, fate>>
    BY <1>1, <1>10 DEF EndOfInput, Goto, TypeOK, flushVars
  <2>2. \A u \in Flushers : pc'[u] \notin {"fail", "rebuffer"}
    BY <1>3, <2>1 DEF Healthy
  <2> QED
    BY <1>3, <1>4, <2>1, <2>2 DEF Healthy, Roomy
<1> QED
  BY <1>5, <1>6, <1>7, <1>8, <1>9, <1>10 DEF Main

(* A signal, a shutdown and a pause of the flush loop change no line.      *)
LEMMA OthersHealthy ==
  ASSUME IInv, HealthInv, ended = "no", faults' = 0, NEW t \in Flushers,
         Wake \/ Shutdown(t) \/ SignalArrives \/ CoolDown
  PROVE  Healthy'
<1>1. TypeOK /\ {"main", "loop", "sig"} \subseteq Flushers /\ Threshold \in Nat \ {0}
  BY SettingsAssumption DEF IInv, Shape, Flushers
<1>2. UNCHANGED <<faults, buf, next, ended, fate>>
  BY DEF Wake, Shutdown, SignalArrives, CoolDown, flushVars, processVars
<1>3. Healthy
  BY <1>2 DEF HealthInv
<1>4. CASE Wake
  <2>1. Goto("loop", "allow") /\ streak' = 0 /\ owner' = owner
    BY <1>3, <1>4 DEF Wake, breakerVars, processVars, Healthy
  <2> QED
    BY <1>1, <1>2, <1>3, <2>1, HealthyGoesOn
<1>5. CASE Shutdown(t)
  <2>1. /\ pc[t] = "once" /\ streak' = 0 /\ owner' = t
        /\ pc'[t] = "allow" /\ \A u \in Flushers \ {t} : pc'[u] = pc[u]
    BY <1>1, <1>3, <1>5 DEF Shutdown, Goto, TypeOK, breakerVars, Healthy
  <2>2. owner = "none"
    BY <1>5 DEF Shutdown
  <2>3. \A u \in Flushers : pc'[u] \notin {"fail", "rebuffer"}
    BY <1>3, <2>1 DEF Healthy
  <2>4. pc'["main"] \in {"save", "succeed", "close"} => buf' = <<>>
    BY <1>1, <1>2, <1>3, <2>1 DEF Healthy
  <2>5. /\ pc'["main"] \in {"once", "close"} \/ owner' = "main" => ~Tailing /\ next' > NumLines
        /\ pc'["main"] = "close" => owner' = "main"
    BY <1>1, <1>2, <1>3, <2>1, <2>2 DEF Healthy
  <2>6. /\ ~Disk => Len(buf') <= MaxBufferSize
        /\ ~Disk /\ pc'["main"] \notin {"check", "allow", "drain"} => Len(buf') < MaxBufferSize
    BY <1>1, <1>2, <1>3, <2>1 DEF Healthy
  <2> QED
    BY <1>2, <1>3, <2>1, <2>3, <2>4, <2>5, <2>6 DEF Healthy, Roomy
<1>6. CASE SignalArrives
  <2>1. /\ pc'["sig"] = "once" /\ \A u \in Flushers \ {"sig"} : pc'[u] = pc[u]
        /\ streak' = 0 /\ owner' = owner
    BY <1>1, <1>3, <1>6 DEF SignalArrives, Goto, TypeOK, breakerVars, processVars, Healthy
  <2>2. \A u \in Flushers : pc'[u] \notin {"fail", "rebuffer"}
    BY <1>3, <2>1 DEF Healthy
  <2>3. pc'["main"] = pc["main"]
    BY <1>1, <2>1
  <2> QED
    BY <1>2, <1>3, <2>1, <2>2, <2>3 DEF Healthy, Roomy
<1>7. CASE CoolDown
  BY <1>1, <1>3, <1>7 DEF CoolDown, CB!Rest, CB!Tripped, Healthy
<1> QED
  BY <1>4, <1>5, <1>6, <1>7

(* The end of the process: nothing that happens to its lines matters if it *)
(* is not started again, and lines end lost if it is.                      *)
LEMMA EndHealthy ==
  ASSUME IInv, HealthInv, faults' = 0, NEW how \in {"exit", "crash"}, EndProcess(how)
  PROVE  Healthy'
<1>1. TypeOK
  BY DEF IInv, Shape
<1>2. /\ UNCHANGED <<pc, next, owner, faults, streak>>
      /\ ended' # "no"
      /\ ~Disk => buf' = <<>>
      /\ \A l \in Lines : fate'[l] \in {fate[l], "lost"}
  BY DEF EndProcess, breakerVars
<1>3. Healthy
  BY <1>2 DEF HealthInv
<1>4. buf = <<>> => buf' = <<>>
  <2> SUFFICES ASSUME buf = <<>> PROVE buf' = <<>>
    OBVIOUS
  <2>1. PICK cut \in 0 .. Len(buf) : buf' = SubSeq(buf, cut + 1, Len(buf))
    BY DEF EndProcess
  <2>2. cut = 0 /\ buf' = SubSeq(<<>>, 1, 0)
    BY <2>1
  <2> QED
    BY <2>2, EmptySeq
<1>5. ~Disk => Len(buf') < MaxBufferSize /\ Len(buf') <= MaxBufferSize
  BY <1>2, SettingsAssumption
<1>6. /\ \A l \in Lines : fate'[l] # "unrestored"
      /\ Roomy => \A l \in Lines : fate'[l] # "dropped"
  BY <1>2, <1>3 DEF Healthy
<1> QED
  BY <1>2, <1>3, <1>4, <1>5, <1>6 DEF Healthy, Roomy

(* Lines before the next one have been read.                               *)
LEMMA ReadKept ==
  ASSUME IInv, HealthInv, [Next]_vars
  PROVE  \A l \in Lines : l < next' => fate'[l] # "unread"
<1>1. TypeOK /\ \A l \in Lines : l < next => fate[l] # "unread"
  BY DEF IInv, Shape, HealthInv
<1>2. CASE Receive
  <2>1. next \in Nat /\ next' = next + 1 /\ \A l \in Lines : l \in Nat
    BY <1>1, <1>2 DEF Receive, TypeOK, Lines
  <2>2. Settle({next}, "live") \/ Settle({next}, "dropped")
    BY <1>2 DEF Receive, Accept, Reject
  <2> QED
    BY <1>1, <2>1, <2>2 DEF Settle
<1>3. CASE ~Receive
  <2>1. next' = next
    BY <1>3, Zenon DEF Next, Step, Flush, Main, Environment, Allow, Refuse, Drain, DrainFails,
       SaveSucceeds, SaveFails, RecordSuccess, RecordFailure, Rebuffer, Replay, ReplayFails,
       Restore, Check, EndOfInput, Wake, Shutdown, Exit, EndProcess, SignalArrives, CoolDown,
       Crash, Restart, Ended, vars, flushVars
  <2>2. \A l \in Lines : fate'[l] # "unread" \/ fate'[l] = fate[l]
    BY <1>3 DEF Next, Step, Flush, Main, Environment, Allow, Refuse, Drain, DrainFails,
       SaveSucceeds, SaveFails, RecordSuccess, RecordFailure, Rebuffer, Replay, ReplayFails,
       Restore, Check, EndOfInput, Wake, Shutdown, Exit, EndProcess, SignalArrives, CoolDown,
       Crash, Restart, Ended, vars, flushVars, Settle, SettleBatch
  <2> QED
    BY <1>1, <2>1, <2>2
<1> QED
  BY <1>2, <1>3

(* The memory buffer goes with the process.                                *)
LEMMA MemoryGone ==
  ASSUME HealthInv, [Next]_vars, ~Disk, ended' # "no"
  PROVE  buf' = <<>>
<1>1. CASE \E how \in {"exit", "crash"} : EndProcess(how)
  BY <1>1 DEF EndProcess
<1>2. CASE Restart
  BY <1>2 DEF Restart
<1>3. CASE ended = ended' /\ buf' = buf
  BY <1>3 DEF HealthInv
<1>4. ASSUME NEW t \in Flushers, Step(t), ended = "no" PROVE Exit(t)
  BY <1>4 DEF Step, Flush, Main, Allow, Refuse, Drain, DrainFails, SaveSucceeds, SaveFails,
         RecordSuccess, RecordFailure, Rebuffer, Replay, ReplayFails, Restore, Receive, Check,
         EndOfInput, Wake, Shutdown, processVars
<1>5. ASSUME Environment, ~Crash PROVE ended' = "no"
  BY <1>5 DEF Environment, SignalArrives, CoolDown, processVars
<1> QED
  BY <1>1, <1>2, <1>3, <1>4, <1>5
     DEF Next, Step, Environment, Exit, Crash, Ended, vars, flushVars, processVars

LEMMA HealthKept == IInv /\ HealthInv /\ [Next]_vars => HealthInv'
<1> SUFFICES ASSUME IInv, HealthInv, [Next]_vars, faults' = 0 PROVE Healthy'
  BY ReadKept, MemoryGone DEF HealthInv
<1>1. TypeOK
  BY DEF IInv, Shape
<1>2. ASSUME NEW t \in Flushers, Step(t) PROVE Healthy'
  <2>1. CASE Exit(t)
    BY <2>1, EndHealthy DEF Exit
  <2>2. CASE ~Exit(t)
    BY <1>2, <2>2, FlushHealthy, MainHealthy, OthersHealthy DEF Step
  <2> QED
    BY <2>1, <2>2
<1>3. CASE Environment
  <2>1. CASE Crash
    BY <2>1, EndHealthy DEF Crash
  <2>2. CASE SignalArrives \/ CoolDown
    <3>1. "sig" \in Flushers /\ ended = "no"
      BY <1>3 DEF Flushers, Environment
    <3> QED
      BY <2>2, <3>1, OthersHealthy
  <2> QED
    BY <1>3, <2>1, <2>2 DEF Environment
<1>4. CASE Restart
  <2>1. /\ pc' = Launching /\ owner' = "none" /\ streak' = 0 /\ Tailing
        /\ UNCHANGED <<buf, next, fate, faults>> /\ ended # "no"
    BY <1>4 DEF Restart, flushVars
  <2>2. Healthy
    BY <2>1 DEF HealthInv
  <2>3. ~Disk => Len(buf') < MaxBufferSize /\ Len(buf') <= MaxBufferSize
    <3>1. Len(<<>>) = 0 /\ MaxBufferSize \in Nat \ {0}
      BY SettingsAssumption
    <3> QED
      BY <2>1, <3>1 DEF HealthInv
  <2>4. pc' \in {Launching, Launched} /\ owner' \in {owner, "none"} /\ (Tailing \/ UNCHANGED ended)
    BY <2>1, Zenon
  <2>5. \A l \in Lines : fate'[l] \in {fate[l], "stored", "discarded"}
    BY <2>1
  <2> QED
    BY <1>1, <2>1, <2>2, <2>3, <2>4, <2>5, HealthyLaunch
<1>5. CASE Ended \/ UNCHANGED vars
  <2>1. Healthy /\ UNCHANGED <<streak, pc, buf, owner, next, fate, ended>>
    BY <1>5 DEF Ended, vars, flushVars, breakerVars, processVars, HealthInv
  <2> QED
    BY <2>1 DEF Healthy, Roomy
<1> QED
  BY <1>2, <1>3, <1>4, <1>5 DEF Next

LEMMA HealthInitially == Init => HealthInv
<1> SUFFICES ASSUME Init PROVE HealthInv
  OBVIOUS
<1>1. /\ pc["main"] = "replay" /\ \A t \in Flushers : pc[t] \notin {"fail", "rebuffer"}
      /\ buf = <<>> /\ owner = "none" /\ next = 1 /\ streak = 0
      /\ \A l \in Lines : fate[l] = "unread"
  BY DEF Init, Launching, Flushers, CB!BreakerInit
<1>2. Len(<<>>) = 0 /\ MaxBufferSize \in Nat \ {0}
  BY SettingsAssumption
<1>3. \A l \in Lines : ~(l < 1)
  BY SettingsAssumption DEF Lines
<1>4. Len(buf) < MaxBufferSize /\ Len(buf) <= MaxBufferSize
  BY <1>1, <1>2
<1>5. \A l \in Lines : fate[l] \notin {"unrestored", "dropped", "lost"}
  BY <1>1
<1>6. Healthy
  BY <1>1, <1>4, <1>5 DEF Healthy
<1> QED
  BY <1>1, <1>3, <1>6 DEF HealthInv

LEMMA HealthInvariance == Spec => [](IInv /\ HealthInv)
<1>1. Init => IInv /\ HealthInv
  BY InitEstablishes, HealthInitially
<1>2. (IInv /\ HealthInv) /\ [Next]_vars => (IInv /\ HealthInv)'
  BY StepPreserves, HealthKept
<1> QED
  BY <1>1, <1>2, PTL DEF Spec

-----------------------------------------------------------------------------
(* Whatever the goroutines do meanwhile, main flushes a full memory buffer *)
(* before it writes the next line, and Write refuses none (main.go:267).   *)
THEOREM HealthyDropsNone == Spec => []NoDropWhileHealthy
<1>1. HealthInv => NoDropWhileHealthy
  BY DEF HealthInv, Healthy, Roomy, NoDropWhileHealthy
<1> QED
  BY <1>1, HealthInvariance, PTL

(* With a buffer that is flushed before it is full, main closes with every *)
(* line of the input dealt with but those in the flush of the flush loop   *)
(* (main.doShutdown).                                                      *)
THEOREM ClosesDrained ==
  ASSUME Roomy
  PROVE  Spec => []OnceDrains
<1>1. ASSUME IInv, HealthInv PROVE OnceDrains
  <2> SUFFICES ASSUME pc["main"] = "close", ended = "no", faults = 0, NEW l \in Lines
               PROVE  fate[l] \in {"stored", "discarded"} \/ l \in ToSet(held["loop"])
    BY DEF OnceDrains
  <2>1. TypeOK /\ FlushersInOrder /\ HeldInOrder /\ Accounted
    BY <1>1 DEF IInv, Shape, Places
  <2>2. buf = <<>> /\ owner = "main" /\ ~Tailing /\ next > NumLines
        /\ fate[l] \notin {"unrestored", "dropped", "lost"}
    BY <1>1 DEF HealthInv, Healthy
  <2>3. fate[l] # "unread"
    <3>1. l \in Nat /\ l <= NumLines /\ next \in Nat
      BY <2>1, SettingsAssumption DEF Lines, TypeOK
    <3>2. l < next
      BY <2>2, <3>1, SettingsAssumption
    <3> QED
      BY <1>1, <3>2 DEF HealthInv
  <2>4. held["main"] = <<>> /\ held["sig"] = <<>>
    <3>1. pc["main"] \notin HoldSteps
      BY DEF HoldSteps
    <3>2. pc["sig"] \notin HoldSteps
      BY <2>1, <2>2 DEF FlushersInOrder, HoldSteps, FlushSteps, TypeOK, Steps, Flushers
    <3> QED
      BY <2>1, <3>1, <3>2 DEF HeldInOrder, Flushers
  <2>5. CASE fate[l] = "live"
    <3>1. l \in LinesHeld
      BY <2>1, <2>2, <2>5, EmptyHoldsNothing DEF Accounted
    <3>2. PICK t \in Flushers : l \in ToSet(held[t])
      BY <3>1 DEF LinesHeld
    <3>3. t = "loop"
      BY <2>4, <3>2, EmptyHoldsNothing DEF Flushers
    <3> QED
      BY <3>2, <3>3
  <2>6. fate[l] \in Fates
    BY <2>1 DEF TypeOK
  <2> QED
    BY <2>2, <2>3, <2>5, <2>6 DEF Fates
<1> QED
  BY <1>1, HealthInvariance, PTL

-----------------------------------------------------------------------------
(* As many lines are unsettled as the buffer holds, for it holds each once.*)
LEMMA BufferUnsettled ==
  ASSUME IInv, NEW l \in Lines, l \notin ToSet(buf)
  PROVE  /\ Cardinality(Unsettled \union {l}) \in Nat
         /\ Cardinality(Unsettled \union {l}) > Len(buf)
<1>1. /\ buf \in Seq(Lines) /\ IsInjective(buf)
      /\ ToSet(buf) \subseteq Unsettled /\ Unsettled \subseteq Lines
  <2>1. buf \in Seq(Lines) /\ Accounted /\ OnePlace
    BY DEF IInv, Shape, Places, TypeOK
  <2>2. ToSet(buf) \subseteq Lines
    BY <2>1, ElementsTyped
  <2> QED
    BY <2>1, <2>2 DEF Accounted, OnePlace, Unsettled
<1>2. IsFiniteSet(Lines)
  BY FS_Interval, SettingsAssumption DEF Lines
<1>3. IsFiniteSet(ToSet(buf)) /\ IsFiniteSet(Unsettled \union {l})
  BY <1>1, <1>2, FS_Subset
<1>4. Len(buf) <= Cardinality(ToSet(buf))
  <2>1. Len(buf) \in Nat /\ DOMAIN buf = 1 .. Len(buf) /\ buf = [i \in 1 .. Len(buf) |-> buf[i]]
    BY <1>1, LenProperties
  <2>2. \A i \in 1 .. Len(buf) : buf[i] \in ToSet(buf)
    BY <2>1 DEF ToSet
  <2>3. buf \in [1 .. Len(buf) -> ToSet(buf)]
    BY <2>1, <2>2
  <2>4. buf \in Injection(1 .. Len(buf), ToSet(buf))
    BY <1>1, <2>3 DEF Injection
  <2>5. Cardinality(1 .. Len(buf)) <= Cardinality(ToSet(buf))
    BY <1>3, <2>4, FS_Injection
  <2>6. Cardinality(1 .. Len(buf)) = Len(buf)
    BY <2>1, FS_Interval
  <2> QED
    BY <2>5, <2>6
<1>5. /\ IsFiniteSet(ToSet(buf) \union {l})
      /\ Cardinality(ToSet(buf) \union {l}) = Cardinality(ToSet(buf)) + 1
  BY <1>3, FS_AddElement
<1>6. ToSet(buf) \union {l} \in SUBSET (Unsettled \union {l})
  BY <1>1
<1>7. Cardinality(ToSet(buf) \union {l}) <= Cardinality(Unsettled \union {l})
  BY <1>3, <1>6, FS_Subset
<1>8. Cardinality(ToSet(buf)) \in Nat /\ Cardinality(Unsettled \union {l}) \in Nat /\ Len(buf) \in Nat
  BY <1>1, <1>3, FS_CardinalityType, LenProperties
<1> QED
  BY <1>4, <1>5, <1>7, <1>8

(* The step that drops a line for want of room.                            *)
LEMMA DropsWhenFull ==
  ASSUME IInv, [Next]_vars, NEW l \in Lines,
         fate[l] # "dropped", fate'[l] = "dropped", faults' = faults
  PROVE  ~HasRoom /\ l \notin ToSet(buf)
<1>1. TypeOK /\ UnreadInOrder /\ Accounted /\ OnePlace
  BY DEF IInv, Shape, Places
<1>2. ~FileFault
  BY <1>1, SettingsAssumption DEF FileFault, Fault, TypeOK
<1>3. CASE Receive
  <2>1. Reject /\ l = next
    BY <1>3 DEF Receive, Accept, Reject, Settle
  <2>2. fate[next] = "unread"
    BY <1>1, <2>1, SettingsAssumption DEF UnreadInOrder, TypeOK
  <2> QED
    BY <1>1, <1>2, <2>1, <2>2 DEF Reject, Accounted
<1>4. ASSUME NEW t \in Flushers, Rebuffer(t), ended = "no" PROVE ~HasRoom /\ l \notin ToSet(buf)
  <2>1. ~HasRoom /\ l = Head(held[t])
    BY <1>2, <1>4 DEF Rebuffer, Settle
  <2>2. held[t] \in Seq(Lines) /\ held[t] # <<>>
    BY <1>1, <1>4 DEF IInv, Shape, HeldInOrder, HoldSteps, Rebuffer, TypeOK
  <2>3. l \in ToSet(held[t])
    BY <2>1, <2>2, TailHolds
  <2> QED
    BY <1>1, <2>1, <2>3 DEF OnePlace
<1>5. ASSUME ~Receive, ~\E t \in Flushers : ended = "no" /\ Rebuffer(t)
      PROVE  fate'[l] \in {fate[l], "stored", "discarded", "unrestored", "lost"}
  BY <1>5 DEF Next, Step, Flush, Main, Environment, Allow, Refuse, Drain, DrainFails,
     SaveSucceeds, SaveFails, RecordSuccess, RecordFailure, Replay, ReplayFails, Restore,
     Check, EndOfInput, Wake, Shutdown, Exit, EndProcess, SignalArrives, CoolDown, Crash,
     Restart, Ended, vars, flushVars, Settle, SettleBatch
<1> QED
  BY <1>3, <1>4, <1>5

(* Neither a race of the goroutines nor an outage costs a line that would  *)
(* fit: one is dropped only while more lines than the buffer can hold are  *)
(* unsettled, unless a file operation fails (main.flush, Write).           *)
THEOREM DropsAreOverflow == Spec => DropsNeedOverflow
<1> DEFINE Overflow ==
      \A l \in Lines :
        fate'[l] = "dropped" /\ fate[l] # "dropped" /\ faults' = faults =>
          Cardinality(Unsettled \union {l}) > Capacity
<1>1. IInv /\ [Next]_vars => Overflow
  <2> SUFFICES ASSUME IInv, [Next]_vars, NEW l \in Lines,
                      fate[l] # "dropped", fate'[l] = "dropped", faults' = faults
               PROVE  Cardinality(Unsettled \union {l}) > Capacity
    OBVIOUS
  <2>1. ~HasRoom /\ l \notin ToSet(buf)
    BY DropsWhenFull
  <2>2. Len(buf) \in Nat /\ Capacity \in Nat /\ Len(buf) >= Capacity
    <3>1. buf \in Seq(Lines)
      BY DEF IInv, Shape, TypeOK
    <3>2. Len(buf) \in Nat
      BY <3>1, LenProperties
    <3> QED
      BY <2>1, <3>2, SettingsAssumption DEF HasRoom, Capacity
  <2> QED
    BY <2>1, <2>2, BufferUnsettled
<1>2. IInv /\ [Next]_vars => [Overflow]_vars
  BY <1>1
<1> HIDE DEF Overflow
<1>3. Spec => [][Overflow]_vars
  BY <1>2, Invariance, PTL DEF Spec
<1> QED
  BY <1>3 DEF DropsNeedOverflow, Overflow

=============================================================================
