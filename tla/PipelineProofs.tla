--------------------------- MODULE PipelineProofs ---------------------------
(***************************************************************************)
(* The pipeline for any input, any buffer and any settings: no line        *)
(* vanishes or is in two places at once, however the goroutines, failing   *)
(* saves, a shutdown, a crash and restarts interleave.                     *)
(***************************************************************************)
EXTENDS Pipeline, SequenceTheorems, TLAPS

-----------------------------------------------------------------------------
(* Lemmas about the sequences that hold lines.                             *)

(* An empty sequence holds nothing.                                        *)
LEMMA EmptyHoldsNothing == ToSet(<<>>) = {} /\ IsInjective(<<>>)
<1> QED
  BY DEF ToSet, IsInjective

(* The elements of a sequence over S are in S.                             *)
LEMMA ElementsTyped ==
  ASSUME NEW S, NEW s \in Seq(S)
  PROVE  ToSet(s) \subseteq S
<1> QED
  BY ElementOfSeq, LenProperties DEF ToSet

(* Appending a new element keeps the elements apart.                       *)
LEMMA AppendHolds ==
  ASSUME NEW S, NEW s \in Seq(S), NEW e \in S
  PROVE  /\ Append(s, e) \in Seq(S)
         /\ ToSet(Append(s, e)) = ToSet(s) \union {e}
         /\ IsInjective(s) /\ e \notin ToSet(s) => IsInjective(Append(s, e))
<1>1. /\ Append(s, e) \in Seq(S)
      /\ Len(Append(s, e)) = Len(s) + 1
      /\ \A i \in 1 .. Len(s) : Append(s, e)[i] = s[i]
      /\ Append(s, e)[Len(s) + 1] = e
  BY AppendProperties
<1>2. DOMAIN s = 1 .. Len(s) /\ DOMAIN Append(s, e) = 1 .. Len(s) + 1 /\ Len(s) \in Nat
  BY <1>1, LenProperties
<1>3. ToSet(Append(s, e)) = ToSet(s) \union {e}
  BY <1>1, <1>2 DEF ToSet
<1>4. IsInjective(s) /\ e \notin ToSet(s) => IsInjective(Append(s, e))
  BY <1>1, <1>2 DEF ToSet, IsInjective
<1> QED
  BY <1>1, <1>3, <1>4

(* Taking the first element away takes it away from the elements.          *)
LEMMA TailHolds ==
  ASSUME NEW S, NEW s \in Seq(S), s # <<>>
  PROVE  /\ Head(s) \in S
         /\ Tail(s) \in Seq(S)
         /\ ToSet(s) = ToSet(Tail(s)) \union {Head(s)}
         /\ IsInjective(s) => IsInjective(Tail(s)) /\ Head(s) \notin ToSet(Tail(s))
<1>1. /\ Head(s) = s[1] /\ Head(s) \in S
      /\ Tail(s) \in Seq(S)
      /\ Len(Tail(s)) = Len(s) - 1
      /\ \A i \in 1 .. Len(Tail(s)) : Tail(s)[i] = s[i + 1]
  BY HeadTailProperties
<1>2. /\ DOMAIN s = 1 .. Len(s)
      /\ DOMAIN Tail(s) = 1 .. Len(s) - 1
      /\ Len(s) \in Nat \ {0}
  BY <1>1, LenProperties, EmptySeq
<1>3. ToSet(s) = ToSet(Tail(s)) \union {Head(s)}
  <2>1. ASSUME NEW i \in DOMAIN s PROVE s[i] \in ToSet(Tail(s)) \union {Head(s)}
    <3>1. CASE i = 1
      BY <1>1, <3>1
    <3>2. CASE i # 1
      <4>1. i - 1 \in DOMAIN Tail(s) /\ i - 1 \in 1 .. Len(Tail(s)) /\ i - 1 + 1 = i
        BY <1>1, <1>2, <3>2
      <4>2. s[i] = Tail(s)[i - 1]
        BY <1>1, <4>1
      <4> QED
        BY <4>1, <4>2 DEF ToSet
    <3> QED
      BY <3>1, <3>2
  <2>2. ASSUME NEW i \in DOMAIN Tail(s) PROVE Tail(s)[i] \in ToSet(s)
    <3>1. Tail(s)[i] = s[i + 1] /\ i + 1 \in DOMAIN s
      BY <1>1, <1>2
    <3> QED
      BY <3>1 DEF ToSet
  <2>3. Head(s) \in ToSet(s)
    BY <1>1, <1>2 DEF ToSet
  <2> QED
    BY <2>1, <2>2, <2>3 DEF ToSet
<1>4. IsInjective(s) => IsInjective(Tail(s)) /\ Head(s) \notin ToSet(Tail(s))
  BY <1>1, <1>2 DEF ToSet, IsInjective
<1> QED
  BY <1>1, <1>3, <1>4

(* A back part of a sequence holds a part of the elements.                 *)
LEMMA BackHolds ==
  ASSUME NEW S, NEW s \in Seq(S), NEW cut \in 0 .. Len(s)
  PROVE  /\ SubSeq(s, cut + 1, Len(s)) \in Seq(S)
         /\ ToSet(SubSeq(s, cut + 1, Len(s))) \subseteq ToSet(s)
         /\ IsInjective(s) => IsInjective(SubSeq(s, cut + 1, Len(s)))
<1> DEFINE back == SubSeq(s, cut + 1, Len(s))
<1>1. Len(s) \in Nat /\ DOMAIN s = 1 .. Len(s)
  BY LenProperties
<1>2. \A i \in cut + 1 .. Len(s) : s[i] \in S
  BY <1>1, ElementOfSeq
<1>3. /\ back \in Seq(S)
      /\ Len(back) = IF cut + 1 <= Len(s) THEN Len(s) - (cut + 1) + 1 ELSE 0
      /\ \A i \in 1 .. Len(s) - (cut + 1) + 1 : back[i] = s[cut + 1 + i - 1]
  BY <1>1, <1>2, SubSeqProperties
<1> HIDE DEF back
<1>4. Len(back) = Len(s) - cut /\ DOMAIN back = 1 .. Len(s) - cut
  <2>1. ASSUME NEW n \in Nat, NEW k \in 0 .. n
        PROVE  (IF k + 1 <= n THEN n - (k + 1) + 1 ELSE 0) = n - k
    OBVIOUS
  <2>2. Len(back) = Len(s) - cut
    BY <1>1, <1>3, <2>1, Zenon
  <2> QED
    BY <2>2, <1>3, LenProperties
<1>5. \A i \in DOMAIN back : cut + i \in DOMAIN s /\ back[i] = s[cut + i]
  <2> TAKE i \in DOMAIN back
  <2>1. i \in 1 .. Len(s) - (cut + 1) + 1 /\ cut + 1 + i - 1 = cut + i
    BY <1>1, <1>4
  <2>2. back[i] = s[cut + 1 + i - 1]
    BY ONLY <1>3, <2>1
  <2> QED
    BY <1>1, <1>4, <2>1, <2>2
<1>6. ToSet(back) \subseteq ToSet(s)
  BY <1>5 DEF ToSet
<1>7. ASSUME IsInjective(s) PROVE IsInjective(back)
  <2>1. ASSUME NEW i \in DOMAIN back, NEW j \in DOMAIN back, back[i] = back[j]
        PROVE  i = j
    <3>1. s[cut + i] = s[cut + j] /\ cut + i \in DOMAIN s /\ cut + j \in DOMAIN s
      BY <1>5, <2>1
    <3>2. cut + i = cut + j
      BY <1>7, <3>1 DEF IsInjective
    <3> QED
      BY <3>2, <1>1, <1>4
  <2> QED
    BY <2>1 DEF IsInjective
<1> QED
  BY <1>3, <1>6, <1>7 DEF back

-----------------------------------------------------------------------------
(* The inductive invariant.  Beyond the types it says which goroutine may  *)
(* be in a flush and which of them hold lines, and that lines not yet read *)
(* have been nowhere: otherwise a line read could be in the buffer already,*)
(* and a flush could overwrite the lines another step of it has drained.   *)
HoldSteps == {"restore", "save", "fail", "rebuffer"}

FlushersInOrder ==
  /\ owner # "loop"
  /\ pc["sig"] \in FlushSteps => owner = "sig"
  /\ pc["main"] \in {"replay", "restore"} => pc["loop"] = "off" /\ pc["sig"] = "off"

HeldInOrder ==
  \A t \in Flushers : held[t] # <<>> <=> pc[t] \in HoldSteps /\ ended = "no"

UnreadInOrder ==
  \A l \in Lines : l >= next => fate[l] = "unread"

Shape == TypeOK /\ FlushersInOrder /\ HeldInOrder

Places == UnreadInOrder /\ Accounted /\ OnePlace

IInv == Shape /\ Places

-----------------------------------------------------------------------------
(* Where the lines are.                                                    *)

(* A step that moves no line and reads none keeps all lines in place.      *)
LEMMA NothingMoves ==
  ASSUME Places, UNCHANGED <<held, buf, next, fate>>
  PROVE  Places'
<1> QED
  BY DEF Places, UnreadInOrder, Accounted, LinesHeld, OnePlace

(* ReadAll: a goroutine that holds nothing takes the whole buffer.         *)
LEMMA BufferTaken ==
  ASSUME Places, TypeOK, NEW t \in Flushers, held[t] = <<>>,
         held' = [held EXCEPT ![t] = buf], buf' = <<>>, UNCHANGED <<next, fate>>
  PROVE  Places'
<1>1. UnreadInOrder'
  BY DEF Places, UnreadInOrder
<1>2. held'[t] = buf /\ \A u \in Flushers \ {t} : held'[u] = held[u]
  BY DEF TypeOK
<1>3. Accounted'
  BY <1>2, EmptyHoldsNothing DEF Places, Accounted, LinesHeld
<1>4. OnePlace'
  BY <1>2, EmptyHoldsNothing DEF Places, OnePlace
<1> QED
  BY <1>1, <1>3, <1>4 DEF Places

(* A batch is dealt with: its lines leave the goroutine that held them.    *)
LEMMA BatchSettled ==
  ASSUME Places, TypeOK, NEW t \in Flushers,
         held' = [held EXCEPT ![t] = <<>>], UNCHANGED <<buf, next>>,
         \A l \in Lines : IF l \in ToSet(held[t]) THEN fate'[l] # "live"
                                                  ELSE fate'[l] = fate[l]
  PROVE  Places'
<1>1. \A l \in ToSet(held[t]) : l \in Lines => fate[l] = "live"
  BY DEF Places, Accounted, LinesHeld
<1>2. UnreadInOrder'
  BY <1>1 DEF Places, UnreadInOrder
<1>3. held'[t] = <<>> /\ \A u \in Flushers \ {t} : held'[u] = held[u]
  BY DEF TypeOK
<1>4. Accounted'
  <2> SUFFICES ASSUME NEW l \in Lines
               PROVE  fate'[l] = "live" <=>
                        l \in ToSet(buf) \/ \E u \in Flushers : l \in ToSet(held'[u])
    BY DEF Accounted, LinesHeld
  <2>1. fate[l] = "live" <=> l \in ToSet(buf) \/ \E u \in Flushers : l \in ToSet(held[u])
    BY DEF Places, Accounted, LinesHeld
  <2>2. CASE l \in ToSet(held[t])
    <3>1. l \notin ToSet(buf) /\ \A u \in Flushers \ {t} : l \notin ToSet(held[u])
      BY <2>2 DEF Places, OnePlace
    <3> QED
      BY <2>2, <3>1, <1>3, EmptyHoldsNothing
  <2>3. CASE l \notin ToSet(held[t])
    BY <2>1, <2>3, <1>3, EmptyHoldsNothing
  <2> QED
    BY <2>2, <2>3
<1>5. OnePlace'
  BY <1>3, EmptyHoldsNothing DEF Places, OnePlace
<1> QED
  BY <1>2, <1>4, <1>5 DEF Places

(* The reader's line is written to the buffer, or dropped.                 *)
LEMMA LineRead ==
  ASSUME Places, TypeOK, next \in Lines, next' = next + 1, UNCHANGED held,
         \/ buf' = Append(buf, next) /\ Settle({next}, "live")
         \/ buf' = buf /\ Settle({next}, "dropped")
  PROVE  Places'
<1>1. next \notin ToSet(buf) /\ \A t \in Flushers : next \notin ToSet(held[t])
  <2>1. fate[next] = "unread"
    <3>1. next >= next
      BY SettingsAssumption DEF Lines
    <3> QED
      BY <3>1 DEF Places, UnreadInOrder
  <2> QED
    BY <2>1 DEF Places, Accounted, LinesHeld
<1>2. UnreadInOrder'
  <2> SUFFICES ASSUME NEW l \in Lines, l >= next + 1
               PROVE  fate'[l] = "unread"
    BY DEF UnreadInOrder
  <2>1. l >= next /\ l # next
    BY SettingsAssumption DEF Lines
  <2>2. fate[l] = "unread"
    BY <2>1 DEF Places, UnreadInOrder
  <2> QED
    BY <2>1, <2>2 DEF Settle
<1>3. CASE buf' = Append(buf, next) /\ Settle({next}, "live")
  <2>1. /\ ToSet(buf') = ToSet(buf) \union {next}
        /\ IsInjective(buf')
    BY <1>1, <1>3, AppendHolds DEF TypeOK, Places, OnePlace
  <2>2. Accounted'
    BY <2>1, <1>3 DEF Places, Accounted, LinesHeld, Settle
  <2>3. OnePlace'
    BY <2>1, <1>1 DEF Places, OnePlace
  <2> QED
    BY <2>2, <2>3, <1>2 DEF Places
<1>4. CASE buf' = buf /\ Settle({next}, "dropped")
  <2>1. Accounted'
    BY <1>1, <1>4 DEF Places, Accounted, LinesHeld, Settle
  <2>2. OnePlace'
    BY <1>4 DEF Places, OnePlace
  <2> QED
    BY <2>1, <2>2, <1>2 DEF Places
<1> QED
  BY <1>3, <1>4

(* The first line a goroutine holds is written back, or dropped.           *)
LEMMA LineWrittenBack ==
  ASSUME Places, TypeOK, NEW t \in Flushers, held[t] # <<>>,
         held' = [held EXCEPT ![t] = Tail(held[t])], UNCHANGED next,
         \/ buf' = Append(buf, Head(held[t])) /\ UNCHANGED fate
         \/ buf' = buf /\ Settle({Head(held[t])}, "dropped")
  PROVE  Places'
<1> DEFINE line == Head(held[t])
           rest == Tail(held[t])
<1>1. held[t] \in Seq(Lines) /\ IsInjective(held[t])
  BY DEF TypeOK, Places, OnePlace
<1>2. /\ line \in Lines
      /\ ToSet(held[t]) = ToSet(rest) \union {line}
      /\ IsInjective(rest)
      /\ line \notin ToSet(rest)
  BY <1>1, TailHolds
<1>3. held'[t] = rest /\ \A u \in Flushers \ {t} : held'[u] = held[u]
  BY DEF TypeOK
<1> HIDE DEF line, rest
<1>4. /\ line \notin ToSet(buf)
      /\ \A u \in Flushers \ {t} : line \notin ToSet(held[u])
  BY <1>2 DEF Places, OnePlace
<1>5. fate[line] = "live"
  BY <1>2 DEF Places, Accounted, LinesHeld
<1>6. UnreadInOrder'
  BY <1>2, <1>5 DEF Places, UnreadInOrder, Settle, line
<1>7. CASE buf' = Append(buf, line) /\ UNCHANGED fate
  <2>1. ToSet(buf') = ToSet(buf) \union {line} /\ IsInjective(buf')
    BY <1>2, <1>4, <1>7, AppendHolds, SMTT(30) DEF TypeOK, Places, OnePlace
  <2>2. Accounted'
    <3> SUFFICES ASSUME NEW l \in Lines
                 PROVE  fate[l] = "live" <=>
                          l \in ToSet(buf') \/ \E u \in Flushers : l \in ToSet(held'[u])
      BY <1>7 DEF Accounted, LinesHeld
    <3>1. fate[l] = "live" <=> l \in ToSet(buf) \/ \E u \in Flushers : l \in ToSet(held[u])
      BY DEF Places, Accounted, LinesHeld
    <3> QED
      BY <3>1, <2>1, <1>2, <1>3
  <2>3. OnePlace'
    BY <2>1, <1>2, <1>3, <1>4, ZenonT(40) DEF Places, OnePlace
  <2> QED
    BY <2>2, <2>3, <1>6 DEF Places
<1>8. CASE buf' = buf /\ Settle({line}, "dropped")
  <2>1. Accounted'
    <3> SUFFICES ASSUME NEW l \in Lines
                 PROVE  fate'[l] = "live" <=>
                          l \in ToSet(buf) \/ \E u \in Flushers : l \in ToSet(held'[u])
      BY <1>8 DEF Accounted, LinesHeld
    <3>1. fate[l] = "live" <=> l \in ToSet(buf) \/ \E u \in Flushers : l \in ToSet(held[u])
      BY DEF Places, Accounted, LinesHeld
    <3>2. CASE l = line
      <4>1. fate'[l] = "dropped"
        BY <1>8, <3>2 DEF Settle
      <4> QED
        BY <4>1, <3>2, <1>2, <1>3, <1>4
    <3>3. CASE l # line
      <4>1. fate'[l] = fate[l]
        BY <1>8, <3>3 DEF Settle
      <4> QED
        BY <4>1, <3>1, <3>3, <1>2, <1>3
    <3> QED
      BY <3>2, <3>3
  <2>2. OnePlace'
    BY <1>2, <1>3, <1>8 DEF Places, OnePlace
  <2> QED
    BY <2>1, <2>2, <1>6 DEF Places
<1> QED
  BY <1>7, <1>8 DEF line

(* The end of the process: what the goroutines hold is lost, and a front   *)
(* of the buffer.                                                          *)
LEMMA ProcessEnds ==
  ASSUME Places, TypeOK, NEW how, EndProcess(how)
  PROVE  Places' /\ buf' \in Seq(Lines)
<1>1. PICK cut \in 0 .. Len(buf) : buf' = SubSeq(buf, cut + 1, Len(buf))
  BY DEF EndProcess
<1>2. /\ buf' \in Seq(Lines)
      /\ ToSet(buf') \subseteq ToSet(buf)
      /\ IsInjective(buf')
  BY <1>1, BackHolds DEF TypeOK, Places, OnePlace
<1>3. /\ \A l \in Lines :
           fate'[l] = IF fate[l] = "live" /\ l \notin ToSet(buf') THEN "lost" ELSE fate[l]
      /\ \A t \in Flushers : held'[t] = <<>>
      /\ UNCHANGED next
  BY DEF EndProcess
<1>4. UnreadInOrder'
  BY <1>3 DEF Places, UnreadInOrder
<1>5. Accounted'
  BY <1>2, <1>3, EmptyHoldsNothing DEF Places, Accounted, LinesHeld
<1>6. OnePlace'
  BY <1>2, <1>3, EmptyHoldsNothing DEF OnePlace
<1> QED
  BY <1>2, <1>4, <1>5, <1>6 DEF Places

-----------------------------------------------------------------------------
(* The shape of the state.                                                 *)
DataOK ==
  /\ kept \in [Flushers -> SUBSET Lines]
  /\ buf \in Seq(Lines)
  /\ next \in 1 .. NumLines + 1
  /\ fate \in [Lines -> Fates]
  /\ notProcessed \subseteq Lines
  /\ streak \in 0 .. Threshold
  /\ rested \in BOOLEAN
  /\ faults \in 0 .. MaxFaults
  /\ restarts \in 0 .. MaxRestarts

(* A goroutine of a running process goes on to a step of its own.          *)
LEMMA GoroutineGoesOn ==
  ASSUME Shape, ended = "no", NEW t \in Flushers, NEW step \in Steps[t], Goto(t, step),
         t = "main" /\ step \in {"replay", "restore"} => pc["main"] = "replay",
         t # "main" => pc[t] # "off",
         t = "sig" /\ step \in FlushSteps => owner = "sig",
         UNCHANGED <<owner, ended>>,
         held' \in [Flushers -> Seq(Lines)],
         \A u \in Flushers \ {t} : held'[u] = held[u],
         held'[t] # <<>> <=> step \in HoldSteps,
         DataOK'
  PROVE  Shape'
<1>1. pc \in [Flushers -> UNION {Steps[u] : u \in Flushers}]
  BY DEF Shape, TypeOK
<1>2. pc' \in [Flushers -> UNION {Steps[u] : u \in Flushers}]
  BY <1>1 DEF Goto
<1>3. pc'[t] = step /\ \A u \in Flushers \ {t} : pc'[u] = pc[u]
  BY <1>1 DEF Goto
<1>4. \A u \in Flushers : pc'[u] \in Steps[u]
  BY <1>3 DEF Shape, TypeOK
<1>5. TypeOK'
  BY <1>2, <1>4 DEF Shape, TypeOK, DataOK
<1>6. FlushersInOrder'
  BY <1>3 DEF Shape, FlushersInOrder, Flushers
<1>7. HeldInOrder'
  BY <1>3 DEF Shape, HeldInOrder
<1> QED
  BY <1>5, <1>6, <1>7 DEF Shape

(* The same when no line moves to or from the goroutine.                   *)
LEMMA GoroutineMovesOn ==
  ASSUME Shape, ended = "no", NEW t \in Flushers, NEW step \in Steps[t], Goto(t, step),
         step \notin {"replay", "restore"},
         t # "main" => pc[t] # "off",
         t = "sig" /\ step \in FlushSteps => owner = "sig",
         pc[t] \in HoldSteps <=> step \in HoldSteps,
         UNCHANGED <<owner, ended, held>>,
         DataOK'
  PROVE  Shape'
<1>1. held' \in [Flushers -> Seq(Lines)]
  BY DEF Shape, TypeOK
<1>2. held'[t] # <<>> <=> step \in HoldSteps
  BY DEF Shape, HeldInOrder
<1> QED
  BY <1>1, <1>2, GoroutineGoesOn

(* A flush that returns goes on where its caller called it.                *)
LEMMA FlushReturns ==
  ASSUME Shape, NEW t \in Flushers, pc[t] \in FlushSteps, Resume(t)
  PROVE  \E step \in Steps[t] : Goto(t, step) /\ step \in {"close", "read", "sleep"}
<1>1. CASE owner = t
  <2>1. Goto(t, "close") /\ t # "loop"
    BY <1>1 DEF Resume, Shape, FlushersInOrder
  <2> QED
    BY <2>1 DEF Steps, Flushers
<1>2. CASE owner # t /\ t = "main"
  BY <1>2 DEF Resume, Steps
<1>3. CASE owner # t /\ t # "main"
  <2>1. Goto(t, "sleep") /\ t = "loop"
    BY <1>3 DEF Resume, Shape, FlushersInOrder, Flushers
  <2> QED
    BY <2>1 DEF Steps
<1> QED
  BY <1>1, <1>2, <1>3

(* What a filter or a fate does to the types: nothing.                     *)
LEMMA SelectionsTyped ==
  ASSUME NEW q \in Seq(Lines), NEW entries \in Selections(q)
  PROVE  entries \subseteq Lines
<1> QED
  BY ElementsTyped DEF Selections

LEMMA FatesTyped ==
  ASSUME fate \in [Lines -> Fates], NEW f \in Fates
  PROVE  /\ \A ls : Settle(ls, f) => fate' \in [Lines -> Fates]
         /\ \A q, entries : SettleBatch(q, entries, f) => fate' \in [Lines -> Fates]
<1> QED
  BY DEF Settle, SettleBatch, Fates

(* The steps at startup keep the shape.                                    *)
LEMMA StartupKeepsShape ==
  ASSUME IInv, ended = "no", Replay \/ ReplayFails \/ Restore
  PROVE  Shape'
<1> USE DEF IInv
<1>1. TypeOK /\ DataOK /\ pc["loop"] = "off" /\ pc["sig"] = "off"
  BY DEF Shape, TypeOK, DataOK, FlushersInOrder, Replay, ReplayFails, Restore
<1>2. ASSUME Launch, UNCHANGED <<owner, ended>>, DataOK',
             \A u \in Flushers : held'[u] = <<>>, held' \in [Flushers -> Seq(Lines)]
      PROVE  Shape'
  <2>1. /\ pc' \in [Flushers -> UNION {Steps[u] : u \in Flushers}]
        /\ \A u \in Flushers : pc'[u] \in Steps[u]
        /\ pc'["main"] = "read" /\ pc'["loop"] = "sleep" /\ pc'["sig"] = "wait"
    BY <1>2 DEF Launch, Launched, Flushers, Steps
  <2>2. TypeOK'
    BY <1>1, <1>2, <2>1 DEF TypeOK, DataOK
  <2>3. FlushersInOrder'
    BY <1>2, <2>1 DEF Shape, FlushersInOrder, FlushSteps
  <2>4. HeldInOrder'
    BY <1>2, <2>1 DEF HeldInOrder, HoldSteps, Flushers
  <2> QED
    BY <2>2, <2>3, <2>4 DEF Shape
<1>3. CASE Replay
  <2>1. CASE buf = <<>>
    <3>1. \A u \in Flushers : held[u] = <<>>
      BY <1>1, <1>3 DEF Replay, Shape, HeldInOrder, HoldSteps, Flushers
    <3>2. Launch /\ UNCHANGED <<owner, ended, held>> /\ DataOK'
      BY <1>1, <1>3, <2>1 DEF Replay, DataOK, breakerVars, processVars
    <3> QED
      BY <1>1, <1>2, <3>1, <3>2 DEF TypeOK
  <2>2. CASE buf # <<>>
    <3>1. PICK entries \in Selections(buf) : Hold("main", buf, entries)
      BY <1>3, <2>2 DEF Replay
    <3>2. entries \subseteq Lines
      BY <1>1, SelectionsTyped DEF DataOK
    <3>3. /\ held' \in [Flushers -> Seq(Lines)]
          /\ held'["main"] = buf
          /\ \A u \in Flushers \ {"main"} : held'[u] = held[u]
      BY <1>1, <3>1 DEF Hold, TypeOK, Flushers
    <3>4. Goto("main", "restore") /\ Emptied /\ pc["main"] = "replay"
          /\ UNCHANGED <<owner, ended, next, fate, notProcessed, streak, rested, faults, restarts>>
      BY <1>3, <2>2 DEF Replay, breakerVars, processVars
    <3>5. kept' \in [Flushers -> SUBSET Lines] /\ buf' \in Seq(Lines)
      BY <1>1, <3>1, <3>2, <3>4, EmptySeq DEF DataOK, Hold, Emptied
    <3>7. DataOK'
      BY <1>1, <3>4, <3>5 DEF DataOK
    <3>6. "main" \in Flushers /\ "restore" \in Steps["main"] /\ "restore" \in HoldSteps
      BY DEF Flushers, Steps, HoldSteps
    <3> QED
      BY <2>2, <3>3, <3>4, <3>6, <3>7, GoroutineGoesOn
  <2> QED
    BY <2>1, <2>2
<1>4. CASE ReplayFails
  <2>1. \A u \in Flushers : held[u] = <<>>
    BY <1>1, <1>4 DEF ReplayFails, Shape, HeldInOrder, HoldSteps, Flushers
  <2>2. Launch /\ UNCHANGED <<owner, ended, held>>
    BY <1>4 DEF ReplayFails
  <2>3. DataOK'
    BY <1>1, <1>4, SettingsAssumption
       DEF ReplayFails, DataOK, breakerVars, ReadFails, FileFault, Fault
  <2> QED
    BY <1>1, <1>2, <2>1, <2>2, <2>3 DEF TypeOK
<1>5. CASE Restore
  <2>1. held' \in [Flushers -> Seq(Lines)] /\ \A u \in Flushers : held'[u] = <<>>
    <3>1. \A u \in Flushers \ {"main"} : held[u] = <<>>
      BY <1>1 DEF Shape, HeldInOrder, HoldSteps, Flushers
    <3>2. held' = [held EXCEPT !["main"] = <<>>]
      BY <1>5 DEF Restore, Hold
    <3>3. <<>> \in Seq(Lines)
      BY EmptySeq
    <3> QED
      BY <1>1, <3>1, <3>2, <3>3 DEF TypeOK
  <2>2. Launch /\ UNCHANGED <<owner, ended>>
    BY <1>5 DEF Restore
  <2>3. fate' \in [Lines -> Fates]
    BY <1>1, <1>5, FatesTyped DEF Restore, DataOK, Fates
  <2>4. kept' \in [Flushers -> SUBSET Lines]
    BY <1>1, <1>5 DEF Restore, DataOK, Hold
  <2>5. faults' \in 0 .. MaxFaults
    BY <1>1, <1>5, SettingsAssumption DEF Restore, DataOK, Fault
  <2>6. DataOK'
    BY <1>1, <1>5, <2>3, <2>4, <2>5 DEF Restore, DataOK, breakerVars
  <2> QED
    BY <1>2, <2>1, <2>2, <2>6
<1> QED
  BY <1>3, <1>4, <1>5

(* A step that moves neither goroutines nor lines they hold.               *)
LEMMA NobodyMoves ==
  ASSUME Shape, UNCHANGED <<pc, held, owner, ended>>, DataOK'
  PROVE  Shape'
<1> QED
  BY DEF Shape, TypeOK, DataOK, FlushersInOrder, HeldInOrder

(* The steps of the reader and the timer keep the shape.                   *)
LEMMA ReaderKeepsShape ==
  ASSUME IInv, ended = "no", Receive \/ Check \/ EndOfInput \/ Wake
  PROVE  Shape'
<1> USE DEF IInv
<1>1. TypeOK /\ DataOK /\ Shape
  BY DEF Shape, TypeOK, DataOK
<1>2. /\ {"main", "loop"} \subseteq Flushers
      /\ {"check", "allow", "read", "once"} \subseteq Steps["main"]
      /\ "allow" \in Steps["loop"]
  BY DEF Flushers, Steps, FlushSteps
<1>3. \A step \in {"check", "allow", "read", "once", "sleep"} :
        step \notin HoldSteps /\ step \notin {"replay", "restore"}
  BY DEF HoldSteps
<1>4. CASE Receive
  <2>1. /\ next \in Lines /\ next' = next + 1
        /\ UNCHANGED <<held, kept, streak, rested, owner, ended, restarts>>
    BY <1>1, <1>4, SettingsAssumption DEF Receive, breakerVars, DataOK, Lines
  <2>2. next' \in 1 .. NumLines + 1
    BY <2>1, SettingsAssumption DEF Lines
  <2>3. CASE Accept
    <3>1. buf' \in Seq(Lines)
      BY <1>1, <2>1, <2>3, AppendHolds DEF Accept, DataOK
    <3>2. fate' \in [Lines -> Fates]
      BY <1>1, <2>3, FatesTyped DEF Accept, DataOK, Fates
    <3>3. DataOK'
      BY <1>1, <2>1, <2>2, <2>3, <3>1, <3>2 DEF Accept, DataOK
    <3>4. Goto("main", "check") /\ pc["main"] = "read"
      BY <1>4, <2>3 DEF Accept, Receive
    <3> QED
      BY <1>1, <1>2, <1>3, <2>1, <3>3, <3>4, GoroutineMovesOn
  <2>4. CASE Reject
    <3>1. fate' \in [Lines -> Fates]
      BY <1>1, <2>4, FatesTyped DEF Reject, DataOK, Fates
    <3>2. notProcessed' \subseteq Lines
      BY <1>1, <2>1, <2>4 DEF Reject, DataOK, Count
    <3>3. faults' \in 0 .. MaxFaults
      BY <1>1, <2>4, SettingsAssumption DEF Reject, DataOK, FileFault, Fault
    <3>4. DataOK'
      BY <1>1, <2>1, <2>2, <2>4, <3>1, <3>2, <3>3 DEF Reject, DataOK
    <3> QED
      BY <1>1, <2>1, <2>4, <3>4, NobodyMoves DEF Reject
  <2> QED
    BY <1>4, <2>3, <2>4 DEF Receive
<1>5. ASSUME UNCHANGED <<flushVars, breakerVars, processVars>> PROVE DataOK'
  BY <1>1, <1>5 DEF DataOK, flushVars, breakerVars, processVars
<1>6. CASE Check
  <2>1. PICK step \in {"allow", "read"} : Goto("main", step)
    BY <1>6 DEF Check
  <2>2. pc["main"] = "check" /\ UNCHANGED <<held, owner, ended>>
    BY <1>6 DEF Check, flushVars, processVars
  <2>3. DataOK'
    BY <1>5, <1>6 DEF Check
  <2> QED
    BY <1>1, <1>2, <1>3, <2>1, <2>2, <2>3, GoroutineMovesOn
<1>7. CASE EndOfInput
  <2>1. pc["main"] = "read" /\ Goto("main", "once") /\ UNCHANGED <<held, owner, ended>>
    BY <1>7 DEF EndOfInput, flushVars, processVars
  <2>2. DataOK'
    BY <1>5, <1>7 DEF EndOfInput
  <2> QED
    BY <1>1, <1>2, <1>3, <2>1, <2>2, GoroutineMovesOn
<1>8. CASE Wake
  <2>1. pc["loop"] = "sleep" /\ Goto("loop", "allow") /\ UNCHANGED <<held, owner, ended>>
    BY <1>8 DEF Wake, flushVars, processVars
  <2>2. DataOK'
    BY <1>5, <1>8 DEF Wake
  <2> QED
    BY <1>1, <1>2, <1>3, <2>1, <2>2, GoroutineMovesOn
<1> QED
  BY <1>4, <1>6, <1>7, <1>8

(* Shutdown, the end of the process and its restart keep the shape.        *)
LEMMA ProcessKeepsShape ==
  ASSUME IInv,
         \/ Restart \/ Ended \/ CoolDown
         \/ ended = "no" /\ (SignalArrives \/ Crash)
         \/ ended = "no" /\ \E t \in Flushers : Shutdown(t) \/ Exit(t)
  PROVE  Shape'
<1> USE DEF IInv
<1>1. TypeOK /\ DataOK /\ Shape /\ Places
  BY DEF Shape, TypeOK, DataOK
<1>2. CASE Restart
  <2>1. \A u \in Flushers : held[u] = <<>> /\ held'[u] = <<>>
    BY <1>1, <1>2 DEF Restart, Shape, HeldInOrder, flushVars
  <2>2. /\ pc' \in [Flushers -> UNION {Steps[u] : u \in Flushers}]
        /\ \A u \in Flushers : pc'[u] \in Steps[u]
        /\ pc'["main"] = "replay" /\ pc'["loop"] = "off" /\ pc'["sig"] = "off"
    BY <1>2 DEF Restart, Launching, Flushers, Steps
  <2>3. DataOK'
    <3>1. streak' \in 0 .. Threshold /\ rested' \in BOOLEAN
      <4>1. streak' = 0 /\ rested' = FALSE
        BY <1>2, Zenon DEF Restart
      <4>2. 0 \in 0 .. Threshold
        BY SettingsAssumption
      <4> QED
        BY <4>1, <4>2
    <3>2. restarts' \in 0 .. MaxRestarts
      BY <1>1, <1>2, SettingsAssumption DEF Restart, DataOK
    <3>3. UNCHANGED <<flushVars, faults>>
      BY <1>2 DEF Restart
    <3> QED
      BY <1>1, <3>1, <3>2, <3>3 DEF DataOK, flushVars
  <2>4. TypeOK'
    BY <1>1, <1>2, <2>2, <2>3 DEF Restart, TypeOK, DataOK, flushVars
  <2>5. FlushersInOrder'
    BY <1>2, <2>2 DEF Restart, FlushersInOrder, FlushSteps
  <2>6. HeldInOrder'
    BY <2>1, <2>2 DEF HeldInOrder, HoldSteps, Flushers
  <2> QED
    BY <2>4, <2>5, <2>6 DEF Shape
<1>3. CASE Ended
  BY <1>1, <1>3, NobodyMoves DEF Ended, vars, flushVars, breakerVars, processVars, DataOK
<1>4. CASE CoolDown
  <2>1. DataOK'
    BY <1>1, <1>4 DEF CoolDown, CB!Rest, DataOK, flushVars, processVars
  <2> QED
    BY <1>1, <1>4, <2>1, NobodyMoves DEF CoolDown, flushVars, processVars
<1>5. ASSUME ended = "no", SignalArrives PROVE Shape'
  <2>1. pc["sig"] = "wait" /\ Goto("sig", "once") /\ UNCHANGED <<held, owner, ended>>
    BY <1>5 DEF SignalArrives, flushVars, processVars
  <2>2. DataOK'
    BY <1>1, <1>5 DEF SignalArrives, DataOK, flushVars, breakerVars, processVars
  <2>3. /\ "sig" \in Flushers /\ "once" \in Steps["sig"]
        /\ {"once", "wait"} \intersect HoldSteps = {} /\ "once" \notin FlushSteps
    BY DEF Flushers, Steps, HoldSteps, FlushSteps
  <2> QED
    BY <1>1, <1>5, <2>1, <2>2, <2>3, GoroutineMovesOn
<1>6. ASSUME NEW how \in {"exit", "crash"}, EndProcess(how) PROVE Shape'
  <2>1. /\ ended' = how
        /\ \A u \in Flushers : held'[u] = <<>>
        /\ held' \in [Flushers -> Seq(Lines)]
        /\ UNCHANGED <<pc, owner>>
    BY <1>6, EmptySeq DEF EndProcess
  <2>2. buf' \in Seq(Lines)
    BY <1>1, <1>6, ProcessEnds
  <2>3. kept' \in [Flushers -> SUBSET Lines] /\ fate' \in [Lines -> Fates]
    BY <1>1, <1>6 DEF EndProcess, DataOK, Fates
  <2>4. DataOK'
    BY <1>1, <1>6, <2>2, <2>3 DEF EndProcess, DataOK, breakerVars
  <2>5. TypeOK'
    BY <1>1, <2>1, <2>4 DEF TypeOK, DataOK
  <2>6. FlushersInOrder' /\ HeldInOrder'
    BY <1>1, <2>1 DEF Shape, FlushersInOrder, HeldInOrder
  <2> QED
    BY <2>5, <2>6 DEF Shape
<1>7. ASSUME ended = "no", NEW t \in Flushers, Shutdown(t) PROVE Shape'
  <2>1. /\ pc[t] = "once" /\ Goto(t, "allow") /\ owner' = t
        /\ UNCHANGED <<flushVars, breakerVars, ended, faults, restarts>>
    BY <1>7 DEF Shutdown
  <2>2. t # "loop"
    <3>1. "once" \notin Steps["loop"]
      BY DEF Steps, FlushSteps
    <3> QED
      BY <1>1, <2>1, <3>1 DEF TypeOK
  <2>3. /\ pc' \in [Flushers -> UNION {Steps[u] : u \in Flushers}]
        /\ pc'[t] = "allow" /\ \A u \in Flushers \ {t} : pc'[u] = pc[u]
        /\ "allow" \in Steps[t]
    BY <1>1, <2>1 DEF Goto, TypeOK, Steps, FlushSteps, Flushers
  <2>4. DataOK'
    BY <1>1, <2>1 DEF DataOK, flushVars, breakerVars
  <2>5. TypeOK'
    BY <1>1, <1>7, <2>1, <2>3, <2>4 DEF TypeOK, DataOK, flushVars
  <2>6. FlushersInOrder'
    BY <1>1, <1>7, <2>1, <2>2, <2>3 DEF Shutdown, Shape, FlushersInOrder, Flushers
  <2>7. HeldInOrder'
    BY <1>1, <2>1, <2>3 DEF Shape, HeldInOrder, HoldSteps, flushVars
  <2> QED
    BY <2>5, <2>6, <2>7 DEF Shape
<1> QED
  BY <1>2, <1>3, <1>4, <1>5, <1>6, <1>7 DEF Crash, Exit

(* A flush keeps the shape: it holds lines from the moment it has drained  *)
(* the buffer until they are saved or all written back.                    *)
LEMMA FlushKeepsShape ==
  ASSUME IInv, ended = "no", NEW t \in Flushers, Flush(t)
  PROVE  Shape'
<1> USE DEF IInv
<1>1. TypeOK /\ DataOK /\ Shape
  BY DEF Shape, TypeOK, DataOK
<1>2. /\ pc[t] \in FlushSteps
      /\ UNCHANGED <<owner, ended>>
  BY DEF Flush, Allow, Refuse, Drain, DrainFails, SaveSucceeds, SaveFails, RecordSuccess,
         RecordFailure, Rebuffer, FlushSteps, processVars
<1>3. FlushSteps \subseteq Steps[t]
  BY DEF Steps, Flushers
<1>4. \A step \in FlushSteps : step \notin {"off", "replay", "restore"}
  BY DEF FlushSteps
<1>5. t = "sig" => owner = "sig"
  BY <1>1, <1>2 DEF Shape, FlushersInOrder
<1>6. ASSUME UNCHANGED <<flushVars, breakerVars, processVars>> PROVE DataOK'
  BY <1>1, <1>6 DEF DataOK, flushVars, breakerVars, processVars
<1>7. ASSUME NEW step \in FlushSteps, Goto(t, step), UNCHANGED held, DataOK',
             pc[t] \in HoldSteps <=> step \in HoldSteps
      PROVE  Shape'
  BY <1>1, <1>2, <1>3, <1>4, <1>5, <1>7, GoroutineMovesOn
<1>8. ASSUME Resume(t), UNCHANGED held, DataOK', pc[t] \notin HoldSteps
      PROVE  Shape'
  <2>1. PICK step \in Steps[t] : Goto(t, step) /\ step \in {"close", "read", "sleep"}
    BY <1>1, <1>2, <1>8, FlushReturns
  <2>2. step \notin HoldSteps /\ step \notin FlushSteps /\ step \notin {"replay", "restore"}
    BY <2>1 DEF HoldSteps, FlushSteps
  <2> QED
    BY <1>1, <1>2, <1>4, <1>8, <2>1, <2>2, GoroutineMovesOn
<1>9. ASSUME NEW lines \in Seq(Lines), NEW entries \in SUBSET Lines, Hold(t, lines, entries)
      PROVE  /\ held' \in [Flushers -> Seq(Lines)]
             /\ held'[t] = lines
             /\ \A u \in Flushers \ {t} : held'[u] = held[u]
             /\ kept' \in [Flushers -> SUBSET Lines]
  BY <1>1, <1>9 DEF Hold, TypeOK
<1>10. <<>> \in Seq(Lines)
  BY EmptySeq
<1>11. CASE Allow(t)
  <2>1. pc[t] = "allow" /\ Goto(t, "drain") /\ UNCHANGED held /\ DataOK'
    BY <1>6, <1>11 DEF Allow, flushVars
  <2> QED
    BY <1>7, <2>1 DEF HoldSteps, FlushSteps
<1>12. CASE Refuse(t)
  <2>1. pc[t] = "allow" /\ Resume(t) /\ UNCHANGED held /\ DataOK'
    BY <1>6, <1>12 DEF Refuse, flushVars
  <2> QED
    BY <1>8, <2>1 DEF HoldSteps
<1>13. CASE Drain(t)
  <2>1. /\ pc[t] = "drain" /\ buf' = <<>>
        /\ UNCHANGED <<next, notProcessed, streak, rested, faults, restarts>>
    BY <1>13 DEF Drain, Emptied, breakerVars, processVars
  <2>2. CASE Resume(t) /\ UNCHANGED <<held, kept, fate>>
    <3>1. DataOK'
      BY <1>1, <1>10, <2>1, <2>2 DEF DataOK
    <3> QED
      BY <1>8, <2>1, <2>2, <3>1 DEF HoldSteps
  <2>3. CASE Resume(t) /\ UNCHANGED <<held, kept>> /\ SettleBatch(buf, {}, "stored")
    <3>1. fate' \in [Lines -> Fates]
      BY <1>1, <2>3, FatesTyped DEF DataOK, Fates
    <3>2. DataOK'
      BY <1>1, <1>10, <2>1, <2>3, <3>1 DEF DataOK
    <3> QED
      BY <1>8, <2>1, <2>3, <3>2 DEF HoldSteps
  <2>4. ASSUME NEW entries \in Selections(buf), Hold(t, buf, entries), buf # <<>>,
               Goto(t, "save"), UNCHANGED fate
        PROVE  Shape'
    <3>1. buf \in Seq(Lines) /\ entries \in SUBSET Lines
      BY <1>1, SelectionsTyped DEF DataOK
    <3>2. /\ held' \in [Flushers -> Seq(Lines)]
          /\ held'[t] = buf
          /\ \A u \in Flushers \ {t} : held'[u] = held[u]
          /\ kept' \in [Flushers -> SUBSET Lines]
      BY <1>9, <2>4, <3>1
    <3>3. DataOK'
      BY <1>1, <1>10, <2>1, <2>4, <3>2 DEF DataOK
    <3>4. "save" \in FlushSteps /\ "save" \in HoldSteps
      BY DEF FlushSteps, HoldSteps
    <3> QED
      BY <1>1, <1>2, <1>3, <1>4, <1>5, <2>4, <3>2, <3>3, <3>4, GoroutineGoesOn
  <2>5. buf = <<>> => Selections(buf) \subseteq {{}}
    BY EmptyHoldsNothing DEF Selections
  <2> QED
    BY <1>13, <2>2, <2>3, <2>4, <2>5 DEF Drain
<1>14. CASE DrainFails(t)
  <2>1. /\ pc[t] = "drain" /\ Resume(t)
        /\ UNCHANGED <<held, kept, buf, next, fate, notProcessed, streak, rested, restarts>>
    BY <1>14 DEF DrainFails, ReadFails, breakerVars
  <2>2. faults' \in 0 .. MaxFaults
    BY <1>1, <1>14, SettingsAssumption DEF DrainFails, ReadFails, FileFault, Fault, DataOK
  <2>3. DataOK'
    BY <1>1, <2>1, <2>2 DEF DataOK
  <2> QED
    BY <1>8, <2>1, <2>3 DEF HoldSteps
<1>15. CASE SaveSucceeds(t)
  <2>1. /\ Hold(t, <<>>, {}) /\ Goto(t, "succeed")
        /\ SettleBatch(held[t], kept[t], "stored")
        /\ UNCHANGED <<buf, next, notProcessed, streak, rested, faults, restarts>>
    BY <1>15 DEF SaveSucceeds, breakerVars, processVars
  <2>2. /\ held' \in [Flushers -> Seq(Lines)]
        /\ held'[t] = <<>>
        /\ \A u \in Flushers \ {t} : held'[u] = held[u]
        /\ kept' \in [Flushers -> SUBSET Lines]
    BY <1>9, <1>10, <2>1
  <2>3. fate' \in [Lines -> Fates]
    BY <1>1, <2>1, FatesTyped DEF DataOK, Fates
  <2>4. DataOK'
    BY <1>1, <2>1, <2>2, <2>3 DEF DataOK
  <2>5. "succeed" \in FlushSteps /\ "succeed" \notin HoldSteps
    BY DEF FlushSteps, HoldSteps
  <2> QED
    BY <1>1, <1>2, <1>3, <1>4, <1>5, <2>1, <2>2, <2>4, <2>5, GoroutineGoesOn
<1>16. CASE SaveFails(t)
  <2>1. /\ pc[t] = "save" /\ Goto(t, "fail")
        /\ UNCHANGED <<held, kept, buf, next, fate, streak, rested, restarts>>
    BY <1>16 DEF SaveFails, breakerVars
  <2>2. notProcessed' \subseteq Lines
    BY <1>1, <1>16 DEF SaveFails, Count, DataOK
  <2>3. faults' \in 0 .. MaxFaults
    BY <1>1, <1>16, SettingsAssumption DEF SaveFails, Fault, DataOK
  <2>4. DataOK'
    BY <1>1, <2>1, <2>2, <2>3 DEF DataOK
  <2> QED
    BY <1>7, <2>1, <2>4 DEF HoldSteps, FlushSteps
<1>17. streak \in 0 .. Threshold /\ rested \in BOOLEAN
  BY <1>1 DEF DataOK
<1>18. CASE RecordSuccess(t)
  <2>1. pc[t] = "succeed" /\ Resume(t) /\ UNCHANGED <<flushVars, faults, restarts>>
    BY <1>18 DEF RecordSuccess, processVars
  <2>2. (streak' = 0 /\ rested' = FALSE) \/ UNCHANGED <<streak, rested>>
    BY <1>18, Zenon DEF RecordSuccess, CB!Succeed, breakerVars
  <2>3. 0 \in 0 .. Threshold
    BY SettingsAssumption
  <2>4. streak' \in 0 .. Threshold /\ rested' \in BOOLEAN
    BY <1>17, <2>2, <2>3
  <2>5. DataOK'
    BY <1>1, <2>1, <2>4 DEF DataOK, flushVars
  <2> QED
    BY <1>8, <2>1, <2>5 DEF HoldSteps, flushVars
<1>19. CASE RecordFailure(t)
  <2>1. pc[t] = "fail" /\ Goto(t, "rebuffer") /\ UNCHANGED <<flushVars, faults, restarts>>
    BY <1>19 DEF RecordFailure, processVars
  <2>2. \/ /\ streak' = IF streak = Threshold THEN Threshold ELSE streak + 1
           /\ rested' = FALSE
        \/ UNCHANGED <<streak, rested>>
    BY <1>19, Zenon DEF RecordFailure, CB!Fail, CB!Tripped, breakerVars
  <2>3. streak' \in 0 .. Threshold
    BY <1>17, <2>2, SettingsAssumption
  <2>4. rested' \in BOOLEAN
    BY <1>17, <2>2, Zenon
  <2>5. DataOK'
    BY <1>1, <2>1, <2>3, <2>4 DEF DataOK, flushVars
  <2> QED
    BY <1>7, <2>1, <2>5 DEF HoldSteps, FlushSteps, flushVars
<1>20. CASE Rebuffer(t)
  <2>1. held[t] \in Seq(Lines) /\ held[t] # <<>> /\ pc[t] = "rebuffer"
    BY <1>1, <1>20 DEF Rebuffer, Shape, HeldInOrder, HoldSteps, TypeOK
  <2> DEFINE line == Head(held[t])
             rest == Tail(held[t])
  <2>2. line \in Lines /\ rest \in Seq(Lines)
    BY <2>1, TailHolds
  <2>3. UNCHANGED <<next, notProcessed, streak, rested, restarts>>
    BY <1>20 DEF Rebuffer, breakerVars
  <2>4. buf' \in Seq(Lines)
    <3>1. buf' = Append(buf, line) \/ buf' = buf
      BY <1>20 DEF Rebuffer
    <3> QED
      BY <1>1, <2>2, <3>1, AppendHolds DEF DataOK
  <2>5. fate' \in [Lines -> Fates]
    <3>1. UNCHANGED fate \/ Settle({line}, "dropped")
      BY <1>20 DEF Rebuffer
    <3> QED
      BY <1>1, <3>1, FatesTyped DEF DataOK, Fates
  <2>6. faults' \in 0 .. MaxFaults
    BY <1>1, <1>20, SettingsAssumption DEF Rebuffer, FileFault, Fault, DataOK
  <2>7. CASE rest = <<>> /\ Hold(t, <<>>, {}) /\ Resume(t)
    <3>1. /\ held' \in [Flushers -> Seq(Lines)]
          /\ held'[t] = <<>>
          /\ \A u \in Flushers \ {t} : held'[u] = held[u]
          /\ kept' \in [Flushers -> SUBSET Lines]
      BY <1>9, <1>10, <2>7
    <3>2. DataOK'
      BY <1>1, <2>3, <2>4, <2>5, <2>6, <3>1 DEF DataOK
    <3>3. PICK step \in Steps[t] : Goto(t, step) /\ step \in {"close", "read", "sleep"}
      BY <1>1, <1>2, <2>7, FlushReturns
    <3>4. step \notin HoldSteps /\ step \notin FlushSteps /\ step \notin {"replay", "restore"}
      BY <3>3 DEF HoldSteps, FlushSteps
    <3> QED
      BY <1>1, <1>2, <1>4, <3>1, <3>2, <3>3, <3>4, GoroutineGoesOn
  <2>8. CASE rest # <<>> /\ Hold(t, rest, kept[t]) /\ UNCHANGED pc
    <3>1. kept[t] \in SUBSET Lines
      BY <1>1 DEF DataOK
    <3>2. /\ held' \in [Flushers -> Seq(Lines)]
          /\ held'[t] = rest
          /\ \A u \in Flushers \ {t} : held'[u] = held[u]
          /\ kept' \in [Flushers -> SUBSET Lines]
      BY <1>9, <2>2, <2>8, <3>1
    <3>3. DataOK'
      BY <1>1, <2>3, <2>4, <2>5, <2>6, <3>2 DEF DataOK
    <3>4. Goto(t, "rebuffer")
      BY <1>1, <2>1, <2>8 DEF Goto, TypeOK
    <3>5. "rebuffer" \in FlushSteps /\ "rebuffer" \in HoldSteps
      BY DEF FlushSteps, HoldSteps
    <3> QED
      BY <1>1, <1>2, <1>3, <1>4, <1>5, <2>8, <3>2, <3>3, <3>4, <3>5, GoroutineGoesOn
  <2> QED
    BY <1>20, <2>7, <2>8 DEF Rebuffer, RestToRebuffer
<1> QED
  BY <1>11, <1>12, <1>13, <1>14, <1>15, <1>16, <1>18, <1>19, <1>20 DEF Flush

-----------------------------------------------------------------------------
(* Every step keeps the lines in place.                                    *)

(* A whole buffer without an entry is done with: flush returns.            *)
LEMMA BufferDiscarded ==
  ASSUME Places, buf \in Seq(Lines), SettleBatch(buf, {}, "stored"), buf' = <<>>,
         UNCHANGED <<held, next>>
  PROVE  Places'
<1>1. \A l \in Lines : IF l \in ToSet(buf) THEN fate'[l] = "discarded"
                                           ELSE fate'[l] = fate[l]
  BY DEF SettleBatch
<1>2. \A l \in Lines : l \in ToSet(buf) => fate[l] = "live" /\ l \notin LinesHeld
  BY DEF Places, Accounted, OnePlace, LinesHeld
<1>3. UnreadInOrder'
  BY <1>1, <1>2 DEF Places, UnreadInOrder
<1>4. LinesHeld' = LinesHeld
  BY DEF LinesHeld
<1>5. Accounted'
  BY <1>1, <1>2, <1>4, EmptyHoldsNothing DEF Places, Accounted
<1>6. OnePlace'
  BY EmptyHoldsNothing DEF Places, OnePlace
<1> QED
  BY <1>3, <1>5, <1>6 DEF Places

(* A saved batch, and a recovered one that could not be saved, is settled. *)
LEMMA BatchLeaves ==
  ASSUME Places, TypeOK, NEW t \in Flushers, NEW f \in Fates \ {"live"},
         SettleBatch(held[t], kept[t], f), Hold(t, <<>>, {}), UNCHANGED <<buf, next>>
  PROVE  Places'
<1>1. \A l \in Lines : IF l \in ToSet(held[t]) THEN fate'[l] # "live"
                                               ELSE fate'[l] = fate[l]
  BY DEF SettleBatch
<1>2. held' = [held EXCEPT ![t] = <<>>]
  BY DEF Hold
<1> QED
  BY <1>1, <1>2, BatchSettled

LEMMA MainKeepsPlaces ==
  ASSUME IInv, ended = "no", Main
  PROVE  Places'
<1> USE DEF IInv
<1>1. TypeOK /\ Places
  BY DEF Shape
<1>2. CASE Replay
  <2>1. CASE buf = <<>>
    BY <1>1, <1>2, <2>1, NothingMoves DEF Replay
  <2>2. CASE buf # <<>>
    <3>1. held' = [held EXCEPT !["main"] = buf] /\ buf' = <<>> /\ UNCHANGED <<next, fate>>
      BY <1>2, <2>2 DEF Replay, Hold, Emptied
    <3>2. "main" \in Flushers /\ held["main"] = <<>>
      BY <1>2 DEF Replay, Shape, HeldInOrder, HoldSteps, Flushers
    <3> QED
      BY <1>1, <3>1, <3>2, BufferTaken
  <2> QED
    BY <2>1, <2>2
<1>3. CASE ReplayFails
  BY <1>1, <1>3, NothingMoves DEF ReplayFails, ReadFails
<1>4. CASE Restore
  <2>1. \E f \in Fates \ {"live"} : SettleBatch(held["main"], kept["main"], f)
    BY <1>4 DEF Restore, Fates
  <2>2. "main" \in Flushers /\ Hold("main", <<>>, {}) /\ UNCHANGED <<buf, next>>
    BY <1>4 DEF Restore, Flushers
  <2> QED
    BY <1>1, <2>1, <2>2, BatchLeaves
<1>5. CASE Receive
  <2>1. next \in Lines /\ next' = next + 1 /\ UNCHANGED held
    BY <1>1, <1>5, SettingsAssumption DEF Receive, TypeOK, Lines
  <2>2. \/ buf' = Append(buf, next) /\ Settle({next}, "live")
        \/ buf' = buf /\ Settle({next}, "dropped")
    BY <1>5 DEF Receive, Accept, Reject
  <2> QED
    BY <1>1, <2>1, <2>2, LineRead
<1>6. CASE Check \/ EndOfInput
  BY <1>1, <1>6, NothingMoves DEF Check, EndOfInput, flushVars
<1> QED
  BY <1>2, <1>3, <1>4, <1>5, <1>6 DEF Main

LEMMA FlushKeepsPlaces ==
  ASSUME IInv, ended = "no", NEW t \in Flushers, Flush(t)
  PROVE  Places'
<1> USE DEF IInv
<1>1. TypeOK /\ Places
  BY DEF Shape
<1>2. CASE Allow(t) \/ Refuse(t) \/ RecordSuccess(t) \/ RecordFailure(t)
  BY <1>1, <1>2, NothingMoves DEF Allow, Refuse, RecordSuccess, RecordFailure, flushVars
<1>3. CASE Drain(t)
  <2>1. buf' = <<>> /\ UNCHANGED next
    BY <1>3 DEF Drain, Emptied
  <2>2. CASE buf = <<>> /\ UNCHANGED <<held, fate>>
    BY <1>1, <2>1, <2>2, NothingMoves
  <2>3. CASE SettleBatch(buf, {}, "stored") /\ UNCHANGED held
    BY <1>1, <2>1, <2>3, BufferDiscarded DEF TypeOK
  <2>4. CASE (\E entries \in Selections(buf) \ {{}} : Hold(t, buf, entries)) /\ UNCHANGED fate
    <3>1. held' = [held EXCEPT ![t] = buf]
      BY <2>4 DEF Hold
    <3>2. held[t] = <<>>
      BY <1>3 DEF Drain, Shape, HeldInOrder, HoldSteps
    <3> QED
      BY <1>1, <2>1, <2>4, <3>1, <3>2, BufferTaken
  <2> QED
    BY <1>3, <2>2, <2>3, <2>4 DEF Drain
<1>4. CASE DrainFails(t)
  BY <1>1, <1>4, NothingMoves DEF DrainFails, ReadFails
<1>5. CASE SaveSucceeds(t)
  <2>1. /\ SettleBatch(held[t], kept[t], "stored")
        /\ Hold(t, <<>>, {}) /\ UNCHANGED <<buf, next>>
    BY <1>5 DEF SaveSucceeds
  <2>2. "stored" \in Fates \ {"live"}
    BY DEF Fates
  <2> QED
    BY <1>1, <2>1, <2>2, BatchLeaves
<1>6. CASE SaveFails(t)
  BY <1>1, <1>6, NothingMoves DEF SaveFails
<1>7. CASE Rebuffer(t)
  <2>1. held[t] # <<>>
    BY <1>7 DEF Rebuffer, Shape, HeldInOrder, HoldSteps
  <2>2. held' = [held EXCEPT ![t] = Tail(held[t])] /\ UNCHANGED next
    BY <1>7 DEF Rebuffer, RestToRebuffer, Hold
  <2>3. \/ buf' = Append(buf, Head(held[t])) /\ UNCHANGED fate
        \/ buf' = buf /\ Settle({Head(held[t])}, "dropped")
    BY <1>7 DEF Rebuffer
  <2> QED
    BY <1>1, <2>1, <2>2, <2>3, LineWrittenBack
<1> QED
  BY <1>2, <1>3, <1>4, <1>5, <1>6, <1>7 DEF Flush

-----------------------------------------------------------------------------
(* The invariant.                                                          *)
LEMMA InitEstablishes == Init => IInv
<1> SUFFICES ASSUME Init PROVE IInv
  OBVIOUS
<1>1. /\ pc = Launching /\ owner = "none" /\ ended = "no"
      /\ buf = <<>> /\ \A t \in Flushers : held[t] = <<>>
  BY DEF Init
<1>2. /\ pc \in [Flushers -> UNION {Steps[t] : t \in Flushers}]
      /\ \A t \in Flushers : pc[t] \in Steps[t]
  BY <1>1 DEF Launching, Flushers, Steps
<1>3. held \in [Flushers -> Seq(Lines)] /\ buf \in Seq(Lines)
  BY EmptySeq DEF Init
<1>4. kept \in [Flushers -> SUBSET Lines] /\ notProcessed \subseteq Lines
  BY DEF Init
<1>5. fate = [l \in Lines |-> "unread"] /\ fate \in [Lines -> Fates]
  BY DEF Init, Fates
<1>6. next \in 1 .. NumLines + 1 /\ faults \in 0 .. MaxFaults /\ restarts \in 0 .. MaxRestarts
  BY SettingsAssumption DEF Init
<1>7. streak \in 0 .. Threshold /\ rested \in BOOLEAN
  <2>1. streak = 0 /\ rested = FALSE
    BY Zenon DEF Init, CB!BreakerInit
  <2>2. 0 \in 0 .. Threshold
    BY SettingsAssumption
  <2> QED
    BY <2>1, <2>2
<1>8. TypeOK
  BY <1>1, <1>2, <1>3, <1>4, <1>5, <1>6, <1>7 DEF TypeOK
<1>9. FlushersInOrder /\ HeldInOrder
  BY <1>1 DEF FlushersInOrder, HeldInOrder, HoldSteps, FlushSteps, Launching, Flushers
<1>10. UnreadInOrder
  BY <1>5 DEF UnreadInOrder
<1>11. Accounted /\ OnePlace
  BY <1>1, <1>5, EmptyHoldsNothing DEF Accounted, OnePlace, LinesHeld
<1> QED
  BY <1>8, <1>9, <1>10, <1>11 DEF IInv, Shape, Places

LEMMA StepPreserves == IInv /\ [Next]_vars => IInv'
<1> SUFFICES ASSUME IInv, [Next]_vars PROVE IInv'
  OBVIOUS
<1>1. TypeOK /\ Shape /\ Places
  BY DEF IInv, Shape
<1>2. ASSUME ended = "no", NEW t \in Flushers, Flush(t) PROVE IInv'
  BY <1>2, FlushKeepsShape, FlushKeepsPlaces DEF IInv
<1>3. ASSUME ended = "no", Main PROVE IInv'
  <2>1. Shape'
    BY <1>3, StartupKeepsShape, ReaderKeepsShape DEF Main
  <2> QED
    BY <1>3, <2>1, MainKeepsPlaces DEF IInv
<1>4. ASSUME ended = "no", Wake PROVE IInv'
  <2>1. Places'
    BY <1>1, <1>4, NothingMoves DEF Wake, flushVars
  <2> QED
    BY <1>4, <2>1, ReaderKeepsShape DEF IInv
<1>5. ASSUME ended = "no", NEW t \in Flushers, Shutdown(t) PROVE IInv'
  <2>1. Places'
    BY <1>1, <1>5, NothingMoves DEF Shutdown, flushVars
  <2> QED
    BY <1>5, <2>1, ProcessKeepsShape DEF IInv
<1>6. ASSUME ended = "no", NEW t \in Flushers, Exit(t) PROVE IInv'
  <2>1. Places'
    BY <1>1, <1>6, ProcessEnds DEF Exit
  <2> QED
    BY <1>6, <2>1, ProcessKeepsShape DEF IInv
<1>7. CASE Environment
  <2>1. CASE SignalArrives \/ CoolDown
    <3>1. Places'
      BY <1>1, <2>1, NothingMoves DEF SignalArrives, CoolDown, flushVars
    <3> QED
      BY <1>7, <2>1, <3>1, ProcessKeepsShape DEF Environment, IInv
  <2>2. CASE Crash
    <3>1. Places'
      BY <1>1, <2>2, ProcessEnds DEF Crash
    <3> QED
      BY <1>7, <2>2, <3>1, ProcessKeepsShape DEF Environment, IInv
  <2> QED
    BY <1>7, <2>1, <2>2 DEF Environment
<1>8. CASE Restart \/ Ended
  <2>1. Places'
    BY <1>1, <1>8, NothingMoves DEF Restart, Ended, vars, flushVars
  <2> QED
    BY <1>8, <2>1, ProcessKeepsShape DEF IInv
<1>9. CASE UNCHANGED vars
  <2>1. Places'
    BY <1>1, <1>9, NothingMoves DEF vars, flushVars
  <2>2. DataOK'
    BY <1>1, <1>9 DEF TypeOK, DataOK, vars, flushVars, breakerVars, processVars
  <2> QED
    BY <1>1, <1>9, <2>1, <2>2, NobodyMoves DEF IInv, vars, flushVars, processVars
<1> QED
  BY <1>2, <1>3, <1>4, <1>5, <1>6, <1>7, <1>8, <1>9 DEF Next, Step

LEMMA Invariance == Spec => []IInv
<1> QED
  BY InitEstablishes, StepPreserves, PTL DEF Spec

-----------------------------------------------------------------------------
(* The state of main.go's goroutines, buffer and counters stays within     *)
(* its types for every input, buffer size, limit and threshold.            *)
THEOREM TypeCorrect == Spec => []TypeOK
<1>1. IInv => TypeOK
  BY DEF IInv, Shape
<1> QED
  BY <1>1, Invariance, PTL

(* Conservation: whatever order reader, timer, shutdown, failed saves,     *)
(* crashes and restarts take, a line is live exactly while the buffer or   *)
(* a flush has it (main.flush, the read loop of main.main, doShutdown).    *)
THEOREM LinesAccounted == Spec => []Accounted
<1>1. IInv => Accounted
  BY DEF IInv, Places
<1> QED
  BY <1>1, Invariance, PTL

(* No line is in two places: no two flushes ever send the same line, and   *)
(* a line written back by a failed flush is not held by it any more        *)
(* (ReadAll and re-buffering in main.flush).                               *)
THEOREM LinesInOnePlace == Spec => []OnePlace
<1>1. IInv => OnePlace
  BY DEF IInv, Places
<1> QED
  BY <1>1, Invariance, PTL

=============================================================================
