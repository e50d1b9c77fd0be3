---------------------------- MODULE ClientProofs ----------------------------
(***************************************************************************)
(* Save for any number of callers, retries, batches and faults: an attempt *)
(* owns the connection, a fault costs one attempt, nil means committed     *)
(* where there was an attempt to make, and duplicates need faults.         *)
(***************************************************************************)
EXTENDS Client, FiniteSetTheorems, TLAPS

Critical == {"connect", "prepare", "send"}

(* c.mu is held by the caller that is inside an attempt, and no other.     *)
MutexHeld == \A c \in Callers : mu = c <=> pc[c] \in Critical

(* A broken connection is a fault whose attempt has not failed yet: this   *)
(* is what makes OneFaultOneAttempt inductive.                             *)
FaultsPaid == failures + (IF conn = "broken" THEN 1 ELSE 0) <= faults

(* Callers work on batches of their own, which have no result yet.         *)
OwnBatches ==
  /\ \A c \in Callers : pc[c] # "idle" =>
       /\ batch[c] \in Batches /\ batch[c] < unsaved /\ result[batch[c]] = "none"
       /\ Attempted(batch[c])
  /\ \A c, d \in Callers :
       pc[c] # "idle" /\ pc[d] # "idle" /\ batch[c] = batch[d] => c = d

FutureUnsaved == \A b \in Batches : b >= unsaved => result[b] = "none"

(* Batches with a commit no nil answers for: each has cost a fault.        *)
Excess == {b \in Batches : copies[b] > 1 \/ (copies[b] = 1 /\ result[b] # "saved")}

ExcessPaid == Cardinality(Excess) <= faults

(* What is not attempted is not committed either.                          *)
IdleUncommitted == \A b \in Batches : copies[b] > 0 => Attempted(b)

IInv ==
  /\ TypeOK
  /\ MutexHeld
  /\ ConnOwned
  /\ FaultsPaid
  /\ OwnBatches
  /\ FutureUnsaved
  /\ SavedCommitted
  /\ IdleUncommitted
  /\ ExcessPaid

(* The client starts with nothing connected, saved or owed.                *)
LEMMA InitEstablishes == Init => IInv
<1> SUFFICES ASSUME Init PROVE IInv
  OBVIOUS
<1> USE ClientAssumption DEF Init
<1>1. TypeOK
  <2>1. pc \in [Callers -> Steps] /\ batch \in [Callers -> Batches \union {0}]
    BY DEF Steps
  <2>2. attempt \in [Callers -> Nat] /\ unsaved \in 1 .. NumBatches + 1
    OBVIOUS
  <2>3. copies \in [Batches -> Nat] /\ result \in [Batches -> {"none", "saved", "failed"}]
    OBVIOUS
  <2>4. failures \in Nat /\ faults \in 0 .. MaxFaults
    OBVIOUS
  <2>5. closed \in BOOLEAN /\ maxRetries \in RetryCounts /\ columns \in BOOLEAN
    BY Zenon
  <2> QED
    BY <2>1, <2>2, <2>3, <2>4, <2>5, Zenon DEF TypeOK
<1>2. MutexHeld /\ ConnOwned
  BY DEF MutexHeld, ConnOwned, Critical
<1>3. FaultsPaid
  BY DEF FaultsPaid
<1>4. OwnBatches /\ FutureUnsaved /\ SavedCommitted /\ IdleUncommitted
  BY DEF OwnBatches, FutureUnsaved, SavedCommitted, IdleUncommitted, Batches
<1>5. ExcessPaid
  <2>1. Excess = {}
    BY DEF Excess, Batches
  <2> QED
    BY <2>1, FS_EmptySet DEF ExcessPaid
<1> QED
  BY <1>1, <1>2, <1>3, <1>4, <1>5 DEF IInv

-----------------------------------------------------------------------------
(* Save begins with an attempt, or is over at once.                        *)
Starts(c) ==
  /\ pc[c] = "idle" /\ Attempted(unsaved)
  /\ unsaved <= NumBatches /\ unsaved' = unsaved + 1
  /\ batch' = [batch EXCEPT ![c] = unsaved]
  /\ attempt' = [attempt EXCEPT ![c] = 0]
  /\ Goto(c, "lock")
  /\ UNCHANGED <<mu, conn, copies, result, closed, failures, faults>>

Skips ==
  /\ ~Attempted(unsaved)
  /\ unsaved <= NumBatches /\ unsaved' = unsaved + 1
  /\ result' = [result EXCEPT ![unsaved] = "saved"]
  /\ UNCHANGED <<pc, batch, attempt, mu, conn, copies, closed, failures, faults>>

LEMMA SaveCases ==
  ASSUME NEW c \in Callers, Save(c)
  PROVE  Starts(c) \/ Skips
BY DEF Save, Starts, Skips, caller

InSave(c) == (Starts(c) \/ Attempt(c)) /\ UNCHANGED setting

(* The three ways an attempt can go on: nothing but the caller's place and *)
(* perhaps the mutex changes; it fails, after a fault or not; it commits.  *)
Moves(c, from, to) ==
  /\ pc[c] = from
  /\ Goto(c, to)
  /\ UNCHANGED <<batch, attempt, outcome, closed, failures, faults>>

Paid(c) ==
  \/ /\ faults' = faults + 1
     /\ faults < MaxFaults
  \/ /\ faults' = faults
     /\ (conn = "broken" \/ batch[c] \in Misfits)

Fails(c) ==
  /\ pc[c] \in Critical
  /\ FailAttempt(c)
  /\ Paid(c)
  /\ UNCHANGED copies \/ (Commit(batch[c]) /\ faults' = faults + 1)

Commits(c) ==
  /\ pc[c] = "send"
  /\ Commit(batch[c])
  /\ result' = [result EXCEPT ![batch[c]] = "saved"]
  /\ mu' = "free"
  /\ Goto(c, "idle")
  /\ UNCHANGED <<batch, attempt, conn, unsaved, closed, failures, faults>>

(* Every step inside Save is one of them.                                  *)
LEMMA AttemptCases ==
  ASSUME NEW c \in Callers, Attempt(c)
  PROVE  \/ Lock(c)
         \/ Sleep(c)
         \/ /\ Moves(c, "connect", "prepare")
            /\ conn' = (IF conn = "none" THEN "good" ELSE conn)
            /\ mu' = mu
         \/ /\ Moves(c, "prepare", "send")
            /\ conn = "good"
            /\ UNCHANGED <<conn, mu>>
         \/ Fails(c)
         \/ Commits(c)
<1>1. CASE Lock(c) \/ Sleep(c)
  BY <1>1
<1>2. CASE Connect(c)
  <2>1. CASE conn = "none" /\ Fault /\ FailAttempt(c) /\ UNCHANGED copies
    BY <1>2, <2>1 DEF Connect, Fails, Paid, Fault, Critical
  <2>2. CASE ~(conn = "none" /\ Fault /\ FailAttempt(c) /\ UNCHANGED copies)
    BY <1>2, <2>2 DEF Connect, Moves
  <2> QED
    BY <2>1, <2>2
<1>3. CASE Prepare(c)
  <2>1. CASE FailAttempt(c) /\ UNCHANGED copies /\ Paid(c)
    BY <1>3, <2>1 DEF Prepare, Fails, Critical
  <2>2. CASE ~(FailAttempt(c) /\ UNCHANGED copies /\ Paid(c))
    BY <1>3, <2>2 DEF Prepare, Moves, Paid, Fault
  <2> QED
    BY <2>1, <2>2
<1>4. CASE Send(c)
  BY <1>4 DEF Send, Commits, Fails, Paid, Fault, Critical
<1> QED
  BY <1>1, <1>2, <1>3, <1>4 DEF Attempt

-----------------------------------------------------------------------------
(* A failing attempt either leaves the caller a retry or ends its Save.    *)
LEMMA FailCases ==
  ASSUME NEW c \in Callers, Fails(c)
  PROVE  /\ conn' = "none"
         /\ mu' = "free"
         /\ closed' = closed
         /\ batch' = batch
         /\ unsaved' = unsaved
         /\ failures' = (IF batch[c] \in Misfits THEN failures ELSE failures + 1)
         /\ \/ /\ attempt[c] < maxRetries
               /\ attempt' = [attempt EXCEPT ![c] = @ + 1]
               /\ Goto(c, "sleep")
               /\ result' = result
            \/ /\ result' = [result EXCEPT ![batch[c]] = "failed"]
               /\ Goto(c, "idle")
               /\ attempt' = attempt
<1> QED
  BY Zenon DEF Fails, FailAttempt, Retry, RetryLeft

(* A caller goes elsewhere and the mutex is free, taken or untouched.      *)
LEMMA PcTyped ==
  ASSUME TypeOK, NEW c \in Callers, NEW step \in Steps, Goto(c, step)
  PROVE  /\ pc' \in [Callers -> Steps]
         /\ pc'[c] = step
         /\ \A d \in Callers \ {c} : pc'[d] = pc[d]
<1> QED
  BY DEF TypeOK, Goto

(* Types are kept.                                                         *)
LEMMA TypeKept ==
  ASSUME IInv, NEW c \in Callers, InSave(c)
  PROVE  TypeOK'
<1> USE ClientAssumption
<1>0. /\ TypeOK /\ OwnBatches /\ maxRetries' = maxRetries /\ columns' = columns
  BY DEF IInv, InSave, setting
<1>1. CASE Starts(c)
  <2>1. unsaved \in Batches /\ unsaved' \in 1 .. NumBatches + 1
    BY <1>0, <1>1 DEF Starts, TypeOK, Batches
  <2>2. pc' \in [Callers -> Steps]
    BY <1>0, <1>1, PcTyped DEF Starts, Steps
  <2>3. /\ batch' \in [Callers -> Batches \union {0}]
        /\ attempt' \in [Callers -> Nat]
    BY <1>0, <1>1, <2>1 DEF Starts, TypeOK
  <2> QED
    BY <1>0, <1>1, <2>1, <2>2, <2>3, Zenon DEF Starts, TypeOK
<1>2. CASE Lock(c) \/ Sleep(c)
  <2>1. pc' \in [Callers -> Steps]
    BY <1>0, <1>2, PcTyped DEF Lock, Sleep, Steps
  <2> QED
    BY <1>0, <1>2, <2>1, Zenon DEF Lock, Sleep, TypeOK, outcome
<1>3. CASE /\ Moves(c, "connect", "prepare")
           /\ conn' = (IF conn = "none" THEN "good" ELSE conn)
           /\ mu' = mu
  <2>1. pc' \in [Callers -> Steps]
    BY <1>0, <1>3, PcTyped DEF Moves, Steps
  <2> QED
    BY <1>0, <1>3, <2>1, Zenon DEF Moves, TypeOK, outcome
<1>4. CASE Moves(c, "prepare", "send") /\ UNCHANGED <<conn, mu>>
  <2>1. pc' \in [Callers -> Steps]
    BY <1>0, <1>4, PcTyped DEF Moves, Steps
  <2> QED
    BY <1>0, <1>4, <2>1, Zenon DEF Moves, TypeOK, outcome
<1>5. CASE Fails(c)
  <2>1. pc' \in [Callers -> Steps]
    BY <1>0, <1>5, PcTyped, FailCases DEF Steps
  <2>2. batch[c] \in Batches
    BY <1>0, <1>5 DEF Fails, OwnBatches, Critical
  <2>3. attempt' \in [Callers -> Nat]
    BY <1>0, <1>5, FailCases DEF TypeOK
  <2>4. result' \in [Batches -> {"none", "saved", "failed"}]
    BY <1>0, <1>5, <2>2, FailCases DEF TypeOK
  <2>5. copies' \in [Batches -> Nat]
    BY <1>0, <1>5, <2>2 DEF Fails, Commit, TypeOK
  <2>6. failures' \in Nat /\ faults' \in 0 .. MaxFaults
    BY <1>0, <1>5, FailCases DEF Fails, Paid, TypeOK
  <2> QED
    BY <1>0, <1>5, <2>1, <2>3, <2>4, <2>5, <2>6, FailCases, Zenon DEF TypeOK
<1>6. CASE Commits(c)
  <2>1. pc' \in [Callers -> Steps]
    BY <1>0, <1>6, PcTyped DEF Commits, Steps
  <2>2. batch[c] \in Batches
    BY <1>0, <1>6 DEF Commits, OwnBatches
  <2>3. /\ result' \in [Batches -> {"none", "saved", "failed"}]
        /\ copies' \in [Batches -> Nat]
    BY <1>0, <1>6, <2>2 DEF Commits, Commit, TypeOK
  <2> QED
    BY <1>0, <1>6, <2>1, <2>3, Zenon DEF Commits, TypeOK
<1> QED
  BY <1>1, <1>2, <1>3, <1>4, <1>5, <1>6, AttemptCases DEF InSave

(* The mutex keeps one caller in an attempt, and its connection with it.   *)
LEMMA LockKept ==
  ASSUME IInv, NEW c \in Callers, InSave(c)
  PROVE  MutexHeld' /\ ConnOwned'
<1> USE ClientAssumption
<1>0. TypeOK /\ MutexHeld /\ ConnOwned
  BY DEF IInv
<1> USE DEF MutexHeld, ConnOwned, Critical
<1>1. CASE Starts(c)
  BY <1>0, <1>1, PcTyped DEF Starts, Steps
<1>2. CASE Lock(c)
  BY <1>0, <1>2, PcTyped DEF Lock, Steps
<1>3. CASE Sleep(c)
  BY <1>0, <1>3, PcTyped DEF Sleep, Steps
<1>4. CASE /\ Moves(c, "connect", "prepare")
           /\ conn' = (IF conn = "none" THEN "good" ELSE conn)
           /\ mu' = mu
  BY <1>0, <1>4, PcTyped DEF Moves, Steps
<1>5. CASE /\ Moves(c, "prepare", "send")
           /\ conn = "good"
           /\ UNCHANGED <<conn, mu>>
  BY <1>0, <1>5, PcTyped DEF Moves, Steps
<1>6. CASE Fails(c)
  <2>1. PICK step \in {"idle", "sleep"} : Goto(c, step)
    BY <1>6, FailCases
  <2>2. mu = c /\ mu' = "free"
    BY <1>0, <1>6, FailCases DEF Fails
  <2> QED
    BY <1>0, <2>1, <2>2, PcTyped DEF Steps
<1>7. CASE Commits(c)
  BY <1>0, <1>7, PcTyped DEF Commits, Steps
<1> QED
  BY <1>1, <1>2, <1>3, <1>4, <1>5, <1>6, <1>7, AttemptCases DEF InSave

(* A failed attempt pays with a fault of its own or with the one that broke *)
(* the connection it drops.                                                *)
LEMMA PaymentKept ==
  ASSUME IInv, NEW c \in Callers, InSave(c)
  PROVE  FaultsPaid'
<1>0. TypeOK /\ FaultsPaid
  BY DEF IInv
<1> USE DEF FaultsPaid
<1>1. CASE Starts(c) \/ Lock(c) \/ Sleep(c)
  BY <1>0, <1>1 DEF Starts, Lock, Sleep
<1>2. CASE /\ Moves(c, "connect", "prepare")
           /\ conn' = (IF conn = "none" THEN "good" ELSE conn)
           /\ mu' = mu
  BY <1>0, <1>2 DEF Moves
<1>3. CASE Moves(c, "prepare", "send") /\ UNCHANGED <<conn, mu>>
  BY <1>0, <1>3 DEF Moves
<1>4. CASE Fails(c)
  <2>1. Paid(c) /\ failures \in Nat /\ faults \in Nat
    BY <1>0, <1>4 DEF Fails, TypeOK
  <2>2. /\ conn' = "none"
        /\ failures' = (IF batch[c] \in Misfits THEN failures ELSE failures + 1)
    BY <1>4, FailCases
  <2> QED
    BY <1>0, <2>1, <2>2 DEF Paid
<1>5. CASE Commits(c)
  BY <1>0, <1>5 DEF Commits
<1> QED
  BY <1>1, <1>2, <1>3, <1>4, <1>5, AttemptCases DEF InSave

(* Batches stay with the caller they were given to, and get one result.    *)
LEMMA BatchesKept ==
  ASSUME IInv, NEW c \in Callers, InSave(c)
  PROVE  OwnBatches' /\ FutureUnsaved'
<1> USE ClientAssumption
<1>0. /\ TypeOK /\ OwnBatches /\ FutureUnsaved
      /\ \A b \in Batches : Attempted(b)' <=> Attempted(b)
  BY DEF IInv, InSave, setting, Attempted
<1> USE DEF OwnBatches, FutureUnsaved
<1>1. CASE Starts(c)
  <2>1. /\ unsaved \in Batches /\ Attempted(unsaved)
        /\ unsaved' = unsaved + 1
        /\ batch'[c] = unsaved
        /\ \A d \in Callers \ {c} : batch'[d] = batch[d] /\ pc'[d] = pc[d]
        /\ result' = result
        /\ \A b \in Batches : b \in Nat
    BY <1>0, <1>1, PcTyped DEF Starts, TypeOK, Batches, Steps
  <2> QED
    BY <1>0, <2>1
<1>2. CASE Lock(c) \/ Sleep(c)
  <2>1. /\ pc[c] # "idle"
        /\ \A d \in Callers \ {c} : pc'[d] = pc[d]
        /\ batch' = batch /\ unsaved' = unsaved /\ result' = result
    BY <1>0, <1>2, PcTyped DEF Lock, Sleep, Steps, outcome
  <2> QED
    BY <1>0, <2>1
<1>3. CASE Moves(c, "connect", "prepare") \/ Moves(c, "prepare", "send")
  <2>1. /\ pc[c] # "idle"
        /\ \A d \in Callers \ {c} : pc'[d] = pc[d]
        /\ batch' = batch /\ unsaved' = unsaved /\ result' = result
    BY <1>0, <1>3, PcTyped DEF Moves, Steps, outcome
  <2> QED
    BY <1>0, <2>1
<1>4. ASSUME pc[c] # "idle", Goto(c, "idle"), batch' = batch, unsaved' = unsaved,
             NEW r \in {"saved", "failed"}, result' = [result EXCEPT ![batch[c]] = r]
      PROVE  OwnBatches' /\ FutureUnsaved'
  <2>1. /\ pc'[c] = "idle"
        /\ \A d \in Callers \ {c} : pc'[d] = pc[d]
    BY <1>0, <1>4, PcTyped DEF Steps
  <2>2. /\ batch[c] \in Batches /\ batch[c] < unsaved
        /\ \A b \in Batches \ {batch[c]} : result'[b] = result[b]
        /\ unsaved \in Nat /\ batch[c] \in Nat
    BY <1>0, <1>4 DEF TypeOK, Batches
  <2>3. \A d \in Callers \ {c} : pc[d] # "idle" => batch[d] # batch[c]
    BY <1>0, <1>4
  <2> QED
    BY <1>0, <1>4, <2>1, <2>2, <2>3
<1>5. CASE Fails(c)
  <2>0. pc[c] # "idle" /\ batch' = batch /\ unsaved' = unsaved
    BY <1>5, FailCases DEF Fails, Critical
  <2>1. CASE Goto(c, "sleep") /\ result' = result
    <3>1. \A d \in Callers \ {c} : pc'[d] = pc[d]
      BY <1>0, <2>1, PcTyped DEF Steps
    <3> QED
      BY <1>0, <2>0, <2>1, <3>1
  <2>2. CASE result' = [result EXCEPT ![batch[c]] = "failed"] /\ Goto(c, "idle")
    BY <1>4, <2>0, <2>2
  <2> QED
    BY <1>5, <2>1, <2>2, FailCases
<1>6. CASE Commits(c)
  BY <1>4, <1>6 DEF Commits
<1> QED
  BY <1>1, <1>2, <1>3, <1>5, <1>6, AttemptCases DEF InSave

(* There are finitely many batches, so the debts can be counted.           *)
LEMMA ExcessFinite == IsFiniteSet(Excess) /\ Cardinality(Excess) \in Nat
<1>1. IsFiniteSet(1 .. NumBatches)
  BY ClientAssumption, FS_Interval
<1>2. Excess \subseteq 1 .. NumBatches
  BY DEF Excess, Batches
<1>3. IsFiniteSet(Excess)
  BY <1>1, <1>2, FS_Subset
<1> QED
  BY <1>3, FS_CardinalityType

(* What leaves results, commits and faults alone leaves the debts alone.   *)
LEMMA NothingOwed ==
  ASSUME SavedCommitted, IdleUncommitted, ExcessPaid,
         UNCHANGED <<result, copies, faults, setting>>
  PROVE  SavedCommitted' /\ IdleUncommitted' /\ ExcessPaid'
<1>1. Excess' = Excess
  BY DEF Excess
<1> QED
  BY <1>1 DEF SavedCommitted, IdleUncommitted, ExcessPaid, Attempted, setting

(* nil answers for a commit, and every other commit has cost a fault.      *)
LEMMA DebtsKept ==
  ASSUME IInv, NEW c \in Callers, InSave(c)
  PROVE  SavedCommitted' /\ IdleUncommitted' /\ ExcessPaid'
<1> USE ClientAssumption
<1>0. /\ TypeOK /\ OwnBatches /\ SavedCommitted /\ IdleUncommitted /\ ExcessPaid
      /\ UNCHANGED setting
      /\ \A b \in Batches : Attempted(b)' <=> Attempted(b)
  BY DEF IInv, InSave, setting, Attempted
<1>1. CASE Starts(c) \/ Lock(c) \/ Sleep(c)
  BY <1>0, <1>1, NothingOwed DEF Starts, Lock, Sleep, outcome
<1>2. CASE Moves(c, "connect", "prepare") \/ Moves(c, "prepare", "send")
  BY <1>0, <1>2, NothingOwed DEF Moves, outcome
<1>3. IsFiniteSet(Excess) /\ Cardinality(Excess) \in Nat
  BY ExcessFinite
<1>4. CASE Fails(c)
  <2>1. batch[c] \in Batches /\ result[batch[c]] = "none" /\ Attempted(batch[c])
    BY <1>0, <1>4 DEF Fails, OwnBatches, Critical
  <2>2. \A b \in Batches : result'[b] = "saved" <=> result[b] = "saved"
    BY <1>0, <1>4, <2>1, FailCases DEF TypeOK
  <2>3. CASE UNCHANGED copies
    <3>1. Excess' = Excess
      BY <2>2, <2>3 DEF Excess
    <3>2. faults' >= faults /\ faults' \in Nat /\ faults \in Nat
      BY <1>0, <1>4 DEF Fails, Paid, TypeOK
    <3>3. ExcessPaid'
      BY <1>0, <1>3, <3>1, <3>2 DEF ExcessPaid
    <3> QED
      BY <1>0, <2>2, <2>3, <3>3 DEF SavedCommitted, IdleUncommitted
  <2>4. CASE Commit(batch[c]) /\ faults' = faults + 1
    <3>1. /\ \A b \in Batches : copies'[b] >= copies[b]
          /\ \A b \in Batches \ {batch[c]} : copies'[b] = copies[b]
          /\ copies' \in [Batches -> Nat]
      BY <1>0, <2>1, <2>4 DEF Commit, TypeOK
    <3>2. SavedCommitted' /\ IdleUncommitted'
      BY <1>0, <2>1, <2>2, <3>1 DEF SavedCommitted, IdleUncommitted, TypeOK
    <3>3. Excess' \subseteq Excess \union {batch[c]}
      BY <2>2, <3>1 DEF Excess
    <3>4. /\ IsFiniteSet(Excess \union {batch[c]})
          /\ Cardinality(Excess \union {batch[c]}) <= Cardinality(Excess) + 1
      <4>1. /\ IsFiniteSet(Excess \union {batch[c]})
            /\ Cardinality(Excess \union {batch[c]}) =
                 IF batch[c] \in Excess THEN Cardinality(Excess) ELSE Cardinality(Excess) + 1
        BY <1>3, FS_AddElement
      <4> QED
        BY <1>3, <4>1
    <3>5. Cardinality(Excess') <= Cardinality(Excess \union {batch[c]})
      BY <3>3, <3>4, FS_Subset
    <3>6. /\ Cardinality(Excess') \in Nat
          /\ Cardinality(Excess \union {batch[c]}) \in Nat
          /\ faults \in Nat
      BY <1>0, <3>3, <3>4, FS_Subset, FS_CardinalityType DEF TypeOK
    <3>7. ExcessPaid'
      BY <1>0, <1>3, <2>4, <3>4, <3>5, <3>6 DEF ExcessPaid
    <3> QED
      BY <3>2, <3>7
  <2> QED
    BY <1>4, <2>3, <2>4 DEF Fails
<1>5. CASE Commits(c)
  <2>1. batch[c] \in Batches /\ result[batch[c]] = "none" /\ Attempted(batch[c])
    BY <1>0, <1>5 DEF Commits, OwnBatches
  <2>2. /\ \A b \in Batches \ {batch[c]} : copies'[b] = copies[b] /\ result'[b] = result[b]
        /\ copies[batch[c]] \in Nat
        /\ copies'[batch[c]] = copies[batch[c]] + 1
        /\ result'[batch[c]] = "saved"
        /\ faults' = faults
    BY <1>0, <1>5, <2>1 DEF Commits, Commit, TypeOK
  <2>3. SavedCommitted' /\ IdleUncommitted'
    BY <1>0, <2>1, <2>2 DEF SavedCommitted, IdleUncommitted
  <2>4. Excess' \subseteq Excess
    BY <2>1, <2>2 DEF Excess
  <2>5. Cardinality(Excess') <= Cardinality(Excess) /\ Cardinality(Excess') \in Nat
    BY <1>3, <2>4, FS_Subset, FS_CardinalityType
  <2>6. faults \in Nat
    BY <1>0 DEF TypeOK
  <2> QED
    BY <1>0, <1>3, <2>2, <2>3, <2>5, <2>6 DEF ExcessPaid
<1> QED
  BY <1>1, <1>2, <1>4, <1>5, AttemptCases DEF InSave

(* The connection may break, come back, be pinged and be closed.           *)
LEMMA OthersKeep ==
  ASSUME IInv, Break \/ Redial \/ Healthy \/ Close \/ UNCHANGED vars, UNCHANGED setting
  PROVE  IInv'
<1> USE ClientAssumption
<1>0. TypeOK /\ MutexHeld /\ ConnOwned /\ FaultsPaid /\ OwnBatches /\ FutureUnsaved
      /\ SavedCommitted /\ IdleUncommitted /\ ExcessPaid
  BY DEF IInv
<1>1. /\ UNCHANGED <<pc, batch, attempt, mu, unsaved, copies, result, failures>>
      /\ \/ faults' = faults
         \/ faults' = faults + 1 /\ faults < MaxFaults
  BY Zenon DEF Break, Fault, Redial, Healthy, Close, vars, caller, outcome
<1>2. conn' = conn \/ (conn # "none" /\ conn' # "none") \/ mu = "free"
  BY DEF Break, Redial, Healthy, Close, vars
<1>3. closed' \in BOOLEAN
  BY <1>0, Zenon DEF Break, Redial, Healthy, Close, vars, TypeOK
<1>4. conn' \in {"none", "good", "broken"}
  BY <1>0 DEF Break, Redial, Healthy, Close, vars, TypeOK
<1>5. faults' \in 0 .. MaxFaults /\ faults' >= faults /\ faults \in Nat
  BY <1>0, <1>1 DEF TypeOK
<1>6. TypeOK'
  <2>1. maxRetries' = maxRetries /\ columns' = columns
    BY DEF setting
  <2> QED
    BY <1>0, <1>1, <1>3, <1>4, <1>5, <2>1, Zenon DEF TypeOK
<1>7. MutexHeld' /\ ConnOwned'
  BY <1>0, <1>1, <1>2, Zenon DEF MutexHeld, ConnOwned, Critical
<1>8. FaultsPaid'
  BY <1>0 DEF Break, Fault, Redial, Healthy, Close, vars, caller, outcome, FaultsPaid, TypeOK
<1>9. OwnBatches' /\ FutureUnsaved' /\ SavedCommitted' /\ IdleUncommitted'
  <2>1. \A b : Attempted(b)' <=> Attempted(b)
    BY DEF Attempted, setting
  <2> QED
    BY <1>0, <1>1, <2>1, Zenon DEF OwnBatches, FutureUnsaved, SavedCommitted, IdleUncommitted
<1>10. ExcessPaid'
  <2>1. Excess' = Excess
    BY <1>1 DEF Excess
  <2>2. Cardinality(Excess) \in Nat
    BY ExcessFinite
  <2> QED
    BY <1>0, <1>5, <2>1, <2>2 DEF ExcessPaid
<1> QED
  BY <1>6, <1>7, <1>8, <1>9, <1>10 DEF IInv

(* A Save that attempts nothing gives its batch a result and no commit.    *)
LEMMA SkipKeeps ==
  ASSUME IInv, Skips, UNCHANGED setting
  PROVE  IInv'
<1> USE ClientAssumption
<1>0. TypeOK /\ MutexHeld /\ ConnOwned /\ FaultsPaid /\ OwnBatches /\ FutureUnsaved
      /\ SavedCommitted /\ IdleUncommitted /\ ExcessPaid
  BY DEF IInv
<1>1. /\ UNCHANGED <<pc, batch, attempt, mu, conn, copies, closed, failures, faults>>
      /\ maxRetries' = maxRetries /\ columns' = columns /\ unsaved' = unsaved + 1
      /\ unsaved \in Batches /\ unsaved' \in 1 .. NumBatches + 1 /\ ~Attempted(unsaved)
      /\ result \in [Batches -> {"none", "saved", "failed"}]
  BY <1>0 DEF Skips, setting, TypeOK, Batches
<1>2. /\ result' \in [Batches -> {"none", "saved", "failed"}]
      /\ result'[unsaved] = "saved"
      /\ \A b \in Batches \ {unsaved} : result'[b] = result[b]
      /\ result[unsaved] = "none"
  <2>1. unsaved >= unsaved
    BY <1>1 DEF Batches
  <2> QED
    BY <1>0, <1>1, <2>1 DEF Skips, FutureUnsaved
<1>3. \A b : Attempted(b)' <=> Attempted(b)
  BY <1>1 DEF Attempted
<1>4. TypeOK'
  BY <1>0, <1>1, <1>2, Zenon DEF TypeOK
<1>5. MutexHeld' /\ ConnOwned' /\ FaultsPaid'
  BY <1>0, <1>1 DEF MutexHeld, ConnOwned, FaultsPaid
<1>6. OwnBatches' /\ FutureUnsaved'
  <2>1. \A b \in Batches : b \in Nat
    BY DEF Batches
  <2> QED
    BY <1>0, <1>1, <1>2, <1>3, <2>1 DEF OwnBatches, FutureUnsaved
<1>7. /\ copies[unsaved] \in Nat /\ ~(copies[unsaved] > 0)
  BY <1>0, <1>1 DEF IdleUncommitted, TypeOK
<1>8. SavedCommitted' /\ IdleUncommitted'
  BY <1>0, <1>1, <1>2, <1>3, <1>7 DEF SavedCommitted, IdleUncommitted
<1>9. ExcessPaid'
  <2>1. Excess' = Excess
    BY <1>1, <1>2, <1>7 DEF Excess
  <2> QED
    BY <1>0, <1>1, <2>1 DEF ExcessPaid
<1> QED
  BY <1>4, <1>5, <1>6, <1>8, <1>9 DEF IInv

LEMMA StepPreserves == IInv /\ [Next]_vars => IInv'
<1> SUFFICES ASSUME IInv, [Next]_vars PROVE IInv'
  OBVIOUS
<1>1. ASSUME NEW c \in Callers, InSave(c) PROVE IInv'
  BY <1>1, TypeKept, LockKept, PaymentKept, BatchesKept, DebtsKept DEF IInv
<1>2. UNCHANGED setting
  BY DEF Next, vars
<1>3. ASSUME NEW c \in Callers, Save(c) PROVE IInv'
  BY <1>1, <1>2, <1>3, SaveCases, SkipKeeps DEF InSave
<1>4. ASSUME NEW c \in Callers, Attempt(c) PROVE IInv'
  BY <1>1, <1>2, <1>4 DEF InSave
<1> QED
  BY <1>2, <1>3, <1>4, OthersKeep DEF Next

LEMMA Invariance == Spec => []IInv
<1> QED
  BY InitEstablishes, StepPreserves, PTL DEF Spec

-----------------------------------------------------------------------------
(* The client's fields keep their types, for any number of callers and     *)
(* every max_retries.                                                      *)
THEOREM TypeCorrect == Spec => []TypeOK
<1>1. IInv => TypeOK
  BY DEF IInv
<1> QED
  BY <1>1, Invariance, PTL

(* While an attempt prepares and sends, c.conn is its own and never nil.   *)
THEOREM ConnectionOwned == Spec => []ConnOwned
<1>1. IInv => ConnOwned
  BY DEF IInv
<1> QED
  BY <1>1, Invariance, PTL

(* A Save that returns nil has committed its batch if it had an attempt to *)
(* make for it, and nothing otherwise: for every max_retries, negative     *)
(* ones included, with columns configured or not.                          *)
THEOREM NilMeansCommitted == Spec => []SavedCommitted
<1>1. IInv => SavedCommitted
  BY DEF IInv
<1> QED
  BY <1>1, Invariance, PTL

(* However many callers share the connection, a fault fails one attempt.   *)
THEOREM FaultCostsOneAttempt == Spec => []OneFaultOneAttempt
<1>1. IInv => OneFaultOneAttempt
  <2> SUFFICES ASSUME IInv PROVE failures <= faults
    BY DEF OneFaultOneAttempt
  <2>1. failures \in Nat /\ faults \in Nat /\ FaultsPaid
    BY ClientAssumption DEF IInv, TypeOK
  <2> QED
    BY <2>1 DEF FaultsPaid
<1> QED
  BY <1>1, Invariance, PTL

(* Every batch committed twice has cost a fault of its own.                *)
THEOREM DuplicatesCostFaults == Spec => []DuplicatesNeedFaults
<1>1. IInv => DuplicatesNeedFaults
  <2> SUFFICES ASSUME IInv PROVE DuplicatesNeedFaults
    OBVIOUS
  <2> DEFINE Twice == {b \in Batches : copies[b] > 1}
  <2>1. Twice \subseteq Excess
    BY DEF Excess
  <2>2. IsFiniteSet(Excess)
    BY ExcessFinite
  <2>3. /\ Cardinality(Twice) <= Cardinality(Excess)
        /\ Cardinality(Twice) \in Nat
        /\ Cardinality(Excess) \in Nat
    BY <2>1, <2>2, FS_Subset, FS_CardinalityType
  <2>4. Cardinality(Excess) <= faults /\ faults \in Nat
    BY ClientAssumption DEF IInv, TypeOK, ExcessPaid
  <2> QED
    BY <2>3, <2>4 DEF DuplicatesNeedFaults
<1> QED
  BY <1>1, Invariance, PTL

=============================================================================
