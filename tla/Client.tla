------------------------------- MODULE Client -------------------------------
(***************************************************************************)
(* clickhouse/clickhouse.go: Save, whose attempts hold c.mu from connect   *)
(* to Send and sleep without it, and Healthy and Close, which take c.mu in *)
(* between.  All callers share one connection: an attempt may find it      *)
(* broken, replaced or closed since the caller's last attempt.             *)
(*                                                                         *)
(* ClickHouse and its driver are external: a call over the connection may  *)
(* fail, a connection may break and may or may not come back by itself,    *)
(* and a Send that reports an error may have been committed.               *)
(***************************************************************************)
EXTENDS Integers, FiniteSets

CONSTANTS
  Callers,      \* the goroutines that call Save
  RetryCounts,  \* max_retries, after the default: config.go takes negative ones
  NumBatches,   \* bound on the calls of Save
  Vacant,       \* batches without an entry
  Misfits,      \* batches with a row the driver refuses to append
  MaxFaults     \* bound on failing calls and breaking connections

Batches == 1 .. NumBatches

ASSUME ClientAssumption ==
  /\ RetryCounts \subseteq Int \ {0}
  /\ NumBatches \in Nat
  /\ Vacant \subseteq Batches
  /\ Misfits \subseteq Batches
  /\ MaxFaults \in Nat
  /\ "free" \notin Callers

VARIABLES
  maxRetries, \* the retries per Save, and whether any column is configured:
  columns,    \* fixed when the process starts
  pc,         \* where each caller is; "idle" outside Save
  batch,      \* the batch it saves
  attempt,    \* its retries so far
  mu,         \* the caller that holds c.mu, or "free"
  conn,       \* c.conn: "none", "good" or "broken"
  unsaved,    \* the next batch
  copies,     \* how often each batch was committed
  result,     \* what Save returned for each batch
  closed,     \* Close has been called
  failures,   \* failed attempts, but for those of misfits
  faults      \* calls that failed and connections that broke

setting == <<maxRetries, columns>>
caller == <<pc, batch, attempt>>
outcome == <<unsaved, copies, result>>
vars == <<setting, caller, mu, conn, outcome, closed, failures, faults>>

Steps == {"idle", "lock", "connect", "prepare", "send", "sleep"}

TypeOK ==
  /\ maxRetries \in RetryCounts
  /\ columns \in BOOLEAN
  /\ pc \in [Callers -> Steps]
  /\ batch \in [Callers -> Batches \union {0}]
  /\ attempt \in [Callers -> Nat]
  /\ mu \in Callers \union {"free"}
  /\ conn \in {"none", "good", "broken"}
  /\ unsaved \in 1 .. NumBatches + 1
  /\ copies \in [Batches -> Nat]
  /\ result \in [Batches -> {"none", "saved", "failed"}]
  /\ closed \in BOOLEAN
  /\ failures \in Nat
  /\ faults \in 0 .. MaxFaults

Init ==
  /\ maxRetries \in RetryCounts
  /\ columns \in BOOLEAN
  /\ pc = [c \in Callers |-> "idle"]
  /\ batch = [c \in Callers |-> 0]
  /\ attempt = [c \in Callers |-> 0]
  /\ mu = "free"
  /\ conn = "none"
  /\ unsaved = 1
  /\ copies = [b \in Batches |-> 0]
  /\ result = [b \in Batches |-> "none"]
  /\ closed = FALSE
  /\ failures = 0
  /\ faults = 0

-----------------------------------------------------------------------------
Goto(c, step) == pc' = [pc EXCEPT ![c] = step]

Fault ==
  /\ faults < MaxFaults
  /\ faults' = faults + 1

Commit(b) == copies' = [copies EXCEPT ![b] = @ + 1]

RetryLeft(c) == attempt[c] < maxRetries

(* slip: the attempts are not counted                                      *)
RetryForever(c) ==
  /\ Goto(c, "sleep")
  /\ UNCHANGED <<attempt, batch, unsaved, result, failures>>

(* retry.Do after a failed call: a retry follows, or Save gives up.        *)
Retry(c) ==
  /\ failures' = IF batch[c] \in Misfits THEN failures ELSE failures + 1
  /\ IF RetryLeft(c)
     THEN /\ attempt' = [attempt EXCEPT ![c] = @ + 1]
          /\ Goto(c, "sleep")
          /\ UNCHANGED result
     ELSE /\ result' = [result EXCEPT ![batch[c]] = "failed"]
          /\ Goto(c, "idle")
          /\ UNCHANGED attempt
  /\ UNCHANGED <<batch, unsaved>>

(* slip: the broken connection is kept for the next attempt                *)
FailAttemptKeepsConn(c) ==
  /\ mu' = "free"
  /\ Retry(c)
  /\ UNCHANGED <<conn, closed>>

(* An attempt returns an error: resetConn, the deferred Unlock, and back   *)
(* to retry.Do.                                                            *)
FailAttempt(c) ==
  /\ conn' = "none"
  /\ mu' = "free"
  /\ Retry(c)
  /\ UNCHANGED <<closed>>

(* Save attempts nothing, and returns nil, when there is nothing to insert *)
(* and when retry.Do has no call to make.                                  *)
Attempted(b) == b \notin Vacant /\ columns /\ maxRetries + 1 > 0

Save(c) ==
  /\ pc[c] = "idle"
  /\ unsaved <= NumBatches
  /\ unsaved' = unsaved + 1
  /\ \/ /\ Attempted(unsaved)
        /\ batch' = [batch EXCEPT ![c] = unsaved]
        /\ attempt' = [attempt EXCEPT ![c] = 0]
        /\ Goto(c, "lock")
        /\ UNCHANGED result
     \/ /\ ~Attempted(unsaved)
        /\ result' = [result EXCEPT ![unsaved] = "saved"]
        /\ UNCHANGED caller
  /\ UNCHANGED <<mu, conn, copies, closed, failures, faults>>

Lock(c) ==
  /\ pc[c] = "lock"
  /\ mu = "free"
  /\ mu' = c
  /\ Goto(c, "connect")
  /\ UNCHANGED <<batch, attempt, conn, outcome, closed, failures, faults>>

(* An existing connection is used unseen; a new one is pinged.             *)
Connect(c) ==
  /\ pc[c] = "connect"
  /\ \/ /\ conn' = IF conn = "none" THEN "good" ELSE conn
        /\ Goto(c, "prepare")
        /\ UNCHANGED <<batch, attempt, mu, outcome, closed, failures, faults>>
     \/ /\ conn = "none"
        /\ Fault
        /\ FailAttempt(c)
        /\ UNCHANGED copies

Prepare(c) ==
  /\ pc[c] = "prepare"
  /\ \/ /\ conn = "good"
        /\ Goto(c, "send")
        /\ UNCHANGED <<batch, attempt, mu, conn, outcome, closed, failures, faults>>
     \/ /\ \/ conn = "good" /\ Fault
           \/ conn = "broken" /\ UNCHANGED faults
        /\ FailAttempt(c)
        /\ UNCHANGED copies

(* slip: the error of Send is only logged                                  *)
SendUnchecked(c) ==
  /\ pc[c] = "send"
  /\ IF conn = "good" THEN Commit(batch[c]) ELSE UNCHANGED copies
  /\ result' = [result EXCEPT ![batch[c]] = "saved"]
  /\ mu' = "free"
  /\ Goto(c, "idle")
  /\ UNCHANGED <<batch, attempt, conn, unsaved, closed, failures, faults>>

(* slip: a retry follows a Send that succeeded                             *)
SendAgain(c) ==
  /\ pc[c] = "send"
  /\ IF conn = "good" THEN Commit(batch[c]) ELSE UNCHANGED copies
  /\ FailAttempt(c)
  /\ UNCHANGED faults

(* The rows are appended and sent.  What the driver does with a batch one  *)
(* of whose rows it refused is its own affair: it sends the others, or     *)
(* nothing.                                                                *)
Send(c) ==
  /\ pc[c] = "send"
  /\ \/ /\ conn = "good"
        /\ Commit(batch[c])
        /\ result' = [result EXCEPT ![batch[c]] = "saved"]
        /\ mu' = "free"
        /\ Goto(c, "idle")
        /\ UNCHANGED <<batch, attempt, conn, unsaved, closed, failures, faults>>
     \/ /\ \/ conn = "good" /\ Fault /\ (Commit(batch[c]) \/ UNCHANGED copies)
           \/ /\ conn = "broken" \/ batch[c] \in Misfits
              /\ UNCHANGED <<copies, faults>>
        /\ FailAttempt(c)

(* The delay of retry.Do is over.                                          *)
Sleep(c) ==
  /\ pc[c] = "sleep"
  /\ Goto(c, "lock")
  /\ UNCHANGED <<batch, attempt, mu, conn, outcome, closed, failures, faults>>

(* The server closes the connection or the network loses it.               *)
Break ==
  /\ conn = "good"
  /\ Fault
  /\ conn' = "broken"
  /\ UNCHANGED <<caller, mu, outcome, closed, failures>>

(* The driver's pool dials anew behind the same driver.Conn.               *)
Redial ==
  /\ conn = "broken"
  /\ conn' = "good"
  /\ UNCHANGED <<caller, mu, outcome, closed, failures, faults>>

(* A request to /healthz: Healthy looks at c.conn and pings, under c.mu,   *)
(* and changes nothing; it never connects.                                 *)
Healthy ==
  /\ mu = "free"
  /\ UNCHANGED vars

(* slip: Close does not take the lock                                      *)
CloseUnlocked ==
  /\ ~closed
  /\ conn' = "none"
  /\ closed' = TRUE
  /\ UNCHANGED <<caller, mu, outcome, failures, faults>>

(* Close, at shutdown; another goroutine's next attempt connects again.    *)
Close ==
  /\ ~closed
  /\ mu = "free"
  /\ conn' = "none"
  /\ closed' = TRUE
  /\ UNCHANGED <<caller, mu, outcome, failures, faults>>

Attempt(c) == Lock(c) \/ Connect(c) \/ Prepare(c) \/ Send(c) \/ Sleep(c)

Next ==
  /\ \/ \E c \in Callers : Save(c) \/ Attempt(c)
     \/ Break
     \/ Redial
     \/ Healthy
     \/ Close
  /\ UNCHANGED setting

Spec == Init /\ [][Next]_vars

(* Calls over the connection return and delays end.  A mutex on which a    *)
(* goroutine has waited for a millisecond is handed to it next.            *)
FairSpec ==
  /\ Spec
  /\ \A c \in Callers : /\ WF_vars(Attempt(c) /\ UNCHANGED setting)
                        /\ SF_vars(Lock(c) /\ UNCHANGED setting)

-----------------------------------------------------------------------------
(* An attempt uses the connection alone: while it prepares or sends,       *)
(* nobody closes, resets or replaces c.conn, so it is never nil there      *)
(* (c.mu; Save, resetConn, Close).                                         *)
ConnOwned ==
  \A c \in Callers : pc[c] \in {"prepare", "send"} => mu = c /\ conn # "none"

(* Save returns nil only for a batch that has been committed, but for the  *)
(* batches it has no attempt to make for: without an entry, without a      *)
(* column, and all of them when max_retries is negative, which config.go   *)
(* takes: main counts their lines as saved (main.go:425, README.md:307).   *)
SavedCommitted ==
  \A b \in Batches : result[b] = "saved" => (copies[b] > 0 <=> Attempted(b))

(* "If the ClickHouse connection drops, it is automatically reset and      *)
(* re-established on the next retry attempt" (README.md:354): a broken     *)
(* connection costs one attempt of one caller, so that there are never     *)
(* more failed attempts than faults, whoever shares the connection.        *)
OneFaultOneAttempt == failures <= faults

(* A batch is committed twice only if a Send reported an error for a       *)
(* commit: the attempts and the callers repeat nothing by themselves.      *)
DuplicatesNeedFaults ==
  Cardinality({b \in Batches : copies[b] > 1}) <= faults

(* Every Save returns, also that of a batch the driver refuses again and   *)
(* again, and though the callers wait for each other's attempts (c.mu).    *)
SaveReturns == \A c \in Callers : pc[c] # "idle" ~> pc[c] = "idle"

=============================================================================
