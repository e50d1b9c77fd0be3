---------------------------- MODULE FilterChain ----------------------------
(***************************************************************************)
(* filter/filter.go: rules are compiled once, and Apply passes the entries *)
(* of a batch through one rule after the other.                            *)
(*                                                                         *)
(* The expression language is external.  An expression is a test of one    *)
(* field: "positive" compares it with its zero value, "convert" converts   *)
(* it to a number first, which fails for a text that is none, and "broken" *)
(* does not compile.                                                       *)
(***************************************************************************)
EXTENDS Entries

CONSTANTS
  RateScale,  \* a sample rate is a number of parts of this
  Exprs       \* expressions -> their field and test

VARIABLES
  rules,      \* the compiled rules
  entries,    \* the batch
  level,      \* the rule Apply is at; 0: not called yet
  todo,       \* positions of the entries that rule has to look at
  kept        \* positions of those it has kept

filterVars == <<rules, entries, level, todo, kept>>

-----------------------------------------------------------------------------
(* slip: fractions stay texts                                              *)
WholeFields ==
  [f \in {"bytes_sent", "body_bytes_sent", "connections_waiting",
          "connections_active", "status", "connection", "request_length"} |-> "int"]

(* The fields that expressions see as numbers.                             *)
FloatNames ==
  {"request_time", "upstream_connect_time", "upstream_header_time",
   "upstream_response_time", "msec"}

NumericFields ==
  [f \in {"bytes_sent", "body_bytes_sent", "connections_waiting",
          "connections_active", "status", "connection", "request_length"}
          \union FloatNames |->
     IF f \in FloatNames THEN "float" ELSE "int"]

Zero(f) ==
  IF f \notin DOMAIN NumericFields THEN Text("")
  ELSE IF NumericFields[f] = "int" THEN Whole(0) ELSE Float(0)

(* buildEnv: a missing field and a number that does not convert are zero.  *)
Env(entry, f) ==
  LET s == Field(entry, f)
  IN  IF f \notin DOMAIN NumericFields THEN Text(s)
      ELSE IF NumericFields[f] = "int"
           THEN IF s \in DOMAIN Numeral THEN Whole(Numeral[s]) ELSE Zero(f)
           ELSE IF s \in DOMAIN Decimal THEN Float(Decimal[s]) ELSE Zero(f)

(* The field names of the configured columns, without the enrichments.     *)
FilterFields(c) == {c.columns[col] : col \in DOMAIN c.columns} \ Underscored

Compiles(expr, fields) ==
  Exprs[expr].test # "broken" /\ Exprs[expr].field \in fields

(* A rate that is no number passes, and samples nothing: it is that of 0.  *)
Valid(rule, fields) ==
  /\ rule.action \in {"drop", "keep"}
  /\ rule.rate \in 0 .. RateScale
  /\ Compiles(rule.expr, fields)

(* NewChain: one rule that is not valid refuses them all.                  *)
ChainValid(rs, fields) == \A i \in DOMAIN rs : Valid(rs[i], fields)

-----------------------------------------------------------------------------
Matches(rule, entry) ==
  LET e == Exprs[rule.expr]
      v == Env(entry, e.field)
  IN  IF e.test = "convert" /\ v.type = "text"
      THEN v.value \in DOMAIN Numeral /\ Numeral[v.value] > 0
      ELSE v # Zero(e.field)

EvaluationFails(rule, entry) ==
  LET v == Env(entry, Exprs[rule.expr].field)
  IN  Exprs[rule.expr].test = "convert" /\ v.type = "text" /\ v.value \notin DOMAIN Numeral

Sampled(rule) == 0 < rule.rate /\ rule.rate < RateScale

(* slip: a failing expression counts as no match                           *)
RetainsNoMatchOnError(rule, entry, draw) ==
  IF Matches(rule, entry) /\ ~EvaluationFails(rule, entry)
  THEN IF Sampled(rule) /\ draw >= rule.rate
       THEN rule.action = "drop"
       ELSE rule.action = "keep"
  ELSE rule.action = "drop"

(* applyRule for one entry, with draw for rand.Float64.                    *)
Retains(rule, entry, draw) ==
  \/ EvaluationFails(rule, entry)
  \/ IF Matches(rule, entry)
     THEN IF Sampled(rule) /\ draw >= rule.rate
          THEN rule.action = "drop"
          ELSE rule.action = "keep"
     ELSE rule.action = "drop"

Positions(s) == [i \in DOMAIN s |-> i]

Apply(es) ==
  /\ entries' = es
  /\ level' = 1
  /\ IF rules = <<>>
     THEN todo' = <<>> /\ kept' = Positions(es)
     ELSE todo' = Positions(es) /\ kept' = <<>>
  /\ UNCHANGED rules

ApplyRule ==
  /\ level \in DOMAIN rules
  /\ todo # <<>>
  /\ \E draw \in 0 .. RateScale - 1 :
       kept' = IF Retains(rules[level], entries[Head(todo)], draw)
               THEN Append(kept, Head(todo)) ELSE kept
  /\ todo' = Tail(todo)
  /\ UNCHANGED <<rules, entries, level>>

(* slip: every other rule is skipped                                       *)
NextRuleSkipping ==
  /\ level \in DOMAIN rules
  /\ todo = <<>>
  /\ level' = level + 2
  /\ IF level + 2 \in DOMAIN rules
     THEN todo' = kept /\ kept' = <<>>
     ELSE UNCHANGED <<todo, kept>>
  /\ UNCHANGED <<rules, entries>>

(* The result of one rule is the input of the next.                        *)
NextRule ==
  /\ level \in DOMAIN rules
  /\ todo = <<>>
  /\ level' = level + 1
  /\ IF level + 1 \in DOMAIN rules
     THEN todo' = kept /\ kept' = <<>>
     ELSE UNCHANGED <<todo, kept>>
  /\ UNCHANGED <<rules, entries>>

(* The entries Apply returns.                                              *)
Result == [i \in DOMAIN kept |-> entries[kept[i]]]

Applied == level > Len(rules)

-----------------------------------------------------------------------------
(* What a rule does to a single entry, as README.md (Filtering & Sampling) *)
(* describes it: whether it must drop it, and whether it may.              *)
MayDrop(rule, entry) ==
  /\ ~EvaluationFails(rule, entry)
  /\ \/ rule.action = "drop" /\ Matches(rule, entry)
     \/ rule.action = "keep" /\ (~Matches(rule, entry) \/ Sampled(rule))

MustDrop(rule, entry) ==
  /\ MayDrop(rule, entry)
  /\ ~(Sampled(rule) /\ Matches(rule, entry))

(* Apply decides every entry on its own: it returns those no rule may drop *)
(* and none that some rule must drop, whatever the order of the rules, the *)
(* other entries and the draws, in the order of the batch, and a failing   *)
(* expression costs no entry (filter.Apply, applyRule).                    *)
DecidedByEntry ==
  level > 0 /\ Applied =>
    /\ \A i \in DOMAIN entries :
         /\ (\A r \in DOMAIN rules : ~MayDrop(rules[r], entries[i])) => i \in ToSet(kept)
         /\ (\E r \in DOMAIN rules : MustDrop(rules[r], entries[i])) => i \notin ToSet(kept)
    /\ \A j, k \in DOMAIN kept : j < k => kept[j] < kept[k]

=============================================================================
