------------------------------ MODULE Settings ------------------------------
(***************************************************************************)
(* config/config.go: the settings of the YAML file, overridden by the      *)
(* environment.  A setting that an environment variable overrides is known *)
(* by the variable's name.  What the string functions of Go make of a      *)
(* value is a table, given as a constant.                                  *)
(***************************************************************************)
EXTENDS Integers, SequencesExt

CONSTANTS
  Numeral,      \* strconv.Atoi and ParseInt: text -> number, where they succeed
  Fraction,     \* strconv.ParseFloat of a sample rate: text -> parts of RateScale
  RuleEntries,  \* FILTER_RULES split at ";", each entry cut at its first two ":"
  ExtraKey      \* the variables with the prefix ENRICHMENT_, the rest lowercased

ASSUME NumeralAssumption == \A s \in DOMAIN Numeral : Numeral[s] \in Int

ASSUME RuleEntriesAssumption ==
  \A v \in DOMAIN RuleEntries : RuleEntries[v] \in Seq(ToSet(RuleEntries[v]))

Texts ==
  {"LOG_PATH", "CLICKHOUSE_HOST", "CLICKHOUSE_PORT", "CLICKHOUSE_DB",
   "CLICKHOUSE_TABLE", "CLICKHOUSE_USER", "CLICKHOUSE_PASSWORD",
   "CLICKHOUSE_CA_CERT", "CLICKHOUSE_TLS_CERT_PATH", "CLICKHOUSE_TLS_KEY_PATH",
   "NGINX_LOG_TYPE", "NGINX_LOG_FORMAT", "NGINX_LOG_FORMAT_TYPE",
   "BUFFER_TYPE", "BUFFER_DISK_PATH",
   "ENRICHMENT_HOSTNAME", "ENRICHMENT_ENVIRONMENT", "ENRICHMENT_SERVICE"}

Numbers ==
  {"FLUSH_INTERVAL", "MAX_BUFFER_SIZE", "RETRY_MAX", "RETRY_BACKOFF_INITIAL",
   "RETRY_BACKOFF_MAX", "BUFFER_MAX_DISK_BYTES", "CIRCUIT_BREAKER_THRESHOLD",
   "CIRCUIT_BREAKER_COOLDOWN"}

Flags ==
  {"CLICKHOUSE_TLS", "CLICKHOUSE_TLS_SKIP_VERIFY",
   "CLICKHOUSE_USE_SERVER_SIDE_BATCHING", "CIRCUIT_BREAKER_ENABLED"}

(* os.Getenv: a variable that is not set reads as the empty text.          *)
Getenv(environ, name) ==
  LET at == {i \in DOMAIN environ : environ[i].name = name}
  IN  IF at = {} THEN "" ELSE environ[CHOOSE i \in at : TRUE].value

-----------------------------------------------------------------------------
OverrideNumber(environ, name, old) ==
  LET v == Getenv(environ, name)
  IN  IF v \in DOMAIN Numeral THEN Numeral[v] ELSE old

OverrideText(environ, name, old) ==
  LET v == Getenv(environ, name) IN IF v = "" THEN old ELSE v

(* Every text but "true" turns a flag off.                                 *)
OverrideFlag(environ, name, old) ==
  LET v == Getenv(environ, name) IN IF v = "" THEN old ELSE v = "true"

-----------------------------------------------------------------------------
(* An entry of FILTER_RULES is expr:action[:sample_rate].  A malformed     *)
(* entry is logged and skipped; an empty one, as after a last ";", too.    *)
WellFormed(tokens) ==
  \/ Len(tokens) = 2
  \/ Len(tokens) = 3 /\ tokens[3] \in DOMAIN Fraction

RuleOf(tokens) ==
  [expr   |-> tokens[1],
   action |-> tokens[2],
   rate   |-> IF Len(tokens) = 3 THEN Fraction[tokens[3]] ELSE 0]

(* The elements of s at the positions in at, appended one after the other. *)
Picked(s, at) ==
  FoldLeftDomain(LAMBDA part, i : IF i \in at THEN Append(part, s[i]) ELSE part, <<>>, s)

RulesOf(entries) ==
  LET valid == Picked(entries, {i \in DOMAIN entries : WellFormed(entries[i])})
  IN  [i \in DOMAIN valid |-> RuleOf(valid[i])]

(* slip: the rules of the environment are added to those of the file       *)
OverrideFiltersAdding(environ, old) ==
  LET v == Getenv(environ, "FILTER_RULES")
  IN  IF v = "" THEN old ELSE old \o RulesOf(RuleEntries[v])

(* Whatever the entries yield, also nothing, replaces the rules.           *)
OverrideFilters(environ, old) ==
  LET v == Getenv(environ, "FILTER_RULES")
  IN  IF v = "" THEN old ELSE RulesOf(RuleEntries[v])

-----------------------------------------------------------------------------
(* The other ENRICHMENT_ variables, empty or not, go into the extra map in *)
(* the order of os.Environ: of two that differ in case only the later wins.*)
Known == {"ENRICHMENT_HOSTNAME", "ENRICHMENT_ENVIRONMENT", "ENRICHMENT_SERVICE"}

(* slip: the known variables go into the extra map, too                    *)
IsAnyEnrichment(v) == v.name \in DOMAIN ExtraKey

IsExtra(v) == v.name \in DOMAIN ExtraKey \ Known

WithExtra(extra, v) ==
  [k \in DOMAIN extra \union {ExtraKey[v.name]} |->
     IF k = ExtraKey[v.name] THEN v.value ELSE extra[k]]

OverrideExtra(environ, old) ==
  FoldLeft(LAMBDA extra, v : IF IsExtra(v) THEN WithExtra(extra, v) ELSE extra,
           old, environ)

SetEnvVariables(c, environ) ==
  [c EXCEPT
     !.text    = [n \in Texts |-> OverrideText(environ, n, c.text[n])],
     !.number  = [n \in Numbers |-> OverrideNumber(environ, n, c.number[n])],
     !.flag    = [n \in Flags |-> OverrideFlag(environ, n, c.flag[n])],
     !.filters = OverrideFilters(environ, c.filters),
     !.extra   = OverrideExtra(environ, c.extra)]

=============================================================================
