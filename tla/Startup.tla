------------------------------ MODULE Startup ------------------------------
(***************************************************************************)
(* main.go from Read to the read loop, runCheck and clickhouse/check.go:   *)
(* a start of the program, or of -check, with the settings it finds, and   *)
(* the first flushes after it.  The steps are those of main, in its order; *)
(* logrus.Fatal, a panic and os.Exit(1) end the process.                   *)
(*                                                                         *)
(* ClickHouse is external: a server that is up or not, with or without the *)
(* database, the table and its columns, each with the types of values it   *)
(* takes; all of it may change between two steps.  So is the host: what of *)
(* it works is a constant of one start.                                    *)
(***************************************************************************)
EXTENDS FilterChain

CONSTANTS
  Files,       \* settings a YAML file may hold
  Environs,    \* environments: sequences of variables
  Hosts,       \* sets of what works on the host
  Servers,     \* states of ClickHouse
  Batches,     \* lines that wait in the disk buffer or in the log
  HostName,    \* os.Hostname
  MaxSeconds,  \* the most that times time.Second fits into 64 bits
  Wrapped,     \* what the product of more seconds may come to
  MaxFlushes,  \* bound on flushes
  MaxChanges   \* bound on changes of the server

(* config.Read leaves what the file does not mention at its zero value.    *)
ASSUME FilesAssumption ==
  \A f \in Files :
    /\ DOMAIN f = {"text", "number", "flag", "columns", "filters", "extra"}
    /\ DOMAIN f.text = Texts
    /\ f.number \in [Numbers -> Int]
    /\ f.filters \in Seq(ToSet(f.filters))
    /\ f.extra = [k \in DOMAIN f.extra |-> f.extra[k]]

(* What Getenv finds under FILTER_RULES, strings.Split can split.          *)
ASSUME EnvironsAssumption ==
  \A e \in Environs :
    /\ e \in Seq(ToSet(e))
    /\ Getenv(e, "FILTER_RULES") \in DOMAIN RuleEntries \union {""}

ASSUME BatchesAssumption == \A b \in Batches : b \in Seq(ToSet(b))

ASSUME DurationAssumption == MaxSeconds \in Nat /\ Wrapped \subseteq Int

ASSUME BoundsAssumption == MaxFlushes \in Nat /\ MaxChanges \in Nat

VARIABLES
  file, environ, host, lines,  \* what the start finds
  mode,      \* "check", "file" (tail or -once) or "stdin"
  pc,        \* the next step
  c,         \* the settings in force
  server,    \* ClickHouse
  spool,     \* lines of a previous process: "none", "left" or "taken" by this one
  serving,   \* the metrics server has been started
  allOK,     \* of runCheck
  checked,   \* -check has passed with these settings
  saved,     \* what the last Save returned: "none", "nil" or "error"
  rows,      \* the rows stored, by their place in the batch
  flushes,   \* flushes so far
  changes    \* changes of the server so far

found == <<file, environ, host, lines>>
process == <<mode, pc, c, spool, serving, allOK, checked>>
saving == <<saved, rows, flushes>>
vars == <<found, process, filterVars, server, saving, changes>>

Init ==
  /\ file \in Files
  /\ environ \in Environs
  /\ host \in Hosts
  /\ lines \in Batches
  /\ mode \in {"check", "file", "stdin"}
  /\ pc = "read"
  /\ c = file
  /\ server \in Servers
  /\ spool \in {"none", "left"}
  /\ serving = FALSE
  /\ allOK = TRUE
  /\ checked = FALSE
  /\ rules = <<>>
  /\ entries = <<>>
  /\ level = 0
  /\ todo = <<>>
  /\ kept = <<>>
  /\ saved = "none"
  /\ rows = <<>>
  /\ flushes = 0
  /\ changes = 0

-----------------------------------------------------------------------------
Works(thing) == thing \in host

Goto(from, to) ==
  /\ pc = from
  /\ pc' = to

(* A step that ends the process unless ok holds.                           *)
GotoOrDie(from, ok, to) == Goto(from, IF ok THEN to ELSE "dead")

Default(name, value) ==
  [c EXCEPT !.number[name] = IF @ = 0 THEN value ELSE @]

Json == c.text["NGINX_LOG_FORMAT_TYPE"] = "json"

Read ==
  /\ GotoOrDie("read", Works("config"), "environment")
  /\ UNCHANGED <<mode, c, spool, serving, allOK, checked, filterVars>>

SetEnvironment ==
  /\ Goto("environment", "hostname")
  /\ c' = SetEnvVariables(c, environ)
  /\ UNCHANGED <<mode, spool, serving, allOK, checked, filterVars>>

ResolveHostname ==
  /\ Goto("hostname", "defaults")
  /\ c' = IF c.text["ENRICHMENT_HOSTNAME"] = "auto" /\ Works("hostname")
          THEN [c EXCEPT !.text["ENRICHMENT_HOSTNAME"] = HostName] ELSE c
  /\ UNCHANGED <<mode, spool, serving, allOK, checked, filterVars>>

(* slip: the default of the buffer is left to the breaker's settings       *)
NoDefaultBufferSize ==
  /\ Goto("defaults", "parser")
  /\ UNCHANGED <<mode, c, spool, serving, allOK, checked, filterVars>>

DefaultBufferSize ==
  /\ Goto("defaults", "parser")
  /\ c' = Default("MAX_BUFFER_SIZE", 10000)
  /\ UNCHANGED <<mode, spool, serving, allOK, checked, filterVars>>

(* Every format type but "json" is text.                                   *)
NewParser ==
  /\ GotoOrDie("parser", Json \/ Works("format"), "filters")
  /\ UNCHANGED <<mode, c, spool, serving, allOK, checked, filterVars>>

NewChain ==
  /\ GotoOrDie("filters", ChainValid(c.filters, FilterFields(c)),
               IF mode = "check" THEN "check" ELSE "buffer")
  /\ rules' = c.filters
  /\ UNCHANGED <<mode, c, spool, serving, allOK, checked, entries, level, todo, kept>>

-----------------------------------------------------------------------------
(* -check.  The log only has to be there (os.Stat).  A check of ClickHouse *)
(* that fails skips the ones behind it.                                    *)
CheckHost ==
  /\ Goto("check", "connect")
  /\ allOK' = /\ Json \/ Works("format")
              /\ ChainValid(c.filters, FilterFields(c))
              /\ Works("log")
  /\ UNCHANGED <<mode, c, spool, serving, checked, filterVars>>

(* slip: a check that fails is reported, but not remembered                *)
CheckServerForgets(from, ok, to) ==
  /\ Goto(from, IF ok THEN to ELSE "close")
  /\ UNCHANGED <<mode, c, spool, serving, allOK, checked, filterVars>>

CheckServer(from, ok, to) ==
  /\ Goto(from, IF ok THEN to ELSE "close")
  /\ allOK' = (allOK /\ ok)
  /\ UNCHANGED <<mode, c, spool, serving, checked, filterVars>>

Connects == c.text["CLICKHOUSE_PORT"] \in DOMAIN Numeral /\ server.up

(* A server without the database may refuse the connection already.        *)
CheckConnection ==
  \E refused \in BOOLEAN :
    /\ refused => ~server.database
    /\ CheckServer("connect", Connects /\ ~refused, "database")

CheckDatabase == CheckServer("database", server.up /\ server.database, "table")

(* slip: a table without a look at the database                            *)
CheckTableSkipped == CheckServer("table", server.up, "columns")

CheckTable == CheckServer("table", server.up /\ server.table, "columns")

Plain == {col \in DOMAIN c.columns : c.columns[col] \notin Underscored}

(* Columns of enrichments are skipped.                                     *)
CheckColumns == CheckServer("columns", server.up /\ Plain \subseteq DOMAIN server.columns, "close")

(* slip: main goes on after -check                                         *)
CheckGoesOn ==
  /\ Goto("close", "buffer")
  /\ checked' = allOK
  /\ UNCHANGED <<mode, c, spool, serving, allOK, filterVars>>

CheckEnds ==
  /\ Goto("close", "exit")
  /\ checked' = allOK
  /\ UNCHANGED <<mode, c, spool, serving, allOK, filterVars>>

Check ==
  \/ CheckHost \/ CheckConnection \/ CheckDatabase
  \/ CheckTable \/ CheckColumns \/ CheckEnds

(* The check has passed, and the program is started for good.              *)
StartChecked ==
  /\ Goto("exit", "read")
  /\ checked
  /\ mode' \in {"file", "stdin"}
  /\ c' = file
  /\ UNCHANGED <<spool, serving, allOK, checked, filterVars>>

-----------------------------------------------------------------------------
Disk == c.text["BUFFER_TYPE"] = "disk"

(* Every buffer type but "disk" is memory; make panics below 0.            *)
NewBuffer ==
  /\ GotoOrDie("buffer",
               IF Disk THEN Works("spool") ELSE c.number["MAX_BUFFER_SIZE"] >= 0,
               "replay")
  /\ UNCHANGED <<mode, c, spool, serving, allOK, checked, filterVars>>

Parsed == Parse(IF Json THEN "json" ELSE "text", lines)

(* Recovered lines take the way of a flush.  When there are none, or they  *)
(* cannot be read, which is only logged, main goes on.                     *)
Replay ==
  /\ \/ /\ Disk /\ spool = "left"
        /\ Goto("replay", "filter")
        /\ spool' = "taken"
        /\ Apply(Parsed)
     \/ /\ Goto("replay", "breaker")
        /\ UNCHANGED <<spool, filterVars>>
  /\ UNCHANGED <<mode, c, serving, allOK, checked>>

(* Seconds as a time.Duration, which wraps.                                *)
Durations(seconds) ==
  IF seconds \in -MaxSeconds .. MaxSeconds THEN {seconds} ELSE Wrapped

NewBreaker ==
  /\ Goto("breaker", "serve")
  /\ IF c.flag["CIRCUIT_BREAKER_ENABLED"]
     THEN \E cooldown \in Durations(c.number["CIRCUIT_BREAKER_COOLDOWN"]) :
            c' = [Default("CIRCUIT_BREAKER_THRESHOLD", 5) EXCEPT
                    !.number["CIRCUIT_BREAKER_COOLDOWN"] = IF cooldown = 0 THEN 60 ELSE cooldown]
     ELSE UNCHANGED c
  /\ UNCHANGED <<mode, spool, serving, allOK, checked, filterVars>>

Serve ==
  /\ Goto("serve", "source")
  /\ serving' = TRUE
  /\ UNCHANGED <<mode, c, spool, allOK, checked, filterVars>>

(* os.Open or follower.New, only now.                                      *)
OpenLineSource ==
  /\ GotoOrDie("source", mode = "stdin" \/ Works("readable"), "running")
  /\ UNCHANGED <<mode, c, spool, serving, allOK, checked, filterVars>>

(* ListenAndServe fails in its goroutine, and logrus.Fatal ends the        *)
(* process whatever the others are at.                                     *)
ServeFails ==
  /\ serving
  /\ ~Works("port")
  /\ pc \notin {"exit", "dead"}
  /\ pc' = "dead"
  /\ UNCHANGED <<mode, c, spool, serving, allOK, checked, filterVars>>

Launch ==
  \/ Read \/ SetEnvironment \/ ResolveHostname \/ DefaultBufferSize
  \/ NewParser \/ NewChain \/ Check \/ StartChecked
  \/ NewBuffer \/ Replay \/ NewBreaker \/ Serve \/ OpenLineSource
  \/ ServeFails

-----------------------------------------------------------------------------
(* flush: the lines are parsed and filtered; when the last Save failed     *)
(* they have been written back and come again.                             *)
Flush ==
  /\ flushes < MaxFlushes
  /\ saved # "nil"
  /\ flushes' = flushes + 1
  /\ Goto("running", "filter")
  /\ Apply(Parsed)
  /\ UNCHANGED <<mode, c, spool, serving, allOK, checked, saved, rows>>

Filter ==
  /\ pc = "filter"
  /\ ApplyRule \/ NextRule
  /\ UNCHANGED <<process, saving>>

Resume == Goto("filter", IF serving THEN "running" ELSE "breaker")

(* The query of Save names every configured column.                        *)
Inserts ==
  /\ Connects
  /\ server.database /\ server.table
  /\ DOMAIN c.columns \subseteq DOMAIN server.columns

(* The columns there are take the values of an entry.                      *)
Fits(entry) ==
  \A col \in DOMAIN c.columns \intersect DOMAIN server.columns :
    BuildRow(entry, c)[col].type \in server.columns[col]

Fitting == {i \in DOMAIN Result : Fits(Result[i])}

(* Save, with its retries: without entries or columns it does nothing.     *)
(* That Append refuses a row is only logged; the driver sends the others,  *)
(* or its Send fails.                                                      *)
Save ==
  /\ Applied
  /\ Resume
  /\ IF kept = <<>> \/ c.columns = <<>>
     THEN saved' = "nil" /\ UNCHANGED rows
     ELSE \/ /\ Inserts
             /\ saved' = "nil"
             /\ rows' = [i \in Fitting |-> BuildRow(Result[i], c)]
          \/ /\ ~Inserts \/ Fitting # DOMAIN Result
             /\ saved' = "error"
             /\ UNCHANGED rows
  /\ UNCHANGED <<mode, c, spool, serving, allOK, checked, filterVars, flushes>>

(* Somebody stops ClickHouse, or changes its tables.                       *)
ServerChanges ==
  /\ changes < MaxChanges
  /\ changes' = changes + 1
  /\ server' \in Servers \ {server}
  /\ UNCHANGED <<found, process, filterVars, saving>>

(* The process has ended, or the bound on its flushes is reached.          *)
Rest ==
  /\ \/ pc = "dead"
     \/ pc = "exit" /\ ~checked
     \/ pc = "running" /\ (saved = "nil" \/ flushes = MaxFlushes)
  /\ UNCHANGED vars

Step ==
  \/ Launch /\ UNCHANGED <<found, server, saving, changes>>
  \/ (Flush \/ Filter \/ Save) /\ UNCHANGED <<found, server, changes>>

Next == Step \/ ServerChanges \/ Rest

Spec == Init /\ [][Next]_vars

-----------------------------------------------------------------------------
Steps ==
  {"read", "environment", "hostname", "defaults", "parser", "filters", "check",
   "connect", "database", "table", "columns", "close", "exit", "buffer", "replay",
   "breaker", "serve", "source", "running", "filter", "dead"}

TypeOK ==
  /\ pc \in Steps
  /\ mode \in {"check", "file", "stdin"}
  /\ spool \in {"none", "left", "taken"}
  /\ {serving, allOK, checked} \subseteq BOOLEAN
  /\ level \in 0 .. Len(rules) + 1
  /\ ToSet(kept) \union ToSet(todo) \subseteq DOMAIN entries
  /\ saved \in {"none", "nil", "error"}
  /\ flushes \in 0 .. MaxFlushes
  /\ changes \in 0 .. MaxChanges

(* While the server stays as it is, -check passes exactly when the log is  *)
(* there, the connection comes about, and database, table and the columns  *)
(* of the log's fields exist: its queries, of which a failing one ends the *)
(* checks, add up to that (Client.Check, runCheck).                        *)
CheckExact ==
  pc = "exit" /\ changes = 0 =>
    (checked <=> /\ Works("log") /\ Connects
                 /\ server.database /\ server.table
                 /\ Plain \subseteq DOMAIN server.columns)

(* What -check has passed starts and can save, if nothing changes, but for *)
(* what it does not look at: the disk buffer's directory, the port of the  *)
(* metrics server, a negative buffer size, whether the log can be opened;  *)
(* the columns of enrichments, and whether the columns take the values of  *)
(* the lines (runCheck against main and Client.Save).                      *)
CheckedStartSaves ==
  checked /\ changes = 0 =>
    /\ pc = "dead" => \/ ~Works("port") \/ ~Works("spool")
                      \/ c.number["MAX_BUFFER_SIZE"] < 0
                      \/ mode = "file" /\ ~Works("readable")
    /\ saved = "error" => \/ ~((DOMAIN c.columns \ Plain) \subseteq DOMAIN server.columns)
                          \/ \E i \in DOMAIN Parsed : ~Fits(Parsed[i])

(* No rule is ignored or invented: the process runs with exactly the rules *)
(* that were asked for, those of FILTER_RULES if it is set, and only if    *)
(* all of them are valid.  Only entries without an action, or with a rate  *)
(* that is no number, may go missing (Config.SetEnvVariables, NewChain).   *)
RulesAsAsked ==
  pc = "running" =>
    LET v == Getenv(environ, "FILTER_RULES")
        asked == IF v = "" THEN ToSet(file.filters)
                 ELSE {RuleOf(e) : e \in {t \in ToSet(RuleEntries[v]) : WellFormed(t)}}
    IN  /\ ToSet(rules) = asked
        /\ \A r \in asked : r.rate \in 0 .. RateScale /\ Compiles(r.expr, FilterFields(c))

(* The lines of a previous process are deleted from the disk buffer only   *)
(* by a start proper whose log format and rules have proved usable, and    *)
(* nothing ends it before a Save has been tried with them.  The log and    *)
(* the port are tried later: a start that they end has deleted the lines   *)
(* (main.go:177, 221, 231), stored or not (main.go:190).                   *)
RecoveryIsLast ==
  spool = "taken" =>
    /\ mode # "check"
    /\ Json \/ Works("format")
    /\ ChainValid(c.filters, FilterFields(c))
    /\ pc = "filter" \/ saved # "none"

(* Settings that are not negative come out of main as the buffer and the   *)
(* breaker need them (SettingsAssumption of Pipeline, ConfigAssumption of  *)
(* CircuitBreaker), whatever file and environment leave out or misspell;   *)
(* a cooldown that wraps to a negative duration counts as negative.        *)
AssumptionsMet ==
  pc = "running" /\ (\A n \in Numbers : c.number[n] >= 0) =>
    /\ c.number["MAX_BUFFER_SIZE"] > 0
    /\ c.flag["CIRCUIT_BREAKER_ENABLED"] =>
         /\ c.number["CIRCUIT_BREAKER_THRESHOLD"] > 0
         /\ c.number["CIRCUIT_BREAKER_COOLDOWN"] > 0

(* The rules hold of what is stored: judged by the number in its row, no   *)
(* entry is stored that a rule drops, and none that a rule should keep out *)
(* (buildEnv and ParseField convert the same fields the same way).         *)
StoredRowsPassRules ==
  \A i \in DOMAIN rows, r \in DOMAIN rules, col \in DOMAIN c.columns :
    LET v == rows[i][col]
    IN  Exprs[rules[r].expr].field = c.columns[col] /\ v.type # "text" /\ ~Sampled(rules[r])
          => (rules[r].action = "keep" <=> v.value # 0)

(* An _extra column holds the last variable of that name, however its case *)
(* is written, else the value of the file; the variables with a field of   *)
(* their own never show up there (SetEnvVariables, resolveEnrichment).     *)
ExtraReachesRows ==
  \A i \in DOMAIN rows, col \in DOMAIN c.columns :
    c.columns[col] \in DOMAIN ExtraSource =>
      LET key == ExtraSource[c.columns[col]]
          set == {j \in DOMAIN environ : /\ environ[j].name \in DOMAIN ExtraKey \ Known
                                         /\ ExtraKey[environ[j].name] = key}
      IN  rows[i][col].value =
            IF set = {} THEN Lookup(file.extra, key)
            ELSE environ[CHOOSE j \in set : \A k \in set : k <= j].value

-----------------------------------------------------------------------------
(* "they are resolved at runtime and do not need to exist in the table"    *)
(* (clickhouse/check.go:132): what -check has passed can be saved, if the  *)
(* columns take the values.                                                *)
CheckedColumnsSave ==
  checked /\ changes = 0 /\ (\A i \in DOMAIN Parsed : Fits(Parsed[i])) => saved # "error"

=============================================================================
