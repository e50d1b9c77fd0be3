---------------------------- MODULE StartupProofs ----------------------------
(***************************************************************************)
(* A start for any file, environment, host and server: -check means what   *)
(* it says, what it has passed can start and save, only settings that have *)
(* proved usable take lines out of the disk buffer, and main's defaults    *)
(* meet what the buffer and the circuit breaker assume.                    *)
(***************************************************************************)
EXTENDS Startup, FoldLemmas, TLAPS

(* The settings as file and environment make them.  main changes only the  *)
(* hostname and some numbers of them.                                      *)
Final == SetEnvVariables(file, environ)

Agrees ==
  /\ c.columns = Final.columns
  /\ c.filters = Final.filters
  /\ c.extra = Final.extra
  /\ c.text["CLICKHOUSE_PORT"] = Final.text["CLICKHOUSE_PORT"]
  /\ c.text["NGINX_LOG_FORMAT_TYPE"] = Final.text["NGINX_LOG_FORMAT_TYPE"]

FormatOK == Final.text["NGINX_LOG_FORMAT_TYPE"] = "json" \/ Works("format")

RulesOK == ChainValid(Final.filters, FilterFields(Final))

Reachable == Final.text["CLICKHOUSE_PORT"] \in DOMAIN Numeral /\ server.up

LogColumns == {col \in DOMAIN Final.columns : Final.columns[col] \notin Underscored}

ServerOK ==
  /\ Reachable
  /\ server.database /\ server.table
  /\ LogColumns \subseteq DOMAIN server.columns

-----------------------------------------------------------------------------
Early == {"read", "environment", "hostname", "defaults", "parser", "filters"}
CheckSteps == {"check", "connect", "database", "table", "columns", "close", "exit"}
RunSteps == {"buffer", "replay", "breaker", "serve", "source", "running", "filter"}

ShapeOf(s) ==
  /\ DOMAIN s = {"text", "number", "flag", "columns", "filters", "extra"}
  /\ DOMAIN s.text = Texts
  /\ s.number \in [Numbers -> Int]

(* How the settings in force come about, and in which mode main is where.  *)
SettingsInv ==
  /\ file \in Files
  /\ mode \in {"check", "file", "stdin"}
  /\ pc \in Early \union CheckSteps \union RunSteps \union {"dead"}
  /\ pc \in {"read", "environment"} => c = file
  /\ ShapeOf(c)
  /\ pc \notin {"read", "environment", "dead"} => Agrees
  /\ saved = "error" => Agrees
  /\ pc \in CheckSteps => mode = "check"
  /\ pc \in RunSteps => mode # "check"
  /\ mode = "check" => saved = "none" /\ ~serving
  /\ serving => pc \in RunSteps \union {"dead"}
  /\ mode = "check" /\ checked => pc = "exit"
  /\ pc \notin {"read", "dead"} => Works("config")
  /\ pc \in {"filters"} \union CheckSteps \union RunSteps => FormatOK
  /\ pc \in CheckSteps \union RunSteps => RulesOK

(* What each check adds to the ones before it.                             *)
CheckProgress ==
  /\ pc \in {"connect", "database", "table", "columns"} => (allOK <=> Works("log"))
  /\ pc \in {"database", "table", "columns"} => Reachable
  /\ pc \in {"table", "columns"} => server.database
  /\ pc = "columns" => server.table
  /\ pc = "close" => (allOK <=> Works("log") /\ ServerOK)
  /\ pc = "exit" => (checked <=> Works("log") /\ ServerOK)

(* What a passed check is worth to the start after it.                     *)
PassedInv ==
  checked =>
    /\ Works("config") /\ FormatOK /\ RulesOK /\ Works("log") /\ ServerOK
    /\ pc = "dead" => \/ ~Works("port") \/ ~Works("spool")
                      \/ c.number["MAX_BUFFER_SIZE"] < 0
                      \/ mode = "file" /\ ~Works("readable")

CheckInv ==
  /\ changes \in Nat
  /\ changes = 0 => CheckProgress /\ PassedInv

-----------------------------------------------------------------------------
(* The steps see the settings through the fields that agree.               *)
LEMMA SeenThroughSettings ==
  ASSUME Agrees
  PROVE  /\ Json <=> Final.text["NGINX_LOG_FORMAT_TYPE"] = "json"
         /\ Connects <=> Reachable
         /\ Plain = LogColumns
         /\ ChainValid(c.filters, FilterFields(c)) <=> RulesOK
<1>1. FilterFields(c) = FilterFields(Final)
  BY DEF Agrees, FilterFields
<1> QED
  BY <1>1 DEF Agrees, Json, Connects, Reachable, Plain, LogColumns, RulesOK

(* SetEnvVariables keeps the columns and the shape.                        *)
LEMMA OverriddenShape ==
  ASSUME NEW f \in Files
  PROVE  ShapeOf(SetEnvVariables(f, environ))
<1> DEFINE s == SetEnvVariables(f, environ)
<1>1. ShapeOf(f)
  BY FilesAssumption DEF ShapeOf
<1>2. /\ DOMAIN s = DOMAIN f
      /\ s.text = [n \in Texts |-> OverrideText(environ, n, f.text[n])]
      /\ s.number = [n \in Numbers |-> OverrideNumber(environ, n, f.number[n])]
  BY <1>1 DEF SetEnvVariables, ShapeOf
<1>3. ASSUME NEW n \in Numbers PROVE OverrideNumber(environ, n, f.number[n]) \in Int
  BY <1>1, NumeralAssumption DEF OverrideNumber, ShapeOf
<1> QED
  BY <1>1, <1>2, <1>3 DEF ShapeOf

(* A default changes a number and nothing else.                            *)
LEMMA DefaultShape ==
  ASSUME ShapeOf(c), NEW name \in Numbers, NEW value \in Int
  PROVE  LET s == Default(name, value)
         IN  /\ ShapeOf(s)
             /\ s.columns = c.columns /\ s.filters = c.filters /\ s.extra = c.extra
             /\ s.text = c.text
             /\ s.flag = c.flag
             /\ s.number[name] = IF c.number[name] = 0 THEN value ELSE c.number[name]
             /\ \A n \in Numbers \ {name} : s.number[n] = c.number[n]
<1> QED
  BY DEF Default, ShapeOf

(* A product that wraps is a number, too.                                  *)
LEMMA DurationsAreIntegers ==
  ASSUME NEW seconds \in Int, NEW d \in Durations(seconds)
  PROVE  d \in Int
<1> QED
  BY DurationAssumption DEF Durations

-----------------------------------------------------------------------------
(* A step to another place with the same settings.                         *)
LEMMA SettingsStay ==
  ASSUME SettingsInv, pc \notin {"read", "environment", "dead"},
         UNCHANGED <<file, environ, host, mode, c>>,
         \/ pc' \in {"parser", "dead"}
         \/ pc' = "filters" /\ FormatOK
         \/ pc' \in CheckSteps /\ mode = "check" /\ FormatOK /\ RulesOK
         \/ pc' \in RunSteps /\ mode # "check" /\ FormatOK /\ RulesOK,
         saved' = saved \/ mode # "check",
         serving' = serving \/ mode # "check",
         serving' => pc' \in RunSteps \union {"dead"},
         checked' = checked \/ pc' = "exit",
         checked /\ mode = "check" => pc' = "exit"
  PROVE  SettingsInv'
<1>1. UNCHANGED <<Final, FormatOK, RulesOK, Agrees, ShapeOf(c)>>
  BY DEF Final, FormatOK, RulesOK, Agrees, Works, ShapeOf
<1>2. pc' \notin {"read", "environment"} /\ Agrees /\ Works("config") /\ Works("config")'
  BY DEF SettingsInv, CheckSteps, RunSteps, Works
<1>3. /\ pc' \in Early \union CheckSteps \union RunSteps \union {"dead"}
      /\ pc' \in CheckSteps => mode = "check"
      /\ pc' \in RunSteps => mode # "check"
      /\ pc' \in {"filters"} \union CheckSteps \union RunSteps => FormatOK
      /\ pc' \in CheckSteps \union RunSteps => RulesOK
  BY DEF Early, CheckSteps, RunSteps
<1>4. /\ mode' = "check" => saved' = "none" /\ ~serving'
      /\ mode' = "check" /\ checked' => pc' = "exit"
  BY DEF SettingsInv
<1> QED
  BY <1>1, <1>2, <1>3, <1>4 DEF SettingsInv

(* Reading the settings and completing them.                               *)
LEMMA ReadingKeepsSettings ==
  ASSUME SettingsInv, UNCHANGED <<found, saving>>,
         Read \/ SetEnvironment \/ ResolveHostname \/ DefaultBufferSize \/ NewBreaker \/ StartChecked
  PROVE  SettingsInv'
<1>1. UNCHANGED <<Final, FormatOK, RulesOK, file, environ, host, saved>> /\ Works("config")' = Works("config")
  BY DEF Final, FormatOK, RulesOK, found, Works, saving
<1>2. CASE Read
  BY <1>1, <1>2 DEF Read, GotoOrDie, Goto, SettingsInv, Early, CheckSteps, RunSteps, Agrees, ShapeOf
<1>3. CASE SetEnvironment
  <2>1. c' = Final /\ ShapeOf(c') /\ Agrees'
    BY <1>1, <1>3, OverriddenShape DEF SetEnvironment, Goto, SettingsInv, Final, Agrees
  <2>2. /\ pc = "environment" /\ pc' = "hostname"
        /\ UNCHANGED <<mode, serving, checked>>
    BY <1>3 DEF SetEnvironment, Goto
  <2> QED
    BY <1>1, <2>1, <2>2 DEF SettingsInv, Early, CheckSteps, RunSteps, ShapeOf
<1>4. CASE ResolveHostname
  <2>1. /\ pc = "hostname" /\ pc' = "defaults"
        /\ UNCHANGED <<mode, serving, checked>>
        /\ ShapeOf(c) /\ Agrees
    BY <1>4 DEF ResolveHostname, Goto, SettingsInv, CheckSteps, RunSteps
  <2>2. ShapeOf(c') /\ Agrees'
    BY <1>1, <1>4, <2>1 DEF ResolveHostname, ShapeOf, Agrees
  <2> QED
    BY <1>1, <2>1, <2>2 DEF SettingsInv, Early, CheckSteps, RunSteps, ShapeOf
<1>5. CASE DefaultBufferSize
  <2>1. /\ pc = "defaults" /\ pc' = "parser"
        /\ UNCHANGED <<mode, serving, checked>>
        /\ c' = Default("MAX_BUFFER_SIZE", 10000)
        /\ ShapeOf(c) /\ Agrees
    BY <1>5 DEF DefaultBufferSize, Goto, SettingsInv, CheckSteps, RunSteps
  <2>2. "MAX_BUFFER_SIZE" \in Numbers /\ 10000 \in Int
    BY DEF Numbers
  <2>3. ShapeOf(c') /\ Agrees'
    BY <1>1, <2>1, <2>2, DefaultShape DEF Agrees
  <2> QED
    BY <1>1, <2>1, <2>3 DEF SettingsInv, Early, CheckSteps, RunSteps, ShapeOf
<1>6. CASE NewBreaker
  <2>1. /\ pc = "breaker" /\ pc' = "serve"
        /\ UNCHANGED <<mode, serving, checked>>
        /\ ShapeOf(c) /\ Agrees
    BY <1>6 DEF NewBreaker, Goto, SettingsInv, CheckSteps, RunSteps
  <2>2. ShapeOf(c') /\ Agrees'
    <3>1. {"CIRCUIT_BREAKER_THRESHOLD", "CIRCUIT_BREAKER_COOLDOWN"} \subseteq Numbers
      BY DEF Numbers
    <3>2. LET s == Default("CIRCUIT_BREAKER_THRESHOLD", 5)
          IN  ShapeOf(s) /\ s.columns = c.columns /\ s.filters = c.filters /\ s.extra = c.extra
             /\ s.text = c.text
      BY <2>1, <3>1, DefaultShape
    <3>3. \A d \in Durations(c.number["CIRCUIT_BREAKER_COOLDOWN"]) : d \in Int
      BY <2>1, <3>1, DurationsAreIntegers DEF ShapeOf
    <3> QED
      BY <1>1, <1>6, <2>1, <3>1, <3>2, <3>3 DEF NewBreaker, ShapeOf, Agrees
  <2> QED
    BY <1>1, <2>1, <2>2 DEF SettingsInv, Early, CheckSteps, RunSteps, ShapeOf
<1>7. CASE StartChecked
  <2>1. /\ pc = "exit" /\ pc' = "read" /\ mode' \in {"file", "stdin"} /\ c' = file
        /\ UNCHANGED <<serving, checked>>
    BY <1>7 DEF StartChecked, Goto
  <2>2. saved = "none"
    BY <2>1 DEF SettingsInv, CheckSteps
  <2>3. ShapeOf(c')
    BY <2>1, FilesAssumption DEF SettingsInv, ShapeOf
  <2> QED
    BY <1>1, <2>1, <2>2, <2>3 DEF SettingsInv, Early, CheckSteps, RunSteps, ShapeOf
<1> QED
  BY <1>2, <1>3, <1>4, <1>5, <1>6, <1>7

LEMMA SettingsKept == SettingsInv /\ [Next]_vars => SettingsInv'
<1> SUFFICES ASSUME SettingsInv, [Next]_vars PROVE SettingsInv'
  OBVIOUS
<1>1. CASE (Read \/ SetEnvironment \/ ResolveHostname \/ DefaultBufferSize \/ NewBreaker
            \/ StartChecked) /\ UNCHANGED <<found, saving>>
  BY <1>1, ReadingKeepsSettings
<1>2. CASE NewParser /\ UNCHANGED <<found, saving>>
  <2>1. /\ pc = "parser" /\ pc' \in {"filters", "dead"} /\ (pc' = "filters" => Json \/ Works("format"))
        /\ UNCHANGED <<file, environ, host, mode, c, serving, checked, saved>>
    BY <1>2 DEF NewParser, GotoOrDie, Goto, found, saving
  <2>2. /\ pc' = "filters" => FormatOK
        /\ mode = "check" => ~checked
        /\ ~serving
    BY <2>1, SeenThroughSettings DEF SettingsInv, FormatOK, RunSteps
  <2>3. pc' = "dead" \/ (pc' = "filters" /\ FormatOK)
    BY <2>1, <2>2
  <2> QED
    BY <2>1, <2>2, <2>3, SettingsStay
<1>3. CASE NewChain /\ UNCHANGED <<found, saving>>
  <2>1. /\ pc = "filters"
        /\ pc' = "dead" \/ /\ pc' = IF mode = "check" THEN "check" ELSE "buffer"
                           /\ ChainValid(c.filters, FilterFields(c))
        /\ UNCHANGED <<file, environ, host, mode, c, spool, serving, checked, saved>>
    BY <1>3 DEF NewChain, GotoOrDie, Goto, found, saving
  <2>2. /\ pc' # "dead" => FormatOK /\ RulesOK
        /\ mode = "check" => ~checked
        /\ ~serving
    BY <2>1, SeenThroughSettings DEF SettingsInv, RunSteps
  <2>3. \/ pc' \in {"parser", "dead"}
        \/ pc' \in CheckSteps /\ mode = "check" /\ FormatOK /\ RulesOK
        \/ pc' \in RunSteps /\ mode # "check" /\ FormatOK /\ RulesOK
    BY <2>1, <2>2 DEF CheckSteps, RunSteps
  <2> QED
    BY <2>1, <2>2, <2>3, SettingsStay
<1>4. CASE Check /\ UNCHANGED <<found, saving>>
  <2>1. /\ pc \in CheckSteps \ {"exit"} /\ pc' \in CheckSteps \ {"check"}
        /\ checked' = checked \/ pc' = "exit"
        /\ UNCHANGED <<file, environ, host, mode, c, spool, serving, saved>>
    BY <1>4 DEF Check, CheckHost, CheckConnection, CheckDatabase, CheckTable, CheckColumns,
                CheckServer, CheckEnds, Goto, CheckSteps, found, saving
  <2>2. mode = "check" /\ FormatOK /\ RulesOK /\ ~checked /\ ~serving
    BY <2>1 DEF SettingsInv, CheckSteps
  <2>3. pc \notin {"read", "environment", "dead"} /\ pc' \in CheckSteps
    BY <2>1 DEF CheckSteps
  <2> QED
    BY <2>1, <2>2, <2>3, SettingsStay
<1>5. CASE (NewBuffer \/ Replay \/ Serve \/ OpenLineSource) /\ UNCHANGED <<found, saving>>
  <2>1. /\ pc \in RunSteps /\ pc' \in RunSteps \union {"dead"}
        /\ UNCHANGED <<file, environ, host, mode, c, checked, saved>>
    BY <1>5 DEF NewBuffer, Replay, Serve, OpenLineSource, GotoOrDie, Goto, RunSteps, found, saving
  <2>2. mode # "check" /\ FormatOK /\ RulesOK
    BY <2>1 DEF SettingsInv
  <2>3. /\ pc \notin {"read", "environment", "dead"}
        /\ pc' \in {"parser", "dead"} \/ pc' \in RunSteps
    BY <2>1 DEF RunSteps
  <2> QED
    BY <2>1, <2>2, <2>3, SettingsStay
<1>6. CASE ServeFails /\ UNCHANGED <<found, saving>>
  <2>1. /\ serving /\ pc # "dead" /\ pc' = "dead"
        /\ UNCHANGED <<file, environ, host, mode, c, serving, checked, saved>>
    BY <1>6 DEF ServeFails, found, saving
  <2>2. mode # "check" /\ pc \notin {"read", "environment", "dead"}
    BY <2>1 DEF SettingsInv, RunSteps
  <2> QED
    BY <2>1, <2>2, SettingsStay
<1>7. CASE (Flush \/ Filter \/ Save) /\ UNCHANGED <<found, server, changes>>
  <2>1. /\ pc \in RunSteps /\ pc' \in RunSteps
        /\ UNCHANGED <<file, environ, host, mode, c, serving, checked>>
    BY <1>7 DEF Flush, Filter, Save, Resume, Goto, RunSteps, found, process
  <2>2. mode # "check" /\ FormatOK /\ RulesOK
    BY <2>1 DEF SettingsInv
  <2>3. pc \notin {"read", "environment", "dead"}
    BY <2>1 DEF RunSteps
  <2> QED
    BY <2>1, <2>2, <2>3, SettingsStay
<1>8. CASE ServerChanges \/ Rest \/ UNCHANGED vars
  <2>1. UNCHANGED <<found, process, saving>>
    BY <1>8 DEF ServerChanges, Rest, vars
  <2> QED
    BY <2>1 DEF found, process, saving, SettingsInv, Agrees, ShapeOf, Final, FormatOK, RulesOK, Works
<1> QED
  BY <1>1, <1>2, <1>3, <1>4, <1>5, <1>6, <1>7, <1>8 DEF Next, Step, Launch

LEMMA SettingsInitially == Init => SettingsInv
<1> SUFFICES ASSUME Init PROVE SettingsInv
  OBVIOUS
<1>1. /\ file \in Files /\ c = file /\ pc = "read" /\ saved = "none"
      /\ mode \in {"check", "file", "stdin"} /\ serving = FALSE /\ checked = FALSE
  BY DEF Init
<1>2. ShapeOf(c)
  BY <1>1, FilesAssumption DEF ShapeOf
<1> QED
  BY <1>1, <1>2 DEF SettingsInv, Early, CheckSteps, RunSteps

-----------------------------------------------------------------------------
(* The checks add up while the server stays as it is.                      *)
LEMMA CheckKept ==
  ASSUME SettingsInv, SettingsInv', CheckProgress, PassedInv, Check, UNCHANGED <<found, server, saving>>
  PROVE  CheckProgress' /\ PassedInv'
<1>1. /\ UNCHANGED <<Final, FormatOK, RulesOK, Reachable, ServerOK, c, saved>>
      /\ Works("log")' = Works("log")
  <2>1. UNCHANGED c
    BY DEF Check, CheckHost, CheckConnection, CheckDatabase, CheckTable, CheckColumns,
           CheckServer, CheckEnds
  <2> QED
    BY <2>1 DEF Final, FormatOK, RulesOK, Reachable, ServerOK, LogColumns, found, Works, saving
<1>2. pc \in CheckSteps \ {"exit"} /\ mode = "check" /\ saved = "none" /\ ~checked
  BY DEF Check, CheckHost, CheckConnection, CheckDatabase, CheckTable, CheckColumns,
         CheckServer, CheckEnds, Goto, CheckSteps, SettingsInv
<1>3. Agrees /\ Works("config") /\ FormatOK /\ RulesOK
  BY <1>2 DEF SettingsInv, CheckSteps
<1>4. ~CheckEnds => ~checked'
  BY <1>2 DEF Check, CheckHost, CheckConnection, CheckDatabase, CheckTable, CheckColumns, CheckServer
<1>5. CASE CheckHost
  <2>1. pc' = "connect" /\ (allOK' <=> Works("log"))
    BY <1>3, <1>5, SeenThroughSettings DEF CheckHost, Goto, FormatOK
  <2> QED
    BY <1>1, <1>4, <1>5, <2>1 DEF CheckProgress, PassedInv, CheckHost, CheckEnds, Goto
<1>6. CASE CheckConnection
  <2>1. PICK refused \in BOOLEAN :
          /\ refused => ~server.database
          /\ CheckServer("connect", Connects /\ ~refused, "database")
    BY <1>6 DEF CheckConnection
  <2>2. /\ allOK <=> Works("log")
        /\ pc' = IF Reachable /\ ~refused THEN "database" ELSE "close"
        /\ allOK' <=> Works("log") /\ Reachable /\ ~refused
        /\ pc = "connect"
    BY <1>3, <2>1, SeenThroughSettings DEF CheckServer, Goto, CheckProgress
  <2>3. ~(Reachable /\ ~refused) => ~ServerOK
    BY <2>1 DEF ServerOK
  <2> QED
    BY <1>1, <1>4, <2>2, <2>3 DEF CheckProgress, PassedInv, CheckEnds, Goto
<1>7. CASE CheckDatabase
  <2>1. /\ pc = "database" /\ Reachable /\ (allOK <=> Works("log"))
        /\ pc' = IF server.up /\ server.database THEN "table" ELSE "close"
        /\ allOK' <=> Works("log") /\ server.up /\ server.database
    BY <1>7 DEF CheckDatabase, CheckServer, Goto, CheckProgress
  <2>2. ~(server.up /\ server.database) => ~ServerOK
    BY DEF ServerOK, Reachable
  <2>3. UNCHANGED server
    OBVIOUS
  <2> QED
    BY <1>1, <1>4, <2>1, <2>2, <2>3 DEF CheckProgress, PassedInv, CheckEnds, Goto
<1>8. CASE CheckTable
  <2>1. /\ pc = "table" /\ Reachable /\ server.database /\ (allOK <=> Works("log"))
        /\ pc' = IF server.up /\ server.table THEN "columns" ELSE "close"
        /\ allOK' <=> Works("log") /\ server.up /\ server.table
    BY <1>8 DEF CheckTable, CheckServer, Goto, CheckProgress
  <2>2. ~(server.up /\ server.table) => ~ServerOK
    BY DEF ServerOK, Reachable
  <2>3. UNCHANGED server
    OBVIOUS
  <2> QED
    BY <1>1, <1>4, <2>1, <2>2, <2>3 DEF CheckProgress, PassedInv, CheckEnds, Goto
<1>9. CASE CheckColumns
  <2>1. /\ Reachable /\ server.database /\ server.table /\ (allOK <=> Works("log"))
        /\ pc' = "close" /\ pc = "columns"
        /\ allOK' <=> Works("log") /\ server.up /\ LogColumns \subseteq DOMAIN server.columns
    BY <1>3, <1>9, SeenThroughSettings DEF CheckColumns, CheckServer, Goto, CheckProgress
  <2>2. server.up /\ LogColumns \subseteq DOMAIN server.columns <=> ServerOK
    BY <2>1 DEF ServerOK, Reachable
  <2> QED
    BY <1>1, <1>4, <2>1, <2>2 DEF CheckProgress, PassedInv, CheckEnds, Goto
<1>10. CASE CheckEnds
  <2>1. /\ pc' = "exit" /\ pc = "close" /\ (checked' <=> Works("log") /\ ServerOK)
    BY <1>10 DEF CheckEnds, Goto, CheckProgress
  <2> QED
    BY <1>1, <1>2, <1>3, <2>1 DEF CheckProgress, PassedInv, Works, found
<1> QED
  BY <1>5, <1>6, <1>7, <1>8, <1>9, <1>10 DEF Check

(* What dies after a passed check.                                         *)
LEMMA PassedKept ==
  ASSUME SettingsInv, SettingsInv', PassedInv, UNCHANGED <<found, server>>, checked' = checked,
         (Launch /\ UNCHANGED saving) \/ Flush \/ Filter \/ Save
  PROVE  PassedInv'
<1> SUFFICES ASSUME checked, pc' = "dead"
             PROVE  \/ ~Works("port") \/ ~Works("spool")
                    \/ c'.number["MAX_BUFFER_SIZE"] < 0
                    \/ mode' = "file" /\ ~Works("readable")
  <2>1. UNCHANGED <<Final, FormatOK, RulesOK, ServerOK>>
        /\ Works("config")' = Works("config") /\ Works("log")' = Works("log")
        /\ Works("port")' = Works("port") /\ Works("spool")' = Works("spool")
        /\ Works("readable")' = Works("readable")
    BY DEF Final, FormatOK, RulesOK, ServerOK, Reachable, LogColumns, found, Works
  <2> QED
    BY <2>1 DEF PassedInv
<1>1. Works("config") /\ FormatOK /\ RulesOK /\ Works("log") /\ ServerOK
  BY DEF PassedInv
<1>2. CASE Read \/ NewParser \/ NewChain
  <2>1. ~Read
    BY <1>1 DEF Read, GotoOrDie, Goto
  <2>2. ~NewParser /\ ~NewChain
    <3>1. ASSUME NewParser \/ NewChain PROVE Agrees
      BY <3>1 DEF NewParser, NewChain, GotoOrDie, Goto, SettingsInv
    <3> QED
      BY <1>1, <3>1, SeenThroughSettings DEF NewParser, NewChain, GotoOrDie, Goto, FormatOK
  <2> QED
    BY <1>2, <2>1, <2>2
<1>3. CASE OpenLineSource
  <2>1. pc = "source" /\ mode # "stdin" /\ ~Works("readable") /\ mode' = mode
    BY <1>3 DEF OpenLineSource, GotoOrDie, Goto
  <2>2. mode # "check"
    BY <2>1 DEF SettingsInv, RunSteps
  <2>3. mode \in {"check", "file", "stdin"}
    BY DEF SettingsInv
  <2> QED
    BY <2>1, <2>2, <2>3
<1>4. CASE NewBuffer
  BY <1>4 DEF NewBuffer, GotoOrDie, Goto, SettingsInv, ShapeOf, Numbers
<1>5. CASE ServeFails
  BY <1>5 DEF ServeFails
<1>6. CASE Check
  BY <1>6 DEF Check, CheckHost, CheckConnection, CheckDatabase, CheckTable, CheckColumns,
              CheckServer, CheckEnds, Goto
<1>7. CASE Flush \/ Filter \/ Save
  <2>1. pc' # "dead"
    BY <1>7 DEF Flush, Filter, Save, Resume, Goto, process
  <2> QED
    BY <2>1
<1>8. CASE \/ SetEnvironment \/ ResolveHostname \/ DefaultBufferSize \/ StartChecked
           \/ Replay \/ NewBreaker \/ Serve
  BY <1>8 DEF SetEnvironment, ResolveHostname, DefaultBufferSize, StartChecked, Replay,
              NewBreaker, Serve, Goto
<1> QED
  BY <1>2, <1>3, <1>4, <1>5, <1>6, <1>7, <1>8 DEF Launch

LEMMA CheckInvKept == SettingsInv /\ SettingsInv' /\ CheckInv /\ [Next]_vars => CheckInv'
<1> SUFFICES ASSUME SettingsInv, SettingsInv', CheckInv, [Next]_vars PROVE CheckInv'
  OBVIOUS
<1>1. changes \in Nat
  BY DEF CheckInv
<1>2. CASE ServerChanges
  BY <1>1, <1>2 DEF ServerChanges, CheckInv
<1>3. CASE Step
  <2>1. UNCHANGED <<found, server, changes>>
    BY <1>3 DEF Step
  <2> SUFFICES ASSUME changes = 0 PROVE CheckProgress' /\ PassedInv'
    BY <1>1, <2>1 DEF CheckInv
  <2>2. CheckProgress /\ PassedInv
    BY DEF CheckInv
  <2>3. CASE Check /\ UNCHANGED saving
    BY <2>1, <2>2, <2>3, CheckKept
  <2>4. CASE (Launch /\ UNCHANGED saving /\ ~Check) \/ Flush \/ Filter \/ Save
    <3>1. checked' = checked /\ pc' \notin CheckSteps \ {"check"}
      BY <2>4 DEF Launch, Read, SetEnvironment, ResolveHostname, DefaultBufferSize, NewParser,
         NewChain, StartChecked, NewBuffer, Replay, NewBreaker, Serve, OpenLineSource, ServeFails,
         Flush, Filter, Save, Resume, GotoOrDie, Goto, CheckSteps, process
    <3>2. CheckProgress'
      BY <3>1 DEF CheckProgress, CheckSteps
    <3> QED
      BY <2>1, <2>2, <2>4, <3>1, <3>2, PassedKept
  <2> QED
    BY <1>3, <2>3, <2>4 DEF Step, Launch
<1>4. CASE Rest \/ UNCHANGED vars
  <2>1. UNCHANGED <<found, process, server, saving, changes>>
    BY <1>4 DEF Rest, vars
  <2> QED
    BY <2>1 DEF found, process, saving, CheckInv, CheckProgress, PassedInv, Final, FormatOK, RulesOK,
                ServerOK, Reachable, LogColumns, Works, Plain
<1> QED
  BY <1>2, <1>3, <1>4 DEF Next

LEMMA StartInvariance == Spec => [](SettingsInv /\ CheckInv)
<1>1. Init => SettingsInv /\ CheckInv
  <2>1. Init => CheckInv
    BY DEF Init, CheckInv, CheckProgress, PassedInv
  <2> QED
    BY <2>1, SettingsInitially
<1>2. (SettingsInv /\ CheckInv) /\ [Next]_vars => (SettingsInv /\ CheckInv)'
  BY SettingsKept, CheckInvKept
<1> QED
  BY <1>1, <1>2, PTL DEF Spec

-----------------------------------------------------------------------------
(* While the server stays as it is, -check passes exactly when what it     *)
(* looks for is there, for any settings (runCheck, Client.Check).          *)
THEOREM CheckIsExact == Spec => []CheckExact
<1>1. SettingsInv /\ CheckInv => CheckExact
  <2> SUFFICES ASSUME SettingsInv, CheckInv, pc = "exit", changes = 0
               PROVE  checked <=> /\ Works("log") /\ Connects
                                  /\ server.database /\ server.table /\ Plain \subseteq DOMAIN server.columns
    BY DEF CheckExact
  <2>1. Agrees /\ (checked <=> Works("log") /\ ServerOK)
    BY DEF SettingsInv, CheckInv, CheckProgress
  <2> QED
    BY <2>1, SeenThroughSettings DEF ServerOK
<1> QED
  BY <1>1, StartInvariance, PTL

(* Lines of a previous process are in hands only while main runs, with     *)
(* settings that have proved usable, and go into a Save first.             *)
Begun == {"breaker", "serve", "source", "running", "filter", "dead"}

RecoveryInv ==
  /\ pc \notin Begun => saved = "none" /\ ~serving
  /\ spool = "taken" =>
       /\ mode # "check" /\ pc \in Begun
       /\ Agrees /\ FormatOK /\ RulesOK
       /\ saved = "none" => pc = "filter" /\ ~serving

LEMMA RecoveryKept == SettingsInv /\ SettingsInv' /\ RecoveryInv /\ [Next]_vars => RecoveryInv'
<1> SUFFICES ASSUME SettingsInv, SettingsInv', RecoveryInv, [Next]_vars PROVE RecoveryInv'
  OBVIOUS
<1>1. CASE (Read \/ SetEnvironment \/ ResolveHostname \/ DefaultBufferSize \/ NewParser
            \/ NewChain \/ StartChecked \/ NewBuffer) /\ UNCHANGED <<found, server, saving, changes>>
  <2>1. pc \notin Begun /\ UNCHANGED <<spool, serving, saved>>
    BY <1>1 DEF Read, SetEnvironment, ResolveHostname, DefaultBufferSize, NewParser, NewChain,
                StartChecked, NewBuffer, GotoOrDie, Goto, Begun, saving
  <2> QED
    BY <2>1 DEF RecoveryInv
<1>2. CASE Check /\ UNCHANGED <<found, server, saving, changes>>
  <2>1. pc \notin Begun /\ UNCHANGED <<spool, serving, saved>>
    BY <1>2 DEF Check, CheckHost, CheckConnection, CheckDatabase, CheckTable, CheckColumns,
                CheckServer, CheckEnds, Goto, Begun, saving
  <2> QED
    BY <2>1 DEF RecoveryInv
<1>3. CASE Replay /\ UNCHANGED <<found, server, saving, changes>>
  <2>1. /\ pc = "replay" /\ pc' \in {"filter", "breaker"} /\ UNCHANGED <<serving, saved>>
        /\ pc' = "filter" \/ spool' = spool
    BY <1>3 DEF Replay, Goto, saving
  <2>2. ~serving /\ saved = "none" /\ spool # "taken"
    BY <2>1 DEF RecoveryInv, Begun
  <2>3. mode' # "check" /\ Agrees' /\ FormatOK' /\ RulesOK'
    BY <2>1 DEF SettingsInv, RunSteps
  <2> QED
    BY <2>1, <2>2, <2>3 DEF RecoveryInv, Begun
<1>4. CASE (OpenLineSource \/ ServeFails) /\ UNCHANGED <<found, server, saving, changes>>
  <2>1. /\ UNCHANGED <<mode, c, spool, saved, serving, Final, FormatOK, RulesOK>>
        /\ pc' \in {"running", "dead"} /\ (pc = "source" \/ serving)
    BY <1>4 DEF OpenLineSource, ServeFails, GotoOrDie, Goto, saving, found,
                Final, FormatOK, RulesOK, Works
  <2>2. UNCHANGED Agrees
    BY <2>1 DEF Agrees
  <2> QED
    BY <2>1, <2>2 DEF RecoveryInv, Begun
<1>5. CASE (NewBreaker \/ Serve) /\ UNCHANGED <<found, server, saving, changes>>
  <2>1. UNCHANGED <<spool, saved>> /\ pc' \in {"serve", "source"} /\ pc # "filter"
    BY <1>5 DEF NewBreaker, Serve, Goto, saving
  <2>2. mode' # "check" /\ Agrees' /\ FormatOK' /\ RulesOK'
    BY <2>1 DEF SettingsInv, RunSteps
  <2> QED
    BY <2>1, <2>2 DEF RecoveryInv, Begun
<1>6. CASE Flush \/ Filter \/ Save
  <2>1. /\ UNCHANGED <<spool, serving>> /\ pc' \in {"running", "filter", "breaker"}
        /\ \/ pc = "running" /\ saved' = saved
           \/ pc = "filter" /\ pc' = "filter" /\ saved' = saved
           \/ saved' # "none"
    BY <1>6 DEF Flush, Filter, Save, Resume, Goto, process, saving
  <2>2. mode' # "check" /\ Agrees' /\ FormatOK' /\ RulesOK'
    BY <2>1 DEF SettingsInv, RunSteps
  <2> QED
    BY <2>1, <2>2 DEF RecoveryInv, Begun
<1>7. CASE ServerChanges \/ Rest \/ UNCHANGED vars
  <2>1. UNCHANGED <<found, process, saving>>
    BY <1>7 DEF ServerChanges, Rest, vars
  <2> QED
    BY <2>1 DEF RecoveryInv, found, process, saving, Agrees, Final, FormatOK, RulesOK, Works
<1> QED
  BY <1>1, <1>2, <1>3, <1>4, <1>5, <1>6, <1>7 DEF Next, Step, Launch

(* Only a start proper with a usable log format and usable rules takes     *)
(* lines out of the disk buffer, and it does not end before a Save has     *)
(* been tried with them (main.go:119-193).                                 *)
THEOREM RecoversLast == Spec => []RecoveryIsLast
<1>1. Init => SettingsInv /\ RecoveryInv
  <2>1. Init => RecoveryInv
    BY DEF Init, RecoveryInv
  <2> QED
    BY <2>1, SettingsInitially
<1>2. (SettingsInv /\ RecoveryInv) /\ [Next]_vars => (SettingsInv /\ RecoveryInv)'
  BY SettingsKept, RecoveryKept
<1>3. SettingsInv /\ RecoveryInv => RecoveryIsLast
  BY SeenThroughSettings DEF RecoveryInv, RecoveryIsLast, FormatOK
<1> QED
  BY <1>1, <1>2, <1>3, PTL DEF Spec

-----------------------------------------------------------------------------
(* The defaults are in place from where main sets them.                    *)
BreakerSet ==
  c.flag["CIRCUIT_BREAKER_ENABLED"] =>
    /\ c.number["CIRCUIT_BREAKER_THRESHOLD"] # 0
    /\ c.number["CIRCUIT_BREAKER_COOLDOWN"] # 0

DefaultsInv ==
  /\ pc \notin {"read", "environment", "hostname", "defaults", "dead"} =>
       c.number["MAX_BUFFER_SIZE"] # 0
  /\ serving \/ pc \in {"serve", "source", "running"} => BreakerSet

LEMMA DefaultsKept == SettingsInv /\ DefaultsInv /\ [Next]_vars => DefaultsInv'
<1> SUFFICES ASSUME SettingsInv, DefaultsInv, [Next]_vars PROVE DefaultsInv'
  OBVIOUS
<1>1. ShapeOf(c) /\ (serving => pc \in RunSteps \union {"dead"})
  BY DEF SettingsInv
<1>2. CASE Read \/ SetEnvironment \/ ResolveHostname \/ StartChecked
  <2>1. /\ ~serving' /\ pc \notin RunSteps \union {"dead"}
        /\ pc' \in {"read", "environment", "hostname", "defaults", "dead"}
    BY <1>1, <1>2 DEF Read, SetEnvironment, ResolveHostname, StartChecked, GotoOrDie, Goto, RunSteps
  <2> QED
    BY <2>1 DEF DefaultsInv
<1>3. CASE DefaultBufferSize
  <2>1. "MAX_BUFFER_SIZE" \in Numbers /\ 10000 \in Int
    BY DEF Numbers
  <2>2. c' = Default("MAX_BUFFER_SIZE", 10000) /\ pc = "defaults" /\ pc' = "parser" /\ serving' = serving
    BY <1>3 DEF DefaultBufferSize, Goto
  <2>3. c'.number["MAX_BUFFER_SIZE"] # 0
    BY <1>1, <2>1, <2>2, DefaultShape
  <2> QED
    BY <1>1, <2>2, <2>3 DEF DefaultsInv, RunSteps
<1>4. CASE NewBreaker
  <2>1. /\ {"MAX_BUFFER_SIZE", "CIRCUIT_BREAKER_THRESHOLD", "CIRCUIT_BREAKER_COOLDOWN"} \subseteq Numbers
        /\ 5 \in Int
    BY DEF Numbers
  <2>2. pc = "breaker" /\ pc' = "serve" /\ c.number["MAX_BUFFER_SIZE"] # 0
    BY <1>4 DEF NewBreaker, Goto, DefaultsInv
  <2>3. CASE ~c.flag["CIRCUIT_BREAKER_ENABLED"]
    BY <1>4, <2>2, <2>3 DEF NewBreaker, DefaultsInv, BreakerSet
  <2>4. CASE c.flag["CIRCUIT_BREAKER_ENABLED"]
    <3> DEFINE s == Default("CIRCUIT_BREAKER_THRESHOLD", 5)
    <3>1. /\ ShapeOf(s)
          /\ s.number["CIRCUIT_BREAKER_THRESHOLD"] # 0
          /\ s.number["MAX_BUFFER_SIZE"] = c.number["MAX_BUFFER_SIZE"]
      BY <1>1, <2>1, DefaultShape
    <3>2. PICK d \in Durations(c.number["CIRCUIT_BREAKER_COOLDOWN"]) :
            c' = [s EXCEPT !.number["CIRCUIT_BREAKER_COOLDOWN"] = IF d = 0 THEN 60 ELSE d]
      BY <1>4, <2>4 DEF NewBreaker
    <3> HIDE DEF s
    <3>3. /\ c'.number["CIRCUIT_BREAKER_COOLDOWN"] # 0
          /\ c'.number["CIRCUIT_BREAKER_THRESHOLD"] = s.number["CIRCUIT_BREAKER_THRESHOLD"]
          /\ c'.number["MAX_BUFFER_SIZE"] = s.number["MAX_BUFFER_SIZE"]
      BY <2>1, <3>1, <3>2 DEF ShapeOf
    <3> QED
      BY <2>2, <3>1, <3>3 DEF DefaultsInv, BreakerSet
  <2> QED
    BY <2>3, <2>4
<1>5. CASE /\ \/ NewParser \/ NewChain \/ Check \/ NewBuffer \/ Replay \/ Serve
              \/ OpenLineSource \/ ServeFails
           /\ UNCHANGED <<found, server, saving, changes>>
  <2>1. UNCHANGED c
    BY <1>5 DEF NewParser, NewChain, NewBuffer, Replay, Serve, OpenLineSource, ServeFails, Check,
       CheckHost, CheckConnection, CheckDatabase, CheckTable, CheckColumns, CheckServer, CheckEnds
  <2>2. pc' # "dead" => pc \notin {"read", "environment", "hostname", "defaults", "dead"}
    BY <1>5 DEF NewParser, NewChain, NewBuffer, Replay, Serve, OpenLineSource, ServeFails, Check,
       CheckHost, CheckConnection, CheckDatabase, CheckTable, CheckColumns, CheckServer, CheckEnds,
       GotoOrDie, Goto
  <2>3. serving' \/ pc' \in {"serve", "source", "running"} =>
          serving \/ pc \in {"serve", "source", "running"}
    BY <1>5 DEF NewParser, NewChain, NewBuffer, Replay, Serve, OpenLineSource, ServeFails, Check,
       CheckHost, CheckConnection, CheckDatabase, CheckTable, CheckColumns, CheckServer, CheckEnds,
       GotoOrDie, Goto
  <2> QED
    BY <2>1, <2>2, <2>3 DEF DefaultsInv, BreakerSet
<1>6. CASE Flush \/ Filter \/ Save
  <2>1. /\ UNCHANGED <<c, serving>> /\ pc \in {"running", "filter"}
        /\ pc' = "running" => serving \/ pc = "running"
        /\ pc' # "serve" /\ pc' # "source"
    BY <1>6 DEF Flush, Filter, Save, Resume, Goto, process
  <2> QED
    BY <2>1 DEF DefaultsInv, BreakerSet
<1>7. CASE ServerChanges \/ Rest \/ UNCHANGED vars
  BY <1>7 DEF ServerChanges, Rest, vars, process, DefaultsInv, BreakerSet
<1> QED
  BY <1>2, <1>3, <1>4, <1>5, <1>6, <1>7 DEF Next, Step, Launch

(* What the proofs about buffer and breaker assume of the settings is so   *)
(* in every start with settings that are not negative (main.go:115, 197).  *)
THEOREM DefaultsMeetAssumptions == Spec => []AssumptionsMet
<1>1. SettingsInv /\ DefaultsInv => AssumptionsMet
  <2> SUFFICES ASSUME SettingsInv, DefaultsInv, pc = "running", \A n \in Numbers : c.number[n] >= 0
               PROVE  /\ c.number["MAX_BUFFER_SIZE"] > 0
                      /\ c.flag["CIRCUIT_BREAKER_ENABLED"] =>
                           /\ c.number["CIRCUIT_BREAKER_THRESHOLD"] > 0
                           /\ c.number["CIRCUIT_BREAKER_COOLDOWN"] > 0
    BY DEF AssumptionsMet
  <2>1. ASSUME NEW n \in Numbers, c.number[n] # 0 PROVE c.number[n] > 0
    BY <2>1 DEF SettingsInv, ShapeOf
  <2> QED
    BY <2>1 DEF DefaultsInv, BreakerSet, Numbers
<1>2. Init => DefaultsInv
  BY DEF Init, DefaultsInv
<1>3. (SettingsInv /\ DefaultsInv) /\ [Next]_vars => (SettingsInv /\ DefaultsInv)'
  BY SettingsKept, DefaultsKept
<1> QED
  BY <1>1, <1>2, <1>3, SettingsInitially, PTL DEF Spec

-----------------------------------------------------------------------------
(* Picked as the solution of its recursion.                                *)
PickedStep(h, s, at) ==
  h = [t \in SUBSET DOMAIN s |->
         IF t = {} THEN <<>>
         ELSE LET x == Max(t)
                  i == [j \in DOMAIN s |-> j][x]
              IN  IF i \in at THEN Append(h[t \ {x}], s[i]) ELSE h[t \ {x}]]

LEMMA PickedSolution ==
  ASSUME NEW W, NEW s \in Seq(W), NEW at
  PROVE  \E g : /\ \A t \in SUBSET DOMAIN s : g[t] \in Seq(W)
                /\ g[{}] = <<>>
                /\ \A k \in DOMAIN s :
                     g[1 .. k] = IF k \in at THEN Append(g[1 .. (k - 1)], s[k])
                                 ELSE g[1 .. (k - 1)]
                /\ Picked(s, at) = g[DOMAIN s]
<1> DEFINE n == Len(s)
           S == 1 .. n
           V == Seq(W)
           comb == [p \in S \X V |-> IF p[1] \in at THEN Append(p[2], s[p[1]]) ELSE p[2]]
           it == CHOOSE h : PickedStep(h, s, at)
<1>1. n \in Nat /\ DOMAIN s = S
  OBVIOUS
<1>2. comb \in [S \X V -> V]
  <2>1. \A p \in S \X V : p[1] \in S /\ p[2] \in V /\ s[p[1]] \in W
    OBVIOUS
  <2> QED
    BY <2>1
<1>3. <<>> \in V
  OBVIOUS
<1>4. PICK g : LeftSolves(g, S, V, <<>>, comb)
  <2> HIDE DEF n, V, comb
  <2>1. S = 1 .. n
    OBVIOUS
  <2> HIDE DEF S
  <2> QED
    BY <1>1, <1>2, <1>3, <2>1, LeftFoldExists
<1>5. \A x \in S, v \in V : comb[<<x, v>>] = IF x \in at THEN Append(v, s[x]) ELSE v
  OBVIOUS
<1>6. \A t \in SUBSET S : t # {} => Max(t) \in t
  BY <1>1, LastPosition
<1>7. \A t \in SUBSET S : t # {} =>
        g[t] = IF Max(t) \in at THEN Append(g[t \ {Max(t)}], s[Max(t)]) ELSE g[t \ {Max(t)}]
  <2> SUFFICES ASSUME NEW t \in SUBSET S, t # {}
               PROVE  g[t] = IF Max(t) \in at THEN Append(g[t \ {Max(t)}], s[Max(t)])
                             ELSE g[t \ {Max(t)}]
    OBVIOUS
  <2> DEFINE x == Max(t)
  <2>1. x \in S /\ t \ {x} \in SUBSET S /\ LastOf(S)[t] = x
    BY <1>6 DEF LastOf
  <2>2. g[t] = comb[<<LastOf(S)[t], g[t \ {LastOf(S)[t]}]>>]
    <3> HIDE DEF S, V, comb, x
    <3> QED
      BY <1>4 DEF LeftSolves, Solves
  <2>3. g[t \ {x}] \in V
    BY <2>1, <1>4 DEF LeftSolves
  <2> HIDE DEF S, V, comb, x
  <2>4. g[t] = IF x \in at THEN Append(g[t \ {x}], s[x]) ELSE g[t \ {x}]
    BY <2>1, <2>2, <2>3, <1>5
  <2> QED
    BY <2>4 DEF x
<1>8. PickedStep(g, s, at)
  <2>1. \A t \in SUBSET DOMAIN s : t # {} => [j \in DOMAIN s |-> j][Max(t)] = Max(t)
    BY <1>1, <1>6
  <2> HIDE DEF V, comb, n
  <2> QED
    BY <1>1, <1>4, <1>7, <2>1 DEF PickedStep, LeftSolves
<1>9. PickedStep(it, s, at)
  <2> HIDE DEF it
  <2> QED
    BY <1>8 DEF it
<1>10. Picked(s, at) = it[DOMAIN s]
  BY DEF Picked, FoldLeftDomain, FoldLeft, MapThenFoldSet, PickedStep
<1>11. S \in {t \in SUBSET S : it[t] = g[t]}
  <2> DEFINE A == {t \in SUBSET S : it[t] = g[t]}
  <2> HIDE DEF it, n
  <2>1. Inductive(A, S)
    <3> SUFFICES ASSUME NEW t \in SUBSET S, \A x \in t : t \ {x} \in A PROVE t \in A
      BY DEF Inductive
    <3>1. t # {} => Max(t) \in t /\ it[t \ {Max(t)}] = g[t \ {Max(t)}]
      BY <1>6
    <3> QED
      BY <1>1, <1>8, <1>9, <3>1, ZenonT(40) DEF PickedStep
  <2>2. IsFiniteSet(S)
    BY <1>1, LastPosition
  <2> HIDE DEF A, S
  <2> QED
    BY <2>1, <2>2, SubsetInduction DEF A
<1>12. \A k \in S : 1 .. k - 1 \in SUBSET S
  OBVIOUS
<1>13. \A k \in S : g[1 .. k] = IF k \in at THEN Append(g[1 .. (k - 1)], s[k])
                              ELSE g[1 .. (k - 1)]
  <2> SUFFICES ASSUME NEW k \in S
               PROVE  g[1 .. k] = IF k \in at THEN Append(g[1 .. (k - 1)], s[k])
                                  ELSE g[1 .. (k - 1)]
    OBVIOUS
  <2>1. g[1 .. (k - 1)] \in V
    BY <1>4, <1>12 DEF LeftSolves
  <2> HIDE DEF S, V, comb
  <2> QED
    BY <1>4, <1>5, <2>1 DEF LeftSolves
<1> HIDE DEF it, comb, n
<1> QED
  BY <1>1, <1>4, <1>10, <1>11, <1>13 DEF LeftSolves

(* Appending an element adds it to the set of the elements.                *)
LEMMA AppendedElements ==
  ASSUME NEW W, NEW s \in Seq(W), NEW e \in W
  PROVE  Append(s, e) \in Seq(W) /\ ToSet(Append(s, e)) = ToSet(s) \union {e}
<1>1. /\ Append(s, e) \in Seq(W)
      /\ DOMAIN Append(s, e) = DOMAIN s \union {Len(s) + 1} /\ Len(s) + 1 \notin DOMAIN s
      /\ Append(s, e)[Len(s) + 1] = e /\ \A i \in DOMAIN s : Append(s, e)[i] = s[i]
  OBVIOUS
<1> DEFINE t == Append(s, e)
<1> HIDE DEF t
<1> QED
  BY <1>1 DEF ToSet, t

(* What is picked are the elements at the given positions, all of them.    *)
LEMMA PickedElements ==
  ASSUME NEW W, NEW s \in Seq(W), NEW at \in SUBSET DOMAIN s
  PROVE  /\ Picked(s, at) \in Seq(W)
         /\ ToSet(Picked(s, at)) = {s[i] : i \in at}
<1>1. PICK g : /\ \A t \in SUBSET DOMAIN s : g[t] \in Seq(W)
               /\ g[{}] = <<>>
               /\ \A k \in DOMAIN s :
                    g[1 .. k] = IF k \in at THEN Append(g[1 .. (k - 1)], s[k])
                                ELSE g[1 .. (k - 1)]
               /\ Picked(s, at) = g[DOMAIN s]
  BY PickedSolution
<1> DEFINE n == Len(s)
           Upto(k) == {s[i] : i \in at \intersect (1 .. k)}
           A == {k \in 0 .. n : ToSet(g[1 .. k]) = Upto(k)}
<1>2. n \in Nat /\ DOMAIN s = 1 .. n
  OBVIOUS
<1>3. 0 \in A
  <2>1. g[1 .. 0] = <<>> /\ Upto(0) = {}
    BY <1>1
  <2>2. ToSet(<<>>) = {}
    BY DEF ToSet
  <2> QED
    BY <1>2, <2>1, <2>2
<1>4. ASSUME NEW k \in 1 .. n, k - 1 \in A PROVE k \in A
  <2> DEFINE old == g[1 .. (k - 1)]
  <2>1. k \in 0 .. n /\ k \in DOMAIN s /\ s[k] \in W
    BY <1>2
  <2>2. ToSet(old) = Upto(k - 1)
    BY <1>4
  <2>3. old \in Seq(W)
    <3>1. 1 .. (k - 1) \in SUBSET DOMAIN s
      BY <1>2
    <3> QED
      BY <1>1, <3>1
  <2>4. g[1 .. k] = IF k \in at THEN Append(old, s[k]) ELSE old
    BY <1>1, <2>1
  <2>5. Upto(k) = IF k \in at THEN Upto(k - 1) \union {s[k]} ELSE Upto(k - 1)
    <3>1. 1 .. k = (1 .. (k - 1)) \union {k}
      BY <1>2
    <3> QED
      BY <3>1
  <2>6. ToSet(Append(old, s[k])) = ToSet(old) \union {s[k]}
    BY <2>1, <2>3, AppendedElements
  <2> HIDE DEF old, Upto
  <2> QED
    BY <2>1, <2>2, <2>4, <2>5, <2>6
<1>5. n \in A
  <2> HIDE DEF n, A
  <2> QED
    BY <1>2, <1>3, <1>4, SegmentInduction
<1>6. ToSet(g[DOMAIN s]) = {s[i] : i \in at}
  <2>1. at \intersect (1 .. n) = at
    BY <1>2
  <2> QED
    BY <1>2, <1>5, <2>1
<1> QED
  BY <1>1, <1>6

(* OverrideExtra as the solution of its recursion.                         *)
ExtraStep(h, e, old) ==
  h = [t \in SUBSET DOMAIN e |->
         IF t = {} THEN old
         ELSE LET x == Max(t)
              IN  IF IsExtra(e[x]) THEN WithExtra(h[t \ {x}], e[x]) ELSE h[t \ {x}]]

LEMMA ExtraSolution ==
  ASSUME NEW W, NEW e \in Seq(W), NEW old, old = [k \in DOMAIN old |-> old[k]]
  PROVE  \E g : /\ g[{}] = old
                /\ \A k \in DOMAIN e :
                     g[1 .. k] = IF IsExtra(e[k]) THEN WithExtra(g[1 .. (k - 1)], e[k])
                                 ELSE g[1 .. (k - 1)]
                /\ OverrideExtra(e, old) = g[DOMAIN e]
<1> DEFINE n == Len(e)
           S == 1 .. n
           K == DOMAIN old \union {ExtraKey[e[i].name] : i \in S}
           R == {old[k] : k \in DOMAIN old} \union {e[i].value : i \in S}
           V == UNION {[D -> R] : D \in SUBSET K}
           comb == [p \in S \X V |-> IF IsExtra(e[p[1]]) THEN WithExtra(p[2], e[p[1]]) ELSE p[2]]
           it == CHOOSE h : ExtraStep(h, e, old)
<1>1. n \in Nat /\ DOMAIN e = S
  OBVIOUS
<1>2. comb \in [S \X V -> V]
  <2>1. ASSUME NEW x \in S, NEW f \in V PROVE WithExtra(f, e[x]) \in V
    <3>1. PICK D \in SUBSET K : f \in [D -> R]
      OBVIOUS
    <3> DEFINE y == ExtraKey[e[x].name]
               w == e[x].value
               E == D \union {y}
    <3>2. y \in K /\ w \in R
      OBVIOUS
    <3> HIDE DEF K, R, y, w
    <3>3. [k \in E |-> IF k = y THEN w ELSE f[k]] \in [E -> R]
      BY <3>1, <3>2
    <3>4. WithExtra(f, e[x]) = [k \in E |-> IF k = y THEN w ELSE f[k]]
      BY <3>1 DEF WithExtra, y, w
    <3>5. E \in SUBSET K
      BY <3>2
    <3> QED
      BY <3>3, <3>4, <3>5
  <2> HIDE DEF V, S
  <2>2. \A p \in S \X V : p[1] \in S /\ p[2] \in V
    OBVIOUS
  <2> QED
    BY <2>1, <2>2
<1>3. old \in V
  <2> HIDE DEF S
  <2>1. old \in [DOMAIN old -> R]
    OBVIOUS
  <2>2. DOMAIN old \in SUBSET K
    OBVIOUS
  <2> HIDE DEF K, R
  <2> QED
    BY <2>1, <2>2
<1>4. PICK g : LeftSolves(g, S, V, old, comb)
  <2> HIDE DEF n, V, comb
  <2>1. S = 1 .. n
    OBVIOUS
  <2> HIDE DEF S
  <2> QED
    BY <1>1, <1>2, <1>3, <2>1, LeftFoldExists
<1>5. \A x \in S, v \in V : comb[<<x, v>>] = IF IsExtra(e[x]) THEN WithExtra(v, e[x]) ELSE v
  <2> HIDE DEF S, V
  <2> QED
    OBVIOUS
<1>6. \A t \in SUBSET S : t # {} => Max(t) \in t
  BY <1>1, LastPosition
<1>7. \A t \in SUBSET S : t # {} =>
        g[t] = IF IsExtra(e[Max(t)]) THEN WithExtra(g[t \ {Max(t)}], e[Max(t)])
               ELSE g[t \ {Max(t)}]
  <2> SUFFICES ASSUME NEW t \in SUBSET S, t # {}
               PROVE  g[t] = IF IsExtra(e[Max(t)]) THEN WithExtra(g[t \ {Max(t)}], e[Max(t)])
                             ELSE g[t \ {Max(t)}]
    OBVIOUS
  <2> DEFINE x == Max(t)
  <2>1. x \in S /\ t \ {x} \in SUBSET S /\ LastOf(S)[t] = x
    BY <1>6 DEF LastOf
  <2>2. g[t] = comb[<<LastOf(S)[t], g[t \ {LastOf(S)[t]}]>>]
    <3> HIDE DEF S, V, comb, x
    <3> QED
      BY <1>4 DEF LeftSolves, Solves
  <2> HIDE DEF S, V, comb, x
  <2>3. g[t \ {x}] \in V
    BY <2>1, <1>4 DEF LeftSolves
  <2>4. g[t] = IF IsExtra(e[x]) THEN WithExtra(g[t \ {x}], e[x]) ELSE g[t \ {x}]
    BY <2>1, <2>2, <2>3, <1>5
  <2> QED
    BY <2>4 DEF x
<1> HIDE DEF V, comb
<1>8. ExtraStep(g, e, old)
  <2> HIDE DEF n
  <2> QED
    BY <1>1, <1>4, <1>7 DEF ExtraStep, LeftSolves
<1>9. ExtraStep(it, e, old)
  <2> HIDE DEF it
  <2> QED
    BY <1>8 DEF it
<1>10. OverrideExtra(e, old) = it[DOMAIN e]
  BY DEF OverrideExtra, FoldLeft, MapThenFoldSet, ExtraStep
<1>11. S \in {t \in SUBSET S : it[t] = g[t]}
  <2> DEFINE A == {t \in SUBSET S : it[t] = g[t]}
  <2> HIDE DEF it, n
  <2>1. Inductive(A, S)
    <3> SUFFICES ASSUME NEW t \in SUBSET S, \A x \in t : t \ {x} \in A PROVE t \in A
      BY DEF Inductive
    <3>1. t # {} => Max(t) \in t /\ it[t \ {Max(t)}] = g[t \ {Max(t)}]
      BY <1>6
    <3> DEFINE x == Max(t)
    <3>2. g[t] = IF t = {} THEN old
                 ELSE IF IsExtra(e[x]) THEN WithExtra(g[t \ {x}], e[x]) ELSE g[t \ {x}]
      BY <1>1, <1>8 DEF ExtraStep
    <3>3. it[t] = IF t = {} THEN old
                  ELSE IF IsExtra(e[x]) THEN WithExtra(it[t \ {x}], e[x]) ELSE it[t \ {x}]
      BY <1>1, <1>9 DEF ExtraStep
    <3> QED
      BY <3>1, <3>2, <3>3
  <2>2. IsFiniteSet(S)
    BY <1>1, LastPosition
  <2> HIDE DEF A, S
  <2> QED
    BY <2>1, <2>2, SubsetInduction DEF A
<1>12. ASSUME NEW k \in S
       PROVE  g[1 .. k] = IF IsExtra(e[k]) THEN WithExtra(g[1 .. (k - 1)], e[k])
                          ELSE g[1 .. (k - 1)]
  <2>1. 1 .. (k - 1) \in SUBSET S
    OBVIOUS
  <2> HIDE DEF S
  <2>2. g[1 .. (k - 1)] \in V
    BY <1>4, <2>1 DEF LeftSolves
  <2> QED
    BY <1>4, <1>5, <2>2 DEF LeftSolves
<1> HIDE DEF it, n
<1> QED
  BY <1>1, <1>4, <1>10, <1>11, <1>12 DEF LeftSolves

(* Whatever name the extra map is asked for, the last variable with that   *)
(* name has the say, and the file where there is none.                     *)
Named(e, key) ==
  {j \in DOMAIN e : /\ e[j].name \in DOMAIN ExtraKey \ Known
                    /\ ExtraKey[e[j].name] = key}

LEMMA LastVariableWins ==
  ASSUME NEW W, NEW e \in Seq(W), NEW old, old = [k \in DOMAIN old |-> old[k]], NEW key
  PROVE  Lookup(OverrideExtra(e, old), key) =
           IF Named(e, key) = {} THEN Lookup(old, key)
           ELSE e[CHOOSE j \in Named(e, key) : \A k \in Named(e, key) : k <= j].value
<1>1. PICK g : /\ g[{}] = old
               /\ \A k \in DOMAIN e :
                    g[1 .. k] = IF IsExtra(e[k]) THEN WithExtra(g[1 .. (k - 1)], e[k])
                                ELSE g[1 .. (k - 1)]
               /\ OverrideExtra(e, old) = g[DOMAIN e]
  BY ExtraSolution
<1> DEFINE n == Len(e)
           at == Named(e, key)
           Decided(k) ==
             /\ (\A j \in at : j > k) => Lookup(g[1 .. k], key) = Lookup(old, key)
             /\ \A j \in at : j <= k /\ (\A m \in at : m <= k => m <= j) =>
                  Lookup(g[1 .. k], key) = e[j].value
           A == {k \in 0 .. n : Decided(k)}
<1>2. n \in Nat /\ DOMAIN e = 1 .. n /\ at \in SUBSET (1 .. n)
  BY DEF Named
<1>3. 0 \in A
  <2>1. g[1 .. 0] = old /\ \A j \in at : ~(j <= 0)
    BY <1>1, <1>2
  <2> HIDE DEF at
  <2> QED
    BY <1>2, <2>1
<1>4. ASSUME NEW k \in 1 .. n, k - 1 \in A PROVE k \in A
  <2> DEFINE f == g[1 .. (k - 1)]
             h == g[1 .. k]
  <2>1. k \in 0 .. n /\ k \in DOMAIN e /\ Decided(k - 1)
    BY <1>2, <1>4
  <2>2. h = IF IsExtra(e[k]) THEN WithExtra(f, e[k]) ELSE f
    BY <1>1, <2>1
  <2>3. k \in at => Lookup(h, key) = e[k].value
    <3> HIDE DEF f, h
    <3> QED
      BY <2>2 DEF Named, IsExtra, WithExtra, Lookup
  <2>4. k \notin at => Lookup(h, key) = Lookup(f, key)
    <3> HIDE DEF f, h
    <3> QED
      BY <2>1, <2>2 DEF Named, IsExtra, WithExtra, Lookup
  <2> HIDE DEF at
  <2>5. \A j \in at : j \in Int /\ (j <= k <=> j <= k - 1 \/ j = k) /\ (j > k - 1 <=> ~(j <= k - 1))
    BY <1>2
  <2>6. (\A j \in at : j > k) => Lookup(h, key) = Lookup(old, key)
    <3> SUFFICES ASSUME \A j \in at : j > k PROVE Lookup(h, key) = Lookup(old, key)
      OBVIOUS
    <3>1. k \notin at /\ \A j \in at : j > k - 1
      BY <2>5
    <3> QED
      BY <2>1, <2>4, <3>1
  <2>7. ASSUME NEW j \in at, j <= k, \A m \in at : m <= k => m <= j
        PROVE  Lookup(h, key) = e[j].value
    <3>1. CASE k \in at
      <4>1. j = k
        BY <3>1, <2>7, <2>5
      <4> QED
        BY <3>1, <4>1, <2>3
    <3>2. CASE k \notin at
      <4>1. j <= k - 1 /\ \A m \in at : m <= k - 1 => m <= j
        BY <3>2, <2>7, <2>5
      <4>2. Lookup(f, key) = e[j].value
        BY <4>1, <2>1
      <4> QED
        BY <3>2, <4>2, <2>4
    <3> QED
      BY <3>1, <3>2
  <2> QED
    BY <2>1, <2>6, <2>7
<1>5. n \in A
  <2> HIDE DEF n, A
  <2> QED
    BY <1>2, <1>3, <1>4, SegmentInduction
<1> DEFINE top == CHOOSE j \in at : \A k \in at : k <= j
<1>6. ASSUME at # {} PROVE top \in at /\ \A k \in at : k <= top
  <2>1. IsFiniteSet(1 .. n)
    BY <1>2, LastPosition
  <2>2. IsFiniteSet(at)
    BY <1>2, <2>1, FS_Subset
  <2>3. at \in SUBSET Int
    BY <1>2
  <2>4. Max(at) \in at /\ \A y \in at : Max(at) >= y
    <3> HIDE DEF at
    <3> QED
      BY <1>6, <2>2, <2>3, Extremes
  <2>5. \E j \in at : \A k \in at : k <= j
    BY <2>3, <2>4
  <2> HIDE DEF at
  <2> QED
    BY <2>5
<1>7. \A j \in at : j <= n /\ ~(j > n)
  BY <1>2
<1>8. Lookup(g[1 .. n], key) = IF at = {} THEN Lookup(old, key) ELSE e[top].value
  <2>1. Decided(n)
    BY <1>5
  <2> HIDE DEF at, top, n
  <2> QED
    BY <1>6, <1>7, <2>1
<1> QED
  BY <1>1, <1>2, <1>8

-----------------------------------------------------------------------------
(* The rules of FILTER_RULES are those of its well-formed entries.         *)
LEMMA RulesOfEntries ==
  ASSUME NEW ts, ts \in Seq(ToSet(ts))
  PROVE  /\ RulesOf(ts) \in Seq(ToSet(RulesOf(ts)))
         /\ ToSet(RulesOf(ts)) = {RuleOf(t) : t \in {u \in ToSet(ts) : WellFormed(u)}}
<1> DEFINE at == {i \in DOMAIN ts : WellFormed(ts[i])}
           valid == Picked(ts, at)
           W == ToSet(ts)
<1>1. valid \in Seq(W) /\ ToSet(valid) = {ts[i] : i \in at}
  <2>1. at \in SUBSET DOMAIN ts
    OBVIOUS
  <2> HIDE DEF at, W
  <2> QED
    BY <2>1, PickedElements DEF W
<1>2. ToSet(valid) = {u \in ToSet(ts) : WellFormed(u)}
  BY <1>1 DEF ToSet
<1>3. RulesOf(ts) = [i \in DOMAIN valid |-> RuleOf(valid[i])]
  BY DEF RulesOf
<1> HIDE DEF valid, at
<1>4. ToSet(RulesOf(ts)) = {RuleOf(t) : t \in ToSet(valid)}
  BY <1>3 DEF ToSet
<1>5. DOMAIN valid = 1 .. Len(valid) /\ Len(valid) \in Nat
  BY <1>1
<1>6. \A i \in DOMAIN valid : RulesOf(ts)[i] \in ToSet(RulesOf(ts))
  BY <1>3 DEF ToSet
<1>7. RulesOf(ts) \in Seq(ToSet(RulesOf(ts)))
  <2> DEFINE R == RulesOf(ts)
             S == ToSet(R)
  <2>1. R = [i \in 1 .. Len(valid) |-> R[i]] /\ \A i \in 1 .. Len(valid) : R[i] \in S
    BY <1>3, <1>5, <1>6
  <2> HIDE DEF R, S
  <2> QED
    BY <2>1, <1>5 DEF R, S
<1> QED
  BY <1>2, <1>4, <1>7

(* The entries are a sequence again.                                       *)
LEMMA ParsedEntries ==
  ASSUME NEW b, b \in Seq(ToSet(b)), NEW format
  PROVE  Parse(format, b) \in Seq(ToSet(Parse(format, b)))
<1> DEFINE at == {i \in DOMAIN b : b[i].format = format}
           parsed == Picked(b, at)
           E == Parse(format, b)
           S == ToSet(E)
           W == ToSet(b)
<1>1. parsed \in Seq(W)
  <2>1. at \in SUBSET DOMAIN b
    OBVIOUS
  <2> HIDE DEF at, W
  <2> QED
    BY <2>1, PickedElements DEF W
<1>2. E = [i \in DOMAIN parsed |->
            [f \in DOMAIN parsed[i].fields |-> AnyToString(parsed[i].fields[f])]]
  BY DEF Parse
<1> HIDE DEF parsed, E
<1>3. DOMAIN parsed = 1 .. Len(parsed) /\ Len(parsed) \in Nat
  BY <1>1
<1>4. E = [i \in 1 .. Len(parsed) |-> E[i]] /\ \A i \in 1 .. Len(parsed) : E[i] \in S
  BY <1>2, <1>3 DEF ToSet
<1> HIDE DEF S
<1> QED
  BY <1>3, <1>4 DEF S, E

-----------------------------------------------------------------------------
(* What Apply has got through: every entry it has lost had a rule that may *)
(* drop it, and none it has kept has met a rule that must.  The positions  *)
(* kept and the ones still waiting stay in the order of the batch.         *)
Ascending(s) ==
  /\ s \in Seq(DOMAIN entries)
  /\ \A j, k \in DOMAIN s : j < k => s[j] < s[k]

Waiting == IF level \in DOMAIN rules THEN ToSet(todo) ELSE {}

Judged(i) ==
  /\ i \notin ToSet(kept) \union Waiting => \E r \in DOMAIN rules : MayDrop(rules[r], entries[i])
  /\ i \in ToSet(kept) => \A r \in DOMAIN rules : r <= level => ~MustDrop(rules[r], entries[i])
  /\ i \in Waiting => \A r \in DOMAIN rules : r < level => ~MustDrop(rules[r], entries[i])

FilterInv ==
  /\ rules \in Seq(ToSet(rules))
  /\ entries \in Seq(ToSet(entries))
  /\ level \in 0 .. Len(rules) + 1
  /\ Ascending(kept)
  /\ Ascending(todo)
  /\ level \in DOMAIN rules => \A j \in DOMAIN kept, k \in DOMAIN todo : kept[j] < todo[k]
  /\ level = 0 => kept = <<>> /\ todo = <<>>
  /\ level > 0 => /\ \A r \in DOMAIN rules : rules[r].action \in {"drop", "keep"}
                  /\ \A i \in DOMAIN entries : Judged(i)

(* A rule retains nothing it must drop, and loses nothing it may not.      *)
LEMMA RetainsAsDescribed ==
  ASSUME NEW rule, rule.action \in {"drop", "keep"}, NEW entry, NEW draw
  PROVE  /\ Retains(rule, entry, draw) => ~MustDrop(rule, entry)
         /\ ~Retains(rule, entry, draw) => MayDrop(rule, entry)
<1> QED
  BY DEF Retains, MayDrop, MustDrop

(* All positions are ascending, and none are.                              *)
LEMMA PositionsAscend ==
  ASSUME NEW es, es \in Seq(ToSet(es))
  PROVE  /\ Positions(es) \in Seq(DOMAIN es)
         /\ \A j, k \in DOMAIN Positions(es) : j < k => Positions(es)[j] < Positions(es)[k]
         /\ ToSet(Positions(es)) = DOMAIN es
<1> DEFINE n == Len(es)
<1>1. n \in Nat /\ DOMAIN es = 1 .. n
  OBVIOUS
<1> HIDE DEF n
<1> QED
  BY <1>1 DEF Positions, ToSet

LEMMA ApplyKeeps ==
  ASSUME NEW es, es \in Seq(ToSet(es)), Apply(es), rules \in Seq(ToSet(rules)),
         \A r \in DOMAIN rules : rules[r].action \in {"drop", "keep"}
  PROVE  FilterInv'
<1>1. entries' = es /\ level' = 1 /\ rules' = rules
  BY DEF Apply
<1>2. Len(rules) \in Nat /\ DOMAIN rules = 1 .. Len(rules) /\ (rules = <<>> <=> Len(rules) = 0)
  OBVIOUS
<1>3. Ascending(kept)' /\ Ascending(todo)'
  <2>1. \A s \in {kept', todo'} : s = <<>> \/ s = Positions(es)
    BY DEF Apply
  <2>2. <<>> \in Seq(DOMAIN es) /\ \A j, k \in DOMAIN <<>> : j < k => <<>>[j] < <<>>[k]
    OBVIOUS
  <2> QED
    BY <1>1, <2>1, <2>2, PositionsAscend DEF Ascending
<1>4. (level \in DOMAIN rules)' => kept' = <<>> /\ todo' = Positions(es)
  BY <1>1, <1>2 DEF Apply
<1>5. (level \notin DOMAIN rules)' => kept' = Positions(es) /\ DOMAIN rules = {}
  BY <1>1, <1>2 DEF Apply
<1>6. ToSet(<<>>) = {}
  BY DEF ToSet
<1>7. ASSUME NEW i \in DOMAIN es PROVE Judged(i)'
  <2>1. CASE (level \in DOMAIN rules)'
    <3>1. Waiting' = DOMAIN es /\ ToSet(kept)' = {}
      BY <2>1, <1>4, <1>6, PositionsAscend DEF Waiting
    <3>2. \A r \in DOMAIN rules' : ~(r < level')
      BY <1>1, <1>2
    <3> QED
      BY <3>1, <3>2 DEF Judged
  <2>2. CASE (level \notin DOMAIN rules)'
    <3>1. Waiting' = {} /\ ToSet(kept)' = DOMAIN es
      BY <2>2, <1>5, PositionsAscend DEF Waiting
    <3> QED
      BY <3>1, <1>1, <1>5, <2>2 DEF Judged
  <2> QED
    BY <2>1, <2>2
<1>8. level' \in 0 .. Len(rules') + 1 /\ level' # 0
  BY <1>1, <1>2
<1>9. (level \in DOMAIN rules)' =>
        \A j \in DOMAIN kept', k \in DOMAIN todo' : kept'[j] < todo'[k]
  BY <1>4
<1> QED
  BY <1>1, <1>3, <1>7, <1>8, <1>9 DEF FilterInv

(* Head and tail of an ascending sequence, and one with an element more.   *)
LEMMA HeadTail ==
  ASSUME NEW S, NEW s \in Seq(S), s # <<>>
  PROVE  /\ Head(s) \in S /\ Tail(s) \in Seq(S)
         /\ ToSet(s) = {Head(s)} \union ToSet(Tail(s))
         /\ 1 \in DOMAIN s /\ Head(s) = s[1]
         /\ \A k \in DOMAIN Tail(s) : k + 1 \in DOMAIN s /\ k + 1 > 1 /\ Tail(s)[k] = s[k + 1]
<1> DEFINE t == Tail(s)
<1>1. /\ Len(s) \in Nat /\ Len(s) > 0 /\ DOMAIN s = 1 .. Len(s) /\ Head(s) = s[1]
      /\ \A i \in 1 .. Len(s) : s[i] \in S
  OBVIOUS
<1>2. t \in Seq(S) /\ DOMAIN t = 1 .. Len(s) - 1 /\ \A k \in 1 .. Len(s) - 1 : t[k] = s[k + 1]
  OBVIOUS
<1> HIDE DEF t
<1>3. \A i \in 1 .. Len(s) : i # 1 => i - 1 \in DOMAIN t /\ t[i - 1] = s[i]
  <2> SUFFICES ASSUME NEW i \in 1 .. Len(s), i # 1 PROVE i - 1 \in DOMAIN t /\ t[i - 1] = s[i]
    OBVIOUS
  <2>1. i - 1 \in 1 .. Len(s) - 1 /\ (i - 1) + 1 = i
    BY <1>1
  <2> QED
    BY <1>2, <2>1
<1>4. \A k \in DOMAIN t : k + 1 \in DOMAIN s /\ k + 1 > 1
  BY <1>1, <1>2
<1>5. ToSet(s) = {Head(s)} \union ToSet(t)
  <2>1. ASSUME NEW e \in ToSet(s) PROVE e \in {Head(s)} \union ToSet(t)
    <3>1. PICK i \in 1 .. Len(s) : e = s[i]
      BY <1>1 DEF ToSet
    <3>2. i = 1 \/ e \in ToSet(t)
      BY <1>3, <3>1 DEF ToSet
    <3> QED
      BY <1>1, <3>1, <3>2
  <2>2. ASSUME NEW e \in ToSet(t) PROVE e \in ToSet(s)
    <3>1. PICK k \in DOMAIN t : e = t[k]
      BY DEF ToSet
    <3>2. k + 1 \in DOMAIN s /\ e = s[k + 1]
      BY <1>2, <1>4, <3>1
    <3> QED
      BY <3>2 DEF ToSet
  <2>3. Head(s) \in ToSet(s)
    BY <1>1 DEF ToSet
  <2> QED
    BY <2>1, <2>2, <2>3
<1> QED
  BY <1>1, <1>2, <1>4, <1>5 DEF t

LEMMA ApplyRuleKeeps ==
  ASSUME FilterInv, ApplyRule
  PROVE  FilterInv'
<1> DEFINE h == Head(todo)
           D == DOMAIN entries
<1>1. /\ level \in DOMAIN rules /\ todo # <<>> /\ todo' = Tail(todo)
      /\ UNCHANGED <<rules, entries, level>>
  BY DEF ApplyRule
<1>2. PICK draw : kept' = IF Retains(rules[level], entries[h], draw)
                          THEN Append(kept, h) ELSE kept
  BY DEF ApplyRule
<1>3. level > 0 /\ level \in Nat /\ rules[level].action \in {"drop", "keep"}
  BY <1>1 DEF FilterInv
<1>4. Ascending(kept) /\ Ascending(todo) /\ \A j \in DOMAIN kept, k \in DOMAIN todo : kept[j] < todo[k]
  BY <1>1 DEF FilterInv
<1>5. D \subseteq Int
  BY DEF FilterInv
<1> HIDE DEF D
<1>6. kept \in Seq(D) /\ todo \in Seq(D)
  BY <1>4 DEF Ascending, D
<1>7. /\ h \in D /\ Tail(todo) \in Seq(D) /\ h = todo[1] /\ 1 \in DOMAIN todo
      /\ ToSet(todo) = {h} \union ToSet(Tail(todo))
      /\ \A k \in DOMAIN Tail(todo) :
           k + 1 \in DOMAIN todo /\ k + 1 > 1 /\ Tail(todo)[k] = todo[k + 1]
  BY <1>1, <1>6, HeadTail
<1>8. /\ Append(kept, h) \in Seq(D) /\ ToSet(Append(kept, h)) = ToSet(kept) \union {h}
  BY <1>6, <1>7, AppendedElements
<1>9. \A j \in DOMAIN Append(kept, h) :
        \/ j \in DOMAIN kept /\ Append(kept, h)[j] = kept[j]
        \/ j = Len(kept) + 1 /\ Append(kept, h)[j] = h
  BY <1>6, <1>7
<1>10. DOMAIN kept = 1 .. Len(kept) /\ Len(kept) \in Nat /\ \A j \in DOMAIN kept : kept[j] \in Int
  <2>1. /\ DOMAIN kept = 1 .. Len(kept) /\ Len(kept) \in Nat
        /\ \A j \in DOMAIN kept : kept[j] \in D
    BY <1>6
  <2> QED
    BY <1>5, <2>1
<1>11. \A j \in DOMAIN kept : kept[j] < h
  BY <1>4, <1>7
<1> HIDE DEF h
<1>12. \A j, k \in DOMAIN Append(kept, h) : j < k => Append(kept, h)[j] < Append(kept, h)[k]
  <2> DEFINE q == Append(kept, h)
  <2> SUFFICES ASSUME NEW j \in DOMAIN q, NEW k \in DOMAIN q, j < k PROVE q[j] < q[k]
    OBVIOUS
  <2> HIDE DEF q
  <2>1. CASE k \in DOMAIN kept
    <3>1. j \in DOMAIN kept /\ q[j] = kept[j] /\ q[k] = kept[k]
      BY <2>1, <1>9, <1>10 DEF q
    <3> QED
      BY <2>1, <3>1, <1>4 DEF Ascending
  <2>2. CASE k = Len(kept) + 1
    <3>1. j \in DOMAIN kept /\ q[j] = kept[j] /\ q[k] = h
      BY <2>2, <1>9, <1>10 DEF q
    <3> QED
      BY <3>1, <1>11
  <2> QED
    BY <2>1, <2>2, <1>9 DEF q
<1>13. Ascending(kept)'
  <2>1. kept' \in Seq(D)
    BY <1>2, <1>6, <1>8
  <2>2. \A j, k \in DOMAIN kept' : j < k => kept'[j] < kept'[k]
    BY <1>2, <1>12, <1>4 DEF Ascending
  <2> QED
    BY <1>1, <2>1, <2>2 DEF Ascending, D
<1>14. Ascending(todo)'
  <2> DEFINE t == Tail(todo)
  <2>0. \A k \in DOMAIN t : k \in Int
    BY <1>7
  <2> HIDE DEF t
  <2>1. \A j, k \in DOMAIN t : j < k => t[j] < t[k]
    <3> SUFFICES ASSUME NEW j \in DOMAIN t, NEW k \in DOMAIN t, j < k PROVE t[j] < t[k]
      OBVIOUS
    <3>1. j + 1 \in DOMAIN todo /\ k + 1 \in DOMAIN todo /\ j + 1 < k + 1
      BY <1>7, <2>0 DEF t
    <3> QED
      BY <3>1, <1>4, <1>7 DEF Ascending, t
  <2> QED
    BY <1>1, <1>7, <2>1 DEF Ascending, D, t
<1>15. \A j \in DOMAIN kept', k \in DOMAIN todo' : kept'[j] < todo'[k]
  <2> SUFFICES ASSUME NEW j \in DOMAIN kept', NEW k \in DOMAIN todo' PROVE kept'[j] < todo'[k]
    OBVIOUS
  <2>1. k + 1 \in DOMAIN todo /\ k + 1 > 1 /\ todo'[k] = todo[k + 1]
    BY <1>1, <1>7
  <2>2. h < todo[k + 1]
    BY <2>1, <1>4, <1>7 DEF Ascending
  <2>3. \/ kept'[j] = h
        \/ j \in DOMAIN kept /\ kept'[j] = kept[j]
    BY <1>2, <1>9
  <2> QED
    BY <2>1, <2>2, <2>3, <1>4
<1>16. ASSUME NEW i \in D PROVE Judged(i)'
  <2>1. Judged(i)
    BY <1>3 DEF FilterInv, D
  <2>2. Waiting = ToSet(todo) /\ Waiting' = ToSet(Tail(todo))
    BY <1>1 DEF Waiting
  <2>3. ToSet(kept') = IF Retains(rules[level], entries[h], draw)
                       THEN ToSet(kept) \union {h} ELSE ToSet(kept)
    BY <1>2, <1>8
  <2>4. /\ Retains(rules[level], entries[h], draw) => ~MustDrop(rules[level], entries[h])
        /\ ~Retains(rules[level], entries[h], draw) => MayDrop(rules[level], entries[h])
    BY <1>3, RetainsAsDescribed
  <2>5. UNCHANGED <<rules, entries, level>>
    BY <1>1
  <2>6. i \notin ToSet(kept') \union Waiting' => \E r \in DOMAIN rules : MayDrop(rules[r], entries[i])
    BY <2>1, <2>2, <2>3, <2>4, <1>1, <1>7 DEF Judged
  <2>7. i \in ToSet(kept') => \A r \in DOMAIN rules : r <= level => ~MustDrop(rules[r], entries[i])
    <3> SUFFICES ASSUME i \in ToSet(kept'), NEW r \in DOMAIN rules, r <= level
                 PROVE  ~MustDrop(rules[r], entries[i])
      OBVIOUS
    <3>1. CASE i \in ToSet(kept)
      BY <3>1, <2>1 DEF Judged
    <3>2. CASE i \notin ToSet(kept)
      <4>1. i = h /\ ~MustDrop(rules[level], entries[i]) /\ i \in Waiting
        BY <3>2, <2>2, <2>3, <2>4, <1>7
      <4>2. r = level \/ r < level
        BY <1>3 DEF FilterInv
      <4> QED
        BY <4>1, <4>2, <2>1 DEF Judged
    <3> QED
      BY <3>1, <3>2
  <2>8. i \in Waiting' => \A r \in DOMAIN rules : r < level => ~MustDrop(rules[r], entries[i])
    BY <2>1, <2>2, <1>7 DEF Judged
  <2> QED
    BY <2>5, <2>6, <2>7, <2>8 DEF Judged
<1> QED
  BY <1>1, <1>3, <1>13, <1>14, <1>15, <1>16 DEF FilterInv, D

LEMMA NextRuleKeeps ==
  ASSUME FilterInv, NextRule
  PROVE  FilterInv'
<1>1. level \in DOMAIN rules /\ todo = <<>> /\ level' = level + 1 /\ UNCHANGED <<rules, entries>>
  BY DEF NextRule
<1>2. IF level' \in DOMAIN rules THEN todo' = kept /\ kept' = <<>> ELSE UNCHANGED <<todo, kept>>
  BY <1>1 DEF NextRule
<1>3. /\ DOMAIN rules = 1 .. Len(rules) /\ Len(rules) \in Nat
      /\ level \in Nat /\ level > 0 /\ level' \in 0 .. Len(rules) + 1
  BY <1>1 DEF FilterInv
<1>4. Ascending(kept)' /\ Ascending(todo)'
  <2>1. kept' \in {kept, <<>>} /\ todo' \in {kept, <<>>}
    BY <1>1, <1>2
  <2>2. <<>> \in Seq(DOMAIN entries) /\ \A j, k \in DOMAIN <<>> : j < k => <<>>[j] < <<>>[k]
    OBVIOUS
  <2>3. Ascending(kept)
    BY DEF FilterInv
  <2> QED
    BY <1>1, <2>1, <2>2, <2>3 DEF Ascending
<1>5. ASSUME NEW i \in DOMAIN entries PROVE Judged(i)'
  <2>1. Judged(i)
    BY <1>3, <1>5 DEF FilterInv
  <2>2. ToSet(<<>>) = {}
    BY DEF ToSet
  <2>3. Waiting = {}
    BY <1>1, <2>2 DEF Waiting
  <2>4. \A r \in DOMAIN rules : r < level' <=> r <= level
    BY <1>1, <1>3
  <2>5. CASE level' \in DOMAIN rules
    <3>1. Waiting' = ToSet(kept) /\ ToSet(kept') = {}
      BY <1>1, <1>2, <2>2, <2>5 DEF Waiting
    <3> QED
      BY <1>1, <2>1, <2>3, <2>4, <3>1 DEF Judged
  <2>6. CASE level' \notin DOMAIN rules
    <3>1. Waiting' = {} /\ kept' = kept
      BY <1>1, <1>2, <2>6 DEF Waiting
    <3>2. \A r \in DOMAIN rules : r <= level
      BY <1>1, <1>3, <2>6
    <3> QED
      BY <1>1, <2>1, <2>3, <3>1, <3>2 DEF Judged
  <2> QED
    BY <2>5, <2>6
<1>6. (level \in DOMAIN rules)' => kept' = <<>>
  BY <1>1, <1>2
<1>7. level' # 0 /\ \A r \in DOMAIN rules : rules[r].action \in {"drop", "keep"}
  BY <1>1, <1>3 DEF FilterInv
<1>8. rules \in Seq(ToSet(rules)) /\ entries \in Seq(ToSet(entries))
  BY DEF FilterInv
<1> QED
  BY <1>1, <1>3, <1>4, <1>5, <1>6, <1>7, <1>8 DEF FilterInv

LEMMA FilterInvStays == FilterInv /\ UNCHANGED filterVars => FilterInv'
<1> QED
  BY DEF filterVars, FilterInv, Ascending, Judged, Waiting, MayDrop, MustDrop, Matches,
         EvaluationFails, Sampled

(* At the end of Apply, every entry is decided.                            *)
LEMMA DecidedAtTheEnd == FilterInv => DecidedByEntry
<1> SUFFICES ASSUME FilterInv, level > 0, Applied PROVE DecidedByEntry
  BY DEF DecidedByEntry
<1>1. Waiting = {} /\ \A r \in DOMAIN rules : r <= level
  BY DEF Waiting, Applied, FilterInv
<1>2. \A i \in DOMAIN entries : Judged(i)
  BY DEF FilterInv
<1>3. Ascending(kept)
  BY DEF FilterInv
<1> QED
  BY <1>1, <1>2, <1>3 DEF DecidedByEntry, Judged, Ascending

(* The rules in force are those of file and environment; Apply has been    *)
(* called only by a process that runs.                                     *)
ChainInv ==
  /\ environ \in Environs
  /\ lines \in Batches
  /\ FilterInv
  /\ level > 0 => pc \in RunSteps \union {"dead"}
  /\ pc \in CheckSteps \union RunSteps => rules = Final.filters

(* The rules that were asked for form a sequence.                          *)
LEMMA FinalRules ==
  ASSUME file \in Files, environ \in Environs
  PROVE  /\ Final.filters \in Seq(ToSet(Final.filters))
         /\ Getenv(environ, "FILTER_RULES") = "" => Final.filters = file.filters
         /\ Getenv(environ, "FILTER_RULES") # "" =>
              LET asked == RuleEntries[Getenv(environ, "FILTER_RULES")]
              IN  ToSet(Final.filters) = {RuleOf(t) : t \in {u \in ToSet(asked) : WellFormed(u)}}
<1> DEFINE v == Getenv(environ, "FILTER_RULES")
<1>1. Final.filters = OverrideFilters(environ, file.filters)
  BY FilesAssumption DEF Final, SetEnvVariables
<1>2. v \in DOMAIN RuleEntries \union {""} /\ file.filters \in Seq(ToSet(file.filters))
  BY EnvironsAssumption, FilesAssumption
<1>3. CASE v = ""
  BY <1>1, <1>2, <1>3 DEF OverrideFilters
<1>4. CASE v # ""
  <2>1. RuleEntries[v] \in Seq(ToSet(RuleEntries[v]))
    BY <1>2, <1>4, RuleEntriesAssumption
  <2>2. Final.filters = RulesOf(RuleEntries[v])
    BY <1>1, <1>4 DEF OverrideFilters
  <2> HIDE DEF v
  <2> QED
    BY <1>4, <2>1, <2>2, RulesOfEntries DEF v
<1> QED
  BY <1>3, <1>4

(* A call of Apply on the lines at hand.                                   *)
LEMMA AppliedLines ==
  ASSUME SettingsInv, ChainInv, pc \in RunSteps, Apply(Parsed)
  PROVE  FilterInv' /\ UNCHANGED rules
<1>1. Parsed \in Seq(ToSet(Parsed))
  BY BatchesAssumption, ParsedEntries DEF ChainInv, Parsed
<1>2. rules = Final.filters /\ RulesOK
  BY DEF ChainInv, SettingsInv
<1>3. \A r \in DOMAIN rules : rules[r].action \in {"drop", "keep"}
  BY <1>2 DEF RulesOK, ChainValid, Valid
<1>4. rules \in Seq(ToSet(rules))
  BY DEF ChainInv, FilterInv
<1>5. UNCHANGED rules
  BY DEF Apply
<1> QED
  BY <1>1, <1>3, <1>4, <1>5, ApplyKeeps

(* A step that leaves the filter alone.                                    *)
LEMMA ChainStays ==
  ASSUME ChainInv, UNCHANGED <<found, filterVars>>,
         pc \in RunSteps \union {"dead"} => pc' \in RunSteps \union {"dead"},
         pc' \in CheckSteps \union RunSteps => pc \in CheckSteps \union RunSteps
  PROVE  ChainInv'
<1>1. FilterInv' /\ UNCHANGED <<rules, level>>
  BY FilterInvStays DEF ChainInv, filterVars
<1>2. UNCHANGED <<environ, lines, Final>>
  BY DEF found, Final
<1> QED
  BY <1>1, <1>2 DEF ChainInv

LEMMA ChainInitially == Init => ChainInv
<1> SUFFICES ASSUME Init PROVE ChainInv
  OBVIOUS
<1>1. /\ environ \in Environs /\ lines \in Batches /\ pc = "read"
      /\ rules = <<>> /\ entries = <<>> /\ level = 0 /\ todo = <<>> /\ kept = <<>>
  BY DEF Init
<1>2. \A W : <<>> \in Seq(W) /\ DOMAIN <<>> = {} /\ Len(<<>>) = 0
  OBVIOUS
<1>3. FilterInv
  BY <1>1, <1>2 DEF FilterInv, Ascending
<1> QED
  BY <1>1, <1>3 DEF ChainInv, CheckSteps, RunSteps

LEMMA ChainKept == SettingsInv /\ ChainInv /\ [Next]_vars => ChainInv'
<1> SUFFICES ASSUME SettingsInv, ChainInv, [Next]_vars PROVE ChainInv'
  OBVIOUS
<1>1. CASE (Read \/ SetEnvironment \/ ResolveHostname \/ DefaultBufferSize \/ NewParser
            \/ StartChecked) /\ UNCHANGED found
  <2>1. /\ pc \in Early \union {"exit"} /\ pc' \in Early \union {"dead"}
        /\ UNCHANGED filterVars
    BY <1>1 DEF Read, SetEnvironment, ResolveHostname, DefaultBufferSize, NewParser,
                StartChecked, GotoOrDie, Goto, Early
  <2> QED
    BY <1>1, <2>1, ChainStays DEF Early, RunSteps, CheckSteps
<1>2. CASE NewChain /\ UNCHANGED found
  <2>1. /\ pc = "filters" /\ pc' \in {"dead", "check", "buffer"} /\ rules' = c.filters
        /\ UNCHANGED <<entries, level, todo, kept>>
    BY <1>2 DEF NewChain, GotoOrDie, Goto
  <2>2. UNCHANGED <<environ, lines, Final>> /\ rules' = Final.filters
    BY <1>2, <2>1 DEF found, Final, SettingsInv, Agrees
  <2>3. rules' \in Seq(ToSet(rules'))
    BY <2>2, FinalRules DEF SettingsInv, ChainInv
  <2>4. level \in 0 .. Len(rules) + 1 /\ Len(rules) \in Nat /\ level = 0
    BY <2>1 DEF ChainInv, FilterInv, RunSteps
  <2>5. Ascending(kept)' /\ Ascending(todo)'
    BY <2>1 DEF ChainInv, FilterInv, Ascending
  <2>6. Len(rules') \in Nat /\ DOMAIN rules' = 1 .. Len(rules')
    BY <2>3
  <2>7. FilterInv'
    BY <2>1, <2>3, <2>4, <2>5, <2>6 DEF ChainInv, FilterInv
  <2> QED
    BY <2>1, <2>2, <2>4, <2>7 DEF ChainInv
<1>3. CASE (Check \/ NewBuffer \/ NewBreaker \/ Serve \/ OpenLineSource) /\ UNCHANGED found
  <2>1. /\ \/ pc \in CheckSteps /\ pc' \in CheckSteps
           \/ pc \in RunSteps /\ pc' \in RunSteps \union {"dead"}
        /\ UNCHANGED filterVars
    BY <1>3 DEF Check, CheckHost, CheckConnection, CheckDatabase, CheckTable, CheckColumns,
                CheckServer, CheckEnds, NewBuffer, NewBreaker, Serve, OpenLineSource,
                GotoOrDie, Goto, CheckSteps, RunSteps
  <2> QED
    BY <1>3, <2>1, ChainStays DEF RunSteps, CheckSteps
<1>4. CASE ServeFails /\ UNCHANGED found
  BY <1>4, ChainStays DEF ServeFails, RunSteps, CheckSteps
<1>5. CASE (Replay \/ Flush) /\ UNCHANGED found
  <2>1. pc \in RunSteps /\ pc' \in RunSteps
    BY <1>5 DEF Replay, Flush, Goto, RunSteps
  <2>2. \/ UNCHANGED filterVars
        \/ Apply(Parsed)
    BY <1>5 DEF Replay, Flush
  <2>3. CASE UNCHANGED filterVars
    BY <1>5, <2>1, <2>3, ChainStays
  <2>4. CASE Apply(Parsed)
    <3>1. FilterInv' /\ UNCHANGED rules
      BY <2>1, <2>4, AppliedLines
    <3>2. UNCHANGED <<environ, lines, Final>> /\ rules = Final.filters
      BY <1>5, <2>1 DEF found, Final, ChainInv
    <3> QED
      BY <2>1, <3>1, <3>2 DEF ChainInv
  <2> QED
    BY <2>2, <2>3, <2>4
<1>6. CASE Filter /\ UNCHANGED found
  <2>1. pc = "filter" /\ pc' = pc /\ UNCHANGED rules
    BY <1>6 DEF Filter, ApplyRule, NextRule, process
  <2>2. FilterInv'
    BY <1>6, ApplyRuleKeeps, NextRuleKeeps DEF Filter, ChainInv
  <2>3. UNCHANGED <<environ, lines, Final>> /\ rules = Final.filters
    BY <1>6, <2>1 DEF found, Final, ChainInv, RunSteps
  <2> QED
    BY <2>1, <2>2, <2>3 DEF ChainInv, RunSteps
<1>7. CASE Save /\ UNCHANGED found
  <2>1. pc \in RunSteps /\ pc' \in RunSteps /\ UNCHANGED filterVars
    BY <1>7 DEF Save, Resume, Goto, RunSteps
  <2> QED
    BY <1>7, <2>1, ChainStays
<1>8. CASE ServerChanges \/ Rest \/ UNCHANGED vars
  <2>1. UNCHANGED <<found, filterVars, pc>>
    BY <1>8 DEF ServerChanges, Rest, vars, process
  <2> QED
    BY <2>1, ChainStays
<1> QED
  BY <1>1, <1>2, <1>3, <1>4, <1>5, <1>6, <1>7, <1>8 DEF Next, Step, Launch

LEMMA ChainInvariance == Spec => [](SettingsInv /\ ChainInv)
<1>1. Init => SettingsInv /\ ChainInv
  BY SettingsInitially, ChainInitially
<1>2. (SettingsInv /\ ChainInv) /\ [Next]_vars => (SettingsInv /\ ChainInv)'
  BY SettingsKept, ChainKept
<1> QED
  BY <1>1, <1>2, PTL DEF Spec

-----------------------------------------------------------------------------
(* What is flushed comes from the lines at hand, and why a Save fails      *)
(* after a passed check.                                                   *)
BatchInv ==
  /\ level > 0 => entries = Parsed
  /\ saved = "error" => level > 0

Excused ==
  \/ ~((DOMAIN c.columns \ Plain) \subseteq DOMAIN server.columns)
  \/ \E i \in DOMAIN Parsed : ~Fits(Parsed[i])

ErrorInv == checked /\ changes = 0 /\ saved = "error" => Excused

(* Once main runs, its settings stay as they are, but for numbers.         *)
LEMMA RunKeepsSettings ==
  ASSUME SettingsInv, pc \in RunSteps \union {"dead"}, [Next]_vars
  PROVE  UNCHANGED <<c.text, c.columns, c.extra, found, checked>>
<1>1. CASE (Read \/ SetEnvironment \/ ResolveHostname \/ DefaultBufferSize \/ NewParser
            \/ NewChain \/ StartChecked)
  BY <1>1 DEF Read, SetEnvironment, ResolveHostname, DefaultBufferSize, NewParser, NewChain,
              StartChecked, GotoOrDie, Goto, RunSteps
<1>2. CASE Check
  BY <1>2 DEF Check, CheckHost, CheckConnection, CheckDatabase, CheckTable, CheckColumns,
              CheckServer, CheckEnds, Goto, RunSteps
<1>3. CASE NewBreaker /\ UNCHANGED found
  <2>1. ShapeOf(c) /\ {"CIRCUIT_BREAKER_THRESHOLD", "CIRCUIT_BREAKER_COOLDOWN"} \subseteq Numbers
    BY DEF SettingsInv, Numbers
  <2>2. LET s == Default("CIRCUIT_BREAKER_THRESHOLD", 5)
        IN  ShapeOf(s) /\ s.text = c.text /\ s.columns = c.columns /\ s.extra = c.extra
    BY <2>1, DefaultShape
  <2> QED
    BY <1>3, <2>1, <2>2 DEF NewBreaker, ShapeOf
<1>4. CASE (NewBuffer \/ Replay \/ Serve \/ OpenLineSource \/ ServeFails) /\ UNCHANGED found
  BY <1>4 DEF NewBuffer, Replay, Serve, OpenLineSource, ServeFails
<1>5. CASE (Flush \/ Filter \/ Save) /\ UNCHANGED found
  BY <1>5 DEF Flush, Filter, Save, process
<1>6. CASE ServerChanges \/ Rest \/ UNCHANGED vars
  BY <1>6 DEF ServerChanges, Rest, vars, process
<1> QED
  BY <1>1, <1>2, <1>3, <1>4, <1>5, <1>6 DEF Next, Step, Launch

(* Lines, columns, texts and extras make the rows.                         *)
LEMMA SameRows ==
  ASSUME UNCHANGED <<c.text, c.columns, c.extra, found>>
  PROVE  /\ Parsed' = Parsed
         /\ UNCHANGED server => Excused' = Excused
<1>1. Parsed' = Parsed
  BY DEF Parsed, Json, found
<1>2. \A e : BuildRow(e, c') = BuildRow(e, c)
  BY DEF BuildRow, ResolveEnrichment
<1>3. UNCHANGED server => \A e : Fits(e)' = Fits(e)
  BY <1>2 DEF Fits
<1> QED
  BY <1>1, <1>3 DEF Excused, Plain

LEMMA BatchKept == SettingsInv /\ ChainInv /\ BatchInv /\ [Next]_vars => BatchInv'
<1> SUFFICES ASSUME SettingsInv, ChainInv, BatchInv, [Next]_vars PROVE BatchInv'
  OBVIOUS
<1>1. level \in Nat /\ Len(rules) \in Nat /\ (level > 0 => pc \in RunSteps \union {"dead"})
  BY DEF ChainInv, FilterInv
<1>2. ASSUME level > 0 PROVE Parsed' = Parsed
  BY <1>1, <1>2, RunKeepsSettings, SameRows
<1>3. CASE (Replay /\ UNCHANGED saving) \/ (Flush /\ UNCHANGED saved)
  <2>1. CASE UNCHANGED filterVars /\ UNCHANGED saved
    BY <1>2, <2>1 DEF BatchInv, filterVars
  <2>2. CASE Apply(Parsed)
    <3>1. pc \in RunSteps
      BY <1>3 DEF Replay, Flush, Goto, RunSteps
    <3>2. Parsed' = Parsed
      BY <3>1, RunKeepsSettings, SameRows
    <3> QED
      BY <2>2, <3>2 DEF BatchInv, Apply
  <2> QED
    BY <1>3, <2>1, <2>2 DEF Replay, Flush, saving
<1>4. CASE Filter
  <2>1. level > 0 /\ level' \in {level, level + 1} /\ UNCHANGED <<entries, saved>>
    BY <1>1, <1>4 DEF Filter, ApplyRule, NextRule, saving, ChainInv, FilterInv
  <2> QED
    BY <1>1, <1>2, <2>1 DEF BatchInv
<1>5. CASE Save
  <2>1. level > Len(rules) /\ UNCHANGED <<level, entries>>
    BY <1>5 DEF Save, Applied, filterVars
  <2> QED
    BY <1>1, <1>2, <2>1 DEF BatchInv
<1>6. CASE Launch /\ ~Replay /\ UNCHANGED saving
  <2>1. UNCHANGED <<entries, level>>
    <3>1. CASE Check
      BY <3>1 DEF Check, CheckHost, CheckConnection, CheckDatabase, CheckTable, CheckColumns,
                  CheckServer, CheckEnds, filterVars
    <3>2. CASE \/ Read \/ SetEnvironment \/ ResolveHostname \/ DefaultBufferSize
               \/ NewParser \/ NewChain
      BY <3>2 DEF Read, SetEnvironment, ResolveHostname, DefaultBufferSize, NewParser, NewChain,
                  filterVars
    <3>3. CASE \/ StartChecked \/ NewBuffer \/ NewBreaker \/ Serve \/ OpenLineSource \/ ServeFails
      BY <3>3 DEF StartChecked, NewBuffer, NewBreaker, Serve, OpenLineSource, ServeFails, filterVars
    <3> QED
      BY <1>6, <3>1, <3>2, <3>3 DEF Launch
  <2> QED
    BY <1>2, <1>6, <2>1 DEF BatchInv, saving
<1>7. CASE ServerChanges \/ Rest \/ UNCHANGED vars
  BY <1>2, <1>7 DEF ServerChanges, Rest, vars, saving, filterVars, BatchInv
<1> QED
  BY <1>3, <1>4, <1>5, <1>6, <1>7 DEF Next, Step, Flush

LEMMA ErrorKept ==
  SettingsInv /\ CheckInv /\ ChainInv /\ BatchInv /\ ErrorInv /\ [Next]_vars => ErrorInv'
<1> SUFFICES ASSUME SettingsInv, CheckInv, ChainInv, BatchInv, ErrorInv, [Next]_vars,
                    checked', changes' = 0, saved' = "error"
             PROVE  Excused'
  BY DEF ErrorInv
<1>1. level \in Nat /\ Len(rules) \in Nat /\ changes \in Nat
  BY DEF ChainInv, FilterInv, CheckInv
<1>2. changes = 0 /\ UNCHANGED server
  BY <1>1 DEF Next, Step, ServerChanges, Rest, vars
<1>3. CASE saved = "error"
  <2>1. pc \in RunSteps \union {"dead"}
    BY <1>1, <1>3 DEF BatchInv, ChainInv
  <2>2. UNCHANGED <<c.text, c.columns, c.extra, found, checked>>
    BY <2>1, RunKeepsSettings
  <2> QED
    BY <1>2, <1>3, <2>2, SameRows DEF ErrorInv
<1>4. CASE saved # "error"
  <2>1. Save
    <3>1. saved' # saved
      BY <1>4
    <3> QED
      BY <3>1 DEF Next, Step, ServerChanges, Rest, vars, saving, Flush, Filter
  <2>2. pc = "filter" /\ Applied /\ (~Inserts \/ Fitting # DOMAIN Result)
    BY <1>4, <2>1 DEF Save, Resume, Goto
  <2>3. pc \in RunSteps /\ Agrees
    BY <2>2 DEF SettingsInv, RunSteps
  <2>4. UNCHANGED <<c.text, c.columns, c.extra, found, checked>>
    BY <2>3, RunKeepsSettings
  <2>5. ServerOK
    BY <1>2, <2>4 DEF CheckInv, PassedInv
  <2>6. CASE ~Inserts
    <3>1. Connects /\ server.database /\ server.table /\ Plain \subseteq DOMAIN server.columns
      BY <2>3, <2>5, SeenThroughSettings DEF ServerOK
    <3>2. Excused
      BY <2>6, <3>1 DEF Inserts, Excused
    <3> QED
      BY <1>2, <2>4, <3>2, SameRows
  <2>7. CASE Fitting # DOMAIN Result
    <3>1. PICK i \in DOMAIN kept : ~Fits(entries[kept[i]])
      BY <2>7 DEF Fitting, Result
    <3>2. kept[i] \in DOMAIN entries
      BY DEF ChainInv, FilterInv, Ascending
    <3>3. entries = Parsed
      BY <1>1, <2>2 DEF BatchInv, Applied
    <3>4. Excused
      BY <3>1, <3>2, <3>3 DEF Excused
    <3> QED
      BY <1>2, <2>4, <3>4, SameRows
  <2> QED
    BY <2>2, <2>6, <2>7
<1> QED
  BY <1>3, <1>4

(* What -check has passed starts and saves, but for what it does not look  *)
(* at (runCheck against main and Client.Save).                             *)
THEOREM CheckedStartsAndSaves == Spec => []CheckedStartSaves
<1> DEFINE Inv == SettingsInv /\ CheckInv /\ ChainInv /\ BatchInv /\ ErrorInv
<1>1. Init => Inv
  <2>1. Init => CheckInv /\ BatchInv /\ ErrorInv
    BY DEF Init, CheckInv, CheckProgress, PassedInv, BatchInv, ErrorInv
  <2> QED
    BY <2>1, SettingsInitially, ChainInitially
<1>2. Inv /\ [Next]_vars => Inv'
  BY SettingsKept, CheckInvKept, ChainKept, BatchKept, ErrorKept
<1>3. Inv => CheckedStartSaves
  BY DEF CheckInv, PassedInv, ErrorInv, Excused, CheckedStartSaves
<1> QED
  BY <1>1, <1>2, <1>3, PTL DEF Spec

(* Every entry of every batch is decided on its own, by any rules and any  *)
(* draws (filter.Apply, applyRule).                                        *)
THEOREM EntriesDecideAlone == Spec => []DecidedByEntry
<1>1. SettingsInv /\ ChainInv => DecidedByEntry
  BY DecidedAtTheEnd DEF ChainInv
<1> QED
  BY <1>1, ChainInvariance, PTL

(* A process runs with exactly the rules that were asked for, all of them  *)
(* valid (Config.SetEnvVariables, NewChain).                               *)
THEOREM RunsRulesAsAsked == Spec => []RulesAsAsked
<1>1. SettingsInv /\ ChainInv => RulesAsAsked
  <2> SUFFICES ASSUME SettingsInv, ChainInv, pc = "running" PROVE RulesAsAsked
    BY DEF RulesAsAsked
  <2> DEFINE v == Getenv(environ, "FILTER_RULES")
             asked == IF v = "" THEN ToSet(file.filters)
                      ELSE {RuleOf(e) : e \in {t \in ToSet(RuleEntries[v]) : WellFormed(t)}}
  <2>1. rules = Final.filters /\ RulesOK /\ Agrees
    BY DEF ChainInv, SettingsInv, RunSteps
  <2>2. ToSet(rules) = asked
    BY <2>1, FinalRules DEF SettingsInv, ChainInv
  <2>3. FilterFields(c) = FilterFields(Final)
    BY <2>1 DEF FilterFields, Agrees
  <2>4. ASSUME NEW r \in ToSet(rules)
        PROVE  r.rate \in 0 .. RateScale /\ Compiles(r.expr, FilterFields(c))
    BY <2>1, <2>3 DEF RulesOK, ChainValid, Valid, ToSet
  <2> HIDE DEF asked, v
  <2>5. \A r \in asked : r.rate \in 0 .. RateScale /\ Compiles(r.expr, FilterFields(c))
    BY <2>2, <2>4
  <2> QED
    BY <2>2, <2>5 DEF RulesAsAsked, asked, v
<1> QED
  BY <1>1, ChainInvariance, PTL

(* The types that the invariants above leave open.                         *)
PlainTypes ==
  /\ mode \in {"check", "file", "stdin"}
  /\ spool \in {"none", "left", "taken"}
  /\ serving \in BOOLEAN /\ allOK \in BOOLEAN /\ checked \in BOOLEAN
  /\ saved \in {"none", "nil", "error"}
  /\ flushes \in 0 .. MaxFlushes
  /\ changes \in 0 .. MaxChanges

LEMMA PlainTypesKept == PlainTypes /\ [Next]_vars => PlainTypes'
<1> SUFFICES ASSUME PlainTypes, [Next]_vars PROVE PlainTypes'
  OBVIOUS
<1> USE BoundsAssumption
<1>1. CASE (Read \/ SetEnvironment \/ ResolveHostname \/ DefaultBufferSize \/ NewParser
            \/ NewChain \/ NewBuffer \/ NewBreaker \/ OpenLineSource \/ ServeFails)
           /\ UNCHANGED <<server, saving, changes>>
  <2>1. UNCHANGED <<mode, spool, serving, allOK, checked>>
    BY <1>1 DEF Read, SetEnvironment, ResolveHostname, DefaultBufferSize, NewParser,
                NewChain, NewBuffer, NewBreaker, OpenLineSource, ServeFails
  <2> QED
    BY <1>1, <2>1 DEF PlainTypes, saving
<1>4. CASE StartChecked /\ UNCHANGED <<server, saving, changes>>
  BY <1>4 DEF StartChecked, PlainTypes, saving
<1>5. CASE Replay /\ UNCHANGED <<server, saving, changes>>
  BY <1>5 DEF Replay, PlainTypes, saving
<1>6. CASE Serve /\ UNCHANGED <<server, saving, changes>>
  BY <1>6 DEF Serve, PlainTypes, saving
<1>7. CASE Check /\ UNCHANGED <<server, saving, changes>>
  <2>1. UNCHANGED <<mode, spool, serving>>
    BY <1>7 DEF Check, CheckHost, CheckConnection, CheckDatabase, CheckTable, CheckColumns,
                CheckServer, CheckEnds
  <2>2. allOK' \in BOOLEAN
    <3>1. CASE CheckHost
      BY <3>1 DEF CheckHost
    <3>2. CASE CheckConnection \/ CheckDatabase \/ CheckTable \/ CheckColumns
      BY <3>2 DEF CheckConnection, CheckDatabase, CheckTable, CheckColumns, CheckServer
    <3>3. CASE CheckEnds
      BY <3>3 DEF CheckEnds, PlainTypes
    <3> QED
      BY <1>7, <3>1, <3>2, <3>3 DEF Check
  <2>3. checked' \in {checked, allOK}
    BY <1>7 DEF Check, CheckHost, CheckConnection, CheckDatabase, CheckTable, CheckColumns,
                CheckServer, CheckEnds
  <2> QED
    BY <1>7, <2>1, <2>2, <2>3 DEF PlainTypes, saving
<1>2. CASE (Flush \/ Filter \/ Save) /\ UNCHANGED <<server, changes>>
  BY <1>2 DEF PlainTypes, Flush, Filter, Save, process, saving
<1>3. CASE ServerChanges \/ Rest \/ UNCHANGED vars
  BY <1>3 DEF PlainTypes, ServerChanges, Rest, vars, process, saving
<1> QED
  BY <1>1, <1>2, <1>3, <1>4, <1>5, <1>6, <1>7 DEF Next, Step, Launch

(* The types of a start and its flushes (main, filter.Apply).              *)
THEOREM StartTypeCorrect == Spec => []TypeOK
<1>1. Init => PlainTypes
  <2> SUFFICES ASSUME Init PROVE PlainTypes
    OBVIOUS
  <2>1. serving = FALSE /\ allOK = TRUE /\ checked = FALSE
    BY DEF Init
  <2>2. flushes = 0 /\ changes = 0 /\ 0 \in 0 .. MaxFlushes /\ 0 \in 0 .. MaxChanges
    BY BoundsAssumption DEF Init
  <2>3. /\ mode \in {"check", "file", "stdin"} /\ spool \in {"none", "left", "taken"}
        /\ saved \in {"none", "nil", "error"}
    BY DEF Init
  <2> QED
    BY <2>1, <2>2, <2>3 DEF PlainTypes
<1>2. PlainTypes /\ [Next]_vars => PlainTypes'
  BY PlainTypesKept
<1>3. SettingsInv /\ ChainInv /\ PlainTypes => TypeOK
  <2> SUFFICES ASSUME SettingsInv, ChainInv, PlainTypes PROVE TypeOK
    OBVIOUS
  <2>1. pc \in Steps
    BY DEF SettingsInv, Steps, Early, CheckSteps, RunSteps
  <2>2. ToSet(kept) \subseteq DOMAIN entries /\ ToSet(todo) \subseteq DOMAIN entries
    <3>1. kept \in Seq(DOMAIN entries) /\ todo \in Seq(DOMAIN entries)
      BY DEF ChainInv, FilterInv, Ascending
    <3> QED
      BY <3>1 DEF ToSet
  <2>3. level \in 0 .. Len(rules) + 1
    BY DEF ChainInv, FilterInv
  <2> QED
    BY <2>1, <2>2, <2>3 DEF TypeOK, PlainTypes
<1> QED
  BY <1>1, <1>2, <1>3, ChainInvariance, PTL DEF Spec

-----------------------------------------------------------------------------
(* What is stored has passed the rules it was stored under, and carries    *)
(* the values of the environment it was stored in.                         *)
RowsInv ==
  /\ level = 0 => DOMAIN rows = {}
  /\ StoredRowsPassRules
  /\ ExtraReachesRows

(* The conversions of the filter and of the rows are the same: where the   *)
(* row has a number, the rule has seen that number.                        *)
LEMMA SeenAsStored ==
  ASSUME NEW entry, NEW f, f \notin Underscored, NEW v,
         v = IF f \in DOMAIN entry THEN ParseField(f, entry[f]) ELSE Text(""),
         v.type # "text",
         NEW rule, Exprs[rule.expr].field = f
  PROVE  /\ ~EvaluationFails(rule, entry)
         /\ Matches(rule, entry) <=> v.value # 0
<1>1. f \in DOMAIN entry /\ v = ParseField(f, entry[f])
  BY DEF Text
<1> DEFINE s == entry[f]
<1>2. Field(entry, f) = s
  BY <1>1 DEF Field
<1>3. \A n : /\ Whole(n).type = "int" /\ Whole(n).value = n
             /\ Float(n).type = "float" /\ Float(n).value = n
             /\ Whole(n) = Whole(0) <=> n = 0
             /\ Float(n) = Float(0) <=> n = 0
  <2>1. \A n : /\ Whole(n).type = "int" /\ Whole(n).value = n
               /\ Float(n).type = "float" /\ Float(n).value = n
    BY DEF Whole, Float
  <2>2. \A n : n = 0 => Whole(n) = Whole(0) /\ Float(n) = Float(0)
    OBVIOUS
  <2>3. \A n : /\ Whole(n) = Whole(0) => n = 0
               /\ Float(n) = Float(0) => n = 0
    <3> SUFFICES ASSUME NEW n PROVE /\ Whole(n) = Whole(0) => n = 0
                                    /\ Float(n) = Float(0) => n = 0
      OBVIOUS
    <3>1. Whole(n) = Whole(0) => Whole(n).value = Whole(0).value
      OBVIOUS
    <3>2. Float(n) = Float(0) => Float(n).value = Float(0).value
      OBVIOUS
    <3>3. /\ Whole(n).value = n /\ Whole(0).value = 0
          /\ Float(n).value = n /\ Float(0).value = 0
      BY <2>1
    <3> QED
      BY <3>1, <3>2, <3>3
  <2> QED
    BY <2>1, <2>2, <2>3
<1>4. \/ f \in IntFields /\ s \in DOMAIN Numeral /\ v = Whole(Numeral[s])
      \/ f \in FloatFields /\ s \in DOMAIN Decimal /\ v = Float(Decimal[s])
  BY <1>1 DEF ParseField, Text, IntFields, FloatFields
<1>5. CASE f \in IntFields /\ s \in DOMAIN Numeral /\ v = Whole(Numeral[s])
  <2>1. f \in DOMAIN NumericFields /\ NumericFields[f] = "int"
    BY <1>5 DEF IntFields, NumericFields, FloatNames
  <2>2. Env(entry, f) = v /\ Zero(f) = Whole(0)
    BY <1>2, <1>5, <2>1 DEF Env, Zero
  <2>3. v.type = "int" /\ (v # Whole(0) <=> v.value # 0)
    BY <1>3, <1>5, ZenonT(40)
  <2> QED
    BY <2>2, <2>3 DEF EvaluationFails, Matches
<1>6. CASE f \in FloatFields /\ s \in DOMAIN Decimal /\ v = Float(Decimal[s])
  <2>1. f \in DOMAIN NumericFields /\ NumericFields[f] = "float"
    BY <1>6 DEF FloatFields, NumericFields, FloatNames
  <2>2. Env(entry, f) = v /\ Zero(f) = Float(0)
    BY <1>2, <1>6, <2>1 DEF Env, Zero
  <2>3. v.type = "float" /\ (v # Float(0) <=> v.value # 0)
    BY <1>3, <1>6, ZenonT(40)
  <2> QED
    BY <2>2, <2>3 DEF EvaluationFails, Matches
<1> QED
  BY <1>4, <1>5, <1>6

(* An entry that has passed all rules is stored as the rules have seen it. *)
LEMMA StoredAsJudged ==
  ASSUME NEW entry, NEW r \in DOMAIN rules, rules[r].action \in {"drop", "keep"},
         ~MustDrop(rules[r], entry), ~Sampled(rules[r]),
         NEW col \in DOMAIN c.columns, Exprs[rules[r].expr].field = c.columns[col],
         BuildRow(entry, c)[col].type # "text"
  PROVE  rules[r].action = "keep" <=> BuildRow(entry, c)[col].value # 0
<1> DEFINE f == c.columns[col]
           v == BuildRow(entry, c)[col]
<1>1. v = IF f \in Underscored THEN Text(ResolveEnrichment(f, entry, c))
          ELSE IF f \in DOMAIN entry THEN ParseField(f, entry[f]) ELSE Text("")
  BY DEF BuildRow
<1>2. f \notin Underscored
  <2>1. \A x : Text(x).type = "text"
    BY DEF Text
  <2> QED
    BY <1>1, <2>1
<1> HIDE DEF v, f
<1>3. v = IF f \in DOMAIN entry THEN ParseField(f, entry[f]) ELSE Text("")
  BY <1>1, <1>2
<1>4. v.type # "text" /\ Exprs[rules[r].expr].field = f
  BY DEF v, f
<1>5. ~EvaluationFails(rules[r], entry) /\ (Matches(rules[r], entry) <=> v.value # 0)
  BY <1>2, <1>3, <1>4, SeenAsStored
<1> QED
  BY <1>5 DEF MustDrop, MayDrop, v

(* An _extra column shows what the environment and the file make of it.    *)
LEMMA ExtraStored ==
  ASSUME SettingsInv, Agrees, environ \in Environs, NEW entry,
         NEW col \in DOMAIN c.columns, c.columns[col] \in DOMAIN ExtraSource
  PROVE  LET key == ExtraSource[c.columns[col]]
         IN  BuildRow(entry, c)[col].value =
               IF Named(environ, key) = {} THEN Lookup(file.extra, key)
               ELSE environ[CHOOSE j \in Named(environ, key) :
                              \A k \in Named(environ, key) : k <= j].value
<1> DEFINE f == c.columns[col]
           key == ExtraSource[f]
<1>1. f \in Underscored /\ f \notin Enrichments \union AgentSources
  BY SourcesAssumption
<1>2. ResolveEnrichment(f, entry, c) = Lookup(c.extra, key)
  BY <1>1 DEF ResolveEnrichment, Enrichments
<1>3. BuildRow(entry, c)[col].value = Lookup(c.extra, key)
  BY <1>1, <1>2 DEF BuildRow, Text
<1>4. c.extra = OverrideExtra(environ, file.extra)
  BY FilesAssumption DEF Agrees, Final, SetEnvVariables, SettingsInv
<1>5. /\ environ \in Seq(ToSet(environ))
      /\ file.extra = [k \in DOMAIN file.extra |-> file.extra[k]]
  BY EnvironsAssumption, FilesAssumption DEF SettingsInv
<1> HIDE DEF key
<1>6. Lookup(OverrideExtra(environ, file.extra), key) =
        IF Named(environ, key) = {} THEN Lookup(file.extra, key)
        ELSE environ[CHOOSE j \in Named(environ, key) :
                       \A k \in Named(environ, key) : k <= j].value
  <2> DEFINE e == environ
             old == file.extra
             W == ToSet(e)
  <2>1. e \in Seq(W) /\ old = [k \in DOMAIN old |-> old[k]]
    BY <1>5
  <2> HIDE DEF e, old, W
  <2>2. Lookup(OverrideExtra(e, old), key) =
          IF Named(e, key) = {} THEN Lookup(old, key)
          ELSE e[CHOOSE j \in Named(e, key) : \A k \in Named(e, key) : k <= j].value
    BY <2>1, LastVariableWins
  <2> QED
    BY <2>2 DEF e, old
<1> QED
  BY <1>3, <1>4, <1>6 DEF key

(* Without rows there is nothing to say of them.                           *)
LEMMA NoRows == DOMAIN rows = {} => RowsInv
<1> QED
  BY DEF RowsInv, StoredRowsPassRules, ExtraReachesRows

(* The rows stay true while rules and columns do.                          *)
LEMMA RowsStay ==
  ASSUME RowsInv, UNCHANGED <<found, rows>>,
         level # 0 => UNCHANGED <<rules, c.columns>> /\ level' # 0
  PROVE  RowsInv'
<1>1. CASE level = 0
  <2>1. DOMAIN rows' = {}
    BY <1>1 DEF RowsInv
  <2> QED
    BY <2>1 DEF RowsInv, StoredRowsPassRules, ExtraReachesRows
<1>2. CASE UNCHANGED <<rules, c.columns>> /\ level' # 0
  BY <1>2, SMTT(30) DEF RowsInv, StoredRowsPassRules, Sampled, ExtraReachesRows, found
<1> QED
  BY <1>1, <1>2

(* ExtraReachesRows with a name for the variables that count.              *)
ExtraAsNamed ==
  \A i \in DOMAIN rows, col \in DOMAIN c.columns :
    c.columns[col] \in DOMAIN ExtraSource =>
      LET key == ExtraSource[c.columns[col]]
      IN  rows[i][col].value =
            IF Named(environ, key) = {} THEN Lookup(file.extra, key)
            ELSE environ[CHOOSE j \in Named(environ, key) :
                           \A k \in Named(environ, key) : k <= j].value

LEMMA ExtraNamedNow == ExtraAsNamed => ExtraReachesRows
<1> QED
  BY DEF ExtraAsNamed, ExtraReachesRows, Named

LEMMA ExtraNamed == (ExtraAsNamed => ExtraReachesRows)'
<1> QED
  BY ExtraNamedNow, PTL

(* Save stores what the rules have left.                                   *)
LEMMA SavedRows ==
  ASSUME SettingsInv, ChainInv, RowsInv, Save, UNCHANGED found
  PROVE  RowsInv'
<1>1. pc = "filter" /\ Applied /\ UNCHANGED <<c, filterVars, Final>>
  BY DEF Save, Resume, Goto, found, Final
<1>2. Agrees /\ environ \in Environs
  BY <1>1 DEF SettingsInv, ChainInv
<1>3. level > 0 /\ FilterInv /\ rules \in Seq(ToSet(rules))
  BY <1>1 DEF ChainInv, FilterInv, Applied
<1>4. Waiting = {} /\ \A r \in DOMAIN rules : r <= level
  BY <1>1, <1>3 DEF Waiting, Applied, FilterInv
<1>5. CASE rows' = rows
  <2>1. level' # 0 /\ UNCHANGED <<rules, c.columns>>
    BY <1>1, <1>3 DEF filterVars
  <2> QED
    BY <1>5, <2>1, RowsStay
<1>6. CASE rows' = [i \in Fitting |-> BuildRow(Result[i], c)]
  <2>1. /\ DOMAIN rows' \subseteq DOMAIN kept
        /\ \A i \in DOMAIN rows' : rows'[i] = BuildRow(entries[kept[i]], c)
    BY <1>6 DEF Result, Fitting
  <2>2. ASSUME NEW i \in DOMAIN kept, NEW r \in DOMAIN rules
        PROVE  /\ ~MustDrop(rules[r], entries[kept[i]])
               /\ rules[r].action \in {"drop", "keep"}
    <3>1. kept[i] \in DOMAIN entries /\ kept[i] \in ToSet(kept)
      BY <1>3 DEF FilterInv, Ascending, ToSet
    <3>2. Judged(kept[i])
      BY <1>3, <3>1 DEF FilterInv
    <3> QED
      BY <1>3, <1>4, <3>1, <3>2 DEF Judged, FilterInv
  <2>3. ASSUME NEW i \in DOMAIN rows', NEW r \in DOMAIN rules, NEW col \in DOMAIN c.columns,
               Exprs[rules[r].expr].field = c.columns[col],
               rows'[i][col].type # "text", ~Sampled(rules[r])
        PROVE  rules[r].action = "keep" <=> rows'[i][col].value # 0
    BY <2>1, <2>2, <2>3, StoredAsJudged
  <2>4. StoredRowsPassRules'
    <3>1. UNCHANGED <<c, rules>>
      BY <1>1 DEF filterVars
    <3> QED
      BY <2>1, <2>3, <3>1 DEF StoredRowsPassRules, Sampled
  <2>5. ASSUME NEW i \in DOMAIN rows', NEW col \in DOMAIN c.columns,
               c.columns[col] \in DOMAIN ExtraSource
        PROVE  LET key == ExtraSource[c.columns[col]]
               IN  rows'[i][col].value =
                     IF Named(environ, key) = {} THEN Lookup(file.extra, key)
                     ELSE environ[CHOOSE j \in Named(environ, key) :
                                    \A k \in Named(environ, key) : k <= j].value
    BY <1>2, <2>1, <2>5, ExtraStored, ZenonT(40)
  <2>6. ExtraReachesRows'
    <3>1. UNCHANGED <<c, environ, file>>
      BY <1>1 DEF found
    <3>2. ExtraAsNamed'
      BY <2>1, <2>5, <3>1 DEF ExtraAsNamed
    <3> QED
      BY <3>2, ExtraNamed
  <2>7. level' # 0
    BY <1>1, <1>3 DEF filterVars
  <2> QED
    BY <2>4, <2>6, <2>7 DEF RowsInv
<1> QED
  BY <1>5, <1>6 DEF Save

LEMMA RowsKept == SettingsInv /\ ChainInv /\ ChainInv' /\ RowsInv /\ [Next]_vars => RowsInv'
<1> SUFFICES ASSUME SettingsInv, ChainInv, ChainInv', RowsInv, [Next]_vars PROVE RowsInv'
  OBVIOUS
<1>0. level \in Nat /\ level' \in Nat
  BY DEF ChainInv, FilterInv
<1>1. CASE (Read \/ SetEnvironment \/ ResolveHostname \/ DefaultBufferSize \/ NewParser
            \/ NewChain \/ Check \/ StartChecked) /\ UNCHANGED <<found, saving>>
  <2>0. ASSUME pc \in Early \union CheckSteps PROVE level = 0
    BY <1>0, <2>0 DEF ChainInv, Early, CheckSteps, RunSteps
  <2>1. ASSUME Read \/ SetEnvironment \/ ResolveHostname \/ DefaultBufferSize
        PROVE  pc \in Early \union CheckSteps
    BY <2>1 DEF Read, SetEnvironment, ResolveHostname, DefaultBufferSize, GotoOrDie, Goto, Early
  <2>2. ASSUME NewParser \/ NewChain
        PROVE  pc \in Early \union CheckSteps
    BY <2>2 DEF NewParser, NewChain, GotoOrDie, Goto, Early
  <2>3. ASSUME Check
        PROVE  pc \in Early \union CheckSteps
    BY <2>3 DEF Check, CheckHost, CheckConnection, CheckDatabase, CheckTable, CheckColumns,
                CheckServer, CheckEnds, Goto, CheckSteps
  <2>4. ASSUME StartChecked
        PROVE  pc \in Early \union CheckSteps
    BY <2>4 DEF StartChecked, Goto, CheckSteps
  <2>5. pc \in Early \union CheckSteps
    BY <1>1, <2>1, <2>2, <2>3, <2>4
  <2> QED
    BY <1>1, <2>0, <2>5, RowsStay DEF saving
<1>2. CASE (NewBuffer \/ Serve \/ OpenLineSource \/ ServeFails) /\ UNCHANGED <<found, saving>>
  <2>1. UNCHANGED <<filterVars, c>>
    BY <1>2 DEF NewBuffer, Serve, OpenLineSource, ServeFails
  <2>2. level # 0 => UNCHANGED <<rules, c.columns>> /\ level' # 0
    BY <2>1 DEF filterVars
  <2> QED
    BY <1>2, <2>2, RowsStay DEF saving
<1>3. CASE NewBreaker /\ UNCHANGED <<found, saving>>
  <2>1. UNCHANGED filterVars /\ pc = "breaker" /\ pc' = "serve"
    BY <1>3 DEF NewBreaker, Goto
  <2>2. UNCHANGED c.columns
    <3>1. ShapeOf(c) /\ {"CIRCUIT_BREAKER_THRESHOLD", "CIRCUIT_BREAKER_COOLDOWN"} \subseteq Numbers
      BY DEF SettingsInv, Numbers
    <3>2. LET s == Default("CIRCUIT_BREAKER_THRESHOLD", 5)
          IN  ShapeOf(s) /\ s.columns = c.columns
      BY <3>1, DefaultShape
    <3> QED
      BY <1>3, <3>1, <3>2 DEF NewBreaker, ShapeOf
  <2>3. level # 0 => UNCHANGED <<rules, c.columns>> /\ level' # 0
    BY <2>1, <2>2 DEF filterVars
  <2> QED
    BY <1>3, <2>3, RowsStay DEF saving
<1>4. CASE \/ (Replay /\ UNCHANGED <<found, saving>>)
           \/ (Flush /\ UNCHANGED found)
  <2>1. UNCHANGED <<c, rows, rules>>
    BY <1>4 DEF Replay, Flush, Apply, filterVars, saving
  <2>2. UNCHANGED level \/ level' = 1
    BY <1>4 DEF Replay, Flush, Apply, filterVars
  <2> QED
    BY <1>4, <2>1, <2>2, RowsStay
<1>5. CASE Filter /\ UNCHANGED found
  <2>1. UNCHANGED <<c, rows, rules>> /\ level' \in {level, level + 1}
    BY <1>5 DEF Filter, ApplyRule, NextRule, process, saving
  <2>2. level # 0 => UNCHANGED <<rules, c.columns>> /\ level' # 0
    BY <1>0, <2>1
  <2> QED
    BY <1>5, <2>1, <2>2, RowsStay
<1>6. CASE Save /\ UNCHANGED found
  BY <1>6, SavedRows
<1>7. CASE ServerChanges \/ Rest \/ UNCHANGED vars
  <2>1. UNCHANGED <<found, filterVars, c, rows>>
    BY <1>7 DEF ServerChanges, Rest, vars, process, saving
  <2>2. level # 0 => UNCHANGED <<rules, c.columns>> /\ level' # 0
    BY <2>1 DEF filterVars
  <2> QED
    BY <2>1, <2>2, RowsStay
<1> QED
  BY <1>1, <1>2, <1>3, <1>4, <1>5, <1>6, <1>7 DEF Next, Step, Launch

LEMMA RowsInvariance == Spec => [](SettingsInv /\ ChainInv /\ RowsInv)
<1>1. Init => RowsInv
  <2> SUFFICES ASSUME Init PROVE RowsInv
    OBVIOUS
  <2>1. DOMAIN rows = {}
    BY DEF Init
  <2> QED
    BY <2>1, NoRows
<1>2. Init => SettingsInv /\ ChainInv
  BY SettingsInitially, ChainInitially
<1>3. (SettingsInv /\ ChainInv /\ RowsInv) /\ [Next]_vars => (SettingsInv /\ ChainInv /\ RowsInv)'
  BY SettingsKept, ChainKept, RowsKept
<1> QED
  BY <1>1, <1>2, <1>3, PTL DEF Spec

(* What the rules judge is what is stored, for any rules, fields and       *)
(* entries (filter.buildEnv, nginx.ParseField).                            *)
THEOREM RowsHavePassedRules == Spec => []StoredRowsPassRules
<1>1. RowsInv => StoredRowsPassRules
  BY DEF RowsInv
<1> QED
  BY <1>1, RowsInvariance, PTL

(* The last variable of a name decides what an _extra column holds, for    *)
(* any environment (SetEnvVariables, resolveEnrichment).                   *)
THEOREM ExtraVariablesReachRows == Spec => []ExtraReachesRows
<1>1. RowsInv => ExtraReachesRows
  BY DEF RowsInv
<1> QED
  BY <1>1, RowsInvariance, PTL

=============================================================================
