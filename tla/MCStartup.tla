----------------------------- MODULE MCStartup -----------------------------
(* Starts with a handful of files, environments, hosts and servers.        *)
EXTENDS Startup

Numerals == [n \in {"0", "1", "2", "404", "9000", "-1"} |->
               CASE n = "0" -> 0 [] n = "1" -> 1 [] n = "2" -> 2
                 [] n = "404" -> 404 [] n = "9000" -> 9000 [] n = "-1" -> -1]
Decimals == [n \in {"0", "1", "2", "404", "0.25"} |->
               CASE n = "0" -> 0 [] n = "1" -> 100 [] n = "2" -> 200
                 [] n = "404" -> 40400 [] n = "0.25" -> 25]
NumberTexts == [n \in {0, 25, 40400} |->
                  CASE n = 0 -> "0" [] n = 25 -> "0.25" [] n = 40400 -> "404"]
Fractions == [s \in {"0", "0.5", "1", "2"} |->
                CASE s = "0" -> 0 [] s = "0.5" -> 2 [] s = "1" -> 4 [] s = "2" -> 8]
NoTexts == [s \in {} |-> ""]
Classes == [s \in {"404"} |-> "4xx"]
Robots == [ua \in {"bot"} |-> [s \in AgentSources |-> IF s = "_is_bot" THEN "1" ELSE "x"]]

Expressions ==
  [e \in {"status", "slow", "number", "bytes", "typo"} |->
     CASE e = "status" -> [field |-> "status", test |-> "positive"]
       [] e = "slow"   -> [field |-> "request_time", test |-> "positive"]
       [] e = "number" -> [field |-> "request", test |-> "convert"]
       [] e = "bytes"  -> [field |-> "bytes_sent", test |-> "positive"]
       [] e = "typo"   -> [field |-> "status", test |-> "broken"]]

FilterRules ==
  [v \in {"two rules", "one bad entry", "no rule", "typo", "rate"} |->
     CASE v = "two rules"     -> << <<"slow", "keep">>, <<"number", "drop", "0.5">>, <<>> >>
       [] v = "one bad entry" -> << <<"status">>, <<"slow", "drop", "x">>, <<"slow", "drop", "1">> >>
       [] v = "no rule"       -> << <<"status">>, <<>> >>
       [] v = "typo"          -> << <<"typo", "drop">> >>
       [] v = "rate"          -> << <<"slow", "drop", "2">> >>]

ExtraKeys == [n \in Known \union {"ENRICHMENT_POD", "ENRICHMENT_Pod"} |->
                IF n \in Known THEN "host" ELSE "pod"]
Underscores == {"_extra.pod", "_extra.host", "_is_bot", "_status_class"}
Extras == [s \in {"_extra.pod", "_extra.host"} |-> IF s = "_extra.pod" THEN "pod" ELSE "host"]

Wraps == {-1, 0, 1}

-----------------------------------------------------------------------------
Logged == [status |-> "status", time |-> "request_time", request |-> "request"]
Enriched == Logged @@ [pod |-> "_extra.pod", host |-> "_extra.host", bot |-> "_is_bot",
                       class |-> "_status_class"]

Basic ==
  [text    |-> [n \in Texts |-> IF n = "CLICKHOUSE_PORT" THEN "9000"
                                ELSE IF n = "ENRICHMENT_HOSTNAME" THEN "auto" ELSE ""],
   number  |-> [n \in Numbers |-> 0],
   flag    |-> [n \in Flags |-> FALSE],
   columns |-> Enriched,
   filters |-> <<>>,
   extra   |-> [k \in {"pod"} |-> "a"]]

Rule(e, a, r) == [expr |-> e, action |-> a, rate |-> r]
Number(n) == [kind |-> "number", value |-> n]
String(s) == [kind |-> "string", value |-> s]

FilterSets ==
  { <<>>,
    <<Rule("status", "drop", 0)>>,
    <<Rule("number", "keep", 4), Rule("slow", "drop", 2)>>,
    <<Rule("number", "drop", 2), Rule("status", "keep", 2)>>,
    <<Rule("bytes", "drop", 0)>> }

SomeFiles ==
  {[Basic EXCEPT !.filters = fs] : fs \in FilterSets}
  \union
  {[Basic EXCEPT !.columns = cols, !.filters = <<Rule("slow", "keep", 0)>>] :
     cols \in {Logged, <<>>}}
  \union
  {[Basic EXCEPT !.text["BUFFER_TYPE"] = "disk", !.flag["CIRCUIT_BREAKER_ENABLED"] = TRUE,
                 !.number["MAX_BUFFER_SIZE"] = 2]}

Var(n, v) == [name |-> n, value |-> v]
JsonFormat == Var("NGINX_LOG_FORMAT_TYPE", "json")

SomeEnvirons ==
  { <<>>,
    <<JsonFormat, Var("ENRICHMENT_POD", "b"), Var("ENRICHMENT_SERVICE", "s"), Var("ENRICHMENT_Pod", "")>>,
    <<JsonFormat, Var("MAX_BUFFER_SIZE", "10k"), Var("BUFFER_TYPE", "disk")>>,
    <<Var("MAX_BUFFER_SIZE", "-1"), Var("CIRCUIT_BREAKER_ENABLED", "yes")>>,
    <<Var("CLICKHOUSE_PORT", "http")>>,
    <<JsonFormat, Var("CIRCUIT_BREAKER_ENABLED", "true"), Var("CIRCUIT_BREAKER_COOLDOWN", "9000")>> }
  \union
  {<<JsonFormat, Var("FILTER_RULES", v)>> : v \in DOMAIN FilterRules}

All == {"config", "format", "hostname", "log", "readable", "spool", "port"}
SomeHosts ==
  {All, All \ {"format", "hostname"}, All \ {"log", "readable"}, All \ {"readable"},
   All \ {"spool", "port"}}

Taken == [col \in DOMAIN Enriched |->
            CASE col = "status" -> {"int"} [] col = "time" -> {"float"} [] OTHER -> {"text"}]
Up == [up |-> TRUE, database |-> TRUE, table |-> TRUE, columns |-> Taken]
SomeServers ==
  { Up,
    [Up EXCEPT !.columns["time"] = {"text"}],
    [Up EXCEPT !.columns = Restrict(Taken, DOMAIN Logged)],
    [Up EXCEPT !.table = FALSE, !.columns = <<>>],
    [Up EXCEPT !.database = FALSE, !.table = FALSE, !.columns = <<>>],
    [Up EXCEPT !.up = FALSE] }

JsonLine(status, time, request) ==
  [format |-> "json", fields |-> [status |-> status, request_time |-> time, request |-> request]]

SomeBatches ==
  { << JsonLine(Number(40400), Number(25), String("404")),
       JsonLine(String("2"), Number(0), String("GET /")) >>,
    << [format |-> "json", fields |-> [status |-> String("-"), http_user_agent |-> String("bot")]],
       [format |-> "text", fields |-> [status |-> String("404"), request_time |-> String("0.25"),
                                       request |-> String("-1")]] >> }

=============================================================================
