------------------------------ MODULE Entries ------------------------------
(***************************************************************************)
(* nginx/nginx.go, nginx/json.go and the rows of clickhouse/clickhouse.go: *)
(* lines become entries, and an entry becomes a row with one value for     *)
(* every configured column.  An entry maps the names of its fields to      *)
(* texts; a value is what goes to the driver.                              *)
(***************************************************************************)
EXTENDS Settings

CONSTANTS
  Decimal,      \* strconv.ParseFloat of a field: text -> hundredths
  Times,        \* time_local in NGINX's layout -> in ClickHouse's layout
  NumberText,   \* hundredths -> text: strconv.FormatInt and FormatFloat
  StatusClass,  \* texts with a first digit from 1 to 5 -> "1xx" to "5xx"
  Domain,       \* referers with a host -> the host
  Extension,    \* requests whose path has an extension -> the extension
  Agents,       \* the UA parser: user agent -> value of each of AgentSources
  Underscored,  \* sources of columns that begin with "_"
  ExtraSource   \* those that begin with "_extra." -> the rest

Enrichments ==
  {"_hostname", "_environment", "_service", "_status_class", "_referrer_domain",
   "_url_extension"}

AgentSources ==
  {"_is_bot", "_bot_name", "_bot_class", "_browser", "_browser_version", "_os",
   "_device_type"}

ASSUME SourcesAssumption ==
  DOMAIN ExtraSource \subseteq Underscored \ (Enrichments \union AgentSources)

Text(s) == [type |-> "text", value |-> s]
Whole(n) == [type |-> "int", value |-> n]
Float(n) == [type |-> "float", value |-> n]

-----------------------------------------------------------------------------
(* A string as it is; an object or array as its JSON text.                 *)
AnyToString(v) ==
  CASE v.kind = "number" -> NumberText[v.value]
    [] v.kind = "bool"   -> IF v.value THEN "true" ELSE "false"
    [] v.kind = "null"   -> ""
    [] OTHER             -> v.value

(* Lines that do not parse are logged and skipped, in either format.  A    *)
(* line is known by the format it is written in and by its fields.         *)
Parse(format, lines) ==
  LET parsed == Picked(lines, {i \in DOMAIN lines : lines[i].format = format})
  IN  [i \in DOMAIN parsed |->
         [f \in DOMAIN parsed[i].fields |-> AnyToString(parsed[i].fields[f])]]

-----------------------------------------------------------------------------
IntFields ==
  {"bytes_sent", "connections_waiting", "connections_active", "status",
   "connection", "request_length", "body_bytes_sent"}

FloatFields ==
  {"request_time", "upstream_connect_time", "upstream_header_time",
   "upstream_response_time", "msec"}

(* What does not convert stays a text.                                     *)
ParseField(f, s) ==
  CASE f = "time_local" /\ s \in DOMAIN Times    -> Text(Times[s])
    [] f \in IntFields /\ s \in DOMAIN Numeral   -> Whole(Numeral[s])
    [] f \in FloatFields /\ s \in DOMAIN Decimal -> Float(Decimal[s])
    [] OTHER                                     -> Text(s)

-----------------------------------------------------------------------------
Field(entry, f) == IF f \in DOMAIN entry THEN entry[f] ELSE ""

NoAgent == [s \in AgentSources |-> IF s = "_is_bot" THEN "0" ELSE ""]

(* parseUA: no user agent, an empty one and "-" are not parsed.            *)
Agent(entry) ==
  LET ua == Field(entry, "http_user_agent")
  IN  IF ua \in {"", "-"} THEN NoAgent ELSE Agents[ua]

Lookup(table, key) == IF key \in DOMAIN table THEN table[key] ELSE ""

(* c are the settings; an unknown source yields the empty text.            *)
ResolveEnrichment(source, entry, c) ==
  CASE source = "_hostname"         -> c.text["ENRICHMENT_HOSTNAME"]
    [] source = "_environment"      -> c.text["ENRICHMENT_ENVIRONMENT"]
    [] source = "_service"          -> c.text["ENRICHMENT_SERVICE"]
    [] source = "_status_class"     -> Lookup(StatusClass, Field(entry, "status"))
    [] source = "_referrer_domain"  -> Lookup(Domain, Field(entry, "http_referer"))
    [] source = "_url_extension"    -> Lookup(Extension, Field(entry, "request"))
    [] source \in AgentSources      -> Agent(entry)[source]
    [] source \in DOMAIN ExtraSource -> Lookup(c.extra, ExtraSource[source])
    [] OTHER                        -> ""

(* A field the entry does not have is logged and becomes the empty text.   *)
BuildRow(entry, c) ==
  [col \in DOMAIN c.columns |->
     LET source == c.columns[col]
     IN  IF source \in Underscored THEN Text(ResolveEnrichment(source, entry, c))
         ELSE IF source \in DOMAIN entry THEN ParseField(source, entry[source])
         ELSE Text("")]

=============================================================================
