---------------------------------- MODULE Boot ----------------------------------
(***************************************************************************)
(* How a server starts: it reads its configuration from the environment,   *)
(* or is built with one, checks it, and refuses to start or serves calls.  *)
(* A call's arguments are checked against the schema of its tool before    *)
(* its handler reads them.                                                 *)
(***************************************************************************)
EXTENDS EnvText, ToolArgs

CONSTANTS
  MAX_TIMEOUT_MS,       \* 2^31 - 1: the longest delay, and the largest FETCH count
  QueryBackstop,        \* what query_timeout adds to the statement's
  ConnectFloor,         \* CONNECT_TIMEOUT_FLOOR_MS
  MAX_MAX_RESULT_BYTES,
  DEFAULT,              \* DEFAULT[v]: the number variable v defaults to
  Base,                 \* Base[s]: an environment that server s starts in
  Settings,             \* Settings[s][v]: what its variable v may hold instead
  Configs,              \* Configs[s]: the configurations it may be built with
  Arguments,            \* Arguments[t]: the arguments that a tool is called with
  Ids                   \* gist ids

ASSUME LimitsAssumption ==
  /\ MAX_TIMEOUT_MS \in Nat \ {0}
  /\ QueryBackstop \in 1..MAX_TIMEOUT_MS /\ ConnectFloor \in 1..MAX_TIMEOUT_MS
  /\ MAX_SAFE_INTEGER \in Nat /\ MAX_MAX_RESULT_BYTES \in Nat

VARIABLES
  server,  \* which server starts
  env,     \* its environment, or <<>> when it is built with a configuration
  config,  \* the configuration, or why it does not start
  call,    \* the call it handles
  read     \* the arguments the handler reads, by their kinds

bootVars == <<server, env, config, call, read>>

Refused(why) == [refused |-> why]
Starting     == Refused("starting")
Serves(c)    == "refused" \notin DOMAIN c

\* It has a configuration that it takes.
Up == "built" \notin DOMAIN config /\ Serves(config)

\* What a variable holds, or its default when that is nothing.
OrDefault(t, default) == IF t = <<>> THEN default ELSE t

--------------------------------------------------------------------------------
(* github-gists.                                                           *)

Wide     == {"wide", "BOM", "ZWSP"}   \* past Latin-1
Controls == {"TAB", "LF", "NUL"}

\* What a header carries.
assertTokenIsHeaderSafe(t)     == \A i \in DOMAIN t : t[i] \notin Controls \cup Wide
assertUserAgentIsHeaderSafe(t) == \A i \in DOMAIN t : t[i] \notin (Controls \ {"TAB"}) \cup Wide

\* The part of t before the first character of stops.
Until(t, stops) ==
  LET ends == {i \in DOMAIN t : t[i] \in stops} IN IF ends = {} THEN t ELSE SubSeq(t, 1, Min(ends) - 1)

Without(t, prefix) == SubSeq(t, Len(prefix) + 1, Len(t))

\* The segments of a path: a cut is a slash or an end, and the k-th has k - 1 before it.
Segments(path, slashes) ==
  LET cuts == {0, Len(path) + 1} \cup {i \in DOMAIN path : path[i] \in slashes}
      cut  == [k \in 1..Cardinality(cuts) |-> CHOOSE i \in cuts : Cardinality({j \in cuts : j < i}) = k - 1]
  IN  [k \in 1..(Cardinality(cuts) - 1) |-> SubSeq(path, cut[k] + 1, cut[k + 1] - 1)]

\* new URL(): tabs and line ends go wherever they are, spaces and NUL at the ends;
\* the slashes after the scheme may be many, and \ is one of them.
Slashes    == {"/", "\\"}
Outer      == {" ", "NUL"}
OneLine(t) == IF \E i \in DOMAIN t : t[i] \in {"TAB", "LF"}
              THEN SelectSeq(t, LAMBDA c : c \notin {"TAB", "LF"}) ELSE t
Rest(t)   == LET u == Tail(Trimmed(OneLine(t), Outer))
                 starts == {i \in DOMAIN u : u[i] \notin Slashes}
             IN  IF starts = {} THEN <<>> ELSE SubSeq(u, Min(starts), Len(u))
Authority(t) == Until(Rest(t), Slashes \cup {"?", "#"})

\* A host, and no user: an @ may only come first, after an empty name.
assertBaseUrlIsFetchable(t) ==
  LET host == Without(Authority(t), IF Until(Authority(t), {"@"}) = <<>> THEN <<"@">> ELSE <<>>)
  IN  /\ Authority(t) \notin {<<>>, <<"@">>}
      /\ \A i \in DOMAIN host : host[i] \notin {"@"} \cup Outer

\* Mutant: only the spelling with dots.
DotsPlain(segment) == segment \in {<<".">>, <<".", ".">>}

\* /^(\.|%2e){1,2}$/
Dots(segment) == Len(segment) \in 1..2 /\ \A i \in DOMAIN segment : segment[i] \in {".", "%2e"}

\* The path as written: what follows the authority.
assertBaseUrlJoinsCleanly(t) ==
  LET written == Tail(t)
      path    == Without(written, Until(written, Slashes))
  IN  /\ t = trim(t)
      /\ \A i \in DOMAIN t : t[i] \notin {"TAB", "LF", "?", "#"}
      /\ Last(t) # "/"
      /\ \A i \in DOMAIN path : path[i] # "\\"
      /\ \A i \in DOMAIN Segments(path, {"/"}) : ~Dots(Segments(path, {"/"})[i])

\* An empty text is the default, a blank one is not.
gistsTimeout(raw) ==
  IF raw = Unset \/ raw = <<>> THEN DEFAULT["TIMEOUT_MS"]
  ELSE LET n == parsePlain(trim(raw)) IN IF n <= MAX_TIMEOUT_MS THEN n ELSE 0

readGistsConfigFromEnv(e) ==
  LET token     == trim(OrEmpty(e["GITHUB_TOKEN"]))
      base      == OrDefault(trim(OrEmpty(e["BASE_URL"])), <<"http://", "h">>)
      joinable  == IF Last(base) = "/" THEN Front(base) ELSE base
      userAgent == OrDefault(trim(OrEmpty(e["USER_AGENT"])), <<"a">>)
      timeout   == gistsTimeout(e["TIMEOUT_MS"])
  IN  CASE ~assertTokenIsHeaderSafe(token)         -> Refused("token")
        [] base[1] # "http://"                     -> Refused("base URL")
        [] ~assertBaseUrlIsFetchable(base)         -> Refused("base URL")
        [] ~assertBaseUrlJoinsCleanly(joinable)    -> Refused("base URL")
        [] ~assertUserAgentIsHeaderSafe(userAgent) -> Refused("user agent")
        [] timeout = 0                             -> Refused("timeout")
        [] OTHER -> [token |-> IF token = <<>> THEN Unset ELSE token, baseUrl |-> joinable,
                     userAgent |-> userAgent, timeoutMs |-> timeout]

\* A token that is null, here Unset, or one that fetch sends as it is.
validateGistsConfig(c) ==
  /\ c.baseUrl # <<>> /\ c.baseUrl[1] = "http://"
  /\ assertBaseUrlIsFetchable(c.baseUrl) /\ assertBaseUrlJoinsCleanly(c.baseUrl)
  /\ c.userAgent # <<>> /\ assertUserAgentIsHeaderSafe(c.userAgent)
  /\ c.timeoutMs \in 1..MAX_TIMEOUT_MS
  /\ c.token # Unset =>
       c.token # <<>> /\ assertTokenIsHeaderSafe(c.token) /\ c.token = trim(c.token)

\* encodeURIComponent: the characters that it leaves as they are, the dot among them.
Unreserved == DigitChars \cup {"a", "-", "."}

gistEndpoint(id) ==
  <<"/", "gists", "/">>
    \o [i \in DOMAIN trim(id) |-> IF trim(id)[i] \in Unreserved THEN trim(id)[i] ELSE "encoded"]

GistAllowed(id) == trim(id) \notin {<<>>, <<".">>, <<".", ".">>}

--------------------------------------------------------------------------------
(* filesystem-sandbox, and its Python port.                                *)

Affirmative == {<<"1">>, <<"yes">>, <<"YES">>}

\* A list, and the parts of it that hold something.
Parts(raw)   == Segments(raw, {":"})
Roots(parts) == SelectSeq(parts, LAMBDA p : p # <<>>)

\* Mutant: String.prototype.trim.
configTrimJs(t) == trim(t)

configTrimTs(t) == configTrim(t)

readSandboxConfigFromEnv(e) ==
  LET parts == Parts(OrEmpty(e["ALLOWLIST"]))
      roots == Roots([i \in DOMAIN parts |-> configTrimTs(parts[i])])
      bytes == configTrimTs(OrEmpty(e["MAX_BYTES"]))
      n     == IF bytes = <<>> THEN DEFAULT["MAX_BYTES"] ELSE parsePlain(bytes)
  IN  CASE roots = <<>> -> Refused("allow-list")
        [] n = 0        -> Refused("max bytes")
        [] OTHER -> [roots |-> roots, maxBytes |-> n,
                     readOnly |-> configTrimTs(OrEmpty(e["READ_ONLY"])) \in Affirmative]

read_sandbox_config_from_env(e) ==
  LET parts == Parts(OrEmpty(e["ALLOWLIST"]))
      roots == Roots([i \in DOMAIN parts |-> configTrim(parts[i])])
      bytes == configTrim(OrEmpty(e["MAX_BYTES"]))
      n     == IF bytes = <<>> THEN DEFAULT["MAX_BYTES"] ELSE parsePy(bytes)
  IN  CASE roots = <<>> -> Refused("allow-list")
        [] n = 0        -> Refused("max bytes")
        [] OTHER -> [roots |-> roots, maxBytes |-> n,
                     readOnly |-> configTrim(OrEmpty(e["READ_ONLY"])) \in Affirmative]

--------------------------------------------------------------------------------
(* postgres-readonly.                                                      *)

\* Below the 32-bit limits: the backstop's second, and the one extra row.
MAX_STATEMENT_TIMEOUT_MS == MAX_TIMEOUT_MS - QueryBackstop
MAX_MAX_ROWS             == MAX_TIMEOUT_MS - 1

parseIntEnv(e, v) == IF e[v] = Unset THEN DEFAULT[v] ELSE parsePlain(trim(e[v]))

boundMaxRows(n) == IF n <= MAX_MAX_ROWS THEN n ELSE 0

readDbConfigFromEnv(e) ==
  LET database == trim(OrEmpty(e["DATABASE_URL"]))
      rows     == boundMaxRows(parseIntEnv(e, "MAX_ROWS"))
      timeout  == parseIntEnv(e, "STATEMENT_TIMEOUT_MS")
      bytes    == parseIntEnv(e, "MAX_RESULT_BYTES")
  IN  CASE database = <<>> -> Refused("DATABASE_URL")
        [] rows = 0        -> Refused("MAX_ROWS")
        [] timeout = 0 \/ timeout > MAX_STATEMENT_TIMEOUT_MS -> Refused("STATEMENT_TIMEOUT_MS")
        [] bytes = 0 \/ bytes > MAX_MAX_RESULT_BYTES         -> Refused("MAX_RESULT_BYTES")
        [] OTHER -> [database |-> database, maxRows |-> rows, statementTimeoutMs |-> timeout,
                     maxResultBytes |-> bytes]

validateDbConfig(c) ==
  /\ trim(c.database) # <<>>
  /\ c.maxRows \in 1..MAX_MAX_ROWS
  /\ c.maxResultBytes \in 1..MAX_MAX_RESULT_BYTES
  /\ c.statementTimeoutMs \in 1..MAX_STATEMENT_TIMEOUT_MS

--------------------------------------------------------------------------------
(* internal-tools-bridge.  A path is known by what is there.               *)

readBridgeConfig(e) ==
  [cwd |-> OrDefault(trim(OrEmpty(e["CWD"])), <<"directory">>), allowlist |-> <<"absolute">>,
   timeoutMs |-> DEFAULT["TIMEOUT_MS"], maxOutputBytes |-> DEFAULT["MAX_BYTES"]]

\* A relative path, a file and a path to nothing are refused.
validateBridgeConfig(c) ==
  /\ c.cwd = <<"directory">>
  /\ c.allowlist # <<>> /\ \A i \in DOMAIN c.allowlist : c.allowlist[i] = "absolute"
  /\ c.timeoutMs \in 1..MAX_TIMEOUT_MS
  /\ c.maxOutputBytes >= 1

--------------------------------------------------------------------------------
(* The tools, and what their handlers read.                                *)

Tool(required, optional) ==
  [properties |-> [f \in DOMAIN required \cup DOMAIN optional |->
                     IF f \in DOMAIN required THEN required[f] ELSE optional[f]],
   required |-> DOMAIN required]

Nil == <<>>

fsTools == [
  list_directory |-> Tool([path |-> "string"], Nil),
  read_file      |-> Tool([path |-> "string"], Nil),
  write_file     |-> Tool([path |-> "string", content |-> "string"], Nil)]

gistsTools == [
  get_gist         |-> Tool([gist_id |-> "string"], Nil),
  update_gist_file |-> Tool([gist_id |-> "string", filename |-> "string", content |-> "string"],
                            [description |-> "string"])]

pgTools == [
  describe_schema |-> Tool(Nil, [schema |-> "string"]),
  run_select      |-> Tool([sql |-> "string"], Nil),
  sample_rows     |-> Tool([table |-> "string"], [schema |-> "string", limit |-> "integer"])]

fsReads == [
  list_directory |-> {"path"}, read_file |-> {"path"}, write_file |-> {"path", "content"}]

gistsReads == [
  get_gist |-> {"gist_id"}, update_gist_file |-> {"gist_id", "filename", "content", "description"}]

pgReads == [
  describe_schema |-> {"schema"}, run_select |-> {"sql"},
  sample_rows |-> {"schema", "table", "limit"}]

Field(a, key) == IF a.kind = "object" /\ key \in DOMAIN a.value THEN a.value[key].kind ELSE "undefined"

\* A call that is refused, or names no tool, reads nothing.
Reads(tools, reads, c) ==
  IF c.tool \in DOMAIN tools /\ checkToolArgs(tools[c.tool], c.args) = "null"
  THEN [f \in reads[c.tool] |-> Field(c.args, f)]
  ELSE Nil

fsHandler(c)    == Reads(fsTools, fsReads, c)
gistsHandler(c) == Reads(gistsTools, gistsReads, c)
pgHandler(c)    == Reads(pgTools, pgReads, c)

--------------------------------------------------------------------------------
Servers == {"filesystem-sandbox", "github-gists", "postgres-readonly", "internal-tools-bridge"}

\* The variables that a server reads, and the fields of its configuration.
Vars == [
  s \in Servers |->
    CASE s = "filesystem-sandbox" -> {"ALLOWLIST", "MAX_BYTES", "READ_ONLY"}
      [] s = "github-gists"       -> {"GITHUB_TOKEN", "BASE_URL", "USER_AGENT", "TIMEOUT_MS"}
      [] s = "postgres-readonly"  -> {"DATABASE_URL", "MAX_ROWS", "STATEMENT_TIMEOUT_MS", "MAX_RESULT_BYTES"}
      [] OTHER                    -> {"CWD"}]

Fields == [
  s \in Servers |->
    CASE s = "filesystem-sandbox" -> {}
      [] s = "github-gists"       -> {"token", "baseUrl", "userAgent", "timeoutMs"}
      [] s = "postgres-readonly"  -> {"database", "maxRows", "statementTimeoutMs", "maxResultBytes"}
      [] OTHER                    -> {"cwd", "allowlist", "timeoutMs", "maxOutputBytes"}]

\* A variable holds a text or nothing, and every default is a number that its
\* server takes.  filesystem-sandbox is not built with a configuration.
ASSUME StartsAssumption ==
  /\ \A s \in Servers :
       /\ DOMAIN Base[s] = Vars[s]
       /\ \A v \in Vars[s] : {Base[s][v]} \cup Settings[s][v] \subseteq Seq(STRING) \cup {Unset}
       /\ \A c \in Configs[s] : DOMAIN c = Fields[s]
  /\ Configs["filesystem-sandbox"] = {}
  /\ \A c \in Configs["github-gists"] : {OrEmpty(c.token), c.baseUrl, c.userAgent} \subseteq Seq(STRING)
  /\ Ids \subseteq Seq(STRING)
  /\ DEFAULT["TIMEOUT_MS"] \in 1..MAX_TIMEOUT_MS
  /\ DEFAULT["MAX_BYTES"] \in 1..MAX_SAFE_INTEGER
  /\ DEFAULT["MAX_ROWS"] \in 1..MAX_MAX_ROWS
  /\ DEFAULT["STATEMENT_TIMEOUT_MS"] \in 1..MAX_STATEMENT_TIMEOUT_MS
  /\ DEFAULT["MAX_RESULT_BYTES"] \in 1..MAX_MAX_RESULT_BYTES

NoCall == [tool |-> "none", args |-> Json("absent", Nil)]

\* A server is started by its environment, which its main program reads, or
\* built with a configuration by another program.  Bound: one variable differs
\* from the base.
BootInit ==
  /\ server \in Servers
  /\ \/ /\ \E v \in DOMAIN Base[server] : \E t \in Settings[server][v] : env = [Base[server] EXCEPT ![v] = t]
        /\ config = Starting
     \/ env = Nil /\ config \in {[built |-> c] : c \in Configs[server]}
  /\ call = NoCall /\ read = Nil

Validated(c, ok) == IF ok THEN c ELSE Refused("built")

\* An exception while it starts ends the process.
Read(s) ==
  CASE s = "filesystem-sandbox"    -> readSandboxConfigFromEnv(env)
    [] s = "github-gists"          -> readGistsConfigFromEnv(env)
    [] s = "postgres-readonly"     -> readDbConfigFromEnv(env)
    [] s = "internal-tools-bridge" -> Validated(readBridgeConfig(env), validateBridgeConfig(readBridgeConfig(env)))

Valid(s, c) ==
  CASE s = "github-gists"          -> validateGistsConfig(c)
    [] s = "postgres-readonly"     -> validateDbConfig(c)
    [] s = "internal-tools-bridge" -> validateBridgeConfig(c)
    [] OTHER                       -> TRUE

Start ==
  /\ config = Starting
  /\ config' = Read(server)
  /\ UNCHANGED <<server, env, call, read>>

Build ==
  /\ "built" \in DOMAIN config
  /\ config' = Validated(config.built, Valid(server, config.built))
  /\ UNCHANGED <<server, env, call, read>>

Handle(c) ==
  CASE server = "filesystem-sandbox" -> fsHandler(c)
    [] server = "github-gists"       -> gistsHandler(c)
    [] server = "postgres-readonly"  -> pgHandler(c)
    [] OTHER                         -> Nil

\* Bound: one call, of a server started in its base environment.
CallTool ==
  /\ env # Nil /\ env = Base[server] /\ Up /\ call = NoCall
  /\ \E t \in DOMAIN Arguments : \E a \in Arguments[t] : call' = [tool |-> t, args |-> a]
  /\ read' = Handle(call')
  /\ UNCHANGED <<server, env, config>>

BootNext == Start \/ Build \/ CallTool

BootSpec == BootInit /\ [][BootNext]_bootVars

--------------------------------------------------------------------------------
(* Properties.                                                             *)

Has(field) == field \in DOMAIN config

\* setTimeout, and a FETCH count.
Delay(n) == IF n \in 1..MAX_TIMEOUT_MS THEN n ELSE 1
Larger(a, b) == IF a > b THEN a ELSE b

\* No server is up, from an environment or built, with a number that one of its
\* uses does not take as it is: every timer that is set to it fires when it
\* says, PostgreSQL can count the rows it asks for, and the check that each call
\* makes again refuses none that the start has let through.
LimitsHold ==
  Up =>
    /\ Valid(server, config)
    /\ Has("timeoutMs") => Delay(config.timeoutMs) = config.timeoutMs
    /\ Has("statementTimeoutMs") =>
         LET n == config.statementTimeoutMs
         IN  /\ n > 0
             /\ Delay(Larger(n, ConnectFloor)) = Larger(n, ConnectFloor)
             /\ Delay(n + QueryBackstop) = n + QueryBackstop
    /\ Has("maxRows") => config.maxRows > 0 /\ config.maxRows + 1 <= MAX_TIMEOUT_MS
    /\ Has("maxResultBytes") => config.maxResultBytes \in 1..MAX_MAX_RESULT_BYTES
    /\ Has("maxBytes") => config.maxBytes \in 1..MAX_SAFE_INTEGER

\* The number a reader sees in a text: digits and a sign, whatever the white
\* space around them; 0 when it is something else.
Seen(t) == LET u == Trimmed(t, CONFIG_TRIM) IN IF Plain(u) THEN BigInt(u) ELSE 0

\* A server that is up runs with the number that was written, to the last digit,
\* or with the default of a variable that holds nothing: a unit, an exponent or
\* a cut never makes it another number.
NumberTrue ==
  Up /\ env # Nil =>
    \A v \in {"TIMEOUT_MS", "MAX_BYTES", "MAX_ROWS", "STATEMENT_TIMEOUT_MS", "MAX_RESULT_BYTES"} \cap DOMAIN env :
      LET field == CASE v = "TIMEOUT_MS" -> "timeoutMs" [] v = "MAX_BYTES" -> "maxBytes"
                     [] v = "MAX_ROWS" -> "maxRows" [] v = "STATEMENT_TIMEOUT_MS" -> "statementTimeoutMs"
                     [] OTHER -> "maxResultBytes"
          blank == Trimmed(OrEmpty(env[v]), CONFIG_TRIM) = Nil
      IN  config[field] = IF blank THEN DEFAULT[v] ELSE Seen(env[v])

\* Both: the number that is written is the one that is used.
NumbersHold == NumberTrue /\ LimitsHold

\* The two ports of filesystem-sandbox start or refuse together, with the same
\* roots, cap and mode.
PortsAgree ==
  server = "filesystem-sandbox" /\ env # Nil /\ config # Starting =>
    LET py == read_sandbox_config_from_env(env)
    IN  /\ Serves(config) <=> Serves(py)
        /\ Serves(config) => config = py

\* What the URL parser resolves: a dot written either way, alone or twice.
DotSegment(s) == s # Nil /\ Len(s) <= 2 /\ \A i \in DOMAIN s : s[i] \in {".", "%2e"}

\* The path fetch requests for a base URL and an endpoint.
Resolve(segments) ==
  LET path[n \in 0..Len(segments)] ==
        IF n = 0 THEN Nil
        ELSE IF ~DotSegment(segments[n]) THEN Append(path[n - 1], segments[n])
        ELSE IF Len(segments[n]) = 2 /\ path[n - 1] # Nil THEN Front(path[n - 1]) ELSE path[n - 1]
  IN  path[Len(segments)]
Requested(t) == LET path == Without(Rest(t), Authority(t)) IN Resolve(Segments(Until(path, {"?", "#"}), Slashes))

\* The path that was written, after the host that is asked.
Written(t) ==
  LET starts == {i \in DOMAIN Tail(t) : Tail(t)[i] \notin Slashes}
  IN  Segments(Without(SubSeq(Tail(t), Min(starts), Len(t) - 1), Authority(t)), {"/"})

\* What fetch sends of a header.
Sent(v) == Trimmed(v, {" ", "TAB", "LF"})

\* A github-gists server that is up requests what was written: the base as it
\* stands, with /gists/<id> below it, for every id it lets through; fetch takes
\* its headers, and sends the very token that its errors redact, never an empty
\* one.  (A call leaves the configuration as it is.)
RequestTrue ==
  Up /\ Has("baseUrl") /\ call = NoCall =>
    /\ \A id \in Ids : GistAllowed(id) =>
         LET t == config.baseUrl \o gistEndpoint(id) IN Requested(t) = Written(t)
    /\ env # Nil /\ env["BASE_URL"] # Unset =>
         trim(env["BASE_URL"]) \in {<<>>, config.baseUrl, config.baseUrl \o <<"/">>}
    /\ \A v \in {OrEmpty(config.token), config.userAgent} :
         \A i \in DOMAIN Sent(v) : Sent(v)[i] \notin {"LF", "NUL"} \cup Wide
    /\ config.token # Unset => Sent(config.token) = config.token /\ config.token # Nil

\* A handler reads every argument that a call brings, each of the type it takes
\* it for: none is ignored, coerced or inherited.
ArgsTyped ==
  read # Nil =>
    LET tools == CASE server = "filesystem-sandbox" -> fsTools
                   [] server = "github-gists"       -> gistsTools
                   [] OTHER                         -> pgTools
        tool  == tools[call.tool]
    IN  /\ (IF call.args.kind = "object" THEN DOMAIN call.args.value ELSE {}) \subseteq DOMAIN read
        /\ \A f \in DOMAIN read :
             \/ read[f] = tool.properties[f]
             \/ read[f] = "undefined" /\ f \notin tool.required
================================================================================
