------------------------------- MODULE Startup -------------------------------
(***************************************************************************)
(* The start of the exporter up to the moment it serves: main.run calls    *)
(* NewConfig (environment over defaults, then the command line argument by *)
(* argument, then validation), builds the collector and lets ServeHttp     *)
(* register the routes.  Every early exit is a step of its own.            *)
(*                                                                         *)
(* Settings are strings.  What the standard library makes of a string is   *)
(* given by constant functions, partial where it returns an error:         *)
(* strconv.Atoi (environment), flag's base-0 ParseInt (command line),      *)
(* ParseBool, ParseUint, url.Parse and the split of a path at its slashes. *)
(* One argument is a record: "-o v", "-o=v" and a bare boolean "-o" are    *)
(* [opt |-> "o", val |-> "v"].                                             *)
(***************************************************************************)
EXTENDS Integers, Sequences

CONSTANTS
  Strings,    \* what settings and arguments are made of
  Envs,       \* environments: functions from EnvOptions to strings, "" = unset
  Arguments,  \* the arguments a command line is made of
  MaxArgs,    \* BOUND: the longest command line
  Atoi, FlagInt, ParseBool, ParseUint,
  HostOf,     \* url -> host name, as parseUrl has it: "https://" is put before
              \* a url without a scheme; undefined where url.Parse fails
  Levels,     \* the log levels parseLogLevel knows
  Split,      \* path -> its segments: "/a" is << "", "a" >>
  Unescape,   \* segment -> what its percent-escapes stand for
  Braced,     \* segments that hold a brace, ...
  Wild,       \* ... those among them that are one whole wildcard,
  Spaced,     \* ... and segments that hold whitespace
  Requests    \* paths of requests, as unescaped segments

TextOptions == {"url", "api_key", "prometheus_port", "prometheus_path",
                "log_level", "listen_address", "instance_name"}
NumberOptions == {"http_max_concurrency", "http_timeout_seconds"}
EnvOptions == TextOptions \cup NumberOptions \cup {"verify_ssl"}
Switches == {"verify_ssl", "version"}

Positional == "--"     \* an argument that is no flag, or "--" itself

ASSUME InputAssumption ==
  /\ MaxArgs \in Nat
  /\ {"", "9090", "/metrics", "info", "0.0.0.0"} \subseteq Strings   \* the defaults
  /\ Envs \subseteq [EnvOptions -> Strings]
  /\ Arguments \subseteq [opt : Strings, val : Strings]
  /\ Requests \subseteq Seq(Strings)

ASSUME LibraryAssumption ==
  /\ \A s \in DOMAIN Atoi : Atoi[s] \in Int
  /\ \A s \in DOMAIN FlagInt : FlagInt[s] \in Int
  /\ \A s \in DOMAIN ParseBool : ParseBool[s] \in BOOLEAN
  /\ \A s \in DOMAIN ParseUint : ParseUint[s] \in Nat
  /\ \A s \in DOMAIN HostOf : HostOf[s] \in Strings

\* Two paths that are split into the same segments are the same.
ASSUME PathAssumption ==
  /\ Wild \subseteq Braced
  /\ \A p \in DOMAIN Split :
       /\ Split[p] \in Seq(Strings)
       /\ \A i \in 1..Len(Split[p]) : Unescape[Split[p][i]] \in Strings
       /\ (Split[p] = << "", "" >>) => (p = "/")
       /\ (Split[p] = << "", "healthz" >>) => (p = "/healthz")

VARIABLES
  env, args,      \* what the process is started with
  pc,             \* env, flags, check, build, routes; serving, exit, crashed
  next,           \* the argument fs.Parse looks at
  text, number, switch,   \* the values behind the flags
  label,          \* the tdarr_instance label
  code            \* the exit code, once pc is exit

vars == << env, args, pc, next, text, number, switch, label, code >>
given == << env, args >>
settings == << text, number, switch >>

DefaultText ==
  [o \in TextOptions |->
     IF o = "prometheus_port" THEN "9090"
     ELSE IF o = "prometheus_path" THEN "/metrics"
     ELSE IF o = "log_level" THEN "info"
     ELSE IF o = "listen_address" THEN "0.0.0.0" ELSE ""]
DefaultNumber ==
  [o \in NumberOptions |-> IF o = "http_max_concurrency" THEN 3 ELSE 15]

\* The value an option has before the command line is read.
TextFromEnv(o) == IF env[o] # "" THEN env[o] ELSE DefaultText[o]
NumberFromEnv(o) == IF env[o] # "" THEN Atoi[env[o]] ELSE DefaultNumber[o]
SwitchFromEnv(o) ==
  IF o = "verify_ssl"
  THEN IF env[o] # "" THEN ParseBool[env[o]] ELSE TRUE
  ELSE FALSE

EnvFine ==
  /\ \A o \in NumberOptions : env[o] \in DOMAIN Atoi \cup {""}
  /\ env["verify_ssl"] \in DOMAIN ParseBool \cup {""}

Init ==
  /\ env \in Envs
  /\ args \in UNION {[1..n -> Arguments] : n \in 0..MaxArgs}
  /\ pc = "env" /\ next = 1 /\ label = "" /\ code = 0
  /\ text = DefaultText
  /\ number = DefaultNumber
  /\ switch = [o \in Switches |-> o = "verify_ssl"]

-----------------------------------------------------------------------------
Exit(c) == pc' = "exit" /\ code' = c

\* applyEnvDefaults fails on the first number or switch it cannot parse, and
\* parseConfig returns that before a single argument is looked at.
RefuseEnv ==
  /\ pc = "env" /\ ~EnvFine
  /\ Exit(1)
  /\ UNCHANGED << given, next, settings, label >>

\* The environment over the defaults; the result is each flag's default.
ApplyEnv ==
  /\ pc = "env" /\ EnvFine
  /\ text' = [o \in TextOptions |-> TextFromEnv(o)]
  /\ number' = [o \in NumberOptions |-> NumberFromEnv(o)]
  /\ switch' = [o \in Switches |-> SwitchFromEnv(o)]
  /\ pc' = "flags"
  /\ UNCHANGED << given, next, label, code >>

-----------------------------------------------------------------------------
(* Parsing the command line: fs.Parse takes the arguments in order, a later *)
(* flag overwrites an earlier one, and stops at the first argument that is  *)
(* no flag: whatever follows is kept in fs.Args(), which nobody reads.      *)

\* A flag fs knows, with a value that parses.
Fine(a) ==
  \/ a.opt \in TextOptions
  \/ a.opt \in NumberOptions /\ a.val \in DOMAIN FlagInt
  \/ a.opt \in Switches /\ a.val \in DOMAIN ParseBool

SetFlag ==
  /\ pc = "flags" /\ next <= Len(args) /\ Fine(args[next])
  /\ LET a == args[next] IN
     /\ text' = [o \in TextOptions |-> IF o = a.opt THEN a.val ELSE text[o]]
     /\ number' = [o \in NumberOptions |->
                     IF o = a.opt THEN FlagInt[a.val] ELSE number[o]]
     /\ switch' = [o \in Switches |->
                     IF o = a.opt THEN ParseBool[a.val] ELSE switch[o]]
  /\ next' = next + 1
  /\ UNCHANGED << given, pc, label, code >>

\* -h or -help: fs prints the usage and NewConfig exits with 0.
Help ==
  /\ pc = "flags" /\ next <= Len(args) /\ args[next].opt = "help"
  /\ Exit(0)
  /\ UNCHANGED << given, next, settings, label >>

(* Mutant: every parse error is a configuration error, errFlagParse is lost. *)
RefuseFlag_One ==
  /\ pc = "flags" /\ next <= Len(args)
  /\ ~Fine(args[next]) /\ args[next].opt \notin {"help", Positional}
  /\ Exit(1)
  /\ UNCHANGED << given, next, settings, label >>

\* An unknown flag or a value that does not parse.
RefuseFlag ==
  /\ pc = "flags" /\ next <= Len(args)
  /\ ~Fine(args[next]) /\ args[next].opt \notin {"help", Positional}
  /\ Exit(2)
  /\ UNCHANGED << given, next, settings, label >>

EndFlags ==
  /\ pc = "flags"
  /\ next <= Len(args) => args[next].opt = Positional
  /\ pc' = "check"
  /\ UNCHANGED << given, next, settings, label, code >>

-----------------------------------------------------------------------------
(* Validation *)

\* path.Clean leaves a rooted path alone: it is "/", or no segment after the
\* leading slash is empty or a dot or two.
Clean(p) ==
  \/ p = "/"
  \/ \A i \in 2..Len(Split[p]) : Split[p][i] \notin {"", ".", ".."}

Rooted(p) == Len(Split[p]) > 1 /\ Split[p][1] = ""

Holds(p, segments) == \E i \in 1..Len(Split[p]) : Split[p][i] \in segments

(* Mutant: braces are let through, as ServeMux accepts a whole wildcard. *)
PathFine_Braces(p) ==
  /\ Rooted(p)
  /\ ~Holds(p, Spaced)
  /\ Clean(p)
  /\ p \notin {"/", "/healthz"}

PathFine(p) ==
  /\ Rooted(p)
  /\ ~Holds(p, Braced) /\ ~Holds(p, Spaced)
  /\ Clean(p)
  /\ p \notin {"/", "/healthz"}

(* Mutant: a url without a host is let through, as url.Parse does. *)
UrlFine_NoHost(u) == u # "" /\ u \in DOMAIN HostOf

UrlFine(u) == u # "" /\ u \in DOMAIN HostOf /\ HostOf[u] # ""
NumberFine(n) == n > 0
PortFine(t) == t \in DOMAIN ParseUint /\ ParseUint[t] \in 1..65535

\* The checks of parseConfig in conjunction: each of them exits with 1.
Acceptable ==
  /\ UrlFine(text["url"])
  /\ \A o \in NumberOptions : NumberFine(number[o])
  /\ PortFine(text["prometheus_port"])
  /\ text["prometheus_path"] \in DOMAIN Split /\ PathFine(text["prometheus_path"])
  /\ text["log_level"] \in Levels

\* -version wins over every check; run prints it and returns 0.
Version ==
  /\ pc = "check" /\ switch["version"]
  /\ Exit(0)
  /\ UNCHANGED << given, next, settings, label >>

Refuse ==
  /\ pc = "check" /\ ~switch["version"] /\ ~Acceptable
  /\ Exit(1)
  /\ UNCHANGED << given, next, settings, label >>

Accept ==
  /\ pc = "check" /\ ~switch["version"] /\ Acceptable
  /\ label' = IF text["instance_name"] # "" THEN text["instance_name"]
              ELSE HostOf[text["url"]]
  /\ pc' = "build"
  /\ UNCHANGED << given, next, settings, code >>

-----------------------------------------------------------------------------
(* From the configuration to a listening server *)

\* NewTdarrCollector may return an error; the registry is built otherwise.
Build ==
  /\ pc = "build"
  /\ \/ Exit(1)
     \/ pc' = "routes" /\ UNCHANGED code
  /\ UNCHANGED << given, next, settings, label >>

\* http.ServeMux undoes the escapes of a pattern, segment by segment.
Pattern(p) == [i \in 1..Len(Split[p]) |-> Unescape[Split[p][i]]]

\* http.ServeMux, as the comments of parseConfig describe it: what makes the
\* registration of "GET " + path panic.  Rather too much than too little: the
\* more panics, the more the checks of parseConfig have to keep away.
RegisterPanics(p) ==
  \/ ~Rooted(p) \/ ~Clean(p)
  \/ Holds(p, Spaced) \/ Holds(p, Braced \ Wild)
  \/ Pattern(p) \in {<< "", "" >>, << "", "healthz" >>}

\* A panic in the goroutine of ServeHttp takes the process down.
Register ==
  /\ pc = "routes"
  /\ pc' = IF RegisterPanics(text["prometheus_path"]) THEN "crashed" ELSE "serving"
  /\ UNCHANGED << given, next, settings, label, code >>

\* http.ServeMux: a wildcard segment takes any segment, the more specific
\* pattern wins, and "/" catches the rest.
Route(r) ==
  LET path == text["prometheus_path"]
      pattern == Pattern(path) IN
  IF r = << "", "healthz" >> THEN "healthz"
  ELSE IF r = << "", "" >> THEN "index"
  ELSE IF /\ Len(r) = Len(pattern)
          /\ \A i \in 1..Len(r) : pattern[i] = r[i] \/ Split[path][i] \in Wild
  THEN "metrics" ELSE "notFound"

\* Serving, exited and crashed are the end of this module; Shutdown goes on
\* from serving.
Next ==
  \/ RefuseEnv \/ ApplyEnv
  \/ SetFlag \/ Help \/ RefuseFlag \/ EndFlags
  \/ Version \/ Refuse \/ Accept
  \/ Build \/ Register

Spec == Init /\ [][Next]_vars

-----------------------------------------------------------------------------
(* Properties *)

TypeOK ==
  /\ env \in Envs /\ args \in Seq(Arguments)
  /\ pc \in {"env", "flags", "check", "build", "routes", "serving", "exit", "crashed"}
  /\ next \in 1..Len(args) + 1
  /\ text \in [TextOptions -> Strings]
  /\ number \in [NumberOptions -> Int]
  /\ switch \in [Switches -> BOOLEAN]
  /\ label \in Strings /\ code \in 0..2

\* The n-th argument (or the end) is the first that is not a good flag.
Stops(n) ==
  /\ n \in 1..Len(args) + 1
  /\ \A j \in 1..n - 1 : Fine(args[j])
  /\ n <= Len(args) => ~Fine(args[n])

\* The j-th argument is the last of the first n that sets option o.
Decides(j, o, n) ==
  /\ j \in 1..n /\ args[j].opt = o
  /\ \A k \in j + 1..n : args[k].opt # o

Silent(o, n) == \A j \in 1..n : args[j].opt # o

\* The settings are those of the first n arguments: the last that names an
\* option decides it, the environment or the default if none does.
Reflects(n) ==
  /\ \A o \in TextOptions :
       /\ Silent(o, n) => text[o] = TextFromEnv(o)
       /\ \A j \in 1..n : Decides(j, o, n) => text[o] = args[j].val
  /\ \A o \in NumberOptions :
       /\ Silent(o, n) => number[o] = NumberFromEnv(o)
       /\ \A j \in 1..n : Decides(j, o, n) => number[o] = FlagInt[args[j].val]
  /\ \A o \in Switches :
       /\ Silent(o, n) => switch[o] = SwitchFromEnv(o)
       /\ \A j \in 1..n : Decides(j, o, n) => switch[o] = ParseBool[args[j].val]

Running == pc \in {"build", "routes", "serving", "crashed"}

(* A process that gets past its configuration runs with what it was given:  *)
(* for every option the last flag before the first argument that is no      *)
(* flag, else the environment, else the default; nothing in between failed  *)
(* to parse, and the instance label is never empty (config.go:99-144,       *)
(* 179-198, 262-284).                                                       *)
Configured ==
  Running =>
    /\ EnvFine /\ label # ""
    /\ \E n \in 1..Len(args) + 1 :
         /\ Stops(n) /\ Reflects(n - 1)
         /\ n <= Len(args) => args[n].opt = Positional

(* The exit code names what ended the start, whichever error comes first: a *)
(* malformed environment is 1 even under -h or -version, a help flag before *)
(* any bad flag is 0, a bad flag before it is 2, and an accepted command    *)
(* line exits with 0 only for -version (config.go:291-310, main.go:30-50).  *)
ExitCode ==
  pc = "exit" =>
    \/ ~EnvFine /\ code = 1
    \/ EnvFine /\ \E n \in 1..Len(args) + 1 :
         /\ Stops(n)
         /\ IF n <= Len(args) /\ args[n].opt = "help" THEN code = 0
            ELSE IF n <= Len(args) /\ args[n].opt # Positional THEN code = 2
            ELSE /\ Reflects(n - 1)
                 /\ code = IF switch["version"] THEN 0 ELSE 1

\* ServeMux reads the path as parseConfig does.
Plain(p) == Pattern(p) = Split[p]

(* No path without escapes that parseConfig accepts crashes the server      *)
(* goroutine, and under every path that is registered the metrics are       *)
(* served at that path and nowhere else, the index at "/" and health at     *)
(* "/healthz", with escapes and without                                     *)
(* (config.go:220-250 against server.go:30-47).                             *)
Routing ==
  /\ pc = "crashed" => ~Plain(text["prometheus_path"])
  /\ pc = "serving" => \A r \in Requests :
       /\ (Route(r) = "metrics") <=> (r = Pattern(text["prometheus_path"]))
       /\ (Route(r) = "healthz") <=> (r = << "", "healthz" >>)
       /\ (Route(r) = "index") <=> (r = << "", "" >>)

(* What config.go:220-225 validates the path for: to fail cleanly at startup *)
(* instead of crashing the goroutine of ServeHttp.                           *)
RegistersCleanly == pc # "crashed"
=============================================================================
