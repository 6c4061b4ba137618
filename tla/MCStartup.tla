------------------------------ MODULE MCStartup ------------------------------
(* Instance of Startup for TLC: one value of every kind the code tells     *)
(* apart, in the environment and on the command line.                      *)
EXTENDS Startup, TLC

\* "010" is ten to Atoi and eight to the flag package; "0x10" is a number to
\* the flag package alone.
MCAtoi == ("010" :> 10) @@ ("7" :> 7) @@ ("0" :> 0)
MCFlagInt == ("010" :> 8) @@ ("0x10" :> 16) @@ ("7" :> 7) @@ ("0" :> 0)
MCParseBool == ("true" :> TRUE) @@ ("false" :> FALSE)
MCParseUint == ("9090" :> 9090) @@ ("0" :> 0) @@ ("65535" :> 65535) @@ ("65536" :> 65536)
MCHostOf == ("http://tdarr" :> "tdarr") @@ ("nas" :> "nas") @@ ("https://" :> "")
MCSplit ==
  ("" :> << "" >>) @@ ("/" :> << "", "" >>) @@ ("/healthz" :> << "", "healthz" >>)
  @@ ("/metrics" :> << "", "metrics" >>) @@ ("/a/b" :> << "", "a", "b" >>)
  @@ ("metrics" :> << "metrics" >>) @@ ("/{id}" :> << "", "{id}" >>)
  @@ ("/{" :> << "", "{" >>) @@ ("/a b" :> << "", "a b" >>)
  @@ ("/a//b" :> << "", "a", "", "b" >>) @@ ("/a/.." :> << "", "a", ".." >>)
  @@ ("/metrics/" :> << "", "metrics", "" >>)
  @@ ("/%68ealthz" :> << "", "%68ealthz" >>) @@ ("/metric%73" :> << "", "metric%73" >>)
MCUnescape ==
  [s \in UNION {{MCSplit[p][i] : i \in DOMAIN MCSplit[p]} : p \in DOMAIN MCSplit} |->
     IF s = "%68ealthz" THEN "healthz" ELSE IF s = "metric%73" THEN "metrics" ELSE s]
MCBraced == {"{id}", "{"}
MCWild == {"{id}"}
MCSpaced == {"a b"}

MCRequests == {MCSplit[p] : p \in DOMAIN MCSplit} \cup {<< "", "x" >>}

MCStrings == STRING
Unset == [o \in EnvOptions |-> ""]
Usual == [Unset EXCEPT !["url"] = "http://tdarr"]

\* Nothing, a usable environment, and the usable one with one thing changed.
MCEnvs ==
  {Unset, Usual}
  \cup {[Usual EXCEPT !["prometheus_path"] = p] : p \in DOMAIN MCSplit}
  \cup {[Usual EXCEPT !["prometheus_port"] = p] : p \in DOMAIN MCParseUint \cup {"+1"}}
  \cup {[Usual EXCEPT ![o] = v] : o \in NumberOptions, v \in {"010", "0x10", "0", "x"}}
  \cup {[Usual EXCEPT !["verify_ssl"] = v] : v \in {"false", "x"}}
  \cup {[Usual EXCEPT !["log_level"] = "loud"], [Usual EXCEPT !["instance_name"] = "lab"],
        [Usual EXCEPT !["url"] = "nas"]}

Arg(o, v) == [opt |-> o, val |-> v]

MCArguments ==
  {Arg("url", ""), Arg("url", "http://tdarr"), Arg("url", "https://"),
   Arg("prometheus_path", "/a/b"), Arg("http_timeout_seconds", "010"),
   Arg("http_max_concurrency", "0x10"), Arg("http_max_concurrency", "x"),
   Arg("verify_ssl", "true"), Arg("version", "true"), Arg("version", "false"),
   Arg("help", ""), Arg("colour", "blue"), Arg(Positional, "false")}
=============================================================================
