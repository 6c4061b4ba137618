---------------------------- MODULE StartupProofs -----------------------------
(***************************************************************************)
(* Proofs about Startup, for every environment, every command line and     *)
(* whatever the standard library makes of a string.  The inductive         *)
(* invariant says which arguments the settings stand for while fs.Parse is *)
(* under way, and what each later step may rely on.                        *)
(***************************************************************************)
EXTENDS Startup, TLAPS

\* Past the environment: the settings are those of the arguments read so far.
Parsed ==
  /\ pc = "env" => next = 1
  /\ pc \notin {"env", "exit"} =>
       EnvFine /\ Reflects(next - 1) /\ \A j \in 1..next - 1 : Fine(args[j])

\* Past the command line: nothing or a positional argument ended it.
Stopped ==
  pc \in {"check", "build", "routes", "serving", "crashed"} =>
    (next <= Len(args) => args[next].opt = Positional)

\* Past validation.
Accepted == Running => Acceptable /\ ~switch["version"] /\ label # ""

\* Past the registration of the routes.
Registered ==
  /\ pc = "serving" => ~RegisterPanics(text["prometheus_path"])
  /\ pc = "crashed" => RegisterPanics(text["prometheus_path"])

IInv == TypeOK /\ Parsed /\ Stopped /\ Accepted /\ ExitCode /\ Registered

-----------------------------------------------------------------------------
(* Help and the end of the flags are no flags fs knows.                     *)
LEMMA NotFlags ==
  ASSUME NEW a, a.opt \in {"help", Positional}
  PROVE  ~Fine(a)
  BY DEF Fine, Positional, TextOptions, NumberOptions, Switches

(* What the environment gives an option has the option's type.              *)
LEMMA FromEnvType ==
  ASSUME env \in Envs, EnvFine
  PROVE  /\ \A o \in TextOptions : TextFromEnv(o) \in Strings
         /\ \A o \in NumberOptions : NumberFromEnv(o) \in Int
         /\ \A o \in Switches : SwitchFromEnv(o) \in BOOLEAN
<1>1. env \in [EnvOptions -> Strings]
  BY InputAssumption
<1>2. DefaultText \in [TextOptions -> Strings]
  BY InputAssumption DEF DefaultText
<1>3. DefaultNumber \in [NumberOptions -> Int]
  BY DEF DefaultNumber
<1>4. ASSUME NEW o \in TextOptions  PROVE TextFromEnv(o) \in Strings
  BY <1>1, <1>2 DEF TextFromEnv, EnvOptions
<1>5. ASSUME NEW o \in NumberOptions  PROVE NumberFromEnv(o) \in Int
  BY <1>3, LibraryAssumption DEF NumberFromEnv, EnvFine
<1>6. ASSUME NEW o \in Switches  PROVE SwitchFromEnv(o) \in BOOLEAN
  BY LibraryAssumption DEF SwitchFromEnv, EnvFine
<1> QED  BY <1>4, <1>5, <1>6

-----------------------------------------------------------------------------
LEMMA InitInv == Init => IInv
<1> SUFFICES ASSUME Init  PROVE IInv
  OBVIOUS
<1>1. args \in Seq(Arguments)
  <2>1. PICK n \in 0..MaxArgs : args \in [1..n -> Arguments]
    BY DEF Init
  <2>2. MaxArgs \in Nat
    BY InputAssumption
  <2> QED  BY <2>1, <2>2
<1>2. /\ text \in [TextOptions -> Strings] /\ number \in [NumberOptions -> Int]
      /\ switch \in [Switches -> BOOLEAN] /\ label \in Strings
  <2>1. text = DefaultText /\ number = DefaultNumber /\ label = ""
        /\ switch = [o \in Switches |-> o = "verify_ssl"]
    BY DEF Init
  <2>2. DefaultText \in [TextOptions -> Strings]
    BY InputAssumption DEF DefaultText
  <2>3. DefaultNumber \in [NumberOptions -> Int]
    BY DEF DefaultNumber
  <2>4. [o \in Switches |-> o = "verify_ssl"] \in [Switches -> BOOLEAN]
    OBVIOUS
  <2> QED  BY <2>1, <2>2, <2>3, <2>4, InputAssumption
<1>3. TypeOK
  <2>1. env \in Envs /\ pc = "env" /\ next = 1 /\ code = 0
    BY DEF Init
  <2> QED  BY <1>1, <1>2, <2>1 DEF TypeOK
<1>4. pc = "env" /\ next = 1
  BY DEF Init
<1> QED  BY <1>3, <1>4 DEF IInv, Parsed, Stopped, Accepted, Registered, Running, ExitCode

(* Steps that end the process only have to be right about the code.         *)
LEMMA ExitInv ==
  ASSUME TypeOK, NEW c \in 0..2, Exit(c), ExitCode',
         UNCHANGED << given, next, settings, label >>
  PROVE  IInv'
<1>1. pc' = "exit" /\ code' = c
  BY DEF Exit
<1>2. TypeOK'
  BY <1>1 DEF TypeOK, given, settings
<1> QED  BY <1>1, <1>2 DEF IInv, Parsed, Stopped, Accepted, Registered, Running

LEMMA EnvInv ==
  ASSUME IInv, RefuseEnv \/ ApplyEnv
  PROVE  IInv'
<1>1. CASE RefuseEnv
  <2>1. ExitCode'
    BY <1>1 DEF RefuseEnv, ExitCode, Exit, EnvFine, given
  <2> QED  BY <1>1, <2>1, ExitInv DEF RefuseEnv, IInv
<1>2. CASE ApplyEnv
  <2>1. EnvFine /\ env \in Envs /\ TypeOK /\ next = 1
    BY <1>2 DEF ApplyEnv, IInv, TypeOK, Parsed
  <2>2. pc' = "flags" /\ env' = env /\ args' = args /\ next' = next
    BY <1>2 DEF ApplyEnv, given
  <2>3. TypeOK'
    BY <1>2, <2>1, <2>2, FromEnvType DEF ApplyEnv, TypeOK
  <2>4. Parsed'
    <3>1. EnvFine'
      BY <2>1, <2>2 DEF EnvFine
    <3>2. Reflects(0)'
      <4>1. ASSUME NEW o \in TextOptions  PROVE text'[o] = TextFromEnv(o)'
        BY <1>2, <2>2 DEF ApplyEnv, TextFromEnv
      <4>2. ASSUME NEW o \in NumberOptions  PROVE number'[o] = NumberFromEnv(o)'
        BY <1>2, <2>2 DEF ApplyEnv, NumberFromEnv
      <4>3. ASSUME NEW o \in Switches  PROVE switch'[o] = SwitchFromEnv(o)'
        BY <1>2, <2>2 DEF ApplyEnv, SwitchFromEnv
      <4> QED  BY <4>1, <4>2, <4>3 DEF Reflects
    <3> QED  BY <2>1, <2>2, <3>1, <3>2 DEF Parsed
  <2> QED  BY <2>2, <2>3, <2>4 DEF IInv, Stopped, Accepted, Registered, Running, ExitCode
<1> QED  BY <1>1, <1>2

-----------------------------------------------------------------------------
(* One more argument read: it decides its own option and no other.          *)
LEMMA ReflectsMore ==
  ASSUME TypeOK, pc = "flags", Reflects(next - 1), SetFlag
  PROVE  Reflects(next - 1)'
<1>0. next \in 1..Len(args) /\ next \in Nat /\ next' = next + 1
      /\ env' = env /\ args' = args
  BY DEF SetFlag, TypeOK, given
<1>1. PICK n \in Nat : n = next
  BY <1>0
<1>2. PICK a : a = args[n]
  OBVIOUS
<1>3. ASSUME NEW o
      PROVE  /\ Silent(o, n) => Silent(o, n - 1) /\ a.opt # o
             /\ \A j \in 1..n : Decides(j, o, n) =>
                  \/ j = n /\ a.opt = o
                  \/ a.opt # o /\ j \in 1..n - 1 /\ Decides(j, o, n - 1)
  BY <1>0, <1>1, <1>2 DEF Silent, Decides
<1>4. ASSUME NEW o \in TextOptions
      PROVE  /\ Silent(o, n) => text'[o] = TextFromEnv(o)
             /\ \A j \in 1..n : Decides(j, o, n) => text'[o] = args[j].val
  <2>1. text'[o] = IF o = a.opt THEN a.val ELSE text[o]
    BY <1>1, <1>2 DEF SetFlag
  <2>2. /\ Silent(o, n - 1) => text[o] = TextFromEnv(o)
        /\ \A j \in 1..n - 1 : Decides(j, o, n - 1) => text[o] = args[j].val
    BY <1>1 DEF Reflects
  <2> QED  BY <2>1, <2>2, <1>2, <1>3
<1>5. ASSUME NEW o \in NumberOptions
      PROVE  /\ Silent(o, n) => number'[o] = NumberFromEnv(o)
             /\ \A j \in 1..n : Decides(j, o, n) => number'[o] = FlagInt[args[j].val]
  <2>1. number'[o] = IF o = a.opt THEN FlagInt[a.val] ELSE number[o]
    BY <1>1, <1>2 DEF SetFlag
  <2>2. /\ Silent(o, n - 1) => number[o] = NumberFromEnv(o)
        /\ \A j \in 1..n - 1 :
             Decides(j, o, n - 1) => number[o] = FlagInt[args[j].val]
    BY <1>1 DEF Reflects
  <2> QED  BY <2>1, <2>2, <1>2, <1>3
<1>6. ASSUME NEW o \in Switches
      PROVE  /\ Silent(o, n) => switch'[o] = SwitchFromEnv(o)
             /\ \A j \in 1..n : Decides(j, o, n) => switch'[o] = ParseBool[args[j].val]
  <2>1. switch'[o] = IF o = a.opt THEN ParseBool[a.val] ELSE switch[o]
    BY <1>1, <1>2 DEF SetFlag
  <2>2. /\ Silent(o, n - 1) => switch[o] = SwitchFromEnv(o)
        /\ \A j \in 1..n - 1 :
             Decides(j, o, n - 1) => switch[o] = ParseBool[args[j].val]
    BY <1>1 DEF Reflects
  <2> QED  BY <2>1, <2>2, <1>2, <1>3
<1>7. Reflects(n)'
  <2>1. ASSUME NEW o \in TextOptions
        PROVE  (/\ Silent(o, n) => text[o] = TextFromEnv(o)
                /\ \A j \in 1..n : Decides(j, o, n) => text[o] = args[j].val)'
    BY <1>0, <1>4 DEF Silent, Decides, TextFromEnv
  <2>2. ASSUME NEW o \in NumberOptions
        PROVE  (/\ Silent(o, n) => number[o] = NumberFromEnv(o)
                /\ \A j \in 1..n : Decides(j, o, n) => number[o] = FlagInt[args[j].val])'
    BY <1>0, <1>5 DEF Silent, Decides, NumberFromEnv
  <2>3. ASSUME NEW o \in Switches
        PROVE  (/\ Silent(o, n) => switch[o] = SwitchFromEnv(o)
                /\ \A j \in 1..n : Decides(j, o, n) => switch[o] = ParseBool[args[j].val])'
    BY <1>0, <1>6 DEF Silent, Decides, SwitchFromEnv
  <2> QED  BY <2>1, <2>2, <2>3 DEF Reflects
<1>8. next' - 1 = n
  BY <1>0, <1>1
<1> QED  BY <1>7, <1>8 DEF Reflects, Silent, Decides

LEMMA SetFlagInv ==
  ASSUME IInv, SetFlag
  PROVE  IInv'
<1>1. /\ pc = "flags" /\ pc' = "flags" /\ next \in 1..Len(args) /\ next' = next + 1
      /\ env' = env /\ args' = args /\ label' = label /\ code' = code
      /\ Fine(args[next]) /\ TypeOK
  BY DEF SetFlag, IInv, TypeOK, given
<1>2. TypeOK'
  <2>0. args[next] \in Arguments
    BY <1>1 DEF TypeOK
  <2>1. args[next] \in [opt : Strings, val : Strings]
    BY <2>0, InputAssumption
  <2>2. text' \in [TextOptions -> Strings]
    BY <1>1, <2>1 DEF SetFlag, TypeOK
  <2>3. ASSUME NEW o \in NumberOptions, o = args[next].opt
        PROVE  FlagInt[args[next].val] \in Int
    <3>1. args[next].val \in DOMAIN FlagInt
      BY <1>1, <2>3 DEF Fine, TextOptions, NumberOptions, Switches
    <3> QED  BY <3>1, LibraryAssumption
  <2>4. number' \in [NumberOptions -> Int]
    BY <1>1, <2>3 DEF SetFlag, TypeOK
  <2>5. ASSUME NEW o \in Switches, o = args[next].opt
        PROVE  ParseBool[args[next].val] \in BOOLEAN
    <3>1. args[next].val \in DOMAIN ParseBool
      BY <1>1, <2>5 DEF Fine, TextOptions, NumberOptions, Switches
    <3> QED  BY <3>1, LibraryAssumption
  <2>6. switch' \in [Switches -> BOOLEAN]
    BY <1>1, <2>5 DEF SetFlag, TypeOK
  <2> QED  BY <1>1, <2>2, <2>4, <2>6 DEF TypeOK
<1>3. Parsed'
  <2>1. EnvFine' /\ Reflects(next - 1) /\ \A j \in 1..next - 1 : Fine(args[j])
    BY <1>1 DEF IInv, Parsed, EnvFine
  <2>2. Reflects(next - 1)'
    BY <1>1, <2>1, ReflectsMore
  <2>4. \A j \in 1..next' - 1 : Fine(args[j])
    BY <1>1, <2>1
  <2> QED  BY <1>1, <2>1, <2>2, <2>4 DEF Parsed
<1> QED  BY <1>1, <1>2, <1>3 DEF IInv, Stopped, Accepted, Registered, Running, ExitCode

(* What the settings stand for does not change while nobody touches them.   *)
LEMMA SameReflects ==
  ASSUME NEW n, Reflects(n), env' = env, args' = args,
         text' = text, number' = number, switch' = switch
  PROVE  Reflects(n)'
<1>1. ASSUME NEW o \in TextOptions
      PROVE  (/\ Silent(o, n) => text[o] = TextFromEnv(o)
              /\ \A j \in 1..n : Decides(j, o, n) => text[o] = args[j].val)'
  <2>1. /\ Silent(o, n) => text[o] = TextFromEnv(o)
        /\ \A j \in 1..n : Decides(j, o, n) => text[o] = args[j].val
    BY DEF Reflects
  <2> QED  BY <2>1 DEF Silent, Decides, TextFromEnv
<1>2. ASSUME NEW o \in NumberOptions
      PROVE  (/\ Silent(o, n) => number[o] = NumberFromEnv(o)
              /\ \A j \in 1..n : Decides(j, o, n) => number[o] = FlagInt[args[j].val])'
  <2>1. /\ Silent(o, n) => number[o] = NumberFromEnv(o)
        /\ \A j \in 1..n : Decides(j, o, n) => number[o] = FlagInt[args[j].val]
    BY DEF Reflects
  <2> QED  BY <2>1 DEF Silent, Decides, NumberFromEnv
<1>3. ASSUME NEW o \in Switches
      PROVE  (/\ Silent(o, n) => switch[o] = SwitchFromEnv(o)
              /\ \A j \in 1..n : Decides(j, o, n) => switch[o] = ParseBool[args[j].val])'
  <2>1. /\ Silent(o, n) => switch[o] = SwitchFromEnv(o)
        /\ \A j \in 1..n : Decides(j, o, n) => switch[o] = ParseBool[args[j].val]
    BY DEF Reflects
  <2> QED  BY <2>1 DEF Silent, Decides, SwitchFromEnv
<1> QED  BY <1>1, <1>2, <1>3 DEF Reflects

LEMMA SameSettings ==
  ASSUME Parsed, pc \notin {"env", "exit"},
         env' = env, args' = args, next' = next,
         text' = text, number' = number, switch' = switch
  PROVE  EnvFine' /\ Reflects(next - 1)' /\ \A j \in 1..next' - 1 : Fine(args'[j])
<1>1. EnvFine' /\ \A j \in 1..next' - 1 : Fine(args'[j])
  BY DEF Parsed, EnvFine
<1>2. PICK n : n = next - 1
  OBVIOUS
<1>3. Reflects(n)
  BY <1>2 DEF Parsed, Reflects, Silent, Decides
<1>4. Reflects(n)' /\ next' - 1 = n
  BY <1>2, <1>3, SameReflects
<1> QED  BY <1>1, <1>4 DEF Reflects, Silent, Decides

LEMMA SameParsed ==
  ASSUME Parsed, pc \notin {"env", "exit"}, pc' # "env",
         env' = env, args' = args, next' = next,
         text' = text, number' = number, switch' = switch
  PROVE  Parsed'
  BY SameSettings DEF Parsed

LEMMA SameVerdict ==
  ASSUME Acceptable, text' = text, number' = number
  PROVE  Acceptable'
  BY DEF Acceptable

(* What is left of the command line decides how the parse ends.             *)
LEMMA StopsHere ==
  ASSUME TypeOK, Parsed, pc \notin {"env", "exit"},
         next <= Len(args) => ~Fine(args[next])
  PROVE  EnvFine /\ Stops(next) /\ Reflects(next - 1)
  BY DEF Parsed, Stops, TypeOK

LEMMA EndOfFlagsInv ==
  ASSUME IInv, Help \/ RefuseFlag \/ EndFlags
  PROVE  IInv'
<1>0. pc = "flags" /\ TypeOK /\ Parsed
  BY DEF Help, RefuseFlag, EndFlags, IInv
<1>1. CASE Help
  <2>1. EnvFine /\ Stops(next) /\ Reflects(next - 1)
    BY <1>0, <1>1, StopsHere, NotFlags DEF Help
  <2>2. ExitCode'
    BY <1>0, <1>1, <2>1 DEF Help, ExitCode, Exit, EnvFine, Stops, given, TypeOK
  <2> QED  BY <1>0, <1>1, <2>2, ExitInv DEF Help
<1>2. CASE RefuseFlag
  <2>1. EnvFine /\ Stops(next) /\ Reflects(next - 1)
    BY <1>0, <1>2, StopsHere DEF RefuseFlag
  <2>2. ExitCode'
    BY <1>0, <1>2, <2>1 DEF RefuseFlag, ExitCode, Exit, EnvFine, Stops, given, TypeOK
  <2> QED  BY <1>0, <1>2, <2>2, ExitInv DEF RefuseFlag
<1>3. CASE EndFlags
  <2>1. /\ pc' = "check" /\ (next <= Len(args) => args[next].opt = Positional)
        /\ env' = env /\ args' = args /\ next' = next /\ text' = text
        /\ number' = number /\ switch' = switch /\ label' = label /\ code' = code
    BY <1>3 DEF EndFlags, given, settings
  <2>2. TypeOK'
    BY <1>0, <1>3 DEF EndFlags, given, settings, TypeOK
  <2>3. Parsed'
    BY <1>0, <2>1, SameParsed
  <2> QED  BY <2>1, <2>2, <2>3, <1>3
           DEF EndFlags, given, IInv, Stopped, Accepted, Registered, Running, ExitCode
<1> QED  BY <1>1, <1>2, <1>3

(* The exits of the checks and of the collector: the whole command line was *)
(* read, so that the settings are those of its flags.                       *)
LEMMA LateExit ==
  ASSUME IInv, pc \in {"check", "build"},
         NEW c \in 0..2, c = IF switch["version"] THEN 0 ELSE 1, Exit(c),
         UNCHANGED << given, next, settings, label >>
  PROVE  IInv'
<1>1. TypeOK /\ Parsed /\ (next <= Len(args) => args[next].opt = Positional)
  BY DEF IInv, Stopped
<1>2. EnvFine /\ Stops(next) /\ Reflects(next - 1)
  BY <1>1, StopsHere, NotFlags
<1>3. /\ env' = env /\ args' = args /\ next' = next /\ text' = text
      /\ number' = number /\ switch' = switch
      /\ pc' = "exit" /\ code' = c
  BY DEF Exit, given, settings
<1>4. EnvFine' /\ Stops(next)' /\ Reflects(next - 1)'
  <2>1. Stops(next)'
    BY <1>2, <1>3 DEF Stops
  <2> QED  BY <1>1, <1>3, <2>1, SameSettings
<1>5. ExitCode'
  BY <1>1, <1>3, <1>4 DEF ExitCode, Positional, Stops
<1> QED  BY <1>1, <1>5, ExitInv

LEMMA CheckInv ==
  ASSUME IInv, Version \/ Refuse \/ Accept
  PROVE  IInv'
<1>1. CASE Version
  BY <1>1, LateExit DEF Version
<1>2. CASE Refuse
  BY <1>2, LateExit DEF Refuse
<1>3. CASE Accept
  <2>1. /\ TypeOK /\ Parsed /\ Acceptable /\ ~switch["version"] /\ pc = "check"
        /\ pc' = "build" /\ env' = env /\ args' = args /\ next' = next /\ text' = text
        /\ number' = number /\ switch' = switch /\ code' = code
        /\ (next <= Len(args) => args[next].opt = Positional)
    BY <1>3 DEF Accept, IInv, Stopped, given, settings
  <2>2. label' # "" /\ label' \in Strings
    <3>1. HostOf[text["url"]] # "" /\ HostOf[text["url"]] \in Strings
      BY <2>1, LibraryAssumption DEF Acceptable, UrlFine
    <3>2. text["instance_name"] \in Strings
      BY <2>1 DEF TypeOK, TextOptions
    <3> QED  BY <1>3, <3>1, <3>2 DEF Accept
  <2>3. TypeOK'
    BY <2>1, <2>2 DEF TypeOK
  <2>4. Parsed'
    BY <2>1, SameParsed
  <2>5. Acceptable'
    BY <2>1, SameVerdict
  <2> QED  BY <2>1, <2>2, <2>3, <2>4, <2>5 DEF IInv, Stopped, Accepted, Registered, Running, ExitCode
<1> QED  BY <1>1, <1>2, <1>3

(* Whatever parseConfig accepts, ServeMux takes, if it reads the same path. *)
LEMMA NoPanic ==
  ASSUME NEW p \in DOMAIN Split, PathFine(p), Plain(p)
  PROVE  ~RegisterPanics(p)
<1>1. Pattern(p) \notin {<< "", "" >>, << "", "healthz" >>}
  <2>1. Pattern(p) = Split[p] /\ p \notin {"/", "/healthz"}
    BY DEF Plain, PathFine
  <2> QED  BY <2>1, PathAssumption
<1> QED  BY <1>1 DEF PathFine, RegisterPanics, Holds

LEMMA ServeInv ==
  ASSUME IInv, Build \/ Register
  PROVE  IInv'
<1>0. /\ TypeOK /\ Parsed /\ Acceptable /\ ~switch["version"] /\ label # ""
      /\ (next <= Len(args) => args[next].opt = Positional)
      /\ pc \in {"build", "routes"}
  BY DEF Build, Register, IInv, Stopped, Accepted, Registered, Running
<1>1. CASE Build /\ Exit(1)
  <2>1. PICK c \in 0..2 : c = 1
    OBVIOUS
  <2>2. pc = "build" /\ Exit(c) /\ UNCHANGED << given, next, settings, label >>
    BY <1>1, <2>1 DEF Build
  <2> QED  BY <1>0, <2>1, <2>2, LateExit
<1>2. CASE Register \/ (Build /\ ~Exit(1))
  <2>1. pc' \in {"routes", "serving", "crashed"}
        /\ env' = env /\ args' = args /\ next' = next /\ text' = text
        /\ number' = number /\ switch' = switch /\ label' = label /\ code' = code
    BY <1>0, <1>2 DEF Build, Register, given, settings
  <2>2. TypeOK'
    BY <1>0, <2>1 DEF TypeOK
  <2>3. Parsed'
    BY <1>0, <2>1, SameParsed
  <2>4. Acceptable'
    BY <1>0, <2>1, SameVerdict
  <2>5. Registered'
    <3>1. CASE Register
      BY <2>1, <3>1 DEF Register, Registered, RegisterPanics
    <3>2. CASE ~Register
      BY <1>2, <3>2 DEF Build, Registered
    <3> QED  BY <3>1, <3>2
  <2> QED  BY <1>0, <2>1, <2>2, <2>3, <2>4, <2>5
           DEF IInv, Stopped, Accepted, Running, ExitCode
<1> QED  BY <1>1, <1>2

LEMMA StutterInv ==
  ASSUME IInv, env' = env, args' = args, pc' = pc, next' = next, text' = text,
         number' = number, switch' = switch, label' = label, code' = code
  PROVE  IInv'
<1>1. TypeOK' /\ Stopped' /\ Registered'
  BY DEF IInv, TypeOK, Stopped, Registered
<1>2. Parsed'
  <2>1. CASE pc \in {"env", "exit"}
    BY <2>1 DEF IInv, Parsed
  <2>2. CASE pc \notin {"env", "exit"}
    BY <2>2, SameParsed DEF IInv
  <2> QED  BY <2>1, <2>2
<1>3. Accepted'
  BY SameVerdict DEF IInv, Accepted, Running
<1>4. ExitCode'
  <2>1. ASSUME NEW n, Stops(n)  PROVE Stops(n)'
    BY <2>1 DEF Stops
  <2>2. ASSUME NEW n, Reflects(n)  PROVE Reflects(n)'
    BY <2>2, SameReflects
  <2>3. EnvFine' <=> EnvFine
    BY DEF EnvFine
  <2>4. CASE pc # "exit"
    BY <2>4 DEF ExitCode
  <2>5. CASE pc = "exit" /\ ~EnvFine /\ code = 1
    BY <2>3, <2>5 DEF ExitCode
  <2>6. CASE EnvFine /\ pc = "exit"
            /\ ~(~EnvFine /\ code = 1)
    <3>1. PICK n \in 1..Len(args) + 1 :
            /\ Stops(n)
            /\ IF n <= Len(args) /\ args[n].opt = "help" THEN code = 0
               ELSE IF n <= Len(args) /\ args[n].opt # Positional THEN code = 2
               ELSE /\ Reflects(n - 1)
                    /\ code = IF switch["version"] THEN 0 ELSE 1
      BY <2>6 DEF IInv, ExitCode
    <3>2. PICK m : m = n - 1
      OBVIOUS
    <3>3. Stops(n)' /\ (Reflects(m) => Reflects(m)')
      BY <2>1, <2>2, <3>1
    <3> QED  BY <2>3, <2>6, <3>1, <3>2, <3>3 DEF ExitCode
  <2> QED  BY <2>4, <2>5, <2>6 DEF IInv, ExitCode
<1> QED  BY <1>1, <1>2, <1>3, <1>4 DEF IInv

LEMMA NextInv == IInv /\ [Next]_vars => IInv'
<1> SUFFICES ASSUME IInv, [Next]_vars  PROVE IInv'
  OBVIOUS
<1>1. CASE UNCHANGED vars
  BY <1>1, StutterInv DEF vars, given, settings
<1> QED  BY <1>1, EnvInv, SetFlagInv, EndOfFlagsInv, CheckInv, ServeInv DEF Next

THEOREM Inductive == Spec => []IInv
  BY InitInv, NextInv, PTL DEF Spec

-----------------------------------------------------------------------------
(* A process past its configuration runs with what it was given, for every  *)
(* environment and every command line.                                      *)
THEOREM RunsAsConfigured == Spec => []Configured
<1>1. IInv => Configured
  <2> SUFFICES ASSUME IInv, Running  PROVE Configured
    BY DEF Configured
  <2>1. /\ TypeOK /\ Parsed /\ label # "" /\ pc \notin {"env", "exit"}
        /\ (next <= Len(args) => args[next].opt = Positional)
    BY DEF IInv, Running, Stopped, Accepted
  <2>2. ASSUME next <= Len(args)  PROVE ~Fine(args[next])
    <3>1. args[next].opt \in {"help", Positional}
      BY <2>1, <2>2
    <3> QED  BY <3>1, NotFlags
  <2>3. EnvFine /\ Stops(next) /\ Reflects(next - 1)
    BY <2>1, <2>2, StopsHere
  <2> QED  BY <2>1, <2>3 DEF Configured, TypeOK
<1> QED  BY <1>1, Inductive, PTL

(* The exit code names what ended the start.                                *)
THEOREM ExitsAsDocumented == Spec => []ExitCode
<1>1. IInv => ExitCode
  BY DEF IInv
<1> QED  BY <1>1, Inductive, PTL

(* No plain path that is accepted crashes the server, and the routes are    *)
(* told apart.                                                              *)
THEOREM RoutesAsConfigured == Spec => []Routing
<1>1. ASSUME IInv, pc = "serving", NEW r \in Requests
      PROVE  /\ (Route(r) = "metrics") <=> (r = Pattern(text["prometheus_path"]))
             /\ (Route(r) = "healthz") <=> (r = << "", "healthz" >>)
             /\ (Route(r) = "index") <=> (r = << "", "" >>)
  <2>1. PICK p : p = text["prometheus_path"]
    OBVIOUS
  <2>2. p \in DOMAIN Split /\ PathFine(p) /\ ~RegisterPanics(p)
    BY <1>1, <2>1 DEF IInv, Accepted, Registered, Running, Acceptable
  <2>3. PICK segments \in Seq(Strings) : segments = Split[p]
    BY <2>2, PathAssumption
  <2>4. PICK pattern \in Seq(Strings) :
          pattern = Pattern(p) /\ Len(pattern) = Len(segments)
    <3>1. \A i \in 1..Len(segments) : Unescape[segments[i]] \in Strings
      BY <2>2, <2>3, PathAssumption
    <3>2. Pattern(p) = [i \in 1..Len(segments) |-> Unescape[segments[i]]]
      BY <2>3 DEF Pattern
    <3> QED  BY <2>3, <3>1, <3>2
  <2>5. pattern # << "", "" >> /\ pattern # << "", "healthz" >>
    BY <2>2, <2>4 DEF RegisterPanics
  <2>6. \A i \in 1..Len(pattern) : segments[i] \notin Wild
    BY <2>2, <2>3, <2>4, PathAssumption DEF PathFine, Holds
  <2>7. r \in Seq(Strings)
    BY InputAssumption
  <2>8. (r = pattern) <=>
          (Len(r) = Len(pattern) /\ \A i \in 1..Len(r) : pattern[i] = r[i] \/ segments[i] \in Wild)
    BY <2>4, <2>6, <2>7
  <2>9. PICK health, root : health = << "", "healthz" >> /\ root = << "", "" >>
    OBVIOUS
  <2>10. Route(r) = IF r = health THEN "healthz" ELSE IF r = root THEN "index"
                    ELSE IF r = pattern THEN "metrics" ELSE "notFound"
    BY <2>1, <2>3, <2>4, <2>8, <2>9 DEF Route
  <2>11. health # root
    BY <2>9
  <2>12. /\ (Route(r) = "metrics") <=> (r = pattern)
         /\ (Route(r) = "healthz") <=> (r = health)
         /\ (Route(r) = "index") <=> (r = root)
    BY <2>5, <2>9, <2>10, <2>11
  <2> QED  BY <2>1, <2>4, <2>9, <2>12
<1>2. ASSUME IInv, pc = "crashed"  PROVE ~Plain(text["prometheus_path"])
  BY <1>2, NoPanic DEF IInv, Accepted, Registered, Running, Acceptable
<1>3. IInv => Routing
  BY <1>1, <1>2 DEF Routing
<1> QED  BY <1>3, Inductive, PTL
=============================================================================
