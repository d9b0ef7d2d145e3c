--------------------------- MODULE ConfigProofs ---------------------------
(***************************************************************************)
(* What the stages of main() add up to, for every command line,            *)
(* environment and configuration file.  The inductive invariant Stagewise  *)
(* says what each option is when a stage begins, in terms of the sources   *)
(* alone; the properties of Config are read off its last stage.            *)
(***************************************************************************)
EXTENDS Config, TLAPS

\* The stages after a given one, up to serving.
AfterAddresses == {"services", "wiring", "serving"}
AfterDatabase == {"addresses"} \cup AfterAddresses
AfterFile == {"defaults", "database"} \cup AfterDatabase
AfterEnvironment == {"file"} \cup AfterFile
AfterNames == {"environment"} \cup AfterEnvironment
AfterFlags == {"names"} \cup AfterNames

FlagsReadable == ~ConfigSet => \A o \in DOMAIN input.flags : input.flags[o] # Bad
FirstReadable == FirstPath # Blank => input.disk[FirstPath] # Bad
SwitchesReadable == \A o \in Switches : IsSet(o) => Environ(o) # Bad
SecondReadable == SecondPath # Blank => input.disk[SecondPath] # Bad

GivenBefore(a) == ~ConfigSet /\ Flagged(a)
Given(a) == GivenBefore(a) \/ IsSet(a)

\* What an option is after the file, after the defaults, and in the end.
Filled(o) ==
  IF o = "ConfigFilePath" \/ (o = "JSONFile" /\ Explicit(o) # DefaultFile /\ Explicit(o) # Blank)
  THEN Explicit(o)
  ELSE IF o = "JSONFile" THEN First(Filed(o), Explicit(o)) ELSE First(Explicit(o), Filed(o))
FilledSet(a) ==
  IF SecondPath # Blank /\ Explicit(a) = Blank THEN Filed(a) # Blank ELSE Given(a)

Defaulted(o) == IF o = "JWTKey" THEN First(Filled(o), DefaultKey)
                ELSE IF o = "JSONFile" THEN First(Filled(o), DefaultFile) ELSE Filled(o)
Settled(o) == IF o \in Inheriting THEN First(Filled(o), Defaulted(Http(o))) ELSE Defaulted(o)

FiledDefault(d) == First(Filed(d), BuiltIn[d])
DefaultAddr ==
  First(FiledDefault("defAddr"), IF Settled("HTTPSEnabled") = Blank THEN DefaultHttp ELSE DefaultHttps)
Resolved(a, b) ==
  IF FilledSet(a) THEN Settled(a) ELSE IF FilledSet(b) THEN Settled(b) ELSE DefaultAddr
Final(o) == IF o = "HTTPAddr" THEN Resolved("HTTPAddr", "ShortAddr")
            ELSE IF o = "ShortAddr" THEN Resolved("ShortAddr", "HTTPAddr")
            ELSE IF o = "GRPCAddr" THEN First(Settled(o), FiledDefault("defGRPCAddr"))
            ELSE Settled(o)

\* What is broken does no harm: it is not used.
Unharmed(o) ==
  o \in input.broken => Value(o) = Blank \/ (o = "GRPCDatabaseDSN" /\ OneStore)

Stagewise ==
  /\ TypeOK
  /\ stage \in AfterFlags => FlagsReadable
  /\ stage = "flags" => conf = Zero /\ wasSet = [a \in Addresses |-> FALSE]
  /\ stage \in {"flags", "names"} => renamed = {}
  /\ stage \in {"names", "environment"} =>
       /\ conf = [o \in Options |-> FromFlag(o)]
       /\ wasSet = [a \in Addresses |-> GivenBefore(a)]
  /\ stage \in AfterNames => FirstReadable
  /\ stage = "file" =>
       /\ conf = [o \in Options |-> Explicit(o)]
       /\ wasSet = [a \in Addresses |-> Given(a)]
  /\ stage \in AfterEnvironment => SwitchesReadable
  /\ stage \in {"flags", "names", "environment", "file"} => defaults = BuiltIn
  /\ stage \in AfterFile =>
       /\ SecondReadable
       /\ wasSet = [a \in Addresses |-> FilledSet(a)]
       /\ defaults = [d \in Defaults |-> FiledDefault(d)]
  /\ stage = "defaults" => conf = [o \in Options |-> Filled(o)]
  /\ stage \in {"database", "addresses"} => conf = [o \in Options |-> Settled(o)]
  /\ stage \in AfterDatabase => Unharmed("DSN")
  /\ stage \in AfterAddresses => conf = [o \in Options |-> Final(o)]
  /\ stage \in {"wiring", "serving"} => shared = SameStores /\ Unharmed("GRPCDatabaseDSN")
  /\ stage = "serving" =>
       /\ wired = [s \in Servers |-> [key |-> conf["JWTKey"], subnet |-> conf["TrustedSubnet"]]]
       /\ Unharmed("GRPCAddr") /\ Unharmed("GRPCSecureEnabled")
  /\ stage = "stopped" => ~(Readable /\ Able)

-----------------------------------------------------------------------------
(* What the sources say is text, wherever it is not what ParseBool refuses. *)
LEMMA FlagText ==
  ASSUME IsInput(input), FlagsReadable, NEW o \in Options
  PROVE  FromFlag(o) \in Texts
<1>1. CASE ~ConfigSet /\ Flagged(o)
  <2>1. input.flags[o] \in Values(o) /\ input.flags[o] # Bad
    BY <1>1 DEF IsInput, FlagsReadable, Flagged
  <2> QED BY <1>1, <2>1, ConfigAssumption DEF Values, Texts, FromFlag
<1>2. CASE ~(~ConfigSet /\ Flagged(o))
  BY <1>2 DEF FromFlag, Texts
<1> QED BY <1>1, <1>2

LEMMA PathText ==
  ASSUME IsInput(input)
  PROVE  FirstPath \in Paths \cup {Blank} /\ SecondPath \in Paths \cup {Blank}
<1>1. FromFlag("ConfigFilePath") \in Paths \cup {Blank}
  BY DEF FromFlag, IsInput, Flagged, Values, Switches
<1>2. \A v \in DOMAIN input.environ :
        v[1] = "ConfigFilePath" => input.environ[v] \in Paths \cup {Blank}
  BY DEF IsInput, Values, Switches
<1>3. FirstPath \in Paths \cup {Blank}
  BY <1>1, <1>2 DEF FirstPath, ConfigSet, ConfigVar
<1>4. SecondPath \in Paths \cup {Blank}
  BY <1>1, <1>2 DEF SecondPath, Explicit, IsSet, Environ, Var
<1> QED BY <1>3, <1>4

LEMMA ExplicitText ==
  ASSUME IsInput(input), FlagsReadable, SwitchesReadable, NEW o \in Options
  PROVE  Explicit(o) \in Texts
<1>1. CASE IsSet(o)
  <2>1. Environ(o) \in Values(o)
    BY <1>1 DEF IsInput, IsSet, Environ, Var
  <2>2. o \in Switches => Environ(o) # Bad
    BY <1>1 DEF SwitchesReadable
  <2> QED BY <1>1, <2>1, <2>2, ConfigAssumption DEF Values, Texts, Explicit
<1>2. CASE ~IsSet(o)
  BY <1>2, FlagText DEF Explicit
<1> QED BY <1>1, <1>2

LEMMA FiledText ==
  ASSUME IsInput(input), SecondReadable, NEW o \in Options \cup Defaults
  PROVE  Filed(o) \in Texts
<1>1. CASE SecondPath = Blank
  BY <1>1 DEF Filed, Texts
<1>2. CASE SecondPath # Blank
  <2>1. IsContent(input.disk[SecondPath])
    BY <1>2, PathText DEF IsInput, SecondReadable
  <2> QED BY <1>2, <2>1 DEF Filed, ValueIn, IsContent, Texts
<1> QED BY <1>1, <1>2

LEMMA FinalText ==
  ASSUME IsInput(input), FlagsReadable, SwitchesReadable, SecondReadable
  PROVE  /\ \A o \in Options : Filled(o) \in Texts /\ Settled(o) \in Texts /\ Final(o) \in Texts
         /\ \A d \in Defaults : FiledDefault(d) \in Texts
<1>1. \A o \in Options : Filled(o) \in Texts
  BY ExplicitText, FiledText DEF Filled, First
<1>d. \A d \in Defaults : FiledDefault(d) \in Texts
  BY FiledText, ConfigAssumption DEF FiledDefault, First, BuiltIn, Texts
<1>2. DefaultKey \in Texts /\ DefaultFile \in Texts /\ DefaultAddr \in Texts
      /\ FiledDefault("defGRPCAddr") \in Texts
  BY <1>d, ConfigAssumption DEF Texts, DefaultAddr, Defaults, First
<1>3. \A o \in Options : Defaulted(o) \in Texts
  BY <1>1, <1>2 DEF Defaulted, First
<1>4. \A o \in Inheriting : Http(o) \in Options
  BY DEF Inheriting, Http, Options
<1>5. \A o \in Options : Settled(o) \in Texts
  BY <1>1, <1>3, <1>4 DEF Settled, First
<1>6. \A a, b \in Options : Resolved(a, b) \in Texts
  BY <1>2, <1>5 DEF Resolved
<1>7. "HTTPAddr" \in Options /\ "ShortAddr" \in Options
  BY DEF Options, Addresses
<1>8. \A o \in Options : Final(o) \in Texts
  BY <1>2, <1>5, <1>6, <1>7 DEF Final, First
<1> QED BY <1>1, <1>5, <1>8, <1>d

-----------------------------------------------------------------------------
(* The sources do not change while main() works: an input never, and the    *)
(* names of the variables only in the stage that reads them.                *)
LEMMA InputKept ==
  ASSUME input' = input
  PROVE  /\ ConfigSet' = ConfigSet /\ FirstPath' = FirstPath
         /\ FlagsReadable' = FlagsReadable /\ FirstReadable' = FirstReadable
         /\ \A o : FromFlag(o)' = FromFlag(o) /\ GivenBefore(o)' = GivenBefore(o)
<1>1. ConfigSet' = ConfigSet
  BY DEF ConfigSet
<1>2. \A o : FromFlag(o)' = FromFlag(o) /\ GivenBefore(o)' = GivenBefore(o)
  BY <1>1 DEF FromFlag, GivenBefore, Flagged
<1> QED BY <1>1, <1>2 DEF FirstPath, FlagsReadable, FirstReadable

LEMMA SourcesKept ==
  ASSUME input' = input, renamed' = renamed
  PROVE  /\ SwitchesReadable' = SwitchesReadable /\ SecondReadable' = SecondReadable
         /\ SecondPath' = SecondPath
         /\ \A o : /\ Explicit(o)' = Explicit(o) /\ Filed(o)' = Filed(o)
                  /\ Given(o)' = Given(o)
                  /\ Filled(o)' = Filled(o) /\ FilledSet(o)' = FilledSet(o)
                  /\ Settled(o)' = Settled(o) /\ Final(o)' = Final(o)
                  /\ FiledDefault(o)' = FiledDefault(o) /\ Unharmed(o)' = Unharmed(o)
<1>1. \A o : IsSet(o)' = IsSet(o) /\ Environ(o)' = Environ(o)
  BY DEF IsSet, Environ, Var
<1>2. \A o : Explicit(o)' = Explicit(o) /\ Given(o)' = Given(o)
  BY <1>1, InputKept DEF Explicit, Given
<1>3. SecondPath' = SecondPath
  BY <1>2 DEF SecondPath
<1>4. \A o : Filed(o)' = Filed(o)
  BY <1>3 DEF Filed, ValueIn
<1>5. \A o : Filled(o)' = Filled(o) /\ FilledSet(o)' = FilledSet(o)
  BY <1>2, <1>3, <1>4 DEF Filled, FilledSet
<1>6. \A o : Settled(o)' = Settled(o) /\ FiledDefault(o)' = FiledDefault(o)
  BY <1>4, <1>5 DEF Settled, Defaulted, FiledDefault
<1>7. \A o : Final(o)' = Final(o)
  BY <1>5, <1>6 DEF Final, Resolved, DefaultAddr
<1>9. \A o : Value(o)' = Value(o)
  BY <1>2, <1>4 DEF Value, Expected, Sourced
<1>10. \A o : Unharmed(o)' = Unharmed(o)
  BY <1>9 DEF Unharmed, OneStore
<1>8. SwitchesReadable' = SwitchesReadable /\ SecondReadable' = SecondReadable
  BY <1>1, <1>3 DEF SwitchesReadable, SecondReadable
<1> QED BY <1>2, <1>3, <1>4, <1>5, <1>6, <1>7, <1>8, <1>10

-----------------------------------------------------------------------------
(* The ordinary options, and the one with a default that counts as unset.   *)
LEMMA FilledIsSourced ==
  \A o : o # "JSONFile" /\ o # "ConfigFilePath" => Filled(o) = Sourced(o)
BY DEF Filled, Sourced

LEMMA DefaultedIsExpected ==
  \A o \in Options : o # "ConfigFilePath" /\ o # "GRPCAddr" => Defaulted(o) = Expected(o)
<1> SUFFICES ASSUME NEW o \in Options, o # "ConfigFilePath", o # "GRPCAddr"
             PROVE  Defaulted(o) = Expected(o)
  OBVIOUS
<1>1. CASE o = "JWTKey"
  BY <1>1, FilledIsSourced DEF Defaulted, Expected
<1>2. CASE o = "JSONFile"
  <2>1. Expected(o) = First(IF Explicit(o) = DefaultFile THEN First(Filed(o), DefaultFile)
                            ELSE Sourced(o), DefaultFile)
    BY <1>2 DEF Expected
  <2>2. DefaultFile # Blank
    BY ConfigAssumption
  <2>3. Defaulted(o) = First(Filled(o), DefaultFile)
    BY <1>2 DEF Defaulted
  <2> QED BY <1>2, <2>1, <2>2, <2>3 DEF Filled, Sourced, First
<1>3. CASE o # "JWTKey" /\ o # "JSONFile"
  BY <1>3, FilledIsSourced DEF Defaulted, Expected
<1> QED BY <1>1, <1>2, <1>3

LEMMA SettledIsValue ==
  \A o \in Options : o # "ConfigFilePath" /\ o # "GRPCAddr" => Settled(o) = Value(o)
<1> SUFFICES ASSUME NEW o \in Options, o # "ConfigFilePath", o # "GRPCAddr"
             PROVE  Settled(o) = Value(o)
  OBVIOUS
<1>1. CASE o \in Inheriting
  <2>1. /\ o # "JSONFile" /\ Http(o) \in Options
        /\ Http(o) # "ConfigFilePath" /\ Http(o) # "GRPCAddr"
    BY <1>1 DEF Inheriting, Http, Options
  <2> QED BY <1>1, <2>1, FilledIsSourced, DefaultedIsExpected DEF Settled, Value
<1>2. CASE o \notin Inheriting
  BY <1>2, DefaultedIsExpected DEF Settled, Value
<1> QED BY <1>1, <1>2

LEMMA FinalIsValue ==
  \A o \in Options \ (Addresses \cup {"ConfigFilePath"}) : Final(o) = Value(o)
<1> SUFFICES ASSUME NEW o \in Options \ (Addresses \cup {"ConfigFilePath"})
             PROVE  Final(o) = Value(o)
  OBVIOUS
<1>1. o # "HTTPAddr" /\ o # "ShortAddr" /\ o # "ConfigFilePath"
  BY DEF Addresses
<1>2. CASE o = "GRPCAddr"
  <2>1. o \notin Inheriting
    BY <1>2 DEF Inheriting
  <2>2. Settled(o) = Sourced(o)
    BY <1>2, <2>1, FilledIsSourced DEF Settled, Defaulted
  <2>3. FiledDefault("defGRPCAddr") = First(Filed("defGRPCAddr"), DefaultGrpc)
    BY DEF FiledDefault, BuiltIn, Defaults
  <2> QED BY <1>2, <2>1, <2>2, <2>3 DEF Final, Value, Expected
<1>3. CASE o # "GRPCAddr"
  BY <1>1, <1>3, SettledIsValue DEF Final
<1> QED BY <1>2, <1>3

-----------------------------------------------------------------------------
LEMMA StagewiseInit == Init => Stagewise
<1> SUFFICES ASSUME Init PROVE Stagewise
  OBVIOUS
<1>1. IsInput(input)
  BY ConfigAssumption DEF Init
<1>2. conf \in [Options -> Texts] /\ wasSet \in [Addresses -> BOOLEAN]
  BY DEF Init, Zero, Texts
<1>3. wired \in [Servers -> [key : Texts, subnet : Texts]]
  BY DEF Init, Texts
<1>d. BuiltIn \in [Defaults -> Texts]
  BY ConfigAssumption DEF BuiltIn, Texts
<1>4. TypeOK
  BY <1>1, <1>2, <1>3, <1>d DEF TypeOK, Init, Stages
<1>5. /\ stage = "flags" /\ renamed = {} /\ conf = Zero /\ wasSet = [a \in Addresses |-> FALSE]
      /\ defaults = BuiltIn
  BY DEF Init
<1> QED BY <1>4, <1>5 DEF Stagewise, AfterFlags, AfterNames, AfterEnvironment, AfterFile, AfterDatabase,
           AfterAddresses

(* One lemma per stage.  Each finds the sources unchanged, the new value of *)
(* the options, and then every conjunct for the stage that begins.          *)
LEMMA ParseFlagsStep == ASSUME Stagewise, ParseFlags PROVE Stagewise'
<1> USE DEF AfterFlags, AfterNames, AfterEnvironment, AfterFile, AfterDatabase, AfterAddresses
<1>0. /\ input' = input /\ stage = "flags" /\ renamed = {} /\ shared' = shared /\ wired' = wired
      /\ defaults = BuiltIn /\ defaults' = defaults
  BY DEF ParseFlags, Stagewise, Stop
<1>t. TypeOK
  BY DEF Stagewise
<1>1. CASE stage' = "names"
  <2>1. FlagsReadable /\ renamed' = renamed
    BY <1>1, <1>0 DEF ParseFlags, FlagsReadable, Stop
  <2>2. conf' = [o \in Options |-> FromFlag(o)]
    <3>1. CASE ConfigSet
      <4>1. conf = Zero
        BY <1>0 DEF Stagewise
      <4> QED BY <3>1, <4>1, <1>1 DEF ParseFlags, FromFlag, Zero, Stop
    <3>2. CASE ~ConfigSet
      BY <3>2, <1>1 DEF ParseFlags, FromFlag, Stop
    <3> QED BY <3>1, <3>2
  <2>3. wasSet' = [a \in Addresses |-> GivenBefore(a)]
    <3>1. CASE ConfigSet
      <4>1. wasSet = [a \in Addresses |-> FALSE]
        BY <1>0 DEF Stagewise
      <4>2. wasSet' = wasSet
        BY <3>1, <1>1 DEF ParseFlags, Stop
      <4>3. \A a \in Addresses : GivenBefore(a) = FALSE
        BY <3>1 DEF GivenBefore
      <4>4. [a \in Addresses |-> GivenBefore(a)] = [a \in Addresses |-> FALSE]
        BY <4>3, Zenon
      <4> QED BY <4>1, <4>2, <4>4
    <3>2. CASE ~ConfigSet
      <4>1. wasSet' = [a \in Addresses |-> Flagged(a)]
        BY <3>2, <1>1 DEF ParseFlags, Stop
      <4>2. \A a \in Addresses : GivenBefore(a) = Flagged(a)
        BY <3>2 DEF GivenBefore, Flagged
      <4>3. [a \in Addresses |-> GivenBefore(a)] = [a \in Addresses |-> Flagged(a)]
        BY <4>2, Zenon
      <4> QED BY <4>1, <4>3
    <3> QED BY <3>1, <3>2
  <2>4. TypeOK'
    <3>1. conf' \in [Options -> Texts]
      BY <2>1, <2>2, <1>t, FlagText DEF TypeOK
    <3>2. wasSet' \in [Addresses -> BOOLEAN]
      BY <2>3 DEF GivenBefore, ConfigSet, Flagged
    <3> QED BY <1>0, <1>1, <1>t, <2>1, <3>1, <3>2 DEF TypeOK, Stages
  <2> QED BY <1>0, <1>1, <2>1, <2>2, <2>3, <2>4, InputKept DEF Stagewise
<1>2. CASE stage' = "stopped"
  <2>1. ~FlagsReadable
    BY <1>0, <1>2 DEF ParseFlags, FlagsReadable
  <2>2. ~Readable'
    BY <2>1, <1>0 DEF Readable, FlagsReadable, ConfigSet
  <2>3. TypeOK'
    BY <1>0, <1>2, <1>t DEF ParseFlags, TypeOK, Stages, Stop
  <2> QED BY <1>0, <1>2, <2>2, <2>3 DEF Stagewise
<1> QED BY <1>0, <1>1, <1>2 DEF ParseFlags, Stop

LEMMA ReadNamesStep == ASSUME Stagewise, ReadNames PROVE Stagewise'
<1> USE DEF AfterFlags, AfterNames, AfterEnvironment, AfterFile, AfterDatabase, AfterAddresses
<1>0. /\ input' = input /\ stage = "names" /\ shared' = shared /\ wired' = wired
      /\ defaults = BuiltIn /\ defaults' = defaults
      /\ conf' = conf /\ wasSet' = wasSet
      /\ FlagsReadable /\ conf = [o \in Options |-> FromFlag(o)]
      /\ wasSet = [a \in Addresses |-> GivenBefore(a)]
  BY DEF ReadNames, Stagewise, Stop
<1>t. TypeOK
  BY DEF Stagewise
<1>p. NamesPath = FirstPath
  BY <1>0 DEF NamesPath, FirstPath, Options
<1>1. CASE stage' = "environment"
  <2>1. FirstReadable
    BY <1>1, <1>p DEF ReadNames, FirstReadable, Stop
  <2>2. renamed' \subseteq Options
    <3>1. CASE NamesPath = Blank
      BY <3>1, <1>1, <1>t DEF ReadNames, TypeOK, Stop
    <3>2. CASE NamesPath # Blank
      <4>1. FirstPath \in Paths /\ input.disk[FirstPath] # Bad
        BY <3>2, <1>p, <1>t, <2>1, PathText DEF FirstReadable, TypeOK
      <4>2. IsContent(input.disk[FirstPath])
        BY <4>1, <1>t DEF TypeOK, IsInput
      <4> QED BY <3>2, <4>2, <1>1, <1>p DEF ReadNames, IsContent, Stop
    <3> QED BY <3>1, <3>2
  <2>3. TypeOK'
    BY <1>0, <1>1, <1>t, <2>2 DEF TypeOK, Stages
  <2> QED BY <1>0, <1>1, <2>1, <2>3, InputKept DEF Stagewise
<1>2. CASE stage' = "stopped"
  <2>1. FirstPath # Blank /\ input.disk[FirstPath] = Bad
    BY <1>2, <1>p DEF ReadNames
  <2>2. ~Readable'
    BY <2>1, <1>0, InputKept DEF Readable
  <2>3. TypeOK'
    BY <1>0, <1>2, <1>t DEF ReadNames, TypeOK, Stages, Stop
  <2> QED BY <1>0, <1>2, <2>2, <2>3 DEF Stagewise
<1> QED BY <1>1, <1>2 DEF ReadNames, Stop

LEMMA ReadEnvironmentStep == ASSUME Stagewise, ReadEnvironment PROVE Stagewise'
<1> USE DEF AfterFlags, AfterNames, AfterEnvironment, AfterFile, AfterDatabase, AfterAddresses
<1>0. /\ input' = input /\ renamed' = renamed /\ shared' = shared /\ wired' = wired
      /\ stage = "environment" /\ FlagsReadable /\ FirstReadable
      /\ defaults = BuiltIn /\ defaults' = defaults
      /\ conf = [o \in Options |-> FromFlag(o)]
      /\ wasSet = [a \in Addresses |-> GivenBefore(a)]
  BY DEF ReadEnvironment, Stagewise, Stop
<1>t. TypeOK
  BY DEF Stagewise
<1>o. \A o \in Options : Override(o) = Explicit(o)
  BY <1>0 DEF Override, Explicit
<1>s. Switches \subseteq Options
  BY DEF Options
<1>1. CASE stage' = "file"
  <2>1. SwitchesReadable
    BY <1>1, <1>o, <1>s DEF ReadEnvironment, SwitchesReadable, Override, Stop
  <2>2. conf' = [o \in Options |-> Explicit(o)]
    BY <1>1, <1>o DEF ReadEnvironment, Stop
  <2>3. wasSet' = [a \in Addresses |-> Given(a)]
    BY <1>0, <1>1 DEF ReadEnvironment, Given, Stop
  <2>4. conf' \in [Options -> Texts] /\ wasSet' \in [Addresses -> BOOLEAN]
    <3>1. \A a : Given(a) \in BOOLEAN
      BY DEF Given
    <3> QED BY <2>1, <2>2, <2>3, <3>1, <1>0, <1>t, ExplicitText DEF TypeOK
  <2>5. TypeOK'
    BY <1>0, <1>1, <1>t, <2>4 DEF TypeOK, Stages
  <2> QED BY <1>0, <1>1, <2>1, <2>2, <2>3, <2>5, InputKept, SourcesKept DEF Stagewise
<1>2. CASE stage' = "stopped"
  <2>1. PICK o \in Switches : Override(o) = Bad
    BY <1>2 DEF ReadEnvironment
  <2>2. IsSet(o) /\ Environ(o) = Bad
    <3>1. FromFlag(o) \in Texts
      BY <1>0, <1>t, <1>s, FlagText DEF TypeOK
    <3> QED BY <2>1, <3>1, <1>0, <1>s, ConfigAssumption DEF Override
  <2>3. ~Readable'
    BY <2>2, <1>0 DEF Readable, IsSet, Environ, Var
  <2>4. TypeOK'
    BY <1>0, <1>2, <1>t DEF ReadEnvironment, TypeOK, Stages, Stop
  <2> QED BY <1>0, <1>2, <2>3, <2>4 DEF Stagewise
<1> QED BY <1>1, <1>2 DEF ReadEnvironment, Stop

LEMMA ReadFileStep == ASSUME Stagewise, ReadFile PROVE Stagewise'
<1> USE DEF AfterFlags, AfterNames, AfterEnvironment, AfterFile, AfterDatabase, AfterAddresses
<1>0. /\ input' = input /\ renamed' = renamed /\ shared' = shared /\ wired' = wired
      /\ stage = "file" /\ FlagsReadable /\ FirstReadable /\ SwitchesReadable /\ defaults = BuiltIn
      /\ conf = [o \in Options |-> Explicit(o)]
      /\ wasSet = [a \in Addresses |-> Given(a)]
  BY DEF ReadFile, Stagewise, Stop
<1>t. TypeOK
  BY DEF Stagewise
<1>p. conf["ConfigFilePath"] = SecondPath
  BY <1>0 DEF SecondPath, Options
<1>1. CASE stage' = "defaults"
  <2>1. SecondReadable
    BY <1>1, <1>p DEF ReadFile, SecondReadable, Stop
  <2>2. conf' = [o \in Options |-> Filled(o)] /\ wasSet' = [a \in Addresses |-> FilledSet(a)]
    <3>1. CASE SecondPath = Blank
      <4>1. \A o : Filed(o) = Blank
        BY <3>1 DEF Filed
      <4>2. \A o : Filled(o) = Explicit(o) /\ FilledSet(o) = Given(o)
        BY <3>1, <4>1 DEF Filled, FilledSet, First
      <4>3. conf' = conf /\ wasSet' = wasSet
        BY <3>1, <1>1, <1>p DEF ReadFile, Stop
      <4> QED BY <1>0, <4>2, <4>3
    <3>2. CASE SecondPath # Blank
      <4>1. \A o : FileHas(o) = Filed(o)
        BY <3>2, <1>p DEF FileHas, Filed
      <4>2. \A a \in Addresses : FileAddress(a) = Filled(a)
        BY <1>0, <4>1 DEF FileAddress, Filled, First, Addresses, Options
      <4>3. \A a \in Addresses : FileAddressSet(a) = FilledSet(a)
        BY <1>0, <4>1, <3>2 DEF FileAddressSet, FilledSet, Addresses, Options
      <4>4. FileStorage = Filled("JSONFile")
        BY <1>0, <4>1, ConfigAssumption DEF FileStorage, Filled, First, Options
      <4>5. \A o \in Options : o # "JSONFile" /\ o # "ConfigFilePath" => FileFills(o) = Filled(o)
        BY <1>0, <4>1 DEF FileFills, Filled, First
      <4>6. conf["ConfigFilePath"] = Filled("ConfigFilePath")
        BY <1>0 DEF Filled, Options
      <4>7. conf' = [o \in Options |->
                       CASE o \in Addresses      -> FileAddress(o)
                         [] o = "JSONFile"       -> FileStorage
                         [] o = "ConfigFilePath" -> conf[o]
                         [] OTHER                -> FileFills(o)]
            /\ wasSet' = [a \in Addresses |-> FileAddressSet(a)]
        BY <3>2, <1>1, <1>p DEF ReadFile, Stop
      <4>8. "JSONFile" \notin Addresses /\ "ConfigFilePath" \notin Addresses
        BY DEF Addresses
      <4>9. ASSUME NEW o \in Options
            PROVE (CASE o \in Addresses      -> FileAddress(o)
                     [] o = "JSONFile"       -> FileStorage
                     [] o = "ConfigFilePath" -> conf[o]
                     [] OTHER                -> FileFills(o)) = Filled(o)
        <5>1. CASE o \in Addresses
          BY <5>1, <4>2, <4>8
        <5>2. CASE o = "JSONFile"
          BY <5>2, <4>4, <4>8
        <5>3. CASE o = "ConfigFilePath"
          BY <5>3, <4>6, <4>8
        <5>4. CASE o \notin Addresses /\ o # "JSONFile" /\ o # "ConfigFilePath"
          BY <5>4, <4>5
        <5> QED BY <5>1, <5>2, <5>3, <5>4
      <4> QED BY <4>3, <4>7, <4>9, Zenon
    <3> QED BY <3>1, <3>2
  <2>d. defaults' = [d \in Defaults |-> FiledDefault(d)]
    <3>1. CASE SecondPath = Blank
      <4>1. \A d \in Defaults : FiledDefault(d) = BuiltIn[d]
        BY <3>1 DEF FiledDefault, Filed, First
      <4>2. defaults' = BuiltIn
        BY <3>1, <1>0, <1>1, <1>p DEF ReadFile, Stop
      <4> QED BY <4>1, <4>2 DEF BuiltIn
    <3>2. CASE SecondPath # Blank
      <4>1. \A d \in Defaults : FileDefault(d) = FiledDefault(d)
        BY <3>2, <1>0, <1>p DEF FileDefault, FiledDefault, FileHas, Filed, First
      <4>2. defaults' = [d \in Defaults |-> FileDefault(d)]
        BY <3>2, <1>1, <1>p DEF ReadFile, Stop
      <4> QED BY <4>1, <4>2
    <3> QED BY <3>1, <3>2
  <2>3. conf' \in [Options -> Texts] /\ wasSet' \in [Addresses -> BOOLEAN]
        /\ defaults' \in [Defaults -> Texts]
    <3>1. \A a : FilledSet(a) \in BOOLEAN
      BY DEF FilledSet, Given
    <3> QED BY <2>1, <2>2, <2>d, <3>1, <1>0, <1>t, FinalText DEF TypeOK
  <2>4. TypeOK'
    BY <1>0, <1>1, <1>t, <2>3 DEF TypeOK, Stages
  <2> QED BY <1>0, <1>1, <2>1, <2>2, <2>d, <2>4, InputKept, SourcesKept DEF Stagewise
<1>2. CASE stage' = "stopped"
  <2>1. SecondPath # Blank /\ input.disk[SecondPath] = Bad
    BY <1>2, <1>p DEF ReadFile
  <2>2. ~Readable'
    BY <2>1, <1>0, SourcesKept DEF Readable
  <2>3. TypeOK'
    BY <1>0, <1>2, <1>t DEF ReadFile, TypeOK, Stages, Stop
  <2> QED BY <1>0, <1>2, <2>2, <2>3 DEF Stagewise
<1> QED BY <1>1, <1>2 DEF ReadFile, Stop

LEMMA ApplyDefaultsStep == ASSUME Stagewise, ApplyDefaults PROVE Stagewise'
<1> USE DEF AfterFlags, AfterNames, AfterEnvironment, AfterFile, AfterDatabase, AfterAddresses
<1>0. /\ input' = input /\ renamed' = renamed /\ shared' = shared /\ wired' = wired
      /\ stage = "defaults" /\ stage' = "database" /\ wasSet' = wasSet /\ defaults' = defaults
      /\ FlagsReadable /\ FirstReadable /\ SwitchesReadable /\ SecondReadable
      /\ conf = [o \in Options |-> Filled(o)]
      /\ wasSet = [a \in Addresses |-> FilledSet(a)]
      /\ defaults = [d \in Defaults |-> FiledDefault(d)]
  BY DEF ApplyDefaults, Stagewise
<1>t. TypeOK
  BY DEF Stagewise
<1>1. \A o \in Options : Own(o) = Defaulted(o)
  <2> SUFFICES ASSUME NEW o \in Options PROVE Own(o) = Defaulted(o)
    OBVIOUS
  <2>1. CASE o = "JWTKey"
    BY <2>1, <1>0 DEF Own, Defaulted, First
  <2>2. CASE o = "JSONFile"
    BY <2>2, <1>0 DEF Own, Defaulted, First
  <2>3. CASE o # "JWTKey" /\ o # "JSONFile"
    BY <2>3, <1>0 DEF Own, Defaulted
  <2> QED BY <2>1, <2>2, <2>3
<1>2. \A o \in Inheriting : o \in Options /\ Http(o) \in Options
  BY DEF Inheriting, Http, Options
<1>3. \A o \in Inheriting : Inherited(o) = First(Filled(o), Defaulted(Http(o)))
  BY <1>0, <1>1, <1>2 DEF Inherited, First
<1>4. conf' = [o \in Options |-> Settled(o)]
  BY <1>1, <1>3 DEF ApplyDefaults, Settled
<1>5. TypeOK'
  BY <1>0, <1>4, <1>t, FinalText DEF TypeOK, Stages
<1> QED BY <1>0, <1>4, <1>5, InputKept, SourcesKept DEF Stagewise

LEMMA OpenDatabaseStep == ASSUME Stagewise, OpenDatabase PROVE Stagewise'
<1> USE DEF AfterFlags, AfterNames, AfterEnvironment, AfterFile, AfterDatabase, AfterAddresses
<1>0. /\ input' = input /\ renamed' = renamed /\ shared' = shared /\ wired' = wired
      /\ stage = "database" /\ conf' = conf /\ wasSet' = wasSet /\ defaults' = defaults
      /\ conf = [o \in Options |-> Settled(o)]
  BY DEF OpenDatabase, Stagewise, Stop
<1>t. TypeOK
  BY DEF Stagewise
<1>v. conf["DSN"] = Value("DSN")
  BY <1>0, SettledIsValue DEF Options
<1>1. CASE stage' = "addresses"
  <2>1. Unharmed("DSN")
    BY <1>1, <1>v DEF OpenDatabase, Usable, Unharmed, Stop
  <2>2. TypeOK'
    BY <1>0, <1>1, <1>t DEF TypeOK, Stages
  <2> QED BY <1>0, <1>1, <2>1, <2>2, InputKept, SourcesKept DEF Stagewise
<1>2. CASE stage' = "stopped"
  <2>1. ~Unharmed("DSN")
    BY <1>2, <1>v DEF OpenDatabase, Usable, Unharmed
  <2>2. ~Able'
    BY <2>1, <1>0, SourcesKept DEF Unharmed, Able
  <2>3. TypeOK'
    BY <1>0, <1>2, <1>t DEF TypeOK, Stages
  <2> QED BY <1>0, <1>2, <2>2, <2>3 DEF Stagewise
<1> QED BY <1>1, <1>2 DEF OpenDatabase, Stop

LEMMA ResolveAddressesStep == ASSUME Stagewise, ResolveAddresses PROVE Stagewise'
<1> USE DEF AfterFlags, AfterNames, AfterEnvironment, AfterFile, AfterDatabase, AfterAddresses
<1>0. /\ input' = input /\ renamed' = renamed /\ shared' = shared /\ wired' = wired
      /\ stage = "addresses" /\ stage' = "services" /\ wasSet' = wasSet /\ defaults' = defaults
      /\ FlagsReadable /\ FirstReadable /\ SwitchesReadable /\ SecondReadable
      /\ conf = [o \in Options |-> Settled(o)]
      /\ wasSet = [a \in Addresses |-> FilledSet(a)]
      /\ defaults = [d \in Defaults |-> FiledDefault(d)] /\ Unharmed("DSN")
  BY DEF ResolveAddresses, Stagewise
<1>t. TypeOK
  BY DEF Stagewise
<1>1. DefAddr = DefaultAddr
  BY <1>0 DEF DefAddr, DefaultAddr, Options, Switches, Defaults, First
<1>2. \A a, b \in Addresses : Address(a, b) = Resolved(a, b)
  <2> SUFFICES ASSUME NEW a \in Addresses, NEW b \in Addresses PROVE Address(a, b) = Resolved(a, b)
    OBVIOUS
  <2>0. conf[a] = Settled(a) /\ conf[b] = Settled(b) /\ wasSet[a] = FilledSet(a) /\ wasSet[b] = FilledSet(b)
    BY <1>0 DEF Options
  <2>1. CASE wasSet[a]
    BY <2>0, <2>1 DEF Address, Resolved
  <2>2. CASE ~wasSet[a] /\ wasSet[b]
    BY <2>0, <2>2 DEF Address, Resolved
  <2>3. CASE ~wasSet[a] /\ ~wasSet[b]
    BY <2>0, <2>3, <1>1 DEF Address, Resolved
  <2> QED BY <2>1, <2>2, <2>3
<1>3. conf' = [o \in Options |-> Final(o)]
  BY <1>0, <1>2 DEF ResolveAddresses, Final, First, Addresses, Options, Defaults
<1>5. TypeOK'
  BY <1>0, <1>3, <1>t, FinalText DEF TypeOK, Stages
<1> QED BY <1>0, <1>3, <1>5, InputKept, SourcesKept DEF Stagewise

LEMMA MakeServicesStep == ASSUME Stagewise, MakeServices PROVE Stagewise'
<1> USE DEF AfterFlags, AfterNames, AfterEnvironment, AfterFile, AfterDatabase, AfterAddresses
<1>0. /\ input' = input /\ renamed' = renamed /\ conf' = conf /\ wired' = wired
      /\ stage = "services" /\ wasSet' = wasSet /\ defaults' = defaults
      /\ conf = [o \in Options |-> Final(o)]
  BY DEF MakeServices, Stagewise, Stop
<1>t. TypeOK
  BY DEF Stagewise
<1>v. conf["GRPCDatabaseDSN"] = Value("GRPCDatabaseDSN") /\ SameStores = OneStore
  <2>1. {"JSONFile", "GRPCFileStorage", "DSN", "GRPCDatabaseDSN"}
          \subseteq Options \ (Addresses \cup {"ConfigFilePath"})
    BY DEF Options, Addresses
  <2> QED BY <1>0, <2>1, FinalIsValue DEF SameStores, OneStore
<1>1. CASE stage' = "wiring"
  <2>1. Unharmed("GRPCDatabaseDSN") /\ shared' = SameStores
    BY <1>1, <1>v DEF MakeServices, Usable, Unharmed, Stop
  <2>2. SameStores' = SameStores /\ SameStores \in BOOLEAN
    BY <1>0 DEF SameStores
  <2>3. TypeOK'
    BY <1>0, <1>1, <1>t, <2>1, <2>2 DEF TypeOK, Stages
  <2> QED BY <1>0, <1>1, <2>1, <2>2, <2>3, InputKept, SourcesKept DEF Stagewise
<1>2. CASE stage' = "stopped"
  <2>1. ~Unharmed("GRPCDatabaseDSN") /\ shared' = shared
    BY <1>2, <1>v DEF MakeServices, Usable, Unharmed
  <2>2. ~Able'
    BY <2>1, <1>0, SourcesKept DEF Unharmed, Able
  <2>3. TypeOK'
    BY <1>0, <1>2, <1>t, <2>1 DEF TypeOK, Stages
  <2> QED BY <1>0, <1>2, <2>2, <2>3 DEF Stagewise
<1> QED BY <1>1, <1>2 DEF MakeServices, Stop

LEMMA ListeningIsValue ==
  ASSUME Stagewise, stage = "wiring"
  PROVE  CanListen <=> Unharmed("GRPCAddr") /\ Unharmed("GRPCSecureEnabled")
<1>1. \A o \in {"GRPCAddr", "GRPCSecureEnabled"} : conf[o] = Value(o)
  BY FinalIsValue DEF Stagewise, AfterAddresses, Options, Switches, Addresses
<1> QED BY <1>1 DEF CanListen, Usable, Unharmed

LEMMA WireStep == ASSUME Stagewise, Wire PROVE Stagewise'
<1> USE DEF AfterFlags, AfterNames, AfterEnvironment, AfterFile, AfterDatabase, AfterAddresses
<1>0. /\ input' = input /\ renamed' = renamed /\ conf' = conf /\ shared' = shared
      /\ stage = "wiring" /\ stage' = "serving" /\ wasSet' = wasSet /\ defaults' = defaults
      /\ wired' = [s \in Servers |-> [key |-> conf["JWTKey"], subnet |-> conf["TrustedSubnet"]]]
      /\ Unharmed("GRPCAddr") /\ Unharmed("GRPCSecureEnabled")
  BY ListeningIsValue DEF Wire
<1>1. conf["JWTKey"] \in Texts /\ conf["TrustedSubnet"] \in Texts
  BY DEF Stagewise, TypeOK, Options
<1>t. TypeOK'
  BY <1>0, <1>1 DEF Stagewise, TypeOK, Stages
<1>s. SameStores' = SameStores
  BY <1>0 DEF SameStores
<1> QED BY <1>0, <1>t, <1>s, InputKept, SourcesKept DEF Stagewise

LEMMA FailToListenStep == ASSUME Stagewise, FailToListen PROVE Stagewise'
<1>0. /\ input' = input /\ renamed' = renamed /\ conf' = conf /\ shared' = shared
      /\ stage' = "stopped" /\ wasSet' = wasSet /\ defaults' = defaults /\ wired' = wired
      /\ ~(Unharmed("GRPCAddr") /\ Unharmed("GRPCSecureEnabled"))
  BY ListeningIsValue DEF FailToListen, Stop
<1>1. ~Able'
  BY <1>0, SourcesKept DEF Unharmed, Able
<1>t. TypeOK'
  BY <1>0 DEF Stagewise, TypeOK, Stages
<1> QED BY <1>0, <1>1, <1>t
    DEF Stagewise, AfterFlags, AfterNames, AfterEnvironment, AfterFile, AfterDatabase, AfterAddresses

LEMMA StagewiseStep == Stagewise /\ [Next]_vars => Stagewise'
<1> SUFFICES ASSUME Stagewise, [Next]_vars PROVE Stagewise'
  OBVIOUS
<1>1. CASE Next
  BY <1>1, ParseFlagsStep, ReadNamesStep, ReadEnvironmentStep, ReadFileStep,
     ApplyDefaultsStep, OpenDatabaseStep, ResolveAddressesStep, MakeServicesStep, WireStep,
     FailToListenStep DEF Next
<1>2. CASE UNCHANGED vars
  <2>1. TypeOK' /\ stage' = stage /\ conf' = conf /\ wasSet' = wasSet /\ renamed' = renamed
        /\ shared' = shared /\ wired' = wired /\ input' = input /\ defaults' = defaults
    BY <1>2 DEF Stagewise, TypeOK, vars
  <2>2. Readable' = Readable /\ Able' = Able
    <3>1. Readable' = Readable
      BY <2>1, InputKept, SourcesKept DEF Readable, IsSet, Environ, Var
    <3>2. Able' = Able
      BY <2>1, SourcesKept DEF Able, Unharmed
    <3> QED BY <3>1, <3>2
  <2>3. stage = "flags" => (conf = Zero /\ wasSet = [a \in Addresses |-> FALSE])'
    <3>1. Zero' = Zero
      BY DEF Zero
    <3> QED BY <2>1, <3>1 DEF Stagewise
  <2>4. (stage = "stopped" => ~(Readable /\ Able))'
    BY <2>1, <2>2 DEF Stagewise
  <2>5. (stage \in {"wiring", "serving"} => shared = SameStores /\ Unharmed("GRPCDatabaseDSN"))'
    BY <2>1, SourcesKept DEF Stagewise, SameStores
  <2>6. (stage = "serving" =>
           /\ wired = [s \in Servers |-> [key |-> conf["JWTKey"], subnet |-> conf["TrustedSubnet"]]]
           /\ Unharmed("GRPCAddr") /\ Unharmed("GRPCSecureEnabled"))'
    BY <2>1, SourcesKept DEF Stagewise
  <2>7. (/\ stage \in AfterFlags => FlagsReadable
         /\ stage \in {"flags", "names"} => renamed = {}
         /\ stage \in AfterNames => FirstReadable
         /\ stage \in AfterEnvironment => SwitchesReadable)'
    BY <2>1, InputKept, SourcesKept
    DEF Stagewise, AfterFlags, AfterNames, AfterEnvironment
  <2>8. (stage \in {"names", "environment"} =>
           /\ conf = [o \in Options |-> FromFlag(o)]
           /\ wasSet = [a \in Addresses |-> GivenBefore(a)])'
    BY <2>1, InputKept DEF Stagewise
  <2>9. (stage = "file" =>
           /\ conf = [o \in Options |-> Explicit(o)]
           /\ wasSet = [a \in Addresses |-> Given(a)])'
    BY <2>1, SourcesKept DEF Stagewise
  <2>10. (stage \in AfterFile =>
            /\ SecondReadable
            /\ wasSet = [a \in Addresses |-> FilledSet(a)]
            /\ defaults = [d \in Defaults |-> FiledDefault(d)])'
    BY <2>1, SourcesKept DEF Stagewise, AfterFile
  <2>12. (/\ stage \in {"flags", "names", "environment", "file"} => defaults = BuiltIn
          /\ stage \in AfterDatabase => Unharmed("DSN"))'
    BY <2>1, SourcesKept DEF Stagewise, AfterDatabase, BuiltIn
  <2>11. (/\ stage = "defaults" => conf = [o \in Options |-> Filled(o)]
          /\ stage \in {"database", "addresses"} => conf = [o \in Options |-> Settled(o)]
          /\ stage \in AfterAddresses => conf = [o \in Options |-> Final(o)])'
    BY <2>1, SourcesKept DEF Stagewise, AfterAddresses
  <2> QED BY <2>1, <2>3, <2>4, <2>5, <2>6, <2>7, <2>8, <2>9, <2>10, <2>11, <2>12
     DEF Stagewise
<1> QED BY <1>1, <1>2

(* At every stage each option, and each default, is what the sources read   *)
(* so far make it, and nothing needed so far is broken; at the end conf is  *)
(* Final, the file's defaults included.                                     *)
THEOREM StagesAddUp == Spec => []Stagewise
BY StagewiseInit, StagewiseStep, PTL DEF Spec

-----------------------------------------------------------------------------
(* main() keeps its types, whatever it is started with.                     *)
THEOREM ConfigTypes == Spec => []TypeOK
<1>1. Stagewise => TypeOK
  BY DEF Stagewise
<1> QED BY <1>1, StagesAddUp, PTL

(* A start that could not read a source, or needs a database, an address or *)
(* a certificate that fails it, never serves; and no other start is given   *)
(* up.                                                                      *)
THEOREM BadStartsStop == Spec => []ServesIffAble
<1>1. ASSUME Stagewise, stage = "serving" PROVE Readable /\ Able
  <2>1. FlagsReadable /\ FirstReadable /\ SwitchesReadable /\ SecondReadable
    BY <1>1 DEF Stagewise, AfterFlags, AfterNames, AfterEnvironment, AfterFile, AfterDatabase,
                AfterAddresses
  <2>2. Readable
    BY <2>1 DEF Readable, FlagsReadable, FirstReadable, SwitchesReadable, SecondReadable
  <2>3. \A o \in Used : Unharmed(o)
    BY <1>1 DEF Stagewise, Used, AfterDatabase, AfterAddresses
  <2>4. input.broken \subseteq Used
    BY <1>1 DEF Stagewise, TypeOK, IsInput
  <2> QED BY <2>2, <2>3, <2>4 DEF Able, Unharmed
<1>2. Stagewise => ServesIffAble
  BY <1>1 DEF ServesIffAble, Stagewise
<1> QED BY <1>2, StagesAddUp, PTL

(* Environment over flag over file over default - the file's or the built-  *)
(* in one: the passes over the sources and the stages amount to that, for   *)
(* every input.                                                             *)
THEOREM SourcesTakePrecedence == Spec => []Precedence
<1>1. Stagewise => Precedence
  BY FinalIsValue DEF Precedence, Stagewise, AfterAddresses
<1> QED BY <1>1, StagesAddUp, PTL

(* Both servers use one service unless something asks for another.          *)
THEOREM OneStoreByDefault == Spec => []OneStoreUnlessAsked
<1>1. ASSUME Stagewise, stage = "serving",
             Sourced("GRPCFileStorage") = Blank, Sourced("GRPCDatabaseDSN") = Blank
      PROVE  shared
  <2>1. conf = [o \in Options |-> Final(o)] /\ shared = SameStores
    BY <1>1 DEF Stagewise, AfterAddresses
  <2>2. Http("GRPCFileStorage") = "JSONFile" /\ Http("GRPCDatabaseDSN") = "DSN"
    BY DEF Http
  <2>3. Filled("GRPCFileStorage") = Blank /\ Filled("GRPCDatabaseDSN") = Blank
    BY <1>1, FilledIsSourced
  <2>4. Final("GRPCFileStorage") = Defaulted("JSONFile") /\ Final("GRPCDatabaseDSN") = Defaulted("DSN")
    BY <2>2, <2>3 DEF Final, Settled, First, Inheriting
  <2>5. Final("JSONFile") = Defaulted("JSONFile") /\ Final("DSN") = Defaulted("DSN")
    BY DEF Final, Settled, Inheriting
  <2>6. {"JSONFile", "GRPCFileStorage", "DSN", "GRPCDatabaseDSN"} \subseteq Options
    BY DEF Options
  <2> QED BY <2>1, <2>4, <2>5, <2>6 DEF SameStores
<1>2. Stagewise => OneStoreUnlessAsked
  BY <1>1 DEF OneStoreUnlessAsked
<1> QED BY <1>2, StagesAddUp, PTL

(* An address that is not blanked on purpose is set just when a source has  *)
(* a value for it, so short URLs start with the address that is served.     *)
THEOREM LinksAreServed == Spec => []LinksReachTheServer
<1>1. ASSUME Stagewise, stage = "serving", \A a \in Addresses : ~Blanked(a)
      PROVE  /\ \A a \in Addresses : conf[a] # Blank
             /\ conf["HTTPAddr"] # conf["ShortAddr"] => \A a \in Addresses : Sourced(a) # Blank
             /\ \A a \in Addresses : conf[a] \in {Sourced("HTTPAddr"), Sourced("ShortAddr"), Fallback}
             /\ (\A a \in Addresses : Sourced(a) = Blank) => \A a \in Addresses : conf[a] = Fallback
  <2>1. \A a \in Addresses : FilledSet(a) <=> Sourced(a) # Blank
    <3> SUFFICES ASSUME NEW a \in Addresses PROVE FilledSet(a) <=> Sourced(a) # Blank
      OBVIOUS
    <3>1. Explicit(a) = Blank => ~Given(a)
      BY <1>1 DEF Blanked, Given, GivenBefore
    <3>2. Explicit(a) # Blank => Given(a)
      BY DEF Explicit, Given, GivenBefore, FromFlag
    <3>3. SecondPath = Blank => Filed(a) = Blank
      BY DEF Filed
    <3> QED BY <3>1, <3>2, <3>3 DEF FilledSet, Sourced, First
  <2>2. \A a \in Addresses : Settled(a) = Sourced(a)
    BY FilledIsSourced DEF Settled, Defaulted, Addresses, Inheriting
  <2>3. DefaultAddr # Blank /\ DefaultAddr = Fallback
    <3>1. FiledDefault("defAddr") = Filed("defAddr")
      BY DEF FiledDefault, BuiltIn, Defaults, First
    <3>2. Settled("HTTPSEnabled") = Value("HTTPSEnabled")
      BY SettledIsValue DEF Options, Switches
    <3> QED BY <3>1, <3>2, ConfigAssumption DEF DefaultAddr, Fallback, First
  <2>4. conf["HTTPAddr"] = Resolved("HTTPAddr", "ShortAddr")
        /\ conf["ShortAddr"] = Resolved("ShortAddr", "HTTPAddr")
    BY <1>1 DEF Stagewise, AfterAddresses, Final, Options, Addresses
  <2> QED BY <2>1, <2>2, <2>3, <2>4 DEF Resolved, Addresses
<1>2. Stagewise => LinksReachTheServer
  BY <1>1 DEF LinksReachTheServer
<1> QED BY <1>2, StagesAddUp, PTL
=============================================================================
