------------------------------- MODULE Config -------------------------------
(***************************************************************************)
(* main() before it serves: an option's value comes from the command line, *)
(* from an environment variable (whose name a JSON file may change), from  *)
(* the JSON file, or from a default (which the file may replace), the      *)
(* databases are opened and the two servers are wired with what results.   *)
(* One action per stage of the start.                                      *)
(*                                                                         *)
(* A switch is a string too: Blank is false, what fails ParseBool is Bad.  *)
(***************************************************************************)
CONSTANTS Strings,      \* non-empty strings (and the value true of a switch)
          Blank,        \* "", and false
          Bad,          \* a value ParseBool refuses
          DefaultFile, DefaultKey, DefaultGrpc,  \* defaults that do not depend on others
          DefaultHttp, DefaultHttps,             \* and the address, by HTTPSEnabled
          Paths,        \* of configuration files
          Inputs        \* sets of command lines, environments and disks in play

Switches  == {"HTTPSEnabled", "GRPCSecureEnabled"}
Addresses == {"HTTPAddr", "ShortAddr"}
Options   == Switches \cup Addresses \cup
  {"JSONFile", "DSN", "ConfigFilePath", "TrustedSubnet", "JWTKey", "GRPCAddr",
   "GRPCFileStorage", "GRPCDatabaseDSN", "GRPCTrustedSubnet", "GRPCJWTKey"}

\* The options of the gRPC server that have a counterpart, and the counterpart.
Inheriting == {"GRPCFileStorage", "GRPCDatabaseDSN", "GRPCTrustedSubnet", "GRPCJWTKey"}
Http(o) == CASE o = "GRPCFileStorage"   -> "JSONFile"
             [] o = "GRPCDatabaseDSN"   -> "DSN"
             [] o = "GRPCTrustedSubnet" -> "TrustedSubnet"
             [] o = "GRPCJWTKey"        -> "JWTKey"

\* The defaults a file may replace.
Defaults == {"defAddr", "defGRPCAddr"}
BuiltIn == [d \in Defaults |-> IF d = "defAddr" THEN Blank ELSE DefaultGrpc]

\* The options whose use may fail: a database that cannot be migrated, an
\* address that cannot be listened on, certificate files that do not load.
Used == {"DSN", "GRPCDatabaseDSN", "GRPCAddr", "GRPCSecureEnabled"}

Texts == Strings \cup {Blank}

(* A configuration file: values for some options and defaults, and the      *)
(* options whose environment variable it gives another name.                *)
IsContent(c) ==
  /\ DOMAIN c.values \subseteq Options \cup Defaults /\ c.renames \subseteq Options
  /\ \A o \in DOMAIN c.values : c.values[o] \in Texts

(* What a start finds: the flags given, the variables set, the files, and   *)
(* what cannot be used if it comes to that.                                 *)
(* <<o, TRUE>> is the variable with the name the file gives it, <<o, FALSE>> *)
(* the one with the default name.                                           *)
Values(o) == IF o \in Switches THEN Texts \cup {Bad}
             ELSE IF o = "ConfigFilePath" THEN Paths \cup {Blank} ELSE Texts
IsInput(in) ==
  /\ DOMAIN in.flags \subseteq Options /\ DOMAIN in.environ \subseteq Options \X BOOLEAN
  /\ \A o \in DOMAIN in.flags : in.flags[o] \in Values(o)
  /\ \A v \in DOMAIN in.environ : in.environ[v] \in Values(v[1])
  /\ DOMAIN in.disk = Paths
  /\ \A p \in Paths : in.disk[p] = Bad \/ IsContent(in.disk[p])
  /\ in.broken \subseteq Used

ASSUME ConfigAssumption ==
  /\ {DefaultFile, DefaultKey, DefaultGrpc, DefaultHttp, DefaultHttps} \cup Paths \subseteq Strings
  /\ Blank \notin Strings /\ Bad \notin Texts
  /\ \A set \in Inputs : \A in \in set : IsInput(in)

VARIABLES input,    \* what this start finds; never changes
          stage,    \* where main() is
          conf,     \* the Config struct
          wasSet,   \* AddrWithCheck.WasSet of the two addresses
          defaults, \* defAddr and defGRPCAddr
          renamed,  \* options whose variable has another name
          shared,   \* do both servers use one service?
          wired     \* the key and the subnet each server was given

vars == <<input, stage, conf, wasSet, defaults, renamed, shared, wired>>

Var(o) == <<o, o \in renamed>>
IsSet(o) == Var(o) \in DOMAIN input.environ
Environ(o) == input.environ[Var(o)]

\* CONFIG, by its default name.
ConfigVar == <<"ConfigFilePath", FALSE>>
ConfigSet == ConfigVar \in DOMAIN input.environ

Zero == [o \in Options |-> Blank]
Servers == {"http", "grpc"}

Init ==
  /\ \E set \in Inputs : input \in set
  /\ stage = "flags"
  /\ conf = Zero
  /\ wasSet = [a \in Addresses |-> FALSE]
  /\ defaults = BuiltIn
  /\ renamed = {}
  /\ shared = FALSE
  /\ wired = [s \in Servers |-> [key |-> Blank, subnet |-> Blank]]

\* main() returns or panics, or flag.Parse or log.Fatalf exits.
Stop == stage' = "stopped" /\ UNCHANGED <<conf, wasSet, defaults, renamed>>

-----------------------------------------------------------------------------
Flagged(o) == o \in DOMAIN input.flags

\* With CONFIG in the environment, flags are neither defined nor parsed.
ParseFlags ==
  /\ stage = "flags"
  /\ \/ /\ ConfigSet
        /\ stage' = "names"
        /\ UNCHANGED <<conf, wasSet, defaults, renamed>>
     \/ /\ ~ConfigSet
        /\ \A o \in DOMAIN input.flags : input.flags[o] # Bad
        /\ stage' = "names"
        /\ conf' = [o \in Options |-> IF Flagged(o) THEN input.flags[o] ELSE Blank]
        /\ wasSet' = [a \in Addresses |-> Flagged(a)]
        /\ UNCHANGED <<defaults, renamed>>
     \/ ~ConfigSet /\ (\E o \in DOMAIN input.flags : input.flags[o] = Bad) /\ Stop
  /\ UNCHANGED <<input, shared, wired>>

NamesPath == IF ConfigSet THEN input.environ[ConfigVar] ELSE conf["ConfigFilePath"]

\* The first pass over the file only looks for other names of the variables.
ReadNames ==
  /\ stage = "names"
  /\ \/ /\ NamesPath = Blank
        /\ stage' = "environment"
        /\ UNCHANGED <<conf, wasSet, defaults, renamed>>
     \/ /\ NamesPath # Blank /\ input.disk[NamesPath] # Bad
        /\ stage' = "environment"
        /\ renamed' = input.disk[NamesPath].renames
        /\ UNCHANGED <<conf, wasSet, defaults>>
     \/ NamesPath # Blank /\ input.disk[NamesPath] = Bad /\ Stop
  /\ UNCHANGED <<input, shared, wired>>

\* Mutant: a variable that is set to "" or false does not count.
OverrideNonBlank(o) == IF IsSet(o) /\ Environ(o) # Blank THEN Environ(o) ELSE conf[o]

\* A variable overrides a flag whenever it is set, to "" or false as well.
Override(o) == IF IsSet(o) THEN Environ(o) ELSE conf[o]

\* Mutant: what ParseBool says is not looked at.
ReadEnvironmentLenient ==
  /\ stage = "environment"
  /\ stage' = "file"
  /\ conf' = [o \in Options |-> Override(o)]
  /\ wasSet' = [a \in Addresses |-> wasSet[a] \/ IsSet(a)]
  /\ UNCHANGED <<input, defaults, renamed, shared, wired>>

ReadEnvironment ==
  /\ stage = "environment"
  /\ \/ /\ \A o \in Switches : Override(o) # Bad
        /\ stage' = "file"
        /\ conf' = [o \in Options |-> Override(o)]
        /\ wasSet' = [a \in Addresses |-> wasSet[a] \/ IsSet(a)]
        /\ UNCHANGED <<defaults, renamed>>
     \/ (\E o \in Switches : Override(o) = Bad) /\ Stop
  /\ UNCHANGED <<input, shared, wired>>

-----------------------------------------------------------------------------
\* The second pass takes a value for whatever is still empty or false.
ValueIn(content, o) == IF o \in DOMAIN content.values THEN content.values[o] ELSE Blank
FileHas(o) == ValueIn(input.disk[conf["ConfigFilePath"]], o)

FileAddress(a) == IF conf[a] = Blank THEN FileHas(a) ELSE conf[a]
FileAddressSet(a) == IF conf[a] = Blank THEN FileHas(a) # Blank ELSE wasSet[a]

\* The default path of the storage counts as unset.
FileStorage ==
  IF conf["JSONFile"] \in {DefaultFile, Blank} /\ FileHas("JSONFile") # Blank
  THEN FileHas("JSONFile") ELSE conf["JSONFile"]

FileFills(o) == IF conf[o] = Blank THEN FileHas(o) ELSE conf[o]

FileDefault(d) == IF FileHas(d) # Blank THEN FileHas(d) ELSE defaults[d]

ReadFile ==
  /\ stage = "file"
  /\ \/ /\ conf["ConfigFilePath"] = Blank
        /\ stage' = "defaults"
        /\ UNCHANGED <<conf, wasSet, defaults, renamed>>
     \/ /\ conf["ConfigFilePath"] # Blank /\ input.disk[conf["ConfigFilePath"]] # Bad
        /\ stage' = "defaults"
        /\ conf' = [o \in Options |->
             CASE o \in Addresses       -> FileAddress(o)
               [] o = "JSONFile"        -> FileStorage
               [] o = "ConfigFilePath"  -> conf[o]
               [] OTHER                 -> FileFills(o)]
        /\ wasSet' = [a \in Addresses |-> FileAddressSet(a)]
        /\ defaults' = [d \in Defaults |-> FileDefault(d)]
        /\ UNCHANGED renamed
     \/ conf["ConfigFilePath"] # Blank /\ input.disk[conf["ConfigFilePath"]] = Bad /\ Stop
  /\ UNCHANGED <<input, shared, wired>>

-----------------------------------------------------------------------------
Own(o) == CASE conf[o] = Blank /\ o = "JWTKey"   -> DefaultKey
            [] conf[o] = Blank /\ o = "JSONFile" -> DefaultFile
            [] OTHER                             -> conf[o]

\* Mutant: the gRPC options inherit before the defaults are applied.
InheritedEarly(o) == IF conf[o] = Blank THEN conf[Http(o)] ELSE conf[o]

Inherited(o) == IF conf[o] = Blank THEN Own(Http(o)) ELSE conf[o]

\* Defaults of the HTTP server's options first, then the gRPC options inherit.
ApplyDefaults ==
  /\ stage = "defaults"
  /\ stage' = "database"
  /\ conf' = [o \in Options |-> IF o \in Inheriting THEN Inherited(o) ELSE Own(o)]
  /\ UNCHANGED <<input, wasSet, defaults, renamed, shared, wired>>

\* Mutant: what cannot be used ends the start, whether it is asked for or not.
UsableAlways(o) == o \notin input.broken

Usable(o) == conf[o] = Blank \/ o \notin input.broken

(* NewPG: when the migrations fail it returns nil, and GetPgPtr on that     *)
(* panics.  A database that does not answer does not stop the start.        *)
OpenDatabase ==
  /\ stage = "database"
  /\ \/ Usable("DSN") /\ stage' = "addresses" /\ UNCHANGED <<conf, wasSet, defaults, renamed>>
     \/ ~Usable("DSN") /\ Stop
  /\ UNCHANGED <<input, shared, wired>>

DefAddr ==
  CASE defaults["defAddr"] # Blank                                   -> defaults["defAddr"]
    [] defaults["defAddr"] = Blank /\ conf["HTTPSEnabled"] = Blank -> DefaultHttp
    [] OTHER                                                         -> DefaultHttps

\* Mutant: an address that was not set gets the default, whatever the other is.
AddressAlone(a, b) == IF wasSet[a] THEN conf[a] ELSE DefAddr

\* An address that was not set gets the other's value, or both get the default.
Address(a, b) ==
  CASE wasSet[a]               -> conf[a]
    [] ~wasSet[a] /\ wasSet[b] -> conf[b]
    [] OTHER                   -> DefAddr

ResolveAddresses ==
  /\ stage = "addresses"
  /\ stage' = "services"
  /\ conf' = [conf EXCEPT !["HTTPAddr"]  = Address("HTTPAddr", "ShortAddr"),
                          !["ShortAddr"] = Address("ShortAddr", "HTTPAddr"),
                          !["GRPCAddr"]  = IF @ = Blank THEN defaults["defGRPCAddr"] ELSE @]
  /\ UNCHANGED <<input, wasSet, defaults, renamed, shared, wired>>

SameStores ==
  conf["JSONFile"] = conf["GRPCFileStorage"] /\ conf["DSN"] = conf["GRPCDatabaseDSN"]

(* One service for both servers when they have one file and one database;   *)
(* or else another, with a database that is opened like the first.          *)
MakeServices ==
  /\ stage = "services"
  /\ \/ /\ SameStores \/ Usable("GRPCDatabaseDSN")
        /\ stage' = "wiring"
        /\ shared' = SameStores
        /\ UNCHANGED <<conf, wasSet, defaults, renamed>>
     \/ ~SameStores /\ ~Usable("GRPCDatabaseDSN") /\ Stop /\ UNCHANGED shared
  /\ UNCHANGED <<input, wired>>

CanListen == Usable("GRPCAddr") /\ Usable("GRPCSecureEnabled")

\* Mutant: each server is given its own options.
WireOwn ==
  /\ stage = "wiring" /\ CanListen
  /\ stage' = "serving"
  /\ wired' = [s \in Servers |->
       IF s = "http" THEN [key |-> conf["JWTKey"], subnet |-> conf["TrustedSubnet"]]
       ELSE [key |-> conf["GRPCJWTKey"], subnet |-> conf["GRPCTrustedSubnet"]]]
  /\ UNCHANGED <<input, conf, wasSet, defaults, renamed, shared>>

\* router() and the interceptors: both are given the HTTP server's key and subnet.
Wire ==
  /\ stage = "wiring" /\ CanListen
  /\ stage' = "serving"
  /\ wired' = [s \in Servers |-> [key |-> conf["JWTKey"], subnet |-> conf["TrustedSubnet"]]]
  /\ UNCHANGED <<input, conf, wasSet, defaults, renamed, shared>>

\* net.Listen fails, or the certificate of a secure gRPC server.
FailToListen ==
  /\ stage = "wiring" /\ ~CanListen
  /\ Stop
  /\ UNCHANGED <<input, shared, wired>>

Next ==
  \/ ParseFlags \/ ReadNames \/ ReadEnvironment \/ ReadFile \/ ApplyDefaults
  \/ OpenDatabase \/ ResolveAddresses \/ MakeServices \/ Wire \/ FailToListen

Spec == Init /\ [][Next]_vars

-----------------------------------------------------------------------------
Stages == {"flags", "names", "environment", "file", "defaults", "database", "addresses",
           "services", "wiring", "serving", "stopped"}

(* Every variable holds what its declaration says.                          *)
TypeOK ==
  /\ IsInput(input)
  /\ stage \in Stages
  /\ conf \in [Options -> Texts]
  /\ wasSet \in [Addresses -> BOOLEAN]
  /\ defaults \in [Defaults -> Texts]
  /\ renamed \subseteq Options
  /\ shared \in BOOLEAN
  /\ wired \in [Servers -> [key : Texts, subnet : Texts]]

(* The sources in force: flags only without CONFIG, variables under the     *)
(* names the file of the first pass gives them, values from the file of the *)
(* second pass - which need not be the same file.                           *)
FromFlag(o) == IF ~ConfigSet /\ Flagged(o) THEN input.flags[o] ELSE Blank
First(x, y) == IF x # Blank THEN x ELSE y
Explicit(o) == IF IsSet(o) THEN Environ(o) ELSE FromFlag(o)
FirstPath == IF ConfigSet THEN input.environ[ConfigVar] ELSE FromFlag("ConfigFilePath")
SecondPath == Explicit("ConfigFilePath")
Filed(o) == IF SecondPath = Blank THEN Blank ELSE ValueIn(input.disk[SecondPath], o)

(* Environment over flag over file over default, for every option of the    *)
(* HTTP server, and then the HTTP server's value for a gRPC option without  *)
(* one; a default of the file is over a built-in one: whatever the two      *)
(* passes and all the stages make of it (main.go:315, 422-423, 480-486).    *)
Sourced(o) == First(Explicit(o), Filed(o))
Expected(o) ==
  CASE o = "JWTKey"         -> First(Sourced(o), DefaultKey)
    [] o = "JSONFile"       -> First(IF Explicit(o) = DefaultFile THEN First(Filed(o), DefaultFile)
                                     ELSE Sourced(o), DefaultFile)
    [] o = "GRPCAddr"       -> First(Sourced(o), First(Filed("defGRPCAddr"), DefaultGrpc))
    [] OTHER                -> Sourced(o)
Value(o) == IF o \in Inheriting THEN First(Sourced(o), Expected(Http(o))) ELSE Expected(o)
Precedence ==
  stage = "serving" =>
    \A o \in Options \ (Addresses \cup {"ConfigFilePath"}) : conf[o] = Value(o)

(* Unless a gRPC file or database is asked for somewhere, both servers use  *)
(* one service, and with it one connection pool and one store (main.go:604). *)
OneStoreUnlessAsked ==
  stage = "serving" /\ Sourced("GRPCFileStorage") = Blank /\ Sourced("GRPCDatabaseDSN") = Blank
  => shared

(* The address served and the address short URLs start with: neither is     *)
(* empty unless a variable or a flag says so explicitly, they are the same  *)
(* unless two different ones are asked for, and the default of the protocol *)
(* or of the file only if none is (main.go:555-573).                        *)
Blanked(a) == (IsSet(a) \/ (~ConfigSet /\ Flagged(a))) /\ Explicit(a) = Blank
Fallback == First(Filed("defAddr"), IF Value("HTTPSEnabled") = Blank THEN DefaultHttp ELSE DefaultHttps)
LinksReachTheServer ==
  stage = "serving" /\ (\A a \in Addresses : ~Blanked(a)) =>
    /\ \A a \in Addresses : conf[a] # Blank
    /\ conf["HTTPAddr"] # conf["ShortAddr"] => \A a \in Addresses : Sourced(a) # Blank
    /\ \A a \in Addresses : conf[a] \in {Sourced("HTTPAddr"), Sourced("ShortAddr"), Fallback}
    /\ (\A a \in Addresses : Sourced(a) = Blank) => \A a \in Addresses : conf[a] = Fallback

(* A start that meets a source it cannot read does not serve with what it   *)
(* has (the returns at main.go:198-219, 297-311 and 398-420); nor does one  *)
(* that needs a database, an address or a certificate it cannot use (547,   *)
(* 614, 655-666); and no other start is given up, whatever is broken that   *)
(* the values of its options do not make it use.                            *)
Readable ==
  /\ ~ConfigSet => \A o \in DOMAIN input.flags : input.flags[o] # Bad
  /\ \A o \in Switches : IsSet(o) => Environ(o) # Bad
  /\ \A p \in {FirstPath, SecondPath} : p # Blank => input.disk[p] # Bad
OneStore == /\ Value("GRPCFileStorage") = Value("JSONFile")
            /\ Value("GRPCDatabaseDSN") = Value("DSN")
Able ==
  \A o \in input.broken : Value(o) = Blank \/ (o = "GRPCDatabaseDSN" /\ OneStore)
ServesIffAble ==
  /\ stage = "serving" => Readable /\ Able
  /\ stage = "stopped" => ~(Readable /\ Able)

=============================================================================
