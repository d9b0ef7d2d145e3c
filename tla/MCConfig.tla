------------------------------ MODULE MCConfig ------------------------------
EXTENDS Config, TLC

CONSTANTS fromFlag, fromVar, fromFile, fileDefault, path1, path2

Empty == << >>

(* Options are varied two by two: those that meet in main().                *)
Pairs == {<<"JSONFile", "GRPCFileStorage">>, <<"GRPCDatabaseDSN", "DSN">>,
          <<"TrustedSubnet", "GRPCTrustedSubnet">>, <<"JWTKey", "GRPCJWTKey">>,
          <<"HTTPAddr", "ShortAddr">>, <<"HTTPSEnabled", "HTTPAddr">>,
          <<"HTTPSEnabled", "GRPCSecureEnabled">>, <<"GRPCAddr", "ShortAddr">>}

Flag(o) ==
  {Empty, o :> fromFlag} \cup (IF o \in Switches THEN {o :> Bad} ELSE {})
                         \cup (IF o = "JSONFile" THEN {o :> DefaultFile} ELSE {})

\* A variable is unset, or set under one of its two names.
Variable(o) ==
  {Empty} \cup {<<o, b>> :> x : b \in BOOLEAN,
                x \in {Blank, fromVar} \cup (IF o \in Switches THEN {Bad} ELSE {})}

InFile(o) == {Empty, o :> fromFile}

(* How the file is named: not at all, by -c, by CONFIG (to no avail, or to  *)
(* some), by -c with another file under CONFIG's other name, by both.       *)
Ways == {[flag |-> Empty, var |-> Empty],
         [flag |-> "ConfigFilePath" :> path1, var |-> Empty],
         [flag |-> Empty, var |-> ConfigVar :> Blank],
         [flag |-> Empty, var |-> ConfigVar :> path1],
         [flag |-> "ConfigFilePath" :> path1, var |-> <<"ConfigFilePath", TRUE>> :> path2],
         [flag |-> "ConfigFilePath" :> path2, var |-> ConfigVar :> path1]}

(* The default that matters for a pair: the file gives it, or not.          *)
DefaultOf(a, b) ==
  {Empty} \cup (IF a = "GRPCAddr" THEN {"defGRPCAddr" :> fileDefault} ELSE {})
          \cup (IF b \in Addresses THEN {"defAddr" :> fileDefault} ELSE {})

InputsOf(a, b, way) ==
  [flags   : {way.flag @@ fa @@ fb : fa \in Flag(a), fb \in Flag(b)},
   environ : {way.var @@ va @@ vb : va \in Variable(a), vb \in {Empty, <<b, FALSE>> :> fromVar}},
   disk    : {path1 :> c @@ path2 :> [values |-> x, renames |-> {}] : x \in InFile(b),
              c \in {Bad} \cup {[values |-> ca @@ cb @@ cd, renames |-> renames] :
                      ca \in InFile(a), cb \in InFile(b), cd \in DefaultOf(a, b),
                      renames \in {{}, {a, "ConfigFilePath"}}}},
   broken  : {{}} \cup {{o} : o \in {a, b} \cap Used}]

MCInputs == {InputsOf(p[1], p[2], way) : p \in Pairs, way \in Ways}
=============================================================================
