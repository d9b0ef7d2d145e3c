----------------------------- MODULE MCService -----------------------------
EXTENDS Service, TLC

CONSTANTS c1, c2, s1, s2, s3, u1, u2, o1, db1, db2, key1, key2, net, inside, outside

Symmetric == Permutations(Shorts)

Given(env) == [flags |-> << >>, environ |-> env, disk |-> << >>, broken |-> {}]
Env(o, x) == <<o, FALSE>> :> x

(* One database, with a trusted subnet; or another key, and a database and  *)
(* a key of its own for gRPC.                                               *)
Starts == {{Given(Env("DSN", db1) @@ Env("TrustedSubnet", net)),
            Given(Env("DSN", db1) @@ Env("JWTKey", key1)
                  @@ Env("GRPCDatabaseDSN", db2) @@ Env("GRPCJWTKey", key2))}}

Within == {<<inside, net>>}

Sent == {[type |-> Plain, gzip |-> FALSE], [type |-> Json, gzip |-> FALSE],
         [type |-> Plain, gzip |-> TRUE], [type |-> "application/x-gzip", gzip |-> TRUE]}
=============================================================================
