------------------------------ MODULE Gateway ------------------------------
(***************************************************************************)
(* What stands between a request and its handler, on either server: the    *)
(* gzip middleware and the content types the handlers insist on, the jwt   *)
(* in a cookie or in metadata, the trusted subnet, request validation.     *)
(* Constant operators only; Service says in which order each server runs   *)
(* them.                                                                   *)
(***************************************************************************)
EXTENDS Storage

CONSTANTS JwtKeys,  \* keys tokens are signed with
          NoSubnet, \* no trusted subnet is configured
          Subnets,  \* trusted subnets that parse
          Hosts,    \* addresses of requests
          InSubnet, \* <<host, subnet>>: is the host in it?
          NotAnIP   \* an address, or an X-Real-IP, that does not parse

ASSUME GatewayAssumption ==
  /\ None \notin [key : JwtKeys, id : Users]
  /\ InSubnet \subseteq Hosts \X Subnets
  /\ NotAnIP \notin Hosts /\ NoSubnet \notin Subnets

(* A token is signed with a key and carries an id; None is no cookie, no    *)
(* metadata.                                                                *)
Token == [key : JwtKeys, id : Users]
Jar == Token \cup {None}

\* GetUserID: the signature is checked with the server's key.
ValidFor(key, token) == token # None /\ token.key = key

(* Authorize: the id of the token, or a new one, and what the client holds  *)
(* afterwards.  BuildJWTString draws an id; nobody keeps track of those     *)
(* in use.                                                                  *)
BuildJWT(key) == {[key |-> key, id |-> u] : u \in Users}
Identified(token, known) == [id |-> token.id, new |-> ~known, jar |-> token]

\* Mutant: the new token is not sent to the client.
HttpAuthorizeUnsent(key, token) ==
  IF ValidFor(key, token) THEN {Identified(token, TRUE)}
  ELSE {[Identified(t, FALSE) EXCEPT !.jar = token] : t \in BuildJWT(key)}

HttpAuthorize(key, token) ==
  IF ValidFor(key, token) THEN {Identified(token, TRUE)}
  ELSE {Identified(t, FALSE) : t \in BuildJWT(key)}

\* The interceptor sends a known token back as well, which changes nothing.
GrpcAuthorize(key, token) ==
  IF ValidFor(key, token) THEN {Identified(token, TRUE)}
  ELSE {Identified(t, FALSE) : t \in BuildJWT(key)}

-----------------------------------------------------------------------------
(* CheckCIDR: a subnet that is configured and not among Subnets does not    *)
(* parse.  HTTP looks at X-Real-IP, gRPC at the peer.      *)
CheckCIDR(subnet, host) ==
  CASE subnet = NoSubnet                             -> "forbidden"
    [] subnet # NoSubnet /\ subnet \notin Subnets    -> "error"
    [] subnet \in Subnets /\ host \notin Hosts   -> "error"
    [] OTHER -> IF <<host, subnet>> \in InSubnet THEN "pass" ELSE "forbidden"

-----------------------------------------------------------------------------
(* A body is sent with a content type, and compressed or not.               *)
Plain == "text/plain"
Json  == "application/json"
Types == {Plain, Json, "text/html", "application/x-gzip"}
Body  == [type : Types, gzip : BOOLEAN]
Endpoints == {"/", "/api/shorten", "/api/shorten/batch", "/api/user/urls"}

\* GzipHandle looks at the bodies of some types only ...
Unpacks(body) == body.type # Plain /\ body.gzip

\* ... and what it has unpacked gets a type by the path.
Unpacked(endpoint, body) ==
  CASE ~Unpacks(body)                                -> body
    [] Unpacks(body) /\ endpoint = "/api/shorten"    -> [type |-> Json, gzip |-> FALSE]
    [] OTHER                                         -> [type |-> Plain, gzip |-> FALSE]

\* "refused", or whether the handler reads the text the client meant.
Reading(body, wanted) ==
  CASE body.type # wanted -> "refused"
    [] body.type = wanted -> IF body.gzip THEN "garbled" ELSE "read"

Wants(endpoint) == IF endpoint = "/" THEN Plain ELSE Json
Received(endpoint, body) == Reading(Unpacked(endpoint, body), Wants(endpoint))

-----------------------------------------------------------------------------
(* ValidateRequest with the rules generated from the proto: no empty        *)
(* strings, no empty lists.                                                 *)
ValidOriginal(o)  == o # BlankURL
ValidShort(s)     == s # BlankShort
ValidBatch(os)    == Len(os) > 0 /\ \A i \in DOMAIN os : ValidOriginal(os[i])
ValidDeletion(ss) == Len(ss) > 0 /\ \A i \in DOMAIN ss : ValidShort(ss[i])
=============================================================================
