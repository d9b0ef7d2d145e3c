--------------------------- MODULE GatewayProofs ---------------------------
(***************************************************************************)
(* What the chains in front of the handlers guarantee, whatever the keys,  *)
(* ids, bodies and endpoints.                                              *)
(***************************************************************************)
EXTENDS Gateway, TLAPS

(* Whoever gets through authorization, on either server, leaves with a      *)
(* token of this key, which carries the id the handler sees; a valid token  *)
(* is never replaced (middleware/jwt.go:68-111, interceptor/jwt.go:71-125). *)
THEOREM AuthorizedHoldsToken ==
  ASSUME NEW key \in JwtKeys, NEW token \in Jar,
         NEW a \in HttpAuthorize(key, token) \cup GrpcAuthorize(key, token)
  PROVE  /\ a.jar \in Token /\ ValidFor(key, a.jar)
         /\ a.id \in Users /\ a.id = a.jar.id /\ a.new \in BOOLEAN
         /\ ~a.new <=> ValidFor(key, token)
         /\ ~a.new => a.jar = token
<1>1. CASE ValidFor(key, token)
  <2>1. a = Identified(token, TRUE)
    BY <1>1 DEF HttpAuthorize, GrpcAuthorize
  <2>2. a.jar = token /\ a.id = token.id /\ a.new = FALSE
    BY <2>1 DEF Identified
  <2>3. token \in Token
    BY <1>1 DEF ValidFor, Jar
  <2> QED BY <1>1, <2>2, <2>3 DEF Token
<1>2. CASE ~ValidFor(key, token)
  <2>1. PICK t \in BuildJWT(key) : a = Identified(t, FALSE)
    BY <1>2 DEF HttpAuthorize, GrpcAuthorize
  <2>2. a.jar = t /\ a.id = t.id /\ a.new = TRUE
    BY <2>1 DEF Identified
  <2>3. t \in Token /\ t.key = key /\ t # None
    BY <2>1, GatewayAssumption DEF BuildJWT, Token
  <2> QED BY <1>2, <2>2, <2>3 DEF Token, ValidFor
<1> QED BY <1>1, <1>2

(* JSON is never read compressed: a compressed body is refused, or decoded  *)
(* first.  Only POST /, which takes text/plain, can store what the client   *)
(* did not mean (middleware/gz.go:22).                                      *)
THEOREM JsonIsDecoded ==
  ASSUME NEW e \in Endpoints \ {"/"}, NEW body \in Body
  PROVE  Received(e, body) # "garbled"
<1>1. Wants(e) = Json /\ Json # Plain
  BY DEF Wants, Json, Plain, Endpoints
<1>2. CASE body.type = Plain
  BY <1>1, <1>2 DEF Received, Unpacked, Unpacks, Reading
<1>3. CASE body.type # Plain /\ ~body.gzip
  BY <1>1, <1>3 DEF Received, Unpacked, Unpacks, Reading
<1>4. CASE body.type # Plain /\ body.gzip
  <2>1. CASE e = "/api/shorten"
    BY <1>1, <1>4, <2>1 DEF Received, Unpacked, Unpacks, Reading
  <2>2. CASE e # "/api/shorten"
    BY <1>1, <1>4, <2>2 DEF Received, Unpacked, Unpacks, Reading
  <2> QED BY <2>1, <2>2
<1> QED BY <1>2, <1>3, <1>4

(* The two other JSON endpoints take no compressed body at all, because the *)
(* middleware relabels what it has decoded as text (middleware/gz.go:37-41). *)
THEOREM CompressedListsAreRefused ==
  ASSUME NEW e \in {"/api/shorten/batch", "/api/user/urls"}, NEW body \in Body, body.gzip
  PROVE  Received(e, body) = "refused"
<1>1. Wants(e) = Json /\ Json # Plain /\ e # "/api/shorten"
  BY DEF Wants, Json, Plain
<1>2. CASE body.type = Plain
  BY <1>1, <1>2 DEF Received, Unpacked, Unpacks, Reading
<1>3. CASE body.type # Plain
  BY <1>1, <1>3 DEF Received, Unpacked, Unpacks, Reading
<1> QED BY <1>2, <1>3
=============================================================================
