-------------------------------- MODULE Api --------------------------------
(***************************************************************************)
(* The way of a request from a page to the node and back: fetch in the     *)
(* browser (lib/voidchain/client.ts), the route handler of the web server  *)
(* (app/api/voidchain/[...path]/route.ts) and its own fetch of the node    *)
(* (lib/voidchain/server.ts).  A response is a status and a body; a body   *)
(* is NoBody when empty, and Nothing stands for the value {} it becomes.   *)
(***************************************************************************)
EXTENDS Integers

CONSTANTS
  NoBody,    \* the empty text
  Nothing    \* {}

Response(status, body) == [status |-> status, body |-> body]

\* fetch throws: there is no connection, or it is lost.
Unreachable == Response(0, NoBody)

IsOk(r) == r.status \in 200..299

Value(body) == IF body = NoBody THEN Nothing ELSE body

\* What a promise comes to.
Resolved(v) == [how |-> "resolved", status |-> 200, value |-> v]
ApiError(r) == [how |-> "ApiError", status |-> r.status, value |-> r.body]
Thrown == [how |-> "thrown", status |-> 0, value |-> Nothing]

AllowedGet ==
  {"health", "blocks", "headers", "proof", "state", "balance", "owner",
   "assets", "transactions", "wallet/info", "pool"}

AllowedPost ==
  {"wallet/generate", "wallet/recover", "transact", "transact/signed", "mine"}

Allow(request) ==
  \/ request.method = "GET" /\ request.path \in AllowedGet
  \/ request.method = "POST" /\ request.path \in AllowedPost

\* Mutant: the status of the node's answer is not looked at.
TrustingServerRequest(r) ==
  IF r = Unreachable THEN Thrown ELSE Resolved(Value(r.body))

\* voidchainServerRequest: the node's response r, as a value or an exception.
VoidchainServerRequest(r) ==
  IF r = Unreachable THEN Thrown
  ELSE IF ~IsOk(r) THEN ApiError(r)
  ELSE Resolved(Value(r.body))

\* proxyRequest: the node's refusals keep their status, an exception of any
\* other kind is the proxy's own error, and a success is always 200.
ProxyRequest(request, r) ==
  LET payload == VoidchainServerRequest(r)
  IN  IF ~Allow(request) THEN Response(404, NoBody)
      ELSE CASE payload.how = "resolved" -> Response(200, payload.value)
             [] payload.how = "ApiError" -> Response(payload.status, payload.value)
             [] OTHER -> Response(500, NoBody)

\* parseResponse.
ParseResponse(r) == IF IsOk(r) THEN Resolved(Value(r.body)) ELSE Thrown

\* apiRequest: r is the node's response to the request.
ApiRequest(request, r) == ParseResponse(ProxyRequest(request, r))
=============================================================================
