------------------------------ MODULE OpenApi -------------------------------
(***************************************************************************)
(* localpost/openapi: what an operation does with a request and what its   *)
(* document says about it, in both flavours (openapi/ and openapi/aio/).   *)
(* Pure operators: HttpApp registers, routes and sends.                    *)
(*                                                                         *)
(* A parameter is [name, via, bound, type, default, nullable, variadic]:   *)
(* via and bound are the factory of its annotation and the name given to   *)
(* it, or "auto" and "None".  A return annotation is a set of members      *)
(* [kind, status], empty when there is none.  A query is a function from   *)
(* names to sequences of values, a body one of "empty", "json", "text",    *)
(* "binary".  A result is [status, body, size, headers]; body is "none",   *)
(* "text", "octets", "json" or "events".                                   *)
(***************************************************************************)
EXTENDS Router

-----------------------------------------------------------------------------
(* From a signature to resolver factories *)

\* is_body_type: a union with None is no class.
IsBodyType(p) == p.type = "struct" /\ ~p.nullable

PickFactory(p, vars) ==
  CASE p.via # "auto" ->
         [from |-> p.via, name |-> IF p.bound = "None" THEN p.name ELSE p.bound]
    [] p.via = "auto" /\ p.name \in vars -> [from |-> "path", name |-> p.name]
    [] p.via = "auto" /\ p.name \notin vars /\ p.type = "ctx" -> [from |-> "ctx", name |-> p.name]
    [] p.via = "auto" /\ p.name \notin vars /\ IsBodyType(p) -> [from |-> "body", name |-> p.name]
    [] OTHER -> [from |-> "query", name |-> p.name]

Factories(fn, vars) == [i \in DOMAIN fn.params |-> PickFactory(fn.params[i], vars)]

\* build_arg_resolvers and the checks of Operation.create: the path variables
\* and the FromPath parameters name each other.
Creatable(fn, template) ==
  LET vars  == {template[i].name : i \in VariablesOf(template)}
      bound == {Factories(fn, vars)[i].name : i \in {j \in DOMAIN fn.params :
                                                       Factories(fn, vars)[j].from = "path"}}
  IN  /\ \A i \in DOMAIN fn.params : ~fn.params[i].variadic
      /\ bound = vars

\* The asynchronous application takes coroutine functions only, and its
\* middlewares have to be asynchronous too.
AsyncCreatable(fn, template) == fn.isAsync /\ Creatable(fn, template)
EnsureAsyncMiddlewares(middlewares) == \A i \in DOMAIN middlewares : middlewares[i].isAsync

Optional(p) == p.default \/ p.nullable

-----------------------------------------------------------------------------
(* The resolvers.  Values are "1", which every scalar type accepts, and     *)
(* "word", which is no number.                                             *)

CastStr(value, type) == type \in {"str", "bytes"} \/ (type = "int" /\ value = "1")

ResolvePath(p, f, args) == f.name \in DOMAIN args /\ CastStr(args[f.name], p.type)

ResolveQuery(p, f, query) ==
  IF f.name \in DOMAIN query /\ query[f.name] # <<>>
  THEN IF p.type = "ints" THEN \A i \in DOMAIN query[f.name] : CastStr(query[f.name][i], "int")
       ELSE CastStr(query[f.name][1], p.type)
  ELSE Optional(p)

ResolveHeader(p, f, headers) ==
  IF f.name \in DOMAIN headers THEN CastStr(headers[f.name], p.type) ELSE Optional(p)

\* _bytes_passthrough, _str_decode and _adapter_decode.
ResolveBody(p, body) ==
  CASE p.type = "bytes" -> TRUE
    [] p.type = "str" -> body # "binary"
    [] OTHER -> body = "json"

\* Every resolver in turn; one that fails ends the call with a BadRequest.
\* The body is what was read of it so far.
ResolveAll(fn, factories, request, args, body) ==
  \A i \in DOMAIN fn.params :
     LET p == fn.params[i]  f == factories[i]
     IN  CASE f.from = "ctx" -> TRUE
           [] f.from = "path" -> ResolvePath(p, f, args)
           [] f.from = "query" -> ResolveQuery(p, f, request.query)
           [] f.from = "header" -> ResolveHeader(p, f, request.headers)
           [] f.from = "body" -> ResolveBody(p, body)

-----------------------------------------------------------------------------
(* Return annotations *)

Stream == [kind |-> "stream", status |-> 200]
Plain  == [kind |-> "plain", status |-> 200]
NoneType == [kind |-> "none", status |-> 0]
Result(status) == [kind |-> "result", status |-> status]

\* extract_response_shapes: the documented codes, and null_is_not_found.
ExtractResponseShapes(returns) ==
  LET typed == returns \ {NoneType}
      codes == {m.status : m \in typed}
      hasSuccess == \E m \in typed : m.kind # "result" \/ m.status < 400
      null == NoneType \in returns /\ hasSuccess /\ 404 \notin codes
  IN  [codes |-> IF null THEN codes \cup {404} ELSE IF codes = {} THEN {200} ELSE codes,
       nullIsNotFound |-> null]

-----------------------------------------------------------------------------
(* The document.  A function contributes its parameters and its codes.      *)

UpdateDoc(fn, factories) ==
  LET documented == {i \in DOMAIN fn.params : factories[i].from \in {"path", "query", "header"}}
  IN  {[name |-> factories[i].name, location |-> factories[i].from,
        required |-> factories[i].from = "path" \/ ~Optional(fn.params[i]),
        schema |-> fn.params[i].type] : i \in documented}

\* The request body is required unless its parameter has a default: "no"
\* stands for no body at all, and a later contribution replaces an earlier one.
BodyDoc(fn, factories) ==
  LET bodies == {i \in DOMAIN fn.params : factories[i].from = "body"}
      last == CHOOSE i \in bodies : \A j \in bodies : j <= i
  IN  IF bodies = {} THEN "no" ELSE IF fn.params[last].default THEN "optional" ELSE "required"

ContributeParameters(doc, mw) ==
  [doc EXCEPT !.parameters = @ \cup UpdateDoc(mw, Factories(mw, {}))]

AddSecurityRequirement(security, mw) ==
  IF mw.does = "authenticate" THEN security \cup {mw.scheme} ELSE security

\* _FunctionMiddleware.contribute_operation, and an authentication's own.
ContributeOperation(doc, mw) ==
  LET factories == Factories(mw, {})
      body == BodyDoc(mw, factories)
  IN  [parameters |-> doc.parameters \cup UpdateDoc(mw, factories),
       body |-> IF body = "no" THEN doc.body ELSE body,
       codes |-> doc.codes \cup ExtractResponseShapes(mw.returns).codes,
       security |-> AddSecurityRequirement(doc.security, mw)]

\* Operation.build_spec, middlewares outermost first.
BuildSpec(fn, template, middlewares) ==
  LET factories == Factories(fn, {template[i].name : i \in VariablesOf(template)})
      own == [parameters |-> UpdateDoc(fn, factories), body |-> BodyDoc(fn, factories),
              codes |-> ExtractResponseShapes(fn.returns).codes, security |-> {}]
      doc[n \in 0..Len(middlewares)] ==
        IF n = 0 THEN own ELSE ContributeOperation(doc[n - 1], middlewares[n])
  IN  doc[Len(middlewares)]

-----------------------------------------------------------------------------
(* Running an operation *)

Answer(status, body, size, headers) ==
  [status |-> status, body |-> body, size |-> size, headers |-> headers]

BadRequest == Answer(400, "text", 5, <<>>)
Failure == [status |-> 500, body |-> "raised"]

\* What the target's return value becomes: an OpResult as it is, an iterator
\* an EventStreamResult, None a NotFound where the annotation says so,
\* everything else Ok.
Normalised(value, shapes) ==
  CASE value.type = "result" -> value.result
    [] value.type = "raise" -> Failure
    [] value.type \in {"iterator", "sync iterator"} -> Answer(200, "events", value.chunks, <<>>)
    [] value.type = "none" -> Answer(IF shapes.nullIsNotFound THEN 404 ELSE 200, "none", 0, <<>>)
    [] OTHER -> Answer(200, value.type, value.size, <<>>)

\* The asynchronous operation refuses an iterator that would block its loop.
AsyncNormalised(value, shapes) ==
  IF value.type = "sync iterator" THEN Failure ELSE Normalised(value, shapes)

\* _run_core: the body is read only here, for the operation's own parameters.
RunCore(fn, template, request, flavour) ==
  LET factories == Factories(fn, {template[i].name : i \in VariablesOf(template)})
      needsBody == \E i \in DOMAIN factories : factories[i].from = "body"
      body == IF needsBody THEN request.body ELSE "empty"
  IN  IF ResolveAll(fn, factories, request, PathArgs(template, request.path), body)
      THEN IF flavour = "async" THEN AsyncNormalised(fn.value, ExtractResponseShapes(fn.returns))
           ELSE Normalised(fn.value, ExtractResponseShapes(fn.returns))
      ELSE BadRequest

\* HttpBearerAuth and HttpBasicAuth: a header that is missing, malformed or
\* not accepted by the validator is refused, the latter with a challenge.
Authenticated(mw, headers) == "authorization" \in DOMAIN headers /\ headers["authorization"] \in mw.accepts

Unauthorized(mw) ==
  Answer(401, "text", 4, IF mw.scheme = "basicAuth" THEN "www-authenticate" :> "basic" ELSE <<>>)

\* A middleware around the rest of the chain: it resolves its own parameters,
\* then answers itself or calls the rest.
WrapMiddleware(mw, rest, args, request) ==
  IF ~ResolveAll(mw, Factories(mw, {}), request, args, "empty")
  THEN BadRequest
  ELSE CASE mw.does = "authenticate" ->
              IF Authenticated(mw, request.headers) THEN rest ELSE Unauthorized(mw)
         [] mw.does = "answer" -> mw.result
         [] mw.does = "call next" -> rest
         [] mw.does = "return something else" -> Failure

\* The chain is built from the operation outwards; the first middleware is outermost.
Run(fn, template, middlewares, request, flavour) ==
  LET chain[n \in 0..Len(middlewares)] ==
        IF n = 0 THEN RunCore(fn, template, request, flavour)
        ELSE WrapMiddleware(middlewares[Len(middlewares) + 1 - n], chain[n - 1],
                            PathArgs(template, request.path), request)
  IN  chain[Len(middlewares)]

\* build_http_response: the result's own headers win.
BuildHttpResponse(result) ==
  LET type == CASE result.body = "text" -> "text/plain"
                [] result.body = "octets" -> "application/octet-stream"
                [] OTHER -> "application/json"
      typed == IF result.size > 0 THEN result.headers @@ ("content-type" :> type) ELSE result.headers
  IN  [status |-> result.status, headers |-> typed @@ ("content-length" :> result.size)]

\* _stream_sse: the framework's headers win.
StreamSse(result) ==
  [status |-> result.status,
   headers |-> ("content-type" :> "text/event-stream") @@ ("cache-control" :> {"no-cache"})
                 @@ result.headers]
=============================================================================
