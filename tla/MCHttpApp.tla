------------------------------ MODULE MCHttpApp ------------------------------
(* Values for the model checker. *)
EXTENDS HttpApp

MCMethods == {"GET", "POST"}
MCAlgorithms == <<"br", "gzip">>
MCTypes == {"text/plain", "application/json", "text/event-stream", "text/css"}

MCMounts == [app : {"routes"}, flavour : {"sync"}, backend : {"h11", "httptools"}, compressed : {TRUE}]
              \cup [app : {"static"}, flavour : {"sync"}, backend : {"h11"}, compressed : {TRUE}]
              \cup [app : {"openapi"}, flavour : {"sync"}, backend : {"h11"}, compressed : {FALSE}]
              \cup [app : {"openapi"}, flavour : {"async"}, backend : {"asgi"}, compressed : {FALSE}]

Sealed == [status |-> 200, headers |-> ("content-type" :> "text/plain") @@
             ("content-length" :> 3) @@ ("content-encoding" :> "gzip")]
Varying == [status |-> 200, headers |-> ("content-type" :> "application/json") @@
             ("content-length" :> 3) @@ ("vary" :> {"origin"})]
Fixed == [status |-> 200, headers |-> ("content-type" :> "text/plain") @@
             ("content-length" :> 3) @@ ("cache-control" :> {"no-transform"})]
Events == [status |-> 200, headers |-> "content-type" :> "text/event-stream"]

Function(params, value) == [params |-> params, does |-> "return", value |-> value]

RouteHandlers ==
  ("short" :> Function({}, [type |-> "str", size |-> 1])) @@
  ("item" :> Function({"id"}, [type |-> "json", size |-> 3])) @@
  ("none" :> Function({"ctx"}, [type |-> "none"])) @@
  ("sealed" :> Function({}, [type |-> "pair", response |-> Sealed, size |-> 3])) @@
  ("varying" :> Function({}, [type |-> "pair", response |-> Varying, size |-> 3])) @@
  ("fixed" :> Function({}, [type |-> "pair", response |-> Fixed, size |-> 3])) @@
  ("broken" :> [params |-> {}, does |-> "raise"]) @@
  ("events" :> [params |-> {"ctx"}, does |-> "stream", response |-> Events, chunks |-> <<1, 0, 2>>])

Route(m, t, h) == [app |-> "routes", method |-> m, template |-> t, handler |-> h, middlewares |-> <<>>]
A == <<Literal("a")>>
Var1 == <<Variable("id")>>
Var1B == <<Variable("id"), Literal("b")>>
AVar1 == <<Literal("a"), Variable("id")>>

RouteRegistrable ==
  { Route("GET", A, "short"), Route("GET", A, "sealed"), Route("POST", A, "none"),
    Route("GET", Var1, "item"), Route("POST", Var1, "broken"),
    Route("GET", A, "item"), Route("GET", Var1B \o Var1, "item"),
    Route("GET", Var1B, "varying"), Route("GET", AVar1, "events"), Route("POST", Var1B, "fixed") }

Ask(m, p) == [app |-> "routes", method |-> m, path |-> p, headers |-> <<>>]
Get(m, n, h) == [app |-> "static", method |-> m, name |-> n, headers |-> h]
Range(f, l) == "range" :> [unit |-> "bytes", form |-> "span", first |-> f, last |-> l]

\* An openapi application behind a bearer token.
Param(n, t) == [name |-> n, via |-> "auto", bound |-> "None", type |-> t,
                default |-> FALSE, nullable |-> FALSE, variadic |-> FALSE]
Operation(params, returns, value) ==
  [params |-> params, returns |-> returns, value |-> value, isAsync |-> TRUE]

OperationHandlers ==
  ("read" :> Operation(<<Param("id", "int"), [Param("q", "ints") EXCEPT !.default = TRUE]>>,
                       {Plain, NoneType}, [type |-> "json", size |-> 3])) @@
  ("miss" :> Operation(<<Param("ctx", "ctx"), [Param("key", "str") EXCEPT !.via = "path", !.bound = "id"]>>,
                       {Plain, NoneType}, [type |-> "none"])) @@
  ("create" :> Operation(<<Param("book", "struct")>>, {Result(201), Result(409)},
                         [type |-> "result", result |-> Answer(201, "json", 3, "content-type" :> "text/css")])) @@
  ("feed" :> Operation(<<[Param("since", "int") EXCEPT !.nullable = TRUE]>>, {Stream},
                       [type |-> "iterator", chunks |-> <<1, 1>>])) @@
  ("tick" :> Operation(<<>>, {}, [type |-> "sync iterator", chunks |-> <<2>>])) @@
  ("plain" :> [Operation(<<>>, {NoneType}, [type |-> "none"]) EXCEPT !.isAsync = FALSE]) @@
  ("crash" :> Operation(<<>>, {Plain}, [type |-> "raise"])) @@
  ("loose" :> Operation(<<[Param("args", "str") EXCEPT !.variadic = TRUE]>>, {Plain}, [type |-> "raise"]))

Middleware(params, codes, does) ==
  [params |-> params, returns |-> {Result(c) : c \in codes}, does |-> does, isAsync |-> TRUE]

Bearer == [scheme |-> "bearerAuth", accepts |-> {"good"}] @@
  Middleware(<<[Param("authorization", "str") EXCEPT !.via = "header", !.default = TRUE]>>,
             {401, 200}, "authenticate")
Basic == [Bearer EXCEPT !.scheme = "basicAuth"]
Keyed == Middleware(<<Param("key", "str")>>, {429, 200}, "call next")
Busy == [result |-> Answer(429, "none", 0, <<>>)] @@ Middleware(<<>>, {429, 200}, "answer")
Wrong == Middleware(<<>>, {200}, "return something else")

Op(m, t, h, mws) == [app |-> "openapi", method |-> m, template |-> t, handler |-> h, middlewares |-> mws]
OperationRegistrable ==
  { Op("GET", Var1, "read", <<>>), Op("GET", Var1, "miss", <<Keyed>>), Op("POST", A, "create", <<Keyed>>),
    Op("GET", A, "feed", <<>>), Op("GET", A, "tick", <<Busy>>), Op("POST", A, "plain", <<Basic>>),
    Op("POST", A, "crash", <<Wrong>>), Op("GET", A, "tick", <<>>), Op("GET", A, "loose", <<>>),
    Op("GET", <<Literal("docs")>>, "tick", <<>>), Op("GET", Var1, "crash", <<[Wrong EXCEPT !.isAsync = FALSE]>>) }

MCAppMiddlewares == <<Bearer>>
Docs == <<Literal("docs")>>
MCBuiltIns == <<Op("GET", Docs, "built-in", <<>>)>>
MCHandlers == RouteHandlers @@ OperationHandlers
MCRegistrable == RouteRegistrable \cup OperationRegistrable

Call(m, p, q, b, h) ==
  [app |-> "openapi", method |-> m, path |-> p, query |-> q, body |-> b, headers |-> h]
Key == "key" :> <<"word">>
Tokens == {<<>>, "authorization" :> "good", "authorization" :> "bad"}
OperationRequests ==
  {Call("GET", p, q, "empty", h) : p \in {<<"1">>, <<"a">>},
       q \in {<<>>, "q" :> <<"1", "word">>, "since" :> <<"word">>, Key}, h \in Tokens}
    \cup {Call("POST", <<"a">>, q, b, h) : q \in {<<>>, Key}, b \in {"empty", "json", "text"}, h \in Tokens}
    \cup {Call(m, <<"docs">>, <<>>, "empty", <<>>) : m \in {"GET", "POST"}}

MCRequests ==
  OperationRequests \cup
  {Ask(m, p) : m \in {"GET", "POST", "HEAD"}, p \in {<<"a">>, <<"a", "b">>, <<"a", "">>}}
    \cup {Get("GET", "file", Range(f, l)) : f \in {Empty, Junk, 0, 1, 3}, l \in {Empty, Junk, 0, 1, 2, 5}}
    \cup {Get("GET", n, <<>>) : n \in {"file", "sub", "gone", "dotdot"}}
    \cup {Get("GET", "file", "range" :> [unit |-> "bytes", form |-> "list", first |-> 0, last |-> 1]),
          Get("HEAD", "file", <<>>), Get("HEAD", "gone", <<>>), Get("POST", "file", <<>>)}

MCTree == ("file" :> "file") @@ ("sub" :> "directory") @@ ("fifo" :> "other")

Token(n, q) == [name |-> n, q |-> q]
MCAccepts == { <<>>, <<Token("gzip", "absent"), Token("br", "zero")>>,
               <<Token("br", "absent"), Token("*", "half"), Token("br", "malformed")>>,
               <<Token("deflate", "absent")>> }

\* The functions above answer as they are annotated.
ASSUME Honest == FunctionsAsDocumented
=============================================================================
