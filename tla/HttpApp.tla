------------------------------ MODULE HttpApp -------------------------------
(***************************************************************************)
(* One application behind one keep-alive client: routes are registered     *)
(* (localpost/http/app.py, or localpost/openapi in one of its flavours),   *)
(* compiled into a router, and requests are answered one at a time through *)
(* compress_handler, the router or the static handler, and the context of  *)
(* a native backend or a bridge.  Another process rewrites the served file *)
(* whenever it likes.                                                      *)
(***************************************************************************)
EXTENDS OpenApi, Compress, StaticFiles

CONSTANTS
  Mounts,         \* what may be served: a set of [app, flavour, backend, compressed]
  AppMiddlewares, \* the middlewares of an openapi application, outermost first
  BuiltIns,       \* its own routes, entries like those of the registry
  Handlers,       \* handler functions: id -> [params, ...]
  Registrable,    \* registrations that may happen: [app, method, template, handler, middlewares]
  MaxRoutes,      \* bound: registrations
  Requests,       \* requests of an application, without Accept-Encoding
  Accepts,        \* Accept-Encoding headers: sequences of [name, q], or <<>> for none
  Tree,           \* what lies under the static root
  Sizes,          \* sizes a file may have
  MaxWrites,      \* bound: writes to the served file
  ShrinksWhileServed  \* may a write shorten the file between its stat and its sending?

\* A file's size is a number; a client's conditional headers are those it has
\* from its copy: the requests below carry none of their own.
ASSUME FilesAssumption ==
  /\ Sizes \subseteq Nat
  /\ \A r \in Requests :
       /\ {"app", "method", "headers"} \subseteq DOMAIN r /\ "accept" \notin DOMAIN r
       /\ {"if-none-match", "if-modified-since"} \cap DOMAIN r.headers = {}
       /\ "range" \in DOMAIN r.headers =>
            {r.headers["range"].first, r.headers["range"].last} \subseteq Nat \cup {Empty, Junk}
  /\ \A a \in Accepts : a \in Seq([name : STRING, q : {"absent", "half", "zero", "malformed"}])

\* Templates are sequences of segments, wherever their routes come from.
Segments == [var : BOOLEAN, name : STRING]

ASSUME RoutesAssumption ==
  /\ \A m \in Mounts : m.app \in {"static", "routes", "openapi"}
  /\ \A r \in Registrable : r.template \in Seq(Segments)
  /\ BuiltIns \in Seq({BuiltIns[i] : i \in DOMAIN BuiltIns})
  /\ \A i \in DOMAIN BuiltIns :
       BuiltIns[i].template \in Seq(Segments) /\ BuiltIns[i].handler = "built-in"

\* A function that sets a Content-Length of its own tells the truth, of a body
\* and of a stream of chunks: nothing here or in the code would notice.
TrueLength(headers, size) ==
  "content-length" \in DOMAIN headers => headers["content-length"] = size

Yields(chunks, size) ==
  \E upTo \in [0..Len(chunks) -> 0..size] :
     /\ upTo[0] = 0 /\ upTo[Len(chunks)] = size
     /\ \A n \in 1..Len(chunks) : upTo[n] = upTo[n - 1] + chunks[n]

TrueStream(headers, chunks) ==
  /\ chunks \in Seq(Nat)
  /\ "content-length" \in DOMAIN headers =>
       headers["content-length"] \in Nat /\ Yields(chunks, headers["content-length"])

TrueResult(result) ==
  \/ result.body = "events" /\ TrueStream(result.headers, result.size)
  \/ /\ result.body \in {"none", "text", "octets", "json"}
     /\ result.size \in Nat /\ TrueLength(result.headers, result.size)

\* The functions of an http application, of an openapi one, and its middlewares.
RouteFunction(h) ==
  \/ h.does = "raise"
  \/ h.does = "stream" /\ TrueStream(h.response.headers, h.chunks)
  \/ h.does = "return" /\
       \/ h.value.type \in {"none", "other"}
       \/ h.value.type \in {"str", "bytes", "json"} /\ h.value.size \in Nat
       \/ h.value.type = "response" /\ TrueLength(h.value.response.headers, 0)
       \/ /\ h.value.type = "pair" /\ h.value.size \in Nat
          /\ TrueLength(h.value.response.headers, h.value.size)

OperationFunction(h) ==
  \/ h.value.type \in {"raise", "none"}
  \/ h.value.type \in {"iterator", "sync iterator"} /\ h.value.chunks \in Seq(Nat)
  \/ h.value.type \in {"text", "octets", "json"} /\ h.value.size \in Nat
  \/ h.value.type = "result" /\ TrueResult(h.value.result)

MiddlewareFunctions(mws) ==
  /\ mws \in Seq({mws[i] : i \in DOMAIN mws})
  /\ \A i \in DOMAIN mws :
       \/ mws[i].does \in {"authenticate", "call next", "return something else"}
       \/ mws[i].does = "answer" /\ TrueResult(mws[i].result)

ASSUME HandlersAssumption ==
  /\ MiddlewareFunctions(AppMiddlewares)
  /\ \A r \in Registrable :
       /\ r.handler # "built-in"
       /\ r.app = "routes" => RouteFunction(Handlers[r.handler])
       /\ r.app = "openapi" =>
            OperationFunction(Handlers[r.handler]) /\ MiddlewareFunctions(r.middlewares)

VARIABLES
  mount,      \* the deployment, chosen once
  registry,   \* HttpApp._routes
  table,      \* the compiled router, <<>> until built
  pc,         \* "register", "idle", "dispatch", "stat", "send", "stream", "answered"
  req,
  coding,     \* what was negotiated: identity without a compressing context
  file,       \* the served file on disk
  writes,
  stat,       \* the stat the handler took
  doing,      \* the context call the handler makes: complete, stream or sendfile
  stream,     \* [left, yielded, encoder] while a response streams
  copy,       \* the client's last whole copy: its validators and version
  sent        \* the response on the wire

avars == <<mount, registry, table, pc, req, coding, file, writes, stat, doing, stream, copy, sent>>

NoFile == [version |-> 0, size |-> 0, mtime |-> 0]
NoRequest == [method |-> "GET", headers |-> <<>>, accept |-> <<>>]
NoSent == [kind |-> "nothing"]
NoDoing == [do |-> "nothing"]
NoStream == [left |-> <<>>, yielded |-> 0, encoder |-> [held |-> 0, sent |-> 0]]

AppInit ==
  /\ mount \in Mounts
  /\ registry = <<>> /\ table = <<>>
  /\ pc = IF mount.app = "static" THEN "idle" ELSE "register"
  /\ req = NoRequest
  /\ coding = NoCoding
  /\ file \in [version : {1}, size : Sizes, mtime : {0}] /\ writes = 0
  /\ stat = NoFile /\ doing = NoDoing /\ stream = NoStream
  /\ copy = NoFile /\ sent = NoSent

-----------------------------------------------------------------------------
(* Registration *)

\* _build_resolvers: every parameter is a template variable or the context.
Resolvable(handler, template) ==
  \A p \in Handlers[handler].params :
     p = "ctx" \/ p \in {template[i].name : i \in VariablesOf(template)}

\* The decorators of the two openapi applications.
OperationAccepted(r) == Creatable(Handlers[r.handler], r.template)
AsyncOperationAccepted(r) ==
  EnsureAsyncMiddlewares(r.middlewares) /\ AsyncCreatable(Handlers[r.handler], r.template)

\* HttpApp._decorator, of http and of openapi: a handler whose parameters
\* cannot be resolved is refused and nothing changes.
Register(r) ==
  /\ pc = "register" /\ Len(registry) < MaxRoutes
  /\ r.app = mount.app
  /\ Parses(r.template)
  /\ IF mount.app = "routes" THEN Resolvable(r.handler, r.template)
     ELSE IF mount.flavour = "sync" THEN OperationAccepted(r)
     ELSE AsyncOperationAccepted(r)
  /\ registry' = Append(registry, r)
  /\ UNCHANGED <<mount, table, pc, req, coding, file, writes, stat, doing, stream, copy, sent>>

Entries == IF mount.app = "openapi" THEN registry \o BuiltIns ELSE registry

\* _build_router_handler: the routes are added in the order of registration
\* and the application's own ones last.
Added ==
  LET routes[n \in 0..Len(Entries)] ==
        IF n = 0 THEN NoRoutes
        ELSE Add(routes[n - 1], Entries[n].method, Entries[n].template, n)
  IN  routes[Len(Entries)]

\* The asynchronous application keeps its own table, in the order of registration.
Built == IF mount.flavour = "async" THEN Added ELSE FromRoutes(Added)

\* _build_async_handler's add refuses what Routes.add replaces.
Duplicated ==
  \E i, j \in DOMAIN Entries : /\ i < j
                               /\ Entries[i].method = Entries[j].method
                               /\ Entries[i].template = Entries[j].template

Build ==
  /\ pc = "register" /\ registry # <<>>
  /\ ~(mount.flavour = "async" /\ Duplicated)
  /\ table' = Built
  /\ pc' = "idle"
  /\ UNCHANGED <<mount, registry, req, coding, file, writes, stat, doing, stream, copy, sent>>

\* The build raises; the program is corrected and started again.
BuildRefused ==
  /\ pc = "register" /\ mount.flavour = "async" /\ Duplicated
  /\ registry' = <<>>
  /\ UNCHANGED <<mount, table, pc, req, coding, file, writes, stat, doing, stream, copy, sent>>

-----------------------------------------------------------------------------
(* Requests.  A client that holds a copy may send its validators back.      *)

Conditions(headers) ==
  LET tag == "if-none-match" :> [any |-> FALSE, tags |-> {[weak |-> TRUE, of |-> Etag(copy)]}]
      date == "if-modified-since" :> LastModified(copy)
  IN  IF copy = NoFile THEN {headers}
      ELSE {headers, tag @@ headers, date @@ headers, tag @@ date @@ headers}

\* compress_handler's wrapped: without Accept-Encoding, for HEAD and when
\* nothing is acceptable the inner handler gets the context itself.
Negotiated(method, accept) ==
  IF ~mount.compressed \/ accept = <<>> \/ method = "HEAD" THEN NoCoding
  ELSE Negotiate(accept, Algorithms)

Receive(r, accept) ==
  /\ pc = "idle"
  /\ r.app = mount.app /\ (mount.compressed \/ accept = <<>>)
  /\ \E headers \in Conditions(r.headers) :
       req' = [r EXCEPT !.headers = headers] @@ [accept |-> accept]
  /\ coding' = Negotiated(r.method, accept)
  /\ pc' = "dispatch"
  /\ UNCHANGED <<mount, registry, table, file, writes, stat, doing, stream, copy, sent>>

-----------------------------------------------------------------------------
(* What a handler's return value becomes *)

\* _wrap_response and _build_response.  A value of another type raises.
WrapResponse(value) ==
  LET built(type) == [status |-> 200, headers |-> ("content-type" :> type) @@ ("content-length" :> value.size)]
  IN  CASE value.type = "response" -> <<value.response, 0>>
        [] value.type = "pair" -> <<value.response, value.size>>
        [] value.type = "none" -> <<[status |-> 204, headers |-> "content-length" :> 0], 0>>
        [] value.type = "str" -> <<built("text/plain"), value.size>>
        [] value.type = "bytes" -> <<built("application/octet-stream"), value.size>>
        [] value.type = "json" -> <<built("application/json"), value.size>>

Complete(response, size) == [do |-> "complete", response |-> response, body |-> size]

\* The route's handler: _build_route_handler's inner, or a raw handler.
RouteCalled(handler) ==
  CASE handler.does = "stream" -> [do |-> "stream", response |-> handler.response, chunks |-> handler.chunks]
    [] handler.does = "raise" \/ (handler.does = "return" /\ handler.value.type = "other") ->
         [do |-> "fail"]
    [] OTHER -> Complete(WrapResponse(handler.value)[1], WrapResponse(handler.value)[2])

\* Operation._write_response, and a route of the application's own.
OperationCalled(entry) ==
  IF entry.handler = "built-in" THEN Complete(PlainResponse(200, 3), 3)
  ELSE LET result == Run(Handlers[entry.handler], entry.template, AppMiddlewares \o entry.middlewares,
                         req, mount.flavour)
       IN  CASE result.body = "raised" -> [do |-> "fail"]
             [] result.body = "events" ->
                  [do |-> "stream", response |-> StreamSse(result), chunks |-> result.size]
             [] OTHER -> Complete(BuildHttpResponse(result), result.size)

HandlerCalled(entry) == IF mount.app = "openapi" THEN OperationCalled(entry) ELSE RouteCalled(Handlers[entry.handler])

\* The asynchronous application's _match: the same scan of its own table.
AsyncMatch(path, method) == Match(table, path, method)

\* Router.as_handler's dispatch, and the asynchronous application's.
Dispatched ==
  LET m == IF mount.flavour = "async" THEN AsyncMatch(req.path, req.method)
           ELSE Match(table, req.path, req.method)
  IN  CASE m.kind = "not_found" -> Complete(NotFound, NotFoundBody)
        [] m.kind = "method_not_allowed" -> Complete(MethodNotAllowed(m.allow), NotAllowedBody)
        [] OTHER -> HandlerCalled(Entries[m.route.methods[m.method]])

DispatchRequest ==
  /\ pc = "dispatch"
  /\ LET next == IF mount.app = "static" THEN BeforeStat(Tree, req) ELSE Dispatched
     IN  doing' = next /\ pc' = IF next.do = "stat" THEN "stat" ELSE "send"
  /\ UNCHANGED <<mount, registry, table, req, coding, file, writes, stat, stream, copy, sent>>

\* The static handler stats the file ...
Stat ==
  /\ pc = "stat"
  /\ stat' = file
  /\ doing' = Serve(req, file)
  /\ pc' = "send"
  /\ UNCHANGED <<mount, registry, table, req, coding, file, writes, stream, copy, sent>>

-----------------------------------------------------------------------------
(* The native context.  h11 refuses body bytes in answer to a HEAD after   *)
(* the status was recorded, so the handler's error closes the connection;  *)
(* httptools leaves them out.                                              *)

BodyAllowed(status) == req.method # "HEAD" /\ status \notin {204, 304} \cup 100..199

Wire(response, size, c) ==
  IF ~BodyAllowed(response.status) /\ size > 0 /\ mount.backend = "h11"
  THEN [kind |-> "closed"]
  ELSE [kind |-> "response", status |-> response.status, headers |-> response.headers,
        size |-> IF BodyAllowed(response.status) /\ size > 0 THEN size ELSE 0, coding |-> c]

InternalError == [status |-> 500, headers |-> ("content-type" :> "text/plain") @@ ("content-length" :> 21)]

\* A client keeps what a whole 200 brought with its validators.
Kept(response) ==
  IF mount.app = "static" /\ req.method = "GET" /\ response.status = 200 THEN stat ELSE copy

SendComplete ==
  /\ pc = "send" /\ doing.do \in {"complete", "fail"}
  /\ IF doing.do = "fail"
     THEN sent' = Wire(InternalError, 21, NoCoding)
     ELSE LET body == [size |-> doing.body, coding |-> NoCoding]
              out == CompleteThrough(coding, doing.response, body, req.method)
          IN  sent' = Wire(out[1], out[2].size, out[2].coding)
  /\ copy' = IF doing.do = "complete" THEN Kept(doing.response) ELSE copy
  /\ pc' = "answered" /\ stat' = NoFile
  /\ UNCHANGED <<mount, registry, table, req, coding, file, writes, doing, stream>>

\* ... and opens it later: as many bytes as are there are sent, and nothing
\* looks at how many that was.  The compressing context passes a file through.
SendFileBytes ==
  /\ pc = "send" /\ doing.do = "sendfile"
  /\ LET there == IF file.size > doing.offset THEN file.size - doing.offset ELSE 0
     IN  sent' = [Wire(doing.response, doing.count, NoCoding)
                    EXCEPT !.size = IF there < doing.count THEN there ELSE doing.count]
  /\ copy' = Kept(doing.response)
  /\ pc' = "answered" /\ stat' = NoFile
  /\ UNCHANGED <<mount, registry, table, req, coding, file, writes, doing, stream>>

SendStart ==
  /\ pc = "send" /\ doing.do = "stream"
  /\ LET out == StreamThrough(coding, doing.response, req.method)
     IN  sent' = [kind |-> "response", status |-> out[1].status, headers |-> out[1].headers,
                  size |-> 0, coding |-> out[2]]
  /\ stream' = [NoStream EXCEPT !.left = doing.chunks]
  /\ pc' = "stream"
  /\ UNCHANGED <<mount, registry, table, req, coding, file, writes, stat, doing, copy>>

\* One chunk of the handler's iterator, on its way out.
SendChunk ==
  /\ pc = "stream" /\ stream.left # <<>>
  /\ LET size == Head(stream.left)
         encoder == IF sent.coding = NoCoding
                    THEN [stream.encoder EXCEPT !.sent = @ + size]
                    ELSE CompressChunk(stream.encoder, size)
     IN  IF BodyAllowed(sent.status) \/ size = 0 \/ mount.backend = "httptools"
         THEN /\ stream' = [left |-> Tail(stream.left), yielded |-> stream.yielded + size,
                            encoder |-> encoder]
              /\ UNCHANGED <<pc, sent>>
         ELSE stream' = NoStream /\ sent' = [kind |-> "closed"] /\ pc' = "answered"
  /\ UNCHANGED <<mount, registry, table, req, coding, file, writes, stat, doing, copy>>

SendEnd ==
  /\ pc = "stream" /\ stream.left = <<>>
  /\ sent' = [sent EXCEPT !.size = IF ~BodyAllowed(sent.status) THEN 0
                                   ELSE IF sent.coding = NoCoding THEN stream.encoder.sent
                                   ELSE FinishEncoder(stream.encoder).sent]
  /\ stream' = NoStream /\ pc' = "answered"
  /\ UNCHANGED <<mount, registry, table, req, coding, file, writes, stat, doing, copy>>

\* The client has read the answer: the connection is ready for another request.
Answered ==
  /\ pc = "answered"
  /\ req' = NoRequest /\ coding' = NoCoding /\ doing' = NoDoing /\ sent' = NoSent
  /\ pc' = "idle"
  /\ UNCHANGED <<mount, registry, table, file, writes, stat, stream, copy>>

-----------------------------------------------------------------------------
(* The file is rewritten: a new version, later, perhaps of another size.    *)

Write(size, later) ==
  /\ mount.app = "static" /\ writes < MaxWrites
  /\ stat = NoFile \/ ShrinksWhileServed \/ size >= file.size
  /\ file' = [version |-> file.version + 1, size |-> size, mtime |-> file.mtime + later]
  /\ writes' = writes + 1
  /\ UNCHANGED <<mount, registry, table, pc, req, coding, stat, doing, stream, copy, sent>>

AppNext ==
  \/ \E r \in Registrable : Register(r)
  \/ Build \/ BuildRefused
  \/ \E r \in Requests, a \in Accepts : Receive(r, a)
  \/ DispatchRequest \/ Stat \/ SendComplete \/ SendFileBytes \/ SendStart \/ SendChunk \/ SendEnd
  \/ Answered
  \/ \E s \in Sizes, l \in {1, 2} : Write(s, l)

AppSpec == AppInit /\ [][AppNext]_avars

-----------------------------------------------------------------------------
(* Properties *)

\* What the router answers is what the registrations say, whatever order they
\* came in: 404 when no registered template matches, 405 with exactly the
\* methods registered for the templates that match, and otherwise the handler
\* registered last for the most literal template that has the method.
DispatchFollowsRegistration ==
  (pc = "send" /\ mount.app # "static") =>
    LET matching == {i \in DOMAIN Entries : MatchesPath(Entries[i].template, req.path)}
        able     == {i \in matching : Entries[i].method = req.method}
        prefix(i) == IF mount.flavour = "async" THEN 0 ELSE LiteralPrefixLen(Entries[i].template)
        first(i) == CHOOSE k \in DOMAIN Entries :
                      /\ Entries[k].template = Entries[i].template
                      /\ \A l \in 1..(k - 1) : Entries[l].template # Entries[i].template
        better(i, j) == \/ prefix(i) > prefix(j)
                        \/ prefix(i) = prefix(j) /\ first(i) < first(j)
                        \/ prefix(i) = prefix(j) /\ first(i) = first(j) /\ i >= j
    IN  IF matching = {} THEN doing.do = "complete" /\ doing.response.status = 404
        ELSE IF able = {} THEN /\ doing.do = "complete" /\ doing.response.status = 405
                               /\ doing.response.headers["allow"] = {Entries[i].method : i \in matching}
        ELSE \E i \in able : /\ \A j \in able : better(i, j)
                             /\ doing = HandlerCalled(Entries[i])

\* The document's view of a request: is this parameter as it asks?
Acceptable(d, args) ==
  LET given == CASE d.location = "path" -> IF d.name \in DOMAIN args THEN <<args[d.name]>> ELSE <<>>
                 [] d.location = "query" -> IF d.name \in DOMAIN req.query THEN req.query[d.name] ELSE <<>>
                 [] OTHER -> IF d.name \in DOMAIN req.headers THEN <<req.headers[d.name]>> ELSE <<>>
  IN  IF given = <<>> THEN ~d.required
      ELSE IF d.schema = "ints" THEN \A i \in DOMAIN given : CastStr(given[i], "int")
      ELSE CastStr(given[1], d.schema)

\* What a document can be held to.  Functions answer as they are annotated, and
\* with no 400 of their own; one that authenticates documents its 401, and other
\* middlewares that answer refuse.  No list is asked of the path or of a header,
\* which no value satisfies, and no parameter but a required JSON one of an
\* operation is taken from the body: the rest is not validated as documented.
ParametersAsDocumented(fn, factories) ==
  /\ fn.params \in Seq({fn.params[i] : i \in DOMAIN fn.params})
  /\ \A i \in DOMAIN fn.params :
       \/ factories[i].from \in {"ctx", "query"}
       \/ factories[i].from \in {"path", "header"} /\ fn.params[i].type # "ints"
       \/ /\ factories[i].from = "body"
          /\ fn.params[i].type \notin {"bytes", "str"} /\ ~fn.params[i].default

OperationAsDocumented(fn, template) ==
  LET shapes == ExtractResponseShapes(fn.returns)
  IN  /\ ParametersAsDocumented(fn, Factories(fn, {template[i].name : i \in VariablesOf(template)}))
      /\ fn.value.type = "raise" \/ Normalised(fn.value, shapes).status \in (shapes.codes \cap Nat) \ {400}

MiddlewareAsDocumented(mw) ==
  LET codes == ExtractResponseShapes(mw.returns).codes
  IN  /\ ParametersAsDocumented(mw, Factories(mw, {}))
      /\ \A i \in DOMAIN mw.params : Factories(mw, {})[i].from # "body"
      /\ mw.does = "authenticate" => 401 \in codes
      /\ mw.does = "answer" =>
           mw.result.status \in codes \cap Nat /\ mw.result.status > 400

FunctionsAsDocumented ==
  /\ \A i \in DOMAIN AppMiddlewares : MiddlewareAsDocumented(AppMiddlewares[i])
  /\ \A r \in Registrable : r.app = "openapi" =>
       /\ OperationAsDocumented(Handlers[r.handler], r.template)
       /\ \A i \in DOMAIN r.middlewares : MiddlewareAsDocumented(r.middlewares[i])

\* What an operation answers is what its document says of it, whatever its
\* middlewares add to either: a documented status (or the framework's own 400
\* and 500), a 400 only for a request the document does not allow, and no
\* success for one that the document does not allow or that carries none of
\* the credentials it asks for.
OperationMatchesItsDocument ==
  (pc = "send" /\ mount.app = "openapi") =>
    LET m == Match(table, req.path, req.method)
        entry == Entries[m.route.methods[m.method]]
        doc == BuildSpec(Handlers[entry.handler], entry.template, AppMiddlewares \o entry.middlewares)
        args == PathArgs(entry.template, req.path)
        status == IF doing.do = "fail" THEN 500 ELSE doing.response.status
        allowed == /\ \A d \in doc.parameters : Acceptable(d, args)
                   /\ doc.body = "required" => req.body = "json"
    IN  (m.kind = "ok" /\ entry.handler # "built-in") =>
          /\ status \in doc.codes \cup {400, 500}
          /\ status = 400 => ~allowed
          /\ status < 400 => allowed
          /\ (doc.security # {} /\ "authorization" \notin DOMAIN req.headers) => status >= 400

\* The bytes a Range header asks for, of a file of that size.
Asked(range, size) ==
  {b \in 0..(size - 1) :
     IF range.first = Empty THEN b >= size - range.last
     ELSE b >= range.first /\ (range.last = Empty \/ b <= range.last)}

LengthIsTrue ==
  ("content-length" \in DOMAIN sent.headers /\ BodyAllowed(sent.status)) =>
    sent.headers["content-length"] = sent.size

CodingIsTrue ==
  sent.coding # NoCoding =>
    /\ sent.headers["content-encoding"] = sent.coding
    /\ "accept-encoding" \in sent.headers["vary"] \/ sent.headers["vary"] = {"*"}
    /\ Has(doing.response, "content-encoding") => doing.response.headers["content-encoding"] = NoCoding
    /\ \E i \in DOMAIN req.accept :
         /\ req.accept[i].name \in {sent.coding, "*"} /\ Quality(req.accept[i].q) > 0
         /\ \A j \in DOMAIN req.accept :
              j > i => req.accept[j].name \notin {req.accept[i].name, sent.coding}

SliceIsTrue ==
  mount.app = "static" =>
    /\ sent.status = 206 =>
         LET range == sent.headers["content-range"]
         IN  range[1]..range[2] = Asked(req.headers["range"], range[3]) /\ range[1] <= range[2]
    /\ sent.status = 416 =>
         Asked(req.headers["range"], sent.headers["content-range"][1]) = {}

\* The headers on the wire describe the bytes that follow them, through the
\* compressing context, the static handler and either backend: as many bytes
\* as Content-Length says, encoded as Content-Encoding says and only with what
\* the client accepts and once, and for a range the bytes that were asked for.
ResponseDescribesItsBody ==
  (pc = "answered" /\ sent.kind = "response") => LengthIsTrue /\ CodingIsTrue /\ SliceIsTrue

\* A client is told that its copy is current only when it is, and always when
\* its entity tag says so: only a date alone, which cannot tell writes within
\* one second apart, may keep a copy that was overwritten.
NotModifiedIsTrue ==
  (pc = "send" /\ mount.app = "static" /\ stat # NoFile) =>
    LET tagged == "if-none-match" \in DOMAIN req.headers
    IN  /\ doing.response.status = 304 =>
             \/ copy.version = stat.version
             \/ ~tagged /\ Second(copy.mtime) = Second(stat.mtime)
        /\ (tagged /\ copy.version = stat.version) => doing.response.status = 304

\* Each event of a compressed stream can be decoded by the peer before the
\* handler is asked for the next one.
EventsReachThePeer == pc = "stream" => stream.encoder.sent = stream.yielded

\* Whoever asks gets an answer, "404 / 405 inline" included (docs/modules/http.md).
\* Not so for HEAD on h11, whose context refuses the router's body; not in a run.
HeadIsAnswered == sent.kind # "closed"
=============================================================================
