------------------------------- MODULE Router -------------------------------
(***************************************************************************)
(* localpost/http/router.py: URI templates, the mutable builder Routes and *)
(* the immutable Router it is compiled into.  Pure operators: HttpApp and  *)
(* OpenApi compose them.                                                   *)
(*                                                                         *)
(* A path is a sequence of segments and a template a sequence of segments  *)
(* that are a literal or one variable ({name} matches [^/]+).  Where two   *)
(* templates match one path their literal prefixes agree as far as both    *)
(* go, so counting segments orders them as counting characters does.       *)
(***************************************************************************)
EXTENDS Integers, Sequences, FiniteSets

CONSTANT Methods    \* the members of HTTPMethod that take part

Literal(s) == [var |-> FALSE, name |-> s]
Variable(n) == [var |-> TRUE, name |-> n]

\* The one value that stands for None in the results below.
Nothing == "None"

\* The headers of a response and the tables of a router are functions, built
\* as with the operators of TLC, which the provers cannot expand: one argument,
\* and the second function overridden by the first.
arg :> value == [x \in {arg} |-> value]
over @@ under ==
  [x \in DOMAIN over \cup DOMAIN under |-> IF x \in DOMAIN over THEN over[x] ELSE under[x]]

-----------------------------------------------------------------------------
(* URITemplate *)

VariablesOf(template) == {i \in DOMAIN template : template[i].var}

\* Compiling the pattern fails when two groups have the same name.
Parses(template) ==
  \A i, j \in VariablesOf(template) : template[i].name = template[j].name => i = j

MatchesPath(template, path) ==
  /\ Len(template) = Len(path)
  /\ \A i \in DOMAIN path : IF template[i].var THEN path[i] # "" ELSE template[i].name = path[i]

\* groupdict(): what each variable of the template stands for in the path.
PathArgs(template, path) ==
  [n \in {template[i].name : i \in VariablesOf(template)} |->
     path[CHOOSE i \in VariablesOf(template) : template[i].name = n]]

LiteralPrefixLen(template) ==
  IF VariablesOf(template) = {} THEN Len(template)
  ELSE (CHOOSE i \in VariablesOf(template) : \A j \in VariablesOf(template) : i <= j) - 1

-----------------------------------------------------------------------------
(* Routes: the builder, templates in the order they were first added, each *)
(* with its table of handlers.                                             *)

NoRoutes == <<>>

\* Routes.add: the template's own table gets (or replaces) the method.
Add(routes, method, template, handler) ==
  IF \E i \in DOMAIN routes : routes[i].template = template
  THEN [i \in DOMAIN routes |->
          IF routes[i].template = template
          THEN [routes[i] EXCEPT !.methods = (method :> handler) @@ @]
          ELSE routes[i]]
  ELSE Append(routes, [template |-> template, methods |-> (method :> handler)])

-----------------------------------------------------------------------------
(* Router *)

BeforeByAge(routes, i, j) == i < j

\* The order of dispatch: longest literal prefix first, stable on ties.
Before(routes, i, j) ==
  LET len(k) == LiteralPrefixLen(routes[k].template)
  IN  len(i) > len(j) \/ (len(i) = len(j) /\ i < j)

FromRoutes(routes) ==
  [place \in DOMAIN routes |->
     routes[CHOOSE i \in DOMAIN routes :
              Cardinality({j \in DOMAIN routes : Before(routes, j, i)}) = place - 1]]

\* _match: the first route in order that matches the path and has the method;
\* an unknown method is no member of any table.
Match(table, path, method) ==
  LET matched == {i \in DOMAIN table : MatchesPath(table[i].template, path)}
      able    == {i \in matched : method \in DOMAIN table[i].methods}
      first   == CHOOSE i \in able : \A j \in able : i <= j
  IN  CASE matched = {} -> [kind |-> "not_found"]
        [] matched # {} /\ able = {} ->
             [kind |-> "method_not_allowed",
              allow |-> UNION {DOMAIN table[i].methods : i \in matched}]
        [] OTHER ->
             [kind |-> "ok", route |-> table[first], method |-> method,
              args |-> PathArgs(table[first].template, path)]

-----------------------------------------------------------------------------
(* The responses the router gives itself.  A response is a status and a    *)
(* function from header names to values.                                   *)

PlainResponse(status, size) ==
  [status |-> status,
   headers |-> ("content-type" :> "text/plain") @@ ("content-length" :> size)]

NotFoundBody == 9
NotFound == PlainResponse(404, NotFoundBody)

NotAllowedBody == 18
MethodNotAllowed(allow) ==
  LET plain == PlainResponse(405, NotAllowedBody)
  IN  [plain EXCEPT !.headers = ("allow" :> allow) @@ @]
=============================================================================
