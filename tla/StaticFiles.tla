---------------------------- MODULE StaticFiles -----------------------------
(***************************************************************************)
(* localpost/http/static.py: what static_handler decides from the request  *)
(* and from one stat of the file.  Pure operators; HttpApp takes the stat  *)
(* and opens the file in two steps.                                        *)
(*                                                                         *)
(* A file is [version, size, mtime]; time is counted in half seconds, so   *)
(* two writes can share a second, which is all an HTTP date tells.  What   *)
(* lies under the root is a function from names to kinds.                  *)
(***************************************************************************)
EXTENDS Router

CONSTANTS
  Index,          \* index: a name, or "None"
  CacheControl    \* cache_control: a value, or "None"

-----------------------------------------------------------------------------
(* _resolve: names that cannot be decoded, hold NUL or "..", or lead out of *)
(* the root are refused; a directory stands for its index.                  *)

Refused == {"undecodable", "nul", "dotdot", "escaping link"}

Resolve(tree, name) ==
  CASE name \in Refused \/ name \notin DOMAIN tree -> "None"
    [] name \in DOMAIN tree /\ tree[name] = "directory" -> Index
    [] OTHER -> name

\* The target exists, may be read and is a regular file.
Regular(tree, name) == name \in DOMAIN tree /\ tree[name] = "file"

-----------------------------------------------------------------------------
(* Validators *)

Etag(stat) == <<stat.size, stat.mtime>>
Second(time) == time \div 2
LastModified(stat) == Second(stat.mtime)

\* A list of tags, weak or strong, or "*"; tag [weak, of] names an etag.
IfNoneMatchMatches(header, etag) ==
  header.any \/ \E t \in header.tags : t.of = etag

\* A date, or -1 when it cannot be parsed.
IfModifiedSinceSatisfied(date, stat) == date >= 0 /\ LastModified(stat) <= date

-----------------------------------------------------------------------------
(* Ranges: [unit, form, first, last]; form is "span" when there is one     *)
(* range with a dash, and a bound is a number, Empty or Junk.              *)

Empty == -1
Junk  == -2

\* _parse_range, in the order the code decides.
ParseRange(range, size) ==
  LET Ignored == [kind |-> "ignored"]
      Unsatisfiable == [kind |-> "unsatisfiable"]
      Slice(from, to) == [kind |-> "slice", offset |-> from, length |-> to - from]
      least(a, b) == IF a < b THEN a ELSE b
  IN  IF range.unit # "bytes" \/ range.form # "span" THEN Ignored
      ELSE IF size = 0 THEN Unsatisfiable
      ELSE IF range.first = Empty
           THEN IF range.last > 0 THEN Slice(size - least(range.last, size), size) ELSE Ignored
      ELSE IF range.first = Junk THEN Ignored
      ELSE IF range.first >= size THEN Unsatisfiable
      ELSE IF range.last = Empty THEN Slice(range.first, size)
      ELSE IF range.last < range.first THEN Ignored
      ELSE Slice(range.first, least(range.last, size - 1) + 1)

-----------------------------------------------------------------------------
(* Responses: what to do and with which [status, headers].                 *)

Caching(headers) ==
  IF CacheControl = "None" THEN headers ELSE ("cache-control" :> {CacheControl}) @@ headers

Text(status, size, more) ==
  [status |-> status,
   headers |-> more @@ ("content-type" :> "text/plain") @@ ("content-length" :> size)]

Validators(stat) == ("etag" :> Etag(stat)) @@ ("last-modified" :> LastModified(stat))

NotFoundSize == 9
RangeNotSatisfiableSize == 21
MethodNotAllowedSize == 18

Bodied(method, size) == IF method = "HEAD" THEN -1 ELSE size

SendNotFound(method) ==
  [do |-> "complete", response |-> Text(404, NotFoundSize, <<>>),
   body |-> Bodied(method, NotFoundSize)]

SendMethodNotAllowed ==
  [do |-> "complete",
   response |-> Text(405, MethodNotAllowedSize, "allow" :> {"GET", "HEAD"}),
   body |-> MethodNotAllowedSize]

SendNotModified(stat) ==
  [do |-> "complete", response |-> [status |-> 304, headers |-> Caching(Validators(stat))],
   body |-> -1]

SendRangeNotSatisfiable(method, stat) ==
  [do |-> "complete",
   response |-> Text(416, RangeNotSatisfiableSize, ("content-range" :> <<stat.size>>) @@ Validators(stat)),
   body |-> Bodied(method, RangeNotSatisfiableSize)]

SendFile(method, stat, offset, length, partial) ==
  LET plain == ("content-type" :> "text/css") @@ ("content-length" :> length)
                 @@ ("accept-ranges" :> "bytes") @@ Validators(stat)
      headers == IF partial THEN ("content-range" :> <<offset, offset + length - 1, stat.size>>) @@ plain
                 ELSE plain
      response == [status |-> IF partial THEN 206 ELSE 200, headers |-> Caching(headers)]
  IN  IF method = "HEAD" \/ length = 0
      THEN [do |-> "complete", response |-> response, body |-> -1]
      ELSE [do |-> "sendfile", response |-> response, offset |-> offset, count |-> length]

NotModifiedByEither(request, stat) ==
  \/ /\ "if-none-match" \in DOMAIN request.headers
     /\ IfNoneMatchMatches(request.headers["if-none-match"], Etag(stat))
  \/ /\ "if-modified-since" \in DOMAIN request.headers
     /\ IfModifiedSinceSatisfied(request.headers["if-modified-since"], stat)

\* If-None-Match takes precedence: a date is looked at only without one.
NotModified(request, stat) ==
  IF "if-none-match" \in DOMAIN request.headers
  THEN IfNoneMatchMatches(request.headers["if-none-match"], Etag(stat))
  ELSE /\ "if-modified-since" \in DOMAIN request.headers
       /\ IfModifiedSinceSatisfied(request.headers["if-modified-since"], stat)

\* handle, once the target was found and stat taken.
Serve(request, stat) ==
  LET range == IF "range" \in DOMAIN request.headers
               THEN ParseRange(request.headers["range"], stat.size)
               ELSE [kind |-> "ignored"]
  IN  CASE NotModified(request, stat) -> SendNotModified(stat)
        [] ~NotModified(request, stat) /\ range.kind = "unsatisfiable" ->
             SendRangeNotSatisfiable(request.method, stat)
        [] ~NotModified(request, stat) /\ range.kind = "slice" ->
             SendFile(request.method, stat, range.offset, range.length, TRUE)
        [] OTHER -> SendFile(request.method, stat, 0, stat.size, FALSE)

\* handle, up to the stat: what is answered without one, or "stat".
BeforeStat(tree, request) ==
  CASE request.method \notin {"GET", "HEAD"} -> SendMethodNotAllowed
    [] request.method \in {"GET", "HEAD"} /\ ~Regular(tree, Resolve(tree, request.name)) ->
         SendNotFound(request.method)
    [] OTHER -> [do |-> "stat"]
=============================================================================
