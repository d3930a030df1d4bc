------------------------------ MODULE Compress ------------------------------
(***************************************************************************)
(* localpost/http/compress.py: negotiation of a content coding, which      *)
(* responses may be compressed, and what the compressing context hands to  *)
(* the one it wraps.  Pure operators.                                      *)
(*                                                                         *)
(* A response is [status, headers]; headers is a function from the names   *)
(* that are present to values: a length for content-length, a set of       *)
(* tokens for vary and cache-control, a name otherwise.  A body is         *)
(* [size, coding]: coding is what its bytes are encoded with.              *)
(***************************************************************************)
EXTENDS Router

CONSTANTS
  Algorithms,          \* the server's preference, a sequence of codings
  MinSize,             \* min_size
  CompressibleTypes    \* content types worth compressing

ASSUME AlgorithmsAssumption ==
  /\ Algorithms \in Seq({"br", "gzip"}) /\ Algorithms # <<>>
  /\ MinSize \in Nat

NoCoding == "identity"

-----------------------------------------------------------------------------
(* Accept-Encoding: a sequence of [name, q]; q is what follows ";q=", or   *)
(* "absent".  A q that is no number disables its token, as q=0 does.       *)

Quality(q) == CASE q = "absent" -> 2 [] q = "half" -> 1 [] q \in {"zero", "malformed"} -> 0

\* _negotiate: a later token overrides an earlier one of the same name.
Negotiate(accept, pref) ==
  LET given(n)   == {i \in DOMAIN accept : accept[i].name = n}
      last(S)    == CHOOSE i \in S : \A j \in S : j <= i
      quality(n) == Quality(accept[last(given(n))].q)
      accepts(c) == IF given(c) # {} THEN quality(c) > 0
                    ELSE given("*") # {} /\ quality("*") > 0
      usable     == {i \in DOMAIN pref : accepts(pref[i])}
  IN  IF usable = {} THEN NoCoding
      ELSE pref[CHOOSE i \in usable : \A j \in usable : i <= j]

-----------------------------------------------------------------------------
(* The decision matrix *)

Has(response, name) == name \in DOMAIN response.headers

StatusAllows(status) == status \notin {204, 304, 206} \cup 100..199

HeadersAllow(response) ==
  /\ Has(response, "content-encoding") => response.headers["content-encoding"] = NoCoding
  /\ Has(response, "cache-control") => "no-transform" \notin response.headers["cache-control"]
  /\ Has(response, "content-type")
  /\ response.headers["content-type"] \in CompressibleTypes

IsCompressible(response, body, method) ==
  /\ method # "HEAD"
  /\ body.size >= MinSize
  /\ StatusAllows(response.status)
  /\ HeadersAllow(response)

\* A stream whose length the handler declared is passed through.
IsStreamingEligible(response, method) ==
  /\ method # "HEAD"
  /\ StatusAllows(response.status)
  /\ ~Has(response, "content-length")
  /\ HeadersAllow(response)

-----------------------------------------------------------------------------
(* The rewritten headers *)

MergeVary(tokens) == IF tokens = {"*"} THEN tokens ELSE tokens \cup {"accept-encoding"}

Encoded(headers, coding) ==
  ("content-encoding" :> coding) @@
  ("vary" :> IF "vary" \in DOMAIN headers THEN MergeVary(headers["vary"])
             ELSE {"accept-encoding"}) @@ headers

RewriteCodingOnly(headers, coding, size) == Encoded(headers, coding)

RewriteHeaders(headers, coding, size) == ("content-length" :> size) @@ Encoded(headers, coding)

StreamingRewriteHeaders(headers, coding) ==
  [n \in DOMAIN Encoded(headers, coding) \ {"content-length"} |-> Encoded(headers, coding)[n]]

-----------------------------------------------------------------------------
(* The encoders *)

\* The size of a compressed body: any length of its own does.
Deflate(body, coding) == [size |-> body.size \div 2 + 1, coding |-> coding]

\* _CompressedCtx.complete: what the wrapped context's complete is given.
CompleteThrough(coding, response, body, method) ==
  IF coding # NoCoding /\ IsCompressible(response, body, method)
  THEN LET deflated == Deflate(body, coding)
       IN  <<[status |-> response.status,
              headers |-> RewriteHeaders(response.headers, coding, deflated.size)], deflated>>
  ELSE <<response, body>>

\* _CompressedCtx.stream: the response, and the coding of its chunks.
StreamThrough(coding, response, method) ==
  IF coding # NoCoding /\ IsStreamingEligible(response, method)
  THEN <<[status |-> response.status, headers |-> StreamingRewriteHeaders(response.headers, coding)],
         coding>>
  ELSE <<response, NoCoding>>

\* A streaming encoder holds what it was given until it is flushed.
Feed(encoder, size) == [encoder EXCEPT !.held = @ + size]
Flush(encoder) == [held |-> 0, sent |-> encoder.sent + encoder.held]

CompressChunkHeld(encoder, size) == Feed(encoder, size)

\* _compress_stream, for one chunk: an empty one passes through untouched.
CompressChunk(encoder, size) ==
  IF size = 0 THEN encoder ELSE Flush(Feed(encoder, size))

FinishEncoder(encoder) == Flush(encoder)
=============================================================================
