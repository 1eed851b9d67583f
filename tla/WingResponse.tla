---------------------------- MODULE WingResponse ----------------------------
(***************************************************************************)
(* The pooled wingResponse: what a handler puts into it by the lanes of    *)
(* transport.ResponseWriter, how it is serialized, and what is left when   *)
(* it goes back to the pool and serves the next request.                   *)
(*                                                                         *)
(* A body is a slice: an array of the heap and a length.  SetJSON keeps    *)
(* the caller's array, so an array has contents of its own here.  A body   *)
(* byte is the number of the request that wrote it.                        *)
(***************************************************************************)
EXTENDS Naturals, Sequences, FiniteSets, SequencesExt, TLC

CONSTANTS
    Inline,         \* header slots that need no allocation (8)
    MaxRequests,    \* bound: requests served with this object
    MaxHeaders      \* bound: header operations of the first request; the next have one each

VARIABLES
    r,      \* the wingResponse, and what the Ctx holds back for it
    heap,   \* the contents of the arrays
    asked,  \* history: what the handler of this request asked for
    wire,   \* the serialized response, <<>> before
    reqs    \* requests so far

pvars == <<r, heap, asked, wire, reqs>>

(* "own" belongs to the object, "static" to the application, which shares    *)
(* it between requests; "fresh" stands for a slice the caller will not reuse.*)
Arrays == {"own", "json", "static", "fresh"}
StaticJSON == <<0, 0>>
Known == {200, 403, 404, 500}   \* statusLines: codes with a prepared line
Codes == {200, 404, 418}
Keys == {"X-A", "Set-Cookie"}
NoHeaders == [slots |-> <<>>, extra |-> <<>>]
NoneHeld == [k \in {} |-> <<>>]

Slice(a, k) == [arr |-> a, len |-> k]
Bytes(b) == SubSeq(heap[b.arr], 1, b.len)

acquireResponse ==
    [taken |-> TRUE, done |-> FALSE, status |-> 200, headers |-> NoHeaders, body |-> [r.body EXCEPT !.len = 0],
     lane |-> "generic", string |-> <<>>, file |-> FALSE, ops |-> 0,
     respHeaders |-> NoneHeld, cookies |-> <<>>]

NothingAsked == [status |-> 200, body |-> <<>>, lane |-> "", direct |-> <<>>, several |-> {},
                 held |-> NoneHeld, cookies |-> <<>>]

Acquire ==
    /\ ~r.taken /\ reqs < MaxRequests
    /\ reqs' = reqs + 1
    /\ r' = acquireResponse
    /\ asked' = NothingAsked
    /\ wire' = <<>>
    /\ UNCHANGED heap

-----------------------------------------------------------------------------
(* wingHeaders: fixed slots first, then the overflow *)

At(s, k) == {i \in DOMAIN s : s[i].key = k}
First(S) == CHOOSE i \in S : \A j \in S : i <= j

Put(h, e) == IF Len(h.slots) < Inline THEN [h EXCEPT !.slots = Append(@, e)]
             ELSE [h EXCEPT !.extra = Append(@, e)]
Set(h, e) ==
    CASE At(h.slots, e.key) # {} -> [h EXCEPT !.slots[First(At(h.slots, e.key))] = e]
      [] At(h.slots, e.key) = {} /\ At(h.extra, e.key) # {} -> [h EXCEPT !.extra[First(At(h.extra, e.key))] = e]
      [] OTHER -> Put(h, e)

(* Del fills the gap with the last entry of the same part, and looks at that *)
(* one again.                                                                *)
FirstOnly(s, k) ==                                   \* mutant: the entry moved up is skipped
    IF At(s, k) = {} THEN s ELSE SubSeq([s EXCEPT ![First(At(s, k))] = s[Len(s)]], 1, Len(s) - 1)
Without(s, k) ==
    LET W[i \in 0..Len(s)] ==       \* i entries still to look at, from the front
            IF i = 0 THEN s
            ELSE LET t == W[i - 1]
                     p == At(t, k)
                 IN IF p = {} THEN t
                    ELSE SubSeq([t EXCEPT ![First(p)] = t[Len(t)]], 1, Len(t) - 1)
    IN W[Len(s)]
Del(h, k) == [slots |-> Without(h.slots, k), extra |-> Without(h.extra, k)]

(* The Ctx keeps what it is told in respHeaders and cookies until it sends.  *)
SetHeader(k, v) ==
    LET h == [x \in DOMAIN r.respHeaders \cup {k} |-> IF x = k THEN <<v>> ELSE r.respHeaders[x]] IN
    /\ r' = [r EXCEPT !.respHeaders = h, !.ops = @ + 1]
    /\ asked' = [asked EXCEPT !.held = h]
AddHeader(k, v) ==
    LET had == IF k \in DOMAIN r.respHeaders THEN r.respHeaders[k] ELSE <<>>
        h == [x \in DOMAIN r.respHeaders \cup {k} |-> IF x = k THEN Append(had, v) ELSE r.respHeaders[x]]
    IN /\ r' = [r EXCEPT !.respHeaders = h, !.ops = @ + 1]
       /\ asked' = [asked EXCEPT !.held = h]
SetCookie(v) ==
    /\ r' = [r EXCEPT !.cookies = Append(@, v), !.ops = @ + 1]
    /\ asked' = [asked EXCEPT !.cookies = Append(@, v)]

(* Middleware may also use ResponseWriter().Header(), which acts at once.    *)
Direct(k, v) ==
    LET e == [key |-> k, val |-> v]
        others == SelectSeq(asked.direct, LAMBDA x : x.key # k)
    IN \/ /\ r' = [r EXCEPT !.headers = Set(@, e), !.ops = @ + 1]
          /\ asked' = [asked EXCEPT !.direct = Append(others, e),
                                    !.several = IF Len(others) + 1 < Len(asked.direct) THEN @ \cup {k} ELSE @]
       \/ /\ r' = [r EXCEPT !.headers = Put(@, e), !.ops = @ + 1]
          /\ asked' = [asked EXCEPT !.direct = Append(@, e)]
       \/ /\ r' = [r EXCEPT !.headers = Del(@, k), !.ops = @ + 1]
          /\ asked' = [asked EXCEPT !.direct = others, !.several = @ \ {k}]

HeaderOp ==
    /\ r.taken /\ ~r.done /\ r.ops < IF reqs = 1 THEN MaxHeaders ELSE 1
    /\ LET v == <<reqs, r.ops>> IN
       \/ \E k \in Keys : SetHeader(k, v) \/ AddHeader(k, v) \/ Direct(k, v)
       \/ SetCookie(v)
    /\ UNCHANGED <<heap, wire, reqs>>

(* writeHeadersGeneric at the send: the map in any order, Set for the first  *)
(* value of a key and Add for the others, and the cookies by Add.            *)
writeHeadersGeneric(h) ==
    LET put(x, e) == Put(x, e)
        one(x, k) == FoldLeft(put, Set(x, [key |-> k, val |-> r.respHeaders[k][1]]),
                              [i \in 1..(Len(r.respHeaders[k]) - 1) |->
                                  [key |-> k, val |-> r.respHeaders[k][i + 1]]])
        all(o) == FoldLeft(one, h, o)
    IN {FoldLeft(put, all(o), [i \in DOMAIN r.cookies |-> [key |-> "Set-Cookie", val |-> r.cookies[i]]]) :
           o \in SetToSeqs(DOMAIN r.respHeaders)}

-----------------------------------------------------------------------------
(* The lanes *)

(* append(r.body, data...): in place while the array has room. *)
Write(data) ==
    LET b == r.body
        fits == b.len + Len(data) <= Len(heap[b.arr])
        a == IF fits THEN b.arr ELSE "own"
        new == SubSeq(heap[b.arr], 1, b.len) \o data
        tail == SubSeq(heap[b.arr], Len(new) + 1, Len(heap[b.arr]))
    IN /\ heap' = [heap EXCEPT ![a] = IF fits THEN new \o tail ELSE new]
       /\ \E h \in writeHeadersGeneric(r.headers) :
             r' = [r EXCEPT !.headers = h, !.body = Slice(a, b.len + Len(data)), !.status = asked'.status,
                            !.done = TRUE]

Data == {<<reqs>>, <<reqs, reqs, reqs>>}
Ask(code, data, lane) == asked' = [asked EXCEPT !.status = code, !.body = data, !.lane = lane]
canBypassHeaderWrite == DOMAIN r.respHeaders = {} /\ r.cookies = <<>>

SendBytes(code, data) ==
    Ask(code, data, "generic") /\ Write(data)
SetJSON(code, data) ==
    /\ canBypassHeaderWrite /\ Ask(code, data, "json")
    /\ heap' = [heap EXCEPT !["fresh"] = data]
    /\ r' = [r EXCEPT !.body = Slice("fresh", Len(data)), !.lane = "json", !.status = code, !.done = TRUE]
SetJSONStream(code, data) ==
    /\ canBypassHeaderWrite /\ Ask(code, data, "json")
    /\ heap' = [heap EXCEPT !["json"] = data]
    /\ r' = [r EXCEPT !.body = Slice("json", Len(data)), !.lane = "json", !.status = code, !.done = TRUE]
SetStringBody(code, data) ==
    /\ canBypassHeaderWrite /\ Ask(code, data, "string")
    /\ r' = [r EXCEPT !.headers = NoHeaders, !.body.len = 0, !.lane = "string", !.string = data,
                      !.status = code, !.done = TRUE]
    /\ UNCHANGED heap

(* SendStaticJSON: the shared slice itself becomes the body. *)
SendStaticJSON(code) ==
    /\ canBypassHeaderWrite /\ Ask(code, StaticJSON, "static")
    /\ r' = [r EXCEPT !.body = Slice("static", 2), !.lane = "json", !.status = code, !.done = TRUE]
    /\ UNCHANGED heap

(* A duplicated file, sent after the headers. *)
SetSendFile(code) ==
    /\ Ask(code, <<reqs>>, "file")
    /\ \E h \in writeHeadersGeneric(r.headers) :
          r' = [r EXCEPT !.headers = h, !.file = TRUE, !.status = code, !.done = TRUE]
    /\ UNCHANGED heap

Text(code, data) == IF canBypassHeaderWrite THEN SetStringBody(code, data) ELSE SendBytes(code, data)

(* What a path below a static prefix names, and the status of the text it is *)
(* answered with; 0 when there is a file to send.  The fallback of a single  *)
(* page application turns a missing path into its index file.                *)
StaticPaths == {"climbs", "file", "dirWithIndex", "dir", "missing"}
staticStatus(p, spa, browse) ==
    CASE p = "climbs" -> 403
      [] p = "dir" -> IF browse THEN 200 ELSE 404
      [] p = "missing" /\ ~spa -> 404
      [] OTHER -> 0

(* The file goes out by sendfile, or is read and sent if it is not a file of *)
(* the system or has no second descriptor; stat and read may fail.  A file   *)
(* has the status the Ctx has then, 200 unless a middleware set another.     *)
staticHandler(p, spa, browse, status) ==
    LET code == staticStatus(p, spa, browse) IN
    IF code # 0 THEN Text(code, <<reqs>>)
    ELSE SetSendFile(status) \/ SendBytes(status, <<reqs>>) \/ Text(500, <<reqs>>)

Respond ==
    /\ r.taken /\ ~r.done
    /\ \E code \in Codes :
         \/ \E data \in Data : \/ SendBytes(code, data) \/ SetJSON(code, data)
                               \/ SetJSONStream(code, data) \/ SetStringBody(code, data)
         \/ SendStaticJSON(code)
         \/ \E p \in StaticPaths, spa, browse \in BOOLEAN : staticHandler(p, spa, browse, code)
    /\ UNCHANGED <<wire, reqs>>

-----------------------------------------------------------------------------
(* Serialization *)

Message(code, hdrs, body) == <<[status |-> code, headers |-> hdrs, body |-> body]>>

jsonStatusLine(code) == IF code \in Known THEN code ELSE 200

(* buildZeroCopy, appendTo, appendStringTo, appendJSONTo: one lane each. *)
build ==
    LET lines == r.headers.slots \o r.headers.extra IN
    CASE r.file -> Message(jsonStatusLine(r.status), lines, <<reqs>>)
      [] ~r.file /\ r.lane = "string" -> Message(r.status, <<>>, r.string)
      [] ~r.file /\ r.lane = "json" -> Message(jsonStatusLine(r.status), <<>>, Bytes(r.body))
      [] OTHER -> Message(r.status, lines, Bytes(r.body))

(* The caller serializes and gives the object back; the body keeps its array.*)
Released == [taken |-> FALSE, done |-> FALSE, status |-> 0, headers |-> NoHeaders, lane |-> "generic",
             string |-> <<>>, file |-> FALSE, ops |-> 0, respHeaders |-> NoneHeld, cookies |-> <<>>]
releaseResponse ==
    /\ r.taken /\ r.done
    /\ wire' = build
    /\ r' = Released @@ [body |-> [r.body EXCEPT !.len = 0]]
    /\ UNCHANGED <<heap, asked, reqs>>

PInit ==
    /\ r = Released @@ [body |-> Slice("own", 0)]
    /\ heap = [own |-> <<9>>, json |-> <<9>>, static |-> StaticJSON, fresh |-> <<9>>]
    /\ asked = NothingAsked
    /\ wire = <<>> /\ reqs = 0

PNext == Acquire \/ HeaderOp \/ Respond \/ releaseResponse

PSpec == PInit /\ [][PNext]_pvars

-----------------------------------------------------------------------------
(* The lines a response should have for key k: what the Ctx was told         *)
(* overrides what was set directly, whichever came first, and cookies are    *)
(* added to both.                                                            *)
FromCtx(k) == (IF k \in DOMAIN asked.held THEN asked.held[k] ELSE <<>>)
              \o (IF k = "Set-Cookie" THEN asked.cookies ELSE <<>>)
Due(k) ==
    LET d == SelectSeq(asked.direct, LAMBDA e : e.key = k) IN
    (IF k \in DOMAIN asked.held THEN <<>> ELSE [i \in DOMAIN d |-> d[i].val]) \o FromCtx(k)

(* What a response says is what its handler asked for, whatever the object   *)
(* was used for before and whichever lane wrote it: the status, the body,    *)
(* every header and cookie of the request and nothing of an earlier one.     *)
(* Where the code does otherwise, it does just this:                         *)
(*  - on the JSON and file lanes a status without a prepared line goes out   *)
(*    as 200;                                                                *)
(*  - on the JSON and string lanes headers set directly are dropped, though  *)
(*    contrib/ratelimit/ratelimit.go:68-70 sets them that way because these  *)
(*    lanes "bypass writeHeaders()";                                         *)
(*  - Set on a key that has several values replaces the first and leaves the *)
(*    others (`several`, and the Ctx's own Set at the send): of those it is  *)
(*    only claimed that no value of the Ctx is missing;                      *)
(*  - SendStaticJSON makes the application's slice the buffer of the pooled  *)
(*    object: once a later response has been appended into it, the slice is  *)
(*    no longer what the application made it.                                *)
Lanes(S) == asked.lane \in S
Left(k) == k \in asked.several \/ (k \in DOMAIN asked.held /\ Cardinality(At(asked.direct, k)) > 1)
ResponseExact ==
    wire # <<>> =>
        LET m == wire[1]
            lines(k) == SelectSeq(m.headers, LAMBDA e : e.key = k)
            vals(k) == {lines(k)[i].val : i \in DOMAIN lines(k)}
        IN
        /\ m.status = IF asked.status \in Known \/ Lanes({"generic", "string"}) THEN asked.status ELSE 200
        /\ m.body = asked.body \/ (Lanes({"static"}) /\ heap["static"] # StaticJSON)
        /\ IF Lanes({"generic", "file"})
           THEN \A k \in Keys :
                  /\ \A v \in vals(k) : v[1] = reqs
                  /\ ToSet(FromCtx(k)) \subseteq vals(k)
                  /\ ~Left(k) => vals(k) = ToSet(Due(k)) /\ Len(lines(k)) = Len(Due(k))
           ELSE m.headers = <<>> /\ asked.held = NoneHeld /\ asked.cookies = <<>>
=============================================================================
