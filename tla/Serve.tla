-------------------------------- MODULE Serve --------------------------------
(***************************************************************************)
(* The life of one pooled Ctx: ServeHTTP, serveKruda (Wing and the generic *)
(* transports), the single-handler lane and ServeFast take it, reset it,   *)
(* run hooks and handlers on it, send the response and put it back.  A Ctx *)
(* serves one request at a time, so one Ctx and a sequence of requests     *)
(* show everything one request can leave behind for the next.              *)
(*                                                                         *)
(* A per-request field holds the number of the request that wrote it, 0    *)
(* when it is empty; a response holds what reached the transport.          *)
(***************************************************************************)
EXTENDS Naturals, Sequences, FiniteSets, TLC

CONSTANTS
    Apps,       \* app configurations: [serve, hooks, sec, eh, problem]
    MaxReqs,    \* bound: requests on this Ctx
    MaxOps      \* bound: calls the first handler makes on the Ctx, each later one a call less

VARIABLES
    app,        \* the App's configuration, fixed
    n,          \* number of the current request
    c,          \* the Ctx
    stage,      \* where the serve function stands
    target,     \* what the request path leads to
    ops,        \* calls the handler may still make
    resp,       \* what the transport has been given for request n
    fired,      \* hooks, middleware and handlers run for request n
    want,       \* headers request n set before its response was sent
    fail,       \* status an error or a panic called for, 0 if none
    bare        \* history: the requests that found a route with no param to bind

svars == <<app, n, c, stage, target, ops, resp, fired, want, fail, bare>>

(* The serve functions; "single" is serveWingSingleHandler and its twin. *)
ServeFuncs == {"http", "kruda", "single", "fast"}
Targets == {"static", "bare", "param", "missing", "method", "traversal"}
Slots == {"cache", "location", "custom", "cookie"}

(* Fields a request writes and the next one must not see. *)
Fields == {"params", "pattern", "startTime", "headers", "respHeaders", "locals", "cookies",
           "body", "bodyBytes", "ctx", "contentType", "cacheControl", "location", "logger",
           "handlers", "multipartForm"}

newCtx == [f \in Fields |-> 0] @@ [status |-> 200, responded |-> FALSE,
                                   bodyParsed |-> FALSE, dirty |-> {}]
NoResp == [sent |-> 0, status |-> 200, hdrs |-> {}, body |-> FALSE, lane |-> "", text |-> {}]

Clear(x, fs) == [f \in DOMAIN x |-> IF f \in fs THEN 0 ELSE x[f]]

-----------------------------------------------------------------------------
(* Reset on entry and cleanup on exit *)

Fixed == {"contentType", "cacheControl", "location", "logger"}

(* Ctx.reset: the maps are left to cleanup; the pattern goes with the        *)
(* params, and stays when there are none.                                    *)
reset(x) ==
    [Clear(x, Fixed \cup {"handlers", "startTime", "ctx"}
              \cup (IF x.params # 0 THEN {"params", "pattern"} ELSE {}))
     EXCEPT !.status = 200, !.responded = FALSE, !.dirty = {}, !.bodyParsed = FALSE]
resetWing(x) == reset(x)     \* the same assignments, without the interfaces

(* The inline reset of ServeHTTP, up to the traversal check. *)
resetHTTP(x) ==
    [Clear(x, Fixed \cup {"handlers", "bodyBytes", "body", "respHeaders", "cookies", "headers",
                          "locals", "multipartForm"})
     EXCEPT !.status = 200, !.responded = FALSE, !.bodyParsed = FALSE, !.ctx = n']

(* The inline reset of ServeFast: only the number of params is cleared. *)
resetFast(x) ==
    [Clear(x, Fixed \cup {"params"})
     EXCEPT !.status = 200, !.responded = FALSE, !.dirty = {}, !.bodyParsed = FALSE]

LocalsStay(d) == d \cap {"headers", "respHeaders", "cookies", "body", "bodyBytes",    \* mutant
                         "multipartForm"}
DirtyFields(d) == d \cap {"headers", "respHeaders", "locals", "cookies", "body", "bodyBytes",
                          "multipartForm"}

(* Ctx.cleanup, with shrinkMaps: dirty fields, and the per-request pointers. *)
cleanup(x) == [Clear(x, DirtyFields(x.dirty) \cup {"handlers", "ctx", "logger"})
               EXCEPT !.dirty = {}]

(* The cleanup block of ServeFast. *)
cleanupFast(x) == Clear(x, {"handlers"} \cup DirtyFields(x.dirty) \cup (x.dirty \cap {"ctx"}))

-----------------------------------------------------------------------------
(* Sending *)

CookiesForgotten(x, includeSecurityHeaders) ==       \* mutant: cookies take the fast lane
    /\ x.cacheControl = 0 /\ x.location = 0 /\ x.respHeaders = 0
    /\ ~(includeSecurityHeaders /\ app.sec)
canBypassHeaderWrite(x, includeSecurityHeaders) ==
    /\ x.cacheControl = 0 /\ x.location = 0 /\ x.respHeaders = 0 /\ x.cookies = 0
    /\ ~(includeSecurityHeaders /\ app.sec)

(* The headers the Ctx holds when it writes them.  Security headers: on      *)
(* net/http and fasthttp they went into the response before the handler.     *)
Held(x) ==
    {s \in {"ctype", "cache", "location", "custom", "cookie"} :
        CASE s = "ctype" -> x.contentType # 0
          [] s = "cache" -> x.cacheControl # 0
          [] s = "location" -> x.location # 0
          [] s = "custom" -> x.respHeaders # 0
          [] s = "cookie" -> x.cookies # 0}
writeHeadersNetHTTP(x) == Held(x)
writeHeadersFastHTTP(x) == Held(x)
writeHeadersGeneric(x) == Held(x) \cup (IF app.sec THEN {"sec"} ELSE {})
writeHeaders(x) ==
    CASE app.serve = "http" -> writeHeadersNetHTTP(x)
      [] app.serve = "fast" -> writeHeadersFastHTTP(x)
      [] OTHER -> writeHeadersGeneric(x)

(* The lanes that write status, type and body and nothing else. *)
FastLane(op, x) ==
    CASE app.serve = "fast" ->
           \/ op \in {"JSON", "Text"} /\ canBypassHeaderWrite(x, FALSE)
           \/ op \in {"SendBytesWithType", "SendStaticJSON"}
      [] app.serve = "http" -> op \in {"JSON", "Text"} /\ canBypassHeaderWrite(x, FALSE)
      [] OTHER -> /\ op \in {"JSON", "Text", "HTML", "SendBytesWithType", "SendStaticJSON"}
                  /\ canBypassHeaderWrite(x, TRUE)

Emit(r, x, hdrs, body) ==
    [r EXCEPT !.sent = @ + 1, !.status = x.status, !.hdrs = @ \cup hdrs, !.body = body]

(* The lanes that write the content type and the body, and nothing held.     *)
SendWithType(r, x) == Emit(r, x, {"ctype"}, TRUE)

(* JSON, Text, HTML, SendBytes...: the state after the call, as <<ctx, resp>>. *)
Send(op, x, r) ==
    LET y == [x EXCEPT !.responded = TRUE,
                       !.contentType = IF op = "SendBytes" \/ FastLane(op, x) THEN @ ELSE n]
        s == IF FastLane(op, x) THEN SendWithType(r, y) ELSE Emit(r, y, writeHeaders(y), TRUE)
    IN IF x.responded THEN <<x, r>>                     \* ErrAlreadyResponded
       ELSE <<y, [s EXCEPT !.lane = op]>>

(* send(): Redirect, NoContent and the lazy flush of serveKruda. *)
send(x, r) ==
    LET has == x.body # 0 /\ x.status # 204
        y == [x EXCEPT !.responded = TRUE, !.body = 0]
    IN IF x.responded THEN <<x, r>> ELSE <<y, Emit(r, x, writeHeaders(x), has)>>

(* The lazy flush after the handler.  ServeHTTP and ServeFast inline it. *)
flush(x, r) == IF x.body # 0 /\ ~x.responded THEN send(x, r) ELSE <<x, r>>

(* SetHeader: on fasthttp straight into the response, else into slot f. *)
trySetHeaderFastHTTP(r, slot) == [r EXCEPT !.hdrs = @ \cup {slot}]
SetHeader(x, r, f, slot) ==
    IF app.serve = "fast" THEN <<x, trySetHeaderFastHTTP(r, slot)>>
    ELSE <<[x EXCEPT ![f] = n, !.dirty = @ \cup ({f} \cap {"respHeaders"})], r>>

-----------------------------------------------------------------------------
(* Errors *)

(* resolveError: the status an error stands for, and what it says: a message *)
(* meant for users, a detail that may hold internals.  "raw" is an error of  *)
(* the application that nothing maps.                                        *)
Errors == {"kruda4", "kruda5", "mapped4", "mapped5", "raw", "validation"}
Code(e) == CASE e = "kruda4" -> 403 [] e = "mapped4" -> 409 [] e = "validation" -> 422
             [] e = "kruda5" -> 503 [] e = "mapped5" -> 502
             [] e = "notFound" -> 404 [] e = "notAllowed" -> 405 [] e = "badPath" -> 400
             [] OTHER -> 500
Says(e) == IF e = "raw" THEN {"internal"} ELSE {"message", "detail"}

(* What sanitizing leaves of it, and what problem+json shows of that: the    *)
(* detail, or the message when there is none.                                *)
Detail(e) == CASE e = "raw" -> {}
               [] e # "raw" /\ Code(e) >= 500 -> Says(e) \ {"detail"}
               [] OTHER -> Says(e)
Shown(e) == IF app.problem /\ "detail" \in Detail(e) THEN {"detail"} ELSE Detail(e)

(* The default answer: JSON, or sendBytes after Content-Type for a           *)
(* validation error and for problem+json.                                    *)
Answer(e, x, r) ==
    LET d == [x EXCEPT !.status = Code(e)]
        s == SetHeader(d, r, "contentType", "ctype")
    IN CASE app.eh = "eager" -> Send("JSON", d, r)
         [] app.eh = "lazy" -> <<[d EXCEPT !.body = n, !.dirty = @ \cup {"body"}], r>>
         [] app.eh = "none" /\ (app.problem \/ e = "validation") -> Send("SendBytes", s[1], s[2])
         [] OTHER -> Send("JSON", d, r)

(* handleError as <<ctx, resp>>; the OnError hooks always fire. *)
handleError(e, x, r) ==
    IF x.responded THEN <<x, r>>
    ELSE LET a == Answer(e, x, r) IN <<a[1], [a[2] EXCEPT !.text = IF a[2].sent > 0 THEN Shown(e) ELSE {}]>>

OnError == IF app.hooks THEN <<"OnError">> ELSE <<>>

(* The deferred recovery of ServeHTTP, serveKruda and the single lanes. *)
recover(x, r) == IF x.responded THEN <<x, r>> ELSE Send("JSON", [x EXCEPT !.status = 500], r)

-----------------------------------------------------------------------------
(* The serve functions, step by step *)

Goto(s) == stage' = s
Keep == UNCHANGED <<app, n, target, ops, bare>>
Do(cr) == c' = cr[1] /\ resp' = cr[2]
Fire(h) == fired' = fired \o h

(* Ctx from the pool, reset, and the path check.  The single-handler lane is *)
(* taken for a static route only, and never with lifecycle hooks.            *)
Begin ==
    /\ stage = "pool" /\ n < MaxReqs
    /\ n' = n + 1
    /\ target' \in IF app.serve = "single" THEN {"static"} ELSE Targets
    /\ c' = CASE app.serve = "http" -> resetHTTP(c)
              [] app.serve = "fast" -> resetFast(c)
              [] app.serve = "single" -> resetWing(c)
              [] app.serve = "kruda" -> reset(c)
    /\ ops' = MaxOps + 1 - n' /\ resp' = NoResp /\ fired' = <<>> /\ want' = {} /\ fail' = 0
    /\ Goto(IF app.serve = "single" THEN "chain" ELSE "clean")
    /\ UNCHANGED <<app, bare>>

(* cleanPath and its error.  ServeHTTP has not yet reset the params nor      *)
(* written the security headers; ServeFast answers without handleError.      *)
CleanPath ==
    /\ stage = "clean"
    /\ IF target = "traversal"
       THEN IF app.serve = "fast"
            THEN /\ resp' = [resp EXCEPT !.sent = 1, !.status = 400, !.body = TRUE]
                 /\ Goto("put") /\ UNCHANGED <<c, fired>>
            ELSE /\ Do(handleError("badPath", c, resp)) /\ Fire(OnError)
                 /\ Goto("onResponse")
       ELSE /\ c' = IF app.serve = "http" /\ c.params # 0
                    THEN Clear(c, {"params", "pattern"}) ELSE c
            /\ resp' = IF app.sec /\ app.serve \in {"http", "fast"}
                       THEN [resp EXCEPT !.hdrs = {"sec"}] ELSE resp
            /\ Goto(IF app.hooks THEN "onRequest" ELSE "route") /\ UNCHANGED fired
    /\ fail' = IF target = "traversal" THEN 400 ELSE 0
    /\ UNCHANGED want /\ Keep

(* A hook that may refuse: on an error the pipeline goes on at skip. *)
Hook(here, name, next, skip) ==
    /\ stage = here
    /\ \/ Fire(<<name>>) /\ Goto(next) /\ UNCHANGED <<c, resp, fail>>
       \/ \E e \in {"kruda4", "raw"} :
            /\ Do(handleError(e, c, resp)) /\ Fire(<<name>> \o OnError)
            /\ fail' = IF c.responded THEN fail ELSE Code(e)
            /\ Goto(skip)
    /\ UNCHANGED want /\ Keep

OnRequestLeaves == Hook("onRequest", "OnRequest", "route", "put")     \* mutant: a bare return
OnRequest == Hook("onRequest", "OnRequest", "route", "onResponse")
BeforeHandle == Hook("beforeHandle", "BeforeHandle", "chain", "afterHandle")
AfterHandle == Hook("afterHandle", "AfterHandle", "flush", "flush")

(* router.find.  The static map leaves params and pattern alone, a param     *)
(* route sets both, and a node of the tree without a param (the short form   *)
(* of an optional route, a static route of a method that has no map) sets    *)
(* the pattern, if it has one, and no param.                                 *)
Found(x) ==
    CASE target = "static" -> {x}
      [] target = "bare" -> {[x EXCEPT !.pattern = k] : k \in {0, n}}
      [] target = "param" -> {[x EXCEPT !.params = n, !.pattern = n]}
Route ==
    /\ stage = "route"
    /\ bare' = IF target = "bare" THEN bare \cup {n} ELSE bare
    /\ CASE target \in {"static", "bare", "param"} ->
              /\ c' \in Found([c EXCEPT !.handlers = n])
              /\ Goto(IF app.hooks THEN "beforeHandle" ELSE "chain")
              /\ UNCHANGED <<resp, fired, fail, want>>
         [] target = "method" ->
              LET h == SetHeader(c, resp, "respHeaders", "custom") IN
              /\ Do(handleError("notAllowed", h[1], h[2])) /\ Fire(OnError)
              /\ fail' = 405 /\ want' = {"custom"} /\ Goto("onResponse")
         [] target = "missing" ->
              /\ Do(handleError("notFound", c, resp)) /\ Fire(OnError)
              /\ fail' = 404 /\ Goto("onResponse") /\ UNCHANGED want
    /\ UNCHANGED <<app, n, target, ops>>

(* What a handler calls on the Ctx: the state after it, as <<ctx, resp>>. *)
Mark(x, f, d) == [x EXCEPT ![f] = n, !.dirty = @ \cup d]

AddHeader(x, r) == <<Mark(x, "respHeaders", {"respHeaders"}), r>>
SetCookie(x, r) == <<Mark(x, "cookies", {"cookies"}), r>>
Set(x, r) == <<Mark(x, "locals", {"locals"}), r>>
Log(x, r) == <<Mark(x, "logger", {}), r>>
Header(x, r) == <<IF app.serve = "fast" THEN x ELSE Mark(x, "headers", {"headers"}), r>>
BodyBytes(x, r) ==
    <<IF x.bodyParsed THEN x
      ELSE [Mark(x, "bodyBytes", {"bodyBytes"}) EXCEPT !.bodyParsed = TRUE], r>>
MultipartForm(x, r) == <<Mark(x, "multipartForm", {"multipartForm"}), r>>
SetContext(x, r) == <<Mark(x, "ctx", {"ctx"}), r>>
MarkStart(x, r) == <<Mark(x, "startTime", {}), r>>
SetBody(x, r) == <<Mark(x, "body", {"body"}), r>>
JSON(x, r) == Send("JSON", x, r)
Text(x, r) == Send("Text", x, r)
HTML(x, r) == Send("HTML", x, r)
SendBytes(x, r) == Send("SendBytes", x, r)
SendBytesWithType(x, r) == Send("SendBytesWithType", x, r)
SendStaticJSON(x, r) == Send("SendStaticJSON", x, r)
Redirect(x, r) == send([x EXCEPT !.body = 0, !.status = 302, !.location = n], r)
NoContent(x, r) == send([x EXCEPT !.status = 204], r)

Ops == {"SetHeader", "CacheControl", "AddHeader", "SetCookie", "Set", "Log", "Header", "BodyBytes",
        "MultipartForm", "SetContext", "MarkStart", "SetBody", "JSON", "Text", "HTML", "SendBytes",
        "SendBytesWithType", "SendStaticJSON", "Redirect", "NoContent"}

Call(op, x, r) ==
    CASE op = "SetHeader" -> SetHeader(x, r, "respHeaders", "custom")
      [] op = "CacheControl" -> SetHeader(x, r, "cacheControl", "cache")
      [] op = "AddHeader" -> AddHeader(x, r)
      [] op = "SetCookie" -> SetCookie(x, r)
      [] op = "Set" -> Set(x, r)
      [] op = "Log" -> Log(x, r)
      [] op = "Header" -> Header(x, r)
      [] op = "BodyBytes" -> BodyBytes(x, r)
      [] op = "MultipartForm" -> MultipartForm(x, r)
      [] op = "SetContext" -> SetContext(x, r)
      [] op = "MarkStart" -> MarkStart(x, r)
      [] op = "SetBody" -> SetBody(x, r)
      [] op = "JSON" -> JSON(x, r)
      [] op = "Text" -> Text(x, r)
      [] op = "HTML" -> HTML(x, r)
      [] op = "SendBytes" -> SendBytes(x, r)
      [] op = "SendBytesWithType" -> SendBytesWithType(x, r)
      [] op = "SendStaticJSON" -> SendStaticJSON(x, r)
      [] op = "Redirect" -> Redirect(x, r)
      [] op = "NoContent" -> NoContent(x, r)

Wanted(op) == CASE op \in {"SetHeader", "AddHeader"} -> {"custom"}
                [] op = "CacheControl" -> {"cache"}
                [] op = "SetCookie" -> {"cookie"}
                [] op = "Redirect" -> {"location"}
                [] OTHER -> {}

(* Next: the middleware of the chain, which calls Next, and the handler. *)
RunChain ==
    /\ stage = "chain"
    /\ Fire(<<"middleware", "handler">>)
    /\ Goto("handler")
    /\ UNCHANGED <<c, resp, want, fail>> /\ Keep

HandlerOp(op) ==
    /\ stage = "handler" /\ ops > 0
    /\ ops' = ops - 1
    /\ Do(Call(op, c, resp))
    /\ want' = IF c.responded THEN want ELSE want \cup Wanted(op)
    /\ UNCHANGED <<app, n, stage, target, fired, fail, bare>>

AfterChain == IF app.hooks THEN "afterHandle" ELSE "flush"

HandlerReturns ==
    /\ stage = "handler"
    /\ \/ Goto(AfterChain) /\ UNCHANGED <<c, resp, fail, fired>>
       \/ \E e \in Errors :
            /\ Do(handleError(e, c, resp)) /\ Fire(OnError)
            /\ fail' = IF c.responded THEN fail ELSE Code(e)
            /\ Goto(AfterChain)
    /\ UNCHANGED want /\ Keep

(* A panic in user code.  ServeFast has no recovery: the process ends. *)
Panics ==
    /\ stage \in {"onRequest", "beforeHandle", "handler", "afterHandle"}
    /\ Fire(<<"panic">>)
    /\ IF app.serve = "fast" THEN Goto("crashed") /\ UNCHANGED <<c, resp, fail>>
       ELSE /\ Do(recover(c, resp)) /\ Goto("put")
            /\ fail' = IF c.responded THEN fail ELSE 500
    /\ UNCHANGED want /\ Keep

Flush ==
    /\ stage = "flush"
    /\ Do(flush(c, resp))
    /\ Goto(IF app.serve = "single" THEN "put" ELSE "onResponse")
    /\ UNCHANGED <<fired, want, fail>> /\ Keep

OnResponse ==
    /\ stage = "onResponse"
    /\ Fire(IF app.hooks THEN <<"OnResponse">> ELSE <<>>)
    /\ Goto("put")
    /\ UNCHANGED <<c, resp, want, fail>> /\ Keep

(* Cleanup and ctxPool.Put; ServeHTTP only shrinks the maps. *)
Put ==
    /\ stage = "put"
    /\ c' = CASE app.serve = "http" -> c
              [] app.serve = "fast" -> cleanupFast(c)
              [] OTHER -> cleanup(c)
    /\ Goto("pool")
    /\ UNCHANGED <<resp, fired, want, fail>> /\ Keep

SInit ==
    /\ app \in Apps
    /\ n = 0 /\ c = newCtx /\ stage = "pool" /\ target = "static" /\ ops = 0
    /\ resp = NoResp /\ fired = <<>> /\ want = {} /\ fail = 0 /\ bare = {}

SNext ==
    \/ Begin \/ CleanPath \/ OnRequest \/ Route \/ BeforeHandle
    \/ RunChain
    \/ \E op \in Ops : HandlerOp(op)
    \/ HandlerReturns \/ Panics \/ AfterHandle \/ Flush \/ OnResponse \/ Put

SSpec == SInit /\ [][SNext]_svars

-----------------------------------------------------------------------------
UserCode == {"clean", "onRequest", "beforeHandle", "chain", "handler", "afterHandle", "onResponse"}

(* The fields a serve function does not reset: the start time (all but the   *)
(* generic reset), the pattern on fasthttp, the params of the request before *)
(* when ServeHTTP rejects the path; and the pattern of a request that bound  *)
(* no param, since every reset looks at the number of params to decide       *)
(* whether there is a pattern to clear.                                      *)
Unreset(f) ==
    \/ f = "startTime" /\ app.serve \in {"http", "fast"}
    \/ f = "pattern" /\ (app.serve = "fast" \/ c[f] \in bare)
    \/ f \in {"params", "pattern"} /\ app.serve = "http" /\ (stage = "clean" \/ target = "traversal")

(* Hooks and handlers of a request never see what an earlier request on the  *)
(* same pooled Ctx stored, whichever way that request ended: every dirty     *)
(* field is flagged where it is written and cleared before the Ctx is used.  *)
(* The exceptions are those of Unreset.  One of them users can see:          *)
(* Ctx.Route answers on a static route with the pattern of an earlier        *)
(* request, where ctx_request.go:15 says "Returns the raw path if no pattern *)
(* was matched (static routes)"; it is the pattern of a request that bound   *)
(* no param, and never one of a request that did (fasthttp apart).           *)
CtxFresh ==
    stage \in UserCode => \A f \in Fields : c[f] \in {0, n} \/ Unreset(f)

(* The lanes of fasthttp that write no header the Ctx holds. *)
Careless == {"SendBytesWithType", "SendStaticJSON"}

(* The client gets one response and the right one: an error or a panic that  *)
(* comes before any response is answered with its status, later ones change  *)
(* nothing; the text of an error nothing maps never goes out, nor does the   *)
(* detail of a 5xx, while the message meant for users does; and the headers  *)
(* and cookies set before the send, security headers included, are in it     *)
(* whichever lane wrote it, but for one: on fasthttp SendBytesWithType and   *)
(* SendStaticJSON drop added headers and cookies, though ctx_response.go:422 *)
(* says of the latter that it "keeps middleware, lifecycle hooks, cookies,   *)
(* CORS, and security headers in force".  Not claimed either: an answer when *)
(* an error handler sets a lazy body on a path that skips the flush, and the *)
(* security headers of a rejected path.                                      *)
OneRightResponse ==
    stage = "pool" /\ n > 0 =>
        /\ resp.sent <= 1
        /\ "internal" \notin resp.text
        /\ resp.status >= 500 => "detail" \notin resp.text
        /\ fail \in {502, 503} /\ app.eh = "none" => "message" \in resp.text
        /\ fail # 0 /\ app.eh # "lazy" => resp.sent = 1 /\ resp.status = fail
        /\ resp.sent = 1 => want \ resp.hdrs \subseteq
               IF app.serve = "fast" /\ resp.lane \in Careless THEN {"custom", "cookie"} ELSE {}
        /\ resp.sent = 1 /\ app.sec /\ target # "traversal" => "sec" \in resp.hdrs

Index(h) == {i \in DOMAIN fired : fired[i] = h}
InOrder(hs) == \A k \in 1..(Len(hs) - 1) : \A i \in Index(hs[k]), j \in Index(hs[k + 1]) : i < j

(* Lifecycle hooks run at most once each and in this order: OnRequest,       *)
(* BeforeHandle, the middleware, the handler, AfterHandle, OnResponse.       *)
(* OnResponse runs exactly once, last, also after 404, 405 and failing       *)
(* hooks, with two exceptions: ServeFast rejects the path, and a panic, after *)
(* which no hook runs at all.  Both differ from the documents: kruda.go:435  *)
(* and 493 put the middleware in front of BeforeHandle, and app_serve.go:259 *)
(* speaks of an "always runs" guarantee for OnResponse.                      *)
HooksInOrder ==
    /\ \A a \in {"OnRequest", "BeforeHandle", "AfterHandle", "OnResponse"} : Cardinality(Index(a)) <= 1
    /\ InOrder(<<"OnRequest", "BeforeHandle", "middleware", "handler", "AfterHandle", "OnResponse">>)
    /\ Index("panic") # {} => fired[Len(fired)] = "panic"
    /\ stage = "pool" /\ n > 0 /\ app.hooks /\ Index("panic") = {}
          /\ ~(app.serve = "fast" /\ target = "traversal")
        => fired # <<>> /\ fired[Len(fired)] = "OnResponse"
=============================================================================
