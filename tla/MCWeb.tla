-------------------------------- MODULE MCWeb --------------------------------
(***************************************************************************)
(* The path of a request through the framework, part by part: the router,  *)
(* the serve functions with their pooled Ctx, Wing's request reader, Wing's *)
(* pooled response and the typed handlers, added to the parts of MCContrib. *)
(* The parts share no state; part says which of them a behaviour is about, *)
(* and the variables of the others keep the value 0.                       *)
(***************************************************************************)
EXTENDS MCContrib

VARIABLES
    regs, trees, middleware, rphase, staticRoutes, allowedMethodsCache, rreq,
    app, n, c, stage, target, sops, resp, fired, want, fail, bare,
    stream, path, sock, mem, readN, phase, need, bodyBuf, headerSnapshot, handed, live, ka,
    r, slices, asked, bytes, reqs,
    struct, plan, custom, route, treq, tat, val, treply, hooked

router == <<regs, trees, middleware, rphase, staticRoutes, allowedMethodsCache, rreq>>
server == <<app, n, c, stage, target, sops, resp, fired, want, fail, bare>>
reader == <<stream, path, sock, mem, readN, phase, need, bodyBuf, headerSnapshot, handed, live, ka>>
response == <<r, slices, asked, bytes, reqs>>
typed == <<struct, plan, custom, route, treq, tat, val, treply, hooked>>

routerOff == regs = 0 /\ trees = 0 /\ middleware = 0 /\ rphase = 0 /\ staticRoutes = 0
             /\ allowedMethodsCache = 0 /\ rreq = 0
serverOff == app = 0 /\ n = 0 /\ c = 0 /\ stage = 0 /\ target = 0 /\ sops = 0 /\ resp = 0
             /\ fired = 0 /\ want = 0 /\ fail = 0 /\ bare = 0
readerOff == stream = 0 /\ path = 0 /\ sock = 0 /\ mem = 0 /\ readN = 0 /\ phase = 0
             /\ need = 0 /\ bodyBuf = 0 /\ headerSnapshot = 0 /\ handed = 0 /\ live = 0 /\ ka = 0
responseOff == r = 0 /\ slices = 0 /\ asked = 0 /\ bytes = 0 /\ reqs = 0
typedOff == struct = 0 /\ plan = 0 /\ custom = 0 /\ route = 0 /\ treq = 0 /\ tat = 0
            /\ val = 0 /\ treply = 0 /\ hooked = 0

---------------------------------------------------------------------------
(* Router: two methods, nested groups, routes whose texts share prefixes,  *)
(* paths with dots and escapes.                                            *)

seg(kind, text, name) == [kind |-> kind, text |-> text, name |-> name, opt |-> FALSE, rx |-> {}]
static(t) == seg("static", t, "")
param(x) == seg("param", <<>>, x)
optional(x) == [param(x) EXCEPT !.opt = TRUE]
a == <<"a">>
ab == <<"a", "b">>
dot == <<".">>
dots == <<".", ".">>
reg(m, g, s) == [m |-> m, g |-> g, segs |-> s]
Registrations ==
    {reg("GET", 0, s) : s \in {<<>>, <<static(a)>>, <<static(ab)>>, <<static(a), static(ab)>>,
        <<param("x")>>, <<param("x"), static(a)>>, <<static(a), optional("y")>>,
        <<param("y"), static(ab)>>, <<[param("z") EXCEPT !.rx = {ab}]>>, <<seg("wild", <<>>, "w")>>}}
    \cup {reg("GET", 2, s) : s \in {<<static(a), optional("y")>>, <<static(ab)>>, <<seg("wild", <<>>, "w")>>}}
    \cup {reg("POST", 1, <<static(ab)>>), reg("POST", 0, <<optional("x")>>)}
piece(t, e) == [text |-> t, enc |-> e]
plain(ts) == [i \in DOMAIN ts |-> piece(ts[i], 0)]
Targets ==
    {plain(s) : s \in {<<>>, <<a>>, <<ab>>, <<a, a>>, <<a, ab>>, <<ab, a>>, <<ab, ab>>, <<a, ab, a>>,
                       <<a, dots, ab>>, <<dots>>}}
    \cup {<<piece(a, 0), piece(dots, 2), piece(dots, 0), piece(a, 0)>>,
          <<piece(a, 1), piece(<<>>, 0), piece(dot, 3), piece(ab, 0)>>,
          <<piece(a, 0), piece(dots, 4)>>, <<piece(<<"%">>, 1)>>, <<piece(<<"a", "%">>, 3)>>}

Rt == INSTANCE Router WITH
    phase <- rphase, req <- rreq,
    Methods <- {"GET", "POST"}, Routes <- Registrations, RawPaths <- Targets,
    GroupParent <- <<0, 1>>, GroupPrefix <- <<<<static(a)>>, <<param("v")>>>>,
    maxRouteParams <- 2, MaxCalls <- 3

---------------------------------------------------------------------------
(* Serving: every serve function with and without hooks, security headers  *)
(* and a custom error handler; two requests in a row on one Ctx.           *)

config(s, h, sec, eh, p) == [serve |-> s, hooks |-> h, sec |-> sec, eh |-> eh, problem |-> p]
Configs ==
    {config(s, FALSE, FALSE, "none", FALSE) : s \in {"http", "kruda", "fast"}}
    \cup {config(s, TRUE, TRUE, "none", TRUE) : s \in {"http", "kruda", "fast"}}
    \cup {config("kruda", TRUE, FALSE, eh, FALSE) : eh \in {"eager", "lazy"}}
    \cup {config("single", FALSE, sec, "none", FALSE) : sec \in BOOLEAN}

Sv == INSTANCE Serve WITH ops <- sops, Apps <- Configs, MaxReqs <- 2, MaxOps <- 2

---------------------------------------------------------------------------
(* Reading: one request with up to three field lines followed by another,  *)
(* and pipelines with bodies, blank lines and limits.                      *)

L == "line11"
get == <<L, "hostA", "crlf">>
post == <<L, "hostB", "cl2", "crlf", "p", "q">>
FieldLines == {"hostA", "hostB", "cl0", "cl1", "cl2", "cl3", "clPlus", "hostBad", "te", "close",
               "keep", "expect", "other", "long", "fold", "badName", "badValue"}
Odd ==
    {<<l>> \o f \o <<"crlf", "p", "q">> : l \in {"line11", "line10", "lineToken", "lineBad"},
         f \in {<<x, y>> : x \in {"hostA", "cl2", "expect", "bareLF"}, y \in FieldLines}
               \cup {<<x, y, z>> : x \in {"hostA", "hostB"}, y \in {"cl1", "cl2"}, z \in FieldLines}}
Sent ==
    Odd \cup {get \o post \o get, post \o get \o post, <<"crlf">> \o get \o <<"crlf">> \o post,
      <<"crlf">> \o post \o <<L, "hostA", "close", "crlf">> \o get,
      <<"line10", "keep", "crlf">> \o post, <<"line10", "crlf">> \o get \o post,
      post \o <<L, "hostA", "te", "crlf", "p", "q", "r">>,
      <<L, "hostB", "cl3", "crlf", "p", "q", "r">> \o get,
      <<L, "hostA", "bareLF", "cl1", "crlf", "p">> \o get,
      <<L, "other", "other", "other", "hostA", "crlf">> \o get,
      <<L, "hostB", "expect", "cl2", "crlf", "p", "q">> \o post}

Rd == INSTANCE WingHTTP WITH
    out <- handed,
    Streams <- Sent, ReadBufSize <- 6, maxHeaderCount <- 3, bodyLimit <- 3, maxContentLength <- 2

---------------------------------------------------------------------------
(* Wing's response: two slots, so that four header calls overflow them, and *)
(* three requests, so that what the second leaves in a shared slice shows.  *)

Rs == INSTANCE WingResponse WITH heap <- slices, wire <- bytes,
    Inline <- 2, MaxRequests <- 3, MaxHeaders <- 4

---------------------------------------------------------------------------
(* Typed handlers: structs that differ in one respect each (a rule, a tag, *)
(* the order, the kind), so that each is a stale version of another.       *)

rule(name, k) == [name |-> name, p |-> [num |-> TRUE, int |-> TRUE, n |-> k]]
decimal(name, k) == [name |-> name, p |-> [num |-> TRUE, int |-> FALSE, n |-> k]]
noarg(name) == [name |-> name, p |-> [num |-> FALSE, int |-> FALSE, n |-> 0]]
field(nm, k, q, d, rs) == [name |-> nm, kind |-> k, query |-> q, param |-> "", json |-> FALSE, form |-> FALSE,
                           def |-> d, omit |-> FALSE, rules |-> rs]
fA == field("A", "int", "q", 0, <<rule("min", 5)>>)
fB == field("B", "string", "b", 1, <<>>)
Inputs == {
    <<fA, fB>>, <<fB, fA>>,
    <<[fA EXCEPT !.query = "b"], [fB EXCEPT !.query = "q"]>>,
    <<[fA EXCEPT !.rules = <<decimal("min", 5)>>], [fB EXCEPT !.rules = <<rule("max", 2)>>]>>,
    <<[fA EXCEPT !.param = "p", !.def = 5, !.omit = TRUE, !.rules = <<rule("min", 5), rule("max", 9)>>]>>,
    <<[fA EXCEPT !.kind = "uint", !.rules = <<rule("max", 0 - 1)>>],
      [fB EXCEPT !.def = 0, !.rules = <<noarg("required"), noarg("exotic")>>]>>,
    <<[fA EXCEPT !.json = TRUE, !.rules = <<rule("min", 2), rule("lt", 6)>>],
      [fB EXCEPT !.json = TRUE, !.param = "p", !.rules = <<noarg("min")>>]>>,
    <<fA, [fB EXCEPT !.rules = <<rule("min", 2)>>]>>,
    <<[fA EXCEPT !.query = "", !.def = 2, !.rules = <<noarg("exotic")>>]>>,
    <<[fA EXCEPT !.json = TRUE, !.rules = <<>>], [fB EXCEPT !.form = TRUE]>>,
    <<[fA EXCEPT !.form = TRUE, !.kind = "file", !.query = "", !.rules = <<noarg("required")>>],
      [fB EXCEPT !.form = TRUE, !.kind = "files", !.query = ""]>>}
digit(k) == [len |-> 1, num |-> TRUE, n |-> k]
word == [len |-> 3, num |-> FALSE, n |-> 0]
pair(k, t) == [key |-> k, eq |-> TRUE, text |-> t]
blank == [len |-> 0, num |-> FALSE, n |-> 0]
Asks == [body : {[kind |-> k, fields |-> <<>>] : k \in {"empty", "malformed", "too large"}}
                \cup {[kind |-> "json", fields |-> [A |-> 5]],
                      [kind |-> "multipart", fields |-> [A |-> 2, B |-> 2]],
                      [kind |-> "multipart", fields |-> [B |-> 0]]},
         query : {<<>>, <<pair("q", digit(4)), pair("q", digit(7))>>, <<pair("q", blank), pair("q", digit(7))>>,
                  <<[pair("q", blank) EXCEPT !.eq = FALSE], pair("b", word), pair("q", digit(7))>>}
                 \cup {<<pair("q", t), pair("b", u)>> : t, u \in {digit(4), digit(7), word}},
         param : UNION {[t -> {digit(4), word}] : t \in {{}, {"p"}}}]

Ty == INSTANCE Typed WITH req <- treq, at <- tat, reply <- treply,
    Structs <- Inputs, Requests <- Asks

---------------------------------------------------------------------------
webOff == routerOff /\ serverOff /\ readerOff /\ responseOff /\ typedOff

Init ==
    \/ ContribInit /\ webOff
    \/ /\ contribOff
       /\ \/ part = "router" /\ Rt!RInit /\ serverOff /\ readerOff /\ responseOff /\ typedOff
          \/ part = "server" /\ Sv!SInit /\ routerOff /\ readerOff /\ responseOff /\ typedOff
          \/ part = "reader" /\ Rd!HInit /\ routerOff /\ serverOff /\ responseOff /\ typedOff
          \/ part = "response" /\ Rs!PInit /\ routerOff /\ serverOff /\ readerOff /\ typedOff
          \/ part = "typed" /\ Ty!TypedInit /\ routerOff /\ serverOff /\ readerOff /\ responseOff

Next ==
    \/ ContribNext /\ UNCHANGED <<router, server, reader, response, typed>>
    \/ /\ UNCHANGED <<part, contrib>>
       /\ \/ part = "router" /\ Rt!RNext /\ UNCHANGED <<server, reader, response, typed>>
          \/ part = "server" /\ Sv!SNext /\ UNCHANGED <<router, reader, response, typed>>
          \/ part = "reader" /\ Rd!HNext /\ UNCHANGED <<router, server, response, typed>>
          \/ part = "response" /\ Rs!PNext /\ UNCHANGED <<router, server, reader, typed>>
          \/ part = "typed" /\ Ty!TypedNext /\ UNCHANGED <<router, server, reader, response>>

---------------------------------------------------------------------------
(* router.go: a lookup finds the most specific matching route, with         *)
(* backtracking, and binds that route's params and no others.               *)
FindsBest == part = "router" => Rt!FindsBest

(* router.go: the static map, the allowed-methods cache and the flattened   *)
(* tree answer 200, 405 or 404 as the registered patterns say, the Allow    *)
(* header names the methods that match, and a path is refused exactly when  *)
(* it climbs above the root or cannot be decoded.                           *)
StatusExact == part = "router" => Rt!StatusExact

(* ctx_lifecycle.go: user code never sees what an earlier request stored in *)
(* the pooled Ctx, but for the pattern of one that bound no param and the   *)
(* fields a serve function does not reset.                                  *)
CtxFresh == part = "server" => Sv!CtxFresh

(* app_serve.go: each request gets one response, with the status of the     *)
(* first failure, nothing of its internals, and every header and cookie set *)
(* before it was sent, except on two lanes of fasthttp.                     *)
OneRightResponse == part = "server" => Sv!OneRightResponse

(* app_serve.go: hooks run once each, BeforeHandle in front of the          *)
(* middleware, and OnResponse last unless user code panicked, when no hook  *)
(* runs any more.                                                           *)
HooksInOrder == part = "server" => Sv!HooksInOrder

(* wing_http.go, wing_transport.go: the requests handed to the handlers do  *)
(* not depend on how the stream is cut into reads, up to the answer that    *)
(* should be the last; behind one that waits for the socket they are still  *)
(* the requests of the stream in its order.                                 *)
SegmentationFree == part = "reader" => Rd!SegmentationFree

(* wing_http.go: no request that a strict reader would refuse reaches a     *)
(* handler.                                                                 *)
HandledWellFormed == part = "reader" => Rd!HandledWellFormed

(* wing_http.go: the strings that alias the read buffer keep their text     *)
(* while a handler may read them.                                           *)
AliasStable == part = "reader" => Rd!AliasStable

(* wing_http.go: a pooled response says what this request's handler asked   *)
(* for, on every lane, with the deviations that Rs!ResponseExact lists.     *)
ResponseExact == part = "response" => Rs!ResponseExact

(* bind.go, validation.go: a typed handler runs exactly on the input the    *)
(* request describes, whichever plan parses and validates it.               *)
InputExact == part = "typed" => Ty!InputExact
=============================================================================
