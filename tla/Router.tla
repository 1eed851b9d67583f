------------------------------- MODULE Router -------------------------------
(***************************************************************************)
(* The radix-tree router (router.go) and route groups (group.go).          *)
(*                                                                         *)
(* A path is a sequence of characters; a tree is a nested record, one per  *)
(* HTTP method.  Registration builds the trees, Compile sorts, flattens    *)
(* and caches, and a request is cleaned and looked up.  Handlers are named *)
(* by the number of the registration that made them; 0 is nil.             *)
(* Regular expressions are a set of accepted values.  The hit counters are *)
(* abstracted to what Compile uses them for: the order of sibling nodes of *)
(* one kind, which any lookups before Compile may have turned around.      *)
(***************************************************************************)
EXTENDS Naturals, Sequences, FiniteSets, SequencesExt

CONSTANTS
    Methods,        \* standard HTTP methods in use
    Routes,         \* what may be registered: [m, g, segs], on method m of group g (0: the App)
    RawPaths,       \* request paths: sequences of [text, enc]
    GroupParent,    \* GroupParent[g] is g's parent group, 0 for a top-level one
    GroupPrefix,    \* GroupPrefix[g] is the segments g adds to its parent's
    maxRouteParams, \* size of the routeParams array
    MaxCalls        \* bound: calls to Use and to the route methods

VARIABLES
    regs,           \* registrations so far, each with the chain it built
    trees,          \* trees[m] is the root node of method m
    middleware,     \* middleware[0] is the App's, middleware[g] group g's
    phase,          \* "build", "serve" (compiled) or "panic"
    staticRoutes,   \* staticRoutes[m]: path -> handlers, filled by Compile
    allowedMethodsCache,
    req             \* the last request and what became of it

rvars == <<regs, trees, middleware, phase, staticRoutes, allowedMethodsCache, req>>

Groups == DOMAIN GroupParent
NoReq == [state |-> "none"]

-----------------------------------------------------------------------------
(* Segments: [kind, text, name, opt, rx]; rx is the set of values a regex   *)
(* accepts, {} when the segment has none.                                   *)

(* node: a static node has path, a param node param, a wildcard both param and wildcard. *)
Node(p) == [path |-> p, children |-> <<>>, handlers |-> 0, param |-> "",
            wildcard |-> FALSE, rx |-> {}, optional |-> FALSE, routePattern |-> 0]

(* What a panic during registration leaves behind: no tree. *)
Panic == Node(<<"panic">>)

WithChild(n, j, c) == IF c = Panic THEN Panic ELSE [n EXCEPT !.children[j] = c]
AddChild(n, c) == IF c = Panic THEN Panic ELSE [n EXCEPT !.children = Append(@, c)]
SetHandlers(n, h) == IF n.handlers # 0 THEN Panic
                     ELSE [n EXCEPT !.handlers = h, !.routePattern = h]

(* indices: the byte that stands for each child. *)
indices(n) == [i \in DOMAIN n.children |->
                 CASE n.children[i].wildcard -> "*"
                   [] n.children[i].param # "" -> ":"
                   [] OTHER -> n.children[i].path[1]]

IndexOf(s, P(_)) == IF \E i \in DOMAIN s : P(s[i])
                    THEN CHOOSE i \in DOMAIN s : P(s[i]) /\ \A j \in 1..(i-1) : ~P(s[j])
                    ELSE 0
IndexByte(s, b) == IndexOf(s, LAMBDA x : x = b)

longestPrefix(a, b) ==
    CHOOSE i \in 0..Len(a) :
        /\ i <= Len(b) /\ \A j \in 1..i : a[j] = b[j]
        /\ i = Len(a) \/ i = Len(b) \/ a[i+1] # b[i+1]

From(s, i) == SubSeq(s, i, Len(s))

-----------------------------------------------------------------------------
(* Registration.  Each operator returns the new node, or Panic.             *)

RECURSIVE insertRoute(_, _, _, _), splitAndInsert(_, _, _, _, _)

(* A static child for str: the first route to reach a fresh leaf through     *)
(* insertStatic does not record its pattern, one that arrives through        *)
(* splitAndInsert does.                                                      *)
insertStatic(n, str, segs, i, h) ==
    LET j == IndexByte(indices(n), str[1]) IN
    IF j > 0 THEN WithChild(n, j, splitAndInsert(n.children[j], str, segs, i, h))
    ELSE IF i = Len(segs) THEN AddChild(n, [Node(str) EXCEPT !.handlers = h])
    ELSE AddChild(n, insertRoute(Node(str), segs, i + 1, h))

splitAndInsert(n, str, segs, i, h) ==
    LET k    == longestPrefix(str, n.path)
        last == i = Len(segs)
        s    == IF k < Len(n.path)
                THEN [Node(SubSeq(n.path, 1, k)) EXCEPT
                        !.children = <<[n EXCEPT !.path = From(@, k + 1)]>>]
                ELSE n
        rest == From(str, k + 1)
        j    == IF rest = <<>> THEN 0 ELSE IndexByte(indices(s), rest[1])
    IN IF rest = <<>>
       THEN IF last THEN SetHandlers(s, h) ELSE insertRoute(s, segs, i + 1, h)
       ELSE IF j > 0 THEN WithChild(s, j, splitAndInsert(s.children[j], rest, segs, i, h))
       ELSE IF last
       THEN AddChild(s, [Node(rest) EXCEPT !.handlers = h, !.routePattern = h])
       ELSE AddChild(s, insertRoute(Node(rest), segs, i + 1, h))

(* Two wildcards at one node always collide: a wildcard child has handlers. *)
insertWild(n, seg, i, segs, h) ==
    IF i # Len(segs) \/ \E c \in Range(n.children) : c.wildcard THEN Panic
    ELSE AddChild(n, [Node(<<>>) EXCEPT !.param = seg.name, !.wildcard = TRUE,
                                        !.handlers = h, !.routePattern = h])

(* A param segment shares the child of the same name, whatever its regex; a  *)
(* trailing optional one puts its handlers on the parent as well.            *)
insertParam(n, seg, i, segs, h) ==
    LET j     == IndexOf(n.children, LAMBDA c : c.param = seg.name /\ ~c.wildcard)
        fresh == [Node(<<>>) EXCEPT !.param = seg.name, !.rx = seg.rx, !.optional = seg.opt]
        child == IF j > 0 THEN n.children[j] ELSE fresh
        here  == seg.opt /\ i = Len(segs)
        c     == IF here THEN SetHandlers(child, h) ELSE insertRoute(child, segs, i + 1, h)
        p     == IF here THEN SetHandlers(n, h) ELSE n
    IN IF p = Panic THEN Panic
       ELSE IF j > 0 THEN WithChild(p, j, c) ELSE AddChild(p, c)

insertRoute(n, segs, i, h) ==
    IF i > Len(segs) THEN SetHandlers(n, h)
    ELSE CASE segs[i].kind = "wild"   -> insertWild(n, segs[i], i, segs, h)
           [] segs[i].kind = "param"  -> insertParam(n, segs[i], i, segs, h)
           [] segs[i].kind = "static" ->
                insertStatic(n, segs[i].text \o (IF i < Len(segs) THEN <<"/">> ELSE <<>>),
                             segs, i, h)

(* collectMiddleware: outermost group first. *)
RECURSIVE collectMiddleware(_), joinPath(_)
collectMiddleware(g) ==
    IF g = 0 THEN <<>> ELSE collectMiddleware(GroupParent[g]) \o middleware[g]
joinPath(g) == IF g = 0 THEN <<>> ELSE joinPath(GroupParent[g]) \o GroupPrefix[g]

(* buildChain copies global and group middleware at registration.            *)
buildChain(global, group) == global \o group

Calls == Len(regs) + FoldFunction(LAMBDA mws, n : Len(mws) + n, 0, middleware)
Building == phase = "build" /\ Calls < MaxCalls

(* Router.addRoute; a bad or conflicting pattern panics.                     *)
addRoute(m, g, segs, chain) ==
    LET t == insertRoute(trees[m], segs, 1, Len(regs) + 1) IN
    /\ Building
    /\ regs' = Append(regs, [m |-> m, g |-> g, segs |-> segs, chain |-> chain, before |-> middleware])
    /\ IF t = Panic THEN phase' = "panic" /\ UNCHANGED trees
       ELSE trees' = [trees EXCEPT ![m] = t] /\ UNCHANGED phase
    /\ UNCHANGED <<middleware, staticRoutes, allowedMethodsCache, req>>

(* App.Get, Post and the rest; Group.Get, Post and the rest.                 *)
AppRoute(r) ==
    /\ r.g = 0
    /\ addRoute(r.m, 0, r.segs, buildChain(middleware[0], <<>>))
GroupRoute(r) ==
    /\ r.g # 0
    /\ addRoute(r.m, r.g, joinPath(r.g) \o r.segs, buildChain(middleware[0], collectMiddleware(r.g)))

(* A handler is appended to the middleware of g: for later routes only.      *)
AddMiddleware(g) ==
    /\ Building
    /\ middleware' = [middleware EXCEPT ![g] = Append(@, <<g, Len(@) + 1>>)]
    /\ UNCHANGED <<regs, trees, phase, staticRoutes, allowedMethodsCache, req>>
AppUse == AddMiddleware(0)
GroupUse(g) == AddMiddleware(g)     \* and Guard

-----------------------------------------------------------------------------
(* Lookup.  routeParams is a bounded map; a find threads it through.        *)

NoParams == [x \in {} |-> <<>>]
set(ps, k, v) ==
    IF k \in DOMAIN ps THEN [ps EXCEPT ![k] = v]
    ELSE IF Cardinality(DOMAIN ps) < maxRouteParams
    THEN [x \in DOMAIN ps \cup {k} |-> IF x = k THEN v ELSE ps[x]]
    ELSE ps
DelKeeps(ps, k) == ps                            \* mutant: nothing is undone
del(ps, k) == [x \in DOMAIN ps \ {k} |-> ps[x]]
get(ps, k) == IF k \in DOMAIN ps THEN ps[k] ELSE <<>>

Hit(n, ps) == [h |-> n.handlers, params |-> ps, pattern |-> n.routePattern]
Miss(ps) == [h |-> 0, params |-> ps, pattern |-> 0]

(* The handlers of n itself, or of an optional param below it. *)
HereOrOptional(n, ps) ==
    LET j == IndexOf(n.children, LAMBDA c : c.optional /\ c.handlers # 0) IN
    IF n.handlers # 0 THEN Hit(n, ps)
    ELSE IF j > 0 THEN Hit(n.children[j], set(ps, n.children[j].param, <<>>))
    ELSE Miss(ps)

RECURSIVE findInNode(_, _, _), tryParams(_, _, _, _)

findStatic(n, path, ps) ==
    LET j == IF path = <<>> THEN 0 ELSE IndexByte(indices(n), path[1])
        c == n.children[j]
    IN IF j = 0 \/ c.param # "" THEN Miss(ps)
       ELSE IF c.path = path \/ c.path = path \o <<"/">> THEN HereOrOptional(c, ps)
       ELSE IF IsPrefix(c.path, path)
       THEN findInNode(c, From(path, Len(c.path) + 1), ps)
       ELSE Miss(ps)

(* The param children from the i-th on, each undone before the next. *)
tryParams(n, i, path, ps) ==
    IF i > Len(n.children) THEN Miss(ps) ELSE
    LET c     == n.children[i]
        slash == IndexByte(path, "/")
        end   == IF slash = 0 THEN Len(path) ELSE slash - 1
        value == SubSeq(path, 1, end)
        ps1   == set(ps, c.param, value)
        r     == IF end = Len(path) THEN HereOrOptional(c, ps1)
                 ELSE findInNode(c, From(path, end + 2), ps1)
    IN IF c.param = "" \/ c.wildcard THEN tryParams(n, i + 1, path, ps)
       ELSE IF value = <<>>
       THEN IF c.optional /\ c.handlers # 0 THEN Hit(c, set(ps, c.param, <<>>))
            ELSE tryParams(n, i + 1, path, ps)
       ELSE IF c.rx # {} /\ value \notin c.rx THEN tryParams(n, i + 1, path, ps)
       ELSE IF r.h # 0 THEN r
       ELSE tryParams(n, i + 1, path, del(r.params, c.param))

findInNode(n, path, ps) ==
    LET s == findStatic(n, path, ps)
        p == tryParams(n, 1, path, s.params)
        j == IndexOf(n.children, LAMBDA c : c.wildcard)
    IN IF s.h # 0 THEN s
       ELSE IF p.h # 0 THEN p
       ELSE IF j > 0 THEN Hit(n.children[j], set(p.params, n.children[j].param, path))
       ELSE p

(* The static map answers first, without params and without a pattern. *)
find(statics, ts, m, path) ==
    IF path \in DOMAIN statics[m] THEN [Miss(NoParams) EXCEPT !.h = statics[m][path]]
    ELSE IF path = <<"/">> THEN HereOrOptional(ts[m], NoParams)
    ELSE findInNode(ts[m], Tail(path), NoParams)

StaticOnly(statics, ts, path) ==                 \* mutant: the trees are not asked
    {m \in Methods : path \in DOMAIN statics[m]}
findAllowedMethods(statics, ts, path) ==
    {m \in Methods : find(statics, ts, m, path).h # 0}

-----------------------------------------------------------------------------
(* Compile *)

(* Statics, then params, then the wildcard; hits may reverse each class. *)
RECURSIVE optimizeNode(_, _)
optimizeNode(n, flip) ==
    LET kids == [i \in DOMAIN n.children |-> optimizeNode(n.children[i], flip)]
        class(P(_)) == LET s == SelectSeq(kids, P) IN IF flip THEN Reverse(s) ELSE s
    IN [n EXCEPT !.children =
          class(LAMBDA c : c.param = "") \o class(LAMBDA c : c.param # "" /\ ~c.wildcard)
          \o class(LAMBDA c : c.wildcard)]

(* A handler-less static node with one static child is merged with it; the   *)
(* merged node keeps the handlers and loses the pattern.                     *)
RECURSIVE flattenNode(_), flattenChild(_)
flattenChild(c) ==
    IF /\ c.param = "" /\ Len(c.children) = 1 /\ c.handlers = 0
       /\ c.children[1].param = ""
    THEN flattenChild([c.children[1] EXCEPT !.path = c.path \o @, !.routePattern = 0])
    ELSE flattenNode(c)
flattenNode(n) == [n EXCEPT !.children = [i \in DOMAIN @ |-> flattenChild(@[i])]]

Override(f, g) == [x \in DOMAIN f \cup DOMAIN g |-> IF x \in DOMAIN g THEN g[x] ELSE f[x]]
TrimSlash(p) == IF Len(p) > 1 /\ Last(p) = "/" THEN Front(p) ELSE p

(* The terminal nodes above every param and wildcard; a child written later  *)
(* overrides an equal path.                                                  *)
RECURSIVE collectStaticRoutes(_, _)
collectStaticRoutes(n, prefix) ==
    LET cur  == CASE n.path = <<"/">> -> IF Last(prefix) = "/" THEN prefix
                                         ELSE prefix \o <<"/">>
                  [] OTHER -> prefix \o n.path
        own  == IF n.handlers = 0 THEN [x \in {} |-> 0]
                ELSE [x \in {TrimSlash(cur)} |-> n.handlers]
        kids == [i \in DOMAIN n.children |-> collectStaticRoutes(n.children[i], cur)]
    IN IF n.param # "" THEN [x \in {} |-> 0]
       ELSE FoldLeft(Override, own, kids)

(* collectPaths drops a node whose path is just "/", so below one its keys   *)
(* lack a slash; collectStaticPaths gathers the keys of all methods.         *)
RECURSIVE collectPaths(_, _)
collectPaths(n, prefix) ==
    LET cur == IF n.path = <<"/">> THEN prefix ELSE prefix \o n.path IN
    IF n.param # "" THEN {}
    ELSE (IF n.handlers = 0 THEN {} ELSE {TrimSlash(cur)})
         \cup UNION {collectPaths(c, cur) : c \in Range(n.children)}
collectStaticPaths(ts) == UNION {collectPaths(ts[m], <<"/">>) : m \in Methods}

Compile ==
    /\ phase = "build" /\ regs # <<>>
    /\ \E flip \in BOOLEAN :
         LET ts == [m \in Methods |-> flattenNode(optimizeNode(trees[m], flip))]
             st == [m \in Methods |-> collectStaticRoutes(ts[m], <<"/">>)]
         IN /\ trees' = ts
            /\ staticRoutes' = st
            /\ allowedMethodsCache' =
                 [p \in {q \in collectStaticPaths(ts) : findAllowedMethods(st, ts, q) # {}}
                    |-> findAllowedMethods(st, ts, p)]
    /\ phase' = "serve"
    /\ UNCHANGED <<regs, middleware, req>>

-----------------------------------------------------------------------------
(* Requests.  A raw path is a sequence of segments [text, enc]: enc counts   *)
(* how often the text was percent-encoded.                                   *)

Dot == <<".">>
DotDot == <<".", ".">>

(* What three rounds of PathUnescape leave of a segment. *)
Decoded(s) == IF s.enc <= 3 THEN s.text ELSE <<"%">> \o s.text

(* A percent sign of the text itself is no escape: the round after the one   *)
(* that uncovers it fails, and the path is refused.                          *)
Undecodable(s) == s.enc < 3 /\ "%" \in Range(s.text)

RECURSIVE isTraversal(_, _), Clean(_, _)
isTraversal(segs, depth) ==
    IF segs = <<>> THEN FALSE
    ELSE CASE Head(segs) \in {<<>>, Dot} -> isTraversal(Tail(segs), depth)
           [] Head(segs) = DotDot -> depth = 0 \/ isTraversal(Tail(segs), depth - 1)
           [] OTHER -> isTraversal(Tail(segs), depth + 1)

(* path.Clean (Go's library) on a rooted path. *)
Clean(segs, out) ==
    IF segs = <<>> THEN out
    ELSE CASE Head(segs) \in {<<>>, Dot} -> Clean(Tail(segs), out)
           [] Head(segs) = DotDot -> Clean(Tail(segs), IF out = <<>> THEN out ELSE Front(out))
           [] OTHER -> Clean(Tail(segs), Append(out, Head(segs)))

PathOf(segs) == IF segs = <<>> THEN <<"/">>
                ELSE FlattenSeq([i \in DOMAIN segs |-> <<"/">> \o segs[i]])

cleanPath(raw) ==
    LET segs == [i \in DOMAIN raw |-> Decoded(raw[i])] IN
    IF (\E i \in DOMAIN raw : Undecodable(raw[i])) \/ isTraversal(segs, 0) THEN <<>> ELSE PathOf(Clean(segs, <<>>))

(* The lookup part of serveKruda: clean, find, and 405 or 404 on a miss.     *)
(* A lookup leaves the compiled router as it is, so one per behaviour will do. *)
Request(m, raw) ==
    /\ phase = "serve" /\ req = NoReq
    /\ LET path    == cleanPath(raw)
           r       == find(staticRoutes, trees, m, path)
           allowed == IF path \in DOMAIN allowedMethodsCache THEN allowedMethodsCache[path]
                      ELSE findAllowedMethods(staticRoutes, trees, path)
       IN req' = IF path = <<>> THEN [state |-> "rejected", m |-> m, raw |-> raw]
                 ELSE [state |-> "looked", m |-> m, raw |-> raw, path |-> path, found |-> r,
                       allow |-> IF r.h # 0 THEN {} ELSE allowed,
                       status |-> CASE r.h # 0 -> 200 [] allowed # {} -> 405 [] OTHER -> 404]
    /\ UNCHANGED <<regs, trees, middleware, phase, staticRoutes, allowedMethodsCache>>

RInit ==
    /\ regs = <<>>
    /\ trees = [m \in Methods |-> Node(<<"/">>)]
    /\ middleware = [g \in {0} \cup Groups |-> <<>>]
    /\ phase = "build"
    /\ staticRoutes = [m \in Methods |-> [x \in {} |-> 0]]
    /\ allowedMethodsCache = [x \in {} |-> {}]
    /\ req = NoReq

RNext ==
    \/ \E r \in Routes : AppRoute(r) \/ GroupRoute(r)
    \/ AppUse
    \/ \E g \in Groups : GroupUse(g)
    \/ Compile
    \/ \E m \in Methods, raw \in RawPaths : Request(m, raw)

RSpec == RInit /\ [][RNext]_rvars

-----------------------------------------------------------------------------
(* The reference: what a set of patterns means, without a tree.             *)

Rank(s) == CASE s.kind = "static" -> 1 [] s.kind = "param" -> 2 [] s.kind = "wild" -> 3

(* A pattern whose last param is optional also stands for the one without. *)
Forms(segs) == {segs} \cup (IF segs # <<>> /\ Last(segs).opt THEN {Front(segs)} ELSE {})

Accepts(s, t) == CASE s.kind = "static" -> s.text = t
                   [] s.kind = "param" -> s.rx = {} \/ t \in s.rx
                   [] s.kind = "wild" -> TRUE

Matches(form, segs) ==
    /\ IF form # <<>> /\ Last(form).kind = "wild" THEN Len(segs) >= Len(form)
       ELSE Len(segs) = Len(form)
    /\ \A i \in DOMAIN form : Accepts(form[i], segs[i])

(* At the first segment where they differ, a is the more specific one. *)
Beats(a, b) ==
    \E k \in DOMAIN a \cap DOMAIN b :
        /\ \A j \in 1..(k-1) : Rank(a[j]) = Rank(b[j]) /\ a[j].name = b[j].name
        /\ Rank(a[k]) < Rank(b[k])

Bound(form, segs, x) ==
    LET at == {i \in DOMAIN form : form[i].name = x /\ x # ""} IN
    IF at = {} THEN <<>>
    ELSE LET i == CHOOSE i \in at : \A j \in at : j <= i IN
         IF form[i].kind = "wild" THEN Tail(PathOf(From(segs, i))) ELSE segs[i]

Names(form) == {form[i].name : i \in DOMAIN form} \ {""}

ReqSegs == Clean([i \in DOMAIN req.raw |-> Decoded(req.raw[i])], <<>>)

Candidates(m) == UNION {{<<i, f>> : f \in {g \in Forms(regs[i].segs) : Matches(g, ReqSegs)}}
                        : i \in {j \in DOMAIN regs : regs[j].m = m}}

(* Registration i ends in an optional param, and another route of the method *)
(* continues the static text in front of it: the slash before the param then *)
(* has a node of its own, which the lookup of the short form does not reach. *)
Cut(i) ==
    LET s == regs[i].segs
        k == Len(s) - 1
    IN /\ k >= 1 /\ Last(s).opt /\ s[k].kind = "static"
       /\ \E j \in DOMAIN regs :
            LET o == regs[j].segs IN
            /\ regs[j].m = regs[i].m /\ k <= Len(o) /\ SubSeq(o, 1, k-1) = SubSeq(s, 1, k-1)
            /\ o[k].kind = "static" /\ IsStrictPrefix(s[k].text, o[k].text)
CutForm(c) == Cut(c[1]) /\ c[2] # regs[c[1]].segs

(* A route runs the App's middleware of the moment it was registered, then   *)
(* its groups' from the outermost in, and nothing added later.               *)
ChainAsRegistered(i) ==
    LET gs == IF regs[i].g = 0 THEN <<>>
              ELSE IF GroupParent[regs[i].g] = 0 THEN <<regs[i].g>>
              ELSE <<GroupParent[regs[i].g], regs[i].g>>
    IN regs[i].chain = FlattenSeq([k \in 1..(Len(gs) + 1) |->
                          regs[i].before[IF k = 1 THEN 0 ELSE gs[k-1]]])

(* The lookup of a cleaned request path answers what the patterns mean: it   *)
(* finds a route exactly when one matches, never one that a more specific    *)
(* match beats (static before param before wildcard, with backtracking), and *)
(* binds exactly that route's params, with nothing left over from an         *)
(* abandoned branch, and the chain it runs is the one of its registration.   *)
(* Short forms of a cut optional route are left out.                         *)
FindsBest ==
    req.state = "looked" =>
        LET C == Candidates(req.m)
            r == req.found
        IN IF \E c \in C : CutForm(c) THEN TRUE
           ELSE IF C = {} THEN r.h = 0
           ELSE \E c \in C :
                  /\ c[1] = r.h
                  /\ \A d \in C : ~Beats(d[2], c[2])
                  /\ \A x \in DOMAIN r.params \cup Names(c[2]) :
                        get(r.params, x) = Bound(c[2], ReqSegs, x)
                  /\ ChainAsRegistered(r.h)

(* The first k segments hold more .. than names to take back. *)
Climbs(raw) ==
    \E k \in DOMAIN raw :
        LET t(i) == Decoded(raw[i]) IN
        Cardinality({i \in 1..k : t(i) = DotDot})
          > Cardinality({i \in 1..k : t(i) \notin {DotDot, Dot, <<>>}})

(* Whatever the static map, the cache and the flattened tree answer, the     *)
(* status is 405 exactly when only other methods' patterns match the path,   *)
(* and its Allow header names those methods and no others; the pattern       *)
(* reported is that of the route found or none.  A path that climbs above    *)
(* the root at any point is never looked up, and one that does not is        *)
(* refused only for a percent sign that less than three rounds of decoding   *)
(* bring out: "/100%25", a legal path, is such a one.  Short forms of a cut  *)
(* optional route are left out.                                              *)
StatusExact ==
    CASE req.state = "none" -> TRUE
      [] req.state = "looked" ->
           /\ ~Climbs(req.raw)
           /\ LET matching == {m \in Methods : Candidates(m) # {}} IN
              \/ \E m \in Methods : \E c \in Candidates(m) : CutForm(c)
              \/ /\ req.status = CASE req.m \in matching -> 200
                                    [] matching # {} /\ req.m \notin matching -> 405
                                    [] OTHER -> 404
                 /\ req.status = 405 => req.allow = matching
           /\ req.found.pattern \in {0, req.found.h}
      [] req.state = "rejected" -> Climbs(req.raw) \/ \E i \in DOMAIN req.raw : Undecodable(req.raw[i])
=============================================================================
