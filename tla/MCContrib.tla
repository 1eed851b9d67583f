------------------------------ MODULE MCContrib ------------------------------
(***************************************************************************)
(* What runs beside the request path, part by part: the session store, the *)
(* response cache, the rate limiter, a WebSocket on a hijacked connection, *)
(* an event stream and the health endpoint.  The parts share no state;     *)
(* part says which of them a behaviour is about, and the variables of the  *)
(* others keep the value 0.  MCWeb adds the parts of the request path.     *)
(***************************************************************************)
EXTENDS Naturals, Sequences

VARIABLES part,
    now, req, gone, raced, wire, ops,        \* used by several parts
    entries, sess, lastId, saved,
    store, out,
    algorithm, heap, current, sweep, allowed,
    in, msg, pings, mu, closed, werr, aclosed, done, ctxDone, fd, pc, back, got, read, foreign,
    at, cancelled, status, headersSent, sent, calls,
    checkers, pending, ch, turns, results, expired, said, early, reply

shared == <<now, req, gone, raced, wire, ops>>
session == <<entries, sess, lastId, saved>>
cache == <<store, out>>
limiter == <<algorithm, heap, current, sweep, allowed>>
socket == <<in, msg, pings, mu, closed, werr, aclosed, done, ctxDone, fd, pc, back, got, read, foreign>>
events == <<at, cancelled, status, headersSent, sent, calls>>
health == <<checkers, pending, ch, turns, results, expired, said, early, reply>>
contrib == <<shared, session, cache, limiter, socket, events, health>>

sessionOff == entries = 0 /\ sess = 0 /\ lastId = 0 /\ saved = 0
cacheOff == store = 0 /\ out = 0
limiterOff == algorithm = 0 /\ heap = 0 /\ current = 0 /\ sweep = 0 /\ allowed = 0
socketOff == /\ in = 0 /\ msg = 0 /\ pings = 0 /\ mu = 0 /\ closed = 0 /\ werr = 0 /\ aclosed = 0
             /\ done = 0 /\ ctxDone = 0 /\ fd = 0 /\ pc = 0 /\ back = 0 /\ got = 0 /\ read = 0
             /\ foreign = 0
eventsOff == at = 0 /\ cancelled = 0 /\ status = 0 /\ headersSent = 0 /\ sent = 0 /\ calls = 0
healthOff == /\ checkers = 0 /\ pending = 0 /\ ch = 0 /\ turns = 0 /\ results = 0 /\ expired = 0
             /\ said = 0 /\ early = 0 /\ reply = 0
contribOff == /\ now = 0 /\ req = 0 /\ gone = 0 /\ raced = 0 /\ wire = 0 /\ ops = 0
              /\ sessionOff /\ cacheOff /\ limiterOff /\ socketOff /\ eventsOff /\ healthOff

---------------------------------------------------------------------------
(* Frames of a client: whole and fragmented messages, control frames in     *)
(* between, and each kind of frame that has to be refused.                  *)

frame(op, fin, data) == [op |-> op, fin |-> fin, masked |-> TRUE, rsv |-> FALSE, data |-> data]
Frames == {
    frame(1, TRUE, <<1>>), frame(1, FALSE, <<2>>), frame(0, TRUE, <<3>>), frame(0, FALSE, <<1>>),
    frame(2, TRUE, <<1, 1, 1>>), frame(2, FALSE, <<1>>), frame(9, TRUE, <<1>>),
    frame(8, TRUE, <<1000>>), frame(8, TRUE, <<1005>>),
    [frame(1, TRUE, <<1>>) EXCEPT !.masked = FALSE], frame(0, TRUE, <<1, 1>>), frame(9, FALSE, <<>>)}
Clients ==
    {<<f>> : f \in Frames} \cup {<<f, g>> : f, g \in Frames}
    \cup {<<frame(1, FALSE, <<2>>), frame(9, TRUE, <<1>>), frame(0, TRUE, <<3>>)>>}

(* Upgrade requests: a right one, one for each condition that fails. *)
Handshake == [method |-> "GET", body |-> FALSE, origin |-> "",
              valid |-> {"Upgrade", "Connection", "Sec-WebSocket-Key", "Sec-WebSocket-Version"}]
UpgradeRequests ==
    {Handshake, [Handshake EXCEPT !.method = "POST"], [Handshake EXCEPT !.body = TRUE],
     [Handshake EXCEPT !.valid = @ \ {"Connection"}], [Handshake EXCEPT !.origin = "evil"],
     [Handshake EXCEPT !.origin = "own"]}

(* Event texts: line breaks of each kind at each end and in the middle. *)
EventTexts == {<<>>, <<"x">>, <<"x", "r", "n", "x">>, <<"n", "x">>, <<"x", "n", "r">>}

(* Services: a is found under its type and under two names; b has the name  *)
(* that a's type has; c is a lazy, built or not; d is no checker.           *)
Services ==
    {[slot |-> "singleton", name |-> "A", inst |-> "a"], [slot |-> "named", name |-> "x", inst |-> "a"],
     [slot |-> "named", name |-> "y", inst |-> "a"], [slot |-> "named", name |-> "A", inst |-> "b"],
     [slot |-> "lazy", name |-> "C", inst |-> "c"], [slot |-> "unbuilt", name |-> "C", inst |-> "c"],
     [slot |-> "singleton", name |-> "D", inst |-> "d"]}

Ss == INSTANCE Session WITH Procs <- {1, 2, 3}, Ids <- {1, 2, 3}, IdleTimeout <- 1, MaxTime <- 4
Rc == INSTANCE RespCache WITH Procs <- {1, 2}, Paths <- {"a", "b"}, Queries <- {"x", "y"},
        Users <- {"", "u"}, TTL <- 1, maxEntries <- 1, MaxTime <- 3, AllQuery <- TRUE
Rl == INSTANCE RateLimit WITH Procs <- {1, 2}, Max <- 2, Window <- 2, maxIdleAge <- 4, CleanupInterval <- 2, MaxTime <- 6,
        MaxAllowed <- 3, MaxEntries <- 2, MaxStall <- 1
Ws == INSTANCE WebSocket WITH Inputs <- Clients, maxMessageSize <- 2, maxPingPerSec <- 1,
        MaxControl <- 2, MaxAppOps <- 2,
        Handshakes <- UpgradeRequests, AllowedOrigins <- {"own"}, StrictOrigin <- FALSE
St == INSTANCE WingStream WITH Texts <- EventTexts, MaxEvents <- 2
Hc == INSTANCE Health WITH
        Entries <- Services, Checkers <- {"a", "b", "c"}

---------------------------------------------------------------------------
ContribInit ==
    \/ /\ part = "session" /\ Ss!SessInit /\ req = 0 /\ wire = 0 /\ ops = 0
       /\ cacheOff /\ limiterOff /\ socketOff /\ eventsOff /\ healthOff
    \/ /\ part = "cache" /\ Rc!CacheInit /\ gone = 0 /\ raced = 0 /\ wire = 0 /\ ops = 0
       /\ sessionOff /\ limiterOff /\ socketOff /\ eventsOff /\ healthOff
    \/ /\ part = "limiter" /\ Rl!RateInit /\ gone = 0 /\ wire = 0 /\ ops = 0
       /\ sessionOff /\ cacheOff /\ socketOff /\ eventsOff /\ healthOff
    \/ /\ part = "socket" /\ Ws!WSInit /\ now = 0 /\ req = 0 /\ gone = 0 /\ raced = 0
       /\ sessionOff /\ cacheOff /\ limiterOff /\ eventsOff /\ healthOff
    \/ /\ part = "events" /\ St!StreamInit /\ now = 0 /\ req = 0 /\ raced = 0 /\ ops = 0
       /\ sessionOff /\ cacheOff /\ limiterOff /\ socketOff /\ healthOff
    \/ /\ part = "health" /\ Hc!HealthInit /\ now = 0 /\ req = 0 /\ gone = 0 /\ raced = 0
       /\ wire = 0 /\ ops = 0
       /\ sessionOff /\ cacheOff /\ limiterOff /\ socketOff /\ eventsOff

ContribNext ==
    /\ \/ /\ part = "session" /\ Ss!SessNext /\ UNCHANGED <<req, wire, ops>>
          /\ UNCHANGED <<cache, limiter, socket, events, health>>
       \/ /\ part = "cache" /\ Rc!CacheNext /\ UNCHANGED <<gone, raced, wire, ops>>
          /\ UNCHANGED <<session, limiter, socket, events, health>>
       \/ /\ part = "limiter" /\ Rl!RateNext /\ UNCHANGED <<gone, wire, ops>>
          /\ UNCHANGED <<session, cache, socket, events, health>>
       \/ /\ part = "socket" /\ Ws!WSNext /\ UNCHANGED <<now, req, gone, raced>>
          /\ UNCHANGED <<session, cache, limiter, events, health>>
       \/ /\ part = "events" /\ St!StreamNext /\ UNCHANGED <<now, req, raced, ops>>
          /\ UNCHANGED <<session, cache, limiter, socket, health>>
       \/ /\ part = "health" /\ Hc!HealthNext /\ UNCHANGED shared
          /\ UNCHANGED <<session, cache, limiter, socket, events>>
    /\ UNCHANGED part

---------------------------------------------------------------------------
(* contrib/session: what a request saved stays readable until its idle time *)
(* is over or a later Save or Destroy, however requests, lazy expiry and    *)
(* the cleanup loop overlap, unless a Get that had read the older entry     *)
(* finds that one expired and deletes what is there.                        *)
SavedSurvives == part = "session" => Ss!SavedSurvives

(* contrib/session: a destroyed session comes back only by a request that   *)
(* held it when it was destroyed.                                           *)
DestroyedStaysGone == part = "session" => Ss!DestroyedStaysGone

(* contrib/cache: a HIT replays an answer to the same path, query and user, *)
(* not older than the TTL, and the store keeps within its capacity.         *)
HitFaithful == part = "cache" => Rc!HitFaithful

(* contrib/ratelimit: the entries of a client let through what one entry    *)
(* may, apart from those used after the cleanup found them idle, each of    *)
(* which does on its own.                                                   *)
RateBound == part = "limiter" => Rl!RateBound

(* wing_ws.go: Shutdown never hits a descriptor number that has been given  *)
(* back to the kernel.                                                      *)
NoForeignShutdown == part = "socket" => Ws!NoForeignShutdown

(* contrib/ws/conn.go: nothing follows a close frame or a frame cut short.  *)
WireEndsOnce == part = "socket" => Ws!WireEndsOnce

(* contrib/ws/conn.go: ReadMessage returns what the frames say, fragments   *)
(* in order, within the size limit.                                         *)
MessagesExact == part = "socket" => Ws!MessagesExact

(* wing_stream.go, sse.go: a client sees the very events the handler sent,  *)
(* but for the one whose write is cut short and the one behind it, on a     *)
(* stream whose preamble was written whole.                                 *)
EventsArrive == part = "events" => St!EventsArrive

(* health.go: a checker that answered before the deadline is not reported   *)
(* as timed out, and 200 means that for every name a checker of that name   *)
(* said ok: the last one collected, when two have one name.                 *)
HealthExact == part = "health" => Hc!HealthExact
=============================================================================
