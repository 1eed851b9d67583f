----------------------------- MODULE RateLimit -----------------------------
(***************************************************************************)
(* contrib/ratelimit over its MemoryStore: both algorithms, for concurrent *)
(* requests of one client, with the cleanup goroutine that drops idle      *)
(* entries.  Counts of tokens and the weighted window count are scaled by  *)
(* Window so that they are whole numbers.                                  *)
(***************************************************************************)
EXTENDS Integers, Sequences

Sets == INSTANCE FiniteSetsExt

CONSTANTS Procs, Max, Window, maxIdleAge, CleanupInterval, MaxTime,
    MaxAllowed,     \* bound: requests let through before the last ones start
    MaxEntries,     \* bound: entries ever made for the client
    MaxStall        \* bound: time a request takes from reading the clock to the lock

VARIABLES
    algorithm,      \* "token_bucket" or "sliding_window", fixed
    now,
    heap,           \* the entries made so far
    current,        \* the entry in the map, 0 if none
    req,            \* [pc, entry, at] of each request
    sweep,          \* the cleanup goroutine: [pc, at], at the time of its last tick
    allowed,        \* history: requests let through, by entry and time
    raced           \* history: the entries used after the sweep had found them idle

ratevars == <<algorithm, now, heap, current, req, sweep, allowed, raced>>

Zero == [tokens |-> 0, last |-> 0, count |-> 0, prevCount |-> 0, windowStart |-> 0]    \* time 0: IsZero

RateInit ==
    /\ algorithm \in {"token_bucket", "sliding_window"}
    /\ now = 1 /\ heap = <<>> /\ current = 0
    /\ req = [p \in Procs |-> [pc |-> "idle", entry |-> 0, at |-> 0]]
    /\ sweep = [pc |-> "wait", at |-> 0]
    /\ allowed = <<>> /\ raced = {}

(* What the entries of E let through from a to b. *)
Within(E, a, b) == Sets!MapThenSumSet(LAMBDA x : allowed[x[1]][x[2]], E \X (a..b))

(* getEntry *)
GetEntry(p) ==
    /\ req[p].pc = "idle" /\ Within(DOMAIN heap, 1, MaxTime) < MaxAllowed
    /\ IF current # 0 THEN UNCHANGED <<heap, current, allowed>>
       ELSE /\ Len(heap) < MaxEntries
            /\ heap' = Append(heap, Zero) /\ current' = Len(heap) + 1
            /\ allowed' = Append(allowed, [t \in 1..MaxTime |-> 0])
    /\ req' = [req EXCEPT ![p] = [pc |-> "clock", entry |-> current', at |-> 0]]
    /\ UNCHANGED <<algorithm, now, sweep, raced>>

(* time.Now() is read before the entry is locked. *)
Clock(p) ==
    /\ req[p].pc = "clock"
    /\ req' = [req EXCEPT ![p].pc = "allow", ![p].at = now]
    /\ UNCHANGED <<algorithm, now, heap, current, sweep, allowed, raced>>

Least(a, b) == IF a < b THEN a ELSE b

(* tokenBucketAllow as <<entry, allowed>>, tokens in units of 1/Window; the  *)
(* reset time it keeps for the headers is left out.                          *)
tokenBucketAllow(e, t) ==
    LET full == Least(Max * Window, e.tokens + (t - e.last) * Max)
        f == [e EXCEPT !.tokens = full, !.last = t]
    IN CASE e.last = 0 -> <<[e EXCEPT !.tokens = (Max - 1) * Window, !.last = t], TRUE>>
         [] e.last # 0 /\ full < Window -> <<f, FALSE>>
         [] OTHER -> <<[f EXCEPT !.tokens = @ - Window], TRUE>>

(* The windows an entry is moved on by before the count. *)
Advance(e, t) ==
    CASE t - e.windowStart >= 2 * Window -> [e EXCEPT !.prevCount = 0, !.count = 0, !.windowStart = t]
      [] t - e.windowStart \in Window..(2 * Window - 1) ->
           [e EXCEPT !.prevCount = e.count, !.count = 0, !.windowStart = @ + Window]
      [] OTHER -> e

(* slidingWindowAllow; the previous window counts for what is left of it. *)
slidingWindowAllow(e, t) ==
    LET a == Advance(e, t)
        weight == IF Window < t - a.windowStart THEN 0 ELSE Window - (t - a.windowStart)
    IN CASE e.windowStart = 0 ->
              <<[e EXCEPT !.windowStart = t, !.count = 1, !.prevCount = 0, !.last = t], TRUE>>
         [] e.windowStart # 0 /\ a.prevCount * weight + a.count * Window >= Max * Window -> <<a, FALSE>>
         [] OTHER -> <<[a EXCEPT !.count = @ + 1, !.last = t], TRUE>>

(* One of the two under the entry's lock; then the headers, and 429 or Next. *)
Allow(p) ==
    LET i == req[p].entry
        r == IF algorithm = "token_bucket" THEN tokenBucketAllow(heap[i], req[p].at)
             ELSE slidingWindowAllow(heap[i], req[p].at)
    IN /\ req[p].pc = "allow"
       /\ heap' = [heap EXCEPT ![i] = r[1]]
       /\ allowed' = IF r[2] THEN [allowed EXCEPT ![i][req[p].at] = @ + 1] ELSE allowed
       /\ raced' = raced \cup (IF i # current \/ sweep.pc = "delete" THEN {i} ELSE {})
       /\ req' = [req EXCEPT ![p] = [pc |-> "idle", entry |-> 0, at |-> 0]]
       /\ UNCHANGED <<algorithm, now, current, sweep>>

(* cleanup: the idle check is under the entry's lock, with the time of the   *)
(* tick; the deletion from the map is not.  An entry that no request has     *)
(* used yet has the zero time for last and is idle at every tick.            *)
NoIdleAge(e, t) == e.last = 0 \/ t > e.last         \* mutant: what was not used since the tick
Idle(e, t) == e.last = 0 \/ t - e.last > maxIdleAge
Sweep ==
    /\ sweep.pc = "wait" /\ now >= sweep.at + CleanupInterval
    /\ sweep' = [pc |-> "check", at |-> now]
    /\ UNCHANGED <<algorithm, now, heap, current, req, allowed, raced>>
Check ==
    /\ sweep.pc = "check"
    /\ sweep' = [sweep EXCEPT !.pc = IF current # 0 /\ Idle(heap[current], sweep.at) THEN "delete" ELSE "wait"]
    /\ UNCHANGED <<algorithm, now, heap, current, req, allowed, raced>>
Delete ==
    /\ sweep.pc = "delete"
    /\ current' = 0
    /\ sweep' = [sweep EXCEPT !.pc = "wait"]
    /\ UNCHANGED <<algorithm, now, heap, req, allowed, raced>>

Tick == /\ now < MaxTime /\ now' = now + 1
        /\ \A p \in Procs : req[p].pc = "allow" => now < req[p].at + MaxStall
        /\ UNCHANGED <<algorithm, heap, current, req, sweep, allowed, raced>>

RateNext == \/ \E p \in Procs : GetEntry(p) \/ Clock(p) \/ Allow(p)
            \/ Sweep \/ Check \/ Delete \/ Tick

-----------------------------------------------------------------------------
Bounded(E) ==
    \A a, b \in 1..MaxTime : a <= b =>
        IF algorithm = "token_bucket" THEN Within(E, a, b) * Window <= Max * Window + (b - a) * Max
        ELSE b - a < Window => Within(E, a, b) < 2 * Max

(* However requests overlap, and whatever each waits for the lock (up to     *)
(* MaxStall), an entry lets through at most Max and one per refilled token   *)
(* in any stretch of time (token bucket), and less than twice Max within any *)
(* window (sliding window); and so do all the entries a client ever had,     *)
(* taken together, but for those a request used after the sweep had found    *)
(* them idle.  Each of those adds to it: a request that takes an entry just  *)
(* before it is dropped, a new one included, has a full allowance of its     *)
(* own.  This is what the code gives, and it is less than config.go:11 says  *)
(* ("the maximum number of requests allowed per Window"): a window may see   *)
(* Max and a refill, or twice Max less one, and doc.go:28 calls the latter a *)
(* "strict windowed count".                                                  *)
RateBound == Bounded(DOMAIN heap \ raced) /\ \A i \in raced : Bounded({i})
=============================================================================
