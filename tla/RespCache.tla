----------------------------- MODULE RespCache -----------------------------
(***************************************************************************)
(* contrib/cache: the response cache middleware over a MemoryStore with a  *)
(* TTL and a capacity.  A request is a path, a query and a user; what its  *)
(* handler answers is a function of those three and of the moment.         *)
(***************************************************************************)
EXTENDS Naturals, FiniteSets

CONSTANTS Procs, Paths, Queries, Users, TTL, maxEntries, MaxTime,
    AllQuery    \* does the transport's request implement AllQueryProvider?

VARIABLES now, store, req, out

cachevars == <<now, store, req, out>>

Requests == [path : Paths, query : Queries, user : Users]
Statuses == {200, 404}
StatusCodes == {200}            \* the default Config.StatusCodes

(* defaultKeyFunc: the query counts where the transport can enumerate it. *)
NoUser(r) == [path |-> r.path, query |-> IF AllQuery THEN r.query ELSE "", user |-> ""]    \* mutant
KeyFunc(r) == [path |-> r.path, query |-> IF AllQuery THEN r.query ELSE "", user |-> r.user]
Keys == {KeyFunc(r) : r \in Requests}

None == [there |-> FALSE]
Expired(e) == now > e.expiresAt
Present == {k \in Keys : store[k].there}

CacheInit ==
    /\ now = 1 /\ store = [k \in Keys |-> None]
    /\ req = [p \in Procs |-> [pc |-> "idle"]] /\ out = [p \in Procs |-> None]

Miss(p, r) == req' = [req EXCEPT ![p] = [pc |-> "handler", r |-> r]]
Answer(p, resp, hit) == out' = [out EXCEPT ![p] = [there |-> TRUE, resp |-> resp, hit |-> hit, at |-> now]]

(* The middleware up to the HIT or the MISS. *)
Lookup(p) ==
    /\ req[p].pc = "idle"
    /\ \E r \in Requests :
         LET e == store[KeyFunc(r)] IN
         CASE ~e.there -> Miss(p, r) /\ UNCHANGED out
           [] e.there /\ Expired(e) -> req' = [req EXCEPT ![p] = [pc |-> "expire", r |-> r]] /\ UNCHANGED out
           [] OTHER -> req' = [req EXCEPT ![p] = [pc |-> "done", r |-> r]] /\ Answer(p, e.resp, TRUE)
    /\ UNCHANGED <<now, store>>

(* MemoryStore.Get deletes what it found expired after it took the lock anew.*)
Expire(p) ==
    /\ req[p].pc = "expire"
    /\ store' = [store EXCEPT ![KeyFunc(req[p].r)] = None]
    /\ Miss(p, req[p].r)
    /\ UNCHANGED <<now, out>>

(* The handler works out its answer; CacheJSON and CacheBytes store before   *)
(* they send.                                                                *)
Handle(p) ==
    /\ req[p].pc = "handler"
    /\ \E s \in Statuses :
         req' = [req EXCEPT ![p] = [pc |-> "store", r |-> req[p].r,
                    resp |-> [of |-> req[p].r, status |-> s, cachedAt |-> now]]]
    /\ UNCHANGED <<now, store, out>>

isAllowedStatus(s) == s \in StatusCodes

(* evictOldest: an expired entry, or else the oldest by CachedAt. *)
evictOldest(k) ==
    LET expired == {j \in Present : Expired(store[j])} IN
    IF expired # {} THEN k \in expired
    ELSE \A j \in Present : store[k].resp.cachedAt <= store[j].resp.cachedAt

Put(s, k, resp) == [s EXCEPT ![k] = [there |-> TRUE, resp |-> resp, expiresAt |-> now + TTL]]

(* MemoryStore.Set *)
Store(p) ==
    LET k == KeyFunc(req[p].r)
        resp == [req[p].resp EXCEPT !.cachedAt = now]
    IN /\ req[p].pc = "store"
       /\ CASE ~isAllowedStatus(resp.status) -> UNCHANGED store
            [] isAllowedStatus(resp.status) /\ Cardinality(Present) >= maxEntries /\ k \notin Present ->
                 \E v \in Present : evictOldest(v) /\ store' = Put([store EXCEPT ![v] = None], k, resp)
            [] OTHER -> store' = Put(store, k, resp)
       /\ req' = [req EXCEPT ![p] = [pc |-> "done", r |-> req[p].r]]
       /\ Answer(p, resp, FALSE)
       /\ UNCHANGED now

(* A process that is done serves the next request. *)
Again(p) == /\ req[p].pc = "done"
            /\ req' = [req EXCEPT ![p] = [pc |-> "idle"]] /\ out' = [out EXCEPT ![p] = None]
            /\ UNCHANGED <<now, store>>

removeExpired ==
    /\ \E k \in Present : Expired(store[k])
    /\ store' = [k \in Keys |-> IF store[k].there /\ Expired(store[k]) THEN None ELSE store[k]]
    /\ UNCHANGED <<now, req, out>>

Tick == now < MaxTime /\ now' = now + 1 /\ UNCHANGED <<store, req, out>>

CacheNext ==
    \/ \E p \in Procs : Lookup(p) \/ Expire(p) \/ Handle(p) \/ Store(p) \/ Again(p)
    \/ removeExpired \/ Tick

-----------------------------------------------------------------------------
(* A HIT replays an answer the handler gave to the same path, query and      *)
(* user, of a status that may be cached, not older than the TTL; and the     *)
(* store never outgrows its capacity, however requests overlap.              *)
HitFaithful ==
    /\ \A p \in Procs : out[p].there /\ out[p].hit =>
         /\ out[p].resp.of = req[p].r
         /\ out[p].resp.status \in StatusCodes
         /\ out[p].at - out[p].resp.cachedAt <= TTL
    /\ Cardinality(Present) <= maxEntries
=============================================================================
