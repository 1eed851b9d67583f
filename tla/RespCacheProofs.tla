-------------------------- MODULE RespCacheProofs --------------------------
(***************************************************************************)
(* HitFaithful of the response cache, for any number of overlapping        *)
(* requests, any paths, queries and users, any TTL and any capacity, on a  *)
(* transport that can enumerate the query.                                 *)
(*                                                                         *)
(* A hit is decided by the key and the expiry of an entry, so the entry    *)
(* has to be known to hold an answer to a request of that key, and its     *)
(* expiry to be the TTL counted from cachedAt (Stored).  The answer is put *)
(* there by a request that was looked up long before; what it carries is   *)
(* still the answer to that same request (Asked).                          *)
(***************************************************************************)
EXTENDS RespCache, FiniteSetTheorems, TLAPS

CacheSpec == CacheInit /\ [][CacheNext]_cachevars

\* A store with a capacity (0 is none) behind a transport with AllQuery.
Configured == AllQuery = TRUE /\ TTL \in Nat /\ maxEntries \in Nat \ {0}

Answers == [of : Requests, status : Statuses, cachedAt : Nat]

Held == [there : {TRUE}, resp : Answers, expiresAt : Nat]

Waiting == [pc : {"handler", "expire", "done"}, r : Requests]

Answered == [pc : {"store"}, r : Requests, resp : Answers]

Outcome == [there : {TRUE}, resp : Answers, hit : BOOLEAN, at : Nat]

TypeOK ==
    /\ now \in Nat
    /\ store \in [Keys -> {None} \cup Held]
    /\ req \in [Procs -> {[pc |-> "idle"]} \cup Waiting \cup Answered]
    /\ out \in [Procs -> {None} \cup Outcome]

\* Entry e may be under key k: an answer of its TTL to a request of that key.
Entry(k, e) ==
    e.there => /\ KeyFunc(e.resp.of) = k
               /\ e.resp.status \in StatusCodes
               /\ e.expiresAt = e.resp.cachedAt + TTL

Stored == \A k \in Keys : Entry(k, store[k])

Asked == \A p \in Procs : req[p].pc = "store" => req[p].resp.of = req[p].r

Faithful(o, q) ==
    /\ o.there => q.pc = "done"
    /\ o.there /\ o.hit =>
         /\ o.resp.of = q.r
         /\ o.resp.status \in StatusCodes
         /\ o.at - o.resp.cachedAt <= TTL

Hits == \A p \in Procs : Faithful(out[p], req[p])

Bounded == IsFiniteSet(Present) /\ Cardinality(Present) <= maxEntries

IInv == TypeOK /\ Stored /\ Asked /\ Hits /\ Bounded

-----------------------------------------------------------------------------
LEMMA NoneFacts == ~None.there
    BY DEF None

LEMMA KeyType ==
    ASSUME NEW r \in Requests
    PROVE  KeyFunc(r) \in Keys
    BY DEF Keys

\* With the whole query in it the key tells all requests apart.
LEMMA KeyIsInjective ==
    ASSUME Configured, NEW r \in Requests, NEW s \in Requests,
           KeyFunc(r) = KeyFunc(s)
    PROVE  r = s
<1>1. r.path = s.path /\ r.query = s.query /\ r.user = s.user
    BY DEF KeyFunc, Configured
<1> QED  BY <1>1 DEF Requests

LEMMA ReqTypes ==
    ASSUME TypeOK, NEW p \in Procs
    PROVE  /\ req[p].pc \in {"handler", "expire", "done"} => req[p] \in Waiting
           /\ req[p].pc = "store" => req[p] \in Answered
<1>1. req[p] \in {[pc |-> "idle"]} \cup Waiting \cup Answered
    BY DEF TypeOK
<1> QED  BY <1>1 DEF Waiting, Answered

LEMMA StoreTypes ==
    ASSUME TypeOK, NEW k \in Keys, store[k].there
    PROVE  store[k] \in Held
<1>1. store[k] \in {None} \cup Held
    BY DEF TypeOK
<1> QED  BY <1>1, NoneFacts

\* A step of request p that leaves the store in order.
LEMMA ProceedKeeps ==
    ASSUME IInv, NEW p \in Procs, UNCHANGED now,
           store' \in [Keys -> {None} \cup Held], Stored', Bounded',
           NEW q \in {[pc |-> "idle"]} \cup Waiting \cup Answered,
           NEW o \in {None} \cup Outcome,
           req' = [req EXCEPT ![p] = q], out' = [out EXCEPT ![p] = o],
           q.pc = "store" => q.resp.of = q.r, Faithful(o, q)
    PROVE  IInv'
<1>1. TypeOK /\ Asked /\ Hits
    BY DEF IInv
<1>2. /\ req'[p] = q /\ out'[p] = o
      /\ \A x \in Procs : x # p => req'[x] = req[x] /\ out'[x] = out[x]
    BY <1>1 DEF TypeOK
<1>3. TypeOK'
    BY <1>1 DEF TypeOK
<1>4. Asked'
    BY <1>1, <1>2 DEF Asked
<1>5. Hits'
    <2> SUFFICES ASSUME NEW x \in Procs PROVE Faithful(out[x], req[x])'
        BY DEF Hits
    <2>1. CASE x = p
        BY <1>2, <2>1 DEF Faithful
    <2>2. CASE x # p
        BY <1>1, <1>2, <2>2 DEF Hits, Faithful
    <2> QED  BY <2>1, <2>2
<1> QED  BY <1>3, <1>4, <1>5 DEF IInv

\* One that does not touch it.
LEMMA ServeKeeps ==
    ASSUME IInv, NEW p \in Procs, UNCHANGED <<now, store>>,
           NEW q \in {[pc |-> "idle"]} \cup Waiting \cup Answered,
           NEW o \in {None} \cup Outcome,
           req' = [req EXCEPT ![p] = q], out' = [out EXCEPT ![p] = o],
           q.pc = "store" => q.resp.of = q.r, Faithful(o, q)
    PROVE  IInv'
<1>1. TypeOK /\ Stored /\ Bounded
    BY DEF IInv
<1>2. store' \in [Keys -> {None} \cup Held]
    BY <1>1 DEF TypeOK
<1>3. Stored' /\ Bounded'
    BY <1>1 DEF Stored, Entry, Bounded, Present
<1> QED  BY <1>2, <1>3, ProceedKeeps

LEMMA LookupKeeps ==
    ASSUME Configured, IInv, NEW p \in Procs, Lookup(p)
    PROVE  IInv'
<1>1. TypeOK /\ Stored /\ Hits
    BY DEF IInv
<1>2. PICK r \in Requests :
        LET e == store[KeyFunc(r)] IN
        \/ ~e.there /\ Miss(p, r) /\ UNCHANGED out
        \/ /\ req' = [req EXCEPT ![p] = [pc |-> "expire", r |-> r]]
           /\ UNCHANGED out
        \/ /\ e.there /\ ~Expired(e) /\ Answer(p, e.resp, TRUE)
           /\ req' = [req EXCEPT ![p] = [pc |-> "done", r |-> r]]
    BY DEF Lookup
<1> DEFINE e == store[KeyFunc(r)]
<1>3. UNCHANGED <<now, store>> /\ req[p].pc = "idle"
    BY DEF Lookup
<1>4. /\ out[p] \in {None} \cup Outcome /\ ~out[p].there
      /\ out = [out EXCEPT ![p] = out[p]]
    BY <1>1, <1>3 DEF Hits, Faithful, TypeOK
<1>5. ASSUME NEW s \in {"handler", "expire"}, UNCHANGED out,
             req' = [req EXCEPT ![p] = [pc |-> s, r |-> r]]
      PROVE  IInv'
    <2> DEFINE q == [pc |-> s, r |-> r]
    <2>1. q \in Waiting /\ q.pc # "store"
        BY DEF Waiting
    <2>2. Faithful(out[p], q)
        BY <1>4 DEF Faithful
    <2>3. req' = [req EXCEPT ![p] = q] /\ out' = [out EXCEPT ![p] = out[p]]
        BY <1>4, <1>5
    <2> HIDE DEF q
    <2> QED  BY <1>3, <1>4, <2>1, <2>2, <2>3, ServeKeeps
<1>6. CASE e.there /\ ~Expired(e) /\ Answer(p, e.resp, TRUE)
           /\ req' = [req EXCEPT ![p] = [pc |-> "done", r |-> r]]
    <2> DEFINE q == [pc |-> "done", r |-> r]
               o == [there |-> TRUE, resp |-> e.resp, hit |-> TRUE, at |-> now]
    <2>1. KeyFunc(r) \in Keys
        BY KeyType
    <2>2. e \in Held
        BY <1>1, <1>6, <2>1, StoreTypes
    <2>3. e.resp \in Answers /\ e.expiresAt \in Nat /\ now \in Nat
          /\ e.resp.of \in Requests /\ e.resp.cachedAt \in Nat
        BY <1>1, <2>2 DEF Held, Answers, TypeOK
    <2>4. /\ KeyFunc(e.resp.of) = KeyFunc(r)
          /\ e.resp.status \in StatusCodes
          /\ e.expiresAt = e.resp.cachedAt + TTL
        BY <1>1, <1>6, <2>1 DEF Stored, Entry
    <2>5. e.resp.of = r
        BY <2>3, <2>4, KeyIsInjective
    <2>6. now - e.resp.cachedAt <= TTL
        BY <1>6, <2>3, <2>4 DEF Expired, Configured
    <2>7. q \in Waiting /\ q.pc # "store" /\ o \in Outcome
        BY <2>3 DEF Waiting, Outcome
    <2>8. Faithful(o, q)
        BY <2>4, <2>5, <2>6 DEF Faithful
    <2>9. req' = [req EXCEPT ![p] = q] /\ out' = [out EXCEPT ![p] = o]
        BY <1>6 DEF Answer
    <2> HIDE DEF q, o, e
    <2> QED  BY <1>3, <2>7, <2>8, <2>9, ServeKeeps
<1> QED  BY <1>2, <1>5, <1>6 DEF Miss

LEMMA HandleKeeps ==
    ASSUME IInv, NEW p \in Procs, Handle(p)
    PROVE  IInv'
<1>1. TypeOK /\ Hits
    BY DEF IInv
<1>2. PICK s \in Statuses :
        req' = [req EXCEPT ![p] =
                  [pc |-> "store", r |-> req[p].r,
                   resp |-> [of |-> req[p].r, status |-> s, cachedAt |-> now]]]
    BY DEF Handle
<1> DEFINE a == [of |-> req[p].r, status |-> s, cachedAt |-> now]
           q == [pc |-> "store", r |-> req[p].r, resp |-> a]
<1>3. UNCHANGED <<now, store, out>> /\ req[p].pc = "handler"
    BY DEF Handle
<1>4. req[p].r \in Requests /\ now \in Nat
    BY <1>1, <1>3, ReqTypes DEF Waiting, TypeOK
<1>5. a \in Answers /\ a.of = req[p].r
    BY <1>4 DEF Answers
<1>6. q \in Answered /\ q.resp.of = q.r
    BY <1>4, <1>5 DEF Answered
<1>7. /\ out[p] \in {None} \cup Outcome /\ ~out[p].there
      /\ out' = [out EXCEPT ![p] = out[p]]
    BY <1>1, <1>3 DEF Hits, Faithful, TypeOK
<1>8. Faithful(out[p], q)
    BY <1>7 DEF Faithful
<1>9. req' = [req EXCEPT ![p] = q]
    BY <1>2
<1> HIDE DEF q, a
<1> QED  BY <1>3, <1>6, <1>7, <1>8, <1>9, ServeKeeps

LEMMA AgainKeeps ==
    ASSUME IInv, NEW p \in Procs, Again(p)
    PROVE  IInv'
<1> DEFINE q == [pc |-> "idle"]
<1>1. q.pc # "store" /\ Faithful(None, q)
    BY NoneFacts DEF Faithful
<1>2. /\ UNCHANGED <<now, store>>
      /\ req' = [req EXCEPT ![p] = q] /\ out' = [out EXCEPT ![p] = None]
    BY DEF Again
<1> QED  BY <1>1, <1>2, ServeKeeps

-----------------------------------------------------------------------------
(* The steps that change the store: what they put or leave there.            *)

LEMMA StorageKeeps ==
    ASSUME IInv, UNCHANGED now, store' \in [Keys -> {None} \cup Held], Bounded',
           \A k \in Keys : store'[k] = store[k] \/ Entry(k, store'[k])
    PROVE  Stored' /\ Bounded'
<1>1. Stored
    BY DEF IInv
<1>2. ASSUME NEW k \in Keys PROVE Entry(k, store'[k])
    BY <1>1 DEF Stored, Entry
<1> QED  BY <1>2 DEF Stored, Entry

\* Nothing new: some entries are gone.
LEMMA FewerKeeps ==
    ASSUME IInv, Configured, UNCHANGED now,
           store' \in [Keys -> {None} \cup Held],
           \A k \in Keys : store'[k] = store[k] \/ store'[k] = None
    PROVE  Stored' /\ Bounded'
<1>1. Bounded
    BY DEF IInv
<1>2. Present' \subseteq Present
    BY NoneFacts DEF Present
<1>3. IsFiniteSet(Present') /\ Cardinality(Present') <= Cardinality(Present)
    BY <1>1, <1>2, FS_Subset DEF Bounded
<1>4. Cardinality(Present') \in Nat /\ Cardinality(Present) \in Nat
    BY <1>1, <1>3, FS_CardinalityType DEF Bounded
<1>5. Bounded'
    BY <1>1, <1>3, <1>4 DEF Bounded, Configured
<1>6. \A k \in Keys : store'[k] = store[k] \/ Entry(k, store'[k])
    BY NoneFacts DEF Entry
<1> QED  BY <1>5, <1>6, StorageKeeps

LEMMA ExpireKeeps ==
    ASSUME IInv, Configured, NEW p \in Procs, Expire(p)
    PROVE  IInv'
<1> DEFINE k == KeyFunc(req[p].r)
           q == [pc |-> "handler", r |-> req[p].r]
<1>1. TypeOK /\ Asked /\ Hits
    BY DEF IInv
<1>2. /\ UNCHANGED <<now, out>> /\ req[p].pc = "expire"
      /\ store' = [store EXCEPT ![k] = None] /\ req' = [req EXCEPT ![p] = q]
    BY DEF Expire, Miss
<1>3. req[p].r \in Requests
    BY <1>1, <1>2, ReqTypes DEF Waiting
<1>4. k \in Keys /\ q \in Waiting /\ q.pc = "handler"
    BY <1>3, KeyType DEF Waiting
<1> HIDE DEF k, q
<1>5. /\ store' \in [Keys -> {None} \cup Held]
      /\ \A j \in Keys : store'[j] = store[j] \/ store'[j] = None
    BY <1>1, <1>2, <1>4 DEF TypeOK
<1>6. Stored' /\ Bounded'
    BY <1>2, <1>5, FewerKeeps
<1>7. /\ out[p] \in {None} \cup Outcome /\ ~out[p].there
      /\ out' = [out EXCEPT ![p] = out[p]]
    BY <1>1, <1>2 DEF Hits, Faithful, TypeOK
<1>8. Faithful(out[p], q)
    BY <1>7 DEF Faithful
<1> QED  BY <1>2, <1>4, <1>5, <1>6, <1>7, <1>8, ProceedKeeps

\* MemoryStore.Set with room for the key: it is there already, or others are
\* fewer than the capacity.
LEMMA PutKeeps ==
    ASSUME IInv, Configured, UNCHANGED now, NEW k \in Keys, NEW n \in Held,
           Entry(k, n), NEW V \in SUBSET Present, k \notin V,
           store' \in [Keys -> {None} \cup Held], store'[k] = n,
           \A j \in V : store'[j] = None,
           \A j \in Keys \ V : j # k => store'[j] = store[j],
           \/ k \in Present
           \/ Cardinality(Present) < maxEntries
           \/ V # {}
    PROVE  Stored' /\ Bounded'
<1>1. Bounded /\ IsFiniteSet(Present) /\ Cardinality(Present) <= maxEntries
    BY DEF IInv, Bounded
<1> DEFINE S == Present \ V
<1>2. Present' = S \cup {k}
    BY NoneFacts DEF Present, Held
<1>3. IsFiniteSet(S) /\ Cardinality(S) <= Cardinality(Present)
    BY <1>1, FS_Subset
<1>4. S # Present => Cardinality(S) < Cardinality(Present)
    <2> SUFFICES ASSUME S # Present PROVE Cardinality(S) < Cardinality(Present)
        OBVIOUS
    <2>1. Cardinality(S) # Cardinality(Present)
        BY <1>1, FS_Subset
    <2> QED  BY <1>1, <1>3, <2>1, FS_CardinalityType
<1>5. /\ IsFiniteSet(S \cup {k})
      /\ Cardinality(S \cup {k}) =
           IF k \in S THEN Cardinality(S) ELSE Cardinality(S) + 1
    BY <1>3, FS_AddElement
<1>6. Cardinality(S) \in Nat /\ Cardinality(Present) \in Nat
    BY <1>1, <1>3, FS_CardinalityType
<1>7. k \in S \/ Cardinality(S) < maxEntries
    <2>1. CASE k \in Present
        BY <2>1
    <2>2. CASE Cardinality(Present) < maxEntries
        BY <1>3, <1>6, <2>2 DEF Configured
    <2>3. CASE V # {}
        <3>1. S # Present
            BY <2>3
        <3> QED  BY <1>1, <1>4, <1>6, <3>1 DEF Configured
    <2> QED  BY <2>1, <2>2, <2>3
<1>8. Cardinality(S \cup {k}) <= maxEntries
    <2> HIDE DEF S
    <2> QED  BY <1>1, <1>3, <1>5, <1>6, <1>7 DEF Configured
<1>9. Bounded'
    BY <1>2, <1>5, <1>8 DEF Bounded
<1>10. \A j \in Keys : store'[j] = store[j] \/ Entry(j, store'[j])
    <2> SUFFICES ASSUME NEW j \in Keys
                 PROVE  store'[j] = store[j] \/ Entry(j, store'[j])
        OBVIOUS
    <2>1. CASE j = k
        BY <2>1
    <2>2. CASE j \in V
        BY <2>2, NoneFacts DEF Entry
    <2> QED  BY <2>1, <2>2
<1> QED  BY <1>9, <1>10, StorageKeeps

LEMMA StoreKeeps ==
    ASSUME IInv, Configured, NEW p \in Procs, Store(p)
    PROVE  IInv'
<1> DEFINE k == KeyFunc(req[p].r)
           a == [req[p].resp EXCEPT !.cachedAt = now]
           n == [there |-> TRUE, resp |-> a, expiresAt |-> now + TTL]
           q == [pc |-> "done", r |-> req[p].r]
           o == [there |-> TRUE, resp |-> a, hit |-> FALSE, at |-> now]
<1>1. TypeOK /\ Stored /\ Asked /\ Bounded
    BY DEF IInv
<1>2. /\ UNCHANGED now /\ req[p].pc = "store"
      /\ req' = [req EXCEPT ![p] = q] /\ out' = [out EXCEPT ![p] = o]
    BY DEF Store, Answer
<1>3. /\ req[p] \in Answered /\ req[p].r \in Requests /\ req[p].resp \in Answers
      /\ req[p].resp.of = req[p].r /\ now \in Nat
      /\ store \in [Keys -> {None} \cup Held]
    BY <1>1, <1>2, ReqTypes DEF Answered, Asked, TypeOK
<1>4. a \in Answers /\ a.of = req[p].r /\ a.cachedAt = now
    BY <1>3 DEF Answers
<1>5. k \in Keys /\ KeyFunc(a.of) = k
    BY <1>3, <1>4, KeyType
<1>6. \/ UNCHANGED store
      \/ a.status \in StatusCodes /\ \E v \in Present :
           k \notin Present /\ store' = Put([store EXCEPT ![v] = None], k, a)
      \/ /\ a.status \in StatusCodes /\ store' = Put(store, k, a)
         /\ k \in Present \/ ~(Cardinality(Present) >= maxEntries)
    BY DEF Store, isAllowedStatus
<1> HIDE DEF a, k
<1>7. q \in Waiting /\ q.pc = "done" /\ o \in Outcome
    BY <1>3, <1>4 DEF Waiting, Outcome
<1>8. Faithful(o, q)
    BY DEF Faithful
<1>9. n \in Held
    <2>1. now + TTL \in Nat
        BY <1>3 DEF Configured
    <2> QED  BY <1>4, <2>1 DEF Held
<1>10. a.status \in StatusCodes => Entry(k, n)
    BY <1>4, <1>5 DEF Entry
<1>11. \A s : Put(s, k, a) = [s EXCEPT ![k] = n]
    BY DEF Put
<1> HIDE DEF q, o, n
<1>12. Stored' /\ Bounded' /\ store' \in [Keys -> {None} \cup Held]
    <2>1. CASE UNCHANGED store
        BY <1>1, <1>2, <1>3, <2>1 DEF Stored, Entry, Bounded, Present
    <2>2. ASSUME a.status \in StatusCodes, NEW v \in Present, k \notin Present,
                 store' = Put([store EXCEPT ![v] = None], k, a)
          PROVE  Stored' /\ Bounded' /\ store' \in [Keys -> {None} \cup Held]
        <3> DEFINE s == [store EXCEPT ![v] = None]
        <3>1. v \in Keys /\ v # k
            BY <2>2 DEF Present
        <3>2. /\ s \in [Keys -> {None} \cup Held] /\ s[v] = None
              /\ \A j \in Keys \ {v} : s[j] = store[j]
            BY <1>3, <3>1
        <3>3. store' = [s EXCEPT ![k] = n]
            BY <1>11, <2>2
        <3> HIDE DEF s
        <3>4. /\ store' \in [Keys -> {None} \cup Held] /\ store'[k] = n
              /\ \A j \in {v} : store'[j] = None
              /\ \A j \in Keys \ {v} : j # k => store'[j] = store[j]
            BY <1>5, <1>9, <3>1, <3>2, <3>3
        <3>5. {v} \in SUBSET Present /\ k \notin {v} /\ {v} # {}
            BY <3>1
        <3>6. Entry(k, n)
            BY <1>10, <2>2
        <3> QED  BY <1>2, <1>5, <1>9, <3>4, <3>5, <3>6, PutKeeps
    <2>3. ASSUME a.status \in StatusCodes, store' = Put(store, k, a),
                 k \in Present \/ ~(Cardinality(Present) >= maxEntries)
          PROVE  Stored' /\ Bounded' /\ store' \in [Keys -> {None} \cup Held]
        <3> DEFINE V == {}
        <3>1. store' = [store EXCEPT ![k] = n]
            BY <1>11, <2>3
        <3>2. /\ store' \in [Keys -> {None} \cup Held] /\ store'[k] = n
              /\ \A j \in Keys \ V : j # k => store'[j] = store[j]
            BY <1>3, <1>5, <1>9, <3>1
        <3>3. Cardinality(Present) \in Nat
            BY <1>1, FS_CardinalityType DEF Bounded
        <3>4. k \in Present \/ Cardinality(Present) < maxEntries
            BY <2>3, <3>3 DEF Configured
        <3>5. Entry(k, n)
            BY <1>10, <2>3
        <3>6. /\ V \in SUBSET Present /\ k \notin V
              /\ \A j \in V : store'[j] = None
            OBVIOUS
        <3> HIDE DEF V
        <3> QED  BY <1>2, <1>5, <1>9, <3>2, <3>4, <3>5, <3>6, PutKeeps
    <2> QED  BY <1>6, <2>1, <2>2, <2>3
<1> QED  BY <1>2, <1>7, <1>8, <1>12, ProceedKeeps

LEMMA CleanupKeeps ==
    ASSUME IInv, Configured, removeExpired
    PROVE  IInv'
<1>1. TypeOK /\ Asked /\ Hits
    BY DEF IInv
<1>2. UNCHANGED <<now, req, out>>
    BY DEF removeExpired
<1>3. /\ store' \in [Keys -> {None} \cup Held]
      /\ \A k \in Keys : store'[k] = store[k] \/ store'[k] = None
    BY <1>1 DEF removeExpired, TypeOK
<1>4. Stored' /\ Bounded'
    BY <1>2, <1>3, FewerKeeps
<1>5. TypeOK'
    BY <1>1, <1>2, <1>3 DEF TypeOK
<1>6. Asked' /\ Hits'
    BY <1>1, <1>2 DEF Asked, Hits, Faithful
<1> QED  BY <1>4, <1>5, <1>6 DEF IInv

LEMMA IdleKeeps ==
    ASSUME IInv, Tick \/ UNCHANGED cachevars
    PROVE  IInv'
<1>1. TypeOK /\ Stored /\ Asked /\ Hits /\ Bounded
    BY DEF IInv
<1>2. UNCHANGED <<store, req, out>> /\ now' \in Nat
    BY <1>1 DEF Tick, cachevars, TypeOK
<1>3. TypeOK'
    BY <1>1, <1>2 DEF TypeOK
<1>4. Stored' /\ Bounded'
    BY <1>1, <1>2 DEF Stored, Entry, Bounded, Present
<1>5. Asked' /\ Hits'
    BY <1>1, <1>2 DEF Asked, Hits, Faithful
<1> QED  BY <1>3, <1>4, <1>5 DEF IInv

LEMMA InitHolds ==
    ASSUME Configured
    PROVE  CacheInit => IInv
<1> SUFFICES ASSUME CacheInit PROVE IInv
    OBVIOUS
<1>1. TypeOK
    BY DEF CacheInit, TypeOK
<1>2. Stored /\ Present = {}
    BY NoneFacts DEF CacheInit, Stored, Entry, Present
<1>3. Asked /\ Hits
    BY NoneFacts DEF CacheInit, Asked, Hits, Faithful
<1>4. Bounded
    BY <1>2, FS_EmptySet DEF Bounded, Configured
<1> QED  BY <1>1, <1>2, <1>3, <1>4 DEF IInv

LEMMA StepKeeps ==
    ASSUME Configured
    PROVE  IInv /\ [CacheNext]_cachevars => IInv'
<1> SUFFICES ASSUME IInv, [CacheNext]_cachevars PROVE IInv'
    OBVIOUS
<1>1. ASSUME NEW p \in Procs,
             Lookup(p) \/ Expire(p) \/ Handle(p) \/ Store(p) \/ Again(p)
      PROVE  IInv'
    BY <1>1, LookupKeeps, ExpireKeeps, HandleKeeps, StoreKeeps, AgainKeeps
<1>2. CASE removeExpired
    BY <1>2, CleanupKeeps
<1>3. CASE Tick \/ UNCHANGED cachevars
    BY <1>3, IdleKeeps
<1> QED  BY <1>1, <1>2, <1>3 DEF CacheNext

\* On a transport whose requests implement AllQueryProvider, a HIT of the cache
\* middleware replays what a handler answered to this very path, query and
\* user, with a status that may be cached and not longer ago than the TTL, and
\* the MemoryStore keeps within maxEntries: for any number of requests that
\* look up, expire, evict and store at the same time.
THEOREM HitsAreFaithful ==
    ASSUME Configured
    PROVE  CacheSpec => []HitFaithful
<1>1. IInv => HitFaithful
    BY DEF IInv, Hits, Faithful, Bounded, HitFaithful
<1> QED  BY <1>1, InitHolds, StepKeeps, PTL DEF CacheSpec
=============================================================================
