------------------------------ MODULE Session ------------------------------
(***************************************************************************)
(* contrib/session: the middleware of concurrent requests of one browser   *)
(* over a MemoryStore with idle expiry.  A session's values are the set of *)
(* requests whose Set it contains; the store copies them on Get and Save.  *)
(***************************************************************************)
EXTENDS Naturals, FiniteSets

CONSTANTS
    Procs,          \* requests, each served once
    Ids,            \* session ids: 1..n, handed out in order
    IdleTimeout, MaxTime

VARIABLES
    now,
    entries,        \* MemoryStore.entries: id -> entry, None when absent
    sess,           \* the Session of each request, and where it stands
    lastId,         \* ids generated so far
    saved,          \* history: the last Save of each id that no Delete of a handler followed
    gone,           \* history: ids a handler destroyed, with the requests then under way
    raced           \* history: ids whose last Save was deleted by a Get that had read an older entry

sessvars == <<now, entries, sess, lastId, saved, gone, raced>>

None == [values |-> {}, expiresAt |-> 0, there |-> FALSE]
Entry(v) == [values |-> v, expiresAt |-> now + IdleTimeout, there |-> TRUE]
ExpiredEarly(e) == now >= e.expiresAt                \* mutant
Expired(e) == now > e.expiresAt

NoSession == [pc |-> "idle", id |-> 0, values |-> {}, isNew |-> FALSE, modified |-> FALSE, destroy |-> FALSE,
              seen |-> None]     \* the entry Get has read

SessInit ==
    /\ now = 1 /\ lastId = 0
    /\ entries = [i \in Ids |-> None] /\ saved = [i \in Ids |-> None]
    /\ sess = [p \in Procs |-> NoSession]
    /\ gone = [i \in Ids |-> [is |-> FALSE, with |-> {}]] /\ raced = {}

Goto(p, pc) == sess' = [sess EXCEPT ![p].pc = pc]
Hist == UNCHANGED <<saved, gone, raced>>

(* The mutant goes on with the id of the cookie. *)
KeepId(p) == sess' = [sess EXCEPT ![p] = [NoSession EXCEPT !.pc = "handler", !.isNew = TRUE,
                                             !.id = IF sess[p].id = 0 THEN lastId + 1 ELSE sess[p].id]]
             /\ (IF sess[p].id = 0 THEN lastId + 1 \in Ids /\ lastId' = lastId + 1 ELSE UNCHANGED lastId)

(* generateSessionID and the empty SessionData of a new session. *)
Fresh(p) ==
    /\ lastId + 1 \in Ids
    /\ lastId' = lastId + 1
    /\ sess' = [sess EXCEPT ![p] = [NoSession EXCEPT !.pc = "handler", !.id = lastId + 1, !.isNew = TRUE]]

(* The request arrives with any cookie it was ever given, or none. *)
Begin(p) ==
    /\ sess[p].pc = "idle"
    /\ \/ Fresh(p)
       \/ \E i \in 1..lastId : /\ sess' = [sess EXCEPT ![p].pc = "get", ![p].id = i]
                               /\ UNCHANGED lastId
    /\ UNCHANGED <<now, entries>> /\ Hist

(* MemoryStore.Get copies the entry under the read lock,                    *)
Get(p) ==
    LET e == entries[sess[p].id] IN
    /\ sess[p].pc = "get"
    /\ IF e.there
       THEN sess' = [sess EXCEPT ![p].pc = "judge", ![p].seen = e] /\ UNCHANGED lastId
       ELSE Fresh(p)
    /\ UNCHANGED <<now, entries>> /\ Hist

(* reads the clock without a lock,                                           *)
Judge(p) ==
    /\ sess[p].pc = "judge"
    /\ IF Expired(sess[p].seen) THEN Goto(p, "expire")
       ELSE sess' = [sess EXCEPT ![p].pc = "handler", ![p].values = sess[p].seen.values, ![p].seen = None]
    /\ UNCHANGED <<now, entries, lastId>> /\ Hist

(* and removes what is there by then under a lock of its own.                *)
Expire(p) ==
    LET i == sess[p].id IN
    /\ sess[p].pc = "expire"
    /\ entries' = [entries EXCEPT ![i] = None]
    /\ raced' = IF entries[i] # sess[p].seen THEN raced \cup {i} ELSE raced
    /\ Fresh(p)
    /\ UNCHANGED <<now, saved, gone>>

(* The handler: Set, Clear, Destroy, or no change. *)
Handler(p) ==
    /\ sess[p].pc = "handler"
    /\ \/ sess' = [sess EXCEPT ![p].pc = "save", ![p].values = @ \cup {p}, ![p].modified = TRUE]
       \/ sess' = [sess EXCEPT ![p].pc = "save", ![p].values = {}, ![p].modified = TRUE]
       \/ sess' = [sess EXCEPT ![p].pc = "save", ![p].destroy = TRUE, ![p].modified = TRUE]
       \/ Goto(p, "save")
       \/ Goto(p, "done")       \* a panic: the middleware never gets to save
    /\ UNCHANGED <<now, entries, lastId>> /\ Hist

Busy(i) == {q \in Procs : sess[q].id = i /\ sess[q].pc \in {"get", "judge", "expire", "handler", "save"}}

(* Session.save: a destroyed session is deleted, a new or modified one is   *)
(* stored whole, any other is left as it is.                                *)
save(p) ==
    LET s == sess[p]
        e == Entry(s.values)
    IN CASE s.destroy ->
              /\ entries' = [entries EXCEPT ![s.id] = None]
              /\ saved' = [saved EXCEPT ![s.id] = None]
              /\ gone' = [gone EXCEPT ![s.id] = [is |-> TRUE, with |-> @.with \cup (Busy(s.id) \ {p})]]
              /\ UNCHANGED raced
         [] ~s.destroy /\ (s.modified \/ s.isNew) ->
              /\ entries' = [entries EXCEPT ![s.id] = e]
              /\ saved' = [saved EXCEPT ![s.id] = e]
              /\ raced' = raced \ {s.id}
              /\ UNCHANGED gone
         [] OTHER -> UNCHANGED entries /\ Hist

(* The middleware after c.Next: save, whatever error the handler returned;  *)
(* the cookie is the browser's copy of the id.                              *)
Save(p) ==
    /\ sess[p].pc = "save"
    /\ save(p)
    /\ Goto(p, "done")
    /\ UNCHANGED <<now, lastId>>

(* cleanupLoop *)
removeExpired ==
    /\ \E i \in Ids : entries[i].there /\ Expired(entries[i])
    /\ entries' = [i \in Ids |-> IF entries[i].there /\ Expired(entries[i]) THEN None ELSE entries[i]]
    /\ UNCHANGED <<now, sess, lastId>> /\ Hist

Tick == now < MaxTime /\ now' = now + 1 /\ UNCHANGED <<entries, sess, lastId>> /\ Hist

SessNext ==
    \/ \E p \in Procs : Begin(p) \/ Get(p) \/ Judge(p) \/ Expire(p) \/ Handler(p) \/ Save(p)
    \/ removeExpired \/ Tick

-----------------------------------------------------------------------------
(* What a request saved stays readable until its idle time is over or a      *)
(* later Save or Destroy of the session: cleanup and lazy expiry take nothing*)
(* else.  The one way to lose it is a Get that read the entry before it was  *)
(* saved, and found that older entry expired when it looked at the clock.    *)
SavedSurvives ==
    \A i \in Ids : saved[i].there /\ now <= saved[i].expiresAt /\ i \notin raced => entries[i] = saved[i]

(* A destroyed session comes back only by a request that had it in its hands *)
(* when it was destroyed and saved it afterwards; whoever presents the old   *)
(* cookie later is given a new id.                                           *)
DestroyedStaysGone ==
    \A i \in Ids : gone[i].is /\ entries[i].there =>
        \E q \in gone[i].with : sess[q].pc = "done" /\ ~sess[q].destroy
=============================================================================
