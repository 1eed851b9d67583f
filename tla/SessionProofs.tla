---------------------------- MODULE SessionProofs ----------------------------
(***************************************************************************)
(* Session's two promises, for any number of requests, ids and instants:   *)
(* what was saved survives, and what was destroyed stays gone.             *)
(*                                                                         *)
(* SavedSurvives is not inductive: Get reads an entry, judges it later and *)
(* removes later still what is there by then.  Doomed says that what it    *)
(* read is expired when it removes, so that it removes no fresh entry but  *)
(* a newer one.  DestroyedStaysGone needs to know of every request         *)
(* that may yet save a destroyed session that it held it at the time, or   *)
(* that another such request has already brought it back (Held); and that  *)
(* a new id was never destroyed (Known).                                   *)
(***************************************************************************)
EXTENDS Session, TLAPS

SessSpec == SessInit /\ [][SessNext]_sessvars

\* What the configuration of a store guarantees.
Configured == IdleTimeout \in Nat

Entries == [values : SUBSET Procs, expiresAt : Nat, there : BOOLEAN]

Stages == {"idle", "get", "judge", "expire", "handler", "save", "done"}

Sessions == [pc : Stages, id : Nat, values : SUBSET Procs,
             isNew : BOOLEAN, modified : BOOLEAN, destroy : BOOLEAN,
             seen : Entries]

TypeOK ==
    /\ now \in Nat /\ lastId \in Nat
    /\ entries \in [Ids -> Entries] /\ saved \in [Ids -> Entries]
    /\ sess \in [Procs -> Sessions]
    /\ gone \in [Ids -> [is : BOOLEAN, with : SUBSET Procs]]

\* Ids are handed out in order, and only those are in use.
Known ==
    /\ 1..lastId \subseteq Ids
    /\ \A p \in Procs : sess[p].pc # "idle" => sess[p].id \in 1..lastId
    /\ \A i \in Ids : gone[i].is => i \in 1..lastId

\* An entry that may be removed without a loss.
Removable(i) == i \in raced \/ ~saved[i].there \/ now > saved[i].expiresAt

\* What a Get that is about to remove has read is expired.
Doomed == \A p \in Procs : sess[p].pc = "expire" => now > sess[p].seen.expiresAt

\* A request that held i when it was destroyed has come to its end since.
Returned(i) == \E q \in gone[i].with : sess[q].pc = "done" /\ ~sess[q].destroy

MayReturn(p, i) == gone[i].is => p \in gone[i].with \/ Returned(i)

Held ==
    \A p \in Procs : sess[p].pc \in {"judge", "handler", "save"} => MayReturn(p, sess[p].id)

IInv == TypeOK /\ Known /\ Doomed /\ Held /\ SavedSurvives /\ DestroyedStaysGone

-----------------------------------------------------------------------------
LEMMA NoneFacts ==
    None \in Entries /\ ~None.there
    BY DEF None, Entries

LEMMA FreshFacts ==
    ASSUME NEW i \in Nat
    PROVE  LET s == [NoSession EXCEPT !.pc = "handler", !.id = i,
                                      !.isNew = TRUE]
           IN  s \in Sessions /\ s.pc = "handler" /\ s.id = i
    BY NoneFacts DEF NoSession, Sessions, Stages

\* A request moves on to s; entries that may go are removed.
LEMMA MoveOn ==
    ASSUME IInv, NEW p \in Procs, NEW s \in Sessions,
           sess' = [sess EXCEPT ![p] = s], sess[p].pc # "done",
           lastId' \in Nat, lastId <= lastId', 1..lastId' \subseteq Ids,
           s.pc # "idle" => s.id \in 1..lastId',
           s.pc = "expire" => now > s.seen.expiresAt,
           s.pc \in {"judge", "handler", "save"} => MayReturn(p, s.id),
           entries' \in [Ids -> Entries], raced \subseteq raced',
           \A i \in Ids : \/ entries'[i] = entries[i]
                          \/ entries'[i] = None /\ (i \in raced' \/ Removable(i)),
           UNCHANGED <<now, saved, gone>>
    PROVE  IInv'
<1>1. TypeOK /\ Known /\ Doomed /\ Held /\ SavedSurvives /\ DestroyedStaysGone
    BY DEF IInv
<1>2. sess \in [Procs -> Sessions] /\ lastId \in Nat
    BY <1>1 DEF TypeOK
<1>3. /\ sess'[p] = s
      /\ \A q \in Procs : q # p => sess'[q] = sess[q]
      /\ sess' \in [Procs -> Sessions]
    BY <1>2
<1>4. TypeOK'
    BY <1>1, <1>3 DEF TypeOK
<1>5. \A i : i \in 1..lastId => i \in 1..lastId'
    BY <1>2
<1>6. Known'
    BY <1>1, <1>3, <1>5 DEF Known
<1>8. Doomed'
    BY <1>1, <1>3 DEF Doomed
<1>9. gone \in [Ids -> [is : BOOLEAN, with : SUBSET Procs]]
    BY <1>1 DEF TypeOK
<1>10. \A i \in Ids : Returned(i) => Returned(i)'
    BY <1>3, <1>9 DEF Returned
<1>11. \A q \in Procs : \A i \in Ids : MayReturn(q, i) => MayReturn(q, i)'
    BY <1>10 DEF MayReturn
<1>12. \A q \in Procs : sess'[q].pc # "idle" => sess'[q].id \in Ids
    BY <1>6 DEF Known
<1>13. Held'
    <2> SUFFICES ASSUME NEW q \in Procs, sess'[q].pc \in {"judge", "handler", "save"}
                 PROVE  MayReturn(q, sess[q].id)'
        BY DEF Held
    <2>1. sess'[q].id \in Ids
        BY <1>12
    <2>2. MayReturn(q, sess'[q].id)
        BY <1>1, <1>3 DEF Held
    <2>3. MayReturn(q, sess'[q].id) => MayReturn(q, sess[q].id)'
        BY <1>10, <2>1 DEF MayReturn, Returned
    <2> QED  BY <2>2, <2>3
<1>14. SavedSurvives'
    <2> SUFFICES ASSUME NEW i \in Ids, saved[i].there,
                        now <= saved[i].expiresAt, i \notin raced'
                 PROVE  entries'[i] = saved[i]
        BY DEF SavedSurvives
    <2>1. entries[i] = saved[i]
        BY <1>1 DEF SavedSurvives
    <2>2. now \in Nat /\ saved[i].expiresAt \in Nat
        BY <1>1 DEF TypeOK, Entries
    <2>3. ~(now > saved[i].expiresAt)
        BY <2>2
    <2>4. ~Removable(i)
        BY <2>3 DEF Removable
    <2> QED  BY <2>1, <2>4
<1>15. DestroyedStaysGone'
    <2> SUFFICES ASSUME NEW i \in Ids, gone[i].is, entries'[i].there
                 PROVE  Returned(i)'
        BY DEF DestroyedStaysGone, Returned
    <2>1. entries[i].there
        BY NoneFacts
    <2>2. Returned(i)
        BY <1>1, <2>1 DEF DestroyedStaysGone, Returned
    <2> QED  BY <1>10, <2>2
<1> QED  BY <1>4, <1>6, <1>8, <1>13, <1>14, <1>15 DEF IInv

\* A new session has an id that nobody knows.
LEMMA FreshKeeps ==
    ASSUME IInv, NEW p \in Procs, Fresh(p), sess[p].pc # "done",
           entries' \in [Ids -> Entries], raced \subseteq raced',
           \A i \in Ids : \/ entries'[i] = entries[i]
                          \/ entries'[i] = None /\ (i \in raced' \/ Removable(i)),
           UNCHANGED <<now, saved, gone>>
    PROVE  IInv'
<1> DEFINE i == lastId + 1
           s == [NoSession EXCEPT !.pc = "handler", !.id = i, !.isNew = TRUE]
<1>1. lastId \in Nat /\ 1..lastId \subseteq Ids
    BY DEF IInv, TypeOK, Known
<1>2. i \in Ids /\ lastId' = i /\ sess' = [sess EXCEPT ![p] = s]
    BY DEF Fresh
<1>3. i \in Nat /\ lastId <= i /\ i \notin 1..lastId /\ i \in 1..i
    BY <1>1
<1>4. s \in Sessions /\ s.pc = "handler" /\ s.id = i
    BY <1>3, FreshFacts
<1> HIDE DEF s
<1>5. 1..i \subseteq Ids
    <2> SUFFICES ASSUME NEW j \in 1..i PROVE j \in Ids
        OBVIOUS
    <2>1. j = i \/ j \in 1..lastId
        BY <1>1
    <2> QED  BY <1>1, <1>2, <2>1
<1>6. ~gone[i].is
    BY <1>2, <1>3 DEF IInv, Known
<1>7. MayReturn(p, i)
    BY <1>6 DEF MayReturn
<1> HIDE DEF i
<1> QED  BY <1>2, <1>3, <1>4, <1>5, <1>7, MoveOn

LEMMA SessFacts ==
    ASSUME IInv, NEW p \in Procs
    PROVE  /\ sess[p] \in Sessions /\ lastId \in Nat /\ 1..lastId \subseteq Ids
           /\ entries \in [Ids -> Entries]
           /\ sess \in [Procs -> Sessions]
           /\ sess[p].pc # "idle" => /\ sess[p].id \in 1..lastId
                                     /\ sess[p].id \in Ids
<1>1. TypeOK /\ Known
    BY DEF IInv
<1>2. /\ sess[p] \in Sessions /\ lastId \in Nat /\ 1..lastId \subseteq Ids
      /\ entries \in [Ids -> Entries]
    BY <1>1 DEF TypeOK, Known
<1>3. sess[p].pc # "idle" => sess[p].id \in 1..lastId
    BY <1>1 DEF Known
<1> QED  BY <1>1, <1>2, <1>3 DEF TypeOK

\* A request moves on within the ids in use, and the store is left alone.
LEMMA StayOn ==
    ASSUME IInv, NEW p \in Procs, NEW s \in Sessions,
           sess' = [sess EXCEPT ![p] = s], sess[p].pc # "done",
           s.pc # "idle" => s.id \in 1..lastId,
           s.pc = "expire" => now > s.seen.expiresAt,
           s.pc \in {"judge", "handler", "save"} => MayReturn(p, s.id),
           UNCHANGED <<lastId, entries, now, saved, gone, raced>>
    PROVE  IInv'
<1>1. lastId' \in Nat /\ lastId <= lastId' /\ 1..lastId' \subseteq Ids
    BY SessFacts
<1>2. entries' \in [Ids -> Entries]
    BY SessFacts
<1> QED  BY <1>1, <1>2, MoveOn

LEMMA BeginKeeps ==
    ASSUME IInv, NEW p \in Procs, Begin(p)
    PROVE  IInv'
<1>1. /\ sess[p].pc = "idle" /\ UNCHANGED <<now, entries, saved, gone, raced>>
    BY DEF Begin, Hist
<1>2. CASE Fresh(p)
    BY <1>1, <1>2, SessFacts, FreshKeeps
<1>3. CASE \E i \in 1..lastId :
             /\ sess' = [sess EXCEPT ![p].pc = "get", ![p].id = i]
             /\ UNCHANGED lastId
    <2>1. PICK i \in 1..lastId :
             /\ sess' = [sess EXCEPT ![p].pc = "get", ![p].id = i]
             /\ UNCHANGED lastId
        BY <1>3
    <2> DEFINE s == [sess[p] EXCEPT !.pc = "get", !.id = i]
    <2>2. s \in Sessions /\ s.pc = "get" /\ s.id = i
        <3>1. sess[p] \in Sessions /\ lastId \in Nat
            BY SessFacts
        <3>2. i \in Nat
            BY <3>1
        <3> QED  BY <3>1, <3>2 DEF Sessions, Stages
    <2>3. sess' = [sess EXCEPT ![p] = s]
        BY <2>1, SessFacts
    <2> HIDE DEF s
    <2> QED  BY <1>1, <2>1, <2>2, <2>3, StayOn
<1> QED  BY <1>2, <1>3 DEF Begin

LEMMA GetKeeps ==
    ASSUME IInv, NEW p \in Procs, Get(p)
    PROVE  IInv'
<1> DEFINE i == sess[p].id
           e == entries[i]
<1>1. /\ sess[p].pc = "get" /\ UNCHANGED <<now, entries, saved, gone, raced>>
    BY DEF Get, Hist
<1>2. /\ sess[p] \in Sessions /\ i \in 1..lastId /\ i \in Ids
      /\ entries \in [Ids -> Entries] /\ e \in Entries
      /\ sess \in [Procs -> Sessions]
    BY <1>1, SessFacts
<1>3. CASE ~e.there
    <2>1. Fresh(p)
        BY <1>3 DEF Get
    <2> QED  BY <1>1, <1>2, <2>1, FreshKeeps
<1>4. CASE e.there
    <2> DEFINE s == [sess[p] EXCEPT !.pc = "judge", !.seen = e]
    <2>1. sess' = [sess EXCEPT ![p] = s] /\ UNCHANGED lastId
        BY <1>2, <1>4 DEF Get
    <2> HIDE DEF e
    <2>2. s \in Sessions /\ s.pc = "judge" /\ s.id = i
        BY <1>2 DEF Sessions, Stages
    <2>3. MayReturn(p, i)
        BY <1>2, <1>4 DEF IInv, DestroyedStaysGone, MayReturn, Returned, e
    <2> HIDE DEF s
    <2> QED  BY <1>1, <1>2, <2>1, <2>2, <2>3, StayOn
<1> QED  BY <1>3, <1>4

LEMMA JudgeKeeps ==
    ASSUME IInv, NEW p \in Procs, Judge(p)
    PROVE  IInv'
<1> DEFINE i == sess[p].id
           e == sess[p].seen
<1>1. /\ sess[p].pc = "judge"
      /\ UNCHANGED <<lastId, now, entries, saved, gone, raced>>
    BY DEF Judge, Hist
<1>2. /\ sess[p] \in Sessions /\ i \in 1..lastId /\ i \in Ids
      /\ sess \in [Procs -> Sessions]
    BY <1>1, SessFacts
<1>3. CASE Expired(e)
    <2> DEFINE s == [sess[p] EXCEPT !.pc = "expire"]
    <2>1. sess' = [sess EXCEPT ![p] = s]
        BY <1>2, <1>3 DEF Judge, Goto
    <2>2. s \in Sessions /\ s.pc = "expire" /\ s.id = i /\ s.seen = e
        BY <1>2 DEF Sessions, Stages
    <2>3. now > s.seen.expiresAt
        BY <1>3, <2>2 DEF Expired
    <2> HIDE DEF s
    <2> QED  BY <1>1, <1>2, <2>1, <2>2, <2>3, StayOn
<1>4. CASE ~Expired(e)
    <2> DEFINE v == e.values
               s == [sess[p] EXCEPT !.pc = "handler", !.values = v,
                                    !.seen = None]
    <2>1. sess' = [sess EXCEPT ![p] = s]
        BY <1>2, <1>4 DEF Judge
    <2>2. v \subseteq Procs
        BY <1>2 DEF Sessions, Entries
    <2> HIDE DEF v
    <2>3. s \in Sessions /\ s.pc = "handler" /\ s.id = i
        BY <1>2, <2>2, NoneFacts DEF Sessions, Stages
    <2>4. MayReturn(p, i)
        BY <1>1 DEF IInv, Held
    <2> HIDE DEF s
    <2> QED  BY <1>1, <1>2, <2>1, <2>3, <2>4, StayOn
<1> QED  BY <1>3, <1>4

LEMMA ExpireKeeps ==
    ASSUME IInv, NEW p \in Procs, Expire(p)
    PROVE  IInv'
<1> DEFINE i == sess[p].id
<1>1. /\ sess[p].pc = "expire" /\ Fresh(p)
      /\ entries' = [entries EXCEPT ![i] = None]
      /\ raced' = IF entries[i] # sess[p].seen THEN raced \cup {i} ELSE raced
      /\ UNCHANGED <<now, saved, gone>>
    BY DEF Expire
<1>2. /\ i \in Ids /\ entries \in [Ids -> Entries]
      /\ sess[p] \in Sessions
    BY <1>1, SessFacts
<1>3. i \in raced' \/ Removable(i)
    <2> SUFFICES ASSUME i \notin raced', saved[i].there
                 PROVE  now > saved[i].expiresAt
        BY DEF Removable
    <2>1. i \notin raced /\ entries[i] = sess[p].seen
        BY <1>1
    <2>2. now \in Nat /\ saved[i].expiresAt \in Nat
        BY <1>2 DEF IInv, TypeOK, Entries
    <2>3. CASE now <= saved[i].expiresAt
        <3>1. entries[i] = saved[i]
            BY <1>2, <2>1, <2>3 DEF IInv, SavedSurvives
        <3>2. now > sess[p].seen.expiresAt
            BY <1>1 DEF IInv, Doomed
        <3> QED  BY <2>1, <3>1, <3>2
    <2> QED  BY <2>2, <2>3
<1>4. entries' \in [Ids -> Entries] /\ raced \subseteq raced'
    BY <1>1, <1>2, NoneFacts
<1>5. \A j \in Ids : \/ entries'[j] = entries[j]
                     \/ entries'[j] = None /\ (j \in raced' \/ Removable(j))
    BY <1>1, <1>2, <1>3
<1> QED  BY <1>1, <1>4, <1>5, FreshKeeps

LEMMA HandlerKeeps ==
    ASSUME IInv, NEW p \in Procs, Handler(p)
    PROVE  IInv'
<1>1. /\ sess[p].pc = "handler"
      /\ UNCHANGED <<lastId, now, entries, saved, gone, raced>>
    BY DEF Handler, Hist
<1>2. /\ sess[p] \in Sessions /\ sess[p].id \in 1..lastId
      /\ sess \in [Procs -> Sessions]
    BY <1>1, SessFacts
<1>3. MayReturn(p, sess[p].id)
    BY <1>1 DEF IInv, Held
<1>4. \E s \in Sessions : /\ s.pc \in {"save", "done"} /\ s.id = sess[p].id
                          /\ sess' = [sess EXCEPT ![p] = s]
    <2> DEFINE o == sess[p]
               v == o.values \cup {p}
    <2>1. v \subseteq Procs /\ {} \subseteq Procs
        BY <1>2 DEF Sessions
    <2> HIDE DEF v
    <2>2. CASE sess' = [sess EXCEPT ![p].pc = "save", ![p].values = v,
                                    ![p].modified = TRUE]
        <3> DEFINE s == [o EXCEPT !.pc = "save", !.values = v,
                                  !.modified = TRUE]
        <3>1. s \in Sessions /\ s.pc = "save" /\ s.id = o.id
            BY <1>2, <2>1 DEF Sessions, Stages
        <3>2. sess' = [sess EXCEPT ![p] = s]
            BY <1>2, <2>2
        <3> QED  BY <3>1, <3>2
    <2>3. CASE sess' = [sess EXCEPT ![p].pc = "save", ![p].values = {},
                                    ![p].modified = TRUE]
        <3> DEFINE s == [o EXCEPT !.pc = "save", !.values = {},
                                  !.modified = TRUE]
        <3>1. s \in Sessions /\ s.pc = "save" /\ s.id = o.id
            BY <1>2, <2>1 DEF Sessions, Stages
        <3>2. sess' = [sess EXCEPT ![p] = s]
            BY <1>2, <2>3
        <3> QED  BY <3>1, <3>2
    <2>4. CASE sess' = [sess EXCEPT ![p].pc = "save", ![p].destroy = TRUE,
                                    ![p].modified = TRUE]
        <3> DEFINE s == [o EXCEPT !.pc = "save", !.destroy = TRUE,
                                  !.modified = TRUE]
        <3>1. s \in Sessions /\ s.pc = "save" /\ s.id = o.id
            BY <1>2 DEF Sessions, Stages
        <3>2. sess' = [sess EXCEPT ![p] = s]
            BY <1>2, <2>4
        <3> QED  BY <3>1, <3>2
    <2>5. ASSUME NEW l \in {"save", "done"}, Goto(p, l)
          PROVE  \E s \in Sessions : /\ s.pc \in {"save", "done"}
                                     /\ s.id = sess[p].id
                                     /\ sess' = [sess EXCEPT ![p] = s]
        <3> DEFINE s == [o EXCEPT !.pc = l]
        <3>1. s \in Sessions /\ s.pc = l /\ s.id = o.id
            BY <1>2 DEF Sessions, Stages
        <3>2. sess' = [sess EXCEPT ![p] = s]
            BY <1>2, <2>5 DEF Goto
        <3> QED  BY <3>1, <3>2
    <2> QED  BY <1>2, <2>2, <2>3, <2>4, <2>5 DEF Handler, v
<1>5. PICK s \in Sessions : /\ s.pc \in {"save", "done"} /\ s.id = sess[p].id
                            /\ sess' = [sess EXCEPT ![p] = s]
    BY <1>4
<1> QED  BY <1>1, <1>2, <1>3, <1>5, StayOn
\* The request has come to its end.
Ended(p) == [sess[p] EXCEPT !.pc = "done"]

LEMMA EndedFacts ==
    ASSUME IInv, NEW p \in Procs, Save(p)
    PROVE  /\ Ended(p) \in Sessions /\ Ended(p).pc = "done"
           /\ Ended(p).id = sess[p].id /\ Ended(p).destroy = sess[p].destroy
           /\ sess' = [sess EXCEPT ![p] = Ended(p)]
           /\ sess'[p] = Ended(p)
           /\ \A q \in Procs : q # p => sess'[q] = sess[q]
           /\ sess' \in [Procs -> Sessions]
           /\ sess[p].pc = "save" /\ sess[p].id \in 1..lastId
           /\ sess[p].id \in Ids /\ UNCHANGED <<now, lastId>>
<1>1. sess[p].pc = "save" /\ Goto(p, "done") /\ UNCHANGED <<now, lastId>>
    BY DEF Save
<1>2. /\ sess[p] \in Sessions /\ sess \in [Procs -> Sessions]
      /\ sess[p].id \in 1..lastId /\ sess[p].id \in Ids
    BY <1>1, SessFacts
<1>3. /\ Ended(p) \in Sessions /\ Ended(p).pc = "done"
      /\ Ended(p).id = sess[p].id /\ Ended(p).destroy = sess[p].destroy
    BY <1>2 DEF Ended, Sessions, Stages
<1>4. sess' = [sess EXCEPT ![p] = Ended(p)]
    BY <1>1, <1>2 DEF Goto, Ended
<1>5. /\ sess'[p] = Ended(p) /\ \A q \in Procs : q # p => sess'[q] = sess[q]
      /\ sess' \in [Procs -> Sessions]
    BY <1>2, <1>3, <1>4
<1> QED  BY <1>1, <1>2, <1>3, <1>4, <1>5

LEMMA DestroyKeeps ==
    ASSUME IInv, NEW p \in Procs, Save(p), sess[p].destroy
    PROVE  IInv'
<1> DEFINE i == sess[p].id
           w == gone[i].with \cup (Busy(i) \ {p})
           g == [is |-> TRUE, with |-> w]
<1>1. TypeOK /\ Known /\ Doomed /\ Held /\ SavedSurvives /\ DestroyedStaysGone
    BY DEF IInv
<1>2. /\ i \in Ids /\ i \in 1..lastId /\ sess[p].pc = "save"
      /\ UNCHANGED <<now, lastId>>
      /\ sess' \in [Procs -> Sessions] /\ sess'[p] = Ended(p)
      /\ \A q \in Procs : q # p => sess'[q] = sess[q]
      /\ Ended(p).pc = "done" /\ Ended(p).id = i
    BY EndedFacts
<1>3. /\ entries \in [Ids -> Entries] /\ saved \in [Ids -> Entries]
      /\ gone \in [Ids -> [is : BOOLEAN, with : SUBSET Procs]]
      /\ now \in Nat /\ lastId \in Nat
    BY <1>1 DEF TypeOK
<1>4. /\ entries' = [entries EXCEPT ![i] = None]
      /\ saved' = [saved EXCEPT ![i] = None]
      /\ gone' = [gone EXCEPT ![i] = g] /\ raced' = raced
    BY <1>2, <1>3 DEF Save, save
<1>5. g.is /\ g.with = w /\ g \in [is : BOOLEAN, with : SUBSET Procs]
    <2>1. w \subseteq Procs
        BY <1>2, <1>3 DEF Busy
    <2> HIDE DEF w
    <2> QED  BY <2>1
<1> HIDE DEF g
<1>6. /\ entries' \in [Ids -> Entries] /\ saved' \in [Ids -> Entries]
      /\ gone' \in [Ids -> [is : BOOLEAN, with : SUBSET Procs]]
      /\ entries'[i] = None /\ saved'[i] = None /\ gone'[i] = g
      /\ \A j \in Ids : j # i => /\ entries'[j] = entries[j]
                                 /\ saved'[j] = saved[j]
                                 /\ gone'[j] = gone[j]
    BY <1>2, <1>3, <1>4, <1>5, NoneFacts
<1>7. TypeOK'
    BY <1>2, <1>3, <1>6 DEF TypeOK
<1>8. Known'
    BY <1>1, <1>2, <1>6 DEF Known
<1>10. Doomed'
    BY <1>1, <1>2 DEF Doomed
<1>11. \A j \in Ids : Returned(j) => Returned(j)'
    <2> SUFFICES ASSUME NEW j \in Ids, Returned(j) PROVE Returned(j)'
        OBVIOUS
    <2>1. PICK q \in gone[j].with : sess[q].pc = "done" /\ ~sess[q].destroy
        BY DEF Returned
    <2>2. q \in gone'[j].with
        BY <1>2, <1>5, <1>6, <2>1
    <2>3. q \in Procs /\ q # p
        BY <1>2, <1>3, <2>1
    <2>4. sess'[q] = sess[q]
        BY <1>2, <2>3
    <2> QED  BY <2>1, <2>2, <2>4 DEF Returned
<1>12. Held'
    <2> SUFFICES ASSUME NEW q \in Procs, sess'[q].pc \in {"judge", "handler", "save"},
                        gone'[sess'[q].id].is
                 PROVE  q \in gone'[sess'[q].id].with \/ Returned(sess[q].id)'
        BY DEF Held, MayReturn
    <2>1. q # p /\ sess'[q] = sess[q]
        BY <1>2
    <2>2. sess[q].id \in Ids
        BY <2>1, SessFacts
    <2>3. CASE sess[q].id = i
        <3>1. q \in Busy(i)
            BY <2>1, <2>3 DEF Busy
        <3> QED  BY <1>5, <1>6, <2>1, <2>3, <3>1
    <2>4. CASE sess[q].id # i
        <3>1. gone'[sess[q].id] = gone[sess[q].id]
            BY <1>6, <2>2, <2>4
        <3>2. q \in gone[sess[q].id].with \/ Returned(sess[q].id)
            BY <1>1, <2>1, <3>1 DEF Held, MayReturn
        <3>3. Returned(sess[q].id) => Returned(sess[q].id)'
            BY <1>11, <2>1, <2>2 DEF Returned
        <3> QED  BY <2>1, <3>1, <3>2, <3>3
    <2> QED  BY <2>3, <2>4
<1>13. SavedSurvives'
    BY <1>1, <1>2, <1>4, <1>6, NoneFacts DEF SavedSurvives
<1>14. DestroyedStaysGone'
    <2> SUFFICES ASSUME NEW j \in Ids, gone'[j].is, entries'[j].there
                 PROVE  Returned(j)'
        BY DEF DestroyedStaysGone, Returned
    <2>1. j # i
        BY <1>6, NoneFacts
    <2>2. Returned(j)
        BY <1>1, <1>6, <2>1 DEF DestroyedStaysGone, Returned
    <2> QED  BY <1>11, <2>2
<1> QED  BY <1>7, <1>8, <1>10, <1>12, <1>13, <1>14 DEF IInv

LEMMA StoreKeeps ==
    ASSUME Configured, IInv, NEW p \in Procs, Save(p), ~sess[p].destroy,
           sess[p].modified \/ sess[p].isNew
    PROVE  IInv'
<1> DEFINE i == sess[p].id
           e == Entry(sess[p].values)
<1>1. TypeOK /\ Known /\ Doomed /\ Held /\ SavedSurvives /\ DestroyedStaysGone
    BY DEF IInv
<1>2. /\ i \in Ids /\ i \in 1..lastId /\ sess[p].pc = "save"
      /\ UNCHANGED <<now, lastId>>
      /\ sess' \in [Procs -> Sessions] /\ sess'[p] = Ended(p)
      /\ \A q \in Procs : q # p => sess'[q] = sess[q]
      /\ Ended(p).pc = "done" /\ Ended(p).id = i
      /\ Ended(p).destroy = sess[p].destroy
    BY EndedFacts
<1>3. /\ entries \in [Ids -> Entries] /\ saved \in [Ids -> Entries]
      /\ gone \in [Ids -> [is : BOOLEAN, with : SUBSET Procs]]
      /\ now \in Nat /\ lastId \in Nat
    BY <1>1 DEF TypeOK
<1>4. /\ entries' = [entries EXCEPT ![i] = e]
      /\ saved' = [saved EXCEPT ![i] = e] /\ gone' = gone
      /\ raced' = raced \ {i}
    BY DEF Save, save
<1>5. e \in Entries
    <2>1. sess[p].values \subseteq Procs
        BY SessFacts DEF Sessions
    <2>2. now + IdleTimeout \in Nat
        BY <1>3 DEF Configured
    <2> QED  BY <2>1, <2>2 DEF Entry, Entries
<1> HIDE DEF e
<1>6. /\ entries' \in [Ids -> Entries] /\ saved' \in [Ids -> Entries]
      /\ entries'[i] = e /\ saved'[i] = e
      /\ \A j \in Ids : j # i => /\ entries'[j] = entries[j]
                                 /\ saved'[j] = saved[j]
    BY <1>2, <1>3, <1>4, <1>5
<1>7. TypeOK'
    BY <1>2, <1>3, <1>4, <1>6 DEF TypeOK
<1>8. Known'
    BY <1>1, <1>2, <1>4 DEF Known
<1>9. \A j : j # i /\ j \in raced => j \in raced'
    BY <1>4
<1>10. Doomed'
    BY <1>1, <1>2 DEF Doomed
<1>11. \A j \in Ids : Returned(j) => Returned(j)'
    <2> SUFFICES ASSUME NEW j \in Ids, Returned(j) PROVE Returned(j)'
        OBVIOUS
    <2>1. PICK q \in gone[j].with : sess[q].pc = "done" /\ ~sess[q].destroy
        BY DEF Returned
    <2>2. q \in Procs /\ q # p
        BY <1>2, <1>3, <2>1
    <2>3. sess'[q] = sess[q]
        BY <1>2, <2>2
    <2> QED  BY <1>4, <2>1, <2>3 DEF Returned
<1>12. Held'
    <2> SUFFICES ASSUME NEW q \in Procs, sess'[q].pc \in {"judge", "handler", "save"},
                        gone[sess'[q].id].is
                 PROVE  q \in gone[sess'[q].id].with \/ Returned(sess[q].id)'
        BY <1>4 DEF Held, MayReturn
    <2>1. q # p /\ sess'[q] = sess[q]
        BY <1>2
    <2>2. sess[q].id \in Ids
        BY <2>1, SessFacts
    <2>3. q \in gone[sess[q].id].with \/ Returned(sess[q].id)
        BY <1>1, <2>1 DEF Held, MayReturn
    <2>4. Returned(sess[q].id) => Returned(sess[q].id)'
        BY <1>11, <2>1, <2>2 DEF Returned
    <2> QED  BY <2>1, <2>3, <2>4
<1>13. SavedSurvives'
    <2> SUFFICES ASSUME NEW j \in Ids, saved'[j].there,
                        now' <= saved'[j].expiresAt, j \notin raced'
                 PROVE  entries'[j] = saved'[j]
        BY DEF SavedSurvives
    <2>1. CASE j = i
        BY <1>6, <2>1
    <2>2. CASE j # i
        BY <1>1, <1>2, <1>6, <1>9, <2>2 DEF SavedSurvives
    <2> QED  BY <2>1, <2>2
<1>14. DestroyedStaysGone'
    <2> SUFFICES ASSUME NEW j \in Ids, gone[j].is, entries'[j].there
                 PROVE  Returned(j)'
        BY <1>4 DEF DestroyedStaysGone, Returned
    <2>1. CASE j = i
        <3>1. p \in gone[i].with \/ Returned(i)
            BY <1>1, <1>2, <2>1 DEF Held, MayReturn
        <3>2. p \in gone[i].with => Returned(j)'
            BY <1>2, <1>4, <2>1 DEF Returned
        <3> QED  BY <1>11, <2>1, <3>1, <3>2
    <2>2. CASE j # i
        <3>1. Returned(j)
            BY <1>1, <1>6, <2>2 DEF DestroyedStaysGone, Returned
        <3> QED  BY <1>11, <3>1
    <2> QED  BY <2>1, <2>2
<1> QED  BY <1>7, <1>8, <1>10, <1>12, <1>13, <1>14 DEF IInv

LEMMA SaveKeeps ==
    ASSUME Configured, IInv, NEW p \in Procs, Save(p)
    PROVE  IInv'
<1>1. CASE sess[p].destroy
    BY <1>1, DestroyKeeps
<1>2. CASE ~sess[p].destroy /\ (sess[p].modified \/ sess[p].isNew)
    BY <1>2, StoreKeeps
<1>3. CASE ~sess[p].destroy /\ ~(sess[p].modified \/ sess[p].isNew)
    <2>1. UNCHANGED <<entries, saved, gone, raced>>
        BY <1>3 DEF Save, save, Hist
    <2> QED  BY <2>1, EndedFacts, StayOn
<1> QED  BY <1>1, <1>2, <1>3

\* The cleanup loop and the clock.
LEMMA TimeKeeps ==
    ASSUME IInv, removeExpired \/ Tick
    PROVE  IInv'
<1>1. TypeOK /\ Known /\ Doomed /\ Held /\ SavedSurvives /\ DestroyedStaysGone
    BY DEF IInv
<1>2. /\ entries \in [Ids -> Entries] /\ saved \in [Ids -> Entries]
      /\ now \in Nat
    BY <1>1 DEF TypeOK
<1>3. UNCHANGED <<sess, lastId, saved, gone, raced>>
    BY DEF removeExpired, Tick, Hist
<1>4. now' \in Nat /\ now <= now'
    BY <1>2 DEF removeExpired, Tick
<1>5. /\ entries' \in [Ids -> Entries]
      /\ \A i \in Ids : \/ entries'[i] = entries[i]
                        \/ /\ entries'[i] = None /\ Expired(entries[i])
                           /\ now' = now
    <2>1. CASE removeExpired
        BY <1>2, <2>1, NoneFacts DEF removeExpired
    <2>2. CASE Tick
        BY <1>2, <2>2 DEF Tick
    <2> QED  BY <2>1, <2>2
<1>6. TypeOK' /\ Known'
    BY <1>1, <1>3, <1>4, <1>5 DEF TypeOK, Known
<1>8. Doomed'
    <2> SUFFICES ASSUME NEW p \in Procs, sess[p].pc = "expire"
                 PROVE  now' > sess[p].seen.expiresAt
        BY <1>3 DEF Doomed
    <2>1. now > sess[p].seen.expiresAt
        BY <1>1 DEF Doomed
    <2>2. sess[p].seen.expiresAt \in Nat
        BY SessFacts DEF Sessions, Entries
    <2> QED  BY <1>2, <1>4, <2>1, <2>2
<1>9. \A i : Returned(i)' = Returned(i)
    BY <1>3 DEF Returned
<1>10. Held'
    BY <1>1, <1>3 DEF Held, MayReturn, Returned
<1>11. SavedSurvives'
    <2> SUFFICES ASSUME NEW i \in Ids, saved[i].there,
                        now' <= saved[i].expiresAt, i \notin raced
                 PROVE  entries'[i] = saved[i]
        BY <1>3 DEF SavedSurvives
    <2>1. saved[i].expiresAt \in Nat
        BY <1>2 DEF Entries
    <2>2. now <= saved[i].expiresAt
        BY <1>2, <1>4, <2>1
    <2>3. entries[i] = saved[i]
        BY <1>1, <2>2 DEF SavedSurvives
    <2>4. ~Expired(entries[i])
        BY <1>2, <2>1, <2>2, <2>3 DEF Expired
    <2> QED  BY <1>5, <2>3, <2>4
<1>12. DestroyedStaysGone'
    <2> SUFFICES ASSUME NEW i \in Ids, gone[i].is, entries'[i].there
                 PROVE  Returned(i)'
        BY <1>3 DEF DestroyedStaysGone, Returned
    <2>1. entries[i].there
        BY <1>5, NoneFacts
    <2> QED  BY <1>1, <1>9, <2>1 DEF DestroyedStaysGone, Returned
<1> QED  BY <1>6, <1>8, <1>10, <1>11, <1>12 DEF IInv

LEMMA InitHolds == SessInit => IInv
<1> SUFFICES ASSUME SessInit PROVE IInv
    OBVIOUS
<1>1. NoSession \in Sessions /\ NoSession.pc = "idle"
    BY NoneFacts DEF NoSession, Sessions, Stages
<1>2. TypeOK
    BY <1>1, NoneFacts DEF SessInit, TypeOK
<1>3. /\ \A p \in Procs : sess[p].pc = "idle"
      /\ \A i \in Ids : ~gone[i].is /\ ~saved[i].there
      /\ lastId = 0
    BY <1>1, NoneFacts DEF SessInit
<1>4. Known /\ Doomed /\ Held /\ SavedSurvives /\ DestroyedStaysGone
    BY <1>3 DEF Known, Doomed, Held, SavedSurvives, DestroyedStaysGone
<1> QED  BY <1>2, <1>4 DEF IInv

LEMMA StepKeeps ==
    ASSUME Configured
    PROVE  IInv /\ [SessNext]_sessvars => IInv'
<1> SUFFICES ASSUME IInv, [SessNext]_sessvars PROVE IInv'
    OBVIOUS
<1>1. CASE UNCHANGED sessvars
    BY <1>1 DEF sessvars, IInv, TypeOK, Known, Doomed, Removable, Held,
                MayReturn, Returned, SavedSurvives, DestroyedStaysGone
<1>2. ASSUME NEW p \in Procs,
             Begin(p) \/ Get(p) \/ Judge(p) \/ Expire(p) \/ Handler(p) \/ Save(p)
      PROVE  IInv'
    BY <1>2, BeginKeeps, GetKeeps, JudgeKeeps, ExpireKeeps, HandlerKeeps, SaveKeeps
<1>3. CASE removeExpired \/ Tick
    BY <1>3, TimeKeeps
<1> QED  BY <1>1, <1>2, <1>3 DEF SessNext

(* For any number of requests, ids and instants: what a request saved is     *)
(* what the next one reads until its idle time is over or a later Save or    *)
(* Destroy, unless MemoryStore.Get had read an older entry before the Save,  *)
(* found that one expired and removed the new one.                           *)
THEOREM SavesSurvive ==
    ASSUME Configured
    PROVE  SessSpec => []SavedSurvives
<1>1. IInv => SavedSurvives
    BY DEF IInv
<1> QED  BY <1>1, InitHolds, StepKeeps, PTL DEF SessSpec

(* For any number of requests, ids and instants: a destroyed session is in   *)
(* the store again only after a request that held it when it was destroyed   *)
(* has come to its end without destroying it.                                *)
THEOREM DestroyedOnesStayGone ==
    ASSUME Configured
    PROVE  SessSpec => []DestroyedStaysGone
<1>1. IInv => DestroyedStaysGone
    BY DEF IInv
<1> QED  BY <1>1, InitHolds, StepKeeps, PTL DEF SessSpec
=============================================================================
