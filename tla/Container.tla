------------------------------ MODULE Container ------------------------------
(***************************************************************************)
(* The dependency injection container and its lifecycle.  Goroutines       *)
(* resolve services with Use (or all the lazy ones with Warmup); factories *)
(* call Use themselves, so a resolution is a stack of calls; a lazy        *)
(* singleton is built under the mutex of its entry, its result published   *)
(* by an atomic flag and then, in a second critical section, appended to   *)
(* initOrder.  Start and Shutdown walk over a copy of initOrder.           *)
(*                                                                         *)
(* A factory is a function of the application: it resolves its             *)
(* dependencies one after the other in its own goroutine, may go on or     *)
(* give up when one fails, and may fail (or panic, which unwinds through   *)
(* the same deferred calls) by itself.                                     *)
(***************************************************************************)
EXTENDS Naturals, Sequences, FiniteSets, SequencesExt

CONSTANTS
  Types,       \* the services: a reflect.Type, or the name of a named one
  Goroutines,  \* goroutines that may resolve services
  Graphs       \* the containers to explore:
               \*   kind    of each type: "singleton", "transient", "lazy"
               \*   deps    the types its factory resolves, in order
               \*   users   the goroutines that resolve services
               \*   warmup  may Warmup be called?
               \*   sds     the services that implement Shutdowner
               \*   given   the singletons registered at first, in order
               \*   lazily  the transient and lazy services registered then
               \* and the bounds within which each is explored:
               \*   maxCalls   of Use and of Warmup, by one goroutine
               \*   maxFails   of factories that fail by themselves
               \*   maxStarts  of Start

ASSUME ConstantsAssumption ==
  /\ IsFiniteSet(Types) /\ IsFiniteSet(Goroutines)
  /\ \A h \in Graphs :
       /\ h.kind \in [Types -> {"singleton", "transient", "lazy"}]
       /\ h.deps \in [Types -> Seq(Types)]
       /\ h.users \subseteq Goroutines /\ h.warmup \in BOOLEAN
       /\ h.sds \subseteq Types
       /\ h.given \in Seq({t \in Types : h.kind[t] = "singleton"})
       /\ IsInjective(h.given)                 \* Give refuses a second one
       /\ h.lazily \subseteq {t \in Types : h.kind[t] # "singleton"}
       /\ {h.maxCalls, h.maxFails, h.maxStarts} \subseteq Nat

VARIABLES
  graph,       \* the graph, fixed from the start
  registered,  \* keys of singletons, transients, lazies and named
  mu,          \* holders of lazyEntry.mu: at most one goroutine each
  instance,    \* lazyEntry.instance: 0 (nil), or which build it is
  done,        \* lazies with lazyEntry.done
  initOrder,   \* initOrder, each service by its key
  resolving,   \* the stack of each goroutine, for cycle detection
  calls,       \* the calls each goroutine is in: the innermost one last
  todo,        \* the entries that a goroutine in Warmup has still to resolve
  life,        \* how far App.startContainer and App.shutdown have come
  order, at,   \* the copy of initOrder they walk over, and the position
  up,          \* the Shutdowners that Start has passed and no one shut down
  builds,      \* history: how often the factory of each type succeeded
  seen,        \* history: the instances of each lazy that were handed out
  cycles,      \* history: types for which a circular dependency was reported
  used, fails, starts                       \* counted against the bounds

lazyVars == <<mu, instance, done, builds>>
lifeVars == <<life, order, at, up, starts>>
appVars == <<graph, registered, lifeVars>>
hist == <<seen, cycles>>
counts == <<used, fails>>
resolveVars == <<graph, registered, lazyVars, initOrder, resolving, calls,
                 todo, hist, counts>>
vars == <<resolveVars, lifeVars>>

Init ==
  /\ graph \in Graphs
  /\ registered = ToSet(graph.given) \cup graph.lazily
  /\ initOrder = graph.given
  /\ mu = [t \in Types |-> {}] /\ instance = [t \in Types |-> 0]
  /\ done = {} /\ builds = [t \in Types |-> 0]
  /\ resolving = [g \in Goroutines |-> <<>>]
  /\ calls = [g \in Goroutines |-> <<>>]
  /\ todo = [g \in Goroutines |-> {}]
  /\ life = "setup" /\ order = <<>> /\ at = 0 /\ up = {} /\ starts = 0
  /\ seen = [t \in Types |-> {}] /\ cycles = {}
  /\ used = [g \in Goroutines |-> 0] /\ fails = 0

Kind(t) == graph.kind[t]
Deps(t) == graph.deps[t]
Lazies  == {t \in registered : Kind(t) = "lazy"}

\* A call: the type, how far it is, how many dependencies its factory has
\* resolved, and whether it is Warmup's own call of resolve.
Call(t, pc, warm) == [type |-> t, pc |-> pc, dep |-> 0, warm |-> warm]

Idle(g) == calls[g] = <<>> /\ todo[g] = {}
InCall(g, pc) == calls[g] # <<>> /\ Last(calls[g]).pc = pc
Top(g) == Last(calls[g]).type

\* The innermost call of g goes on at pc.
Goto(g, pc) == calls' = [calls EXCEPT ![g][Len(calls[g])].pc = pc]

\* It returns, and the factory that made it, if any, goes on to the next
\* dependency; or, when the result is an error, it may give up.
Return(g, ok) ==
  LET rest == Front(calls[g]) IN
  IF rest = <<>> THEN calls' = [calls EXCEPT ![g] = <<>>]
  ELSE \/ calls' = [calls EXCEPT ![g] = [rest EXCEPT ![Len(rest)].dep = @ + 1]]
       \/ /\ ~ok
          /\ calls' = [calls EXCEPT ![g] =
                         [rest EXCEPT ![Len(rest)].pc = "failed"]]

-----------------------------------------------------------------------------
(* Registration: Give, GiveAs, GiveNamed, GiveTransient, GiveLazy. *)

Give(t) ==
  /\ life = "setup" /\ t \notin registered
  /\ registered' = registered \cup {t}
  /\ initOrder' = IF Kind(t) = "singleton" THEN Append(initOrder, t)
                  ELSE initOrder
  /\ UNCHANGED <<lazyVars, lifeVars, hist, counts, graph, resolving, calls,
                 todo>>

-----------------------------------------------------------------------------
(* Resolution: Use, and resolve of a lazy entry. *)

Use(g, t) ==
  /\ g \in graph.users /\ Idle(g) /\ used[g] < graph.maxCalls
  /\ used' = [used EXCEPT ![g] = @ + 1]
  /\ calls' = [calls EXCEPT ![g] = <<Call(t, "lookup", FALSE)>>]
  /\ UNCHANGED <<appVars, lazyVars, hist, initOrder, resolving, todo, fails>>

\* The type is in no map, or is there and complete.
LookupEnds(g) ==
  LET t == Top(g) IN
  /\ InCall(g, "lookup")
  /\ t \in registered => Kind(t) = "singleton" \/ t \in done
  /\ seen' = IF t \in done THEN [seen EXCEPT ![t] = @ \cup {instance[t]}]
             ELSE seen
  /\ Return(g, t \in registered)
  /\ UNCHANGED <<appVars, lazyVars, counts, initOrder, resolving, todo,
                 cycles>>

\* pushResolving finds the type on the stack of the goroutine.
OnStack(g, t) == t \in ToSet(resolving[g])

\* Otherwise Use goes on to the factory, or to the mutex of the lazy entry.
PushResolving(g) ==
  LET t == Top(g) IN
  /\ InCall(g, "lookup")
  /\ t \in registered /\ Kind(t) # "singleton" /\ t \notin done
  /\ IF OnStack(g, t)
     THEN /\ cycles' = cycles \cup {t}
          /\ Return(g, FALSE)
          /\ UNCHANGED resolving
     ELSE /\ resolving' = [resolving EXCEPT ![g] = Append(@, t)]
          /\ Goto(g, IF Kind(t) = "lazy" THEN "lock" ELSE "factory")
          /\ UNCHANGED cycles
  /\ UNCHANGED <<appVars, lazyVars, counts, initOrder, todo, seen>>

MutResolved(t) == FALSE            \* done is not checked again under the mutex

\* Another goroutine has resolved the entry while this one waited.
Resolved(t) == t \in done

Lock(g) ==
  LET t == Top(g) IN
  /\ InCall(g, "lock") /\ mu[t] = {}
  /\ mu' = [mu EXCEPT ![t] = {g}]
  /\ Goto(g, IF Resolved(t) THEN "unlock" ELSE "factory")
  /\ UNCHANGED <<appVars, hist, counts, instance, done, builds, initOrder,
                 resolving, todo>>

\* The factory resolves its next dependency.
NextDep(g) ==
  LET c == Last(calls[g]) IN
  /\ InCall(g, "factory") /\ c.dep < Len(Deps(c.type))
  /\ calls' = [calls EXCEPT ![g] =
                 Append(@, Call(Deps(c.type)[c.dep + 1], "lookup", FALSE))]
  /\ UNCHANGED <<appVars, lazyVars, hist, counts, initOrder, resolving, todo>>

\* It has them all and returns an instance.
FactoryReturns(g) ==
  LET c == Last(calls[g]) IN
  /\ InCall(g, "factory") /\ c.dep = Len(Deps(c.type))
  /\ builds' = [builds EXCEPT ![c.type] = @ + 1]
  /\ Goto(g, IF Kind(c.type) = "lazy" THEN "store" ELSE "return")
  /\ UNCHANGED <<appVars, hist, counts, mu, instance, done, initOrder,
                 resolving, todo>>

\* It fails for a reason of its own.
FactoryFails(g) ==
  /\ InCall(g, "factory") /\ fails < graph.maxFails
  /\ fails' = fails + 1
  /\ Goto(g, "failed")
  /\ UNCHANGED <<appVars, lazyVars, hist, initOrder, resolving, todo, used>>

\* The instance is stored before done is set.
Store(g) ==
  /\ InCall(g, "store")
  /\ instance' = [instance EXCEPT ![Top(g)] = builds[Top(g)]]
  /\ Goto(g, "publish")
  /\ UNCHANGED <<appVars, hist, counts, mu, done, builds, initOrder, resolving,
                 todo>>

Publish(g) ==
  /\ InCall(g, "publish")
  /\ done' = done \cup {Top(g)}
  /\ Goto(g, "unlockFirst")
  /\ UNCHANGED <<appVars, hist, counts, mu, instance, builds, initOrder,
                 resolving, todo>>

MutUnlock(g) ==              \* the mutex stays locked when the factory fails
  /\ \/ InCall(g, "unlockFirst") /\ Goto(g, "append")
     \/ InCall(g, "unlock") /\ Goto(g, "return")
     \/ InCall(g, "failed") /\ Kind(Top(g)) = "lazy" /\ Goto(g, "error")
  /\ mu' = IF InCall(g, "failed") THEN mu ELSE [mu EXCEPT ![Top(g)] = {}]
  /\ UNCHANGED <<appVars, hist, counts, instance, done, builds, initOrder,
                 resolving, todo>>

\* resolve returns: it was the first resolution, or not, or the factory failed.
Unlock(g) ==
  /\ \/ InCall(g, "unlockFirst") /\ Goto(g, "append")
     \/ InCall(g, "unlock") /\ Goto(g, "return")
     \/ InCall(g, "failed") /\ Kind(Top(g)) = "lazy" /\ Goto(g, "error")
  /\ mu' = [mu EXCEPT ![Top(g)] = {}]
  /\ UNCHANGED <<appVars, hist, counts, instance, done, builds, initOrder,
                 resolving, todo>>

AppendInitOrder(g) ==
  /\ InCall(g, "append")
  /\ initOrder' = Append(initOrder, Top(g))
  /\ Goto(g, "return")
  /\ UNCHANGED <<appVars, lazyVars, hist, counts, resolving, todo>>

MutPopResolving(g) ==               \* not deferred: forgotten after an error
  IF Last(calls[g]).warm \/ ~InCall(g, "return") THEN UNCHANGED resolving
  ELSE resolving' = [resolving EXCEPT ![g] = Front(@)]

\* popResolving, deferred by Use and not called by Warmup.
PopResolving(g) ==
  IF Last(calls[g]).warm \/ resolving[g] = <<>> THEN UNCHANGED resolving
  ELSE resolving' = [resolving EXCEPT ![g] = Front(@)]

UseReturns(g) ==
  LET t == Top(g) IN
  /\ InCall(g, "return")
  /\ PopResolving(g)
  /\ seen' = IF Kind(t) = "lazy" THEN [seen EXCEPT ![t] = @ \cup {instance[t]}]
             ELSE seen
  /\ Return(g, TRUE)
  /\ UNCHANGED <<appVars, lazyVars, counts, initOrder, todo, cycles>>

UseFails(g) ==
  /\ \/ InCall(g, "error")
     \/ InCall(g, "failed") /\ Kind(Top(g)) = "transient"
  /\ PopResolving(g)
  /\ Return(g, FALSE)
  /\ UNCHANGED <<appVars, lazyVars, hist, counts, initOrder, todo>>

-----------------------------------------------------------------------------
(* Warmup resolves the entries that were not done when it began. *)

Warmup(g) ==
  /\ graph.warmup /\ g \in graph.users /\ Idle(g) /\ used[g] < graph.maxCalls
  /\ Lazies \ done # {}
  /\ used' = [used EXCEPT ![g] = @ + 1]
  /\ todo' = [todo EXCEPT ![g] = Lazies \ done]
  /\ UNCHANGED <<appVars, lazyVars, hist, initOrder, resolving, calls, fails>>

\* In the order of a map: any.
WarmupNext(g, t) ==
  /\ calls[g] = <<>> /\ t \in todo[g]
  /\ todo' = [todo EXCEPT ![g] = @ \ {t}]
  /\ calls' = [calls EXCEPT ![g] = <<Call(t, "lock", TRUE)>>]
  /\ UNCHANGED <<appVars, lazyVars, hist, counts, initOrder, resolving>>

WarmupCancelled(g) ==
  /\ calls[g] = <<>> /\ todo[g] # {}
  /\ todo' = [todo EXCEPT ![g] = {}]
  /\ UNCHANGED <<appVars, lazyVars, hist, counts, initOrder, resolving, calls>>

-----------------------------------------------------------------------------
(* The lifecycle: startContainer, Start, Shutdown. *)

\* Start takes its copy.  After a failure Listen or Serve may be called again;
\* containerStarted keeps a second Start away once one has succeeded.
StartContainer ==
  /\ life \in {"setup", "failed"} /\ starts < graph.maxStarts
  /\ starts' = starts + 1
  /\ order' = initOrder /\ at' = 1 /\ life' = "starting"
  /\ UNCHANGED <<resolveVars, up>>

OnInit ==
  /\ life = "starting" /\ at <= Len(order)
  /\ up' = up \cup ({order[at]} \cap graph.sds)
  /\ at' = at + 1
  /\ UNCHANGED <<resolveVars, life, order, starts>>

\* An OnInit fails, or the context is cancelled before it is called.
OnInitFails ==
  /\ life = "starting" /\ at <= Len(order)
  /\ life' = "rollback" /\ at' = at - 1
  /\ UNCHANGED <<resolveVars, order, up, starts>>

Started ==
  /\ life = "starting" /\ at > Len(order)
  /\ life' = "started"
  /\ UNCHANGED <<resolveVars, order, at, up, starts>>

\* App.shutdown, once the transport has stopped or its time is over: another
\* copy.  Errors of OnShutdown are collected and stop nothing.
Shutdown ==
  /\ life = "started"
  /\ order' = initOrder /\ at' = Len(initOrder) /\ life' = "stopping"
  /\ UNCHANGED <<resolveVars, up, starts>>

MutOnShutdown ==                                 \* the loop goes forwards
  /\ life \in {"rollback", "stopping"} /\ at >= 1
  /\ up' = up \ {order[Len(order) + 1 - at]}
  /\ at' = at - 1
  /\ UNCHANGED <<resolveVars, life, order, starts>>

\* The rollback of Start and the loop of Shutdown go backwards.
OnShutdown ==
  /\ life \in {"rollback", "stopping"} /\ at >= 1
  /\ up' = up \ {order[at]}
  /\ at' = at - 1
  /\ UNCHANGED <<resolveVars, life, order, starts>>

AllShutDown ==
  /\ life \in {"rollback", "stopping"} /\ at = 0
  /\ life' = IF life = "rollback" THEN "failed" ELSE "down"
  /\ UNCHANGED <<resolveVars, order, at, up, starts>>

-----------------------------------------------------------------------------
Resolve(g) ==
  \/ LookupEnds(g) \/ PushResolving(g) \/ Lock(g) \/ NextDep(g)
  \/ FactoryReturns(g) \/ FactoryFails(g) \/ Store(g) \/ Publish(g) \/ Unlock(g)
  \/ AppendInitOrder(g) \/ UseReturns(g) \/ UseFails(g)

Lifecycle ==
  \/ OnInit \/ OnInitFails \/ Started \/ OnShutdown \/ AllShutDown

\* No goroutine is in a call: the one state in which nothing need happen.
Quiet == (\A g \in Goroutines : Idle(g)) /\ UNCHANGED vars

Next ==
  \/ \E t \in Types : Give(t)
  \/ \E g \in Goroutines :
       \/ Resolve(g) \/ Warmup(g) \/ WarmupCancelled(g)
       \/ \E t \in Types : Use(g, t) \/ WarmupNext(g, t)
  \/ StartContainer \/ Lifecycle \/ Shutdown
  \/ Quiet

Spec == Init /\ [][Next]_vars

\* A goroutine that can run does; factories return.
FairSpec == Spec /\ \A g \in Goroutines : WF_vars(Resolve(g))

-----------------------------------------------------------------------------
(* Properties. *)

Steps == {"lookup", "lock", "factory", "store", "publish", "unlockFirst",
          "unlock", "append", "return", "failed", "error"}

Frame == [type : Types, pc : Steps, dep : Nat, warm : BOOLEAN]

\* Every variable has its type: only lazies are ever done, only Shutdowners
\* are up, and no walk over initOrder leaves it.
TypeOK ==
  /\ graph \in Graphs /\ registered \subseteq Types
  /\ mu \in [Types -> SUBSET Goroutines]
  /\ instance \in [Types -> Nat] /\ builds \in [Types -> Nat]
  /\ done \subseteq Lazies
  /\ initOrder \in Seq(Types) /\ order \in Seq(Types)
  /\ resolving \in [Goroutines -> Seq(Types)]
  /\ calls \in [Goroutines -> Seq(Frame)]
  /\ todo \in [Goroutines -> SUBSET Types]
  /\ life \in {"setup", "starting", "rollback", "failed", "started",
               "stopping", "down"}
  /\ at \in Nat /\ up \subseteq graph.sds
  /\ seen \in [Types -> SUBSET Nat] /\ cycles \subseteq Types
  /\ used \in [Goroutines -> 0..graph.maxCalls]
  /\ fails \in 0..graph.maxFails /\ starts \in 0..graph.maxStarts

\* "factory runs once on first use": however many goroutines resolve a lazy
\* singleton at once, through Use, other factories or Warmup, and however many
\* attempts failed before, its factory succeeds once and all of them get that
\* instance, never the nil one that is there before done is set.
OneInstance ==
  \A t \in Types : Kind(t) = "lazy" =>
    builds[t] <= 1 /\ seen[t] \subseteq {1}

\* t leads into a circle of dependencies: it is in a set of types each of
\* which depends on one of the set.
Circular(t) ==
  \E S \in SUBSET Types :
    t \in S /\ \A u \in S : S \cap ToSet(Deps(u)) # {}

\* A circular dependency is reported only where there is one: failures,
\* retries, Warmup and other goroutines leave nothing on a goroutine's stack.
VerdictSound == \A t \in cycles : Circular(t)

\* initOrder, which is what Start and Shutdown know of: each singleton and
\* each resolved lazy once, but for those whose resolver is on its way there.
InitOrderExact ==
  LET onTheWay == {Top(g) : g \in {h \in Goroutines : InCall(h, "unlockFirst")
                                                     \/ InCall(h, "append")}}
  IN  /\ IsInjective(initOrder)
      /\ ToSet(initOrder) =
           {t \in registered : Kind(t) = "singleton"} \cup (done \ onTheWay)

\* Services stop in the reverse of the order they started in, and a failed
\* Start, which may be called again, leaves none of them started.
LastInFirstOut ==
  /\ \A m, n \in DOMAIN order :
       m < n /\ order[n] \in up /\ order[m] \in graph.sds => order[m] \in up
  /\ life \in {"setup", "failed", "down"} => up = {}

\* Start and Shutdown act on exactly the services that were built, and stop
\* them in the reverse order.
LifecycleExact == InitOrderExact /\ LastInFirstOut

\* "a circular factory graph fails fast with a chained error rather than
\* deadlocking": every resolution comes to an end.
FailsFast ==
  \A g \in Goroutines : calls[g] # <<>> ~> calls[g] = <<>>

\* g waits for ever: it is one of some goroutines that all wait for entries
\* they hold themselves, and one of these entries is of a circle.
Knotted(g) ==
  \E S \in SUBSET Goroutines :
    /\ g \in S
    /\ \A h \in S : InCall(h, "lock") /\ mu[Top(h)] # {} /\ mu[Top(h)] \subseteq S
    /\ \E h \in S : Circular(Top(h))

\* Every resolution comes to an end, failures, retries, Warmup and circles
\* that one goroutine meets through Use included, except in a knot: a circle
\* that two goroutines enter at different lazies, or that Warmup enters, which
\* does not push its entry on the stack of the goroutine.
ResolutionEnds ==
  \A g \in Goroutines : calls[g] # <<>> ~> (calls[g] = <<>> \/ Knotted(g))
=============================================================================
