-------------------------- MODULE ContainerProofs --------------------------
(***************************************************************************)
(* Proofs about Container for any services and goroutines and any graph of *)
(* dependencies between them, circular or not.                             *)
(***************************************************************************)
EXTENDS Container, SequenceTheorems, TLAPS

-----------------------------------------------------------------------------
(* The invariant.  A goroutine's calls are a stack: all but the innermost   *)
(* are factories waiting for a dependency.                                  *)

Size(g) == Len(calls[g])
Calls(g) == 1..Size(g)

\* A call in possession of the mutex of its entry, and a call that builds the
\* instance, up to the moment the service is in initOrder.
Locked(c) ==
  /\ Kind(c.type) = "lazy"
  /\ c.pc \in {"factory", "failed", "store", "publish", "unlockFirst", "unlock"}

Building(c) ==
  /\ Kind(c.type) = "lazy"
  /\ c.pc \in {"factory", "failed", "store", "publish", "unlockFirst", "append"}

StackOf(g) ==
  /\ \A n \in Calls(g) : n < Size(g) =>
       /\ calls[g][n].pc = "factory"
       /\ calls[g][n + 1].type \in ToSet(Deps(calls[g][n].type))
  /\ \A n \in Calls(g) :
       calls[g][n].warm => n = 1 /\ calls[g][n].pc # "lookup"

StackShape == \A g \in Goroutines : StackOf(g)

\* Warmup has only lazies to resolve.
WarmupKnows == \A g \in Goroutines : todo[g] \subseteq Lazies

\* What a call of g knows of the service it resolves.
Knows(g, c) ==
  /\ c.pc # "lookup" => c.type \in registered /\ Kind(c.type) # "singleton"
  /\ c.pc \in {"lock", "store", "publish", "unlockFirst", "unlock", "append",
               "error"} => Kind(c.type) = "lazy"
  /\ Locked(c) => mu[c.type] = {g}
  /\ Kind(c.type) = "lazy" =>
       /\ c.pc \in {"factory", "failed"} =>
            c.type \notin done /\ builds[c.type] = 0
       /\ c.pc \in {"store", "publish"} =>
            c.type \notin done /\ builds[c.type] = 1
       /\ c.pc = "publish" => instance[c.type] = 1
       /\ c.pc \in {"unlockFirst", "unlock", "append", "return"} =>
            c.type \in done

CallsKnow == \A g \in Goroutines : \A n \in Calls(g) : Knows(g, calls[g][n])

\* One call at a time has the mutex, and one builds.
Exclusive ==
  \A g, h \in Goroutines : \A m \in Calls(g), n \in Calls(h) :
    /\ calls[g][m].type = calls[h][n].type
    /\ \/ Locked(calls[g][m]) /\ Locked(calls[h][n])
       \/ Building(calls[g][m]) /\ Building(calls[h][n])
    => g = h /\ m = n

BuiltOnce ==
  \A t \in Types : Kind(t) = "lazy" =>
    /\ builds[t] <= 1 /\ seen[t] \subseteq {1}
    /\ t \in done => builds[t] = 1 /\ instance[t] = 1
    /\ t \notin done /\ mu[t] = {} => builds[t] = 0

\* initOrder, as InitOrderExact has it.
InTransit(g, t) ==
  /\ Size(g) > 0
  /\ calls[g][Size(g)].type = t
  /\ calls[g][Size(g)].pc \in {"unlockFirst", "append"}

OnTheWay(t) == \E g \in Goroutines : InTransit(g, t)

OrderKept ==
  /\ IsInjective(initOrder)
  /\ \A t \in Types :
       t \in ToSet(initOrder) <=>
         \/ t \in registered /\ Kind(t) = "singleton"
         \/ t \in done /\ ~OnTheWay(t)

\* The walks of Start and Shutdown: the services that are up are those of the
\* first s places of the copy, which is a prefix of initOrder.
FirstOnes(s) == {order[n] : n \in 1..s} \cap graph.sds

Walk(s) ==
  /\ up = FirstOnes(s)
  /\ life \in {"setup", "failed", "down"} => s = 0
  /\ life = "starting" => at = s + 1
  /\ life \in {"rollback", "stopping"} => s <= at /\ at <= Len(order)

LifeKept ==
  /\ Len(order) <= Len(initOrder)
  /\ \A n \in 1..Len(order) : initOrder[n] = order[n]
  /\ \E s \in 0..Len(order) : Walk(s)

\* The stack of pushResolving: the calls past their lookup, but for Warmup's.
Warm(g) == IF Size(g) > 0 /\ calls[g][1].warm THEN 1 ELSE 0

LookingUp(g) ==
  IF Size(g) > 0 /\ calls[g][Size(g)].pc = "lookup" THEN 1 ELSE 0

MatchOf(g) ==
  /\ Len(resolving[g]) = Size(g) - Warm(g) - LookingUp(g)
  /\ \A i \in 1..Len(resolving[g]) :
       resolving[g][i] = calls[g][i + Warm(g)].type

StackMatches == \A g \in Goroutines : MatchOf(g)

IInv ==
  /\ TypeOK /\ StackShape /\ WarmupKnows
  /\ CallsKnow /\ Exclusive /\ BuiltOnce
  /\ OrderKept /\ LifeKept
  /\ StackMatches /\ VerdictSound

-----------------------------------------------------------------------------
(* What an operation does to the stack of calls. *)

\* A typed stack.
LEMMA StackType ==
  ASSUME TypeOK, NEW g \in Goroutines
  PROVE  /\ calls[g] \in Seq(Frame) /\ Size(g) \in Nat
         /\ \A n \in Calls(g) : calls[g][n] \in Frame
         /\ calls[g] # <<>> => Size(g) > 0 /\ Size(g) \in Calls(g)
  <1>1. calls[g] \in Seq(Frame)
    BY DEF TypeOK
  <1>2. calls[g] # <<>> => Size(g) \in Nat \ {0}
    BY <1>1, EmptySeq DEF Size
  <1> QED
    BY <1>1, <1>2, LenProperties, ElementOfSeq DEF Size, Calls

\* The stack s with its last call replaced by c.
LEMMA ReplaceLast ==
  ASSUME NEW S, NEW s \in Seq(S), s # <<>>, NEW c \in S
  PROVE  LET r == [s EXCEPT ![Len(s)] = c]
         IN  /\ r \in Seq(S) /\ Len(r) = Len(s)
             /\ \A n \in 1..Len(s) : n < Len(s) => r[n] = s[n]
             /\ r[Len(s)] = c
  <1>1. Len(s) \in Nat \ {0} /\ Len(s) \in 1..Len(s)
    BY EmptySeq
  <1> QED
    BY <1>1, ExceptSeq

LEMMA FrontFacts ==
  ASSUME NEW S, NEW s \in Seq(S), s # <<>>
  PROVE  /\ Front(s) \in Seq(S) /\ Len(Front(s)) = Len(s) - 1
         /\ \A n \in 1..(Len(s) - 1) : Front(s)[n] = s[n]
         /\ Front(s) = <<>> <=> Len(s) = 1
  <1>1. Len(s) \in Nat \ {0} /\ \A i \in 1..(Len(s) - 1) : s[i] \in S
    BY EmptySeq, LenProperties, ElementOfSeq
  <1> DEFINE k == Len(s) - 1
  <1>2. /\ Front(s) \in Seq(S)
        /\ Len(Front(s)) = IF 1 <= k THEN k - 1 + 1 ELSE 0
        /\ \A i \in 1..(k - 1 + 1) : Front(s)[i] = s[1 + i - 1]
    BY <1>1, SubSeqProperties DEF Front
  <1>3. Len(Front(s)) = k
    <2>1. k \in Nat
      BY <1>1
    <2> HIDE DEF k
    <2> QED
      BY <1>2, <2>1
  <1>4. Front(s) = <<>> <=> Len(Front(s)) = 0
    BY <1>2, EmptySeq
  <1> QED
    BY <1>1, <1>2, <1>3, <1>4

\* Only the stack of g changes.
OthersKeep(g) == \A h \in Goroutines : h # g => calls'[h] = calls[h]

LEMMA GotoShape ==
  ASSUME TypeOK, NEW g \in Goroutines, calls[g] # <<>>, NEW pc \in Steps,
         Goto(g, pc)
  PROVE  /\ calls' \in [Goroutines -> Seq(Frame)] /\ OthersKeep(g)
         /\ Size(g)' = Size(g)
         /\ \A n \in Calls(g) : n < Size(g) => calls'[g][n] = calls[g][n]
         /\ LET c == calls[g][Size(g)] d == calls'[g][Size(g)]
            IN  d.pc = pc /\ d.type = c.type /\ d.dep = c.dep /\ d.warm = c.warm
  <1> DEFINE k == Len(calls[g])
             c == calls[g][k]
             d == [c EXCEPT !.pc = pc]
  <1>1. calls[g] \in Seq(Frame) /\ c \in Frame /\ k \in Nat
    BY StackType DEF Size, Calls
  <1>2. d \in Frame /\ d.pc = pc /\ d.type = c.type /\ d.dep = c.dep
        /\ d.warm = c.warm
    BY <1>1 DEF Frame
  <1>3. calls' = [calls EXCEPT ![g] = [calls[g] EXCEPT ![k] = d]]
    BY DEF Goto
  <1>4. calls'[g] = [calls[g] EXCEPT ![k] = d] /\ OthersKeep(g)
    BY <1>3 DEF TypeOK, OthersKeep
  <1> HIDE DEF d
  <1>5. /\ calls'[g] \in Seq(Frame) /\ Len(calls'[g]) = k
        /\ \A n \in 1..k : n < k => calls'[g][n] = calls[g][n]
        /\ calls'[g][k] = d
    BY <1>1, <1>2, <1>4, ReplaceLast
  <1>6. calls' \in [Goroutines -> Seq(Frame)]
    BY <1>3, <1>4, <1>5 DEF TypeOK
  <1> QED
    BY <1>2, <1>4, <1>5, <1>6 DEF Size, Calls

LEMMA ReturnShape ==
  ASSUME TypeOK, NEW g \in Goroutines, calls[g] # <<>>, NEW ok, Return(g, ok)
  PROVE  /\ calls' \in [Goroutines -> Seq(Frame)] /\ OthersKeep(g)
         /\ Size(g)' = Size(g) - 1
         /\ \A n \in Calls(g) : n < Size(g) - 1 => calls'[g][n] = calls[g][n]
         /\ Size(g) > 1 =>
              LET c == calls[g][Size(g) - 1] d == calls'[g][Size(g) - 1]
              IN  /\ d.type = c.type /\ d.warm = c.warm
                  /\ d.pc = c.pc \/ d.pc = "failed"
  <1> DEFINE k == Len(calls[g])
             rest == Front(calls[g])
             c == calls[g][k - 1]
  <1>1. /\ calls[g] \in Seq(Frame) /\ k \in Nat \ {0}
        /\ rest \in Seq(Frame) /\ Len(rest) = k - 1
        /\ \A n \in 1..(k - 1) : rest[n] = calls[g][n]
        /\ rest = <<>> <=> k = 1
    BY StackType, FrontFacts DEF Size, Calls
  <1> HIDE DEF rest
  <1>2. CASE k = 1
    <2>1. calls' = [calls EXCEPT ![g] = <<>>]
      BY <1>1, <1>2 DEF Return, rest
    <2>2. calls' \in [Goroutines -> Seq(Frame)]
      BY <2>1 DEF TypeOK
    <2>3. calls'[g] = <<>> /\ OthersKeep(g)
      BY <2>1 DEF TypeOK, OthersKeep
    <2> QED
      BY <1>1, <1>2, <2>2, <2>3 DEF Size, Calls
  <1>3. CASE k > 1
    <2>1. c \in Frame /\ rest # <<>> /\ c = rest[k - 1] /\ k - 1 \in 1..k
      BY <1>1, <1>3, StackType DEF Size, Calls
    <2>2. \E d \in Frame :
            /\ calls' = [calls EXCEPT ![g] = [rest EXCEPT ![k - 1] = d]]
            /\ d.type = c.type /\ d.warm = c.warm
            /\ d.pc = c.pc \/ d.pc = "failed"
      <3>1. CASE calls' = [calls EXCEPT ![g] =
                             [rest EXCEPT ![Len(rest)].dep = @ + 1]]
        <4> DEFINE d == [c EXCEPT !.dep = c.dep + 1]
        <4>1. d \in Frame /\ d.type = c.type /\ d.warm = c.warm /\ d.pc = c.pc
          BY <2>1 DEF Frame
        <4>2. calls' = [calls EXCEPT ![g] = [rest EXCEPT ![k - 1] = d]]
          BY <1>1, <2>1, <3>1
        <4> QED
          BY <4>1, <4>2
      <3>2. CASE calls' = [calls EXCEPT ![g] =
                             [rest EXCEPT ![Len(rest)].pc = "failed"]]
        <4> DEFINE d == [c EXCEPT !.pc = "failed"]
        <4>1. /\ d \in Frame /\ d.type = c.type /\ d.warm = c.warm
              /\ d.pc = "failed"
          BY <2>1 DEF Frame, Steps
        <4>2. calls' = [calls EXCEPT ![g] = [rest EXCEPT ![k - 1] = d]]
          BY <1>1, <2>1, <3>2
        <4> QED
          BY <4>1, <4>2
      <3> QED
        BY <1>1, <1>3, <2>1, <3>1, <3>2 DEF Return, rest
    <2>3. PICK d \in Frame :
            /\ calls' = [calls EXCEPT ![g] = [rest EXCEPT ![k - 1] = d]]
            /\ d.type = c.type /\ d.warm = c.warm
            /\ d.pc = c.pc \/ d.pc = "failed"
      BY <2>2
    <2>4. calls'[g] = [rest EXCEPT ![k - 1] = d] /\ OthersKeep(g)
      BY <2>3 DEF TypeOK, OthersKeep
    <2>5. /\ calls'[g] \in Seq(Frame) /\ Len(calls'[g]) = k - 1
          /\ \A n \in 1..(k - 1) : n < k - 1 => calls'[g][n] = rest[n]
          /\ calls'[g][k - 1] = d
      BY <1>1, <2>1, <2>4, ReplaceLast
    <2>6. calls' \in [Goroutines -> Seq(Frame)]
      BY <2>3, <2>4, <2>5 DEF TypeOK
    <2> QED
      BY <1>1, <2>3, <2>4, <2>5, <2>6 DEF Size, Calls
  <1> QED
    BY <1>1, <1>2, <1>3

LEMMA PushShape ==
  ASSUME TypeOK, NEW g \in Goroutines, NEW d \in Frame,
         calls' = [calls EXCEPT ![g] = Append(calls[g], d)]
  PROVE  /\ calls' \in [Goroutines -> Seq(Frame)] /\ OthersKeep(g)
         /\ Size(g)' = Size(g) + 1 /\ calls'[g][Size(g) + 1] = d
         /\ \A n \in Calls(g) : calls'[g][n] = calls[g][n]
  <1>1. calls[g] \in Seq(Frame)
    BY StackType
  <1>2. calls'[g] = Append(calls[g], d) /\ OthersKeep(g)
    BY DEF TypeOK, OthersKeep
  <1>3. /\ Append(calls[g], d) \in Seq(Frame)
        /\ Len(Append(calls[g], d)) = Len(calls[g]) + 1
        /\ \A n \in 1..Len(calls[g]) : Append(calls[g], d)[n] = calls[g][n]
        /\ Append(calls[g], d)[Len(calls[g]) + 1] = d
    BY <1>1, AppendProperties
  <1>4. calls' \in [Goroutines -> Seq(Frame)]
    BY <1>3 DEF TypeOK
  <1> QED
    BY <1>2, <1>3, <1>4 DEF Size, Calls

\* The first call of a goroutine that is in none.
LEMMA BeginShape ==
  ASSUME TypeOK, NEW g \in Goroutines, NEW d \in Frame, calls[g] = <<>>,
         calls' = [calls EXCEPT ![g] = <<d>>]
  PROVE  /\ calls' \in [Goroutines -> Seq(Frame)] /\ OthersKeep(g)
         /\ Size(g)' = 1 /\ calls'[g][1] = d /\ Size(g) = 0
  <1>1. <<d>> \in Seq(Frame) /\ Len(<<d>>) = 1 /\ <<d>>[1] = d
    OBVIOUS
  <1>2. calls'[g] = <<d>> /\ OthersKeep(g)
    BY DEF TypeOK, OthersKeep
  <1>3. calls' \in [Goroutines -> Seq(Frame)]
    BY <1>1 DEF TypeOK
  <1>4. Size(g) = 0
    BY DEF Size
  <1> QED
    BY <1>1, <1>2, <1>3, <1>4 DEF Size

LEMMA CallType ==
  ASSUME NEW t \in Types, NEW pc \in Steps, NEW warm \in BOOLEAN
  PROVE  Call(t, pc, warm) \in Frame
  BY DEF Call, Frame

\* The innermost call and its type.
LEMMA TopFacts ==
  ASSUME TypeOK, NEW g \in Goroutines, calls[g] # <<>>
  PROVE  /\ Last(calls[g]) = calls[g][Size(g)] /\ Size(g) \in Calls(g)
         /\ calls[g][Size(g)] \in Frame /\ Top(g) = calls[g][Size(g)].type
         /\ Top(g) \in Types /\ Size(g) \in Nat /\ Size(g) > 0
  <1>1. /\ Size(g) \in Nat /\ Size(g) > 0 /\ Size(g) \in Calls(g)
        /\ calls[g][Size(g)] \in Frame
    BY StackType
  <1>2. Last(calls[g]) = calls[g][Size(g)] /\ Top(g) = calls[g][Size(g)].type
    BY DEF Last, Size, Top
  <1> QED
    BY <1>1, <1>2 DEF Frame

-----------------------------------------------------------------------------
(* Type correctness. *)

LEMMA GraphType ==
  ASSUME TypeOK
  PROVE  /\ \A t \in Types : Kind(t) \in {"singleton", "transient", "lazy"}
         /\ \A t \in Types : Deps(t) \in Seq(Types)
         /\ graph.sds \subseteq Types
         /\ graph.maxCalls \in Nat /\ graph.maxFails \in Nat
         /\ graph.maxStarts \in Nat
  BY ConstantsAssumption DEF TypeOK, Kind, Deps

\* The call that a factory makes.
LEMMA NextDepPush ==
  ASSUME TypeOK, NEW g \in Goroutines, NextDep(g)
  PROVE  /\ calls[g] # <<>> /\ calls[g][Size(g)].pc = "factory"
         /\ \E d \in Frame :
              /\ calls' = [calls EXCEPT ![g] = Append(calls[g], d)]
              /\ d.type \in ToSet(Deps(calls[g][Size(g)].type))
              /\ d.pc = "lookup" /\ d.warm = FALSE
  <1> DEFINE c == calls[g][Size(g)]
             t == Deps(c.type)[c.dep + 1]
             d == Call(t, "lookup", FALSE)
  <1>1. calls[g] # <<>>
    BY DEF NextDep, InCall
  <1>2. c \in Frame /\ Last(calls[g]) = c
    BY <1>1, TopFacts
  <1>3. /\ c.pc = "factory" /\ c.dep < Len(Deps(c.type)) /\ c.dep \in Nat
        /\ c.type \in Types
    BY <1>2 DEF NextDep, InCall, Frame
  <1>4. Deps(c.type) \in Seq(Types)
    BY <1>3, GraphType
  <1>5. t \in Types /\ t \in ToSet(Deps(c.type))
    BY <1>3, <1>4, ElementOfSeq, LenProperties DEF ToSet
  <1>6. calls' = [calls EXCEPT ![g] = Append(calls[g], d)]
    BY <1>2 DEF NextDep
  <1> HIDE DEF t
  <1>7. d \in Frame /\ d.type = t /\ d.pc = "lookup" /\ d.warm = FALSE
    BY <1>5, CallType DEF Steps, Call
  <1> QED
    BY <1>1, <1>3, <1>5, <1>6, <1>7

LEMMA GraphFixed == [Next]_vars => graph' = graph
  BY DEF Next, Resolve, Lifecycle, Give, Use, LookupEnds, PushResolving, Lock,
     NextDep, FactoryReturns, FactoryFails, Store, Publish, Unlock,
     AppendInitOrder, UseReturns, UseFails, Warmup, WarmupNext, WarmupCancelled,
     StartContainer, OnInit, OnInitFails, Started, Shutdown, OnShutdown,
     AllShutDown, Quiet, vars, resolveVars, appVars

\* The calls stay as they are.
Elsewhere ==
  \/ \E t \in Types : Give(t)
  \/ \E g \in Goroutines : Warmup(g) \/ WarmupCancelled(g)
  \/ StartContainer \/ Lifecycle \/ Shutdown \/ Quiet
  \/ UNCHANGED vars

LEMMA CallsKept ==
  ASSUME Elsewhere PROVE calls' = calls /\ resolving' = resolving
  BY DEF Elsewhere, Give, Warmup, WarmupCancelled, StartContainer, Lifecycle,
     OnInit, OnInitFails, Started, Shutdown, OnShutdown, AllShutDown, Quiet,
     vars, resolveVars

LEMMA NextCases ==
  ASSUME [Next]_vars
  PROVE  \/ Elsewhere
         \/ \E g \in Goroutines :
              Resolve(g) \/ \E t \in Types : Use(g, t) \/ WarmupNext(g, t)
  BY DEF Next, Elsewhere

\* The calls, which every resolution step changes.
LEMMA CallsTyped ==
  ASSUME TypeOK, [Next]_vars
  PROVE  calls' \in [Goroutines -> Seq(Frame)]
  <1>0. calls \in [Goroutines -> Seq(Frame)]
    BY DEF TypeOK
  <1>1. ASSUME NEW g \in Goroutines, calls[g] # <<>>, NEW pc \in Steps,
               Goto(g, pc)
        PROVE  calls' \in [Goroutines -> Seq(Frame)]
    BY <1>1, GotoShape
  <1>2. ASSUME NEW g \in Goroutines, calls[g] # <<>>, NEW ok, Return(g, ok)
        PROVE  calls' \in [Goroutines -> Seq(Frame)]
    BY <1>2, ReturnShape
  <1>3. ASSUME NEW g \in Goroutines, Resolve(g)
        PROVE  calls' \in [Goroutines -> Seq(Frame)]
    <2>1. CASE NextDep(g)
      BY <2>1, NextDepPush, PushShape
    <2>2. CASE LookupEnds(g)
      BY <1>2, <2>2 DEF LookupEnds, InCall
    <2>3. CASE PushResolving(g)
      BY <1>1, <1>2, <2>3 DEF PushResolving, InCall, Steps
    <2>4. CASE Lock(g)
      BY <1>1, <2>4 DEF Lock, InCall, Steps
    <2>5. CASE FactoryReturns(g)
      BY <1>1, <2>5 DEF FactoryReturns, InCall, Steps
    <2>6. CASE FactoryFails(g) \/ Store(g) \/ Publish(g) \/ AppendInitOrder(g)
      BY <1>1, <2>6
         DEF FactoryFails, Store, Publish, AppendInitOrder, InCall, Steps
    <2>7. CASE Unlock(g)
      BY <1>1, <2>7 DEF Unlock, InCall, Steps
    <2>8. CASE UseReturns(g) \/ UseFails(g)
      BY <1>2, <2>8 DEF UseReturns, UseFails, InCall
    <2> QED
      BY <1>3, <2>1, <2>2, <2>3, <2>4, <2>5, <2>6, <2>7, <2>8 DEF Resolve
  <1>4. ASSUME NEW g \in Goroutines, NEW t \in Types,
               Use(g, t) \/ WarmupNext(g, t)
        PROVE  calls' \in [Goroutines -> Seq(Frame)]
    <2>1. calls[g] = <<>>
      BY <1>4 DEF Use, WarmupNext, Idle
    <2>2. Call(t, "lookup", FALSE) \in Frame /\ Call(t, "lock", TRUE) \in Frame
      BY CallType DEF Steps
    <2> QED
      BY <1>4, <2>1, <2>2, BeginShape DEF Use, WarmupNext
  <1>5. ASSUME Elsewhere PROVE calls' \in [Goroutines -> Seq(Frame)]
    BY <1>0, <1>5, CallsKept
  <1> QED
    BY <1>3, <1>4, <1>5, NextCases

LEMMA TypeInit == Init => TypeOK
  <1> SUFFICES ASSUME Init PROVE TypeOK
    OBVIOUS
  <1>1. /\ graph \in Graphs
        /\ graph.given \in Seq({t \in Types : graph.kind[t] = "singleton"})
        /\ graph.lazily \subseteq Types
        /\ {graph.maxCalls, graph.maxFails, graph.maxStarts} \subseteq Nat
    BY ConstantsAssumption DEF Init
  <1>2. graph.given \in Seq(Types)
    BY <1>1, SeqMonotonic
  <1>3. ToSet(graph.given) \subseteq Types
    BY <1>2, LenProperties, ElementOfSeq DEF ToSet
  <1>4. registered \subseteq Types /\ initOrder \in Seq(Types)
    BY <1>1, <1>2, <1>3 DEF Init
  <1>5. calls \in [Goroutines -> Seq(Frame)] /\ order \in Seq(Types)
        /\ resolving \in [Goroutines -> Seq(Types)]
    BY EmptySeq DEF Init
  <1>6. /\ mu \in [Types -> SUBSET Goroutines] /\ instance \in [Types -> Nat]
        /\ builds \in [Types -> Nat] /\ seen \in [Types -> SUBSET Nat]
        /\ todo \in [Goroutines -> SUBSET Types]
    BY DEF Init
  <1>7. /\ used \in [Goroutines -> 0..graph.maxCalls]
        /\ fails \in 0..graph.maxFails /\ starts \in 0..graph.maxStarts
    BY <1>1 DEF Init
  <1> QED
    BY <1>1, <1>4, <1>5, <1>6, <1>7 DEF Init, TypeOK

LEMMA InSomeCall ==
  ASSUME NEW g, Resolve(g) PROVE calls[g] # <<>>
  BY DEF Resolve, LookupEnds, PushResolving, Lock, NextDep, FactoryReturns,
     FactoryFails, Store, Publish, Unlock, AppendInitOrder, UseReturns,
     UseFails, InCall

\* What a resolution step may change besides the calls.
LEMMA ResolveTyped ==
  ASSUME TypeOK, CallsKnow, NEW g \in Goroutines, Resolve(g)
  PROVE  /\ registered' = registered
         /\ mu' \in [Types -> SUBSET Goroutines]
         /\ instance' \in [Types -> Nat] /\ builds' \in [Types -> Nat]
         /\ done' \subseteq Lazies
         /\ initOrder' \in Seq(Types)
         /\ resolving' \in [Goroutines -> Seq(Types)]
         /\ todo' = todo
         /\ seen' \in [Types -> SUBSET Nat] /\ cycles' \subseteq Types
         /\ used' = used /\ fails' \in 0..graph.maxFails
         /\ UNCHANGED <<life, order, at, up, starts>>
  <1>t. /\ mu \in [Types -> SUBSET Goroutines]
        /\ instance \in [Types -> Nat] /\ builds \in [Types -> Nat]
        /\ done \subseteq Lazies
        /\ initOrder \in Seq(Types)
        /\ resolving \in [Goroutines -> Seq(Types)]
        /\ seen \in [Types -> SUBSET Nat] /\ cycles \subseteq Types
        /\ fails \in 0..graph.maxFails /\ graph.maxFails \in Nat
    BY GraphType DEF TypeOK
  <1>n. calls[g] # <<>>
    BY InSomeCall
  <1>c. /\ Top(g) \in Types /\ Last(calls[g]).type = Top(g)
        /\ Size(g) \in Calls(g)
        /\ Knows(g, Last(calls[g]))
    BY <1>n, TopFacts DEF CallsKnow
  <1>p. ASSUME PopResolving(g) PROVE resolving' \in [Goroutines -> Seq(Types)]
    <2>1. resolving[g] # <<>> => Front(resolving[g]) \in Seq(Types)
      BY <1>t, FrontFacts
    <2> QED
      BY <1>t, <1>p, <2>1 DEF PopResolving
  <1>1. CASE LookupEnds(g)
    BY <1>t, <1>c, <1>1
       DEF LookupEnds, appVars, lifeVars, lazyVars, counts
  <1>2. CASE PushResolving(g)
    <2> DEFINE t == Top(g)
    <2>0. CASE OnStack(g, t)
      BY <1>t, <1>2, <1>c, <2>0
         DEF PushResolving, appVars, lifeVars, lazyVars, counts
    <2>1. CASE ~OnStack(g, t)
      <3>1. /\ resolving' = [resolving EXCEPT ![g] = Append(resolving[g], t)]
            /\ cycles' = cycles /\ t \in Types
        BY <1>2, <1>c, <2>1 DEF PushResolving
      <3> HIDE DEF t
      <3>2. resolving' \in [Goroutines -> Seq(Types)]
        BY <1>t, <3>1, AppendProperties
      <3> QED
        BY <1>t, <1>2, <3>1, <3>2
           DEF PushResolving, appVars, lifeVars, lazyVars, counts
    <2> QED
      BY <2>0, <2>1
  <1>3. CASE Lock(g)
    BY <1>t, <1>c, <1>3 DEF Lock, appVars, lifeVars, hist, counts
  <1>4. CASE NextDep(g)
    BY <1>t, <1>4 DEF NextDep, appVars, lifeVars, lazyVars, hist, counts
  <1>5. CASE FactoryReturns(g)
    BY <1>t, <1>c, <1>5 DEF FactoryReturns, appVars, lifeVars, hist, counts
  <1>6. CASE FactoryFails(g)
    BY <1>t, <1>6 DEF FactoryFails, appVars, lifeVars, lazyVars, hist
  <1>7. CASE Store(g)
    BY <1>t, <1>c, <1>7 DEF Store, appVars, lifeVars, hist, counts
  <1>8. CASE Publish(g)
    <2>1. Top(g) \in Lazies
      BY <1>c, <1>8 DEF Publish, InCall, Knows, Lazies
    <2> QED
      BY <1>t, <1>8, <2>1 DEF Publish, appVars, lifeVars, hist, counts
  <1>9. CASE Unlock(g)
    BY <1>t, <1>c, <1>9 DEF Unlock, appVars, lifeVars, hist, counts
  <1>10. CASE AppendInitOrder(g)
    BY <1>t, <1>c, <1>10, AppendProperties
       DEF AppendInitOrder, appVars, lifeVars, lazyVars, hist, counts
  <1>11. CASE UseReturns(g)
    <2>1. seen' \in [Types -> SUBSET Nat]
      BY <1>t, <1>c, <1>11 DEF UseReturns
    <2> QED
      BY <1>t, <1>p, <1>11, <2>1
         DEF UseReturns, appVars, lifeVars, lazyVars, counts
  <1>12. CASE UseFails(g)
    BY <1>t, <1>p, <1>12
       DEF UseFails, appVars, lifeVars, lazyVars, hist, counts
  <1> QED
    BY <1>1, <1>2, <1>3, <1>4, <1>5, <1>6, <1>7, <1>8, <1>9, <1>10, <1>11,
       <1>12 DEF Resolve

LEMMA TypeStep ==
  ASSUME TypeOK, CallsKnow, LifeKept, [Next]_vars
  PROVE  TypeOK'
  <1>g. graph' = graph /\ \A t : Kind(t)' = Kind(t)
    BY GraphFixed DEF Kind
  <1>c. calls' \in [Goroutines -> Seq(Frame)]
    BY CallsTyped
  <1>m. /\ graph.maxCalls \in Nat /\ graph.maxFails \in Nat
        /\ graph.maxStarts \in Nat /\ graph.sds \subseteq Types
    BY GraphType
  <1>l. registered' = registered => Lazies' = Lazies
    BY <1>g DEF Lazies
  <1>1. ASSUME NEW g \in Goroutines, Resolve(g) PROVE TypeOK'
    BY <1>g, <1>c, <1>l, <1>1, ResolveTyped DEF TypeOK
  <1>2. ASSUME NEW t \in Types, Give(t) PROVE TypeOK'
    <2>1. registered' = registered \cup {t} /\ Lazies \subseteq Lazies'
      BY <1>g, <1>2 DEF Give, Lazies
    <2>2. initOrder' \in Seq(Types)
      BY <1>2, AppendProperties DEF Give, TypeOK
    <2> QED
      BY <1>g, <1>c, <1>2, <2>1, <2>2
         DEF Give, TypeOK, lazyVars, lifeVars, hist, counts
  <1>3. ASSUME NEW g \in Goroutines, NEW t \in Types, Use(g, t) PROVE TypeOK'
    <2>1. used' \in [Goroutines -> 0..graph.maxCalls]
      BY <1>m, <1>3 DEF Use, TypeOK
    <2> QED
      BY <1>g, <1>c, <1>l, <1>3, <2>1
         DEF Use, TypeOK, appVars, lazyVars, lifeVars, hist
  <1>4. ASSUME NEW g \in Goroutines, Warmup(g) PROVE TypeOK'
    <2>1. used' \in [Goroutines -> 0..graph.maxCalls]
      BY <1>m, <1>4 DEF Warmup, TypeOK
    <2>2. todo' \in [Goroutines -> SUBSET Types]
      BY <1>4 DEF Warmup, TypeOK, Lazies
    <2> QED
      BY <1>g, <1>c, <1>l, <1>4, <2>1, <2>2
         DEF Warmup, TypeOK, appVars, lazyVars, lifeVars, hist
  <1>5. ASSUME NEW g \in Goroutines, NEW t \in Types, WarmupNext(g, t)
        PROVE  TypeOK'
    <2>1. todo' \in [Goroutines -> SUBSET Types]
      BY <1>5 DEF WarmupNext, TypeOK
    <2> QED
      BY <1>g, <1>c, <1>l, <1>5, <2>1
         DEF WarmupNext, TypeOK, appVars, lazyVars, lifeVars, hist, counts
  <1>w. ASSUME NEW g \in Goroutines, WarmupCancelled(g) PROVE TypeOK'
    <2>1. todo' \in [Goroutines -> SUBSET Types]
      BY <1>w DEF WarmupCancelled, TypeOK
    <2> QED
      BY <1>g, <1>c, <1>l, <1>w, <2>1
         DEF WarmupCancelled, TypeOK, appVars, lazyVars, lifeVars, hist, counts
  <1>6. ASSUME StartContainer PROVE TypeOK'
    <2>1. starts' \in 0..graph.maxStarts
      BY <1>m, <1>6 DEF StartContainer, TypeOK
    <2> QED
      BY <1>g, <1>c, <1>l, <1>6, <2>1
         DEF StartContainer, TypeOK, resolveVars, lazyVars, hist, counts
  <1>7. ASSUME OnInit PROVE TypeOK'
    <2>1. up' \subseteq graph.sds /\ at' \in Nat
      BY <1>7 DEF OnInit, TypeOK
    <2> QED
      BY <1>g, <1>c, <1>l, <1>7, <2>1
         DEF OnInit, TypeOK, resolveVars, lazyVars, hist, counts
  <1>8. ASSUME OnInitFails PROVE TypeOK'
    <2>1. PICK s \in 0..Len(order) : Walk(s)
      BY DEF LifeKept
    <2>2. Len(order) \in Nat
      BY LenProperties DEF TypeOK
    <2>3. at' \in Nat
      BY <1>8, <2>1, <2>2 DEF OnInitFails, Walk
    <2> QED
      BY <1>g, <1>c, <1>l, <1>8, <2>3
         DEF OnInitFails, TypeOK, resolveVars, lazyVars, hist, counts
  <1>9. ASSUME OnShutdown PROVE TypeOK'
    <2>1. up' \subseteq graph.sds /\ at' \in Nat
      BY <1>9 DEF OnShutdown, TypeOK
    <2> QED
      BY <1>g, <1>c, <1>l, <1>9, <2>1
         DEF OnShutdown, TypeOK, resolveVars, lazyVars, hist, counts
  <1>10. ASSUME Started \/ AllShutDown PROVE TypeOK'
    BY <1>g, <1>c, <1>l, <1>10
       DEF Started, AllShutDown, TypeOK, resolveVars, lazyVars, hist, counts
  <1>11. ASSUME Shutdown PROVE TypeOK'
    <2>1. at' \in Nat
      BY <1>11, LenProperties DEF Shutdown, TypeOK
    <2> QED
      BY <1>g, <1>c, <1>l, <1>11, <2>1
         DEF Shutdown, TypeOK, resolveVars, lazyVars, hist, counts
  <1>12. ASSUME Quiet \/ UNCHANGED vars PROVE TypeOK'
    BY <1>g, <1>c, <1>l, <1>12
       DEF Quiet, vars, TypeOK, resolveVars, lazyVars, lifeVars, hist, counts
  <1> QED
    BY <1>1, <1>2, <1>3, <1>4, <1>5, <1>w, <1>6, <1>7, <1>8, <1>9, <1>10,
       <1>11, <1>12 DEF Next, Lifecycle

-----------------------------------------------------------------------------
(* The shape of the stacks. *)

LEMMA ShapeStep ==
  ASSUME TypeOK, StackShape, [Next]_vars
  PROVE  StackShape'
  <1>k. \A t : Deps(t)' = Deps(t)
    BY GraphFixed DEF Deps
  <1>o. ASSUME NEW g \in Goroutines, OthersKeep(g), StackOf(g)'
        PROVE  StackShape'
    BY <1>k, <1>o DEF StackShape, StackOf, OthersKeep, Size, Calls
  <1>1. ASSUME NEW g \in Goroutines, calls[g] # <<>>, NEW pc \in Steps,
               Goto(g, pc), pc # "lookup"
        PROVE  StackShape'
    <2> DEFINE k == Size(g)
               c == calls[g][k]
               d == calls'[g][k]
    <2>1. /\ OthersKeep(g) /\ Size(g)' = k
          /\ \A n \in Calls(g) : n < k => calls'[g][n] = calls[g][n]
          /\ d.pc = pc /\ d.type = c.type /\ d.warm = c.warm
      BY <1>1, GotoShape
    <2>2. /\ k \in Nat /\ k > 0 /\ StackOf(g)
          /\ Calls(g) = 1..k /\ Calls(g)' = 1..k
      BY <1>1, <2>1, TopFacts DEF StackShape, Calls
    <2> HIDE DEF k
    <2>3. \A n \in 1..k : /\ calls'[g][n].type = calls[g][n].type
                          /\ calls'[g][n].warm = calls[g][n].warm
      BY <2>1, <2>2
    <2>4. StackOf(g)'
      BY <1>1, <1>k, <2>1, <2>2, <2>3 DEF StackOf, k
    <2> QED
      BY <1>o, <2>1, <2>4
  <1>2. ASSUME NEW g \in Goroutines, calls[g] # <<>>, NEW ok, Return(g, ok)
        PROVE  StackShape'
    <2> DEFINE k == Size(g)
    <2>1. /\ OthersKeep(g) /\ Size(g)' = k - 1
          /\ \A n \in Calls(g) : n < k - 1 => calls'[g][n] = calls[g][n]
          /\ k > 1 => /\ calls'[g][k - 1].type = calls[g][k - 1].type
                      /\ calls'[g][k - 1].warm = calls[g][k - 1].warm
                      /\ \/ calls'[g][k - 1].pc = calls[g][k - 1].pc
                         \/ calls'[g][k - 1].pc = "failed"
      BY <1>2, ReturnShape
    <2>2. /\ k \in Nat /\ k > 0 /\ StackOf(g) /\ Calls(g) = 1..k
          /\ Calls(g)' = 1..(k - 1)
      BY <1>2, <2>1, TopFacts DEF StackShape, Calls
    <2> HIDE DEF k
    <2>3. \A n \in 1..(k - 1) : /\ calls'[g][n].type = calls[g][n].type
                                /\ calls'[g][n].warm = calls[g][n].warm
                                /\ \/ calls'[g][n].pc = calls[g][n].pc
                                   \/ calls'[g][n].pc = "failed"
      BY <2>1, <2>2
    <2>4. StackOf(g)'
      BY <1>k, <2>1, <2>2, <2>3 DEF StackOf, k
    <2> QED
      BY <1>o, <2>1, <2>4
  <1>3. ASSUME NEW g \in Goroutines, Resolve(g)
        PROVE  StackShape'
    <2>1. CASE NextDep(g)
      <3> DEFINE k == Size(g)
      <3>1. /\ calls[g] # <<>> /\ calls[g][k].pc = "factory"
            /\ \E d \in Frame :
                 /\ calls' = [calls EXCEPT ![g] = Append(calls[g], d)]
                 /\ d.type \in ToSet(Deps(calls[g][k].type))
                 /\ d.warm = FALSE
        BY <2>1, NextDepPush
      <3>2. k \in Nat /\ k > 0 /\ Calls(g) = 1..k /\ StackOf(g)
        BY <3>1, TopFacts DEF Calls, StackShape
      <3>3. PICK d \in Frame :
              /\ calls' = [calls EXCEPT ![g] = Append(calls[g], d)]
              /\ d.type \in ToSet(Deps(calls[g][k].type))
              /\ d.warm = FALSE
        BY <3>1
      <3>4. /\ OthersKeep(g) /\ Size(g)' = k + 1 /\ calls'[g][k + 1] = d
            /\ \A n \in 1..k : calls'[g][n] = calls[g][n]
        BY <3>2, <3>3, PushShape
      <3>5. Calls(g)' = 1..(k + 1) /\ ~calls'[g][k + 1].warm
        BY <3>3, <3>4 DEF Calls
      <3> HIDE DEF k
      <3>6. StackOf(g)'
        <4>1. ASSUME NEW n \in 1..(k + 1), n < k + 1
              PROVE  /\ calls'[g][n].pc = "factory"
                     /\ calls'[g][n + 1].type \in ToSet(Deps(calls'[g][n].type))
          <5>1. n \in 1..k /\ calls'[g][n] = calls[g][n]
            BY <3>2, <3>4, <4>1
          <5>2. CASE n = k
            BY <3>1, <3>3, <3>4, <5>1, <5>2
          <5>3. CASE n < k
            <6>1. n + 1 \in 1..k
              BY <3>2, <5>1, <5>3
            <6>2. calls'[g][n + 1] = calls[g][n + 1]
              BY <3>4, <6>1
            <6> QED
              BY <3>2, <5>1, <5>3, <6>2 DEF StackOf, k
          <5> QED
            BY <3>2, <5>1, <5>2, <5>3
        <4>2. ASSUME NEW n \in 1..(k + 1), calls'[g][n].warm
              PROVE  n = 1 /\ calls'[g][n].pc # "lookup"
          <5>1. n \in 1..k
            BY <3>2, <3>5, <4>2
          <5> QED
            BY <3>2, <3>4, <4>2, <5>1 DEF StackOf
        <4> QED
          BY <1>k, <3>4, <3>5, <4>1, <4>2 DEF StackOf
      <3> QED
        BY <1>o, <3>4, <3>6
    <2>2. CASE LookupEnds(g)
      BY <1>2, <2>2 DEF LookupEnds, InCall
    <2>3. CASE PushResolving(g)
      BY <1>1, <1>2, <2>3 DEF PushResolving, InCall, Steps
    <2>4. CASE Lock(g)
      BY <1>1, <2>4 DEF Lock, InCall, Steps
    <2>5. CASE FactoryReturns(g)
      BY <1>1, <2>5 DEF FactoryReturns, InCall, Steps
    <2>6. CASE FactoryFails(g) \/ Store(g) \/ Publish(g) \/ AppendInitOrder(g)
      BY <1>1, <2>6
         DEF FactoryFails, Store, Publish, AppendInitOrder, InCall, Steps
    <2>7. CASE Unlock(g)
      BY <1>1, <2>7 DEF Unlock, InCall, Steps
    <2>8. CASE UseReturns(g) \/ UseFails(g)
      BY <1>2, <2>8 DEF UseReturns, UseFails, InCall
    <2> QED
      BY <1>3, <2>1, <2>2, <2>3, <2>4, <2>5, <2>6, <2>7, <2>8 DEF Resolve
  <1>4. ASSUME NEW g \in Goroutines, NEW t \in Types,
               Use(g, t) \/ WarmupNext(g, t)
        PROVE  StackShape'
    <2>1. PICK d \in {Call(t, "lookup", FALSE), Call(t, "lock", TRUE)} :
            calls[g] = <<>> /\ calls' = [calls EXCEPT ![g] = <<d>>]
      BY <1>4 DEF Use, WarmupNext, Idle
    <2>2. d \in Frame /\ (d.warm => d.pc # "lookup")
      <3>1. CASE d = Call(t, "lookup", FALSE)
        BY <3>1, CallType DEF Steps, Call
      <3>2. CASE d = Call(t, "lock", TRUE)
        BY <3>2, CallType DEF Steps, Call
      <3> QED
        BY <3>1, <3>2
    <2>3. OthersKeep(g) /\ Size(g)' = 1 /\ calls'[g][1] = d
      BY <2>1, <2>2, BeginShape
    <2>4. StackOf(g)'
      BY <2>2, <2>3 DEF StackOf, Calls
    <2> QED
      BY <1>o, <2>3, <2>4
  <1>5. ASSUME Elsewhere PROVE StackShape'
    BY <1>k, <1>5, CallsKept DEF StackShape, StackOf, Size, Calls
  <1> QED
    BY <1>3, <1>4, <1>5, NextCases

-----------------------------------------------------------------------------
(* The stack of pushResolving. *)

LEMMA MatchStep ==
  ASSUME TypeOK, StackShape, StackMatches, [Next]_vars
  PROVE  StackMatches'
  <1>o. ASSUME NEW g \in Goroutines, OthersKeep(g), MatchOf(g)',
               \A h \in Goroutines : h # g => resolving'[h] = resolving[h]
        PROVE  StackMatches'
    <2>1. ASSUME NEW h \in Goroutines, h # g PROVE MatchOf(h)'
      <3>1. calls'[h] = calls[h] /\ resolving'[h] = resolving[h] /\ MatchOf(h)
        BY <1>o, <2>1 DEF OthersKeep, StackMatches
      <3>2. /\ Size(h)' = Size(h) /\ Warm(h)' = Warm(h)
            /\ LookingUp(h)' = LookingUp(h)
        BY <3>1 DEF Size, Warm, LookingUp
      <3> QED
        BY <3>1, <3>2 DEF MatchOf
    <2> QED
      BY <1>o, <2>1 DEF StackMatches
  <1>t. resolving \in [Goroutines -> Seq(Types)]
    BY DEF TypeOK
  <1>l. \A g \in Goroutines : Len(resolving[g]) \in Nat
    BY <1>t, LenProperties
  \* A call goes on: it was not looking up, and does not.
  <1>1. ASSUME NEW g \in Goroutines, NEW pc \in Steps, Goto(g, pc),
               calls[g] # <<>>, pc # "lookup", ~InCall(g, "lookup"),
               resolving' = resolving
        PROVE  StackMatches'
    <2> DEFINE k == Size(g)
    <2>1. /\ OthersKeep(g) /\ Size(g)' = k
          /\ \A n \in Calls(g) : n < k => calls'[g][n] = calls[g][n]
          /\ calls'[g][k].pc = pc /\ calls'[g][k].type = calls[g][k].type
          /\ calls'[g][k].warm = calls[g][k].warm
      BY <1>1, GotoShape
    <2>2. /\ k \in Nat /\ k > 0 /\ MatchOf(g) /\ Calls(g) = 1..k
          /\ calls[g][k].pc # "lookup"
      BY <1>1, TopFacts DEF StackMatches, Calls, InCall
    <2>3. Warm(g)' = Warm(g) /\ LookingUp(g)' = 0 /\ LookingUp(g) = 0
          /\ Warm(g) \in Nat
      BY <1>1, <2>1, <2>2 DEF Warm, LookingUp
    <2> HIDE DEF k
    <2>4. \A n \in 1..k : calls'[g][n].type = calls[g][n].type
      BY <2>1, <2>2
    <2>5. /\ Len(resolving[g]) = k - Warm(g)
          /\ \A i \in 1..Len(resolving[g]) : i + Warm(g) \in 1..k
      BY <1>l, <2>2, <2>3 DEF MatchOf, k
    <2>6. \A i \in 1..Len(resolving[g]) :
            resolving[g][i] = calls'[g][i + Warm(g)].type
      BY <2>2, <2>4, <2>5 DEF MatchOf
    <2>7. MatchOf(g)'
      BY <1>1, <2>1, <2>2, <2>3, <2>5, <2>6 DEF MatchOf
    <2> QED
      BY <1>o, <1>1, <2>1, <2>7
  \* A call returns: the stack loses its entry, if it has one.
  <1>2. ASSUME NEW g \in Goroutines, calls[g] # <<>>, NEW ok, Return(g, ok),
               \/ InCall(g, "lookup") /\ resolving' = resolving
               \/ ~InCall(g, "lookup") /\ PopResolving(g)
        PROVE  StackMatches'
    <2> DEFINE k == Size(g)
    <2>1. /\ OthersKeep(g) /\ Size(g)' = k - 1
          /\ \A n \in Calls(g) : n < k - 1 => calls'[g][n] = calls[g][n]
          /\ k > 1 => /\ calls'[g][k - 1].type = calls[g][k - 1].type
                      /\ calls'[g][k - 1].warm = calls[g][k - 1].warm
                      /\ \/ calls'[g][k - 1].pc = calls[g][k - 1].pc
                         \/ calls'[g][k - 1].pc = "failed"
      BY <1>2, ReturnShape
    <2>2. /\ k \in Nat /\ k > 0 /\ StackOf(g) /\ MatchOf(g)
          /\ Calls(g) = 1..k /\ Last(calls[g]) = calls[g][k]
      BY <1>2, TopFacts DEF StackShape, StackMatches, Calls
    <2> HIDE DEF k
    <2>3. LookingUp(g)' = 0
      BY <2>1, <2>2 DEF LookingUp, StackOf, k
    <2>4. /\ k > 1 => Warm(g)' = Warm(g)
          /\ k = 1 => Warm(g)' = 0
          /\ Warm(g) \in {0, 1}
          /\ calls[g][k].warm => k = 1 /\ Warm(g) = 1
          /\ k = 1 /\ ~calls[g][k].warm => Warm(g) = 0
      BY <2>1, <2>2 DEF Warm, StackOf, k
    <2>5. \A n \in 1..(k - 1) : calls'[g][n].type = calls[g][n].type
      BY <2>1, <2>2
    <2>6. CASE InCall(g, "lookup") /\ resolving' = resolving
      <3>1. calls[g][k].pc = "lookup"
        BY <2>2, <2>6 DEF InCall
      <3>2. LookingUp(g) = 1 /\ ~calls[g][k].warm
        BY <2>2, <3>1 DEF LookingUp, StackOf, k
      <3>3. Len(resolving[g]) = (k - 1) - Warm(g)'
        BY <2>2, <2>4, <3>2 DEF MatchOf, k
      <3>4. \A i \in 1..Len(resolving[g]) :
              resolving[g][i] = calls'[g][i + Warm(g)'].type
        <4>1. CASE k = 1
          BY <2>4, <3>3, <4>1
        <4>2. CASE k > 1
          BY <2>2, <2>4, <2>5, <3>3, <4>2 DEF MatchOf
        <4> QED
          BY <2>2, <4>1, <4>2
      <3>5. MatchOf(g)'
        BY <2>1, <2>2, <2>3, <2>4, <2>6, <3>3, <3>4 DEF MatchOf
      <3> QED
        BY <1>o, <2>1, <2>6, <3>5
    <2>7. CASE ~InCall(g, "lookup") /\ PopResolving(g)
      <3> DEFINE r == resolving[g]
      <3>1. LookingUp(g) = 0
        BY <1>2, <2>2, <2>7 DEF LookingUp, InCall, k
      <3>2. r \in Seq(Types) /\ Len(r) = k - Warm(g)
            /\ \A i \in 1..Len(r) : r[i] = calls[g][i + Warm(g)].type
        BY <1>t, <2>2, <2>4, <3>1 DEF MatchOf, k
      <3>3. CASE calls[g][k].warm
        <4>1. resolving' = resolving /\ Len(r) = 0
          BY <2>2, <2>4, <2>7, <3>2, <3>3 DEF PopResolving
        <4>2. MatchOf(g)'
          BY <2>1, <2>3, <2>4, <3>3, <4>1 DEF MatchOf
        <4> QED
          BY <1>o, <2>1, <4>1, <4>2
      <3>4. CASE ~calls[g][k].warm
        <4>1. Len(r) > 0 /\ r # <<>>
          BY <2>2, <2>4, <3>2, <3>4, EmptySeq
        <4>2. resolving' = [resolving EXCEPT ![g] = Front(r)]
          BY <2>2, <2>7, <3>4, <4>1 DEF PopResolving
        <4>3. /\ resolving'[g] = Front(r)
              /\ \A h \in Goroutines : h # g => resolving'[h] = resolving[h]
          BY <1>t, <4>2
        <4>4. /\ Len(Front(r)) = Len(r) - 1
              /\ \A i \in 1..(Len(r) - 1) : Front(r)[i] = r[i]
          BY <3>2, <4>1, FrontFacts
        <4> HIDE DEF r
        <4>5. Len(Front(r)) = (k - 1) - Warm(g)'
          BY <2>2, <2>4, <3>2, <3>4, <4>4
        <4>6. \A i \in 1..Len(Front(r)) :
                Front(r)[i] = calls'[g][i + Warm(g)'].type
          <5>1. CASE k = 1
            BY <2>4, <4>5, <5>1
          <5>2. CASE k > 1
            BY <2>2, <2>4, <2>5, <3>2, <4>4, <4>5, <5>2
          <5> QED
            BY <2>2, <5>1, <5>2
        <4>7. MatchOf(g)'
          BY <2>1, <2>2, <2>3, <2>4, <4>3, <4>5, <4>6 DEF MatchOf
        <4> QED
          BY <1>o, <2>1, <4>3, <4>7
      <3> QED
        BY <3>3, <3>4
    <2> QED
      BY <1>2, <2>6, <2>7
  \* pushResolving puts the type there.
  <1>3. ASSUME NEW g \in Goroutines, PushResolving(g), ~OnStack(g, Top(g))
        PROVE  StackMatches'
    <2> DEFINE k == Size(g)
               t == Top(g)
               r == resolving[g]
    <2>0. calls[g] # <<>> /\ InCall(g, "lookup")
      BY <1>3 DEF PushResolving, InCall
    <2>1. PICK pc \in {"lock", "factory"} : Goto(g, pc)
      BY <1>3 DEF PushResolving
    <2>2. /\ OthersKeep(g) /\ Size(g)' = k
          /\ \A n \in Calls(g) : n < k => calls'[g][n] = calls[g][n]
          /\ calls'[g][k].pc = pc /\ calls'[g][k].type = calls[g][k].type
          /\ calls'[g][k].warm = calls[g][k].warm
      BY <2>0, <2>1, GotoShape DEF Steps
    <2>3. /\ k \in Nat /\ k > 0 /\ MatchOf(g) /\ StackOf(g) /\ Calls(g) = 1..k
          /\ calls[g][k].pc = "lookup" /\ calls[g][k].type = t /\ t \in Types
      BY <2>0, TopFacts DEF StackMatches, StackShape, Calls, InCall
    <2>4. /\ Warm(g)' = Warm(g) /\ LookingUp(g)' = 0 /\ LookingUp(g) = 1
          /\ Warm(g) \in Nat
      BY <2>1, <2>2, <2>3 DEF Warm, LookingUp
    <2>5. resolving' = [resolving EXCEPT ![g] = Append(r, t)]
      BY <1>3 DEF PushResolving
    <2>6. /\ resolving'[g] = Append(r, t) /\ r \in Seq(Types)
          /\ \A h \in Goroutines : h # g => resolving'[h] = resolving[h]
      BY <1>t, <2>5
    <2> HIDE DEF k, t, r
    <2>7. /\ Len(Append(r, t)) = Len(r) + 1 /\ Append(r, t)[Len(r) + 1] = t
          /\ \A i \in 1..Len(r) : Append(r, t)[i] = r[i]
      BY <2>3, <2>6, AppendProperties
    <2>8. /\ Len(r) = k - Warm(g) - 1 /\ Len(r) \in Nat
          /\ \A i \in 1..Len(r) : r[i] = calls[g][i + Warm(g)].type
      BY <1>l, <2>3, <2>4 DEF MatchOf, k, r
    <2>9. \A n \in 1..k : calls'[g][n].type = calls[g][n].type
      BY <2>2, <2>3
    <2>10. \A i \in 1..(Len(r) + 1) :
             Append(r, t)[i] = calls'[g][i + Warm(g)].type
      <3> SUFFICES ASSUME NEW i \in 1..(Len(r) + 1)
                   PROVE  Append(r, t)[i] = calls'[g][i + Warm(g)].type
        OBVIOUS
      <3>1. CASE i = Len(r) + 1
        <4>1. i + Warm(g) = k
          BY <2>3, <2>4, <2>8, <3>1
        <4> QED
          BY <2>2, <2>3, <2>7, <3>1, <4>1
      <3>2. CASE i \in 1..Len(r)
        <4>1. i + Warm(g) \in 1..k
          BY <2>3, <2>4, <2>8, <3>2
        <4> QED
          BY <2>7, <2>8, <2>9, <3>2, <4>1
      <3> QED
        BY <2>8, <3>1, <3>2
    <2>11. MatchOf(g)'
      BY <2>2, <2>3, <2>4, <2>6, <2>7, <2>8, <2>10 DEF MatchOf
    <2> QED
      BY <1>o, <2>2, <2>6, <2>11
  <1>4. ASSUME NEW g \in Goroutines, NextDep(g)
        PROVE  StackMatches'
    <2> DEFINE k == Size(g)
    <2>1. /\ calls[g] # <<>> /\ calls[g][k].pc = "factory"
          /\ resolving' = resolving
      BY <1>4, NextDepPush DEF NextDep
    <2>2. k \in Nat /\ k > 0 /\ Calls(g) = 1..k /\ MatchOf(g)
      BY <2>1, TopFacts DEF Calls, StackMatches
    <2>3. PICK d \in Frame :
            /\ calls' = [calls EXCEPT ![g] = Append(calls[g], d)]
            /\ d.pc = "lookup"
      BY <1>4, NextDepPush
    <2>4. /\ OthersKeep(g) /\ Size(g)' = k + 1 /\ calls'[g][k + 1] = d
          /\ \A n \in 1..k : calls'[g][n] = calls[g][n]
      BY <2>2, <2>3, PushShape
    <2>l. calls'[g][k + 1].pc = "lookup"
      BY <2>3, <2>4
    <2>5. /\ Warm(g)' = Warm(g) /\ LookingUp(g)' = 1 /\ LookingUp(g) = 0
          /\ Warm(g) \in Nat
      BY <2>1, <2>2, <2>l, <2>4 DEF Warm, LookingUp
    <2>6. /\ Len(resolving[g]) = k - Warm(g)
          /\ \A i \in 1..Len(resolving[g]) :
               resolving[g][i] = calls[g][i + Warm(g)].type
      BY <2>2, <2>5 DEF MatchOf
    <2> HIDE DEF k
    <2>7. \A i \in 1..Len(resolving[g]) :
            resolving[g][i] = calls'[g][i + Warm(g)].type
      <3>1. \A i \in 1..Len(resolving[g]) : i + Warm(g) \in 1..k
        BY <1>l, <2>2, <2>5, <2>6
      <3> QED
        BY <2>4, <2>6, <3>1
    <2>8. MatchOf(g)'
      <3>1. /\ resolving' = resolving /\ Size(g)' = k + 1 /\ k \in Nat
            /\ Warm(g)' = Warm(g) /\ LookingUp(g)' = 1 /\ Warm(g) \in Nat
            /\ Len(resolving[g]) = k - Warm(g)
        BY <2>1, <2>2, <2>4, <2>5, <2>6
      <3>2. Len(resolving'[g]) = Size(g)' - Warm(g)' - LookingUp(g)'
        BY <3>1
      <3>3. \A i \in 1..Len(resolving'[g]) :
              resolving'[g][i] = calls'[g][i + Warm(g)'].type
        BY <2>7, <3>1
      <3> QED
        BY <3>2, <3>3 DEF MatchOf
    <2> QED
      BY <1>o, <2>1, <2>4, <2>8
  <1>5. ASSUME NEW g \in Goroutines, Resolve(g)
        PROVE  StackMatches'
    <2>1. CASE NextDep(g)
      BY <1>4, <2>1
    <2>2. CASE LookupEnds(g)
      BY <1>2, <2>2 DEF LookupEnds, InCall
    <2>3. CASE PushResolving(g)
      <3>1. CASE OnStack(g, Top(g))
        BY <1>2, <2>3, <3>1 DEF PushResolving, InCall
      <3> QED
        BY <1>3, <2>3, <3>1
    <2>4. CASE Lock(g)
      BY <1>1, <2>4 DEF Lock, InCall, Steps
    <2>5. CASE FactoryReturns(g)
      BY <1>1, <2>5 DEF FactoryReturns, InCall, Steps
    <2>6. CASE FactoryFails(g) \/ Store(g) \/ Publish(g) \/ AppendInitOrder(g)
      BY <1>1, <2>6
         DEF FactoryFails, Store, Publish, AppendInitOrder, InCall, Steps
    <2>7. CASE Unlock(g)
      BY <1>1, <2>7 DEF Unlock, InCall, Steps
    <2>8. CASE UseReturns(g) \/ UseFails(g)
      BY <1>2, <2>8 DEF UseReturns, UseFails, InCall
    <2> QED
      BY <1>5, <2>1, <2>2, <2>3, <2>4, <2>5, <2>6, <2>7, <2>8 DEF Resolve
  <1>6. ASSUME NEW g \in Goroutines, NEW t \in Types,
               Use(g, t) \/ WarmupNext(g, t)
        PROVE  StackMatches'
    <2>1. PICK d \in {Call(t, "lookup", FALSE), Call(t, "lock", TRUE)} :
            /\ calls[g] = <<>> /\ calls' = [calls EXCEPT ![g] = <<d>>]
            /\ resolving' = resolving
      BY <1>6 DEF Use, WarmupNext, Idle
    <2>2. d \in Frame /\ (d.warm <=> d.pc # "lookup")
      <3>1. CASE d = Call(t, "lookup", FALSE)
        BY <3>1, CallType DEF Steps, Call
      <3>2. CASE d = Call(t, "lock", TRUE)
        BY <3>2, CallType DEF Steps, Call
      <3> QED
        BY <3>1, <3>2
    <2>3. OthersKeep(g) /\ Size(g)' = 1 /\ calls'[g][1] = d /\ Size(g) = 0
      BY <2>1, <2>2, BeginShape
    <2>4. Len(resolving[g]) = 0
      BY <2>3 DEF StackMatches, MatchOf, Warm, LookingUp
    <2>5. Size(g)' - Warm(g)' - LookingUp(g)' = 0
      BY <2>2, <2>3 DEF Warm, LookingUp
    <2>6. MatchOf(g)'
      BY <2>1, <2>4, <2>5 DEF MatchOf
    <2> QED
      BY <1>o, <2>1, <2>3, <2>6
  <1>7. ASSUME Elsewhere PROVE StackMatches'
    BY <1>7, CallsKept DEF StackMatches, MatchOf, Size, Warm, LookingUp
  <1> QED
    BY <1>5, <1>6, <1>7, NextCases

-----------------------------------------------------------------------------
(* The mutexes: who has one, and what that says of the entry. *)

\* A call as it was, or one whose factory has given up.
Kept(c, d) ==
  /\ d.type = c.type
  /\ d.pc = c.pc \/ (c.pc = "factory" /\ d.pc = "failed")

\* A call with nothing at stake.
Fresh(h, d) == ~Locked(d) /\ ~Building(d) /\ Knows(h, d)

\* The entries stay as they are, and no call gets hold of one.
LEMMA CallsCarry ==
  ASSUME TypeOK, CallsKnow, Exclusive, graph' = graph,
         registered \subseteq registered',
         \A t \in Types : Kind(t) = "lazy" =>
           /\ mu'[t] = mu[t] /\ builds'[t] = builds[t]
           /\ instance'[t] = instance[t] /\ (t \in done' <=> t \in done),
         \A h \in Goroutines : \A n \in Calls(h)' :
           \/ n \in Calls(h) /\ Kept(calls[h][n], calls'[h][n])
           \/ Fresh(h, calls[h][n])'
  PROVE  CallsKnow' /\ Exclusive'
  <1>k. \A t : Kind(t)' = Kind(t)
    BY DEF Kind
  <1>1. ASSUME NEW h \in Goroutines, NEW n \in Calls(h)',
               n \in Calls(h), Kept(calls[h][n], calls'[h][n])
        PROVE  /\ Knows(h, calls[h][n])'
               /\ Locked(calls[h][n])' => Locked(calls[h][n])
               /\ Building(calls[h][n])' => Building(calls[h][n])
               /\ calls'[h][n].type = calls[h][n].type
    <2> DEFINE c == calls[h][n]
               d == calls'[h][n]
    <2>1. Knows(h, c) /\ c.type \in Types /\ d.type = c.type
          /\ (d.pc = c.pc \/ (c.pc = "factory" /\ d.pc = "failed"))
      BY <1>1, StackType DEF CallsKnow, Frame, Kept
    <2>2. Locked(c)' => Locked(c)
      BY <1>k, <2>1 DEF Locked
    <2>3. Building(c)' => Building(c)
      BY <1>k, <2>1 DEF Building
    <2>4. Knows(h, c)'
      <3> HIDE DEF c, d
      <3>1. c' = d
        BY DEF c, d
      <3>2. /\ d.pc # "lookup" =>
                 d.type \in registered' /\ Kind(d.type) # "singleton"
            /\ d.pc \in {"lock", "store", "publish", "unlockFirst", "unlock",
                         "append", "error"} => Kind(d.type) = "lazy"
        BY <2>1 DEF Knows
      <3>3. Locked(c)' => mu'[d.type] = {h}
        BY <2>1, <2>2 DEF Knows, Locked
      <3>4. Kind(d.type) = "lazy" =>
              /\ d.pc \in {"factory", "failed"} =>
                   d.type \notin done' /\ builds'[d.type] = 0
              /\ d.pc \in {"store", "publish"} =>
                   d.type \notin done' /\ builds'[d.type] = 1
              /\ d.pc = "publish" => instance'[d.type] = 1
              /\ d.pc \in {"unlockFirst", "unlock", "append", "return"} =>
                   d.type \in done'
        BY <2>1 DEF Knows
      <3> QED
        BY <1>k, <3>1, <3>2, <3>3, <3>4 DEF Knows
    <2> QED
      BY <2>1, <2>2, <2>3, <2>4
  <1>2. CallsKnow'
    BY <1>1 DEF CallsKnow, Fresh
  <1>3. ASSUME NEW g \in Goroutines, NEW h \in Goroutines,
               NEW m \in Calls(g)', NEW n \in Calls(h)',
               calls'[g][m].type = calls'[h][n].type,
               \/ Locked(calls[g][m])' /\ Locked(calls[h][n])'
               \/ Building(calls[g][m])' /\ Building(calls[h][n])'
        PROVE  g = h /\ m = n
    <2>1. /\ m \in Calls(g) /\ Kept(calls[g][m], calls'[g][m])
          /\ n \in Calls(h) /\ Kept(calls[h][n], calls'[h][n])
      BY <1>3 DEF Fresh
    <2>2. /\ calls[g][m].type = calls[h][n].type
          /\ \/ Locked(calls[g][m]) /\ Locked(calls[h][n])
             \/ Building(calls[g][m]) /\ Building(calls[h][n])
      BY <1>1, <1>3, <2>1
    <2> QED
      BY <2>1, <2>2 DEF Exclusive
  <1>4. Exclusive'
    BY <1>3 DEF Exclusive
  <1> QED
    BY <1>2, <1>4

\* No other call of the type holds the mutex of the entry, and none builds.
NoneLocks(g, k) ==
  \A h \in Goroutines : \A n \in Calls(h) :
    calls[h][n].type = calls[g][k].type /\ ~(h = g /\ n = k)
      => ~Locked(calls[h][n])

NoneBuilds(g, k) ==
  \A h \in Goroutines : \A n \in Calls(h) :
    calls[h][n].type = calls[g][k].type /\ ~(h = g /\ n = k)
      => ~Building(calls[h][n])

\* A call goes on, and changes the entry it has, or now gets, the mutex of.
LEMMA OwnerActs ==
  ASSUME TypeOK, CallsKnow, Exclusive, graph' = graph,
         registered' = registered,
         NEW g \in Goroutines, calls[g] # <<>>, NEW pc \in Steps, Goto(g, pc),
         done \subseteq done',
         \A u \in Types : u # Top(g) =>
           /\ mu'[u] = mu[u] /\ builds'[u] = builds[u]
           /\ instance'[u] = instance[u] /\ (u \in done' <=> u \in done),
         NoneLocks(g, Size(g)),
         Building(calls[g][Size(g)])' => NoneBuilds(g, Size(g)),
         Knows(g, calls[g][Size(g)])'
  PROVE  CallsKnow' /\ Exclusive'
  <1> DEFINE k == Size(g)
             t == Top(g)
  <1>k. \A u : Kind(u)' = Kind(u)
    BY DEF Kind
  <1>1. /\ OthersKeep(g) /\ Size(g)' = k
        /\ \A n \in Calls(g) : n < k => calls'[g][n] = calls[g][n]
        /\ calls'[g][k].type = calls[g][k].type
    BY GotoShape
  <1>2. k \in Nat /\ k > 0 /\ k \in Calls(g) /\ calls[g][k].type = t
    BY TopFacts
  <1>3. ASSUME NEW h \in Goroutines, NEW n \in Calls(h)', ~(h = g /\ n = k)
        PROVE  n \in Calls(h) /\ calls'[h][n] = calls[h][n]
    <2>1. CASE h # g
      BY <1>1, <2>1 DEF OthersKeep, Calls, Size
    <2>2. CASE h = g
      <3>1. n \in 1..k /\ Calls(g) = 1..k /\ n # k
        BY <1>1, <1>3, <2>2 DEF Calls
      <3> QED
        BY <1>1, <1>2, <2>2, <3>1
    <2> QED
      BY <2>1, <2>2
  <1>4. ASSUME NEW h \in Goroutines, NEW n \in Calls(h)', ~(h = g /\ n = k)
        PROVE  /\ Knows(h, calls[h][n])'
               /\ Locked(calls[h][n])' => Locked(calls[h][n])
               /\ Building(calls[h][n])' => Building(calls[h][n])
    <2> DEFINE c == calls[h][n]
    <2>1. n \in Calls(h) /\ c' = c
      BY <1>3, <1>4
    <2>2. Knows(h, c) /\ c.type \in Types /\ (c.type = t => ~Locked(c))
      BY <1>2, <1>4, <2>1, StackType DEF CallsKnow, Frame, NoneLocks
    <2> HIDE DEF c, t
    <2>3. Locked(c)' <=> Locked(c)
      BY <1>k, <2>1 DEF Locked
    <2>4. Building(c)' <=> Building(c)
      BY <1>k, <2>1 DEF Building
    <2>5. CASE c.type # t
      <3>1. /\ mu'[c.type] = mu[c.type] /\ builds'[c.type] = builds[c.type]
            /\ instance'[c.type] = instance[c.type]
            /\ c.type \in done' <=> c.type \in done
        BY <2>2, <2>5 DEF t
      <3>2. Knows(h, c)'
        BY <1>k, <2>1, <2>2, <2>3, <3>1 DEF Knows
      <3> QED
        BY <2>3, <2>4, <3>2 DEF c
    <2>6. CASE c.type = t
      <3>1. Kind(c.type) = "lazy" =>
              c.pc \notin {"factory", "failed", "store", "publish",
                          "unlockFirst", "unlock"}
        BY <2>2, <2>6 DEF Locked
      <3>2. Knows(h, c)'
        BY <1>k, <2>1, <2>2, <2>3, <2>6, <3>1 DEF Knows
      <3> QED
        BY <2>3, <2>4, <3>2 DEF c
    <2> QED
      BY <2>5, <2>6
  <1>5. CallsKnow'
    <2>1. Knows(g, calls[g][k])'
      BY <1>1
    <2> HIDE DEF k
    <2> SUFFICES ASSUME NEW h \in Goroutines, NEW n \in Calls(h)'
                 PROVE  Knows(h, calls[h][n])'
      BY DEF CallsKnow
    <2>2. CASE h = g /\ n = k
      BY <1>1, <2>1, <2>2 DEF k
    <2> QED
      BY <1>4, <2>2
  <1>6. ASSUME NEW h \in Goroutines, NEW n \in Calls(h)', ~(h = g /\ n = k),
               calls'[h][n].type = calls'[g][k].type
        PROVE  /\ ~Locked(calls[h][n])'
               /\ Building(calls[h][n])' => ~Building(calls[g][Size(g)])'
    <2>1. n \in Calls(h) /\ calls[h][n].type = calls[g][k].type
      BY <1>1, <1>3, <1>6
    <2>2. ~Locked(calls[h][n])
      BY <1>6, <2>1 DEF NoneLocks
    <2>3. Building(calls[h][n]) => ~Building(calls[g][Size(g)])'
      BY <1>6, <2>1 DEF NoneBuilds
    <2> QED
      BY <1>4, <1>6, <2>2, <2>3
  <1>7. Exclusive'
    <2> SUFFICES ASSUME NEW a \in Goroutines, NEW b \in Goroutines,
                        NEW m \in Calls(a)', NEW n \in Calls(b)',
                        calls'[a][m].type = calls'[b][n].type,
                        \/ Locked(calls[a][m])' /\ Locked(calls[b][n])'
                        \/ Building(calls[a][m])' /\ Building(calls[b][n])'
                 PROVE  a = b /\ m = n
      BY DEF Exclusive
    <2>1. CASE a = g /\ m = k
      <3>1. calls'[b][n].type = calls'[g][k].type
        BY <2>1
      <3>2. Building(calls[a][m])' => Building(calls[g][Size(g)])'
        BY <1>1, <2>1
      <3> QED
        BY <1>6, <2>1, <3>1, <3>2
    <2>2. CASE b = g /\ n = k
      <3>1. calls'[a][m].type = calls'[g][k].type
        BY <2>2
      <3>2. Building(calls[b][n])' => Building(calls[g][Size(g)])'
        BY <1>1, <2>2
      <3> QED
        BY <1>6, <2>2, <3>1, <3>2
    <2>3. CASE ~(a = g /\ m = k) /\ ~(b = g /\ n = k)
      <3>1. /\ m \in Calls(a) /\ calls'[a][m] = calls[a][m]
            /\ n \in Calls(b) /\ calls'[b][n] = calls[b][n]
        BY <1>3, <2>3
      <3>2. \/ Locked(calls[a][m]) /\ Locked(calls[b][n])
            \/ Building(calls[a][m]) /\ Building(calls[b][n])
        BY <1>4, <2>3
      <3> QED
        BY <3>1, <3>2 DEF Exclusive
    <2> QED
      BY <2>1, <2>2, <2>3
  <1> QED
    BY <1>5, <1>7

\* What no step takes back.
LEMMA Monotonic ==
  ASSUME TypeOK, [Next]_vars
  PROVE  /\ graph' = graph /\ \A t : Kind(t)' = Kind(t)
         /\ registered \subseteq registered' /\ Lazies \subseteq Lazies'
         /\ ~(\E t \in Types : Give(t)) => registered' = registered
  <1>1. graph' = graph /\ \A t : Kind(t)' = Kind(t)
    BY GraphFixed DEF Kind
  <1>2. ~(\E t \in Types : Give(t)) => registered' = registered
    BY DEF Next, Resolve, Lifecycle, Use, LookupEnds, PushResolving, Lock,
     NextDep, FactoryReturns, FactoryFails, Store, Publish, Unlock,
     AppendInitOrder, UseReturns, UseFails, Warmup, WarmupNext, WarmupCancelled,
     StartContainer, OnInit, OnInitFails, Started, Shutdown, OnShutdown,
     AllShutDown, Quiet, vars, resolveVars, appVars
  <1>3. registered \subseteq registered'
    BY <1>2 DEF Give
  <1>4. Lazies \subseteq Lazies'
    BY <1>1, <1>3 DEF Lazies
  <1> QED
    BY <1>1, <1>2, <1>3, <1>4

LEMMA WarmupStep ==
  ASSUME TypeOK, WarmupKnows, [Next]_vars
  PROVE  WarmupKnows'
  <1>1. Lazies \subseteq Lazies' /\ todo \in [Goroutines -> SUBSET Types]
    BY Monotonic DEF TypeOK
  <1>2. \/ todo' = todo
        \/ \E g \in Goroutines :
             \/ todo' = [todo EXCEPT ![g] = Lazies \ done]
             \/ \E t \in Types : todo' = [todo EXCEPT ![g] = @ \ {t}]
             \/ todo' = [todo EXCEPT ![g] = {}]
    BY DEF Next, Resolve, Lifecycle, Give, Use, LookupEnds, PushResolving, Lock,
     NextDep, FactoryReturns, FactoryFails, Store, Publish, Unlock,
     AppendInitOrder, UseReturns, UseFails, Warmup, WarmupNext, WarmupCancelled,
     StartContainer, OnInit, OnInitFails, Started, Shutdown, OnShutdown,
     AllShutDown, Quiet, vars, resolveVars
  <1>3. \A g \in Goroutines : todo'[g] \subseteq todo[g] \cup Lazies
    BY <1>1, <1>2
  <1> QED
    BY <1>1, <1>3 DEF WarmupKnows

\* The steps that build no lazy service and touch no mutex.
LEMMA KnowCarry ==
  ASSUME TypeOK, CallsKnow, Exclusive, StackShape, graph' = graph,
         registered \subseteq registered',
         \A t \in Types : Kind(t) = "lazy" =>
           /\ mu'[t] = mu[t] /\ builds'[t] = builds[t]
           /\ instance'[t] = instance[t] /\ (t \in done' <=> t \in done),
         NEW g \in Goroutines,
         \/ calls[g] # <<>> /\ \E ok : Return(g, ok)
         \/ /\ calls[g] # <<>>
            /\ \E pc \in Steps :
                 /\ Goto(g, pc)
                 /\ \/ Fresh(g, calls[g][Size(g)])'
                    \/ Kept(calls[g][Size(g)], calls'[g][Size(g)])
         \/ \E d \in Frame :
              /\ calls' = [calls EXCEPT ![g] = Append(calls[g], d)]
              /\ Fresh(g, d)'
         \/ \E d \in Frame :
              /\ calls[g] = <<>> /\ calls' = [calls EXCEPT ![g] = <<d>>]
              /\ Fresh(g, d)'
  PROVE  CallsKnow' /\ Exclusive'
  <1>s. \A c : Kept(c, c)
    BY DEF Kept
  <1>o. ASSUME OthersKeep(g),
               \A n \in Calls(g)' :
                 \/ n \in Calls(g) /\ Kept(calls[g][n], calls'[g][n])
                 \/ Fresh(g, calls[g][n])'
        PROVE  CallsKnow' /\ Exclusive'
    <2>1. ASSUME NEW h \in Goroutines, NEW n \in Calls(h)'
          PROVE  \/ n \in Calls(h) /\ Kept(calls[h][n], calls'[h][n])
                 \/ Fresh(h, calls[h][n])'
      <3>1. CASE h # g
        <4>1. calls'[h] = calls[h] /\ n \in Calls(h)
          BY <1>o, <2>1, <3>1 DEF OthersKeep, Calls, Size
        <4> QED
          BY <1>s, <4>1
      <3>2. CASE h = g
        BY <1>o, <2>1, <3>2
      <3> QED
        BY <3>1, <3>2
    <2> QED
      BY <2>1, CallsCarry
  <1>1. ASSUME calls[g] # <<>>, NEW ok, Return(g, ok)
        PROVE  CallsKnow' /\ Exclusive'
    <2> DEFINE k == Size(g)
    <2>1. /\ OthersKeep(g) /\ Size(g)' = k - 1
          /\ \A n \in Calls(g) : n < k - 1 => calls'[g][n] = calls[g][n]
          /\ k > 1 => /\ calls'[g][k - 1].type = calls[g][k - 1].type
                      /\ \/ calls'[g][k - 1].pc = calls[g][k - 1].pc
                         \/ calls'[g][k - 1].pc = "failed"
      BY <1>1, ReturnShape
    <2>2. /\ k \in Nat /\ k > 0 /\ Calls(g) = 1..k /\ Calls(g)' = 1..(k - 1)
          /\ StackOf(g)
      BY <1>1, <2>1, TopFacts DEF Calls, StackShape
    <2>3. k > 1 => calls[g][k - 1].pc = "factory"
      BY <2>2 DEF StackOf
    <2> HIDE DEF k
    <2>4. k > 1 => Kept(calls[g][k - 1], calls'[g][k - 1])
      BY <2>1, <2>3 DEF Kept
    <2>5. ASSUME NEW n \in 1..(k - 1)
          PROVE  n \in Calls(g) /\ Kept(calls[g][n], calls'[g][n])
      <3>1. n \in 1..k /\ k > 1 /\ (n < k - 1 \/ n = k - 1)
        BY <2>2, <2>5
      <3>2. CASE n < k - 1
        BY <1>s, <2>1, <2>2, <3>1, <3>2
      <3>3. CASE n = k - 1
        BY <2>2, <2>4, <3>1, <3>3
      <3> QED
        BY <3>1, <3>2, <3>3
    <2> QED
      BY <1>o, <2>1, <2>2, <2>5
  <1>2. ASSUME calls[g] # <<>>, NEW pc \in Steps, Goto(g, pc),
               \/ Fresh(g, calls[g][Size(g)])'
               \/ Kept(calls[g][Size(g)], calls'[g][Size(g)])
        PROVE  CallsKnow' /\ Exclusive'
    <2> DEFINE k == Size(g)
    <2>1. /\ OthersKeep(g) /\ Size(g)' = k
          /\ \A n \in Calls(g) : n < k => calls'[g][n] = calls[g][n]
      BY <1>2, GotoShape
    <2>2. k \in Nat /\ k > 0 /\ Calls(g) = 1..k /\ Calls(g)' = 1..k
      BY <1>2, <2>1, TopFacts DEF Calls
    <2>3. \/ Fresh(g, calls[g][k])'
          \/ Kept(calls[g][k], calls'[g][k])
      BY <1>2, <2>1
    <2>4. ASSUME NEW n \in 1..k
          PROVE  \/ n \in Calls(g) /\ Kept(calls[g][n], calls'[g][n])
                 \/ Fresh(g, calls[g][n])'
      <3>1. CASE n = k
        <4>1. Fresh(g, calls[g][k])' => Fresh(g, calls[g][n])'
          BY <2>1, <3>1
        <4> QED
          BY <2>2, <2>3, <3>1, <4>1
      <3>2. CASE n < k
        BY <1>s, <2>1, <2>2, <2>4, <3>2
      <3> QED
        BY <2>2, <2>4, <3>1, <3>2
    <2> QED
      BY <1>o, <2>1, <2>2, <2>4
  <1>3. ASSUME NEW d \in Frame, Fresh(g, d)',
               calls' = [calls EXCEPT ![g] = Append(calls[g], d)]
        PROVE  CallsKnow' /\ Exclusive'
    <2> DEFINE k == Size(g)
    <2>1. /\ OthersKeep(g) /\ Size(g)' = k + 1 /\ calls'[g][k + 1] = d
          /\ \A n \in Calls(g) : calls'[g][n] = calls[g][n]
      BY <1>3, PushShape
    <2>2. k \in Nat /\ Calls(g) = 1..k /\ Calls(g)' = 1..(k + 1)
      BY <2>1, StackType DEF Calls
    <2> HIDE DEF k
    <2>3. ASSUME NEW n \in 1..(k + 1)
          PROVE  \/ n \in Calls(g) /\ Kept(calls[g][n], calls'[g][n])
                 \/ Fresh(g, calls[g][n])'
      <3>1. CASE n = k + 1
        <4>1. calls'[g][n] = d
          BY <2>1, <3>1
        <4> QED
          BY <1>3, <4>1 DEF Fresh, Locked, Building, Knows
      <3>2. CASE n \in 1..k
        BY <1>s, <2>1, <2>2, <3>2
      <3> QED
        BY <2>2, <2>3, <3>1, <3>2
    <2> QED
      BY <1>o, <2>1, <2>2, <2>3
  <1>4. ASSUME NEW d \in Frame, Fresh(g, d)', calls[g] = <<>>,
               calls' = [calls EXCEPT ![g] = <<d>>]
        PROVE  CallsKnow' /\ Exclusive'
    <2>1. OthersKeep(g) /\ Size(g)' = 1 /\ calls'[g][1] = d
      BY <1>4, BeginShape
    <2>2. Calls(g)' = 1..1
      BY <2>1 DEF Calls
    <2>3. ASSUME NEW n \in 1..1 PROVE Fresh(g, calls[g][n])'
      <3>1. n = 1 /\ calls'[g][n] = d
        BY <2>1
      <3> QED
        BY <1>4, <3>1 DEF Fresh, Locked, Building, Knows
    <2> QED
      BY <1>o, <2>1, <2>2, <2>3
  <1> QED
    BY <1>1, <1>2, <1>3, <1>4

\* The innermost call, with what it knows.
LEMMA TopKnows ==
  ASSUME TypeOK, CallsKnow, NEW g \in Goroutines, NEW pc, InCall(g, pc)
  PROVE  /\ calls[g] # <<>> /\ Size(g) \in Calls(g)
         /\ Last(calls[g]) = calls[g][Size(g)]
         /\ calls[g][Size(g)].pc = pc
         /\ calls[g][Size(g)].type = Top(g) /\ Top(g) \in Types
         /\ Knows(g, calls[g][Size(g)])
  <1>1. calls[g] # <<>> /\ Last(calls[g]).pc = pc
    BY DEF InCall
  <1> QED
    BY <1>1, TopFacts DEF CallsKnow

LEMMA HolderAlone ==
  ASSUME Exclusive, NEW g \in Goroutines, NEW k \in Calls(g)
  PROVE  /\ Locked(calls[g][k]) => NoneLocks(g, k)
         /\ Building(calls[g][k]) => NoneBuilds(g, k)
  BY DEF Exclusive, NoneLocks, NoneBuilds

\* A call that goes on.
LEMMA WentOn ==
  ASSUME TypeOK, NEW g \in Goroutines, calls[g] # <<>>, NEW pc \in Steps,
         Goto(g, pc)
  PROVE  /\ Size(g)' = Size(g)
         /\ calls'[g][Size(g)'].pc = pc /\ calls'[g][Size(g)'].type = Top(g)
  BY GotoShape, TopFacts

LEMMA ResolveKnows ==
  ASSUME TypeOK, StackShape, CallsKnow, Exclusive, BuiltOnce,
         graph' = graph, NEW g \in Goroutines, Resolve(g)
  PROVE  CallsKnow' /\ Exclusive'
  <1> DEFINE t == Top(g)
             c == calls[g][Size(g)]
             LazyKept == \A u \in Types : Kind(u) = "lazy" =>
               /\ mu'[u] = mu[u] /\ builds'[u] = builds[u]
               /\ instance'[u] = instance[u] /\ (u \in done' <=> u \in done)
             RestKept == \A u \in Types : u # t =>
               /\ mu'[u] = mu[u] /\ builds'[u] = builds[u]
               /\ instance'[u] = instance[u] /\ (u \in done' <=> u \in done)
  <1>k. \A u : Kind(u)' = Kind(u)
    BY DEF Kind
  <1>r. registered' = registered /\ registered \subseteq registered'
    BY ResolveTyped
  <1>t. /\ mu \in [Types -> SUBSET Goroutines]
        /\ instance \in [Types -> Nat] /\ builds \in [Types -> Nat]
        /\ done \subseteq Types
    BY DEF TypeOK, Lazies
  <1>u. ASSUME UNCHANGED lazyVars PROVE LazyKept
    BY <1>u DEF lazyVars
  <1>1. ASSUME NEW ok, calls[g] # <<>>, Return(g, ok), LazyKept
        PROVE  CallsKnow' /\ Exclusive'
    BY <1>r, <1>1, KnowCarry
  \* A call with nothing at stake goes on to pc.
  <1>2. ASSUME NEW pc \in Steps, calls[g] # <<>>, Goto(g, pc), LazyKept,
               t \in registered, Kind(t) # "singleton",
               \/ Kind(t) # "lazy" /\ pc \in {"factory", "failed", "return"}
               \/ Kind(t) = "lazy" /\ pc = "lock"
               \/ Kind(t) = "lazy" /\ pc = "return" /\ t \in done
        PROVE  CallsKnow' /\ Exclusive'
    <2>1. c'.pc = pc /\ c'.type = t
      BY <1>2, WentOn
    <2>2. t \in Types
      BY <1>2, TopFacts
    <2> HIDE DEF c, t
    <2>3. ~Locked(c)' /\ ~Building(c)'
      BY <1>k, <1>2, <2>1 DEF Locked, Building
    <2>4. Knows(g, c)'
      BY <1>k, <1>r, <1>2, <2>1, <2>2, <2>3 DEF Knows
    <2>5. Fresh(g, calls[g][Size(g)])'
      BY <2>3, <2>4 DEF Fresh, c
    <2> QED
      BY <1>r, <1>2, <2>5, KnowCarry
  <1>3. CASE LookupEnds(g)
    BY <1>u, <1>1, <1>3 DEF LookupEnds, InCall
  <1>4. CASE PushResolving(g)
    <2>1. CASE OnStack(g, Top(g))
      BY <1>u, <1>1, <1>4, <2>1 DEF PushResolving, InCall
    <2>2. CASE ~OnStack(g, Top(g))
      <3>1. PICK pc \in {"lock", "factory"} :
              Goto(g, pc) /\ (pc = "lock" <=> Kind(t) = "lazy")
        BY <1>4, <2>2 DEF PushResolving
      <3> QED
        BY <1>u, <1>2, <1>4, <3>1 DEF PushResolving, InCall, Steps
    <2> QED
      BY <2>1, <2>2
  <1>5. CASE NextDep(g)
    <2>1. PICK d \in Frame :
            /\ calls' = [calls EXCEPT ![g] = Append(calls[g], d)]
            /\ d.pc = "lookup"
      BY <1>5, NextDepPush
    <2>2. Fresh(g, d)'
      BY <2>1 DEF Fresh, Locked, Building, Knows
    <2>3. LazyKept
      BY <1>u, <1>5 DEF NextDep
    <2> QED
      BY <1>r, <2>1, <2>2, <2>3, KnowCarry
  <1>6. CASE FactoryFails(g)
    <2>1. /\ InCall(g, "factory") /\ Goto(g, "failed") /\ LazyKept
          /\ calls[g] # <<>> /\ "failed" \in Steps
      BY <1>u, <1>6 DEF FactoryFails, InCall, Steps
    <2>2. c.pc = "factory" /\ c.type = t
      BY <2>1, TopKnows
    <2>3. c'.pc = "failed" /\ c'.type = t /\ Size(g)' = Size(g)
      BY <2>1, WentOn
    <2>4. Kept(calls[g][Size(g)], calls'[g][Size(g)])
      BY <2>2, <2>3 DEF Kept
    <2> QED
      BY <1>r, <2>1, <2>4, KnowCarry
  <1>7. CASE AppendInitOrder(g)
    <2>1. InCall(g, "append") /\ Goto(g, "return") /\ LazyKept
          /\ calls[g] # <<>>
      BY <1>u, <1>7 DEF AppendInitOrder, InCall
    <2>2. t \in registered /\ Kind(t) = "lazy" /\ t \in done
      BY <2>1, TopKnows DEF Knows
    <2> QED
      BY <1>2, <2>1, <2>2 DEF Steps
  <1>8. CASE UseReturns(g) \/ UseFails(g)
    BY <1>u, <1>1, <1>8 DEF UseReturns, UseFails, InCall
  <1>9. CASE FactoryReturns(g) /\ Kind(t) # "lazy"
    <2>1. /\ InCall(g, "factory") /\ Goto(g, "return") /\ calls[g] # <<>>
          /\ Last(calls[g]).type = t
      BY <1>9 DEF FactoryReturns, InCall, Top
    <2>2. LazyKept
      BY <1>t, <1>9, <2>1 DEF FactoryReturns
    <2>3. t \in registered /\ Kind(t) # "singleton"
      BY <2>1, TopKnows DEF Knows
    <2> QED
      BY <1>2, <1>9, <2>1, <2>2, <2>3 DEF Steps
  \* The holder of the mutex, or the one that gets it, goes on to pc.
  <1>10. ASSUME NEW pc \in Steps, calls[g] # <<>>, Goto(g, pc), RestKept,
                done \subseteq done', NoneLocks(g, Size(g)),
                pc \in {"factory", "store", "publish", "unlockFirst", "append"}
                  => NoneBuilds(g, Size(g)),
                pc \in {"factory", "store", "publish", "unlockFirst", "unlock",
                        "append", "return", "error"},
                t \in registered, Kind(t) = "lazy",
                pc \in {"factory", "store", "publish", "unlockFirst", "unlock"}
                  => mu'[t] = {g},
                pc = "factory" => t \notin done' /\ builds'[t] = 0,
                pc \in {"store", "publish"} =>
                  t \notin done' /\ builds'[t] = 1,
                pc = "publish" => instance'[t] = 1,
                pc \in {"unlockFirst", "unlock", "append", "return"} =>
                  t \in done'
         PROVE  CallsKnow' /\ Exclusive'
    <2>1. c'.pc = pc /\ c'.type = t
      BY <1>10, WentOn
    <2> HIDE DEF c, t
    <2>2. Building(c)' => NoneBuilds(g, Size(g))
      BY <1>k, <1>10, <2>1 DEF Building
    <2>3. Locked(c)' => mu'[t] = {g}
      BY <1>k, <1>10, <2>1 DEF Locked
    <2>4. Knows(g, c)'
      BY <1>k, <1>r, <1>10, <2>1, <2>3 DEF Knows
    <2> QED
      BY <1>r, <1>10, <2>2, <2>4, OwnerActs DEF c, t
  <1>11. CASE Lock(g)
    <2>1. /\ InCall(g, "lock") /\ calls[g] # <<>> /\ mu[t] = {}
          /\ mu' = [mu EXCEPT ![t] = {g}]
          /\ UNCHANGED <<instance, done, builds>>
      BY <1>11 DEF Lock, InCall
    <2>2. t \in registered /\ Kind(t) = "lazy" /\ t \in Types /\ c.type = t
      BY <2>1, TopKnows DEF Knows
    <2> HIDE DEF t
    <2>3. RestKept /\ mu'[t] = {g}
      BY <1>t, <2>1, <2>2
    <2>4. NoneLocks(g, Size(g))
      BY <2>1, <2>2 DEF NoneLocks, CallsKnow, Knows
    <2>5. CASE t \in done
      <3>1. Goto(g, "unlock")
        BY <1>11, <2>5 DEF Lock, Resolved, t
      <3> QED
        BY <1>10, <2>1, <2>2, <2>3, <2>4, <2>5, <3>1 DEF Steps
    <2>6. CASE t \notin done
      <3>1. Goto(g, "factory")
        BY <1>11, <2>6 DEF Lock, Resolved, t
      <3>2. builds[t] = 0
        BY <2>1, <2>2, <2>6 DEF BuiltOnce
      <3>3. NoneBuilds(g, Size(g))
        <4> SUFFICES ASSUME NEW h \in Goroutines, NEW n \in Calls(h),
                            calls[h][n].type = t, ~(h = g /\ n = Size(g)),
                            Building(calls[h][n])
                     PROVE  FALSE
          BY <2>2 DEF NoneBuilds
        <4>1. ~Locked(calls[h][n])
          BY <2>2, <2>4 DEF NoneLocks
        <4>2. calls[h][n].pc = "append"
          BY <4>1 DEF Locked, Building
        <4> QED
          BY <2>2, <2>6, <4>2 DEF CallsKnow, Knows
      <3> QED
        BY <1>10, <2>1, <2>2, <2>3, <2>4, <2>6, <3>1, <3>2, <3>3 DEF Steps
    <2> QED
      BY <2>5, <2>6
  \* The call that has the mutex.
  <1>12. ASSUME NEW p, InCall(g, p), Kind(t) = "lazy",
                p \in {"factory", "failed", "store", "publish", "unlockFirst",
                       "unlock"}
         PROVE  /\ calls[g] # <<>> /\ t \in registered /\ t \in Types
                /\ mu[t] = {g} /\ NoneLocks(g, Size(g))
                /\ p # "unlock" => NoneBuilds(g, Size(g))
                /\ p \in {"factory", "failed"} => t \notin done /\ builds[t] = 0
                /\ p \in {"store", "publish"} => t \notin done /\ builds[t] = 1
                /\ p = "publish" => instance[t] = 1
                /\ p \in {"unlockFirst", "unlock"} => t \in done
    <2>1. /\ calls[g] # <<>> /\ Size(g) \in Calls(g) /\ c.pc = p
          /\ c.type = t /\ t \in Types /\ Knows(g, c)
      BY <1>12, TopKnows
    <2>2. Locked(c) /\ (p # "unlock" => Building(c))
      BY <1>12, <2>1 DEF Locked, Building
    <2>3. NoneLocks(g, Size(g)) /\ (p # "unlock" => NoneBuilds(g, Size(g)))
      BY <2>1, <2>2, HolderAlone
    <2> QED
      BY <1>12, <2>1, <2>2, <2>3 DEF Knows
  <1>13. CASE FactoryReturns(g) /\ Kind(t) = "lazy"
    <2>1. /\ InCall(g, "factory") /\ Goto(g, "store")
          /\ builds' = [builds EXCEPT ![t] = builds[t] + 1]
          /\ UNCHANGED <<mu, instance, done>>
      BY <1>13 DEF FactoryReturns, Top
    <2>2. /\ calls[g] # <<>> /\ t \in registered /\ t \in Types
          /\ mu[t] = {g} /\ NoneLocks(g, Size(g)) /\ NoneBuilds(g, Size(g))
          /\ t \notin done /\ builds[t] = 0
      BY <1>12, <1>13, <2>1
    <2> HIDE DEF t
    <2>3. RestKept /\ builds'[t] = 1
      BY <1>t, <2>1, <2>2
    <2> QED
      BY <1>10, <1>13, <2>1, <2>2, <2>3 DEF Steps
  <1>14. CASE Store(g)
    <2>1. /\ InCall(g, "store") /\ Goto(g, "publish")
          /\ instance' = [instance EXCEPT ![t] = builds[t]]
          /\ UNCHANGED <<mu, builds, done>>
      BY <1>14 DEF Store
    <2>2. Kind(t) = "lazy"
      BY <2>1, TopKnows DEF Knows
    <2>3. /\ calls[g] # <<>> /\ t \in registered /\ t \in Types
          /\ mu[t] = {g} /\ NoneLocks(g, Size(g)) /\ NoneBuilds(g, Size(g))
          /\ t \notin done /\ builds[t] = 1
      BY <1>12, <2>1, <2>2
    <2> HIDE DEF t
    <2>4. RestKept /\ instance'[t] = 1
      BY <1>t, <2>1, <2>3
    <2> QED
      BY <1>10, <2>1, <2>2, <2>3, <2>4 DEF Steps
  <1>15. CASE Publish(g)
    <2>1. /\ InCall(g, "publish") /\ Goto(g, "unlockFirst")
          /\ done' = done \cup {t}
          /\ UNCHANGED <<mu, builds, instance>>
      BY <1>15 DEF Publish
    <2>2. Kind(t) = "lazy"
      BY <2>1, TopKnows DEF Knows
    <2>3. /\ calls[g] # <<>> /\ t \in registered /\ t \in Types
          /\ mu[t] = {g} /\ NoneLocks(g, Size(g)) /\ NoneBuilds(g, Size(g))
      BY <1>12, <2>1, <2>2
    <2> HIDE DEF t
    <2>4. RestKept
      BY <2>1
    <2> QED
      BY <1>10, <2>1, <2>2, <2>3, <2>4 DEF Steps
  <1>16. CASE Unlock(g)
    <2>1. mu' = [mu EXCEPT ![t] = {}] /\ UNCHANGED <<instance, done, builds>>
      BY <1>16 DEF Unlock
    <2>2. PICK p \in {"unlockFirst", "unlock", "failed"} :
            /\ InCall(g, p) /\ (p = "failed" => Kind(t) = "lazy")
            /\ p = "unlockFirst" => Goto(g, "append")
            /\ p = "unlock" => Goto(g, "return")
            /\ p = "failed" => Goto(g, "error")
      BY <1>16 DEF Unlock
    <2>3. Kind(t) = "lazy"
      BY <2>2, TopKnows DEF Knows
    <2>4. /\ calls[g] # <<>> /\ t \in registered /\ t \in Types
          /\ NoneLocks(g, Size(g))
          /\ p # "unlock" => NoneBuilds(g, Size(g))
          /\ p \in {"unlockFirst", "unlock"} => t \in done
      BY <1>12, <2>2, <2>3
    <2> HIDE DEF t
    <2>5. RestKept
      BY <1>t, <2>1, <2>4
    <2>6. CASE p = "unlockFirst"
      BY <1>10, <2>1, <2>2, <2>3, <2>4, <2>5, <2>6 DEF Steps
    <2>7. CASE p = "unlock"
      BY <1>10, <2>1, <2>2, <2>3, <2>4, <2>5, <2>7 DEF Steps
    <2>8. CASE p = "failed"
      BY <1>10, <2>1, <2>2, <2>3, <2>4, <2>5, <2>8 DEF Steps
    <2> QED
      BY <2>2, <2>6, <2>7, <2>8
  <1> QED
    BY <1>3, <1>4, <1>5, <1>6, <1>7, <1>8, <1>9, <1>11, <1>13, <1>14, <1>15,
       <1>16 DEF Resolve

LEMMA KnowStep ==
  ASSUME TypeOK, StackShape, WarmupKnows, CallsKnow, Exclusive, BuiltOnce,
         [Next]_vars
  PROVE  CallsKnow' /\ Exclusive'
  <1>m. /\ graph' = graph /\ registered \subseteq registered'
        /\ Lazies \subseteq Lazies' /\ \A t : Kind(t)' = Kind(t)
    BY Monotonic
  <1>u. ASSUME UNCHANGED lazyVars
        PROVE  \A t \in Types : Kind(t) = "lazy" =>
                 /\ mu'[t] = mu[t] /\ builds'[t] = builds[t]
                 /\ instance'[t] = instance[t] /\ (t \in done' <=> t \in done)
    BY <1>u DEF lazyVars
  <1>1. ASSUME Elsewhere PROVE CallsKnow' /\ Exclusive'
    <2>1. UNCHANGED lazyVars
      BY <1>1 DEF Elsewhere, Give, Warmup, WarmupCancelled, StartContainer,
         Lifecycle, OnInit, OnInitFails, Started, Shutdown, OnShutdown,
         AllShutDown, Quiet, vars, resolveVars, lazyVars
    <2>2. calls' = calls
      BY <1>1, CallsKept
    <2>3. \A h \in Goroutines : \A n \in Calls(h)' :
            n \in Calls(h) /\ Kept(calls[h][n], calls'[h][n])
      BY <2>2 DEF Calls, Size, Kept
    <2> QED
      BY <1>m, <1>u, <2>1, <2>3, CallsCarry
  <1>2. ASSUME NEW g \in Goroutines, NEW t \in Types, Use(g, t)
        PROVE  CallsKnow' /\ Exclusive'
    <2>1. PICK d \in Frame :
            /\ calls' = [calls EXCEPT ![g] = <<d>>] /\ d.pc = "lookup"
      BY <1>2, CallType DEF Use, Steps, Call
    <2>2. Fresh(g, d)'
      BY <2>1 DEF Fresh, Locked, Building, Knows
    <2>3. calls[g] = <<>> /\ UNCHANGED lazyVars
      BY <1>2 DEF Use, Idle
    <2> QED
      BY <1>m, <1>u, <2>1, <2>2, <2>3, KnowCarry
  <1>3. ASSUME NEW g \in Goroutines, NEW t \in Types, WarmupNext(g, t)
        PROVE  CallsKnow' /\ Exclusive'
    <2>1. PICK d \in Frame :
            /\ calls' = [calls EXCEPT ![g] = <<d>>]
            /\ d.pc = "lock" /\ d.type = t
      BY <1>3, CallType DEF WarmupNext, Steps, Call
    <2>2. t \in registered' /\ Kind(t)' = "lazy"
      BY <1>m, <1>3 DEF WarmupNext, WarmupKnows, Lazies
    <2>3. Fresh(g, d)'
      BY <2>1, <2>2 DEF Fresh, Locked, Building, Knows
    <2>4. calls[g] = <<>> /\ UNCHANGED lazyVars
      BY <1>3 DEF WarmupNext
    <2> QED
      BY <1>m, <1>u, <2>1, <2>3, <2>4, KnowCarry
  <1> QED
    BY <1>m, <1>1, <1>2, <1>3, ResolveKnows, NextCases

\* One instance of each lazy service.
LEMMA BuiltStep ==
  ASSUME TypeOK, CallsKnow, Exclusive, BuiltOnce, [Next]_vars
  PROVE  BuiltOnce'
  <1> DEFINE Built(u) ==
        /\ builds[u] <= 1 /\ seen[u] \subseteq {1}
        /\ u \in done => builds[u] = 1 /\ instance[u] = 1
        /\ u \notin done /\ mu[u] = {} => builds[u] = 0
  <1>k. \A u : Kind(u)' = Kind(u)
    BY Monotonic
  <1>t. /\ mu \in [Types -> SUBSET Goroutines]
        /\ instance \in [Types -> Nat] /\ builds \in [Types -> Nat]
        /\ seen \in [Types -> SUBSET Nat] /\ done \subseteq Lazies
    BY DEF TypeOK
  <1>b. ASSUME NEW u \in Types, Kind(u) = "lazy" PROVE Built(u)
    BY <1>b DEF BuiltOnce
  <1>0. ASSUME UNCHANGED lazyVars, UNCHANGED seen PROVE BuiltOnce'
    BY <1>k, <1>0 DEF BuiltOnce, lazyVars
  <1>s. ASSUME UNCHANGED lazyVars, NEW t \in done,
               seen' = [seen EXCEPT ![t] = @ \cup {instance[t]}]
        PROVE  BuiltOnce'
    <2>1. t \in Types /\ Kind(t) = "lazy"
      BY <1>t, <1>s DEF Lazies, TypeOK
    <2>2. instance[t] = 1
      BY <1>b, <2>1
    <2>3. \A u \in Types : Kind(u) = "lazy" => seen'[u] \subseteq {1}
      BY <1>b, <1>t, <1>s, <2>2
    <2> QED
      BY <1>k, <1>s, <2>3 DEF BuiltOnce, lazyVars
  <1>1. ASSUME NEW g \in Goroutines, Resolve(g) PROVE BuiltOnce'
    <2>t. PICK t \in Types : t = Top(g)
      BY <1>1, InSomeCall, TopFacts
    <2> DEFINE RestKept == \A u \in Types : u # t =>
                 /\ mu'[u] = mu[u] /\ builds'[u] = builds[u]
                 /\ instance'[u] = instance[u] /\ (u \in done' <=> u \in done)
    \* Only the entry of t changes.
    <2>r. ASSUME RestKept, UNCHANGED seen, Kind(t) = "lazy" => Built(t)'
          PROVE  BuiltOnce'
      <3>1. ASSUME NEW u \in Types, Kind(u) = "lazy", u # t PROVE Built(u)'
        BY <1>b, <2>r, <3>1
      <3>2. \A u \in Types : Kind(u) = "lazy" => Built(u)'
        BY <2>r, <3>1
      <3> QED
        BY <1>k, <3>2 DEF BuiltOnce
    <2>1. CASE LookupEnds(g)
      <3>1. UNCHANGED lazyVars
        BY <2>t, <2>1 DEF LookupEnds
      <3>2. CASE t \in done
        <4>1. seen' = [seen EXCEPT ![t] = @ \cup {instance[t]}]
          BY <2>t, <2>1, <3>2 DEF LookupEnds
        <4> QED
          BY <1>s, <3>1, <3>2, <4>1
      <3>3. CASE t \notin done
        BY <1>0, <2>t, <2>1, <3>1, <3>3 DEF LookupEnds
      <3> QED
        BY <3>2, <3>3
    <2>2. CASE UseReturns(g)
      <3>1. UNCHANGED lazyVars /\ (Kind(t) = "lazy" => t \in done)
        BY <2>t, <2>2, TopKnows DEF UseReturns, Knows
      <3>2. CASE Kind(t) = "lazy"
        <4>1. seen' = [seen EXCEPT ![t] = @ \cup {instance[t]}]
          BY <2>t, <2>2, <3>2 DEF UseReturns
        <4> QED
          BY <1>s, <3>1, <3>2, <4>1
      <3>3. CASE Kind(t) # "lazy"
        BY <1>0, <2>t, <2>2, <3>1, <3>3 DEF UseReturns
      <3> QED
        BY <3>2, <3>3
    <2>3. CASE PushResolving(g) \/ NextDep(g) \/ FactoryFails(g)
               \/ AppendInitOrder(g) \/ UseFails(g)
      BY <1>0, <2>3 DEF PushResolving, NextDep, FactoryFails, AppendInitOrder,
         UseFails, hist
    <2>4. CASE Lock(g)
      <3>1. /\ InCall(g, "lock") /\ mu' = [mu EXCEPT ![t] = {g}]
            /\ UNCHANGED <<instance, done, builds, seen>>
        BY <2>t, <2>4 DEF Lock, hist
      <3>2. t \in Types
        BY <2>t, <3>1, TopKnows
      <3>3. RestKept
        BY <1>t, <3>1, <3>2
      <3>4. Kind(t) = "lazy" => Built(t)'
        BY <1>b, <1>t, <3>1, <3>2
      <3> QED
        BY <2>r, <3>1, <3>3, <3>4
    <2>5. CASE FactoryReturns(g)
      <3>1. /\ InCall(g, "factory")
            /\ builds' = [builds EXCEPT ![t] = builds[t] + 1]
            /\ UNCHANGED <<instance, done, mu, seen>>
        BY <2>t, <2>5 DEF FactoryReturns, hist, Top
      <3>2. t \in Types /\ Knows(g, calls[g][Size(g)])
            /\ calls[g][Size(g)].type = t /\ calls[g][Size(g)].pc = "factory"
        BY <2>t, <3>1, TopKnows
      <3>3. Kind(t) = "lazy" => t \notin done /\ builds[t] = 0 /\ mu[t] = {g}
        BY <3>2 DEF Knows, Locked
      <3>4. RestKept
        BY <1>t, <3>1, <3>2
      <3>5. Kind(t) = "lazy" => Built(t)'
        BY <1>b, <1>t, <3>1, <3>2, <3>3
      <3> QED
        BY <2>r, <3>1, <3>4, <3>5
    <2>6. CASE Store(g)
      <3>1. /\ InCall(g, "store")
            /\ instance' = [instance EXCEPT ![t] = builds[t]]
            /\ UNCHANGED <<builds, done, mu, seen>>
        BY <2>t, <2>6 DEF Store, hist
      <3>2. t \in Types /\ Kind(t) = "lazy" /\ t \notin done
        BY <2>t, <3>1, TopKnows DEF Knows
      <3>3. RestKept
        BY <1>t, <3>1, <3>2
      <3>4. Kind(t) = "lazy" => Built(t)'
        BY <1>b, <1>t, <3>1, <3>2
      <3> QED
        BY <2>r, <3>1, <3>3, <3>4
    <2>7. CASE Publish(g)
      <3>1. /\ InCall(g, "publish") /\ done' = done \cup {t}
            /\ UNCHANGED <<builds, instance, mu, seen>>
        BY <2>t, <2>7 DEF Publish, hist
      <3>2. t \in Types /\ Kind(t) = "lazy" /\ builds[t] = 1 /\ instance[t] = 1
        BY <2>t, <3>1, TopKnows DEF Knows
      <3>3. RestKept
        BY <1>t, <3>1, <3>2
      <3>4. Kind(t) = "lazy" => Built(t)'
        BY <1>b, <1>t, <3>1, <3>2
      <3> QED
        BY <2>r, <3>1, <3>3, <3>4
    <2>8. CASE Unlock(g)
      <3>1. /\ mu' = [mu EXCEPT ![t] = {}]
            /\ UNCHANGED <<builds, instance, done, seen>>
            /\ \E p \in {"unlockFirst", "unlock", "failed"} : InCall(g, p)
        BY <2>t, <2>8 DEF Unlock, hist
      <3>2. /\ t \in Types
            /\ Kind(t) = "lazy" => t \in done \/ builds[t] = 0
        BY <2>t, <3>1, TopKnows DEF Knows
      <3>3. RestKept
        BY <1>t, <3>1, <3>2
      <3>4. Kind(t) = "lazy" => Built(t)'
        BY <1>b, <1>t, <3>1, <3>2
      <3> QED
        BY <2>r, <3>1, <3>3, <3>4
    <2> QED
      BY <1>1, <2>1, <2>2, <2>3, <2>4, <2>5, <2>6, <2>7, <2>8 DEF Resolve
  <1>2. ASSUME \/ Elsewhere
               \/ \E g \in Goroutines : \E t \in Types :
                    Use(g, t) \/ WarmupNext(g, t)
        PROVE  UNCHANGED lazyVars /\ UNCHANGED seen
    BY <1>2 DEF Elsewhere, Use, WarmupNext, Give, Warmup, WarmupCancelled,
       StartContainer, Lifecycle, OnInit, OnInitFails, Started, Shutdown,
       OnShutdown, AllShutDown, Quiet, vars, resolveVars, lazyVars, hist
  <1> QED
    BY <1>0, <1>1, <1>2, NextCases

-----------------------------------------------------------------------------
(* initOrder. *)

LEMMA AppendOrder ==
  ASSUME NEW S, NEW s \in Seq(S), NEW t \in S, t \notin ToSet(s),
         IsInjective(s)
  PROVE  /\ IsInjective(Append(s, t))
         /\ ToSet(Append(s, t)) = ToSet(s) \cup {t}
  <1> DEFINE r == Append(s, t)
             k == Len(s)
  <1>1. /\ DOMAIN r = 1..(k + 1) /\ DOMAIN s = 1..k /\ k \in Nat
        /\ \A n \in 1..k : r[n] = s[n]
        /\ r[k + 1] = t
    BY AppendProperties, LenProperties
  <1>2. \A n \in 1..k : s[n] # t
    BY <1>1 DEF ToSet
  <1> HIDE DEF r, k
  <1>3. ASSUME NEW m \in 1..(k + 1), NEW n \in 1..(k + 1), r[m] = r[n]
        PROVE  m = n
    BY <1>1, <1>2, <1>3 DEF IsInjective
  <1>4. IsInjective(r)
    BY <1>1, <1>3 DEF IsInjective
  <1>5. 1..(k + 1) = 1..k \cup {k + 1}
    BY <1>1
  <1>6. ToSet(r) = ToSet(s) \cup {t}
    BY <1>1, <1>5 DEF ToSet
  <1> QED
    BY <1>4, <1>6 DEF r

LEMMA OrderStep ==
  ASSUME TypeOK, StackShape, CallsKnow, Exclusive, OrderKept, [Next]_vars
  PROVE  OrderKept'
  <1>k. \A u : Kind(u)' = Kind(u)
    BY Monotonic
  <1>t. initOrder \in Seq(Types) /\ done \subseteq Lazies
    BY DEF TypeOK
  <1>0. ASSUME NEW g \in Goroutines, OthersKeep(g),
               \A u : InTransit(g, u)' <=> InTransit(g, u)
        PROVE  \A u : OnTheWay(u)' <=> OnTheWay(u)
    <2>1. ASSUME NEW u, NEW h \in Goroutines
          PROVE  InTransit(h, u)' <=> InTransit(h, u)
      BY <1>0 DEF OthersKeep, InTransit, Size
    <2> QED
      BY <2>1 DEF OnTheWay
  <1>w. ASSUME \A u : OnTheWay(u)' <=> OnTheWay(u),
               UNCHANGED <<registered, done, initOrder>>
        PROVE  OrderKept'
    BY <1>k, <1>w DEF OrderKept
  <1>1. ASSUME Elsewhere PROVE OrderKept'
    <2>1. calls' = calls
      BY <1>1, CallsKept
    <2>2. \A u : OnTheWay(u)' <=> OnTheWay(u)
      BY <2>1 DEF OnTheWay, InTransit, Size
    <2>3. CASE \E t \in Types : Give(t)
      <3>1. PICK t \in Types : Give(t)
        BY <2>3
      <3>2. /\ t \notin registered /\ registered' = registered \cup {t}
            /\ done' = done
        BY <3>1 DEF Give, lazyVars
      <3>3. CASE Kind(t) = "singleton"
        <4>1. initOrder' = Append(initOrder, t)
          BY <3>1, <3>3 DEF Give
        <4>2. t \notin ToSet(initOrder)
          BY <1>t, <3>2 DEF OrderKept, Lazies
        <4>3. /\ IsInjective(initOrder')
              /\ ToSet(initOrder') = ToSet(initOrder) \cup {t}
          BY <1>t, <4>1, <4>2, AppendOrder DEF OrderKept
        <4> QED
          BY <1>k, <2>2, <3>2, <3>3, <4>3 DEF OrderKept
      <3>4. CASE Kind(t) # "singleton"
        <4>1. initOrder' = initOrder
          BY <3>1, <3>4 DEF Give
        <4> QED
          BY <1>k, <2>2, <3>2, <3>4, <4>1 DEF OrderKept
      <3> QED
        BY <3>3, <3>4
    <2>4. CASE ~(\E t \in Types : Give(t))
      <3>1. UNCHANGED <<registered, done, initOrder>>
        BY <1>1, <2>4 DEF Elsewhere, Warmup, WarmupCancelled, StartContainer,
           Lifecycle, OnInit, OnInitFails, Started, Shutdown, OnShutdown,
           AllShutDown, Quiet, vars, resolveVars, lazyVars, appVars
      <3> QED
        BY <1>w, <2>2, <3>1
    <2> QED
      BY <2>3, <2>4
  <1>2. ASSUME NEW g \in Goroutines, NEW t \in Types,
               Use(g, t) \/ WarmupNext(g, t)
        PROVE  OrderKept'
    <2>1. PICK d \in Frame :
            /\ calls[g] = <<>> /\ calls' = [calls EXCEPT ![g] = <<d>>]
            /\ d.pc \in {"lookup", "lock"}
      BY <1>2, CallType DEF Use, WarmupNext, Idle, Steps, Call
    <2>2. OthersKeep(g) /\ Size(g)' = 1 /\ calls'[g][1] = d /\ Size(g) = 0
      BY <2>1, BeginShape
    <2>3. calls'[g][1].pc \in {"lookup", "lock"}
      BY <2>1, <2>2
    <2>4. \A u : InTransit(g, u)' <=> InTransit(g, u)
      BY <2>2, <2>3 DEF InTransit
    <2>5. UNCHANGED <<registered, done, initOrder>>
      BY <1>2 DEF Use, WarmupNext, appVars, lazyVars
    <2> QED
      BY <1>0, <1>w, <2>2, <2>4, <2>5
  <1>3. ASSUME NEW g \in Goroutines, Resolve(g) PROVE OrderKept'
    <2> DEFINE k == Size(g)
               Transit == {"unlockFirst", "append"}
    <2>t. PICK t \in Types : t = Top(g) /\ t = calls[g][k].type
      BY <1>3, InSomeCall, TopFacts
    <2>k. /\ calls[g] # <<>> /\ k \in Nat /\ k > 0
          /\ Last(calls[g]) = calls[g][k]
      BY <1>3, InSomeCall, TopFacts
    <2>1. ASSUME NEW ok, Return(g, ok), ~InCall(g, "unlockFirst"),
                 ~InCall(g, "append"), UNCHANGED <<registered, done, initOrder>>
          PROVE  OrderKept'
      <3>1. /\ OthersKeep(g) /\ Size(g)' = k - 1
            /\ k > 1 => \/ calls'[g][k - 1].pc = calls[g][k - 1].pc
                        \/ calls'[g][k - 1].pc = "failed"
        BY <2>1, <2>k, ReturnShape
      <3>2. k > 1 => calls[g][k - 1].pc = "factory"
        BY <2>k DEF StackShape, StackOf, Calls
      <3>3. \A u : ~InTransit(g, u)
        BY <2>1, <2>k DEF InTransit, InCall
      <3>4. \A u : ~InTransit(g, u)'
        BY <2>k, <3>1, <3>2 DEF InTransit
      <3> QED
        BY <1>0, <1>w, <2>1, <3>1, <3>3, <3>4
    <2>2. ASSUME NEW pc \in Steps, Goto(g, pc), pc \notin Transit,
                 calls[g][k].pc \notin Transit,
                 UNCHANGED <<registered, done, initOrder>>
          PROVE  OrderKept'
      <3>1. OthersKeep(g) /\ calls'[g][Size(g)'].pc = pc
        BY <2>2, <2>k, GotoShape, WentOn
      <3>2. \A u : InTransit(g, u)' <=> InTransit(g, u)
        BY <2>2, <3>1 DEF InTransit
      <3> QED
        BY <1>0, <1>w, <2>2, <3>1, <3>2
    <2>3. CASE LookupEnds(g)
      BY <2>1, <2>3 DEF LookupEnds, InCall, appVars, lazyVars
    <2>4. CASE PushResolving(g)
      <3>1. UNCHANGED <<registered, done, initOrder>> /\ InCall(g, "lookup")
        BY <2>4 DEF PushResolving, appVars, lazyVars
      <3>2. CASE OnStack(g, Top(g))
        BY <2>1, <2>4, <3>1, <3>2 DEF PushResolving, InCall
      <3>3. CASE ~OnStack(g, Top(g))
        BY <2>2, <2>4, <2>k, <3>1, <3>3 DEF PushResolving, InCall, Steps
      <3> QED
        BY <3>2, <3>3
    <2>5. CASE Lock(g)
      BY <2>2, <2>5, <2>k DEF Lock, InCall, Steps, appVars
    <2>6. CASE NextDep(g)
      <3>1. PICK d \in Frame :
              /\ calls' = [calls EXCEPT ![g] = Append(calls[g], d)]
              /\ d.pc = "lookup"
        BY <2>6, NextDepPush
      <3>2. OthersKeep(g) /\ Size(g)' = k + 1 /\ calls'[g][k + 1] = d
        BY <3>1, PushShape
      <3>3. calls'[g][k + 1].pc = "lookup" /\ calls[g][k].pc = "factory"
        BY <2>6, <3>1, <3>2, NextDepPush
      <3>4. \A u : InTransit(g, u)' <=> InTransit(g, u)
        BY <3>2, <3>3 DEF InTransit
      <3>5. UNCHANGED <<registered, done, initOrder>>
        BY <2>6 DEF NextDep, appVars, lazyVars
      <3> QED
        BY <1>0, <1>w, <3>2, <3>4, <3>5
    <2>7. CASE FactoryReturns(g)
      BY <2>2, <2>7, <2>k DEF FactoryReturns, InCall, Steps, appVars
    <2>8. CASE FactoryFails(g) \/ Store(g)
      BY <2>2, <2>8, <2>k
         DEF FactoryFails, Store, InCall, Steps, appVars, lazyVars
    <2>9. CASE UseReturns(g) \/ UseFails(g)
      <3>1. UNCHANGED <<registered, done, initOrder>>
        BY <2>9 DEF UseReturns, UseFails, appVars, lazyVars
      <3>2. ~InCall(g, "unlockFirst") /\ ~InCall(g, "append")
        BY <2>9 DEF UseReturns, UseFails, InCall
      <3> QED
        BY <2>1, <2>9, <3>1, <3>2 DEF UseReturns, UseFails
    <2>10. CASE Publish(g)
      <3>1. /\ InCall(g, "publish") /\ Goto(g, "unlockFirst")
            /\ done' = done \cup {t} /\ UNCHANGED <<registered, initOrder>>
        BY <2>10, <2>t DEF Publish, appVars
      <3>2. Kind(t) = "lazy" /\ t \notin done
        BY <2>t, <3>1, TopKnows DEF Knows
      <3>3. /\ OthersKeep(g) /\ calls'[g][Size(g)'].pc = "unlockFirst"
            /\ calls'[g][Size(g)'].type = t /\ Size(g)' = k
        BY <2>t, <2>k, <3>1, GotoShape, WentOn DEF Steps
      <3>4. InTransit(g, t)' /\ \A u : u # t => ~InTransit(g, u)'
        BY <2>k, <3>3 DEF InTransit
      <3>5. \A u : ~InTransit(g, u)
        BY <2>k, <3>1 DEF InTransit, InCall
      <3>6. \A u : \A h \in Goroutines : h # g =>
              (InTransit(h, u)' <=> InTransit(h, u))
        BY <3>3 DEF InTransit, OthersKeep, Size
      <3>7. OnTheWay(t)' /\ \A u : u # t => (OnTheWay(u)' <=> OnTheWay(u))
        BY <3>4, <3>5, <3>6 DEF OnTheWay
      <3> QED
        BY <1>k, <3>1, <3>2, <3>7 DEF OrderKept
    <2>11. CASE Unlock(g)
      <3>1. UNCHANGED <<registered, done, initOrder>>
        BY <2>11 DEF Unlock, appVars
      <3>2. CASE InCall(g, "unlockFirst") /\ Goto(g, "append")
        <4>1. /\ OthersKeep(g) /\ calls'[g][Size(g)'].pc = "append"
              /\ calls'[g][Size(g)'].type = t /\ Size(g)' = k
          BY <2>t, <2>k, <3>2, GotoShape, WentOn DEF Steps
        <4>2. \A u : InTransit(g, u)' <=> InTransit(g, u)
          BY <2>t, <2>k, <3>2, <4>1 DEF InTransit, InCall
        <4> QED
          BY <1>0, <1>w, <3>1, <4>1, <4>2
      <3>3. CASE InCall(g, "unlock") /\ Goto(g, "return")
        BY <2>2, <2>k, <3>1, <3>3 DEF InCall, Steps
      <3>4. CASE InCall(g, "failed") /\ Goto(g, "error")
        BY <2>2, <2>k, <3>1, <3>4 DEF InCall, Steps
      <3> QED
        BY <2>11, <3>2, <3>3, <3>4 DEF Unlock
    <2>12. CASE AppendInitOrder(g)
      <3>1. /\ InCall(g, "append") /\ Goto(g, "return")
            /\ initOrder' = Append(initOrder, t)
            /\ UNCHANGED <<registered, done>>
        BY <2>12, <2>t DEF AppendInitOrder, appVars, lazyVars
      <3>2. /\ Kind(t) = "lazy" /\ t \in done /\ k \in Calls(g)
            /\ Building(calls[g][k])
        BY <2>t, <3>1, TopKnows DEF Knows, Building
      <3>3. /\ OthersKeep(g) /\ calls'[g][Size(g)'].pc = "return"
            /\ Size(g)' = k
        BY <2>t, <2>k, <3>1, GotoShape, WentOn DEF Steps
      <3>4. InTransit(g, t) /\ \A u : u # t => ~InTransit(g, u)
        BY <2>k, <2>t, <3>1 DEF InTransit, InCall
      <3>5. \A u : ~InTransit(g, u)'
        BY <2>k, <3>3 DEF InTransit
      <3>6. \A u : \A h \in Goroutines : h # g =>
              (InTransit(h, u)' <=> InTransit(h, u))
        BY <3>3 DEF InTransit, OthersKeep, Size
      <3>7. ASSUME NEW h \in Goroutines, h # g PROVE ~InTransit(h, t)
        <4> SUFFICES ASSUME InTransit(h, t) PROVE FALSE
          OBVIOUS
        <4>1. /\ Size(h) > 0 /\ calls[h][Size(h)].type = t
              /\ calls[h][Size(h)].pc \in Transit
          BY DEF InTransit
        <4>2. Size(h) \in Calls(h)
          BY <4>1, StackType DEF Calls
        <4>3. Building(calls[h][Size(h)])
          BY <3>2, <4>1 DEF Building
        <4> QED
          BY <2>t, <3>2, <3>7, <4>1, <4>2, <4>3 DEF Exclusive
      <3>8. /\ OnTheWay(t) /\ ~OnTheWay(t)'
            /\ \A u : u # t => (OnTheWay(u)' <=> OnTheWay(u))
        BY <3>4, <3>5, <3>6, <3>7 DEF OnTheWay
      <3>9. t \notin ToSet(initOrder)
        BY <3>2, <3>8 DEF OrderKept
      <3>10. /\ IsInjective(initOrder')
             /\ ToSet(initOrder') = ToSet(initOrder) \cup {t}
        BY <1>t, <3>1, <3>9, AppendOrder DEF OrderKept
      <3> QED
        BY <1>k, <3>1, <3>2, <3>8, <3>10 DEF OrderKept
    <2> QED
      BY <1>3, <2>3, <2>4, <2>5, <2>6, <2>7, <2>8, <2>9, <2>10, <2>11, <2>12
         DEF Resolve
  <1> QED
    BY <1>1, <1>2, <1>3, NextCases

-----------------------------------------------------------------------------
(* The walks of Start and Shutdown. *)

\* initOrder only grows.
LEMMA OrderGrows ==
  ASSUME TypeOK, [Next]_vars
  PROVE  /\ Len(initOrder) \in Nat /\ Len(initOrder) <= Len(initOrder')
         /\ \A n \in 1..Len(initOrder) : initOrder'[n] = initOrder[n]
  <1>1. initOrder \in Seq(Types) /\ Len(initOrder) \in Nat
    BY LenProperties DEF TypeOK
  <1>2. initOrder' = initOrder
        \/ \E t \in Types : initOrder' = Append(initOrder, t)
    <2>1. ASSUME NEW g \in Goroutines, AppendInitOrder(g)
          PROVE  \E t \in Types : initOrder' = Append(initOrder, t)
      BY <2>1, TopFacts DEF AppendInitOrder, InCall
    <2> QED
      BY <2>1 DEF Next, Resolve, Lifecycle, Give, Use, LookupEnds,
         PushResolving, Lock, NextDep, FactoryReturns, FactoryFails, Store,
         Publish, Unlock, UseReturns, UseFails, Warmup, WarmupNext,
         WarmupCancelled, StartContainer, OnInit, OnInitFails, Started,
         Shutdown, OnShutdown, AllShutDown, Quiet, vars, resolveVars
  <1> QED
    BY <1>1, <1>2, AppendProperties

LEMMA LifeStep ==
  ASSUME TypeOK, OrderKept, LifeKept, [Next]_vars
  PROVE  LifeKept'
  <1>g. graph' = graph
    BY Monotonic
  <1>t. /\ order \in Seq(Types) /\ Len(order) \in Nat /\ at \in Nat
        /\ Len(initOrder) \in Nat
    BY OrderGrows, LenProperties DEF TypeOK
  <1>i. \A m, n \in 1..Len(order) : order[m] = order[n] => m = n
    <2>1. DOMAIN initOrder = 1..Len(initOrder)
      BY LenProperties DEF TypeOK
    <2> QED
      BY <1>t, <2>1 DEF LifeKept, OrderKept, IsInjective
  <1>s. PICK s \in 0..Len(order) : Walk(s)
    BY DEF LifeKept
  <1>p. ASSUME order' = order
        PROVE  /\ Len(order) <= Len(initOrder')
               /\ \A n \in 1..Len(order) : initOrder'[n] = order[n]
    BY <1>t, OrderGrows DEF LifeKept
  <1>q. ASSUME order' = initOrder, initOrder' = initOrder
        PROVE  /\ Len(order') <= Len(initOrder')
               /\ \A n \in 1..Len(order') : initOrder'[n] = order'[n]
    BY <1>t, <1>q
  <1>1. ASSUME UNCHANGED lifeVars PROVE LifeKept'
    <2>1. order' = order /\ at' = at /\ up' = up /\ life' = life
      BY <1>1 DEF lifeVars
    <2>2. Walk(s)'
      BY <1>g, <1>s, <2>1 DEF Walk, FirstOnes
    <2> QED
      BY <1>p, <2>1, <2>2 DEF LifeKept
  <1>2. ASSUME StartContainer PROVE LifeKept'
    <2>1. /\ order' = initOrder /\ at' = 1 /\ life' = "starting" /\ up' = up
          /\ life \in {"setup", "failed"} /\ initOrder' = initOrder
      BY <1>2 DEF StartContainer, resolveVars
    <2>2. up = {}
      BY <1>s, <2>1 DEF Walk, FirstOnes
    <2>3. Walk(0)'
      BY <2>1, <2>2 DEF Walk, FirstOnes
    <2>4. 0 \in 0..Len(order')
      BY <1>t, <2>1
    <2> QED
      BY <1>q, <2>1, <2>3, <2>4 DEF LifeKept
  <1>3. ASSUME OnInit PROVE LifeKept'
    <2>1. /\ life = "starting" /\ at <= Len(order) /\ at' = at + 1
          /\ up' = up \cup ({order[at]} \cap graph.sds)
          /\ order' = order /\ life' = life
      BY <1>3 DEF OnInit
    <2>2. at = s + 1 /\ s + 1 \in 0..Len(order)
      BY <1>s, <1>t, <2>1 DEF Walk
    <2>3. 1..(s + 1) = 1..s \cup {s + 1}
      BY <1>t
    <2>4. up' = {order[n] : n \in 1..(s + 1)} \cap graph.sds
      BY <1>s, <2>1, <2>2, <2>3 DEF Walk, FirstOnes
    <2>5. Walk(s + 1)'
      BY <1>g, <2>1, <2>2, <2>4 DEF Walk, FirstOnes
    <2> QED
      BY <1>p, <2>1, <2>2, <2>5 DEF LifeKept
  <1>4. ASSUME OnInitFails PROVE LifeKept'
    <2>1. /\ life = "starting" /\ at <= Len(order) /\ at' = at - 1
          /\ up' = up /\ order' = order /\ life' = "rollback"
      BY <1>4 DEF OnInitFails
    <2>2. at' = s
      BY <1>s, <1>t, <2>1 DEF Walk
    <2>3. Walk(s)'
      BY <1>g, <1>s, <1>t, <2>1, <2>2 DEF Walk, FirstOnes
    <2> QED
      BY <1>p, <2>1, <2>3 DEF LifeKept
  <1>5. ASSUME Started PROVE LifeKept'
    <2>1. up' = up /\ order' = order /\ life' = "started"
      BY <1>5 DEF Started
    <2>2. Walk(s)'
      BY <1>g, <1>s, <2>1 DEF Walk, FirstOnes
    <2> QED
      BY <1>p, <2>1, <2>2 DEF LifeKept
  <1>6. ASSUME Shutdown PROVE LifeKept'
    <2>1. /\ order' = initOrder /\ at' = Len(initOrder) /\ up' = up
          /\ life' = "stopping" /\ initOrder' = initOrder
      BY <1>6 DEF Shutdown, resolveVars
    <2>2. \A n \in 1..s : order'[n] = order[n]
      BY <1>s, <1>t, <2>1 DEF LifeKept
    <2>3. FirstOnes(s)' = FirstOnes(s) /\ s \in 0..Len(order')
      BY <1>g, <1>s, <1>t, <2>1, <2>2 DEF FirstOnes, LifeKept
    <2>4. Walk(s)'
      BY <1>s, <1>t, <2>1, <2>3 DEF Walk
    <2> QED
      BY <1>q, <2>1, <2>3, <2>4 DEF LifeKept
  <1>7. ASSUME OnShutdown PROVE LifeKept'
    <2>1. /\ life \in {"rollback", "stopping"} /\ at >= 1 /\ at' = at - 1
          /\ up' = up \ {order[at]} /\ order' = order /\ life' = life
      BY <1>7 DEF OnShutdown
    <2>2. s <= at /\ at \in 1..Len(order)
      BY <1>s, <1>t, <2>1 DEF Walk
    <2>3. up = {order[n] : n \in 1..s} \cap graph.sds
      BY <1>s DEF Walk, FirstOnes
    <2>4. CASE s = at
      <3>1. 1..s = 1..(s - 1) \cup {s} /\ s - 1 \in 0..Len(order)
        BY <1>t, <2>2, <2>4
      <3>2. order[s] \notin {order[n] : n \in 1..(s - 1)}
        BY <1>i, <1>t, <2>2, <2>4
      <3>3. up' = {order[n] : n \in 1..(s - 1)} \cap graph.sds
        BY <2>1, <2>3, <2>4, <3>1, <3>2
      <3>4. Walk(s - 1)'
        BY <1>g, <1>t, <2>1, <2>2, <2>4, <3>3 DEF Walk, FirstOnes
      <3> QED
        BY <1>p, <2>1, <3>1, <3>4 DEF LifeKept
    <2>5. CASE s < at
      <3>1. order[at] \notin {order[n] : n \in 1..s}
        BY <1>i, <1>t, <2>2, <2>5
      <3>2. up' = up
        BY <2>1, <2>3, <3>1
      <3>3. Walk(s)'
        BY <1>g, <1>t, <2>1, <2>2, <2>3, <2>5, <3>2 DEF Walk, FirstOnes
      <3> QED
        BY <1>p, <2>1, <3>3 DEF LifeKept
    <2> QED
      BY <1>t, <2>2, <2>4, <2>5
  <1>8. ASSUME AllShutDown PROVE LifeKept'
    <2>1. /\ life \in {"rollback", "stopping"} /\ at = 0 /\ up' = up
          /\ order' = order /\ life' \in {"failed", "down"}
      BY <1>8 DEF AllShutDown
    <2>2. s = 0
      BY <1>s, <1>t, <2>1 DEF Walk
    <2>3. Walk(s)'
      BY <1>g, <1>s, <2>1, <2>2 DEF Walk, FirstOnes
    <2> QED
      BY <1>p, <2>1, <2>3 DEF LifeKept
  <1>9. ASSUME \/ \E t \in Types : Give(t)
               \/ \E g \in Goroutines :
                    \/ Resolve(g) \/ Warmup(g) \/ WarmupCancelled(g)
                    \/ \E t \in Types : Use(g, t) \/ WarmupNext(g, t)
               \/ Quiet \/ UNCHANGED vars
        PROVE  UNCHANGED lifeVars
    BY <1>9 DEF Resolve, Give, Use, LookupEnds, PushResolving, Lock, NextDep,
       FactoryReturns, FactoryFails, Store, Publish, Unlock, AppendInitOrder,
       UseReturns, UseFails, Warmup, WarmupNext, WarmupCancelled, Quiet, vars,
       appVars
  <1> QED
    BY <1>1, <1>2, <1>3, <1>4, <1>5, <1>6, <1>7, <1>8, <1>9 DEF Next, Lifecycle

-----------------------------------------------------------------------------
(* The verdict of a circular dependency. *)

LEMMA VerdictStep ==
  ASSUME TypeOK, StackShape, StackMatches, VerdictSound, [Next]_vars
  PROVE  VerdictSound'
  <1>k. \A t : Circular(t)' <=> Circular(t)
    BY GraphFixed DEF Circular, Deps
  <1>1. ASSUME NEW g \in Goroutines, PushResolving(g), OnStack(g, Top(g))
        PROVE  Circular(Top(g))
    <2> DEFINE k == Size(g)
               t == Top(g)
               w == Warm(g)
    <2>1. InCall(g, "lookup") /\ calls[g] # <<>>
      BY <1>1 DEF PushResolving, InCall
    <2>2. /\ k \in Nat /\ k > 0 /\ Calls(g) = 1..k /\ calls[g][k].type = t
          /\ calls[g][k].pc = "lookup" /\ StackOf(g) /\ MatchOf(g)
          /\ \A n \in 1..k : calls[g][n].type \in Types
      BY <2>1, StackType, TopFacts
         DEF Calls, InCall, StackShape, StackMatches, Frame
    <2>3. Len(resolving[g]) = k - w - 1 /\ w \in {0, 1}
      BY <2>2 DEF MatchOf, LookingUp, Warm
    <2>4. PICK i \in 1..Len(resolving[g]) : resolving[g][i] = t
      <3>1. DOMAIN resolving[g] = 1..Len(resolving[g])
        BY LenProperties DEF TypeOK
      <3> QED
        BY <1>1, <3>1 DEF OnStack, ToSet
    <2>5. PICK m \in 1..k : m < k /\ calls[g][m].type = t
      <3>1. resolving[g][i] = calls[g][i + w].type
        BY <2>2, <2>4 DEF MatchOf
      <3> HIDE DEF k, w
      <3>2. i + w \in 1..k /\ i + w < k
        BY <2>2, <2>3
      <3> QED
        BY <2>4, <3>1, <3>2
    <2> DEFINE S == {calls[g][n].type : n \in m..(k - 1)}
    <2>6. S \in SUBSET Types /\ t \in S
      BY <2>2, <2>5
    <2>7. ASSUME NEW u \in S PROVE S \cap ToSet(Deps(u)) # {}
      <3>1. PICK n \in m..(k - 1) : u = calls[g][n].type
        BY <2>7
      <3>2. calls[g][n + 1].type \in ToSet(Deps(u))
        BY <2>2, <2>5, <3>1 DEF StackOf
      <3>3. calls[g][n + 1].type \in S
        <4>1. CASE n = k - 1
          BY <2>2, <2>5, <2>6, <4>1
        <4>2. CASE n < k - 1
          BY <2>2, <2>5, <4>2
        <4> QED
          BY <2>2, <2>5, <4>1, <4>2
      <3> QED
        BY <3>2, <3>3
    <2> QED
      BY <2>6, <2>7 DEF Circular
  <1>2. ASSUME NEW g \in Goroutines, PushResolving(g)
        PROVE  cycles' = cycles \/ (cycles' = cycles \cup {Top(g)}
                                    /\ OnStack(g, Top(g)))
    BY <1>2 DEF PushResolving
  <1>3. \/ cycles' = cycles
        \/ \E g \in Goroutines : PushResolving(g)
    BY DEF Next, Resolve, Lifecycle, Give, Use, LookupEnds, Lock, NextDep,
       FactoryReturns, FactoryFails, Store, Publish, Unlock, AppendInitOrder,
       UseReturns, UseFails, Warmup, WarmupNext, WarmupCancelled,
       StartContainer, OnInit, OnInitFails, Started, Shutdown, OnShutdown,
       AllShutDown, Quiet, vars, resolveVars, hist
  <1> QED
    BY <1>k, <1>1, <1>2, <1>3 DEF VerdictSound

-----------------------------------------------------------------------------
(* The theorems. *)

LEMMA IInvInit == Init => IInv
  <1> SUFFICES ASSUME Init PROVE IInv
    OBVIOUS
  <1>1. TypeOK
    BY TypeInit
  <1>2. \A g \in Goroutines : calls[g] = <<>> /\ Size(g) = 0 /\ Calls(g) = {}
    BY DEF Init, Size, Calls
  <1>3. StackShape /\ WarmupKnows /\ CallsKnow /\ Exclusive
    BY <1>2 DEF Init, StackShape, StackOf, WarmupKnows, CallsKnow, Exclusive
  <1>4. BuiltOnce
    BY DEF Init, BuiltOnce
  <1>5. StackMatches
    BY <1>2 DEF Init, StackMatches, MatchOf, Warm, LookingUp
  <1>6. VerdictSound
    BY DEF Init, VerdictSound
  <1>7. OrderKept
    <2>1. /\ graph.given \in Seq({t \in Types : graph.kind[t] = "singleton"})
          /\ IsInjective(graph.given)
          /\ graph.lazily \subseteq {t \in Types : graph.kind[t] # "singleton"}
      BY ConstantsAssumption DEF Init
    <2>2. \A t \in ToSet(graph.given) : Kind(t) = "singleton"
      BY <2>1, LenProperties, ElementOfSeq DEF ToSet, Kind
    <2>3. \A t \in graph.lazily : Kind(t) # "singleton"
      BY <2>1 DEF Kind
    <2> QED
      BY <2>1, <2>2, <2>3 DEF Init, OrderKept
  <1>8. LifeKept
    <2>1. Len(order) = 0 /\ Len(initOrder) \in Nat
      BY <1>1, LenProperties DEF Init, TypeOK
    <2>2. Walk(0)
      BY DEF Init, Walk, FirstOnes
    <2> QED
      BY <2>1, <2>2 DEF LifeKept
  <1> QED
    BY <1>1, <1>3, <1>4, <1>5, <1>6, <1>7, <1>8 DEF IInv

LEMMA IInvStep == IInv /\ [Next]_vars => IInv'
  BY TypeStep, ShapeStep, WarmupStep, KnowStep, BuiltStep, OrderStep, LifeStep,
     MatchStep, VerdictStep DEF IInv

LEMMA Inductive == Spec => []IInv
  BY IInvInit, IInvStep, PTL DEF Spec

\* In every reachable state of the container the variables have their types:
\* only registered lazies are marked done, and Start and Shutdown never leave
\* the copy of initOrder they walk over.
THEOREM TypeCorrect == Spec => []TypeOK
  <1>1. IInv => TypeOK
    BY DEF IInv
  <1> QED
    BY <1>1, Inductive, PTL

\* lazyEntry.resolve builds a lazy singleton once and hands out that instance,
\* whatever goroutines, factories and Warmup do at the same time.
THEOREM LazyBuiltOnce == Spec => []OneInstance
  <1>1. IInv => OneInstance
    BY DEF IInv, BuiltOnce, OneInstance
  <1> QED
    BY <1>1, Inductive, PTL

\* pushResolving reports a circular dependency only where the factories form
\* one: the stack of a goroutine is the factories it is in, whatever failed
\* or was resolved by Warmup before.
THEOREM CyclesAreReal == Spec => []VerdictSound
  <1>1. IInv => VerdictSound
    BY DEF IInv
  <1> QED
    BY <1>1, Inductive, PTL

\* Start and Shutdown know every singleton and every resolved lazy, each once,
\* and shut down in the reverse order of the start.
THEOREM LifecycleIsExact == Spec => []LifecycleExact
  <1>1. ASSUME IInv PROVE InitOrderExact
    <2> DEFINE way == {Top(g) : g \in {h \in Goroutines :
                        InCall(h, "unlockFirst") \/ InCall(h, "append")}}
    <2>1. TypeOK /\ OrderKept
      BY <1>1 DEF IInv
    <2>2. ASSUME NEW t PROVE OnTheWay(t) <=> t \in way
      <3>1. ASSUME NEW g \in Goroutines
            PROVE  InTransit(g, t) <=>
                     /\ InCall(g, "unlockFirst") \/ InCall(g, "append")
                     /\ Top(g) = t
        <4>1. Size(g) > 0 <=> calls[g] # <<>>
          BY <2>1, StackType DEF Size
        <4> QED
          BY <2>1, <4>1, TopFacts DEF InTransit, InCall
      <3> QED
        BY <3>1 DEF OnTheWay
    <2> HIDE DEF way
    <2>3. /\ ToSet(initOrder) \subseteq Types /\ registered \subseteq Types
          /\ done \subseteq Types
      <3>1. initOrder \in Seq(Types) /\ registered \subseteq Types
            /\ done \subseteq Types
        BY <2>1 DEF TypeOK, Lazies
      <3> QED
        BY <3>1, LenProperties, ElementOfSeq DEF ToSet
    <2>4. ToSet(initOrder) =
            {t \in registered : Kind(t) = "singleton"} \cup (done \ way)
      BY <2>1, <2>2, <2>3 DEF OrderKept
    <2> QED
      BY <2>1, <2>4 DEF InitOrderExact, OrderKept, way
  <1>2. ASSUME IInv PROVE LastInFirstOut
    <2>1. TypeOK /\ OrderKept /\ LifeKept
      BY <1>2 DEF IInv
    <2>2. /\ DOMAIN order = 1..Len(order) /\ Len(order) \in Nat
          /\ DOMAIN initOrder = 1..Len(initOrder) /\ Len(initOrder) \in Nat
      BY <2>1, LenProperties DEF TypeOK
    <2>3. \A m, n \in 1..Len(order) : order[m] = order[n] => m = n
      BY <2>1, <2>2 DEF LifeKept, OrderKept, IsInjective
    <2>4. PICK s \in 0..Len(order) : Walk(s)
      BY <2>1 DEF LifeKept
    <2>5. ASSUME NEW m \in DOMAIN order, NEW n \in DOMAIN order,
                 m < n, order[n] \in up, order[m] \in graph.sds
          PROVE  order[m] \in up
      <3>1. PICK j \in 1..s : order[n] = order[j]
        BY <2>4, <2>5 DEF Walk, FirstOnes
      <3>2. n = j
        BY <2>2, <2>3, <2>5, <3>1
      <3>3. m \in 1..s
        BY <2>2, <2>5, <3>2
      <3> QED
        BY <2>4, <2>5, <3>3 DEF Walk, FirstOnes
    <2>6. life \in {"setup", "failed", "down"} => up = {}
      BY <2>4 DEF Walk, FirstOnes
    <2> QED
      BY <2>5, <2>6 DEF LastInFirstOut
  <1>3. IInv => LifecycleExact
    BY <1>1, <1>2 DEF LifecycleExact
  <1> QED
    BY <1>3, Inductive, PTL
=============================================================================
