------------------------- MODULE WingShutdownProofs -------------------------
(***************************************************************************)
(* Proofs about WingShutdown for any number of connections and of pool     *)
(* goroutines and any capacities of the two channels.                      *)
(***************************************************************************)
EXTENDS WingShutdown, FiniteSetTheorems, SequenceTheorems, TLAPS

-----------------------------------------------------------------------------
(* A channel as the set of what it holds. *)

In(ch) == {ch[n] : n \in 1..Len(ch)}

Distinct(ch) == \A m, n \in 1..Len(ch) : ch[m] = ch[n] => m = n

LEMMA EmptyChannel == In(<<>>) = {} /\ Distinct(<<>>)
  BY DEF In, Distinct

LEMMA EmptyIn ==
  ASSUME NEW S, NEW ch \in Seq(S)
  PROVE  ch = <<>> <=> In(ch) = {}
  <1>1. ch # <<>> => ch[1] \in In(ch)
    BY EmptySeq, LenProperties DEF In
  <1> QED
    BY <1>1, EmptyChannel

LEMMA InType ==
  ASSUME NEW S, NEW ch \in Seq(S)
  PROVE  In(ch) \subseteq S
  BY ElementOfSeq DEF In

\* A send: one more element, distinct if it was not in the channel.
LEMMA SendFacts ==
  ASSUME NEW S, NEW ch \in Seq(S), NEW x \in S
  PROVE  /\ Append(ch, x) \in Seq(S) /\ Len(Append(ch, x)) = Len(ch) + 1
         /\ In(Append(ch, x)) = In(ch) \cup {x}
         /\ Distinct(ch) /\ x \notin In(ch) => Distinct(Append(ch, x))
  <1> DEFINE a == Append(ch, x)
  <1>1. /\ a \in Seq(S) /\ Len(a) = Len(ch) + 1 /\ Len(ch) \in Nat
        /\ \A n \in 1..Len(ch) : a[n] = ch[n]
        /\ a[Len(ch) + 1] = x
    BY AppendProperties, LenProperties
  <1> HIDE DEF a
  <1>2. In(a) = In(ch) \cup {x}
    <2>1. ASSUME NEW y \in In(a) PROVE y \in In(ch) \cup {x}
      BY <1>1, <2>1 DEF In
    <2>2. ASSUME NEW y \in In(ch) PROVE y \in In(a)
      <3>1. PICK n \in 1..Len(ch) : y = ch[n]
        BY <2>2 DEF In
      <3>2. n \in 1..Len(a) /\ a[n] = y
        BY <1>1, <3>1
      <3> QED
        BY <3>2 DEF In
    <2>3. x \in In(a)
      <3>1. Len(ch) + 1 \in 1..Len(a)
        BY <1>1
      <3> QED
        BY <1>1, <3>1 DEF In
    <2> QED
      BY <2>1, <2>2, <2>3
  <1>3. ASSUME Distinct(ch), x \notin In(ch) PROVE Distinct(a)
    <2> SUFFICES ASSUME NEW m \in 1..Len(a), NEW n \in 1..Len(a), a[m] = a[n]
                 PROVE  m = n
      BY DEF Distinct
    <2>1. \A k \in 1..Len(ch) : a[k] # x
      BY <1>1, <1>3 DEF In
    <2> QED
      BY <1>1, <1>3, <2>1 DEF Distinct
  <1> QED
    BY <1>1, <1>2, <1>3 DEF a

\* A receive: the first element leaves and is not left behind.
LEMMA ReceiveFacts ==
  ASSUME NEW S, NEW ch \in Seq(S), ch # <<>>
  PROVE  /\ Head(ch) \in S /\ Head(ch) \in In(ch)
         /\ Tail(ch) \in Seq(S) /\ Len(Tail(ch)) = Len(ch) - 1
         /\ Distinct(ch) => /\ In(Tail(ch)) = In(ch) \ {Head(ch)}
                            /\ Distinct(Tail(ch))
  <1> DEFINE t == Tail(ch)
             h == Head(ch)
  <1>1. /\ t \in Seq(S) /\ Len(t) = Len(ch) - 1 /\ Len(ch) \in Nat
        /\ Len(ch) # 0
        /\ \A n \in 1..Len(t) : t[n] = ch[n + 1]
        /\ h = ch[1] /\ h \in S
    BY HeadTailProperties, LenProperties, EmptySeq, ElementOfSeq
  <1> HIDE DEF t, h
  <1>2. h \in In(ch)
    <2>1. 1 \in 1..Len(ch)
      BY <1>1
    <2> QED
      BY <1>1, <2>1 DEF In
  <1>3. ASSUME Distinct(ch) PROVE In(t) = In(ch) \ {h} /\ Distinct(t)
    <2>1. ASSUME NEW y \in In(t) PROVE y \in In(ch) \ {h}
      <3>1. PICK n \in 1..Len(t) : y = t[n]
        BY <2>1 DEF In
      <3>2. n + 1 \in 1..Len(ch) /\ 1 \in 1..Len(ch) /\ y = ch[n + 1]
            /\ n + 1 # 1
        BY <1>1, <3>1
      <3> QED
        BY <1>1, <1>3, <3>2 DEF In, Distinct
    <2>2. ASSUME NEW y \in In(ch), y # h PROVE y \in In(t)
      <3>1. PICK n \in 1..Len(ch) : y = ch[n]
        BY <2>2 DEF In
      <3>2. n # 1
        BY <1>1, <2>2, <3>1
      <3>3. n - 1 \in 1..Len(t) /\ t[n - 1] = ch[(n - 1) + 1]
            /\ (n - 1) + 1 = n
        BY <1>1, <3>1, <3>2
      <3> QED
        BY <3>1, <3>3 DEF In
    <2>3. Distinct(t)
      <3> SUFFICES ASSUME NEW m \in 1..Len(t), NEW n \in 1..Len(t), t[m] = t[n]
                   PROVE  m = n
        BY DEF Distinct
      <3>1. /\ m + 1 \in 1..Len(ch) /\ n + 1 \in 1..Len(ch)
            /\ ch[m + 1] = ch[n + 1]
        BY <1>1
      <3>2. m + 1 = n + 1
        BY <1>3, <3>1 DEF Distinct
      <3> QED
        BY <3>2
    <2> QED
      BY <2>1, <2>2, <2>3
  <1> QED
    BY <1>1, <1>2, <1>3 DEF t, h

-----------------------------------------------------------------------------
(* The inductive invariant: where each request is, what the stages of cleanup *)
(* have waited for, and who has closed each fd.                               *)

Writing(x) == stage[x] \in {"queued", "running", "sending"}

\* A request is in one place, and its stage says in which kind of place.
Queued ==
  /\ Distinct(jobs)
  /\ \A x \in Conns : x \in In(jobs) <=> stage[x] = "queued"
  /\ \A x \in Conns : stage[x] = "queued" => kind[x] = "Pool"

Served ==
  /\ \A g \in PoolGs : inHand[g] # None =>
       /\ stage[inHand[g]] \in {"running", "sending"}
       /\ kind[inHand[g]] = "Pool"
       /\ inHand[g] # sat
  /\ \A g, h \in PoolGs : inHand[g] = inHand[h] /\ inHand[g] # None => g = h
  /\ sat # None => stage[sat] = "sending" /\ kind[sat] = "Pool"
  /\ sat # None <=> pc = "saturated"
  /\ \A x \in Conns :
       stage[x] \in {"running", "sending"} /\ kind[x] = "Pool" =>
         x = sat \/ \E g \in PoolGs : inHand[g] = x

Reported ==
  /\ Distinct(doneCh)
  /\ \A x \in In(doneCh) : stage[x] = "sent"
  /\ held # None => stage[held] = "sent" /\ held \notin In(doneCh)

Kinds == \A x \in Conns : stage[x] # "idle" => kind[x] # None

\* What is over when cleanup has come that far.
Phases ==
  /\ closed <=> pc \notin {"loop", "saturated"}
  /\ exited # {} => closed /\ jobs = <<>>
  /\ \A g \in exited : inHand[g] = None
  /\ pc \in {"dispatchWait", "drainBuffered", "closeFds", "stopped"} =>
       exited = PoolGs
  /\ pc \in {"drainBuffered", "closeFds", "stopped"} => DispatchDone
  /\ pc \in {"closeFds", "stopped"} => doneCh = <<>>
  /\ held # None => drainer = "on"
  /\ drainer # "off" =>
       pc \in {"dispatchWait", "drainBuffered", "closeFds", "stopped"}

\* Who has closed what: a Takeover's fd is closed with its completion, every
\* other fd by the loop, when it has become idle, or by the end of cleanup.
Pending(x) == x \in In(doneCh) \/ held = x

Closed ==
  /\ ClosedAtMostOnce
  /\ NoWriteAfterClose
  /\ \A x \in Conns : stage[x] = "sent" /\ kind[x] = "Takeover" =>
       (Open(x) <=> Pending(x))
  /\ \A x \in Conns :
       stage[x] = "sent" /\ kind[x] # "Takeover" /\ pc # "stopped" => Open(x)
  /\ pc = "stopped" =>
       \A x \in Conns : Open(x) => held = x /\ kind[x] = "Takeover"

IInv == Queued /\ Served /\ Reported /\ Kinds /\ Phases /\ Closed

-----------------------------------------------------------------------------
(* Type correctness.  Sending needs room, so a channel never overflows. *)

Pcs == {"loop", "saturated", "poolWait", "dispatchWait", "drainBuffered",
        "closeFds", "stopped"}

LEMMA SetupType ==
  ASSUME TypeOK
  PROVE  JobCap \in Nat /\ DoneCap \in Nat
  BY ConstantsAssumption DEF TypeOK, JobCap, DoneCap

LEMMA TypeInit == Init => TypeOK
  <1> SUFFICES ASSUME Init PROVE TypeOK
    OBVIOUS
  <1>1. JobCap \in Nat /\ DoneCap \in Nat
    BY ConstantsAssumption DEF Init, JobCap, DoneCap
  <1>2. {closed, stop, shutdown} \subseteq BOOLEAN
    BY Zenon DEF Init
  <1>3. /\ jobs \in Seq(Conns) /\ Len(jobs) <= JobCap
        /\ doneCh \in Seq(Conns) /\ Len(doneCh) <= DoneCap
    BY <1>1, EmptySeq DEF Init
  <1> QED
    BY <1>2, <1>3 DEF Init, TypeOK

\* Sending on a channel with room keeps its type.
LEMMA TypeSend ==
  ASSUME NEW ch \in Seq(Conns), NEW x \in Conns, NEW cap \in Nat,
         Len(ch) < cap
  PROVE  Append(ch, x) \in Seq(Conns) /\ Len(Append(ch, x)) <= cap
  <1>1. Len(ch) \in Nat
    BY LenProperties
  <1> QED
    BY <1>1, SendFacts

LEMMA TypeReceive ==
  ASSUME NEW ch \in Seq(Conns), ch # <<>>, NEW cap \in Nat, Len(ch) <= cap
  PROVE  /\ Tail(ch) \in Seq(Conns) /\ Len(Tail(ch)) <= cap
         /\ Head(ch) \in Conns
  <1>1. Len(ch) \in Nat
    BY LenProperties
  <1> QED
    BY <1>1, ReceiveFacts

\* The loop sends sat in the saturated case, so its type alone is not enough.
LEMMA TypeStep ==
  ASSUME TypeOK, Served, [Next]_vars
  PROVE  TypeOK'
  <1>c. JobCap \in Nat /\ DoneCap \in Nat
    BY SetupType
  <1>u. setup' = setup /\ JobCap' = JobCap /\ DoneCap' = DoneCap
    BY DEF Next, LoopStep, DrainStep, PoolStep, Terminated, vars, SaturatedSend,
       HandleDone, CloseJobs, ShutDownConns, StopDrain, DrainBuffered, CloseFds,
       Shutdown, DrainReceives, DrainActs, DrainStops, PoolTakes, PoolWrites,
       PoolSends, PoolExits, DispatchPool, DispatchGoroutine, SpawnWrites,
       TakeoverEnds, GoroutineSends, JobCap, DoneCap
  <1>b. {closed', stop', shutdown'} \subseteq BOOLEAN
    <2>1. /\ closed' \in {closed, TRUE} /\ stop' \in {stop, TRUE}
          /\ shutdown' \in {shutdown, TRUE}
      BY DEF Next, LoopStep, DrainStep, PoolStep, Terminated, vars, poolVars,
         drainVars, SaturatedSend, HandleDone, CloseJobs, ShutDownConns,
         StopDrain, DrainBuffered, CloseFds, Shutdown, DrainReceives, DrainActs,
         DrainStops, PoolTakes, PoolWrites, PoolSends, PoolExits, DispatchPool,
         DispatchGoroutine, SpawnWrites, TakeoverEnds, GoroutineSends
    <2> QED
      BY <2>1 DEF TypeOK
  <1> DEFINE T == /\ setup \in Setups
                  /\ kind \in [Conns -> {None, "Pool", "Spawn", "Takeover"}]
                  /\ stage \in [Conns -> {"idle", "queued", "running",
                                          "sending", "sent"}]
                  /\ jobs \in Seq(Conns) /\ Len(jobs) <= JobCap
                  /\ inHand \in [PoolGs -> Conns \cup {None}]
                  /\ exited \subseteq PoolGs
                  /\ doneCh \in Seq(Conns) /\ Len(doneCh) <= DoneCap
                  /\ shut \subseteq Conns /\ closes \in [Conns -> Nat]
                  /\ drainer \in {"off", "on", "gone"}
                  /\ held \in Conns \cup {None}
                  /\ pc \in Pcs
                  /\ sat \in Conns \cup {None}
  <1>t. T /\ (T' => TypeOK')
    BY <1>b DEF TypeOK, Pcs
  <1> USE DEF Pcs
  <1>1. ASSUME NEW x \in Conns, DispatchPool(x) PROVE T'
    <2>1. CASE JobRoom
      <3>1. Append(jobs, x) \in Seq(Conns) /\ Len(Append(jobs, x)) <= JobCap
        BY <1>t, <1>c, <2>1, TypeSend DEF JobRoom
      <3> QED
        BY <1>t, <1>u, <1>1, <2>1, <3>1 DEF DispatchPool, At, drainVars
    <2>2. CASE ~JobRoom
      BY <1>t, <1>u, <1>1, <2>2 DEF DispatchPool, At, drainVars
    <2> QED
      BY <2>1, <2>2
  <1>2. ASSUME SaturatedSend PROVE T'
    <2>0. sat \in Conns
      BY <1>t, <1>2 DEF SaturatedSend, Served
    <2>1. /\ Append(doneCh, sat) \in Seq(Conns)
          /\ Len(Append(doneCh, sat)) <= DoneCap
      BY <1>t, <1>c, <1>2, <2>0, TypeSend DEF SaturatedSend, Room
    <2> QED
      BY <1>t, <1>u, <1>2, <2>1 DEF SaturatedSend, At, drainVars, poolVars
  <1>3. ASSUME NEW x \in Conns, DispatchGoroutine(x) PROVE T'
    <2>1. PICK d \in Dispatches \ {"Pool"} : kind' = [kind EXCEPT ![x] = d]
      BY <1>3 DEF DispatchGoroutine
    <2>2. d \in {"Spawn", "Takeover"}
      BY <1>t, ConstantsAssumption DEF Dispatches
    <2> QED
      BY <1>t, <1>u, <1>3, <2>1, <2>2
         DEF DispatchGoroutine, At, drainVars, poolVars
  <1>4. ASSUME HandleDone PROVE T'
    <2> DEFINE x == Head(doneCh)
    <2>1. /\ Tail(doneCh) \in Seq(Conns) /\ Len(Tail(doneCh)) <= DoneCap
          /\ x \in Conns
      BY <1>t, <1>c, <1>4, TypeReceive DEF HandleDone
    <2>2. /\ doneCh' = Tail(doneCh) /\ stage' = [stage EXCEPT ![x] = "idle"]
          /\ closes' \in {closes, [closes EXCEPT ![x] = closes[x] + 1]}
          /\ UNCHANGED <<kind, jobs, inHand, exited, shut, drainer, held, pc,
                         sat>>
      BY <1>4 DEF HandleDone, At, CloseFd, drainVars, poolVars
    <2> HIDE DEF x
    <2>3. closes' \in [Conns -> Nat]
      BY <1>t, <2>1, <2>2
    <2> QED
      BY <1>t, <1>u, <2>1, <2>2, <2>3
  <1>5. ASSUME NEW g \in PoolGs, PoolTakes(g) PROVE T'
    <2> DEFINE x == Head(jobs)
    <2>1. /\ Tail(jobs) \in Seq(Conns) /\ Len(Tail(jobs)) <= JobCap
          /\ x \in Conns
      BY <1>t, <1>c, <1>5, TypeReceive DEF PoolTakes
    <2> QED
      BY <1>t, <1>u, <1>5, <2>1 DEF PoolTakes, At, drainVars
  <1>6. ASSUME NEW g \in PoolGs, PoolSends(g) PROVE T'
    <2>0. inHand[g] \in Conns
      BY <1>t, <1>6 DEF PoolSends
    <2>1. /\ Append(doneCh, inHand[g]) \in Seq(Conns)
          /\ Len(Append(doneCh, inHand[g])) <= DoneCap
      BY <1>t, <1>c, <1>6, <2>0, TypeSend DEF PoolSends, Room
    <2> QED
      BY <1>t, <1>u, <1>6, <2>1 DEF PoolSends, At, drainVars
  <1>7. ASSUME NEW g \in PoolGs, PoolWrites(g) \/ PoolExits(g) PROVE T'
    BY <1>t, <1>u, <1>7 DEF PoolWrites, PoolExits, At, drainVars, poolVars
  <1>8. ASSUME NEW x \in Conns, SpawnWrites(x) \/ TakeoverEnds(x) PROVE T'
    BY <1>t, <1>u, <1>8 DEF SpawnWrites, TakeoverEnds, At, drainVars, poolVars
  <1>9. ASSUME NEW x \in Conns, GoroutineSends(x) PROVE T'
    <2>1. /\ Append(doneCh, x) \in Seq(Conns)
          /\ Len(Append(doneCh, x)) <= DoneCap
      BY <1>t, <1>c, <1>9, TypeSend DEF GoroutineSends, Room
    <2> QED
      BY <1>t, <1>u, <1>9, <2>1 DEF GoroutineSends, At, drainVars, poolVars
  <1>10. ASSUME Shutdown \/ CloseJobs \/ ShutDownConns \/ StopDrain PROVE T'
    BY <1>t, <1>u, <1>10
       DEF Shutdown, CloseJobs, ShutDownConns, StopDrain, drainVars, poolVars
  <1>11. ASSUME DrainReceives PROVE T'
    <2>1. /\ Tail(doneCh) \in Seq(Conns) /\ Len(Tail(doneCh)) <= DoneCap
          /\ Head(doneCh) \in Conns
      BY <1>t, <1>c, <1>11, TypeReceive DEF DrainReceives
    <2> QED
      BY <1>t, <1>u, <1>11, <2>1 DEF DrainReceives, poolVars
  <1>12. ASSUME DrainActs \/ DrainStops PROVE T'
    <2>1. closes' \in [Conns -> Nat]
      BY <1>t, <1>12 DEF DrainActs, DrainStops, CloseFd
    <2> QED
      BY <1>t, <1>u, <1>12, <2>1 DEF DrainActs, DrainStops, poolVars
  <1>13. ASSUME DrainBuffered PROVE T'
    <2>1. doneCh # <<>> =>
            /\ Tail(doneCh) \in Seq(Conns) /\ Len(Tail(doneCh)) <= DoneCap
            /\ Head(doneCh) \in Conns
      BY <1>t, <1>c, <1>13, TypeReceive
    <2>2. closes' \in [Conns -> Nat]
      BY <1>t, <1>13, <2>1 DEF DrainBuffered, CloseFd
    <2> QED
      BY <1>t, <1>u, <1>13, <2>1, <2>2 DEF DrainBuffered, poolVars, drainVars
  <1>14. ASSUME CloseFds PROVE T'
    <2>1. closes' \in [Conns -> Nat]
      BY <1>t, <1>14 DEF CloseFds
    <2> QED
      BY <1>t, <1>u, <1>14, <2>1 DEF CloseFds, poolVars, drainVars
  <1>15. ASSUME Terminated \/ UNCHANGED vars PROVE T'
    BY <1>t, <1>u, <1>15 DEF Terminated, vars, poolVars, drainVars
  <1> QED
    BY <1>t, <1>1, <1>2, <1>3, <1>4, <1>5, <1>6, <1>7, <1>8, <1>9, <1>10,
       <1>11, <1>12, <1>13, <1>14, <1>15
       DEF Next, LoopStep, PoolStep, DrainStep

-----------------------------------------------------------------------------
(* The invariant is inductive: one step per action. *)

LEMMA IInvInit == Init => IInv
  <1> SUFFICES ASSUME Init PROVE IInv
    OBVIOUS
  <1>1. In(jobs) = {} /\ In(doneCh) = {} /\ Distinct(jobs) /\ Distinct(doneCh)
    BY EmptyChannel DEF Init
  <1>2. Queued /\ Reported /\ Kinds
    BY <1>1 DEF Init, Queued, Reported, Kinds
  <1>3. Served
    BY DEF Init, Served
  <1>4. Phases
    BY DEF Init, Phases
  <1>5. Closed
    BY <1>1 DEF Init, Closed, ClosedAtMostOnce, NoWriteAfterClose, Open, Pending
  <1> QED
    BY <1>2, <1>3, <1>4, <1>5 DEF IInv

LEMMA IInvStep ==
  ASSUME TypeOK, IInv, [Next]_vars
  PROVE  IInv'
  <1>t. /\ kind \in [Conns -> {None, "Pool", "Spawn", "Takeover"}]
        /\ stage \in [Conns -> {"idle", "queued", "running", "sending", "sent"}]
        /\ jobs \in Seq(Conns) /\ doneCh \in Seq(Conns)
        /\ inHand \in [PoolGs -> Conns \cup {None}] /\ exited \subseteq PoolGs
        /\ closes \in [Conns -> Nat]
        /\ held \in Conns \cup {None} /\ sat \in Conns \cup {None}
        /\ None \notin Conns /\ PoolGs # {}
        /\ In(jobs) \subseteq Conns /\ In(doneCh) \subseteq Conns
    BY ConstantsAssumption, InType DEF TypeOK
  <1>b. closed \in BOOLEAN
    BY DEF TypeOK
  <1>i. Queued /\ Served /\ Reported /\ Kinds /\ Phases /\ Closed
    BY DEF IInv
  <1>c. /\ \A x \in Conns : closes[x] <= 1
        /\ \A x \in Conns : Writing(x) => closes[x] = 0
        /\ \A x \in Conns : stage[x] = "sent" /\ kind[x] = "Takeover" =>
             (closes[x] = 0 <=> (x \in In(doneCh) \/ held = x))
        /\ \A x \in Conns : stage[x] = "sent" /\ kind[x] # "Takeover"
                            /\ pc # "stopped" => closes[x] = 0
        /\ pc = "stopped" => \A x \in Conns :
             closes[x] = 0 => held = x /\ kind[x] = "Takeover"
    BY <1>i DEF Closed, ClosedAtMostOnce, NoWriteAfterClose, Open, Pending,
                Writing
  <1> DEFINE C == /\ \A x \in Conns : closes[x] <= 1
                  /\ \A x \in Conns : Writing(x) => closes[x] = 0
                  /\ \A x \in Conns : stage[x] = "sent" /\ kind[x] = "Takeover"
                       => (closes[x] = 0 <=> (x \in In(doneCh) \/ held = x))
                  /\ \A x \in Conns : stage[x] = "sent" /\ kind[x] # "Takeover"
                       /\ pc # "stopped" => closes[x] = 0
                  /\ pc = "stopped" => \A x \in Conns :
                       closes[x] = 0 => held = x /\ kind[x] = "Takeover"
  <1>d. C' => Closed'
    BY DEF Closed, ClosedAtMostOnce, NoWriteAfterClose, Open, Pending, Writing
  <1>g. Queued' /\ Served' /\ Reported' /\ Kinds' /\ Phases' /\ C' => IInv'
    BY <1>d DEF IInv
  <1>p. pc \in {"loop", "saturated"} => exited = {} /\ held = None /\ ~closed
    <2>1. pc \in {"loop", "saturated"} => ~closed
      BY <1>i DEF Phases
    <2>2. pc \in {"loop", "saturated"} => exited = {}
      BY <1>i, <2>1 DEF Phases
    <2>3. pc \in {"loop", "saturated"} => held = None
      BY <1>i DEF Phases
    <2> QED
      BY <2>1, <2>2, <2>3
  <1>1. ASSUME NEW x \in Conns, DispatchPool(x) PROVE IInv'
    <2>1. /\ pc = "loop" /\ stage[x] = "idle" /\ closes[x] = 0
          /\ kind' = [kind EXCEPT ![x] = "Pool"]
          /\ UNCHANGED <<closed, inHand, exited, doneCh, closes, drainer, held>>
      BY <1>1 DEF DispatchPool, Free, Open, drainVars
    <2>2. /\ x \notin In(jobs) /\ x \notin In(doneCh) /\ held # x /\ sat = None
          /\ held = None /\ exited = {} /\ \A g \in PoolGs : inHand[g] # x
      BY <1>i, <1>t, <1>p, <2>1 DEF Queued, Reported, Served
    <2>3. CASE JobRoom
      <3>1. /\ jobs' = Append(jobs, x)
            /\ stage' = [stage EXCEPT ![x] = "queued"]
            /\ UNCHANGED <<pc, sat>>
        BY <1>1, <2>3 DEF DispatchPool, At
      <3>2. In(jobs') = In(jobs) \cup {x} /\ Distinct(jobs')
        BY <1>t, <1>i, <2>2, <3>1, SendFacts DEF Queued
      <3>3. Queued'
        BY <1>t, <1>i, <2>1, <3>1, <3>2 DEF Queued
      <3>4. Served'
        BY <1>t, <1>i, <2>1, <2>2, <3>1 DEF Served
      <3>5. Reported'
        BY <1>t, <1>i, <2>1, <2>2, <3>1 DEF Reported
      <3>k. Kinds'
        BY <1>t, <1>i, <2>1, <2>2, <3>1 DEF Kinds, None
      <3>6. Phases'
        BY <1>t, <1>b, <1>i, <2>1, <2>2, <3>1 DEF Phases
      <3>7. C'
        BY <1>t, <1>c, <2>1, <2>2, <3>1 DEF Writing
      <3> QED
        BY <1>g, <3>3, <3>4, <3>5, <3>k, <3>6, <3>7
    <2>4. CASE ~JobRoom
      <3>1. /\ jobs' = jobs /\ stage' = [stage EXCEPT ![x] = "sending"]
            /\ pc' = "saturated" /\ sat' = x
        BY <1>1, <2>4 DEF DispatchPool, At
      <3>3. Queued'
        BY <1>t, <1>i, <2>1, <2>2, <3>1 DEF Queued
      <3>4. Served'
        BY <1>t, <1>i, <2>1, <2>2, <3>1 DEF Served
      <3>5. Reported'
        BY <1>t, <1>i, <2>1, <2>2, <3>1 DEF Reported
      <3>k. Kinds'
        BY <1>t, <1>i, <2>1, <2>2, <3>1 DEF Kinds, None
      <3>6. Phases'
        BY <1>t, <1>b, <1>i, <2>1, <2>2, <3>1 DEF Phases
      <3>7. C'
        BY <1>t, <1>c, <2>1, <2>2, <3>1 DEF Writing
      <3> QED
        BY <1>g, <3>3, <3>4, <3>5, <3>k, <3>6, <3>7
    <2> QED
      BY <2>3, <2>4
  <1>2. ASSUME SaturatedSend PROVE IInv'
    <2>1. /\ pc = "saturated" /\ doneCh' = Append(doneCh, sat)
          /\ stage' = [stage EXCEPT ![sat] = "sent"] /\ pc' = "loop"
          /\ sat' = None
          /\ UNCHANGED <<kind, jobs, closed, inHand, exited, closes, drainer,
                         held>>
      BY <1>2 DEF SaturatedSend, At, poolVars, drainVars
    <2>2. /\ sat \in Conns /\ stage[sat] = "sending" /\ kind[sat] = "Pool"
          /\ sat \notin In(jobs) /\ sat \notin In(doneCh) /\ held = None
          /\ \A g \in PoolGs : inHand[g] # sat
      BY <1>i, <1>t, <1>p, <2>1 DEF Queued, Reported, Served
    <2>3. In(doneCh') = In(doneCh) \cup {sat} /\ Distinct(doneCh')
      BY <1>t, <1>i, <2>1, <2>2, SendFacts DEF Reported
    <2>4. Queued'
      BY <1>t, <1>i, <2>1, <2>2 DEF Queued
    <2>5. Served'
      BY <1>t, <1>i, <2>1, <2>2 DEF Served
    <2>6. Reported'
      BY <1>t, <1>i, <2>1, <2>2, <2>3 DEF Reported
    <2>7. Kinds'
      BY <1>t, <1>i, <2>1, <2>2 DEF Kinds, None
    <2>8. Phases'
      BY <1>t, <1>b, <1>i, <1>p, <2>1, <2>2 DEF Phases
    <2>9. C'
      BY <1>t, <1>c, <2>1, <2>2, <2>3 DEF Writing
    <2> QED
      BY <1>g, <2>4, <2>5, <2>6, <2>7, <2>8, <2>9
  <1>3. ASSUME NEW x \in Conns, DispatchGoroutine(x) PROVE IInv'
    <2>1. PICK d \in Dispatches \ {"Pool"} : kind' = [kind EXCEPT ![x] = d]
      BY <1>3 DEF DispatchGoroutine
    <2>2. d \in {"Spawn", "Takeover"}
      BY ConstantsAssumption DEF Dispatches, TypeOK
    <2>3. /\ pc = "loop" /\ stage[x] = "idle" /\ closes[x] = 0
          /\ stage' = [stage EXCEPT ![x] = "running"]
          /\ UNCHANGED <<jobs, closed, inHand, exited, doneCh, closes, drainer,
                         held, pc, sat>>
      BY <1>3 DEF DispatchGoroutine, Free, Open, At, poolVars, drainVars
    <2>4. /\ x \notin In(jobs) /\ x \notin In(doneCh) /\ sat = None
          /\ held = None /\ exited = {} /\ \A g \in PoolGs : inHand[g] # x
      BY <1>i, <1>t, <1>p, <2>3 DEF Queued, Reported, Served
    <2>5. Queued'
      BY <1>t, <1>i, <2>1, <2>2, <2>3, <2>4 DEF Queued
    <2>6. Served'
      BY <1>t, <1>i, <2>1, <2>2, <2>3, <2>4 DEF Served
    <2>7. Reported'
      BY <1>t, <1>i, <2>3, <2>4 DEF Reported
    <2>8. Kinds'
      BY <1>t, <1>i, <2>1, <2>2, <2>3 DEF Kinds, None
    <2>9. Phases'
      BY <1>t, <1>b, <1>i, <1>p, <2>3, <2>4 DEF Phases
    <2>10. C'
      BY <1>t, <1>c, <2>1, <2>2, <2>3, <2>4 DEF Writing
    <2> QED
      BY <1>g, <2>5, <2>6, <2>7, <2>8, <2>9, <2>10
  <1>4. ASSUME HandleDone PROVE IInv'
    <2> DEFINE x == Head(doneCh)
    <2>1. /\ pc = "loop" /\ doneCh # <<>> /\ doneCh' = Tail(doneCh)
          /\ stage' = [stage EXCEPT ![x] = "idle"]
          /\ closes' \in {closes, [closes EXCEPT ![x] = closes[x] + 1]}
          /\ UNCHANGED <<kind, jobs, closed, inHand, exited, drainer, held, pc,
                         sat>>
      BY <1>4 DEF HandleDone, At, CloseFd, poolVars, drainVars
    <2>2. /\ x \in Conns /\ x \in In(doneCh)
          /\ In(doneCh') = In(doneCh) \ {x} /\ Distinct(doneCh')
      BY <1>t, <1>i, <2>1, ReceiveFacts DEF Reported
    <2> HIDE DEF x
    <2>3. /\ stage[x] = "sent" /\ closes[x] = 0 /\ held = None /\ sat = None
          /\ x \notin In(jobs) /\ \A g \in PoolGs : inHand[g] # x
      <3>1. stage[x] = "sent" /\ held = None
        BY <1>i, <1>p, <2>1, <2>2 DEF Reported
      <3>2. closes[x] = 0
        BY <1>c, <2>1, <2>2, <3>1
      <3>3. sat = None /\ x \notin In(jobs) /\ \A g \in PoolGs : inHand[g] # x
        BY <1>i, <1>t, <2>1, <2>2, <3>1 DEF Queued, Served
      <3> QED
        BY <3>1, <3>2, <3>3
    <2>4. Queued'
      BY <1>t, <1>i, <2>1, <2>2, <2>3 DEF Queued
    <2>5. Served'
      BY <1>t, <1>i, <2>1, <2>2, <2>3 DEF Served
    <2>6. Reported'
      BY <1>t, <1>i, <2>1, <2>2, <2>3 DEF Reported
    <2>7. Kinds'
      BY <1>t, <1>i, <2>1, <2>2 DEF Kinds
    <2>8. Phases'
      BY <1>t, <1>b, <1>i, <1>p, <2>1, <2>2 DEF Phases
    <2>9. C'
      <3>1. /\ closes'[x] \in {0, 1}
            /\ \A y \in Conns : y # x => closes'[y] = closes[y]
        BY <1>t, <2>1, <2>2, <2>3
      <3>2. stage'[x] = "idle" /\ \A y \in Conns : y # x => stage'[y] = stage[y]
        BY <1>t, <2>1, <2>2
      <3>3. pc' = "loop" /\ pc = "loop" /\ kind' = kind /\ held' = held
        BY <2>1
      <3> QED
        BY <1>c, <2>2, <3>1, <3>2, <3>3 DEF Writing
    <2> QED
      BY <1>g, <2>4, <2>5, <2>6, <2>7, <2>8, <2>9
  <1>5. ASSUME NEW g \in PoolGs, PoolTakes(g) PROVE IInv'
    <2> DEFINE x == Head(jobs)
    <2>1. /\ g \notin exited /\ inHand[g] = None /\ jobs # <<>>
          /\ inHand' = [inHand EXCEPT ![g] = x] /\ jobs' = Tail(jobs)
          /\ stage' = [stage EXCEPT ![x] = "running"]
          /\ UNCHANGED <<kind, closed, exited, doneCh, closes, drainer, held,
                         pc, sat>>
      BY <1>5 DEF PoolTakes, At, drainVars
    <2>2. /\ x \in Conns /\ x \in In(jobs)
          /\ In(jobs') = In(jobs) \ {x} /\ Distinct(jobs')
      BY <1>t, <1>i, <2>1, ReceiveFacts DEF Queued
    <2> HIDE DEF x
    <2>3. /\ stage[x] = "queued" /\ kind[x] = "Pool" /\ closes[x] = 0
          /\ x # held /\ x # sat /\ x # None /\ x \notin In(doneCh)
          /\ \A h \in PoolGs : inHand[h] # x
      <3>1. stage[x] = "queued" /\ kind[x] = "Pool" /\ x # None
        BY <1>i, <1>t, <2>2 DEF Queued
      <3>2. closes[x] = 0
        BY <1>c, <2>2, <3>1 DEF Writing
      <3>3. x # held /\ x \notin In(doneCh)
        BY <1>i, <1>t, <2>2, <3>1 DEF Reported
      <3>4. x # sat /\ \A h \in PoolGs : inHand[h] # x
        BY <1>i, <1>t, <2>2, <3>1 DEF Served
      <3> QED
        BY <3>1, <3>2, <3>3, <3>4
    <2>4. exited = {}
      BY <1>i, <2>1 DEF Phases
    <2>5. Queued'
      BY <1>t, <1>i, <2>1, <2>2, <2>3 DEF Queued
    <2>6. Served'
      BY <1>t, <1>i, <2>1, <2>2, <2>3 DEF Served
    <2>7. Reported'
      BY <1>t, <1>i, <2>1, <2>2, <2>3 DEF Reported
    <2>8. Kinds'
      BY <1>t, <1>i, <2>1, <2>2, <2>3 DEF Kinds, None
    <2>9. Phases'
      BY <1>t, <1>b, <1>i, <2>1, <2>2, <2>4 DEF Phases
    <2>10. C'
      BY <1>t, <1>c, <2>1, <2>2, <2>3 DEF Writing
    <2> QED
      BY <1>g, <2>5, <2>6, <2>7, <2>8, <2>9, <2>10
  <1>6. ASSUME NEW g \in PoolGs, PoolSends(g) PROVE IInv'
    <2> DEFINE x == inHand[g]
    <2>1. /\ x # None /\ stage[x] = "sending" /\ doneCh' = Append(doneCh, x)
          /\ stage' = [stage EXCEPT ![x] = "sent"]
          /\ inHand' = [inHand EXCEPT ![g] = None]
          /\ UNCHANGED <<kind, jobs, closed, exited, closes, drainer, held, pc,
                         sat>>
      BY <1>6 DEF PoolSends, At, drainVars
    <2>2. /\ x \in Conns /\ kind[x] = "Pool" /\ closes[x] = 0 /\ x # held
          /\ x # sat /\ x \notin In(doneCh) /\ x \notin In(jobs)
          /\ \A h \in PoolGs : h # g => inHand[h] # x
          /\ g \notin exited
      BY <1>i, <1>t, <1>c, <2>1
         DEF Queued, Reported, Served, Writing, Phases
    <2>3. In(doneCh') = In(doneCh) \cup {x} /\ Distinct(doneCh')
      BY <1>t, <1>i, <2>1, <2>2, SendFacts DEF Reported
    <2>4. /\ pc \notin {"dispatchWait", "drainBuffered", "closeFds", "stopped"}
          /\ inHand'[g] = None
          /\ \A h \in PoolGs : h # g => inHand'[h] = inHand[h]
      BY <1>t, <1>i, <2>1, <2>2 DEF Phases
    <2> HIDE DEF x
    <2>5. Queued'
      BY <1>t, <1>i, <2>1, <2>2 DEF Queued
    <2>6. Served'
      BY <1>t, <1>i, <2>1, <2>2, <2>4 DEF Served, x
    <2>7. Reported'
      BY <1>t, <1>i, <2>1, <2>2, <2>3 DEF Reported
    <2>8. Kinds'
      BY <1>t, <1>i, <2>1, <2>2 DEF Kinds, None
    <2>9. Phases'
      BY <1>t, <1>b, <1>i, <2>1, <2>2, <2>4 DEF Phases
    <2>10. C'
      BY <1>t, <1>c, <2>1, <2>2, <2>3 DEF Writing
    <2> QED
      BY <1>g, <2>5, <2>6, <2>7, <2>8, <2>9, <2>10
  \* A goroutine that holds a request moves it from running to sending.
  <1>w. ASSUME NEW x \in Conns, stage[x] = "running",
               stage' = [stage EXCEPT ![x] = "sending"],
               UNCHANGED <<kind, poolVars, doneCh, closes, drainVars, pc, sat>>
        PROVE  IInv'
    <2>1. UNCHANGED <<kind, jobs, closed, inHand, exited, doneCh, closes,
                      drainer, held, pc, sat>>
      BY <1>w DEF poolVars, drainVars
    <2>2. /\ stage'[x] = "sending"
          /\ \A y \in Conns : y # x => stage'[y] = stage[y]
      BY <1>t, <1>w
    <2>3. Queued' /\ Reported'
      BY <1>t, <1>i, <1>w, <2>1, <2>2 DEF Queued, Reported
    <2>4. Served'
      BY <1>t, <1>i, <1>w, <2>1, <2>2 DEF Served
    <2>5. Kinds'
      BY <1>i, <1>w, <2>1, <2>2 DEF Kinds
    <2>6. Phases'
      BY <1>t, <1>b, <1>i, <1>w, <2>1, <2>2 DEF Phases, DispatchDone
    <2>7. C'
      BY <1>c, <1>w, <2>1, <2>2 DEF Writing
    <2> QED
      BY <1>g, <2>3, <2>4, <2>5, <2>6, <2>7
  <1>7. ASSUME NEW g \in PoolGs, PoolWrites(g) PROVE IInv'
    <2>1. inHand[g] \in Conns
      BY <1>t, <1>7 DEF PoolWrites
    <2> QED
      BY <1>w, <1>7, <2>1 DEF PoolWrites, At
  <1>8. ASSUME NEW x \in Conns, SpawnWrites(x) \/ TakeoverEnds(x) PROVE IInv'
    BY <1>w, <1>8 DEF SpawnWrites, TakeoverEnds, At
  <1>9. ASSUME NEW g \in PoolGs, PoolExits(g) PROVE IInv'
    <2>1. /\ inHand[g] = None /\ jobs = <<>> /\ closed
          /\ exited' = exited \cup {g}
          /\ UNCHANGED <<kind, stage, jobs, closed, inHand, doneCh, closes,
                         drainer, held, pc, sat>>
      BY <1>9 DEF PoolExits, drainVars
    <2>2. Queued' /\ Reported' /\ Kinds'
      BY <1>i, <2>1 DEF Queued, Reported, Kinds
    <2>3. Served'
      BY <1>i, <2>1 DEF Served
    <2>4. Phases'
      BY <1>t, <1>b, <1>i, <2>1 DEF Phases, DispatchDone
    <2>5. C'
      BY <1>c, <2>1 DEF Writing
    <2> QED
      BY <1>g, <2>2, <2>3, <2>4, <2>5
  <1>10. ASSUME NEW x \in Conns, GoroutineSends(x) PROVE IInv'
    <2>1. /\ kind[x] \in {"Spawn", "Takeover"} /\ stage[x] = "sending"
          /\ doneCh' = Append(doneCh, x)
          /\ stage' = [stage EXCEPT ![x] = "sent"]
          /\ UNCHANGED <<kind, jobs, closed, inHand, exited, closes, drainer,
                         held, pc, sat>>
      BY <1>10 DEF GoroutineSends, At, poolVars, drainVars
    <2>2. /\ stage'[x] = "sent"
          /\ \A y \in Conns : y # x => stage'[y] = stage[y]
      BY <1>t, <2>1
    <2>3. x \notin In(doneCh) /\ x # held
      BY <1>i, <1>t, <2>1 DEF Reported
    <2>4. x \notin In(jobs) /\ x # sat /\ \A g \in PoolGs : inHand[g] # x
      <3>1. kind[x] # "Pool" /\ x # None
        BY <1>t, <2>1
      <3>2. x # sat /\ \A g \in PoolGs : inHand[g] # x
        BY <1>i, <3>1 DEF Served
      <3> QED
        BY <1>i, <2>1, <3>2 DEF Queued
    <2>5. closes[x] = 0
      BY <1>c, <2>1 DEF Writing
    <2>6. In(doneCh') = In(doneCh) \cup {x} /\ Distinct(doneCh')
      BY <1>t, <1>i, <2>1, <2>3, SendFacts DEF Reported
    <2>7. pc \notin {"drainBuffered", "closeFds", "stopped"}
      BY <1>i, <2>1 DEF Phases, DispatchDone
    <2>8. Queued'
      BY <1>t, <1>i, <2>1, <2>2, <2>4 DEF Queued
    <2>9. Served'
      BY <1>t, <1>i, <2>1, <2>2, <2>4 DEF Served
    <2>10. Reported'
      BY <1>t, <1>i, <2>1, <2>2, <2>3, <2>6 DEF Reported
    <2>11. Kinds'
      BY <1>i, <2>1, <2>2 DEF Kinds
    <2>12. Phases'
      BY <1>t, <1>b, <1>i, <2>1, <2>2, <2>7 DEF Phases
    <2>13. C'
      BY <1>t, <1>c, <2>1, <2>2, <2>3, <2>5, <2>6, <2>7 DEF Writing
    <2> QED
      BY <1>g, <2>8, <2>9, <2>10, <2>11, <2>12, <2>13
  \* Steps of the loop and of cleanup that move no request and close no fd.
  <1>s. ASSUME UNCHANGED <<kind, stage, jobs, inHand, doneCh, closes, held,
                           sat>>,
               pc' = "saturated" <=> pc = "saturated",
               pc' = "stopped" <=> pc = "stopped", Phases'
        PROVE  IInv'
    <2>1. Queued' /\ Reported' /\ Kinds'
      BY <1>i, <1>s DEF Queued, Reported, Kinds
    <2>2. Served'
      BY <1>i, <1>s DEF Served
    <2>3. C'
      BY <1>c, <1>s DEF Writing
    <2> QED
      BY <1>g, <1>s, <2>1, <2>2, <2>3
  <1>11. ASSUME CloseJobs PROVE IInv'
    <2>1. /\ pc = "loop" /\ pc' = "poolWait" /\ closed' = TRUE
          /\ UNCHANGED <<kind, stage, jobs, inHand, exited, doneCh, closes,
                         drainer, held, sat>>
      BY <1>11 DEF CloseJobs, drainVars
    <2>2. Phases'
      BY <1>t, <1>b, <1>i, <1>p, <2>1 DEF Phases
    <2> QED
      BY <1>s, <2>1, <2>2
  <1>12. ASSUME ShutDownConns PROVE IInv'
    <2>1. /\ pc = "poolWait" /\ pc' = "dispatchWait" /\ exited = PoolGs
          /\ drainer' = "on"
          /\ UNCHANGED <<kind, stage, jobs, closed, inHand, exited, doneCh,
                         closes, held, sat>>
      BY <1>12 DEF ShutDownConns, PoolGone, poolVars
    <2>2. Phases'
      BY <1>t, <1>b, <1>i, <2>1 DEF Phases
    <2> QED
      BY <1>s, <2>1, <2>2
  <1>13. ASSUME StopDrain PROVE IInv'
    <2>1. /\ pc = "dispatchWait" /\ pc' = "drainBuffered" /\ DispatchDone
          /\ UNCHANGED <<kind, stage, jobs, closed, inHand, exited, doneCh,
                         closes, drainer, held, sat>>
      BY <1>13 DEF StopDrain, poolVars
    <2>2. Phases'
      BY <1>t, <1>b, <1>i, <2>1 DEF Phases, DispatchDone
    <2> QED
      BY <1>s, <2>1, <2>2
  <1>14. ASSUME DrainStops PROVE IInv'
    <2>1. /\ held = None /\ drainer = "on" /\ drainer' = "gone"
          /\ UNCHANGED <<kind, stage, jobs, closed, inHand, exited, doneCh,
                         closes, held, sat, pc>>
      BY <1>14 DEF DrainStops, poolVars
    <2>2. Phases'
      BY <1>t, <1>b, <1>i, <2>1 DEF Phases, DispatchDone
    <2> QED
      BY <1>s, <2>1, <2>2
  <1>15. ASSUME Shutdown \/ Terminated \/ UNCHANGED vars PROVE IInv'
    <2>1. UNCHANGED <<kind, stage, jobs, closed, inHand, exited, doneCh,
                      closes, drainer, held, sat, pc>>
      BY <1>15 DEF Shutdown, Terminated, vars, poolVars, drainVars
    <2>2. Phases'
      BY <1>i, <2>1 DEF Phases, DispatchDone
    <2> QED
      BY <1>s, <2>1, <2>2
  <1>16. ASSUME DrainReceives PROVE IInv'
    <2> DEFINE x == Head(doneCh)
    <2>1. /\ drainer = "on" /\ held = None /\ doneCh # <<>>
          /\ held' = x /\ doneCh' = Tail(doneCh)
          /\ UNCHANGED <<kind, stage, jobs, closed, inHand, exited, closes,
                         drainer, sat, pc>>
      BY <1>16 DEF DrainReceives, poolVars
    <2>2. /\ x \in Conns /\ x \in In(doneCh)
          /\ In(doneCh') = In(doneCh) \ {x} /\ Distinct(doneCh')
      BY <1>t, <1>i, <2>1, ReceiveFacts DEF Reported
    <2>3. pc \notin {"closeFds", "stopped"}
      BY <1>i, <2>1 DEF Phases
    <2> HIDE DEF x
    <2>4. Queued' /\ Kinds'
      BY <1>i, <2>1 DEF Queued, Kinds
    <2>5. Served'
      BY <1>i, <2>1 DEF Served
    <2>6. Reported'
      BY <1>t, <1>i, <2>1, <2>2 DEF Reported
    <2>7. Phases'
      BY <1>t, <1>b, <1>i, <2>1, <2>3 DEF Phases, DispatchDone
    <2>8. C'
      BY <1>t, <1>c, <2>1, <2>2, <2>3 DEF Writing
    <2> QED
      BY <1>g, <2>4, <2>5, <2>6, <2>7, <2>8
  <1>17. ASSUME DrainActs PROVE IInv'
    <2>1. /\ held # None /\ held' = None /\ held \in Conns
          /\ UNCHANGED <<kind, stage, jobs, closed, inHand, exited, doneCh,
                         drainer, sat, pc>>
      BY <1>17, <1>t DEF DrainActs, poolVars
    <2>2. stage[held] = "sent" /\ held \notin In(doneCh)
      BY <1>i, <2>1 DEF Reported
    <2>3. Queued' /\ Kinds'
      BY <1>i, <2>1 DEF Queued, Kinds
    <2>4. Served'
      BY <1>i, <2>1 DEF Served
    <2>5. Reported'
      BY <1>i, <2>1 DEF Reported
    <2>6. Phases'
      BY <1>t, <1>b, <1>i, <2>1 DEF Phases, DispatchDone
    <2>7. CASE kind[held] = "Takeover"
      <3>1. closes' = [closes EXCEPT ![held] = closes[held] + 1]
        BY <1>17, <2>7 DEF DrainActs, CloseFd
      <3>2. closes[held] = 0
        BY <1>c, <2>1, <2>2, <2>7
      <3>3. /\ closes'[held] = 1
            /\ \A y \in Conns : y # held => closes'[y] = closes[y]
        BY <1>t, <2>1, <3>1, <3>2
      <3>4. C'
        <4>1. \A y \in Conns : closes'[y] <= 1
          BY <1>c, <3>3
        <4>2. \A y \in Conns : Writing(y) => y # held
          BY <2>2 DEF Writing
        <4>3. \A y \in Conns : stage[y] = "sent" /\ kind[y] = "Takeover" =>
                (closes'[y] = 0 <=> y \in In(doneCh))
          BY <1>c, <2>2, <3>3
        <4> QED
          BY <1>t, <1>c, <2>1, <2>7, <3>3, <4>1, <4>2, <4>3 DEF Writing
      <3> QED
        BY <1>g, <2>3, <2>4, <2>5, <2>6, <3>4
    <2>8. CASE kind[held] # "Takeover"
      <3>1. closes' = closes
        BY <1>17, <2>8 DEF DrainActs
      <3>2. C'
        BY <1>t, <1>c, <2>1, <2>2, <2>8, <3>1 DEF Writing
      <3> QED
        BY <1>g, <2>3, <2>4, <2>5, <2>6, <3>2
    <2> QED
      BY <2>7, <2>8
  <1>18. ASSUME DrainBuffered, doneCh # <<>> PROVE IInv'
    <2> DEFINE x == Head(doneCh)
    <2>1. /\ pc = "drainBuffered" /\ doneCh' = Tail(doneCh)
          /\ UNCHANGED <<kind, stage, jobs, closed, inHand, exited, drainer,
                         held, sat, pc>>
      BY <1>18 DEF DrainBuffered, poolVars, drainVars
    <2>2. /\ x \in Conns /\ x \in In(doneCh)
          /\ In(doneCh') = In(doneCh) \ {x} /\ Distinct(doneCh')
      BY <1>t, <1>i, <1>18, <2>1, ReceiveFacts DEF Reported
    <2>3. /\ kind[x] = "Takeover" =>
               closes' = [closes EXCEPT ![x] = closes[x] + 1]
          /\ kind[x] # "Takeover" => closes' = closes
      BY <1>18 DEF DrainBuffered, CloseFd
    <2> HIDE DEF x
    <2>4. stage[x] = "sent" /\ held # x
      BY <1>i, <1>t, <2>2 DEF Reported
    <2>5. closes[x] = 0
      BY <1>c, <2>1, <2>2, <2>4
    <2>6. /\ closes'[x] = IF kind[x] = "Takeover" THEN 1 ELSE 0
          /\ \A y \in Conns : y # x => closes'[y] = closes[y]
      BY <1>t, <2>2, <2>3, <2>5
    <2>7. Queued' /\ Kinds'
      BY <1>i, <2>1 DEF Queued, Kinds
    <2>8. Served'
      BY <1>i, <2>1 DEF Served
    <2>9. Reported'
      BY <1>t, <1>i, <2>1, <2>2 DEF Reported
    <2>10. Phases'
      BY <1>t, <1>b, <1>i, <2>1 DEF Phases, DispatchDone
    <2>11. C'
      <3>1. \A y \in Conns : closes'[y] <= 1
        BY <1>c, <2>6
      <3>2. \A y \in Conns : Writing(y) => y # x
        BY <2>4 DEF Writing
      <3>3. \A y \in Conns : stage[y] = "sent" /\ kind[y] = "Takeover" =>
              (closes'[y] = 0 <=> (y \in In(doneCh') \/ held = y))
        BY <1>c, <2>2, <2>4, <2>6
      <3>4. \A y \in Conns : stage[y] = "sent" /\ kind[y] # "Takeover" =>
              closes'[y] = 0
        BY <1>c, <2>1, <2>6
      <3> QED
        BY <1>c, <2>1, <2>6, <3>1, <3>2, <3>3, <3>4 DEF Writing
    <2> QED
      BY <1>g, <2>7, <2>8, <2>9, <2>10, <2>11
  <1>19. ASSUME DrainBuffered, doneCh = <<>> PROVE IInv'
    <2>1. /\ pc = "drainBuffered" /\ pc' = "closeFds"
          /\ UNCHANGED <<kind, stage, jobs, closed, inHand, exited, doneCh,
                         closes, drainer, held, sat>>
      BY <1>19 DEF DrainBuffered, poolVars, drainVars
    <2>2. Phases'
      BY <1>t, <1>b, <1>i, <1>19, <2>1 DEF Phases, DispatchDone
    <2> QED
      BY <1>s, <2>1, <2>2
  <1>20. ASSUME CloseFds PROVE IInv'
    <2>1. /\ pc = "closeFds" /\ pc' = "stopped"
          /\ UNCHANGED <<kind, stage, jobs, closed, inHand, exited, doneCh,
                         drainer, held, sat>>
      BY <1>20 DEF CloseFds, poolVars, drainVars
    <2>2. \A x \in Conns : ~Writing(x)
      <3>1. exited = PoolGs /\ jobs = <<>> /\ sat = None
            /\ \A g \in PoolGs : inHand[g] = None
        BY <1>i, <1>t, <2>1 DEF Phases, Served
      <3>2. \A x \in Conns : stage[x] # "queued"
        BY <1>i, <3>1, EmptyChannel DEF Queued
      <3>3. \A x \in Conns : stage[x] \in {"running", "sending"} =>
              kind[x] # "Pool"
        BY <1>i, <1>t, <3>1 DEF Served
      <3>4. \A x \in Conns : stage[x] \in {"running", "sending"} =>
              kind[x] \notin {"Spawn", "Takeover"} /\ kind[x] # None
        BY <1>i, <2>1 DEF Phases, DispatchDone, Kinds
      <3> QED
        BY <1>t, <3>2, <3>3, <3>4 DEF Writing
    <2>3. In(doneCh) = {}
      BY <1>i, <2>1, EmptyChannel DEF Phases
    <2>4. \A x \in Conns :
            closes'[x] = IF closes[x] = 0
                              /\ ~(kind[x] = "Takeover" /\ stage[x] # "idle")
                         THEN closes[x] + 1 ELSE closes[x]
      BY <1>20 DEF CloseFds, Remaining, Open, TakenOver
    <2>5. Queued' /\ Reported' /\ Kinds'
      BY <1>i, <2>1 DEF Queued, Reported, Kinds
    <2>6. Served'
      BY <1>i, <2>1 DEF Served
    <2>7. Phases'
      BY <1>t, <1>b, <1>i, <2>1 DEF Phases, DispatchDone
    <2>8. ASSUME NEW x \in Conns
          PROVE  /\ closes'[x] <= 1
                 /\ stage[x] = "sent" /\ kind[x] = "Takeover" =>
                      closes'[x] = closes[x]
                 /\ closes'[x] = 0 => held = x /\ kind[x] = "Takeover"
      <3>1. closes[x] \in Nat /\ closes[x] <= 1 /\ stage[x] \in {"idle", "sent"}
        BY <1>t, <1>c, <2>2 DEF Writing
      <3> QED
        BY <1>c, <2>3, <2>4, <3>1
    <2>9. C'
      BY <1>c, <2>1, <2>2, <2>3, <2>8 DEF Writing
    <2> QED
      BY <1>g, <2>5, <2>6, <2>7, <2>9
  <1> QED
    BY <1>1, <1>2, <1>3, <1>4, <1>5, <1>6, <1>7, <1>8, <1>9, <1>10, <1>11,
       <1>12, <1>13, <1>14, <1>15, <1>16, <1>17, <1>18, <1>19, <1>20
       DEF Next, LoopStep, PoolStep, DrainStep

-----------------------------------------------------------------------------
(* What follows from the invariant. *)

Inductive == TypeOK /\ IInv

LEMMA InductiveHolds == Spec => []Inductive
  <1>1. Init => Inductive
    BY TypeInit, IInvInit DEF Inductive
  <1>2. Inductive /\ [Next]_vars => Inductive'
    <2> SUFFICES ASSUME Inductive, [Next]_vars PROVE Inductive'
      OBVIOUS
    <2>1. TypeOK /\ IInv /\ Served
      BY DEF Inductive, IInv
    <2>2. TypeOK' /\ IInv'
      BY <2>1, TypeStep, IInvStep
    <2> QED
      BY <2>2 DEF Inductive
  <1> QED
    BY <1>1, <1>2, PTL DEF Spec

\* At most one element of a finite set has the property that singles x out.
LEMMA AtMostOne ==
  ASSUME NEW S, IsFiniteSet(S), \A a, b \in S : a = b
  PROVE  /\ Cardinality(S) \in {0, 1}
         /\ S = {} => Cardinality(S) = 0
  <1>1. CASE S = {}
    BY <1>1, FS_EmptySet
  <1>2. CASE S # {}
    <2>1. PICK a : a \in S
      BY <1>2
    <2>2. S = {a}
      BY <2>1
    <2> QED
      BY <1>2, <2>2, FS_Singleton
  <1> QED
    BY <1>1, <1>2

\* How often a connection is in a channel of distinct ones.
LEMMA InChannel ==
  ASSUME NEW S, NEW ch \in Seq(S), Distinct(ch), NEW x
  PROVE  LET c == Cardinality({n \in 1..Len(ch) : ch[n] = x})
         IN  c \in {0, 1} /\ (x \notin In(ch) => c = 0)
  <1> DEFINE P == {n \in 1..Len(ch) : ch[n] = x}
  <1>1. IsFiniteSet(1..Len(ch))
    BY LenProperties, FS_Interval
  <1>2. IsFiniteSet(P)
    BY <1>1, FS_Subset
  <1>3. \A m, n \in P : m = n
    BY DEF Distinct
  <1>4. x \notin In(ch) => P = {}
    BY DEF In
  <1> HIDE DEF P
  <1>5. Cardinality(P) \in {0, 1} /\ (x \notin In(ch) => Cardinality(P) = 0)
    BY <1>2, <1>3, <1>4, AtMostOne
  <1> QED
    BY <1>5 DEF P

LEMMA OnePlace == Inductive => OneInFlight
  <1> SUFFICES ASSUME Inductive PROVE OneInFlight
    OBVIOUS
  <1>t. /\ stage \in [Conns -> {"idle", "queued", "running", "sending", "sent"}]
        /\ jobs \in Seq(Conns) /\ doneCh \in Seq(Conns)
        /\ None \notin Conns /\ IsFiniteSet(PoolGs)
    BY ConstantsAssumption DEF Inductive, TypeOK
  <1>i. Queued /\ Served /\ Reported
    BY DEF Inductive, IInv
  <1>1. ASSUME NEW x \in Conns
        PROVE  LET places ==
                     Cardinality({n \in 1..Len(jobs) : jobs[n] = x})
                     + Cardinality({g \in PoolGs : inHand[g] = x})
                     + Cardinality({n \in 1..Len(doneCh) : doneCh[n] = x})
                     + (IF held = x THEN 1 ELSE 0) + (IF sat = x THEN 1 ELSE 0)
               IN  places <= 1 /\ (stage[x] = "idle" => places = 0)
    <2> DEFINE q == Cardinality({n \in 1..Len(jobs) : jobs[n] = x})
               H == {g \in PoolGs : inHand[g] = x}
               d == Cardinality({n \in 1..Len(doneCh) : doneCh[n] = x})
    <2>1. q \in {0, 1} /\ (stage[x] # "queued" => q = 0)
      BY <1>t, <1>i, InChannel DEF Queued
    <2>2. Cardinality(H) \in {0, 1} /\ (H = {} => Cardinality(H) = 0)
      <3>1. IsFiniteSet(H)
        BY <1>t, FS_Subset
      <3>2. \A g, h \in H : g = h
        BY <1>i, <1>t DEF Served
      <3> HIDE DEF H
      <3> QED
        BY <3>1, <3>2, AtMostOne
    <2>3. /\ stage[x] \notin {"running", "sending"} => H = {}
          /\ sat = x => H = {}
      BY <1>i, <1>t DEF Served
    <2>4. d \in {0, 1} /\ (stage[x] # "sent" \/ held = x => d = 0)
      <3>1. stage[x] # "sent" \/ held = x => x \notin In(doneCh)
        BY <1>i, <1>t DEF Reported
      <3> HIDE DEF d
      <3>2. d \in {0, 1} /\ (x \notin In(doneCh) => d = 0)
        BY <1>t, <1>i, InChannel DEF Reported, d
      <3> QED
        BY <3>1, <3>2
    <2>5. /\ held = x => stage[x] = "sent"
          /\ sat = x => stage[x] = "sending"
      BY <1>i, <1>t DEF Reported, Served
    <2> HIDE DEF q, H, d
    <2>6. LET places == q + Cardinality(H) + d + (IF held = x THEN 1 ELSE 0)
                        + (IF sat = x THEN 1 ELSE 0)
          IN  places <= 1 /\ (stage[x] = "idle" => places = 0)
      <3>1. CASE stage[x] = "idle"
        BY <2>1, <2>2, <2>3, <2>4, <2>5, <3>1
      <3>2. CASE stage[x] = "queued"
        BY <2>1, <2>2, <2>3, <2>4, <2>5, <3>2
      <3>3. CASE stage[x] \in {"running", "sending"}
        BY <2>1, <2>2, <2>3, <2>4, <2>5, <3>3
      <3>4. CASE stage[x] = "sent"
        BY <2>1, <2>2, <2>3, <2>4, <2>5, <3>4
      <3> QED
        BY <1>t, <3>1, <3>2, <3>3, <3>4
    <2> QED
      BY <2>6 DEF q, H, d
  <1> QED
    BY <1>1 DEF OneInFlight

\* The worker's state keeps its type, with any capacities: neither pool.jobs
\* nor doneCh ever holds more than it was made for.
THEOREM TypeCorrect == Spec => []TypeOK
  <1>1. Inductive => TypeOK
    BY DEF Inductive
  <1> QED
    BY <1>1, InductiveHolds, PTL

\* Cleanup closes no fd to which a handler of the pool, a Spawn or a Takeover
\* goroutine may still write: pool.wg and dispatchWG are waited for first.
THEOREM WritesComeFirst == Spec => []NoWriteAfterClose
  <1>1. Inductive => NoWriteAfterClose
    BY DEF Inductive, IInv, Closed
  <1> QED
    BY <1>1, InductiveHolds, PTL

\* The loop, the two drains and the last loop of cleanup close every fd exactly
\* once between them, and a request is never in two places.
THEOREM FdsClosedExactlyOnce == Spec => []FdsExact
  <1>1. Inductive => ClosedAtMostOnce
    BY DEF Inductive, IInv, Closed
  <1>2. Inductive => NoFdLeak
    <2> SUFFICES ASSUME Inductive, pc = "stopped", drainer = "gone",
                        NEW x \in Conns
                 PROVE  ~Open(x)
      BY DEF NoFdLeak
    <2>1. held = None
      BY DEF Inductive, IInv, Phases
    <2>2. Open(x) => held = x
      BY DEF Inductive, IInv, Closed
    <2> QED
      BY <2>1, <2>2, ConstantsAssumption
  <1>3. Inductive => FdsExact
    BY <1>1, <1>2, OnePlace DEF FdsExact
  <1> QED
    BY <1>3, InductiveHolds, PTL
=============================================================================
