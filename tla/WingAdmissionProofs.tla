------------------------ MODULE WingAdmissionProofs ------------------------
(***************************************************************************)
(* Proofs about WingAdmission for any number of workers, fds and peers and *)
(* any configured limits.                                                  *)
(***************************************************************************)
EXTENDS WingAdmission, FiniteSetTheorems, TLAPS

-----------------------------------------------------------------------------
(* The configuration. *)

LEMMA WorkerCount == Cardinality(Workers) \in Nat \ {0}
  BY FS_CardinalityType, FS_EmptySet, ConstantsAssumption

LEMMA RateType == perWorkerRate \in Nat \ {0} /\ perWorkerBurst \in Nat \ {0}
  <1>1. AcceptRatePerSec \in Nat /\ AcceptRateBurst \in Nat
    BY ConstantsAssumption
  <1>2. /\ AcceptRatePerSec \div Cardinality(Workers) \in Int
        /\ AcceptRateBurst \div Cardinality(Workers) \in Int
    BY <1>1, WorkerCount
  <1> QED
    BY <1>2 DEF perWorkerRate, perWorkerBurst, AtLeast

LEMMA BucketInit == newTokenBucket \in Bucket
  <1>1. AtLeast(perWorkerRate, perWorkerBurst) * Unit \in Nat
    BY RateType, ConstantsAssumption DEF AtLeast
  <1> QED
    BY <1>1 DEF newTokenBucket, Bucket

LEMMA BucketStep ==
  ASSUME NEW b \in Bucket, NEW t \in Nat
  PROVE  AfterAllow(b, t) \in Bucket
  <1>1. t > b.last => (t - b.last) * perWorkerRate \in Nat
    BY RateType DEF Bucket
  <1>2. Refill(b, t) \in Nat
    BY <1>1 DEF Refill, Bucket
  <1>3. Allows(b, t) => Refill(b, t) - Unit \in Nat
    BY <1>2, ConstantsAssumption DEF Allows
  <1>4. CASE Allows(b, t)
    <2>1. AfterAllow(b, t) = [b EXCEPT !.tokens = Refill(b, t) - Unit,
                                       !.last = t, !.passed = b.passed + 1]
      BY <1>4 DEF AfterAllow
    <2>2. b.passed + 1 \in Nat
      BY DEF Bucket
    <2> QED
      BY <1>3, <1>4, <2>1, <2>2 DEF Bucket
  <1>5. CASE ~Allows(b, t)
    <2>1. AfterAllow(b, t) = [b EXCEPT !.tokens = Refill(b, t), !.last = t]
      BY <1>5 DEF AfterAllow
    <2> QED
      BY <1>2, <2>1 DEF Bucket
  <1> QED
    BY <1>4, <1>5

\* The default cap leaves the process its headroom of fds whenever the soft
\* limit has any, is never zero and never above the ceiling (deriveMaxConns).
THEOREM DefaultCapFits ==
  \A rlimitSoft, workers \in Nat :
    LET cap == deriveMaxConns(rlimitSoft, workers)
    IN  /\ cap \in 1..acceptCapCeiling
        /\ rlimitSoft > 3 * workers + acceptCapReserve =>
             cap + 3 * workers + acceptCapReserve <= rlimitSoft
  BY CapAssumption DEF deriveMaxConns

-----------------------------------------------------------------------------
(* Type correctness. *)

LEMMA IdsPair == \A w \in Workers, f \in Fds : <<w, f>> \in Ids
  BY DEF Ids

LEMMA NoArgType == NoArg \in ConnArg
  BY DEF NoArg, ConnArg, Peers

LEMMA TypeInit == Init => TypeOK
  <1> SUFFICES ASSUME Init PROVE TypeOK
    OBVIOUS
  <1>1. bucket \in [Workers -> Bucket] /\ arg \in [Workers -> ConnArg]
    BY BucketInit, NoArgType DEF Init
  <1>2. peerIP \in [Ids -> Peers] /\ connsPerIP \in [Workers -> [IPs -> Nat]]
    BY DEF Init, Peers
  <1>3. pc \in [Workers -> Positions] /\ \A w \in Workers : pc[w] = "loop"
    BY DEF Init, Positions
  <1>4. holder \in [Fds -> Workers \cup {None}]
    BY DEF Init
  <1>5. doneCh \in [Workers -> SUBSET Fds] /\ wnow \in [Workers -> Nat]
    BY DEF Init
  <1>6. shutdown \in BOOLEAN
    BY Zenon DEF Init
  <1>7. /\ {rejectTtl, rejectIP, rejectRate, now, arrivals, released}
             \subseteq Nat
        /\ connCnt \in Int
        /\ admitted \subseteq Ids /\ takenOver \subseteq Ids
        /\ running \subseteq Ids
    BY DEF Init
  <1>8. \A w \in Workers : pc[w] \notin {"load", "cas", "closefd"}
    BY <1>3
  <1> QED
    BY <1>1, <1>2, <1>3, <1>4, <1>5, <1>6, <1>7, <1>8 DEF TypeOK

LEMMA TypeEnter ==
  ASSUME TypeOK, NEW w \in Workers, NEW f \in Fds, NEW p \in Peers,
         Enter(w, f, p)
  PROVE  /\ admitted' \subseteq Ids /\ takenOver' \subseteq Ids
         /\ running' \subseteq Ids
         /\ peerIP' \in [Ids -> Peers]
         /\ connsPerIP' \in [Workers -> [IPs -> Nat]]
  <1>1. connsPerIP' \in [Workers -> [IPs -> Nat]]
    BY DEF Enter, TypeOK, Peers
  <1>2. peerIP' \in [Ids -> Peers]
    BY IdsPair DEF Enter, TypeOK
  <1>3. admitted' \subseteq Ids
    BY IdsPair DEF Enter, TypeOK
  <1> QED
    BY <1>1, <1>2, <1>3 DEF Enter, TypeOK

LEMMA TypeAccept ==
  ASSUME TypeOK, NEW w \in Workers, NEW f \in Fds, NEW p \in Peers,
         HandleAccept(w, f, p)
  PROVE  TypeOK'
  <1> USE DEF HandleAccept
  <1>1. bucket' \in [Workers -> Bucket]
    BY BucketStep DEF Precheck, TypeOK
  <1>2. arg' \in [Workers -> ConnArg]
    BY DEF Precheck, TypeOK, ConnArg
  <1>3. holder' \in [Fds -> Workers \cup {None}] /\ arrivals' \in Nat
    BY DEF Precheck, TypeOK
  <1>4. Enter(w, f, p) \/ UNCHANGED table
    BY DEF Precheck
  <1>5. /\ admitted' \subseteq Ids /\ takenOver' \subseteq Ids
        /\ running' \subseteq Ids
        /\ peerIP' \in [Ids -> Peers]
        /\ connsPerIP' \in [Workers -> [IPs -> Nat]]
    BY <1>4, TypeEnter DEF TypeOK, table
  <1>6. /\ pc' \in [Workers -> Positions]
        /\ \A v \in Workers :
             pc'[v] \in {"load", "cas", "closefd"} => arg'[v].fd \in Fds
    <2>1. CASE UNCHANGED <<pc, arg>>
      BY <2>1 DEF TypeOK
    <2>2. CASE /\ goto(w, "load")
               /\ arg' = [arg EXCEPT ![w] = [fd |-> f, peer |-> p, cur |-> 0]]
      BY <2>2 DEF goto, TypeOK, Positions
    <2> QED
      BY <2>1, <2>2 DEF Precheck
  <1>7. connCnt' \in Int /\ {rejectTtl', rejectIP', rejectRate'} \subseteq Nat
    BY DEF Precheck, TypeOK, counters
  <1> QED
    BY <1>1, <1>2, <1>3, <1>5, <1>6, <1>7 DEF TypeOK

LEMMA TypeRemove ==
  ASSUME TypeOK, NEW w \in Workers, NEW f \in Fds,
         removeConnBookkeeping(w, f)
  PROVE  /\ connCnt' \in Int /\ released' \in Nat
         /\ admitted' \subseteq Ids /\ takenOver' \subseteq Ids
         /\ running' \subseteq Ids
         /\ peerIP' \in [Ids -> Peers]
         /\ connsPerIP' \in [Workers -> [IPs -> Nat]]
  <1>1. connsPerIP' \in [Workers -> [IPs -> Nat]]
    BY IdsPair DEF removeConnBookkeeping, TypeOK, AtLeast, Peers
  <1>2. peerIP' \in [Ids -> Peers]
    BY DEF removeConnBookkeeping, Forget, TypeOK, Peers
  <1> QED
    BY <1>1, <1>2 DEF removeConnBookkeeping, Forget, TypeOK

LEMMA TypeReturn ==
  ASSUME TypeOK, NEW w \in Workers, return(w)
  PROVE  /\ pc' \in [Workers -> Positions] /\ arg' \in [Workers -> ConnArg]
         /\ \A v \in Workers :
              pc'[v] \in {"load", "cas", "closefd"} => arg'[v].fd \in Fds
  BY NoArgType DEF TypeOK, return, goto, Positions

\* A worker moves on, the fd f in its hand.
LEMMA TypeGoto ==
  ASSUME TypeOK, NEW w \in Workers, NEW f \in Fds, NEW where \in Positions,
         goto(w, where), arg' = [arg EXCEPT ![w].fd = f]
  PROVE  /\ pc' \in [Workers -> Positions] /\ arg' \in [Workers -> ConnArg]
         /\ \A v \in Workers :
              pc'[v] \in {"load", "cas", "closefd"} => arg'[v].fd \in Fds
  BY DEF TypeOK, goto, ConnArg

LEMMA TypeStep == TypeOK /\ [Next]_vars => TypeOK'
  <1> SUFFICES ASSUME TypeOK, [Next]_vars PROVE TypeOK'
    OBVIOUS
  <1> DEFINE InHand ==
        /\ pc \in [Workers -> Positions] /\ arg \in [Workers -> ConnArg]
        /\ \A v \in Workers :
             pc[v] \in {"load", "cas", "closefd"} => arg[v].fd \in Fds
  <1>1. ASSUME NEW w \in Workers, LoadCount(w) PROVE TypeOK'
    <2>1. CASE connCnt >= MaxConns
      <3>1. InHand'
        BY <1>1, <2>1, TypeReturn DEF LoadCount
      <3>2. /\ rejectTtl' = rejectTtl + 1
            /\ holder' = [holder EXCEPT ![arg[w].fd] = None]
        BY <1>1, <2>1 DEF LoadCount
      <3>3. rejectTtl' \in Nat
        BY <3>2 DEF TypeOK
      <3>4. holder' \in [Fds -> Workers \cup {None}]
        BY <3>2 DEF TypeOK
      <3> QED
        BY <1>1, <3>1, <3>3, <3>4 DEF LoadCount, TypeOK, table
    <2>2. CASE ~(connCnt >= MaxConns)
      <3>1. goto(w, "cas") /\ arg' = [arg EXCEPT ![w].cur = connCnt]
        BY <1>1, <2>2 DEF LoadCount
      <3>2. arg' \in [Workers -> ConnArg]
        BY <3>1 DEF TypeOK, ConnArg
      <3>3. pc' \in [Workers -> Positions]
        BY <3>1 DEF goto, TypeOK, Positions
      <3>4. \A v \in Workers : arg'[v].fd = arg[v].fd
        BY <3>1 DEF TypeOK, ConnArg
      <3>5. arg[w].fd \in Fds
        BY <1>1 DEF LoadCount, TypeOK
      <3>6. \A v \in Workers :
              pc'[v] \in {"load", "cas", "closefd"} => arg'[v].fd \in Fds
        BY <3>1, <3>4, <3>5 DEF goto, TypeOK
      <3> QED
        BY <1>1, <2>2, <3>2, <3>3, <3>6 DEF LoadCount, TypeOK, table
    <2> QED
      BY <2>1, <2>2
  <1>2. ASSUME NEW w \in Workers, Reserve(w) PROVE TypeOK'
    <2>1. arg[w].fd \in Fds /\ arg[w].peer \in Peers
      BY <1>2 DEF Reserve, TypeOK, ConnArg
    <2>2. CASE connCnt = arg[w].cur
      <3>1. InHand'
        BY <1>2, <2>2, TypeReturn DEF Reserve, CompareAndSwap
      <3>2. Enter(w, arg[w].fd, arg[w].peer)
        BY <1>2, <2>2 DEF Reserve, CompareAndSwap
      <3> QED
        BY <1>2, <2>1, <2>2, <3>1, <3>2, TypeEnter
           DEF Reserve, CompareAndSwap, TypeOK
    <2>3. CASE connCnt # arg[w].cur
      <3>1. InHand'
        BY <1>2, <2>1, <2>3 DEF Reserve, CompareAndSwap, goto, TypeOK, Positions
      <3> QED
        BY <1>2, <2>3, <3>1 DEF Reserve, CompareAndSwap, TypeOK, table
    <2> QED
      BY <2>2, <2>3
  <1>3. ASSUME NEW w \in Workers, CloseFd(w) PROVE TypeOK'
    <2>1. InHand'
      BY <1>3, TypeReturn DEF CloseFd
    <2> QED
      BY <1>3, <2>1 DEF CloseFd, TypeOK, counters, table
  <1>4. ASSUME NEW w \in Workers,
               BeginCleanup(w) \/ DrainDone(w) \/ Stop(w) PROVE TypeOK'
    <2>1. InHand'
      BY <1>4 DEF BeginCleanup, DrainDone, Stop, goto, TypeOK, Positions
    <2> QED
      BY <1>4, <2>1 DEF BeginCleanup, DrainDone, Stop, TypeOK, counters, table
  <1>5. ASSUME NEW w \in Workers, NEW f \in Fds, HandleDone(w, f) PROVE TypeOK'
    <2>1. InHand'
      BY <1>5, TypeGoto DEF HandleDone, Positions
    <2>2. doneCh' \in [Workers -> SUBSET Fds]
      BY <1>5 DEF HandleDone, TypeOK
    <2> QED
      BY <1>5, <2>1, <2>2, TypeRemove DEF HandleDone, TypeOK
  <1>6. ASSUME NEW w \in Workers, NEW f \in Fds, DrainFile(w, f) PROVE TypeOK'
    BY <1>6 DEF DrainFile, TypeOK, counters, table
  <1>7. ASSUME NEW w \in Workers, NEW f \in Fds, CleanupConn(w, f)
        PROVE  TypeOK'
    <2>1. holder' \in [Fds -> Workers \cup {None}]
      BY <1>7 DEF CleanupConn, CleanupClose, TypeOK
    <2> QED
      BY <1>7, <2>1, TypeRemove DEF CleanupConn, TypeOK
  <1>8. ASSUME NEW w \in Workers, WaitReturns(w) PROVE TypeOK'
    BY <1>8 DEF WaitReturns, TypeOK, counters, table
  <1>9. ASSUME NEW w \in Workers, MarkWindow(w) PROVE TypeOK'
    <2>1. bucket' \in [Workers -> Bucket]
      BY <1>9 DEF MarkWindow, TypeOK, Bucket
    <2> QED
      BY <1>9, <2>1 DEF MarkWindow, TypeOK, counters, table
  <1>10. ASSUME NEW w \in Workers, NEW f \in Fds, CloseConn(w, f)
         PROVE  TypeOK'
    <2>1. InHand'
      BY <1>10, TypeGoto DEF CloseConn, Positions
    <2> QED
      BY <1>10, <2>1, TypeRemove DEF CloseConn, TypeOK
  <1>11. ASSUME NEW w \in Workers, NEW f \in Fds,
                Takeover(w, f) \/ TakeoverDone(w, f)
         PROVE  TypeOK'
    <2>1. /\ takenOver' \subseteq Ids /\ running' \subseteq Ids
          /\ doneCh' \in [Workers -> SUBSET Fds]
      BY <1>11, IdsPair DEF Takeover, TakeoverDone, TypeOK
    <2> QED
      BY <1>11, <2>1 DEF Takeover, TakeoverDone, TypeOK, counters
  <1>12. ASSUME Tick \/ Shutdown PROVE TypeOK'
    <2>1. shutdown' \in BOOLEAN
      BY <1>12 DEF Tick, Shutdown, TypeOK
    <2> QED
      BY <1>12, <2>1 DEF Tick, Shutdown, TypeOK, counters, table
  <1>13. ASSUME UNCHANGED vars PROVE TypeOK'
    BY <1>13 DEF vars, TypeOK, counters, table
  <1> QED
    BY <1>1, <1>2, <1>3, <1>4, <1>5, <1>6, <1>7, <1>8, <1>9, <1>10, <1>11,
       <1>12, <1>13, TypeAccept DEF Next, WorkerStep, Terminated

\* Every variable of the admission state keeps its type, for every number of
\* workers, fds and peers and all limits; in particular no bucket is overdrawn.
THEOREM TypeCorrect == Spec => []TypeOK
  BY TypeInit, TypeStep, PTL DEF Spec

-----------------------------------------------------------------------------
(* Who owns an fd.  FdNotRecycled is not inductive by itself: the fd a       *)
(* worker has in hand, and the fds of takeovers, must be known to be its own. *)

\* The fd in a worker's hand is held by it and is not in its table; a worker
\* inside the CAS loop has loaded a count below the cap.
InHandOwned ==
  \A w \in Workers :
    /\ pc[w] \in {"load", "cas", "closefd"} =>
         holder[arg[w].fd] = w /\ <<w, arg[w].fd>> \notin admitted
    /\ pc[w] \in {"load", "cas"} => MaxConns > 0
    /\ pc[w] = "cas" => arg[w].cur < MaxConns

\* A takeover is of an admitted conn; until its file is closed the worker
\* holds the fd, and it is either running or reported, never both.
TakeoversOwned ==
  /\ takenOver \subseteq admitted
  /\ \A w \in Workers, f \in Fds :
       /\ <<w, f>> \in running \/ f \in doneCh[w] =>
            <<w, f>> \in takenOver /\ holder[f] = w
       /\ <<w, f>> \in running => f \notin doneCh[w]

\* The last loop of cleanup runs when no takeover is left.
SweptAlone ==
  \A w \in Workers :
    pc[w] \in {"sweep", "stopped"} =>
      doneCh[w] = {} /\ \A f \in Fds : <<w, f>> \notin running

Ownership == InHandOwned /\ TakeoversOwned /\ SweptAlone /\ FdNotRecycled

LEMMA OwnershipInit == Init => Ownership
  BY DEF Init, Ownership, InHandOwned, TakeoversOwned, SweptAlone, FdNotRecycled

LEMMA OwnershipStep == TypeOK /\ Ownership /\ [Next]_vars => Ownership'
  <1> SUFFICES ASSUME TypeOK, Ownership, [Next]_vars PROVE Ownership'
    OBVIOUS
  <1>t. /\ pc \in [Workers -> Positions] /\ arg \in [Workers -> ConnArg]
        /\ holder \in [Fds -> Workers \cup {None}]
        /\ doneCh \in [Workers -> SUBSET Fds]
        /\ \A v \in Workers :
             pc[v] \in {"load", "cas", "closefd"} => arg[v].fd \in Fds
    BY DEF TypeOK
  <1>a. InHandOwned /\ TakeoversOwned /\ SweptAlone /\ FdNotRecycled
    BY DEF Ownership
  <1>n. None \notin Workers
    BY ConstantsAssumption
  <1> USE DEF InHandOwned, TakeoversOwned, SweptAlone, FdNotRecycled
  <1>0. ASSUME UNCHANGED <<table, doneCh, pc, arg, holder>> PROVE Ownership'
    BY <1>a, <1>0 DEF Ownership, table
  <1>1. ASSUME NEW w \in Workers, NEW f \in Fds, NEW p \in Peers,
               HandleAccept(w, f, p)
        PROVE  Ownership'
    <2>1. pc[w] = "loop" /\ holder[f] = None /\ doneCh' = doneCh
      BY <1>1 DEF HandleAccept
    <2>2. <<w, f>> \notin admitted
      BY <1>a, <1>n, <2>1
    <2>3. CASE UNCHANGED <<table, pc, arg, holder>>
      BY <1>0, <2>1, <2>3
    <2>4. CASE /\ holder' = [holder EXCEPT ![f] = w]
               /\ arg' = [arg EXCEPT ![w] = [fd |-> f, peer |-> p, cur |-> 0]]
               /\ goto(w, "load") /\ UNCHANGED table /\ MaxConns > 0
      <3>1. InHandOwned'
        BY <1>a, <1>t, <1>n, <2>1, <2>2, <2>4 DEF goto, table
      <3>2. TakeoversOwned' /\ SweptAlone'
        BY <1>a, <1>t, <1>n, <2>1, <2>4 DEF goto, table
      <3>3. FdNotRecycled'
        BY <1>a, <1>t, <1>n, <2>1, <2>4 DEF goto, table
      <3> QED
        BY <3>1, <3>2, <3>3 DEF Ownership
    <2>5. CASE /\ holder' = [holder EXCEPT ![f] = w]
               /\ Enter(w, f, p) /\ UNCHANGED <<pc, arg>>
      <3>1. InHandOwned'
        BY <1>a, <1>t, <1>n, <2>1, <2>5 DEF Enter
      <3>2. TakeoversOwned' /\ SweptAlone'
        BY <1>a, <1>t, <1>n, <2>1, <2>5 DEF Enter
      <3>3. FdNotRecycled'
        BY <1>a, <1>t, <1>n, <2>1, <2>5 DEF Enter
      <3> QED
        BY <3>1, <3>2, <3>3 DEF Ownership
    <2> QED
      BY <1>1, <2>3, <2>4, <2>5 DEF HandleAccept, Precheck
  <1>r. ASSUME NEW w \in Workers, pc[w] \in {"load", "closefd"},
               holder' = [holder EXCEPT ![arg[w].fd] = None], return(w),
               UNCHANGED <<table, doneCh>>
        PROVE  Ownership'
    <2> DEFINE f == arg[w].fd
    <2>1. f \in Fds /\ holder[f] = w /\ <<w, f>> \notin admitted
      BY <1>a, <1>t, <1>r
    <2> HIDE DEF f
    <2>2. /\ pc'[w] = "loop"
          /\ \A v \in Workers : v # w => pc'[v] = pc[v] /\ arg'[v] = arg[v]
      BY <1>t, <1>r DEF return, goto
    <2>3. \A g \in Fds : g # f => holder'[g] = holder[g]
      BY <1>t, <1>r DEF f
    <2>4. UNCHANGED <<admitted, takenOver, running, doneCh>>
      BY <1>r DEF table
    <2>5. InHandOwned'
      BY <1>a, <1>t, <2>1, <2>2, <2>3, <2>4
    <2>6. TakeoversOwned' /\ SweptAlone'
      BY <1>a, <2>1, <2>2, <2>3, <2>4
    <2>7. FdNotRecycled'
      BY <1>a, <1>r, <2>1, <2>2, <2>3, <2>4
    <2> QED
      BY <2>5, <2>6, <2>7 DEF Ownership
  <1>2. ASSUME NEW w \in Workers, LoadCount(w) PROVE Ownership'
    <2>1. CASE connCnt >= MaxConns
      BY <1>r, <1>2, <2>1 DEF LoadCount
    <2>2. CASE ~(connCnt >= MaxConns)
      <3>1. /\ pc[w] = "load" /\ goto(w, "cas")
            /\ arg' = [arg EXCEPT ![w].cur = connCnt]
            /\ UNCHANGED <<holder, admitted, takenOver, running, doneCh>>
        BY <1>2, <2>2 DEF LoadCount, table
      <3>2. /\ pc'[w] = "cas" /\ arg'[w].fd = arg[w].fd
            /\ arg'[w].cur = connCnt
            /\ \A v \in Workers : v # w => pc'[v] = pc[v] /\ arg'[v] = arg[v]
        BY <1>t, <3>1 DEF goto, ConnArg
      <3>3. connCnt < MaxConns
        BY <2>2, ConstantsAssumption DEF TypeOK
      <3>4. InHandOwned'
        BY <1>a, <3>1, <3>2, <3>3
      <3>5. TakeoversOwned' /\ SweptAlone' /\ FdNotRecycled'
        BY <1>a, <3>1, <3>2
      <3> QED
        BY <3>4, <3>5 DEF Ownership
    <2> QED
      BY <2>1, <2>2
  <1>3. ASSUME NEW w \in Workers, Reserve(w) PROVE Ownership'
    <2> DEFINE f == arg[w].fd
    <2>1. /\ pc[w] = "cas" /\ f \in Fds /\ holder[f] = w /\ MaxConns > 0
          /\ UNCHANGED <<doneCh, holder>>
      BY <1>a, <1>t, <1>3 DEF Reserve
    <2>2. CASE Enter(w, f, arg[w].peer) /\ return(w)
      <3> HIDE DEF f
      <3>1. \A v \in Workers : v # w => pc'[v] = pc[v] /\ arg'[v] = arg[v]
        BY <1>t, <2>2 DEF return, goto
      <3>2. pc'[w] = "loop" /\ admitted' = admitted \cup {<<w, f>>}
            /\ UNCHANGED <<takenOver, running>>
        BY <1>t, <2>2 DEF return, goto, Enter
      <3>3. InHandOwned'
        BY <1>a, <2>1, <3>1, <3>2
      <3>4. TakeoversOwned' /\ SweptAlone'
        BY <1>a, <2>1, <3>1, <3>2
      <3>5. FdNotRecycled'
        BY <1>a, <2>1, <3>1, <3>2
      <3> QED
        BY <3>3, <3>4, <3>5 DEF Ownership
    <2>3. CASE goto(w, "load") /\ UNCHANGED <<table, arg>>
      <3>1. InHandOwned'
        BY <1>a, <1>t, <2>1, <2>3 DEF goto, table
      <3>2. TakeoversOwned' /\ SweptAlone' /\ FdNotRecycled'
        BY <1>a, <1>t, <2>1, <2>3 DEF goto, table
      <3> QED
        BY <3>1, <3>2 DEF Ownership
    <2> QED
      BY <1>3, <2>2, <2>3 DEF Reserve, CompareAndSwap
  <1>4. ASSUME NEW w \in Workers, CloseFd(w) PROVE Ownership'
    BY <1>r, <1>4 DEF CloseFd
  <1>5. ASSUME NEW w \in Workers, BeginCleanup(w) \/ DrainDone(w) \/ Stop(w)
        PROVE  Ownership'
    <2>1. InHandOwned'
      BY <1>a, <1>t, <1>5 DEF BeginCleanup, DrainDone, Stop, goto, table
    <2>2. TakeoversOwned' /\ SweptAlone'
      BY <1>a, <1>t, <1>5 DEF BeginCleanup, DrainDone, Stop, goto, table
    <2>3. FdNotRecycled'
      BY <1>a, <1>t, <1>5 DEF BeginCleanup, DrainDone, Stop, goto, table
    <2> QED
      BY <2>1, <2>2, <2>3 DEF Ownership
  <1>6. ASSUME NEW w \in Workers, NEW f \in Fds,
               CloseConn(w, f) \/ HandleDone(w, f)
        PROVE  Ownership'
    <2>1. /\ pc[w] = "loop" /\ <<w, f>> \in admitted /\ holder[f] = w
          /\ <<w, f>> \notin running /\ f \notin doneCh'[w]
      BY <1>a, <1>t, <1>6 DEF CloseConn, HandleDone
    <2>2. /\ goto(w, "closefd") /\ arg' = [arg EXCEPT ![w].fd = f]
          /\ admitted' = admitted \ {<<w, f>>} /\ running' = running
          /\ takenOver' = takenOver \ {<<w, f>>} /\ holder' = holder
      BY <1>6 DEF CloseConn, HandleDone, removeConnBookkeeping, Forget
    <2>3. \A v \in Workers, g \in Fds : g \in doneCh'[v] => g \in doneCh[v]
      BY <1>t, <1>6 DEF CloseConn, HandleDone
    <2>4. /\ pc'[w] = "closefd" /\ arg'[w].fd = f
          /\ \A v \in Workers : v # w => pc'[v] = pc[v] /\ arg'[v] = arg[v]
      BY <1>t, <2>2 DEF goto, ConnArg
    <2>5. InHandOwned'
      BY <1>a, <2>1, <2>2, <2>4
    <2>6. TakeoversOwned'
      BY <1>a, <2>1, <2>2, <2>3
    <2>7. SweptAlone'
      <3>1. doneCh' \in [Workers -> SUBSET Fds]
        BY <1>t, <1>6 DEF CloseConn, HandleDone
      <3> QED
        BY <1>a, <2>2, <2>3, <2>4, <3>1
    <2>8. FdNotRecycled'
      BY <1>a, <2>1, <2>2, <2>4
    <2> QED
      BY <2>5, <2>6, <2>7, <2>8 DEF Ownership
  <1>7. ASSUME NEW w \in Workers, NEW f \in Fds, DrainFile(w, f)
        PROVE  Ownership'
    <2>1. /\ pc[w] = "drain" /\ holder[f] = w /\ <<w, f>> \in takenOver
          /\ <<w, f>> \notin running
      BY <1>a, <1>7 DEF DrainFile
    <2>2. InHandOwned'
      BY <1>a, <1>t, <1>7, <2>1 DEF DrainFile, table
    <2>3. TakeoversOwned' /\ SweptAlone'
      BY <1>a, <1>t, <1>7, <2>1 DEF DrainFile, table
    <2>4. FdNotRecycled'
      BY <1>a, <1>t, <1>7, <2>1 DEF DrainFile, table
    <2> QED
      BY <2>2, <2>3, <2>4 DEF Ownership
  <1>8. ASSUME NEW w \in Workers, NEW f \in Fds, CleanupConn(w, f)
        PROVE  Ownership'
    <2>1. /\ pc[w] = "sweep" /\ doneCh[w] = {} /\ <<w, f>> \notin running
          /\ <<w, f>> \notin takenOver => holder[f] = w
      BY <1>a, <1>8 DEF CleanupConn
    <2>2. /\ admitted' = admitted \ {<<w, f>>} /\ running' = running
          /\ takenOver' = takenOver \ {<<w, f>>}
          /\ UNCHANGED <<doneCh, pc, arg>>
      BY <1>8 DEF CleanupConn, removeConnBookkeeping, Forget
    <2>3. \A v \in Workers, g \in Fds : v # w /\ holder[g] = v => holder'[g] = v
      BY <1>t, <1>8, <2>1 DEF CleanupConn, CleanupClose
    <2>4. \A g \in Fds : g # f => holder'[g] = holder[g]
      BY <1>t, <1>8 DEF CleanupConn, CleanupClose
    <2>5. InHandOwned'
      BY <1>a, <1>t, <2>1, <2>2, <2>3
    <2>6. TakeoversOwned' /\ SweptAlone'
      BY <1>a, <1>t, <2>1, <2>2, <2>3, <2>4
    <2>7. FdNotRecycled'
      BY <1>a, <2>1, <2>2, <2>3, <2>4
    <2> QED
      BY <2>5, <2>6, <2>7 DEF Ownership
  <1>9. ASSUME NEW w \in Workers, NEW f \in Fds,
               Takeover(w, f) \/ TakeoverDone(w, f)
        PROVE  Ownership'
    <2>1. InHandOwned' /\ FdNotRecycled'
      BY <1>a, <1>9 DEF Takeover, TakeoverDone
    <2>2. TakeoversOwned' /\ SweptAlone'
      BY <1>a, <1>t, <1>9 DEF Takeover, TakeoverDone
    <2> QED
      BY <2>1, <2>2 DEF Ownership
  <1>10. ASSUME NEW w \in Workers, WaitReturns(w) \/ MarkWindow(w)
         PROVE  Ownership'
    BY <1>0, <1>10 DEF WaitReturns, MarkWindow
  <1>11. ASSUME Tick \/ Shutdown \/ Terminated \/ UNCHANGED vars
         PROVE  Ownership'
    BY <1>0, <1>11 DEF Tick, Shutdown, Terminated, vars
  <1> QED
    BY <1>1, <1>2, <1>3, <1>4, <1>5, <1>6, <1>7, <1>8, <1>9, <1>10, <1>11
       DEF Next, WorkerStep

\* No worker ever closes, or gives the kernel back, an fd that another
\* worker's conns map refers to (the order bookkeeping, then close).
THEOREM FdsStayOwned == Spec => []FdNotRecycled
  <1>1. TypeOK /\ Ownership /\ [Next]_vars => (TypeOK /\ Ownership)'
    BY TypeStep, OwnershipStep
  <1>2. Ownership => FdNotRecycled
    BY DEF Ownership
  <1> QED
    BY TypeInit, OwnershipInit, <1>1, <1>2, PTL DEF Spec

-----------------------------------------------------------------------------
(* The cap.  Every step leaves the table and the counter alone, or changes   *)
(* both by one conn; CountExact and CapHolds follow by induction, and so     *)
(* does the refinement of ConnCap.                                           *)

Admits ==
  \E c \in Ids \ admitted :
    /\ admitted' = admitted \cup {c}
    /\ MaxConns > 0 => connCnt < MaxConns /\ connCnt' = connCnt + 1

Releases ==
  \E c \in admitted :
    /\ admitted' = admitted \ {c}
    /\ MaxConns > 0 => connCnt' = connCnt - 1

LEMMA StepShape ==
  ASSUME TypeOK, Ownership, [Next]_vars
  PROVE  Admits \/ Releases \/ UNCHANGED <<admitted, connCnt>>
  <1>a. InHandOwned /\ TakeoversOwned /\ FdNotRecycled
    BY DEF Ownership
  <1>n. None \notin Workers /\ MaxConns \in Nat
    BY ConstantsAssumption
  <1>1. ASSUME NEW w \in Workers, NEW f \in Fds, NEW p \in Peers,
               HandleAccept(w, f, p)
        PROVE  Admits \/ UNCHANGED <<admitted, connCnt>>
    <2>1. <<w, f>> \in Ids \ admitted
      BY <1>a, <1>n, <1>1, IdsPair DEF HandleAccept, FdNotRecycled
    <2>2. CASE Enter(w, f, p) /\ ~(MaxConns > 0)
      BY <2>1, <2>2 DEF Enter, Admits
    <2>3. CASE UNCHANGED <<table, connCnt>>
      BY <2>3 DEF table
    <2> QED
      BY <1>1, <2>2, <2>3 DEF HandleAccept, Precheck, counters
  <1>2. ASSUME NEW w \in Workers, Reserve(w)
        PROVE  Admits \/ UNCHANGED <<admitted, connCnt>>
    <2>1. /\ <<w, arg[w].fd>> \in Ids \ admitted /\ MaxConns > 0
          /\ arg[w].cur < MaxConns
      BY <1>a, <1>2, IdsPair DEF Reserve, TypeOK, InHandOwned
    <2>2. CASE connCnt = arg[w].cur
      BY <1>2, <2>1, <2>2 DEF Reserve, CompareAndSwap, Enter, Admits
    <2>3. CASE connCnt # arg[w].cur
      BY <1>2, <2>3 DEF Reserve, CompareAndSwap, table
    <2> QED
      BY <2>2, <2>3
  <1>3. ASSUME NEW w \in Workers, NEW f \in Fds,
               CloseConn(w, f) \/ HandleDone(w, f) \/ CleanupConn(w, f)
        PROVE  Releases
    <2>1. <<w, f>> \in admitted
      BY <1>a, <1>3 DEF CloseConn, HandleDone, CleanupConn, TakeoversOwned
    <2>2. removeConnBookkeeping(w, f)
      BY <1>3 DEF CloseConn, HandleDone, CleanupConn
    <2> QED
      BY <2>1, <2>2 DEF removeConnBookkeeping, Forget, Releases
  <1>4. ASSUME NEW w \in Workers,
               \/ LoadCount(w) \/ CloseFd(w) \/ BeginCleanup(w)
               \/ DrainDone(w) \/ Stop(w) \/ WaitReturns(w) \/ MarkWindow(w)
        PROVE  UNCHANGED <<admitted, connCnt>>
    BY <1>4 DEF LoadCount, CloseFd, BeginCleanup, DrainDone, Stop, WaitReturns,
                MarkWindow, table, counters
  <1>5. ASSUME NEW w \in Workers, NEW f \in Fds,
               DrainFile(w, f) \/ Takeover(w, f) \/ TakeoverDone(w, f)
        PROVE  UNCHANGED <<admitted, connCnt>>
    BY <1>5 DEF DrainFile, Takeover, TakeoverDone, table, counters
  <1>6. ASSUME Tick \/ Shutdown \/ Terminated \/ UNCHANGED vars
        PROVE  UNCHANGED <<admitted, connCnt>>
    BY <1>6 DEF Tick, Shutdown, Terminated, vars, table, counters
  <1> QED
    BY <1>1, <1>2, <1>3, <1>4, <1>5, <1>6 DEF Next, WorkerStep

LEMMA AdmittedFinite ==
  ASSUME TypeOK
  PROVE  IsFiniteSet(admitted) /\ Cardinality(admitted) \in Nat
  <1>1. IsFiniteSet(Ids)
    BY FS_Product, ConstantsAssumption DEF Ids
  <1> QED
    BY <1>1, FS_Subset, FS_CardinalityType DEF TypeOK

LEMMA CountStep ==
  ASSUME TypeOK, Ownership, CountExact, CapHolds, [Next]_vars
  PROVE  CountExact' /\ CapHolds'
  <1>f. IsFiniteSet(admitted) /\ Cardinality(admitted) \in Nat
    BY AdmittedFinite
  <1>n. MaxConns \in Nat
    BY ConstantsAssumption
  <1>1. CASE Admits
    <2>1. PICK c \in Ids \ admitted :
                 /\ admitted' = admitted \cup {c}
                 /\ MaxConns > 0 => connCnt < MaxConns /\ connCnt' = connCnt + 1
      BY <1>1 DEF Admits
    <2>2. Cardinality(admitted') = Cardinality(admitted) + 1
      BY <1>f, <2>1, FS_AddElement
    <2> QED
      BY <1>f, <1>n, <2>1, <2>2 DEF CountExact, CapHolds
  <1>2. CASE Releases
    <2>1. PICK c \in admitted :
                 /\ admitted' = admitted \ {c}
                 /\ MaxConns > 0 => connCnt' = connCnt - 1
      BY <1>2 DEF Releases
    <2>2. Cardinality(admitted') = Cardinality(admitted) - 1
      BY <1>f, <2>1, FS_RemoveElement
    <2> QED
      BY <1>f, <1>n, <2>1, <2>2 DEF CountExact, CapHolds
  <1>3. CASE UNCHANGED <<admitted, connCnt>>
    BY <1>3 DEF CountExact, CapHolds
  <1> QED
    BY <1>1, <1>2, <1>3, StepShape

CapInv == TypeOK /\ Ownership /\ CountExact /\ CapHolds

LEMMA CapInductive == Spec => []CapInv
  <1>1. Init => CapInv
    <2>1. Init => CountExact /\ CapHolds
      BY FS_EmptySet, ConstantsAssumption DEF Init, CountExact, CapHolds
    <2> QED
      BY <2>1, TypeInit, OwnershipInit DEF CapInv
  <1>2. CapInv /\ [Next]_vars => CapInv'
    BY TypeStep, OwnershipStep, CountStep DEF CapInv
  <1> QED
    BY <1>1, <1>2, PTL DEF Spec

\* The one atomic all workers share always equals the number of admitted
\* connections: no path loses or repeats a decrement (removeConnBookkeeping).
THEOREM CounterIsExact == Spec => []CountExact
  <1>1. CapInv => CountExact
    BY DEF CapInv
  <1> QED
    BY <1>1, CapInductive, PTL

\* However many workers race through the CAS loop of handleAccept, the server
\* never holds more than MaxConns connections.
THEOREM CapIsKept == Spec => []CapHolds
  <1>1. CapInv => CapHolds
    BY DEF CapInv
  <1> QED
    BY <1>1, CapInductive, PTL

\* The workers together implement ConnCap: each step admits one connection
\* under the cap, releases one, or does not touch the set.
THEOREM Implementation == Spec => ImplementsCap
  <1>1. Init => Cap!Init
    BY DEF Init, Cap!Init
  <1>2. CapInv /\ [Next]_vars => [Cap!Next]_admitted
    <2> SUFFICES ASSUME CapInv, [Next]_vars PROVE [Cap!Next]_admitted
      OBVIOUS
    <2>1. Admits \/ Releases \/ admitted' = admitted
      BY StepShape DEF CapInv
    <2>2. CASE Admits
      <3>1. Cap!Cardinality(admitted) = Cardinality(admitted)
        BY DEF Cap!Cardinality, Cardinality
      <3> QED
        BY <2>2, <3>1 DEF CapInv, CountExact, Admits, Cap!Next, Cap!Admit
    <2>3. CASE Releases
      BY <2>3 DEF Releases, Cap!Next, Cap!Release
    <2> QED
      BY <2>1, <2>2, <2>3
  <1> QED
    BY <1>1, <1>2, CapInductive, PTL DEF Spec, ImplementsCap, Cap!Spec

-----------------------------------------------------------------------------
(* The accept rate.  The bound over a window needs the bucket's clock never   *)
(* to run backwards, and the bucket never to be fuller than its burst: a      *)
(* window may open at any call of allow.                                      *)

BucketSane ==
  \A w \in Workers :
    /\ bucket[w].tokens <= bucket[w].burst
    /\ bucket[w].from <= bucket[w].last
    /\ bucket[w].last <= wnow[w]
    /\ wnow[w] <= now

Within(b) ==
  b.passed * Unit + b.tokens <= b.burst + (b.last - b.from) * perWorkerRate

\* One call of allow keeps the bound: what it adds is paid for by the time that
\* has gone by, what it lets through is taken from the tokens.
LEMMA AllowKeepsBound ==
  ASSUME NEW b \in Bucket, NEW t \in Nat, b.last <= t, b.from <= b.last,
         b.tokens <= b.burst, Within(b)
  PROVE  /\ Within(AfterAllow(b, t))
         /\ AfterAllow(b, t).tokens <= AfterAllow(b, t).burst
         /\ AfterAllow(b, t).from <= AfterAllow(b, t).last
         /\ AfterAllow(b, t).last = t
  <1> DEFINE r == Refill(b, t)
             a == AfterAllow(b, t)
             gain == (t - b.last) * perWorkerRate
             had  == (b.last - b.from) * perWorkerRate
  <1>1. /\ b.tokens \in Nat /\ b.burst \in Nat /\ b.last \in Nat
        /\ b.passed \in Nat /\ b.from \in Nat
        /\ Unit \in Nat /\ perWorkerRate \in Nat
    BY RateType, ConstantsAssumption DEF Bucket
  <1>2. gain \in Nat /\ had \in Nat
    BY <1>1
  <1>3. r \in Nat /\ r <= b.burst /\ r <= b.tokens + gain
    <2>1. r = IF t > b.last
              THEN IF b.tokens + gain > b.burst THEN b.burst
                   ELSE b.tokens + gain
              ELSE b.tokens
      BY DEF Refill
    <2> HIDE DEF r, gain
    <2> QED
      BY <1>1, <1>2, <2>1
  <1>4. (t - b.from) * perWorkerRate = gain + had
    BY <1>1
  <1>5. /\ b.passed * Unit \in Nat
        /\ (b.passed + 1) * Unit = b.passed * Unit + Unit
    BY <1>1
  <1>6. b.passed * Unit + r <= b.burst + (gain + had)
    <2>1. b.passed * Unit + b.tokens <= b.burst + had
      BY DEF Within
    <2> HIDE DEF r, gain, had
    <2> QED
      BY <1>1, <1>2, <1>3, <1>5, <2>1
  <1>7. CASE Allows(b, t)
    <2>1. a = [b EXCEPT !.tokens = r - Unit, !.last = t,
                        !.passed = b.passed + 1]
      BY <1>7 DEF AfterAllow
    <2>2. /\ a.tokens = r - Unit /\ a.last = t /\ a.passed = b.passed + 1
          /\ a.from = b.from /\ a.burst = b.burst
      BY <2>1 DEF Bucket
    <2> HIDE DEF r, gain, had, a
    <2>3. (b.passed + 1) * Unit + (r - Unit)
            <= b.burst + (t - b.from) * perWorkerRate
      BY <1>1, <1>2, <1>3, <1>4, <1>5, <1>6
    <2>4. Within(a) /\ a.tokens <= a.burst /\ a.from <= a.last
      BY <1>1, <1>3, <2>2, <2>3 DEF Within
    <2> QED
      BY <2>2, <2>4 DEF a
  <1>8. CASE ~Allows(b, t)
    <2>1. a = [b EXCEPT !.tokens = r, !.last = t]
      BY <1>8 DEF AfterAllow
    <2>2. /\ a.tokens = r /\ a.last = t /\ a.passed = b.passed
          /\ a.from = b.from /\ a.burst = b.burst
      BY <2>1 DEF Bucket
    <2> HIDE DEF r, gain, had, a
    <2>3. Within(a) /\ a.tokens <= a.burst /\ a.from <= a.last
      BY <1>1, <1>3, <1>4, <1>6, <2>2 DEF Within
    <2> QED
      BY <2>2, <2>3 DEF a
  <1> QED
    BY <1>7, <1>8

LEMMA RateInit == Init => BucketSane /\ RateHolds
  <1> SUFFICES ASSUME Init, NEW w \in Workers
               PROVE  /\ bucket[w].tokens <= bucket[w].burst
                      /\ bucket[w].from <= bucket[w].last
                      /\ bucket[w].last <= wnow[w] /\ wnow[w] <= now
                      /\ Within(bucket[w])
    BY DEF BucketSane, RateHolds, Within
  <1> DEFINE full == AtLeast(perWorkerRate, perWorkerBurst) * Unit
  <1>1. full \in Nat
    BY RateType, ConstantsAssumption DEF AtLeast
  <1> HIDE DEF full
  <1>2. /\ bucket[w].tokens = full /\ bucket[w].burst = full
        /\ bucket[w].last = 0 /\ bucket[w].passed = 0 /\ bucket[w].from = 0
        /\ wnow[w] = 0 /\ now = 0
    BY DEF Init, newTokenBucket, full
  <1> QED
    BY <1>1, <1>2, RateType, ConstantsAssumption DEF Within

LEMMA RateStep ==
  ASSUME TypeOK, BucketSane, RateHolds, [Next]_vars
  PROVE  BucketSane' /\ RateHolds'
  <1>t. /\ bucket \in [Workers -> Bucket] /\ wnow \in [Workers -> Nat]
        /\ now \in Nat
    BY DEF TypeOK
  <1>w. \A w \in Workers : Within(bucket[w])
    BY DEF RateHolds, Within
  <1>g. ASSUME \A w \in Workers : Within(bucket'[w])
        PROVE  RateHolds'
    BY <1>g DEF RateHolds, Within
  <1>0. ASSUME UNCHANGED <<bucket, wnow, now>>
        PROVE  BucketSane' /\ RateHolds'
    BY <1>0, <1>w, <1>g DEF BucketSane
  <1>1. ASSUME NEW w \in Workers, NEW f \in Fds, NEW p \in Peers,
               HandleAccept(w, f, p)
        PROVE  BucketSane' /\ RateHolds'
    <2>1. UNCHANGED <<wnow, now>>
      BY <1>1 DEF HandleAccept
    <2>2. CASE ~RateOn
      BY <1>0, <1>1, <2>1, <2>2 DEF HandleAccept, Precheck
    <2>3. CASE RateOn
      <3>1. bucket' = [bucket EXCEPT ![w] = AfterAllow(bucket[w], wnow[w])]
        BY <1>1, <2>3 DEF HandleAccept, Precheck
      <3> DEFINE a == AfterAllow(bucket[w], wnow[w])
      <3>2. /\ Within(a) /\ a.tokens <= a.burst /\ a.from <= a.last
            /\ a.last = wnow[w]
        BY <1>t, <1>w, AllowKeepsBound DEF BucketSane
      <3>3. /\ bucket'[w] = a
            /\ \A v \in Workers : v # w => bucket'[v] = bucket[v]
        BY <1>t, <3>1
      <3> HIDE DEF a
      <3>4. \A v \in Workers : Within(bucket'[v])
        BY <1>w, <3>2, <3>3
      <3>5. BucketSane'
        BY <1>t, <2>1, <3>2, <3>3 DEF BucketSane
      <3> QED
        BY <1>g, <3>4, <3>5
    <2> QED
      BY <2>2, <2>3
  <1>2. ASSUME NEW w \in Workers, MarkWindow(w)
        PROVE  BucketSane' /\ RateHolds'
    <2>1. /\ bucket' = [bucket EXCEPT ![w].passed = 0,
                                      ![w].from = bucket[w].last]
          /\ UNCHANGED <<wnow, now>>
      BY <1>2 DEF MarkWindow
    <2> DEFINE b == bucket[w]
    <2>2. /\ bucket'[w].passed = 0 /\ bucket'[w].from = b.last
          /\ bucket'[w].last = b.last /\ bucket'[w].tokens = b.tokens
          /\ bucket'[w].burst = b.burst
          /\ \A v \in Workers : v # w => bucket'[v] = bucket[v]
      BY <1>t, <2>1 DEF Bucket
    <2>3. b \in Bucket /\ b.tokens <= b.burst
      BY <1>t DEF BucketSane
    <2>4. Within(bucket'[w])
      <3>1. (b.last - b.last) * perWorkerRate = 0 /\ 0 * Unit = 0
        BY <2>3, RateType, ConstantsAssumption DEF Bucket
      <3> QED
        BY <2>2, <2>3, <3>1, RateType, ConstantsAssumption DEF Within, Bucket
    <2>5. BucketSane'
      BY <1>t, <2>1, <2>2, <2>3 DEF BucketSane, Bucket
    <2> QED
      BY <1>g, <1>w, <2>2, <2>4, <2>5
  <1>3. ASSUME NEW w \in Workers, WaitReturns(w)
        PROVE  BucketSane' /\ RateHolds'
    <2>1. /\ wnow' = [wnow EXCEPT ![w] = now] /\ UNCHANGED <<bucket, now>>
      BY <1>3 DEF WaitReturns
    <2>2. BucketSane'
      BY <1>t, <2>1 DEF BucketSane, Bucket
    <2> QED
      BY <1>g, <1>w, <2>1, <2>2
  <1>4. ASSUME Tick PROVE BucketSane' /\ RateHolds'
    <2>1. now' = now + 1 /\ UNCHANGED <<bucket, wnow>>
      BY <1>4 DEF Tick
    <2>2. BucketSane'
      BY <1>t, <2>1 DEF BucketSane
    <2> QED
      BY <1>g, <1>w, <2>1, <2>2
  <1>5. ASSUME NEW w \in Workers, WorkerStep(w)
        PROVE  BucketSane' /\ RateHolds'
    BY <1>0, <1>5 DEF WorkerStep, LoadCount, Reserve, CloseFd, BeginCleanup,
       DrainDone, Stop, HandleDone, DrainFile, CleanupConn
  <1>6. ASSUME NEW w \in Workers, NEW f \in Fds,
               CloseConn(w, f) \/ Takeover(w, f) \/ TakeoverDone(w, f)
        PROVE  BucketSane' /\ RateHolds'
    BY <1>0, <1>6 DEF CloseConn, Takeover, TakeoverDone
  <1>7. ASSUME Shutdown \/ Terminated \/ UNCHANGED vars
        PROVE  BucketSane' /\ RateHolds'
    BY <1>0, <1>7 DEF Shutdown, Terminated, vars
  <1> QED
    BY <1>1, <1>2, <1>3, <1>4, <1>5, <1>6, <1>7 DEF Next

\* Whatever the rate, the burst, the pattern of arrivals and the moment the
\* window opens, a worker's token bucket lets through at most its burst plus
\* what the rate refills meanwhile (tokenBucket.allow).
THEOREM RateIsKept == Spec => []RateHolds
  <1>1. TypeOK /\ BucketSane /\ RateHolds /\ [Next]_vars
          => (TypeOK /\ BucketSane /\ RateHolds)'
    BY TypeStep, RateStep
  <1> QED
    BY TypeInit, RateInit, <1>1, PTL DEF Spec

-----------------------------------------------------------------------------
(* The books.  The per-IP check of handleAccept runs before the CAS loop and *)
(* the count is raised after it, so the room it found must still be there.   *)

RoomKept ==
  MaxConnsPerIP > 0 =>
    \A w \in Workers :
      pc[w] \in {"load", "cas"} /\ arg[w].peer # NoPeer =>
        connsPerIP[w][arg[w].peer] < MaxConnsPerIP

LEMMA ConnsOfFinite ==
  ASSUME TypeOK, NEW w, NEW p
  PROVE  IsFiniteSet(ConnsOf(w, p)) /\ Cardinality(ConnsOf(w, p)) \in Nat
  BY AdmittedFinite, FS_Subset, FS_CardinalityType DEF ConnsOf

LEMMA EnterKeepsPerIP ==
  ASSUME TypeOK, PerIPExact, NEW w \in Workers, NEW f \in Fds, NEW p \in Peers,
         <<w, f>> \notin admitted, Enter(w, f, p),
         MaxConnsPerIP > 0 /\ p # NoPeer => connsPerIP[w][p] < MaxConnsPerIP
  PROVE  /\ PerIPExact'
         /\ \A v \in Workers : v # w => connsPerIP'[v] = connsPerIP[v]
  <1>t. /\ connsPerIP \in [Workers -> [IPs -> Nat]] /\ peerIP \in [Ids -> Peers]
        /\ admitted \subseteq Ids /\ MaxConnsPerIP \in Nat
        /\ <<w, f>> \in Ids /\ NoPeer \notin IPs
    BY IdsPair, ConstantsAssumption DEF TypeOK
  <1>1. /\ admitted' = admitted \cup {<<w, f>>}
        /\ peerIP' = [peerIP EXCEPT ![<<w, f>>] = p]
    BY DEF Enter
  <1>2. \A v \in Workers : v # w => connsPerIP'[v] = connsPerIP[v]
    BY <1>t DEF Enter
  <1>3. ASSUME MaxConnsPerIP > 0, NEW v \in Workers, NEW q \in IPs
        PROVE  /\ connsPerIP'[v][q] = Cardinality(ConnsOf(v, q)')
               /\ connsPerIP'[v][q] <= MaxConnsPerIP
    <2>o. /\ connsPerIP[v][q] = Cardinality(ConnsOf(v, q))
          /\ connsPerIP[v][q] <= MaxConnsPerIP
      BY <1>3 DEF PerIPExact
    <2>1. CASE v = w /\ q = p
      <3>1. ConnsOf(v, q)' = ConnsOf(v, q) \cup {<<w, f>>}
        BY <1>t, <1>1, <2>1 DEF ConnsOf
      <3>2. <<w, f>> \notin ConnsOf(v, q)
        BY DEF ConnsOf
      <3>3. Cardinality(ConnsOf(v, q)') = Cardinality(ConnsOf(v, q)) + 1
        BY <3>1, <3>2, ConnsOfFinite, FS_AddElement
      <3>4. connsPerIP'[v][q] = connsPerIP[v][q] + 1
        BY <1>t, <1>3, <2>1 DEF Enter
      <3>5. connsPerIP[v][q] < MaxConnsPerIP
        BY <1>t, <1>3, <2>1
      <3> QED
        BY <1>t, <2>o, <3>3, <3>4, <3>5
    <2>2. CASE ~(v = w /\ q = p)
      <3>1. ConnsOf(v, q)' = ConnsOf(v, q)
        BY <1>t, <1>1, <2>2 DEF ConnsOf
      <3>2. connsPerIP'[v][q] = connsPerIP[v][q]
        BY <1>t, <2>2 DEF Enter, Peers
      <3> QED
        BY <2>o, <3>1, <3>2
    <2> QED
      BY <2>1, <2>2
  <1> QED
    BY <1>2, <1>3 DEF PerIPExact

LEMMA RemoveKeepsPerIP ==
  ASSUME TypeOK, PerIPExact, NEW w \in Workers, NEW f \in Fds,
         <<w, f>> \in admitted, removeConnBookkeeping(w, f)
  PROVE  /\ PerIPExact'
         /\ \A v \in Workers : v # w => connsPerIP'[v] = connsPerIP[v]
  <1>t. /\ connsPerIP \in [Workers -> [IPs -> Nat]] /\ peerIP \in [Ids -> Peers]
        /\ admitted \subseteq Ids /\ MaxConnsPerIP \in Nat
        /\ <<w, f>> \in Ids /\ NoPeer \notin IPs
    BY IdsPair, ConstantsAssumption DEF TypeOK
  <1> DEFINE p == peerIP[<<w, f>>]
  <1>1. /\ admitted' = admitted \ {<<w, f>>}
        /\ peerIP' = [peerIP EXCEPT ![<<w, f>>] = NoPeer]
    BY DEF removeConnBookkeeping, Forget
  <1>2. \A v \in Workers : v # w => connsPerIP'[v] = connsPerIP[v]
    BY <1>t DEF removeConnBookkeeping
  <1>p. p \in IPs \/ p = NoPeer
    BY <1>t DEF Peers
  <1>3. ASSUME MaxConnsPerIP > 0, NEW v \in Workers, NEW q \in IPs
        PROVE  /\ connsPerIP'[v][q] = Cardinality(ConnsOf(v, q)')
               /\ connsPerIP'[v][q] <= MaxConnsPerIP
    <2>o. /\ connsPerIP[v][q] = Cardinality(ConnsOf(v, q))
          /\ connsPerIP[v][q] <= MaxConnsPerIP
          /\ connsPerIP[v][q] \in Nat
      BY <1>3, <1>t DEF PerIPExact
    <2>1. CASE v = w /\ q = p
      <3>1. ConnsOf(v, q)' = ConnsOf(v, q) \ {<<w, f>>}
        BY <1>t, <1>1, <2>1 DEF ConnsOf
      <3>2. <<w, f>> \in ConnsOf(v, q)
        BY <2>1 DEF ConnsOf
      <3>3. Cardinality(ConnsOf(v, q)') = Cardinality(ConnsOf(v, q)) - 1
        BY <3>1, <3>2, ConnsOfFinite, FS_RemoveElement
      <3>4. Cardinality(ConnsOf(v, q)) # 0
        BY <3>2, ConnsOfFinite, FS_EmptySet
      <3>5. connsPerIP'[v][q] = AtLeast(0, connsPerIP[v][q] - 1)
        BY <1>t, <1>3, <2>1 DEF removeConnBookkeeping
      <3> QED
        BY <1>t, <2>o, <3>3, <3>4, <3>5 DEF AtLeast
    <2>2. CASE ~(v = w /\ q = p)
      <3>1. ConnsOf(v, q)' = ConnsOf(v, q)
        BY <1>t, <1>1, <2>2 DEF ConnsOf
      <3>2. connsPerIP'[v][q] = connsPerIP[v][q]
        BY <1>t, <1>p, <2>2 DEF removeConnBookkeeping
      <3> QED
        BY <2>o, <3>1, <3>2
    <2> QED
      BY <2>1, <2>2
  <1> QED
    BY <1>2, <1>3 DEF PerIPExact

\* Which conn an action releases.
LEMMA ReleasesAdmitted ==
  ASSUME TypeOK, Ownership, NEW w \in Workers, NEW f \in Fds,
         CloseConn(w, f) \/ HandleDone(w, f) \/ CleanupConn(w, f)
  PROVE  /\ <<w, f>> \in admitted /\ removeConnBookkeeping(w, f)
         /\ UNCHANGED <<rejectTtl, rejectIP, rejectRate, arrivals>>
  BY DEF CloseConn, HandleDone, CleanupConn, Ownership, TakeoversOwned

LEMMA PerIPStep ==
  ASSUME TypeOK, Ownership, RoomKept, PerIPExact, [Next]_vars
  PROVE  RoomKept' /\ PerIPExact'
  <1>t. /\ connsPerIP \in [Workers -> [IPs -> Nat]]
        /\ pc \in [Workers -> Positions] /\ arg \in [Workers -> ConnArg]
        /\ MaxConnsPerIP \in Nat /\ NoPeer \notin IPs /\ None \notin Workers
    BY ConstantsAssumption DEF TypeOK
  <1>0. ASSUME UNCHANGED table,
               \A v \in Workers : pc'[v] \in {"load", "cas"} =>
                 pc[v] \in {"load", "cas"} /\ arg'[v].peer = arg[v].peer
        PROVE  RoomKept' /\ PerIPExact'
    BY <1>0 DEF RoomKept, PerIPExact, ConnsOf, table
  <1>1. ASSUME NEW w \in Workers, NEW f \in Fds, NEW p \in Peers,
               HandleAccept(w, f, p)
        PROVE  RoomKept' /\ PerIPExact'
    <2>1. <<w, f>> \notin admitted /\ pc[w] = "loop"
      BY <1>1, <1>t DEF HandleAccept, Ownership, FdNotRecycled
    <2>2. CASE UNCHANGED <<table, pc, arg>>
      BY <1>0, <2>2
    <2>r. ~IPFull(w, p) =>
            (MaxConnsPerIP > 0 /\ p # NoPeer =>
               connsPerIP[w][p] < MaxConnsPerIP)
      BY <1>t DEF IPFull, Peers
    <2>3. CASE /\ arg' = [arg EXCEPT ![w] = [fd |-> f, peer |-> p, cur |-> 0]]
               /\ goto(w, "load") /\ UNCHANGED table /\ ~IPFull(w, p)
      <3>1. arg'[w].peer = p /\ UNCHANGED connsPerIP
            /\ \A v \in Workers : v # w => arg'[v] = arg[v] /\ pc'[v] = pc[v]
        BY <1>t, <2>3 DEF goto, table
      <3>2. RoomKept'
        BY <2>r, <2>3, <3>1 DEF RoomKept
      <3>3. PerIPExact'
        BY <2>3 DEF PerIPExact, ConnsOf, table
      <3> QED
        BY <3>2, <3>3
    <2>4. CASE Enter(w, f, p) /\ UNCHANGED <<pc, arg>> /\ ~IPFull(w, p)
      <3>1. /\ PerIPExact'
            /\ \A v \in Workers : v # w => connsPerIP'[v] = connsPerIP[v]
        BY <2>1, <2>4, <2>r, EnterKeepsPerIP
      <3> QED
        BY <2>1, <2>4, <3>1 DEF RoomKept
    <2> QED
      BY <1>1, <2>2, <2>3, <2>4 DEF HandleAccept, Precheck
  <1>2. ASSUME NEW w \in Workers, Reserve(w)
        PROVE  RoomKept' /\ PerIPExact'
    <2>1. /\ pc[w] = "cas" /\ arg[w].fd \in Fds /\ arg[w].peer \in Peers
          /\ <<w, arg[w].fd>> \notin admitted
      BY <1>2 DEF Reserve, TypeOK, ConnArg, Ownership, InHandOwned
    <2>2. CASE connCnt = arg[w].cur
      <3>1. Enter(w, arg[w].fd, arg[w].peer) /\ return(w)
        BY <1>2, <2>2 DEF Reserve, CompareAndSwap
      <3>2. /\ PerIPExact'
            /\ \A v \in Workers : v # w => connsPerIP'[v] = connsPerIP[v]
        BY <2>1, <3>1, EnterKeepsPerIP DEF RoomKept
      <3>3. pc'[w] = "loop"
            /\ \A v \in Workers : v # w => arg'[v] = arg[v] /\ pc'[v] = pc[v]
        BY <1>t, <3>1 DEF return, goto
      <3> QED
        BY <3>2, <3>3 DEF RoomKept
    <2>3. CASE connCnt # arg[w].cur
      BY <1>0, <1>2, <1>t, <2>1, <2>3 DEF Reserve, CompareAndSwap, goto
    <2> QED
      BY <2>2, <2>3
  <1>3. ASSUME NEW w \in Workers, NEW f \in Fds,
               CloseConn(w, f) \/ HandleDone(w, f) \/ CleanupConn(w, f)
        PROVE  RoomKept' /\ PerIPExact'
    <2>1. /\ PerIPExact'
          /\ \A v \in Workers : v # w => connsPerIP'[v] = connsPerIP[v]
      BY <1>3, ReleasesAdmitted, RemoveKeepsPerIP
    <2>2. /\ pc'[w] \notin {"load", "cas"}
          /\ \A v \in Workers : v # w => arg'[v] = arg[v] /\ pc'[v] = pc[v]
      BY <1>t, <1>3 DEF CloseConn, HandleDone, CleanupConn, goto
    <2> QED
      BY <2>1, <2>2 DEF RoomKept
  <1>4. ASSUME NEW w \in Workers, LoadCount(w)
        PROVE  RoomKept' /\ PerIPExact'
    <2>1. \A v \in Workers : pc'[v] \in {"load", "cas"} =>
            pc[v] \in {"load", "cas"} /\ arg'[v].peer = arg[v].peer
      BY <1>t, <1>4 DEF LoadCount, return, goto, ConnArg
    <2> QED
      BY <1>0, <1>4, <2>1 DEF LoadCount
  <1>5. ASSUME NEW w \in Workers,
               CloseFd(w) \/ BeginCleanup(w) \/ DrainDone(w) \/ Stop(w)
        PROVE  RoomKept' /\ PerIPExact'
    <2>1. \A v \in Workers : pc'[v] \in {"load", "cas"} =>
            pc[v] \in {"load", "cas"} /\ arg'[v].peer = arg[v].peer
      BY <1>t, <1>5 DEF CloseFd, BeginCleanup, DrainDone, Stop, return, goto
    <2> QED
      BY <1>0, <1>5, <2>1 DEF CloseFd, BeginCleanup, DrainDone, Stop
  <1>6. ASSUME NEW w \in Workers, NEW f \in Fds, DrainFile(w, f)
        PROVE  RoomKept' /\ PerIPExact'
    BY <1>0, <1>6 DEF DrainFile
  <1>7. ASSUME NEW w \in Workers, NEW f \in Fds,
               Takeover(w, f) \/ TakeoverDone(w, f)
        PROVE  RoomKept' /\ PerIPExact'
    BY <1>7 DEF Takeover, TakeoverDone, RoomKept, PerIPExact, ConnsOf
  <1>8. ASSUME NEW w \in Workers, WaitReturns(w) \/ MarkWindow(w)
        PROVE  RoomKept' /\ PerIPExact'
    BY <1>0, <1>8 DEF WaitReturns, MarkWindow
  <1>9. ASSUME Tick \/ Shutdown \/ Terminated \/ UNCHANGED vars
        PROVE  RoomKept' /\ PerIPExact'
    BY <1>0, <1>9 DEF Tick, Shutdown, Terminated, vars
  <1> QED
    BY <1>1, <1>2, <1>3, <1>4, <1>5, <1>6, <1>7, <1>8, <1>9
       DEF Next, WorkerStep

-----------------------------------------------------------------------------
(* Accounting: every step moves one connection from one account to another. *)

LEMMA AdmissionFinite ==
  IsFiniteSet(InAdmission) /\ Cardinality(InAdmission) \in Nat
  BY FS_Subset, FS_CardinalityType, ConstantsAssumption DEF InAdmission

LEMMA AccountingStep ==
  ASSUME TypeOK, Ownership, Accounting, [Next]_vars
  PROVE  Accounting'
  <1>t. /\ pc \in [Workers -> Positions] /\ None \notin Workers
        /\ rejectTtl \in Nat /\ rejectIP \in Nat /\ rejectRate \in Nat
        /\ arrivals \in Nat /\ released \in Nat
        /\ IsFiniteSet(admitted) /\ Cardinality(admitted) \in Nat
        /\ IsFiniteSet(InAdmission) /\ Cardinality(InAdmission) \in Nat
    BY ConstantsAssumption, AdmittedFinite, AdmissionFinite DEF TypeOK
  <1> DEFINE Same == UNCHANGED <<rejectTtl, rejectIP, rejectRate, arrivals,
                                 released, admitted>>
  <1>0. ASSUME Same, InAdmission' = InAdmission PROVE Accounting'
    BY <1>0 DEF Accounting
  <1>1. ASSUME NEW w \in Workers, NEW f \in Fds, NEW p \in Peers,
               HandleAccept(w, f, p)
        PROVE  Accounting'
    <2>1. /\ <<w, f>> \notin admitted /\ pc[w] = "loop"
          /\ arrivals' = arrivals + 1 /\ released' = released
      BY <1>1, <1>t DEF HandleAccept, Ownership, FdNotRecycled
    <2>2. CASE /\ UNCHANGED <<rejectTtl, admitted, pc>>
               /\ \/ rejectRate' = rejectRate + 1 /\ UNCHANGED rejectIP
                  \/ rejectIP' = rejectIP + 1 /\ UNCHANGED rejectRate
      <3>1. InAdmission' = InAdmission
        BY <2>2 DEF InAdmission
      <3> QED
        BY <1>t, <2>1, <2>2, <3>1 DEF Accounting
    <2>3. CASE goto(w, "load") /\ UNCHANGED <<counters, table>>
      <3>1. InAdmission' = InAdmission \cup {w} /\ w \notin InAdmission
        BY <1>t, <2>1, <2>3 DEF InAdmission, goto
      <3>2. Cardinality(InAdmission') = Cardinality(InAdmission) + 1
        BY <1>t, <3>1, FS_AddElement
      <3> QED
        BY <1>t, <2>1, <2>3, <3>2 DEF Accounting, counters, table
    <2>4. CASE Enter(w, f, p) /\ UNCHANGED <<counters, pc>>
      <3>1. Cardinality(admitted') = Cardinality(admitted) + 1
        BY <1>t, <2>1, <2>4, FS_AddElement DEF Enter
      <3>2. InAdmission' = InAdmission
        BY <2>4 DEF InAdmission
      <3> QED
        BY <1>t, <2>1, <2>4, <3>1, <3>2 DEF Accounting, counters
    <2> QED
      BY <1>1, <2>2, <2>3, <2>4 DEF HandleAccept, Precheck, table
  <1>2. ASSUME NEW w \in Workers, LoadCount(w) PROVE Accounting'
    <2>1. CASE connCnt >= MaxConns
      <3>1. InAdmission' = InAdmission \ {w} /\ w \in InAdmission
        BY <1>t, <1>2, <2>1 DEF LoadCount, InAdmission, return, goto
      <3>2. Cardinality(InAdmission') = Cardinality(InAdmission) - 1
        BY <1>t, <3>1, FS_RemoveElement
      <3> QED
        BY <1>t, <1>2, <2>1, <3>2 DEF LoadCount, Accounting, table
    <2>2. CASE ~(connCnt >= MaxConns)
      <3>1. InAdmission' = InAdmission
        BY <1>t, <1>2, <2>2 DEF LoadCount, InAdmission, goto
      <3> QED
        BY <1>0, <1>2, <2>2, <3>1 DEF LoadCount, table
    <2> QED
      BY <2>1, <2>2
  <1>3. ASSUME NEW w \in Workers, Reserve(w) PROVE Accounting'
    <2>1. CASE connCnt = arg[w].cur
      <3>1. InAdmission' = InAdmission \ {w} /\ w \in InAdmission
        BY <1>t, <1>3, <2>1
           DEF Reserve, CompareAndSwap, InAdmission, return, goto
      <3>2. Cardinality(InAdmission') = Cardinality(InAdmission) - 1
        BY <1>t, <3>1, FS_RemoveElement
      <3>3. /\ admitted' = admitted \cup {<<w, arg[w].fd>>}
            /\ <<w, arg[w].fd>> \notin admitted
        BY <1>3, <2>1
           DEF Reserve, CompareAndSwap, Enter, Ownership, InHandOwned
      <3>4. Cardinality(admitted') = Cardinality(admitted) + 1
        BY <1>t, <3>3, FS_AddElement
      <3> QED
        BY <1>t, <1>3, <3>2, <3>4 DEF Reserve, Accounting
    <2>2. CASE connCnt # arg[w].cur
      <3>1. InAdmission' = InAdmission
        BY <1>t, <1>3, <2>2 DEF Reserve, CompareAndSwap, InAdmission, goto
      <3> QED
        BY <1>0, <1>3, <2>2, <3>1 DEF Reserve, CompareAndSwap, table
    <2> QED
      BY <2>1, <2>2
  <1>4. ASSUME NEW w \in Workers, NEW f \in Fds,
               CloseConn(w, f) \/ HandleDone(w, f) \/ CleanupConn(w, f)
        PROVE  Accounting'
    <2>1. /\ <<w, f>> \in admitted /\ removeConnBookkeeping(w, f)
          /\ UNCHANGED <<rejectTtl, rejectIP, rejectRate, arrivals>>
      BY <1>4, ReleasesAdmitted
    <2>2. admitted' = admitted \ {<<w, f>>} /\ released' = released + 1
      BY <2>1 DEF removeConnBookkeeping, Forget
    <2>3. Cardinality(admitted') = Cardinality(admitted) - 1
      BY <1>t, <2>1, <2>2, FS_RemoveElement
    <2>4. InAdmission' = InAdmission
      BY <1>t, <1>4 DEF CloseConn, HandleDone, CleanupConn, InAdmission, goto
    <2> QED
      BY <1>t, <2>1, <2>2, <2>3, <2>4 DEF Accounting
  <1>5. ASSUME NEW w \in Workers,
               CloseFd(w) \/ BeginCleanup(w) \/ DrainDone(w) \/ Stop(w)
        PROVE  Accounting'
    <2>1. InAdmission' = InAdmission
      BY <1>t, <1>5
         DEF CloseFd, BeginCleanup, DrainDone, Stop, InAdmission, return, goto
    <2> QED
      BY <1>0, <1>5, <2>1
         DEF CloseFd, BeginCleanup, DrainDone, Stop, counters, table
  <1>6. ASSUME NEW w \in Workers, NEW f \in Fds,
               DrainFile(w, f) \/ Takeover(w, f) \/ TakeoverDone(w, f)
        PROVE  Accounting'
    <2>1. pc' = pc /\ Same
      BY <1>6 DEF DrainFile, Takeover, TakeoverDone, counters, table
    <2> QED
      BY <1>0, <2>1 DEF InAdmission
  <1>7. ASSUME NEW w \in Workers, WaitReturns(w) \/ MarkWindow(w)
        PROVE  Accounting'
    <2>1. pc' = pc /\ Same
      BY <1>7 DEF WaitReturns, MarkWindow, counters, table
    <2> QED
      BY <1>0, <2>1 DEF InAdmission
  <1>8. ASSUME Tick \/ Shutdown \/ Terminated \/ UNCHANGED vars
        PROVE  Accounting'
    <2>1. pc' = pc /\ Same
      BY <1>8 DEF Tick, Shutdown, Terminated, vars, counters, table
    <2> QED
      BY <1>0, <2>1 DEF InAdmission
  <1> QED
    BY <1>1, <1>2, <1>3, <1>4, <1>5, <1>6, <1>7, <1>8 DEF Next, WorkerStep

LEMMA BooksInit == Init => RoomKept /\ PerIPExact /\ Accounting
  <1> SUFFICES ASSUME Init PROVE RoomKept /\ PerIPExact /\ Accounting
    OBVIOUS
  <1>1. RoomKept
    BY DEF Init, RoomKept
  <1>2. ASSUME NEW w \in Workers, NEW p \in IPs
        PROVE  Cardinality(ConnsOf(w, p)) = 0 /\ connsPerIP[w][p] = 0
    <2>1. ConnsOf(w, p) = {}
      BY DEF Init, ConnsOf
    <2> QED
      BY <2>1, FS_EmptySet DEF Init
  <1>3. PerIPExact
    BY <1>2, ConstantsAssumption DEF PerIPExact
  <1>4. InAdmission = {} /\ admitted = {}
    BY DEF Init, InAdmission
  <1>5. Accounting
    BY <1>4, FS_EmptySet DEF Init, Accounting
  <1> QED
    BY <1>1, <1>3, <1>5

\* Each worker's per-IP count is exact and within its cap on every path, also
\* where the CAS loop ran in between, and every connection the kernel handed
\* over is on exactly one account: refused, in admission, admitted, released.
THEOREM BooksAreBalanced == Spec => []BooksBalance
  <1> DEFINE Books == /\ TypeOK /\ Ownership /\ RoomKept
                      /\ PerIPExact /\ Accounting
  <1>1. Init => Books
    BY TypeInit, OwnershipInit, BooksInit
  <1>2. Books /\ [Next]_vars => Books'
    BY TypeStep, OwnershipStep, PerIPStep, AccountingStep
  <1>3. Books => BooksBalance
    BY DEF BooksBalance
  <1> QED
    BY <1>1, <1>2, <1>3, PTL DEF Spec
=============================================================================
