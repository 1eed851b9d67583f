--------------------------- MODULE WingAdmission ---------------------------
(***************************************************************************)
(* Admission of connections by the workers of the Wing transport: the      *)
(* accept-rate bucket, the per-IP cap, the server-wide cap kept in one     *)
(* atomic that all workers share, and every path that gives a reservation  *)
(* back (closeConn, the completion of a Takeover, cleanup at shutdown).    *)
(*                                                                         *)
(* Each worker is one event-loop goroutine; only connCnt and the kernel's  *)
(* fd table are shared.  A step of a worker is what it does between two    *)
(* accesses to those.  The token bucket's floats are kept as integers: one *)
(* token is Unit units and each clock tick refills perWorkerRate units.    *)
(***************************************************************************)
EXTENDS Integers, FiniteSets

CONSTANTS Workers,           \* event-loop workers
          Fds,               \* fd numbers the kernel hands out
          IPs,               \* peer addresses
          MaxConns,          \* WingConfig.MaxConns, 0 = unlimited
          MaxConnsPerIP,     \* WingConfig.MaxConnsPerIP, 0 = off
          AcceptRatePerSec,  \* WingConfig.AcceptRatePerSec, 0 = off
          AcceptRateBurst,   \* WingConfig.AcceptRateBurst
          Unit,              \* ticks per second
          MaxTime,           \* bound: ticks of the clock
          MaxArrivals        \* bound: connections clients open

NoPeer == "noPeer"           \* ev.HasPeer is false, c.peerIP is not valid
None   == "none"             \* an fd number that is not open

NoArg == [fd |-> None, peer |-> NoPeer, cur |-> 0]  \* nothing in hand

Peers == IPs \cup {NoPeer}
Ids   == Workers \X Fds      \* a key of some worker's conns map

ASSUME ConstantsAssumption ==
  /\ IsFiniteSet(Workers) /\ Workers # {} /\ None \notin Workers
  /\ IsFiniteSet(Fds) /\ Fds # {}
  /\ NoPeer \notin IPs
  /\ {MaxConns, MaxConnsPerIP, AcceptRatePerSec, AcceptRateBurst} \subseteq Nat
  /\ Unit \in Nat \ {0}
  /\ {MaxTime, MaxArrivals} \subseteq Nat

VARIABLES
  connCnt,     \* Transport.connCnt
  rejectTtl, rejectIP, rejectRate,   \* Transport's reject counters
  admitted,    \* keys of the conns maps whose conn has admitted = true
  peerIP,      \* conn.peerIP
  takenOver,   \* keys whose conn has takenOver = true
  running,     \* keys whose Takeover goroutine has not finished
  connsPerIP,  \* worker.connsPerIP, an absent key counting 0
  doneCh,      \* fds of the Takeover completions a worker has not received
  bucket,      \* worker.bucket, and the passes since an observer's mark
  wnow,        \* worker.now, cached once per event batch
  pc, arg,     \* where a worker stands, and the connection it has in hand
  holder,      \* kernel: the worker that holds each open fd
  now,         \* the clock
  shutdown,    \* Transport.shutdown
  arrivals,    \* connections the kernel has handed over
  released     \* reservations given back

counters == <<connCnt, rejectTtl, rejectIP, rejectRate>>
table    == <<admitted, peerIP, takenOver, running, connsPerIP>>
vars == <<counters, table, doneCh, bucket, wnow, pc, arg, holder, now,
          shutdown, arrivals, released>>

-----------------------------------------------------------------------------
(* The configuration a worker is built with (newWorker, newTokenBucket). *)

AtLeast(n, x) == IF x < n THEN n ELSE x

RateOn == AcceptRatePerSec > 0

perWorkerRate == AtLeast(1, AcceptRatePerSec \div Cardinality(Workers))

perWorkerBurst == AtLeast(1, AcceptRateBurst \div Cardinality(Workers))

newTokenBucket ==
  [tokens |-> AtLeast(perWorkerRate, perWorkerBurst) * Unit,
   burst  |-> AtLeast(perWorkerRate, perWorkerBurst) * Unit,
   last   |-> 0, passed |-> 0, from |-> 0]

\* The default for MaxConns, from the fd soft limit.
CONSTANTS acceptCapCeiling, acceptCapReserve
ASSUME CapAssumption ==
  acceptCapCeiling \in Nat \ {0} /\ acceptCapReserve \in Nat

deriveMaxConns(rlimitSoft, workers) ==
  LET headroom == 3 * workers + acceptCapReserve
      avail    == rlimitSoft - headroom
  IN  IF rlimitSoft <= headroom THEN 1
      ELSE IF avail > acceptCapCeiling THEN acceptCapCeiling ELSE avail

-----------------------------------------------------------------------------
(* tokenBucket.allow: refill by the time since the last call, then spend. *)

MutRefill(b, t) ==                                     \* the clamp is missing
  IF t > b.last THEN b.tokens + (t - b.last) * perWorkerRate ELSE b.tokens

Refill(b, t) ==
  IF t > b.last
  THEN LET r == b.tokens + (t - b.last) * perWorkerRate
       IN  IF r > b.burst THEN b.burst ELSE r
  ELSE b.tokens

Allows(b, t) == Refill(b, t) >= Unit

AfterAllow(b, t) ==
  IF Allows(b, t)
  THEN [b EXCEPT !.tokens = Refill(b, t) - Unit, !.last = t, !.passed = @ + 1]
  ELSE [b EXCEPT !.tokens = Refill(b, t), !.last = t]

-----------------------------------------------------------------------------
Init ==
  /\ connCnt = 0 /\ rejectTtl = 0 /\ rejectIP = 0 /\ rejectRate = 0
  /\ admitted = {} /\ takenOver = {} /\ running = {}
  /\ peerIP = [i \in Ids |-> NoPeer]
  /\ connsPerIP = [w \in Workers |-> [p \in IPs |-> 0]]
  /\ doneCh = [w \in Workers |-> {}]
  /\ bucket = [w \in Workers |-> newTokenBucket]
  /\ wnow = [w \in Workers |-> 0]
  /\ pc = [w \in Workers |-> "loop"]
  /\ arg = [w \in Workers |-> NoArg]
  /\ holder = [f \in Fds |-> None]
  /\ now = 0 /\ shutdown = FALSE /\ arrivals = 0 /\ released = 0

-----------------------------------------------------------------------------
(* handleAccept. *)

goto(w, where) == pc' = [pc EXCEPT ![w] = where]

\* The handler returns to the loop.
return(w) == goto(w, "loop") /\ arg' = [arg EXCEPT ![w] = NoArg]

MutIPFull(w, p) ==                                           \* off by one
  MaxConnsPerIP > 0 /\ p # NoPeer /\ connsPerIP[w][p] > MaxConnsPerIP

IPFull(w, p) ==
  MaxConnsPerIP > 0 /\ p # NoPeer /\ connsPerIP[w][p] >= MaxConnsPerIP

\* The new conn enters the worker's map and the per-IP count.
Enter(w, f, p) ==
  /\ admitted' = admitted \cup {<<w, f>>}
  /\ peerIP' = [peerIP EXCEPT ![<<w, f>>] = p]
  /\ connsPerIP' = IF MaxConnsPerIP > 0 /\ p # NoPeer
                   THEN [connsPerIP EXCEPT ![w][p] = @ + 1]
                   ELSE connsPerIP
  /\ UNCHANGED <<takenOver, running>>

\* The kernel hands w a connection; the two worker-local checks come first.
Precheck(w, f, p) ==
  /\ bucket' = IF RateOn
               THEN [bucket EXCEPT ![w] = AfterAllow(@, wnow[w])]
               ELSE bucket
  /\ \/ /\ RateOn /\ ~Allows(bucket[w], wnow[w])
        /\ rejectRate' = rejectRate + 1
        /\ UNCHANGED <<connCnt, rejectTtl, rejectIP, table, pc, arg, holder>>
     \/ /\ RateOn => Allows(bucket[w], wnow[w])
        /\ IPFull(w, p)
        /\ rejectIP' = rejectIP + 1
        /\ UNCHANGED <<connCnt, rejectTtl, rejectRate, table, pc, arg, holder>>
     \/ /\ RateOn => Allows(bucket[w], wnow[w])
        /\ ~IPFull(w, p)
        /\ holder' = [holder EXCEPT ![f] = w]
        /\ IF MaxConns > 0
           THEN /\ arg' = [arg EXCEPT ![w] = [fd |-> f, peer |-> p, cur |-> 0]]
                /\ goto(w, "load")
                /\ UNCHANGED table
           ELSE Enter(w, f, p) /\ UNCHANGED <<pc, arg>>
        /\ UNCHANGED counters

HandleAccept(w, f, p) ==
  /\ pc[w] = "loop"
  /\ holder[f] = None
  /\ arrivals < MaxArrivals
  /\ arrivals' = arrivals + 1
  /\ Precheck(w, f, p)
  /\ UNCHANGED <<doneCh, wnow, now, shutdown, released>>

\* The atomic load of the CAS loop; at the cap the connection is refused.
LoadCount(w) ==
  /\ pc[w] = "load"
  /\ IF connCnt >= MaxConns
     THEN /\ rejectTtl' = rejectTtl + 1
          /\ holder' = [holder EXCEPT ![arg[w].fd] = None]
          /\ return(w)
     ELSE /\ arg' = [arg EXCEPT ![w].cur = connCnt]
          /\ goto(w, "cas")
          /\ UNCHANGED <<rejectTtl, holder>>
  /\ UNCHANGED <<connCnt, rejectIP, rejectRate, table, doneCh, bucket, wnow,
                 now, shutdown, arrivals, released>>

MutCompareAndSwap(w) ==                     \* a plain add after the load
  /\ connCnt' = connCnt + 1
  /\ Enter(w, arg[w].fd, arg[w].peer)
  /\ return(w)

\* The compare-and-swap: reserve a place, or load again.
CompareAndSwap(w) ==
  IF connCnt = arg[w].cur
  THEN /\ connCnt' = connCnt + 1
       /\ Enter(w, arg[w].fd, arg[w].peer)
       /\ return(w)
  ELSE /\ goto(w, "load")
       /\ UNCHANGED <<connCnt, table, arg>>

Reserve(w) ==
  /\ pc[w] = "cas"
  /\ CompareAndSwap(w)
  /\ UNCHANGED <<rejectTtl, rejectIP, rejectRate, doneCh, bucket, wnow, holder,
                 now, shutdown, arrivals, released>>

-----------------------------------------------------------------------------
(* The ways a reservation is given back. *)

\* The conn is no longer admitted and its entry goes.
Forget(w, f) ==
  /\ admitted' = admitted \ {<<w, f>>}
  /\ takenOver' = takenOver \ {<<w, f>>}
  /\ peerIP' = [peerIP EXCEPT ![<<w, f>>] = NoPeer]
  /\ released' = released + 1
  /\ UNCHANGED running

MutRemove(w, f) ==                  \* the global count is never released
  /\ connsPerIP' = IF MaxConnsPerIP > 0 /\ peerIP[<<w, f>>] # NoPeer
                   THEN [connsPerIP EXCEPT ![w][peerIP[<<w, f>>]] = @ - 1]
                   ELSE connsPerIP
  /\ Forget(w, f)
  /\ UNCHANGED connCnt

removeConnBookkeeping(w, f) ==
  /\ connCnt' = IF MaxConns > 0 THEN connCnt - 1 ELSE connCnt
  /\ connsPerIP' = IF MaxConnsPerIP > 0 /\ peerIP[<<w, f>>] # NoPeer
                   THEN [connsPerIP EXCEPT ![w][peerIP[<<w, f>>]] =
                           AtLeast(0, @ - 1)]
                   ELSE connsPerIP
  /\ Forget(w, f)

\* closeConn, called from the loop on a conn no handler owns: the table first,
\* the fd in the next step.
CloseConn(w, f) ==
  /\ pc[w] = "loop"
  /\ <<w, f>> \in admitted \ takenOver
  /\ removeConnBookkeeping(w, f)
  /\ arg' = [arg EXCEPT ![w].fd = f]
  /\ goto(w, "closefd")
  /\ UNCHANGED <<rejectTtl, rejectIP, rejectRate, doneCh, bucket, wnow, holder,
                 now, shutdown, arrivals>>

CloseFd(w) ==
  /\ pc[w] = "closefd"
  /\ holder' = [holder EXCEPT ![arg[w].fd] = None]
  /\ return(w)
  /\ UNCHANGED <<counters, table, doneCh, bucket, wnow, now, shutdown,
                 arrivals, released>>

\* tryParse detaches the fd to a Takeover goroutine.
Takeover(w, f) ==
  /\ pc[w] = "loop"
  /\ <<w, f>> \in admitted \ takenOver
  /\ takenOver' = takenOver \cup {<<w, f>>}
  /\ running' = running \cup {<<w, f>>}
  /\ UNCHANGED <<counters, admitted, peerIP, connsPerIP, doneCh, bucket, wnow,
                 pc, arg, holder, now, shutdown, arrivals, released>>

\* The goroutine sends its doneMsg, the *os.File in it.
TakeoverDone(w, f) ==
  /\ <<w, f>> \in running
  /\ running' = running \ {<<w, f>>}
  /\ doneCh' = [doneCh EXCEPT ![w] = @ \cup {f}]
  /\ UNCHANGED <<counters, admitted, peerIP, takenOver, connsPerIP, bucket,
                 wnow, pc, arg, holder, now, shutdown, arrivals, released>>

MutHandleDone(w, f) ==            \* the file is closed before the bookkeeping
  /\ pc[w] = "loop"
  /\ f \in doneCh[w]
  /\ IF holder[f] = w
     THEN /\ holder' = [holder EXCEPT ![f] = None]
          /\ UNCHANGED <<connCnt, table, released, doneCh>>
     ELSE /\ removeConnBookkeeping(w, f)
          /\ doneCh' = [doneCh EXCEPT ![w] = @ \ {f}]
          /\ UNCHANGED holder
  /\ UNCHANGED <<rejectTtl, rejectIP, rejectRate, bucket, wnow, pc, arg, now,
                 shutdown, arrivals>>

\* handleDone of a Takeover completion: bookkeeping, then close the File.
HandleDone(w, f) ==
  /\ pc[w] = "loop"
  /\ f \in doneCh[w]
  /\ doneCh' = [doneCh EXCEPT ![w] = @ \ {f}]
  /\ removeConnBookkeeping(w, f)
  /\ arg' = [arg EXCEPT ![w].fd = f]
  /\ goto(w, "closefd")
  /\ UNCHANGED <<rejectTtl, rejectIP, rejectRate, bucket, wnow, holder, now,
                 shutdown, arrivals>>

-----------------------------------------------------------------------------
(* Shutdown: the flag, and the worker's cleanup. *)

Shutdown ==
  /\ ~shutdown
  /\ shutdown' = TRUE
  /\ UNCHANGED <<counters, table, doneCh, bucket, wnow, pc, arg, holder, now,
                 arrivals, released>>

\* The loop sees the flag.
BeginCleanup(w) ==
  /\ pc[w] = "loop" /\ shutdown
  /\ goto(w, "drain")
  /\ UNCHANGED <<counters, table, doneCh, bucket, wnow, arg, holder, now,
                 shutdown, arrivals, released>>

\* A drain closes the File of a Takeover; the conns entry is still there.
DrainFile(w, f) ==
  /\ pc[w] = "drain"
  /\ f \in doneCh[w]
  /\ doneCh' = [doneCh EXCEPT ![w] = @ \ {f}]
  /\ holder' = [holder EXCEPT ![f] = None]
  /\ UNCHANGED <<counters, table, bucket, wnow, pc, arg, now, shutdown,
                 arrivals, released>>

\* dispatchWG.Wait has returned and nothing is left in doneCh.
DrainDone(w) ==
  /\ pc[w] = "drain"
  /\ doneCh[w] = {} /\ \A f \in Fds : <<w, f>> \notin running
  /\ goto(w, "sweep")
  /\ UNCHANGED <<counters, table, doneCh, bucket, wnow, arg, holder, now,
                 shutdown, arrivals, released>>

\* The final loop closes every fd but those a File owned.
CleanupClose(w, f) ==
  holder' = IF <<w, f>> \in takenOver THEN holder
            ELSE [holder EXCEPT ![f] = None]

CleanupConn(w, f) ==
  /\ pc[w] = "sweep"
  /\ <<w, f>> \in admitted
  /\ removeConnBookkeeping(w, f)
  /\ CleanupClose(w, f)
  /\ UNCHANGED <<rejectTtl, rejectIP, rejectRate, doneCh, bucket, wnow, pc,
                 arg, now, shutdown, arrivals>>

Stop(w) ==
  /\ pc[w] = "sweep"
  /\ \A f \in Fds : <<w, f>> \notin admitted
  /\ goto(w, "stopped")
  /\ UNCHANGED <<counters, table, doneCh, bucket, wnow, arg, holder, now,
                 shutdown, arrivals, released>>

-----------------------------------------------------------------------------
(* Time.  The loop caches the clock when Wait returns; an observer marks    *)
(* the start of a window over which the rate limit is judged.               *)

Tick ==
  /\ RateOn /\ now < MaxTime
  /\ now' = now + 1
  /\ UNCHANGED <<counters, table, doneCh, bucket, wnow, pc, arg, holder,
                 shutdown, arrivals, released>>

WaitReturns(w) ==
  /\ RateOn /\ pc[w] = "loop" /\ wnow[w] # now
  /\ wnow' = [wnow EXCEPT ![w] = now]
  /\ UNCHANGED <<counters, table, doneCh, bucket, pc, arg, holder, now,
                 shutdown, arrivals, released>>

MarkWindow(w) ==
  /\ RateOn
  /\ bucket[w].passed > 0
  /\ bucket' = [bucket EXCEPT ![w].passed = 0, ![w].from = bucket[w].last]
  /\ UNCHANGED <<counters, table, doneCh, wnow, pc, arg, holder, now, shutdown,
                 arrivals, released>>

Terminated ==
  /\ \A w \in Workers : pc[w] = "stopped"
  /\ UNCHANGED vars

WorkerStep(w) ==
  \/ LoadCount(w) \/ Reserve(w) \/ CloseFd(w)
  \/ BeginCleanup(w) \/ DrainDone(w) \/ Stop(w)
  \/ \E f \in Fds : HandleDone(w, f) \/ DrainFile(w, f) \/ CleanupConn(w, f)

Next ==
  \/ \E w \in Workers : WorkerStep(w) \/ WaitReturns(w) \/ MarkWindow(w)
  \/ \E w \in Workers, f \in Fds :
       \/ \E p \in Peers : HandleAccept(w, f, p)
       \/ CloseConn(w, f) \/ Takeover(w, f) \/ TakeoverDone(w, f)
  \/ Tick \/ Shutdown \/ Terminated

Spec == Init /\ [][Next]_vars

\* The loop keeps running, and a Takeover goroutine ends: at shutdown its
\* socket is shut down and its context cancelled.
Fairness ==
  /\ \A w \in Workers : WF_vars(WorkerStep(w))
  /\ \A w \in Workers, f \in Fds : WF_vars(TakeoverDone(w, f))

FairSpec == Spec /\ Fairness

-----------------------------------------------------------------------------
(* Properties. *)

ConnArg == [fd : Fds \cup {None}, peer : Peers, cur : Int]

Positions == {"loop", "load", "cas", "closefd", "drain", "sweep", "stopped"}

Bucket == [tokens : Nat, burst : Nat, last : Nat, passed : Nat, from : Nat]

\* Every variable has its type, and a worker inside a handler has an fd in
\* hand; the bucket in particular never goes below zero.
TypeOK ==
  /\ {rejectTtl, rejectIP, rejectRate, now, arrivals, released} \subseteq Nat
  /\ connCnt \in Int
  /\ admitted \subseteq Ids /\ takenOver \subseteq Ids /\ running \subseteq Ids
  /\ peerIP \in [Ids -> Peers]
  /\ connsPerIP \in [Workers -> [IPs -> Nat]]
  /\ doneCh \in [Workers -> SUBSET Fds]
  /\ bucket \in [Workers -> Bucket]
  /\ wnow \in [Workers -> Nat]
  /\ pc \in [Workers -> Positions]
  /\ arg \in [Workers -> ConnArg]
  /\ \A w \in Workers :
       pc[w] \in {"load", "cas", "closefd"} => arg[w].fd \in Fds
  /\ holder \in [Fds -> Workers \cup {None}]
  /\ shutdown \in BOOLEAN

\* The shared counter is exactly the number of admitted connections of all
\* workers, whatever the interleaving of reservations and releases
\* (Transport.connCnt), so the cap neither leaks nor over-admits.
CountExact ==
  MaxConns > 0 => connCnt = Cardinality(admitted)

\* The server never holds more admitted connections than MaxConns, although
\* every worker decides for itself (the CAS loop of handleAccept).
CapHolds ==
  MaxConns > 0 => Cardinality(admitted) <= MaxConns

ConnsOf(w, p) == {i \in admitted : i[1] = w /\ peerIP[i] = p}

\* Each worker's per-IP count is the number of its connections from that peer
\* and never passes the per-IP cap (handleAccept, removeConnBookkeeping).
PerIPExact ==
  MaxConnsPerIP > 0 =>
    \A w \in Workers, p \in IPs :
      /\ connsPerIP[w][p] = Cardinality(ConnsOf(w, p))
      /\ connsPerIP[w][p] <= MaxConnsPerIP

\* "the kernel cannot recycle the fd number while the conns map still
\* references it" (doneMsg.file): the fd of an admitted connection is held by
\* its own worker, and no other worker ever closes it.  Only the drain of
\* cleanup closes Takeover files first, of connections it does not close again.
FdNotRecycled ==
  \A w \in Workers, f \in Fds :
    <<w, f>> \in admitted =>
      \/ holder[f] = w
      \/ pc[w] \in {"drain", "sweep"} /\ <<w, f>> \in takenOver

InAdmission == {w \in Workers : pc[w] \in {"load", "cas"}}

\* Every connection taken from the kernel ends up counted once: refused under
\* one of the three counters of RejectStats, being admitted, admitted, or
\* released.
Accounting ==
  arrivals = rejectTtl + rejectIP + rejectRate + Cardinality(InAdmission)
             + Cardinality(admitted) + released

\* The books of handleAccept and removeConnBookkeeping balance: per peer, and
\* over the whole life of the transport.
BooksBalance == PerIPExact /\ Accounting

\* Over any window of time, from the marked call of allow on, a worker passes
\* at most its burst plus what the configured rate refills in that time.
RateHolds ==
  \A w \in Workers :
    LET b == bucket[w] IN
      b.passed * Unit + b.tokens <= b.burst + (b.last - b.from) * perWorkerRate

\* Once the flag is set every worker gets to the end of cleanup, and then no
\* reservation is left ("bookkeeping decremented via the chokepoint").
ShutdownReleasesAll ==
  shutdown ~> /\ \A w \in Workers : pc[w] = "stopped"
              /\ admitted = {} /\ (MaxConns > 0 => connCnt = 0)

Cap == INSTANCE ConnCap WITH live <- admitted

\* The racing workers together implement one set of connections under a cap.
ImplementsCap == Cap!Spec
=============================================================================
