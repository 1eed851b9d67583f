---------------------------- MODULE WingShutdown ----------------------------
(***************************************************************************)
(* Shutdown of a Wing worker with handlers in flight: the goroutine pool,  *)
(* the Spawn and Takeover goroutines, the bounded channel on which they    *)
(* report to the event loop, and the stages of cleanup, which must wait    *)
(* for every goroutine that may still write to an fd before closing it.    *)
(***************************************************************************)
EXTENDS Integers, Sequences, FiniteSets

CONSTANTS
  Conns,     \* the worker's connections
  PoolGs,    \* the goroutines of the worker pool
  Setups     \* the capacities and routes to explore:
             \*   jobCap      of pool.jobs (twice the pool's size in the code)
             \*   doneCap     of doneCh (4096 in the code)
             \*   dispatches  the routes use: of "Pool", "Spawn", "Takeover"

None == "none"

ASSUME ConstantsAssumption ==
  /\ IsFiniteSet(Conns) /\ IsFiniteSet(PoolGs) /\ PoolGs # {}
  /\ None \notin Conns
  /\ \A e \in Setups : /\ e.jobCap \in Nat /\ e.doneCap \in Nat \ {0}
                       /\ e.dispatches \subseteq {"Pool", "Spawn", "Takeover"}

VARIABLES
  setup,     \* the setup, fixed from the start
  kind,      \* the dispatch of each conn's request in flight
  stage,     \* how far that request is: idle, queued, running, sending, sent
  jobs,      \* pool.jobs
  closed,    \* has pool.jobs been closed?
  inHand,    \* the conn each pool goroutine serves
  exited,    \* pool goroutines that left (pool.wg)
  doneCh,    \* worker.doneCh
  shut,      \* conns shut down (SHUT_RDWR) and cancelled by cleanup
  closes,    \* how often the fd of each conn was closed
  drainer,   \* cleanup's drain goroutine: off, on, gone
  held,      \* the completion it has received and not yet acted upon
  stop,      \* has drainStop been closed?
  pc,        \* the event loop, and then cleanup
  sat,       \* the conn whose result the loop itself sends
  shutdown   \* Transport.shutdown

poolVars == <<jobs, closed, inHand, exited>>
drainVars == <<drainer, held, stop>>
vars == <<setup, kind, stage, poolVars, doneCh, shut, closes, drainVars, pc,
          sat, shutdown>>

JobCap     == setup.jobCap
DoneCap    == setup.doneCap
Dispatches == setup.dispatches

Init ==
  /\ setup \in Setups
  /\ kind = [x \in Conns |-> None] /\ stage = [x \in Conns |-> "idle"]
  /\ jobs = <<>> /\ closed = FALSE
  /\ inHand = [g \in PoolGs |-> None] /\ exited = {}
  /\ doneCh = <<>>
  /\ shut = {} /\ closes = [x \in Conns |-> 0]
  /\ drainer = "off" /\ held = None /\ stop = FALSE
  /\ pc = "loop" /\ sat = None /\ shutdown = FALSE

Open(x) == closes[x] = 0

Room == Len(doneCh) < DoneCap

CloseFd(x) == closes' = [closes EXCEPT ![x] = @ + 1]

At(x, s) == stage' = [stage EXCEPT ![x] = s]

-----------------------------------------------------------------------------
(* The event loop dispatches requests (tryParse). *)

\* The non-blocking send on pool.jobs succeeds.
JobRoom == Len(jobs) < JobCap

\* Only one in-flight handler per conn; its fd is open.
Free(x) == stage[x] = "idle" /\ Open(x)

\* Pool: to the queue, or, when it is full, run on the loop itself.
DispatchPool(x) ==
  /\ pc = "loop" /\ Free(x) /\ "Pool" \in Dispatches
  /\ kind' = [kind EXCEPT ![x] = "Pool"]
  /\ IF JobRoom
     THEN /\ jobs' = Append(jobs, x)
          /\ At(x, "queued")
          /\ UNCHANGED <<pc, sat>>
     ELSE /\ At(x, "sending")
          /\ pc' = "saturated" /\ sat' = x
          /\ UNCHANGED jobs
  /\ UNCHANGED <<setup, closed, inHand, exited, doneCh, shut, closes,
                 drainVars, shutdown>>

\* The loop sends the result it computed on its own channel.
SaturatedSend ==
  /\ pc = "saturated" /\ Room
  /\ doneCh' = Append(doneCh, sat)
  /\ At(sat, "sent")
  /\ pc' = "loop" /\ sat' = None
  /\ UNCHANGED <<setup, kind, poolVars, shut, closes, drainVars, shutdown>>

\* Spawn and Takeover: a goroutine counted by dispatchWG.
DispatchGoroutine(x) ==
  /\ pc = "loop" /\ Free(x)
  /\ \E d \in Dispatches \ {"Pool"} : kind' = [kind EXCEPT ![x] = d]
  /\ At(x, "running")
  /\ UNCHANGED <<setup, poolVars, doneCh, shut, closes, drainVars, pc, sat,
                 shutdown>>

\* handleDone: the conn is idle again, or closed; a Takeover's file is closed.
HandleDone ==
  LET x == Head(doneCh) IN
  /\ pc = "loop" /\ doneCh # <<>>
  /\ doneCh' = Tail(doneCh)
  /\ At(x, "idle")
  /\ \/ kind[x] # "Takeover" /\ UNCHANGED closes      \* kept alive
     \/ CloseFd(x)
  /\ UNCHANGED <<setup, kind, poolVars, shut, drainVars, pc, sat, shutdown>>

-----------------------------------------------------------------------------
(* The goroutines.  While "running" one may write to its fd. *)

PoolTakes(g) ==
  /\ g \notin exited /\ inHand[g] = None /\ jobs # <<>>
  /\ inHand' = [inHand EXCEPT ![g] = Head(jobs)]
  /\ jobs' = Tail(jobs)
  /\ At(Head(jobs), "running")
  /\ UNCHANGED <<setup, kind, closed, exited, doneCh, shut, closes, drainVars,
                 pc, sat, shutdown>>

PoolWrites(g) ==
  /\ inHand[g] # None /\ stage[inHand[g]] = "running"
  /\ At(inHand[g], "sending")
  /\ UNCHANGED <<setup, kind, poolVars, doneCh, shut, closes, drainVars, pc,
                 sat, shutdown>>

PoolSends(g) ==
  /\ inHand[g] # None /\ stage[inHand[g]] = "sending" /\ Room
  /\ doneCh' = Append(doneCh, inHand[g])
  /\ At(inHand[g], "sent")
  /\ inHand' = [inHand EXCEPT ![g] = None]
  /\ UNCHANGED <<setup, kind, jobs, closed, exited, shut, closes, drainVars,
                 pc, sat, shutdown>>

PoolExits(g) ==
  /\ g \notin exited /\ inHand[g] = None /\ jobs = <<>> /\ closed
  /\ exited' = exited \cup {g}
  /\ UNCHANGED <<setup, kind, stage, jobs, closed, inHand, doneCh, shut,
                 closes, drainVars, pc, sat, shutdown>>

\* A Spawn handler writes its response and is ready to report.
SpawnWrites(x) ==
  /\ kind[x] = "Spawn" /\ stage[x] = "running"
  /\ At(x, "sending")
  /\ UNCHANGED <<setup, kind, poolVars, doneCh, shut, closes, drainVars, pc,
                 sat, shutdown>>

\* takeoverLoop leaves its read loop: its client is gone, or cleanup shut the
\* socket down and cancelled its context.
TakeoverEnds(x) ==
  /\ kind[x] = "Takeover" /\ stage[x] = "running"
  /\ At(x, "sending")
  /\ UNCHANGED <<setup, kind, poolVars, doneCh, shut, closes, drainVars, pc,
                 sat, shutdown>>

GoroutineSends(x) ==
  /\ kind[x] \in {"Spawn", "Takeover"} /\ stage[x] = "sending" /\ Room
  /\ doneCh' = Append(doneCh, x)
  /\ At(x, "sent")
  /\ UNCHANGED <<setup, kind, poolVars, shut, closes, drainVars, pc, sat,
                 shutdown>>

-----------------------------------------------------------------------------
(* Transport.Shutdown and worker.cleanup. *)

Shutdown ==
  /\ ~shutdown /\ shutdown' = TRUE
  /\ UNCHANGED <<setup, kind, stage, poolVars, doneCh, shut, closes, drainVars,
                 pc, sat>>

\* The loop ends; pool.jobs is closed.
CloseJobs ==
  /\ pc = "loop" /\ shutdown
  /\ closed' = TRUE /\ pc' = "poolWait"
  /\ UNCHANGED <<setup, kind, stage, jobs, inHand, exited, doneCh, shut,
                 closes, drainVars, sat, shutdown>>

MutPoolGone == TRUE                           \* cleanup does not wait for it

\* pool.wg.Wait
PoolGone == exited = PoolGs

\* Every conn with a handler pending is shut down; the drain starts.
ShutDownConns ==
  /\ pc = "poolWait" /\ PoolGone
  /\ shut' = {x \in Conns : stage[x] # "idle" /\ Open(x)}
  /\ drainer' = "on" /\ pc' = "dispatchWait"
  /\ UNCHANGED <<setup, kind, stage, poolVars, doneCh, closes, held, stop, sat,
                 shutdown>>

MutDrainReceives == FALSE /\ UNCHANGED vars        \* no concurrent drain

\* The drain goroutine: receive, then close the file; stop when told to.
DrainReceives ==
  /\ drainer = "on" /\ held = None /\ doneCh # <<>>
  /\ held' = Head(doneCh) /\ doneCh' = Tail(doneCh)
  /\ UNCHANGED <<setup, kind, stage, poolVars, shut, closes, drainer, stop, pc,
                 sat, shutdown>>

MutDrainActs ==                            \* the file is left to a finalizer
  /\ drainer = "on" /\ held # None
  /\ held' = None
  /\ UNCHANGED <<setup, kind, stage, poolVars, doneCh, shut, closes, drainer,
                 stop, pc, sat, shutdown>>

DrainActs ==
  /\ drainer = "on" /\ held # None
  /\ IF kind[held] = "Takeover" THEN CloseFd(held) ELSE UNCHANGED closes
  /\ held' = None
  /\ UNCHANGED <<setup, kind, stage, poolVars, doneCh, shut, drainer, stop, pc,
                 sat, shutdown>>

DrainStops ==
  /\ drainer = "on" /\ held = None /\ stop
  /\ drainer' = "gone"
  /\ UNCHANGED <<setup, kind, stage, poolVars, doneCh, shut, closes, held,
                 stop, pc, sat, shutdown>>

\* dispatchWG.Wait
DispatchDone ==
  \A x \in Conns : kind[x] \in {"Spawn", "Takeover"} =>
                     stage[x] \notin {"running", "sending"}

StopDrain ==
  /\ pc = "dispatchWait" /\ DispatchDone
  /\ stop' = TRUE /\ pc' = "drainBuffered"
  /\ UNCHANGED <<setup, kind, stage, poolVars, doneCh, shut, closes, drainer,
                 held, sat, shutdown>>

\* What the concurrent drain left in the channel.
DrainBuffered ==
  /\ pc = "drainBuffered"
  /\ IF doneCh # <<>>
     THEN /\ doneCh' = Tail(doneCh)
          /\ IF kind[Head(doneCh)] = "Takeover" THEN CloseFd(Head(doneCh))
             ELSE UNCHANGED closes
          /\ UNCHANGED pc
     ELSE pc' = "closeFds" /\ UNCHANGED <<doneCh, closes>>
  /\ UNCHANGED <<setup, kind, stage, poolVars, shut, drainVars, sat, shutdown>>

\* A conn whose fd a Takeover *os.File owns.
TakenOver(x) == kind[x] = "Takeover" /\ stage[x] # "idle"

\* The conns that are still in the map and not taken over.
Remaining == {x \in Conns : Open(x) /\ ~TakenOver(x)}

CloseFds ==
  /\ pc = "closeFds"
  /\ closes' = [x \in Conns |-> IF x \in Remaining THEN closes[x] + 1
                                ELSE closes[x]]
  /\ pc' = "stopped"
  /\ UNCHANGED <<setup, kind, stage, poolVars, doneCh, shut, drainVars, sat,
                 shutdown>>

Terminated == pc = "stopped" /\ drainer = "gone" /\ UNCHANGED vars

-----------------------------------------------------------------------------
LoopStep ==
  \/ SaturatedSend \/ HandleDone
  \/ CloseJobs \/ ShutDownConns \/ StopDrain \/ DrainBuffered \/ CloseFds

PoolStep(g) == PoolTakes(g) \/ PoolWrites(g) \/ PoolSends(g) \/ PoolExits(g)

DrainStep == DrainReceives \/ DrainActs \/ DrainStops

Next ==
  \/ LoopStep \/ Shutdown \/ DrainStep \/ Terminated
  \/ \E g \in PoolGs : PoolStep(g)
  \/ \E x \in Conns : \/ DispatchPool(x) \/ DispatchGoroutine(x)
                      \/ SpawnWrites(x) \/ TakeoverEnds(x) \/ GoroutineSends(x)

Spec == Init /\ [][Next]_vars

\* The runtime schedules every goroutine that can run, handlers return, the
\* loop returns to its flag, and a takeover that was shut down leaves.
Fairness ==
  /\ WF_vars(LoopStep) /\ WF_vars(DrainStep) /\ SF_vars(CloseJobs)
  /\ \A g \in PoolGs : WF_vars(PoolStep(g))
  /\ \A x \in Conns : /\ WF_vars(SpawnWrites(x)) /\ WF_vars(GoroutineSends(x))
                      /\ WF_vars(x \in shut /\ TakeoverEnds(x))

FairSpec == Spec /\ Fairness

-----------------------------------------------------------------------------
(* Properties. *)

\* Every variable has its type; the two channels never hold more than they can.
TypeOK ==
  /\ setup \in Setups
  /\ kind \in [Conns -> {None, "Pool", "Spawn", "Takeover"}]
  /\ stage \in [Conns -> {"idle", "queued", "running", "sending", "sent"}]
  /\ jobs \in Seq(Conns) /\ Len(jobs) <= JobCap
  /\ inHand \in [PoolGs -> Conns \cup {None}] /\ exited \subseteq PoolGs
  /\ doneCh \in Seq(Conns) /\ Len(doneCh) <= DoneCap
  /\ shut \subseteq Conns /\ closes \in [Conns -> Nat]
  /\ drainer \in {"off", "on", "gone"} /\ held \in Conns \cup {None}
  /\ pc \in {"loop", "saturated", "poolWait", "dispatchWait", "drainBuffered",
             "closeFds", "stopped"}
  /\ sat \in Conns \cup {None}
  /\ {closed, stop, shutdown} \subseteq BOOLEAN

\* "a dispatch goroutine could write to an fd the kernel has already recycled"
\* (worker.dispatchWG, workerPool.wg): while a goroutine has a request whose
\* response it may still write, the fd has not been closed.
NoWriteAfterClose ==
  \A x \in Conns : stage[x] \in {"queued", "running", "sending"} => Open(x)

\* No fd is closed twice, by the loop, by the two drains of cleanup and by its
\* last loop together ("raw-closing it here would double-close").
ClosedAtMostOnce == \A x \in Conns : closes[x] <= 1

\* When the worker has stopped and its drain is gone no fd is left open.
NoFdLeak ==
  pc = "stopped" /\ drainer = "gone" => \A x \in Conns : ~Open(x)

\* A connection has one request in flight at most, wherever it is: in the
\* queue, with a pool goroutine, in doneCh or held by the drain.
OneInFlight ==
  \A x \in Conns :
    LET places == Cardinality({n \in 1..Len(jobs) : jobs[n] = x})
                  + Cardinality({g \in PoolGs : inHand[g] = x})
                  + Cardinality({n \in 1..Len(doneCh) : doneCh[n] = x})
                  + (IF held = x THEN 1 ELSE 0) + (IF sat = x THEN 1 ELSE 0)
    IN  places <= 1 /\ (stage[x] = "idle" => places = 0)

\* What the loop, the dispatches and cleanup do with an fd: it is in one pair
\* of hands at a time and is closed exactly once.
FdsExact == ClosedAtMostOnce /\ NoFdLeak /\ OneInFlight

\* Shutdown comes to an end: no goroutine waits for another for ever.
ShutdownCompletes == shutdown ~> (pc = "stopped" /\ drainer = "gone")
=============================================================================
