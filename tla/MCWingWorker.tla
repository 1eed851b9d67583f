---------------------------- MODULE MCWingWorker ----------------------------
(* The end of a worker (WingShutdown) and its wakeups (WingWake), one at a   *)
(* time: part says which of the two moves, while the other rests in a state  *)
(* in which it has nothing to do.                                            *)
EXTENDS MCWingShutdown, WingWake

VARIABLE part

\* The loop sleeps, and nobody has anything left to report.
Asleep ==
  /\ reports = {} /\ posts = [p \in Posters |-> 0]
  /\ ppc = [p \in Posters |-> "idle"]
  /\ wakeup = 0 /\ counter = FALSE /\ edge = FALSE
  /\ conn = FALSE /\ traffic = 0
  /\ wpc = "wait" /\ idle = SpinLimit + 1 /\ batch = {}
  /\ expired = FALSE /\ swept = FALSE

\* The worker has stopped.
Gone ==
  /\ setup = Tight
  /\ kind = [x \in Conns |-> None] /\ stage = [x \in Conns |-> "idle"]
  /\ jobs = <<>> /\ closed = TRUE
  /\ inHand = [g \in PoolGs |-> None] /\ exited = PoolGs
  /\ doneCh = <<>>
  /\ shut = Conns /\ closes = [x \in Conns |-> 1]
  /\ drainer = "gone" /\ held = None /\ stop = TRUE
  /\ pc = "stopped" /\ sat = None /\ shutdown = TRUE

WorkerInit ==
  \/ part = "shutdown" /\ Init /\ Asleep
  \/ part = "wake" /\ WakeInit /\ Gone

WorkerNext ==
  /\ \/ part = "shutdown" /\ Next /\ UNCHANGED wakeVars
     \/ part = "wake" /\ WakeNext /\ UNCHANGED vars
  /\ UNCHANGED part

WorkerSpec ==
  WorkerInit /\ [][WorkerNext]_<<part, vars, wakeVars>>
             /\ Fairness /\ WakeFairness
=============================================================================
