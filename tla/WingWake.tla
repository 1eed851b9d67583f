------------------------------ MODULE WingWake ------------------------------
(***************************************************************************)
(* How a goroutine wakes a Wing worker on Linux, and when the worker       *)
(* sweeps its timeouts.  PostWake coalesces wakeups with a compare-and-    *)
(* swap before it writes the eventfd; Wait clears the flag after it read   *)
(* the eventfd; the loop polls a while without blocking and then blocks    *)
(* in epoll_wait until the kernel has an event.  The worker has handlers   *)
(* off the loop (needsAsync), so it enters the kernel through Syscall6 and *)
(* the runtime sends it no preemption signal while it waits.               *)
(***************************************************************************)
EXTENDS Integers, FiniteSets

CONSTANTS
  Posters,   \* goroutines that report to the loop: handlers, Shutdown
  MaxPosts,  \* bound: reports of each
  SpinLimit, \* empty polls before Wait blocks (64 in the code)
  Traffic,   \* bound: events of other connections
  Timeouts   \* is an idle timeout configured?

ASSUME WakeAssumption ==
  /\ IsFiniteSet(Posters)
  /\ MaxPosts \in Nat /\ SpinLimit \in Nat /\ Traffic \in Nat
  /\ Timeouts \in BOOLEAN

VARIABLES
  reports,   \* completions in doneCh, by poster
  posts,     \* reports each poster has left
  ppc,       \* where each poster stands
  wakeup,    \* epollEngine.wakeup
  counter,   \* kernel: is the eventfd's counter non-zero?
  edge,      \* kernel: the eventfd is on epoll's ready list
  conn,      \* kernel: a connection's event is on the ready list
  traffic,   \* events of other connections still to come
  wpc,        \* where the loop stands
  idle,      \* epollEngine.idle
  batch,     \* what the current epoll_wait returned
  expired,   \* a connection has outlived its timeout
  swept      \* sweepTimeouts has closed it

wakeVars == <<reports, posts, ppc, wakeup, counter, edge, conn, traffic, wpc, idle,
          batch, expired, swept>>

WakeInit ==
  /\ reports = {} /\ posts = [p \in Posters |-> MaxPosts]
  /\ ppc = [p \in Posters |-> "idle"]
  /\ wakeup = 0 /\ counter = FALSE /\ edge = FALSE
  /\ conn = FALSE /\ traffic = Traffic
  /\ wpc = "drain" /\ idle = 0 /\ batch = {}
  /\ expired = FALSE /\ swept = FALSE

-----------------------------------------------------------------------------
(* A poster: send on doneCh, then PostWake. *)

Send(p) ==
  /\ ppc[p] = "idle" /\ posts[p] > 0 /\ p \notin reports
  /\ reports' = reports \cup {p}
  /\ posts' = [posts EXCEPT ![p] = @ - 1]
  /\ ppc' = [ppc EXCEPT ![p] = "cas"]
  /\ UNCHANGED <<wakeup, counter, edge, conn, traffic, wpc, idle, batch,
                 expired, swept>>

PostWake(p) ==
  /\ ppc[p] = "cas"
  /\ IF wakeup = 0
     THEN wakeup' = 1 /\ ppc' = [ppc EXCEPT ![p] = "write"]
     ELSE ppc' = [ppc EXCEPT ![p] = "idle"] /\ UNCHANGED wakeup
  /\ UNCHANGED <<reports, posts, counter, edge, conn, traffic, wpc, idle, batch,
                 expired, swept>>

\* eventfdWrite: the counter is set and the edge fires.
EventfdWrite(p) ==
  /\ ppc[p] = "write"
  /\ counter' = TRUE /\ edge' = TRUE
  /\ ppc' = [ppc EXCEPT ![p] = "idle"]
  /\ UNCHANGED <<reports, posts, wakeup, conn, traffic, wpc, idle, batch,
                 expired, swept>>

-----------------------------------------------------------------------------
(* The loop. *)

\* Receive every completion, until the channel is empty.
DrainDoneCh ==
  /\ wpc = "drain"
  /\ reports' = {} /\ wpc' = "wait"
  /\ UNCHANGED <<posts, ppc, wakeup, counter, edge, conn, traffic, idle, batch,
                 expired, swept>>

\* Does epoll_wait return at once, although there is no event?
Polls == idle <= SpinLimit

\* epoll_wait takes what is on the ready list.
EpollWait ==
  /\ wpc = "wait"
  /\ LET evs == (IF edge /\ counter THEN {"evfd"} ELSE {}) \cup
                (IF conn THEN {"conn"} ELSE {})
     IN  /\ evs # {} \/ Polls
         /\ batch' = evs
         /\ idle' = IF evs # {} THEN 0 ELSE idle + 1
         /\ wpc' = IF "evfd" \in evs THEN "read" ELSE "handle"
  /\ edge' = FALSE /\ conn' = FALSE
  /\ UNCHANGED <<reports, posts, ppc, wakeup, counter, traffic, expired,
                 swept>>

\* A signal interrupts epoll_wait: no event, and the count of empty waits goes
\* up (past the limit it no longer matters).
Interrupted ==
  /\ wpc = "wait"
  /\ idle' = IF Polls THEN idle + 1 ELSE idle
  /\ wpc' = "handle"
  /\ UNCHANGED <<reports, posts, ppc, wakeup, counter, edge, conn, traffic,
                 batch, expired, swept>>

\* eventfdRead
EventfdRead ==
  /\ wpc = "read"
  /\ counter' = FALSE /\ wpc' = "clear"
  /\ UNCHANGED <<reports, posts, ppc, wakeup, edge, conn, traffic, idle, batch,
                 expired, swept>>

MutClearWakeup ==                                 \* the flag is not cleared
  /\ wpc = "clear"
  /\ wpc' = "handle"
  /\ UNCHANGED <<reports, posts, ppc, wakeup, counter, edge, conn, traffic,
                 idle, batch, expired, swept>>

\* The flag is cleared after the read.
ClearWakeup ==
  /\ wpc = "clear"
  /\ wakeup' = 0 /\ wpc' = "handle"
  /\ UNCHANGED <<reports, posts, ppc, counter, edge, conn, traffic, idle,
                 batch, expired, swept>>

\* The batch is handled, then sweepTimeouts runs, then the loop starts over.
HandleBatch ==
  /\ wpc = "handle"
  /\ batch' = {} /\ wpc' = "drain"
  /\ swept' = (swept \/ (Timeouts /\ expired))
  /\ UNCHANGED <<reports, posts, ppc, wakeup, counter, edge, conn, traffic,
                 idle, expired>>

-----------------------------------------------------------------------------
(* The environment. *)

ConnEvent ==
  /\ traffic > 0
  /\ traffic' = traffic - 1 /\ conn' = TRUE
  /\ UNCHANGED <<reports, posts, ppc, wakeup, counter, edge, wpc, idle, batch,
                 expired, swept>>

TimeoutElapses ==
  /\ Timeouts /\ ~expired
  /\ expired' = TRUE
  /\ UNCHANGED <<reports, posts, ppc, wakeup, counter, edge, conn, traffic, wpc,
                 idle, batch, swept>>

WakeLoopStep ==
  DrainDoneCh \/ EpollWait \/ EventfdRead \/ ClearWakeup \/ HandleBatch

PosterStep(p) == PostWake(p) \/ EventfdWrite(p)

WakeNext ==
  \/ WakeLoopStep \/ Interrupted \/ ConnEvent \/ TimeoutElapses
  \/ \E p \in Posters : Send(p) \/ PosterStep(p)

WakeSpec == WakeInit /\ [][WakeNext]_wakeVars

\* The loop's thread and a goroutine inside PostWake are scheduled.
WakeFairness ==
  WF_wakeVars(WakeLoopStep) /\ \A p \in Posters : WF_wakeVars(PosterStep(p))

-----------------------------------------------------------------------------
(* Properties. *)

\* Every variable has its type.
WakeTypeOK ==
  /\ reports \subseteq Posters /\ posts \in [Posters -> 0..MaxPosts]
  /\ ppc \in [Posters -> {"idle", "cas", "write"}]
  /\ wakeup \in {0, 1}
  /\ counter \in BOOLEAN /\ edge \in BOOLEAN /\ conn \in BOOLEAN
  /\ expired \in BOOLEAN /\ swept \in BOOLEAN
  /\ traffic \in 0..Traffic
  /\ wpc \in {"drain", "wait", "read", "clear", "handle"}
  /\ idle \in 0..(SpinLimit + 1)
  /\ batch \subseteq {"evfd", "conn"}

\* The wakeup is on its way: some poster is about to signal, or the eventfd
\* is on the ready list, or the loop has yet to get to its drain.
Signalled ==
  \/ \E p \in Posters : ppc[p] \in {"cas", "write"}
  \/ edge /\ counter
  \/ wpc # "wait"

\* No lost wakeup: whenever a completion waits in doneCh and the loop is in
\* epoll_wait, a wakeup is on its way, although PostWake writes the eventfd
\* only when it finds the flag clear.
NoLostWakeup == reports # {} => Signalled

\* The flag and the eventfd agree: a set flag means that a write is coming,
\* or made and not yet read, or that the loop is about to clear the flag.
FlagMeansSignal ==
  wakeup = 1 =>
    \/ \E p \in Posters : ppc[p] = "write"
    \/ counter /\ (edge \/ wpc = "read")
    \/ wpc = "clear"

\* Every completion is handled.
ReportsHandled == \A p \in Posters : p \in reports ~> p \notin reports

\* "max time a keep-alive conn can be idle": a connection that has outlived
\* its timeout is swept.  The loop does not promise it: after its empty polls
\* it waits without a timeout, and the sweep runs only when a wait has
\* returned (README, section 5).
ExpiredIsSwept == expired ~> swept
=============================================================================
