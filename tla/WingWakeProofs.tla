--------------------------- MODULE WingWakeProofs ---------------------------
(***************************************************************************)
(* No wakeup of a Wing worker is lost, for any number of goroutines that   *)
(* report to it, of reports, and of polls before the loop blocks.          *)
(***************************************************************************)
EXTENDS WingWake, TLAPS

\* The flag and the eventfd have to agree for a poster to be right in leaving
\* the write to another one: this is what makes NoLostWakeup inductive.
WakeInv == WakeTypeOK /\ FlagMeansSignal /\ NoLostWakeup

LEMMA TypeInit == WakeInit => WakeTypeOK
  <1> SUFFICES ASSUME WakeInit PROVE WakeTypeOK
    OBVIOUS
  <1>1. /\ reports \subseteq Posters /\ posts \in [Posters -> 0..MaxPosts]
        /\ ppc \in [Posters -> {"idle", "cas", "write"}]
        /\ wakeup \in {0, 1} /\ traffic \in 0..Traffic
        /\ wpc \in {"drain", "wait", "read", "clear", "handle"}
        /\ idle \in 0..(SpinLimit + 1) /\ batch \subseteq {"evfd", "conn"}
    BY WakeAssumption DEF WakeInit
  <1>2. /\ counter \in BOOLEAN /\ edge \in BOOLEAN /\ conn \in BOOLEAN
        /\ expired \in BOOLEAN /\ swept \in BOOLEAN
    BY DEF WakeInit
  <1> QED
    BY <1>1, <1>2 DEF WakeTypeOK

LEMMA TypeStep == WakeTypeOK /\ [WakeNext]_wakeVars => WakeTypeOK'
  <1> SUFFICES ASSUME WakeTypeOK, [WakeNext]_wakeVars PROVE WakeTypeOK'
    OBVIOUS
  <1> USE WakeAssumption DEF WakeTypeOK
  <1>1. ASSUME NEW p \in Posters, Send(p) PROVE WakeTypeOK'
    BY <1>1 DEF Send
  <1>2. ASSUME NEW p \in Posters, PostWake(p) PROVE WakeTypeOK'
    BY <1>2 DEF PostWake
  <1>3. ASSUME NEW p \in Posters, EventfdWrite(p) PROVE WakeTypeOK'
    BY <1>3 DEF EventfdWrite
  <1>4. CASE DrainDoneCh
    BY <1>4 DEF DrainDoneCh
  <1>5. CASE EpollWait
    <2>1. idle' \in 0..(SpinLimit + 1)
      BY <1>5 DEF EpollWait, Polls
    <2>2. batch' \subseteq {"evfd", "conn"} /\ wpc' \in {"read", "handle"}
      BY <1>5 DEF EpollWait
    <2>3. edge' \in BOOLEAN /\ conn' \in BOOLEAN
      BY <1>5 DEF EpollWait
    <2> QED
      BY <1>5, <2>1, <2>2, <2>3 DEF EpollWait
  <1>6. CASE Interrupted
    BY <1>6 DEF Interrupted, Polls
  <1>7. CASE EventfdRead
    BY <1>7 DEF EventfdRead
  <1>8. CASE ClearWakeup
    BY <1>8 DEF ClearWakeup
  <1>9. CASE HandleBatch
    BY <1>9 DEF HandleBatch
  <1>10. CASE ConnEvent
    BY <1>10 DEF ConnEvent
  <1>11. CASE TimeoutElapses
    BY <1>11 DEF TimeoutElapses
  <1>12. CASE UNCHANGED wakeVars
    BY <1>12 DEF wakeVars
  <1> QED
    BY <1>1, <1>2, <1>3, <1>4, <1>5, <1>6, <1>7, <1>8, <1>9, <1>10, <1>11,
       <1>12 DEF WakeNext, WakeLoopStep, PosterStep

\* A set flag is matched by a signal through every step: it is set by a poster
\* that goes on to write, and cleared only behind the read.
LEMMA FlagStep == WakeTypeOK /\ FlagMeansSignal /\ [WakeNext]_wakeVars => FlagMeansSignal'
  <1> SUFFICES ASSUME WakeTypeOK, FlagMeansSignal, [WakeNext]_wakeVars
               PROVE  FlagMeansSignal'
    OBVIOUS
  <1> USE DEF WakeTypeOK, FlagMeansSignal
  <1>1. ASSUME NEW p \in Posters, Send(p) PROVE FlagMeansSignal'
    BY <1>1 DEF Send
  <1>2. ASSUME NEW p \in Posters, PostWake(p) PROVE FlagMeansSignal'
    BY <1>2 DEF PostWake
  <1>3. ASSUME NEW p \in Posters, EventfdWrite(p) PROVE FlagMeansSignal'
    BY <1>3 DEF EventfdWrite
  <1>4. CASE DrainDoneCh
    BY <1>4 DEF DrainDoneCh
  <1>5. CASE EpollWait
    BY <1>5 DEF EpollWait
  <1>6. CASE Interrupted
    BY <1>6 DEF Interrupted
  <1>7. CASE EventfdRead
    BY <1>7 DEF EventfdRead
  <1>8. CASE ClearWakeup
    BY <1>8 DEF ClearWakeup
  <1>9. CASE HandleBatch
    BY <1>9 DEF HandleBatch
  <1>10. CASE ConnEvent
    BY <1>10 DEF ConnEvent
  <1>11. CASE TimeoutElapses
    BY <1>11 DEF TimeoutElapses
  <1>12. CASE UNCHANGED wakeVars
    BY <1>12 DEF wakeVars
  <1> QED
    BY <1>1, <1>2, <1>3, <1>4, <1>5, <1>6, <1>7, <1>8, <1>9, <1>10, <1>11,
       <1>12 DEF WakeNext, WakeLoopStep, PosterStep

\* A poster that finds the flag set relies on the signal behind it; the loop
\* comes back to epoll_wait only from a drain that left no report.
LEMMA WakeupStep == WakeInv /\ [WakeNext]_wakeVars => NoLostWakeup'
  <1> SUFFICES ASSUME WakeInv, [WakeNext]_wakeVars PROVE NoLostWakeup'
    OBVIOUS
  <1> USE DEF WakeInv, WakeTypeOK, NoLostWakeup, Signalled
  <1>1. ASSUME NEW p \in Posters, Send(p) PROVE NoLostWakeup'
    BY <1>1 DEF Send
  <1>2. ASSUME NEW p \in Posters, PostWake(p) PROVE NoLostWakeup'
    <2>1. CASE wakeup = 0
      BY <1>2, <2>1 DEF PostWake
    <2>2. CASE wakeup = 1
      BY <1>2, <2>2 DEF PostWake, FlagMeansSignal
    <2> QED
      BY <2>1, <2>2
  <1>3. ASSUME NEW p \in Posters, EventfdWrite(p) PROVE NoLostWakeup'
    BY <1>3 DEF EventfdWrite
  <1>4. CASE DrainDoneCh
    BY <1>4 DEF DrainDoneCh
  <1>5. CASE EpollWait
    BY <1>5 DEF EpollWait
  <1>6. CASE Interrupted
    BY <1>6 DEF Interrupted
  <1>7. CASE EventfdRead
    BY <1>7 DEF EventfdRead
  <1>8. CASE ClearWakeup
    BY <1>8 DEF ClearWakeup
  <1>9. CASE HandleBatch
    BY <1>9 DEF HandleBatch
  <1>10. CASE ConnEvent
    BY <1>10 DEF ConnEvent
  <1>11. CASE TimeoutElapses
    BY <1>11 DEF TimeoutElapses
  <1>12. CASE UNCHANGED wakeVars
    BY <1>12 DEF wakeVars
  <1> QED
    BY <1>1, <1>2, <1>3, <1>4, <1>5, <1>6, <1>7, <1>8, <1>9, <1>10, <1>11,
       <1>12 DEF WakeNext, WakeLoopStep, PosterStep

LEMMA WakeInductive == WakeSpec => []WakeInv
  <1>1. WakeInit => WakeInv
    BY TypeInit DEF WakeInit, WakeInv, FlagMeansSignal, NoLostWakeup
  <1>2. WakeInv /\ [WakeNext]_wakeVars => WakeInv'
    BY TypeStep, FlagStep, WakeupStep DEF WakeInv
  <1> QED
    BY <1>1, <1>2, PTL DEF WakeSpec

\* The state of the loop and its posters keeps its type (epollEngine); the
\* count of empty polls in particular stops behind the limit.
THEOREM TypeCorrect == WakeSpec => []WakeTypeOK
  BY WakeInductive, PTL DEF WakeInv

\* The flag of PostWake and the eventfd agree: whoever finds the flag set may
\* leave the write to another (epollEngine.wakeup).
THEOREM FlagIsHonest == WakeSpec => []FlagMeansSignal
  BY WakeInductive, PTL DEF WakeInv

\* No completion waits in doneCh while the loop is in epoll_wait and nobody is
\* about to wake it, for any number of goroutines that report (PostWake, Wait).
THEOREM WakeupsArrive == WakeSpec => []NoLostWakeup
  BY WakeInductive, PTL DEF WakeInv
=============================================================================
