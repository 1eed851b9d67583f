------------------------------ MODULE WingConn ------------------------------
(***************************************************************************)
(* One connection of a Wing worker on Linux, from accept to close: the     *)
(* edge-triggered event loop, request parsing and pipelining, the inline,  *)
(* sendfile, pool, spawn and takeover dispatches, body accumulation,       *)
(* partial writes, and the timeouts of sweepTimeouts.                      *)
(*                                                                         *)
(* The loop takes one step per system call, so the client and the handler  *)
(* goroutine act between any two of them.  A byte of a request is its      *)
(* position in the client's stream; a byte of a response is <<i, j>>, part *)
(* j of the response to request i, with <<i, 0>> for its 100 Continue.     *)
(* The conn's sendBuf stands for sendBuf[sendN:].                          *)
(***************************************************************************)
EXTENDS Integers, Sequences, FiniteSets

CONSTANTS
  Scenarios,    \* the settings in which a connection is explored
  RespLen       \* parts of a response

\* A request: its dispatch, header and body length, whether the connection is
\* kept alive after it, Expect: 100-continue, and what the parser finds wrong.
Dispatches == {"Inline", "File", "Pool", "Spawn", "Takeover", "Hijack"}
Requests == [d : Dispatches, hdr : Nat \ {0}, body : Nat, ka : BOOLEAN,
             expect : BOOLEAN, bad : {"", "error", "malformed"}]

\* The requests follow each other without a gap, so they do not overlap.
LaidOut(reqs, start) ==
  /\ start \in [1..(Len(reqs) + 1) -> Nat] /\ start[1] = 1
  /\ \A i \in 1..Len(reqs) :
       /\ start[i+1] = start[i] + reqs[i].hdr + reqs[i].body
       /\ \A j \in (i+1)..(Len(reqs) + 1) : start[i+1] <= start[j]

\* A setting: what the client sends, what else it may do, the configuration.
\*   script      the requests, in order
\*   start       the position of the first byte of each, and of the end
\*   bufCap      WingConfig.ReadBufSize
\*   sendCap     kernel: room in the socket's send buffer
\*   pipelining  may the client send before it has the previous response?
\*   halfClose   may the client shut down its sending side?
\*   reset       may the client reset the connection?
\*   timeouts    are read, write and idle timeouts configured?
\*   bodyBudget  may other connections exhaust MaxInflightBodyBytes?
Scenario(e) ==
  /\ e.script \in Seq(Requests) /\ e.script # <<>>
  /\ LaidOut(e.script, e.start)
  /\ {e.bufCap, e.sendCap} \subseteq Nat \ {0}
  /\ {e.pipelining, e.halfClose, e.reset, e.timeouts, e.bodyBudget}
       \subseteq BOOLEAN

ASSUME ConstantsAssumption ==
  /\ \A e \in Scenarios : Scenario(e)
  /\ RespLen \in Nat \ {0}

VARIABLES
  env,     \* the scenario
  pc,      \* where the event loop stands in the handlers
  ret,     \* where directSend returns to
  c,       \* the conn
  job,     \* the handler goroutine's request, <<>> when there is none
  doneCh,  \* completions the loop has not received
  charged, \* what takeoverLoop has added to w.inflightBody; c.inflight is
           \* the event loop's share of it
  k        \* the kernel's socket and its epoll registration

vars == <<env, pc, ret, c, job, doneCh, charged, k>>

-----------------------------------------------------------------------------
(* The scenario and its stream. *)

script     == env.script
BufCap     == env.bufCap
SendCap    == env.sendCap
Pipelining == env.pipelining
Timeouts   == env.timeouts

N == Len(script)

\* The position of the first byte of each request.
Start == env.start

End(i) == Start[i+1] - 1

Total == End(N)

\* The request that the byte at p belongs to.
RequestAt(p) ==
  LET holds(i) == Start[i] <= p /\ p <= End(i)
  IN  CHOOSE i \in 1..N : (\E j \in 1..N : holds(j)) => holds(i)

Response(i) == [j \in 1..RespLen |-> <<i, j>>]

Answered(i) == \E n \in 1..Len(k.out) : k.out[n] = <<i, RespLen>>

-----------------------------------------------------------------------------
(* The kernel: a nonblocking socket registered edge-triggered with epoll.  *)
(* Any wakeup, and any EPOLL_CTL_MOD that finds the socket ready, puts it   *)
(* on the ready list; epoll_wait takes it off and reports what holds then.  *)
(* Room in the send buffer wakes only a socket that ran out of it: nospace  *)
(* is set by a write that fell short and by a poll that found no room.      *)

Avail == k.sent - k.rcvd

Readable(s) == s.rcvd < s.sent \/ s.fin \/ s.rst

Writable(s) == s.mask = "inout" /\ (s.space > 0 \/ s.rst)

Mod(s, mask) ==
  LET s1 == [s EXCEPT !.mask = mask]
  IN  [s1 EXCEPT !.ready = @ \/ Readable(s1) \/ Writable(s1),
                 !.nospace = @ \/ (mask = "inout" /\ s.space = 0)]

SmallerOf(a, b) == IF a < b THEN a ELSE b

\* What read(2) with this room returns: bytes, "eof", "error" or "again".
ReadResult(room) ==
  IF k.rst THEN "error"
  ELSE IF Avail > 0 THEN "data"
  ELSE IF k.fin THEN "eof" ELSE "again"

BytesRead(room) == [n \in 1..SmallerOf(Avail, room) |-> k.rcvd + n]

AfterRead(room) == [k EXCEPT !.rcvd = @ + SmallerOf(Avail, room)]

Wrote(s, bytes) == SmallerOf(s.space, Len(bytes))

AfterWrite(s, bytes) ==
  [s EXCEPT !.space = @ - Wrote(s, bytes),
            !.out = @ \o SubSeq(bytes, 1, Wrote(s, bytes)),
            !.nospace = @ \/ s.space < Len(bytes)]

Rest(bytes, n) == SubSeq(bytes, n + 1, Len(bytes))

-----------------------------------------------------------------------------
(* The conn. *)

NewConn ==
  [readBuf |-> <<>>, sendBuf |-> <<>>, file |-> <<>>, keepAlive |-> FALSE,
   pending |-> 0, takenOver |-> FALSE, closePending |-> FALSE,
   readSuppressed |-> FALSE, readDrained |-> FALSE,
   deadline |-> Timeouts, bodyNeed |-> 0, bodyBuf |-> <<>>, header |-> 0,
   inflight |-> 0]

Unsent(s) == s.sendBuf # <<>> \/ s.file # <<>>

Queue(s, bytes) == [s EXCEPT !.sendBuf = @ \o bytes]

\* Where the handlers return to.
Loop == "drain"

Init ==
  /\ env \in Scenarios
  /\ pc = "accept" /\ ret = Loop
  /\ c = NewConn
  /\ job = <<>> /\ doneCh = <<>> /\ charged = 0
  /\ k = [sent |-> 0, rcvd |-> 0, fin |-> FALSE, rst |-> FALSE,
          space |-> SendCap, nospace |-> FALSE, out |-> <<>>,
          mask |-> "in", ready |-> FALSE]

\* closeConn and removeConnBookkeeping.
CloseConn(s) ==
  /\ pc' = "closed" /\ ret' = Loop
  /\ c' = [s EXCEPT !.inflight = @ - s.bodyNeed, !.bodyNeed = 0,
                    !.bodyBuf = <<>>, !.header = 0, !.file = <<>>]
  /\ k' = [k EXCEPT !.mask = "none", !.ready = FALSE]
  /\ UNCHANGED <<env, charged, job, doneCh>>

\* The handler continues at p with the conn in state s.
Continue(p, s) ==
  /\ pc' = p /\ c' = s /\ ret' = Loop
  /\ UNCHANGED <<env, charged, job, doneCh>>

Goto(p, s) == Continue(p, s) /\ UNCHANGED k

\* A terminal error response, then close (writeAndClose).
writeAndClose(s, i) ==
  Goto("send", Queue([s EXCEPT !.keepAlive = FALSE], <<<<i, 1>>>>))

-----------------------------------------------------------------------------
(* handleAccept's direct read, once the conn is registered. *)

Accept ==
  /\ pc = "accept"
  /\ IF ReadResult(BufCap) = "data"
     THEN /\ Continue("parse", [c EXCEPT !.readBuf = BytesRead(BufCap),
                                         !.readDrained = Avail < BufCap])
          /\ k' = AfterRead(BufCap)
     ELSE Goto(Loop, c)

(* handleRecv. *)

\* The deadline is armed by the first bytes of a request only.
Armed(s, n) ==
  [s EXCEPT !.deadline =
              @ \/ (Timeouts /\ Len(s.readBuf) = n /\ s.bodyNeed = 0)]

MutAccumulateDrop(s, bytes) ==                      \* the surplus is dropped
  LET take == SmallerOf(s.bodyNeed - Len(s.bodyBuf), Len(bytes))
  IN  [s EXCEPT !.bodyBuf = @ \o SubSeq(bytes, 1, take), !.readBuf = <<>>]

\* accumBody: what the body still needs goes to bodyBuf, the surplus stays.
Accumulate(s, bytes) ==
  LET take == SmallerOf(s.bodyNeed - Len(s.bodyBuf), Len(bytes))
  IN  [s EXCEPT !.bodyBuf = @ \o SubSeq(bytes, 1, take),
                !.readBuf = Rest(bytes, take)]

HandleRecv ==
  LET room == BufCap - Len(c.readBuf)
      n    == SmallerOf(Avail, room)
      got  == Armed([c EXCEPT !.readSuppressed = FALSE,
                              !.readDrained = c.bodyNeed = 0 /\ n < room,
                              !.readBuf = @ \o BytesRead(room)], n)
  IN
  /\ pc = "recv"
  /\ CASE c.pending > 0 ->
            Goto(Loop, [c EXCEPT !.readSuppressed = TRUE,
                                 !.readDrained = FALSE])
       [] c.pending = 0 /\ room = 0 ->
            Goto("panic", c)             \* &c.readBuf[c.readN] out of range
       [] c.pending = 0 /\ room > 0 /\ ReadResult(room) # "data" ->
            CloseConn(c)
       [] OTHER ->
            /\ IF c.bodyNeed > 0
               THEN Continue("body", Accumulate(got, got.readBuf))
               ELSE Continue("parse", got)
            /\ k' = AfterRead(room)

-----------------------------------------------------------------------------
(* tryParse, one request per step. *)

\* The end of the parse loop: send what was queued.
ParseEnd(s) == Goto(IF s.sendBuf # <<>> THEN "send" ELSE Loop, s)

\* Not a complete header yet.
HeaderMore ==
  IF Len(c.readBuf) = BufCap
  THEN writeAndClose(c, RequestAt(c.readBuf[1]))
  ELSE IF ~c.readDrained /\ c.pending = 0
       THEN Goto(IF Unsent(c) THEN "send" ELSE "refill", c)
       ELSE ParseEnd(c)

\* The refill read of a partial header left by compaction.
Refill ==
  LET room == BufCap - Len(c.readBuf)
      s    == [c EXCEPT !.readSuppressed = FALSE]
  IN
  /\ pc = "refill"
  /\ CASE ReadResult(room) = "again" ->
            ParseEnd([s EXCEPT !.readDrained = TRUE])
       [] ReadResult(room) = "error" -> CloseConn(s)
       [] ReadResult(room) = "eof" -> CloseConn([s EXCEPT !.keepAlive = FALSE])
       [] OTHER ->
            /\ Continue("parse", [s EXCEPT !.readDrained = Avail < room,
                                           !.readBuf = @ \o BytesRead(room)])
            /\ k' = AfterRead(room)

\* beginBodyAccum: reserve the budget, keep the header, take what is there.
BeginBody(i) ==
  LET r == script[i]
      s == Accumulate([c EXCEPT !.readDrained = FALSE, !.header = i,
                                !.bodyNeed = r.body, !.bodyBuf = <<>>,
                                !.inflight = @ + r.body],
                      Rest(c.readBuf, r.hdr))
  IN
  \/ /\ env.bodyBudget
     /\ writeAndClose([c EXCEPT !.readDrained = FALSE], i)
  \/ IF r.expect /\ Len(s.bodyBuf) < s.bodyNeed
     THEN /\ pc' = "send" /\ ret' = "body"
          /\ c' = Queue(s, <<<<i, 0>>>>)
          /\ UNCHANGED <<env, charged, job, doneCh, k>>
     ELSE Goto("body", s)

MutConsumed(s, i) ==                            \* Connection: close ignored
  [s EXCEPT !.readBuf = Rest(@, script[i].hdr + script[i].body),
            !.keepAlive = TRUE]

\* The request leaves the read buffer.
Consumed(s, i) ==
  [s EXCEPT !.readBuf = Rest(@, script[i].hdr + script[i].body),
            !.keepAlive = script[i].ka]

\* A response rendered on the loop goes to sendBuf; the batch goes on.
DispatchInline(s, i) ==
  LET q == Queue(Consumed(s, i), Response(i))
  IN  IF q.keepAlive THEN Goto("parse", q) ELSE ParseEnd(q)

\* Headers to sendBuf, the file's descriptor to the conn.
DispatchFile(s, i) ==
  Goto("send", [Queue(Consumed(s, i), <<<<i, 1>>>>)
                  EXCEPT !.file = Tail(Response(i))])

\* A goroutine gets the request; it may write only if nothing is unsent.
DispatchAsync(s, i) ==
  /\ job' = [i |-> i, ka |-> script[i].ka, need |-> 0,
             mode |-> IF Unsent(s) THEN "queue" ELSE "write"]
  /\ UNCHANGED doneCh

\* The pool's queue is full: the loop runs the handler and queues the result.
DispatchSaturated(s, i) ==
  /\ script[i].d = "Pool"
  /\ doneCh' = Append(doneCh, [data |-> Response(i), ka |-> script[i].ka,
                               file |-> FALSE])
  /\ UNCHANGED job

DispatchPending(s, i) ==
  /\ DispatchAsync(s, i) \/ DispatchSaturated(s, i)
  /\ c' = [Consumed(s, i) EXCEPT !.pending = @ + 1]
  /\ k' = IF s.sendBuf # <<>> THEN Mod(k, "inout") ELSE k
  /\ pc' = Loop /\ ret' = Loop
  /\ UNCHANGED <<env, charged>>

\* The fd is detached from epoll; the goroutine gets the leftover bytes.
DispatchTakeover(s, i) ==
  /\ c' = [Consumed(s, i) EXCEPT !.pending = @ + 1, !.takenOver = TRUE,
                                 !.readBuf = <<>>]
  /\ job' = [i |-> i, ka |-> script[i].ka, need |-> 0,
             mode |-> IF script[i].d = "Hijack" THEN "hijack" ELSE "loop"]
  /\ k' = [k EXCEPT !.mask = "none", !.ready = FALSE]
  /\ pc' = Loop /\ ret' = Loop
  /\ UNCHANGED <<env, charged, doneCh>>

\* A complete request: the deadline is cleared and the route's preset decides.
Dispatch(i) ==
  LET d == script[i].d
      s == [c EXCEPT !.deadline = FALSE,
                     !.readDrained = @ /\ d \in {"Inline", "File"}]
  IN  CASE d \notin {"Inline", "File"} /\ c.pending > 0 -> ParseEnd(s)
        [] d \in {"Takeover", "Hijack"} /\ c.pending = 0 /\ Unsent(s) ->
             Goto("send", s)
        [] d = "Inline" -> DispatchInline(s, i)
        [] d = "File"   -> DispatchFile(s, i)
        [] d \in {"Pool", "Spawn"} /\ c.pending = 0 -> DispatchPending(s, i)
        [] OTHER -> DispatchTakeover(s, i)

TryParse ==
  /\ pc = "parse"
  /\ IF c.readBuf = <<>> THEN ParseEnd(c)
     ELSE LET i == RequestAt(c.readBuf[1])
              r == script[i]
              n == Len(c.readBuf)
          IN  CASE n < r.hdr -> HeaderMore
                [] n >= r.hdr /\ r.bad = "malformed" /\ n < BufCap ->
                     CloseConn(c)
                [] n >= r.hdr /\ (\/ r.bad = "error"
                                  \/ (r.bad = "malformed" /\ n = BufCap)) ->
                     writeAndClose(c, i)
                [] n >= r.hdr + r.body /\ r.bad = "" -> Dispatch(i)
                [] OTHER -> BeginBody(i)

-----------------------------------------------------------------------------
(* Body accumulation. *)

\* drainBodyAccum reads until the body is there or the socket would block.
DrainBody ==
  LET s == [c EXCEPT !.readDrained = FALSE]
  IN
  /\ pc = "body"
  /\ CASE Len(c.bodyBuf) >= c.bodyNeed -> Goto("pipelined", s)
       [] Len(c.bodyBuf) < c.bodyNeed /\ ReadResult(BufCap) = "again" ->
            Goto(Loop, s)
       [] Len(c.bodyBuf) < c.bodyNeed /\ ReadResult(BufCap) \in {"eof", "error"}
            -> CloseConn(s)
       [] OTHER -> /\ Continue("body", Accumulate(s, BytesRead(BufCap)))
                   /\ k' = AfterRead(BufCap)

\* drainPipelinedAfterBody captures what already arrived behind the body.
DrainPipelined ==
  LET room == BufCap - Len(c.readBuf)
  IN
  /\ pc = "pipelined"
  /\ IF room > 0 /\ ReadResult(room) = "data"
     THEN /\ Continue("pipelined", [c EXCEPT !.readBuf = @ \o BytesRead(room)])
          /\ k' = AfterRead(room)
     ELSE Goto("finish", c)

\* finishBodyAccum and dispatchAccumulated: always inline, but for hijacks.
FinishBody ==
  LET i == c.header
      s == [c EXCEPT !.inflight = @ - c.bodyNeed, !.bodyNeed = 0,
                     !.bodyBuf = <<>>, !.header = 0, !.deadline = FALSE,
                     !.readDrained = FALSE]
  IN
  /\ pc = "finish"
  /\ IF script[i].d = "Hijack"
     THEN writeAndClose(s, i)
     ELSE Goto("send", Queue([s EXCEPT !.keepAlive = script[i].ka],
                             Response(i)))

-----------------------------------------------------------------------------
(* directSend: the buffer, then the file, then what comes next. *)

MutFailSend ==                          \* closes under a pending handler
  CloseConn([c EXCEPT !.sendBuf = <<>>, !.file = <<>>])

failSend ==
  LET s == [c EXCEPT !.sendBuf = <<>>, !.file = <<>>]
  IN  IF c.pending > 0 THEN Goto(Loop, [s EXCEPT !.closePending = TRUE])
      ELSE CloseConn(s)

\* write(2) or sendfile(2) would block: wait for EPOLLOUT.
WouldBlock ==
  /\ pc' = ret /\ ret' = Loop
  /\ c' = [c EXCEPT !.readDrained = FALSE]
  /\ k' = Mod(k, "inout")
  /\ UNCHANGED <<env, charged, job, doneCh>>

Transfer(bytes, s) ==
  /\ k' = AfterWrite(k, bytes)
  /\ c' = s
  /\ UNCHANGED <<env, charged, pc, ret, job, doneCh>>

\* Everything is written.
Sent ==
  CASE c.bodyNeed > 0 ->
         /\ pc' = ret /\ ret' = Loop
         /\ UNCHANGED <<env, charged, c, job, doneCh, k>>
    [] c.bodyNeed = 0 /\ c.pending > 0 -> Goto(Loop, c)
    [] c.bodyNeed = 0 /\ c.pending = 0 /\ ~c.keepAlive -> CloseConn(c)
    [] c.bodyNeed = 0 /\ c.pending = 0 /\ c.keepAlive /\ c.readBuf # <<>> ->
         Goto("parse", c)
    [] OTHER -> Goto(IF c.readDrained /\ ~c.readSuppressed THEN Loop
                     ELSE "speculate", c)

DirectSend ==
  /\ pc = "send"
  /\ CASE ~Unsent(c) -> Sent
       [] Unsent(c) /\ k.rst -> failSend
       [] Unsent(c) /\ ~k.rst /\ k.space = 0 -> WouldBlock
       [] Unsent(c) /\ ~k.rst /\ k.space > 0 /\ c.sendBuf # <<>> ->
            Transfer(c.sendBuf,
                     [c EXCEPT !.sendBuf = Rest(@, Wrote(k, c.sendBuf))])
       [] OTHER ->
            Transfer(c.file, [c EXCEPT !.file = Rest(@, Wrote(k, c.file))])

\* directSend's speculative read of the next request.
Speculate ==
  LET s == [c EXCEPT !.readSuppressed = FALSE, !.readDrained = FALSE]
  IN
  /\ pc = "speculate"
  /\ IF ReadResult(BufCap) = "data"
     THEN /\ Continue("parse", [s EXCEPT !.readBuf = BytesRead(BufCap),
                                         !.readDrained = Avail < BufCap])
          /\ k' = AfterRead(BufCap)
     ELSE Goto(Loop, s)

MutHandleSend ==                        \* EPOLLOUT stays in the interest set
  LET s == [c EXCEPT !.readDrained = FALSE]
  IN
  /\ pc = "writable"
  /\ Goto(IF Unsent(c) THEN "send" ELSE Loop, s)

HandleSend ==
  LET s == [c EXCEPT !.readDrained = FALSE]
  IN
  /\ pc = "writable"
  /\ IF Unsent(c) THEN Goto("send", s)
     ELSE Continue(Loop, s) /\ k' = Mod(k, "in")

-----------------------------------------------------------------------------
(* The handler goroutine of the pool, of Spawn and of Takeover. *)

Complete(msg) == job' = <<>> /\ doneCh' = Append(doneCh, msg)

MutHandlerReturns ==              \* a short write is sent again from the start
  /\ job # <<>> /\ job.mode \in {"write", "queue"}
  /\ LET resp == Response(job.i)
         all  == job.mode = "write" /\ ~k.rst /\ k.space >= Len(resp)
     IN  /\ k' = IF job.mode = "write" /\ ~k.rst THEN AfterWrite(k, resp)
                 ELSE k
         /\ Complete([data |-> IF all THEN <<>> ELSE resp, ka |-> job.ka,
                      file |-> FALSE])
  /\ UNCHANGED <<env, charged, pc, ret, c>>

\* Pool and Spawn: run the handler and write once, or leave it to the loop.
HandlerReturns ==
  /\ job # <<>> /\ job.mode \in {"write", "queue"}
  /\ LET resp == Response(job.i)
         n    == IF job.mode = "write" /\ ~k.rst THEN Wrote(k, resp) ELSE 0
     IN  /\ k' = IF n > 0 THEN AfterWrite(k, resp) ELSE k
         /\ Complete([data |-> Rest(resp, n), ka |-> job.ka, file |-> FALSE])
  /\ UNCHANGED <<env, charged, pc, ret, c>>

\* The next request of a connection that takeoverLoop serves.
Upcoming == script[job.i + 1]

HeaderHere == k.sent >= Start[job.i + 1] + Upcoming.hdr - 1

BodyHere == k.sent >= End(job.i + 1)

Expected == \E n \in 1..Len(k.out) : k.out[n] = <<job.i + 1, 0>>

\* takeoverLoop is between two requests of a kept-alive connection.
BetweenRequests ==
  job # <<>> /\ job.mode = "loop" /\ Answered(job.i) /\ job.ka /\ job.i < N

\* takeoverLoop answers its request with blocking writes, then the later ones
\* of the connection as they arrive, the leftover first.  A hijacked
\* connection is its handler's: here it writes one response.
TakeoverServes ==
  LET due == Rest(Response(job.i),
                  Cardinality({n \in 1..Len(k.out) :
                                 k.out[n][1] = job.i /\ k.out[n][2] > 0}))
  IN
  /\ job # <<>> /\ c.takenOver /\ ~k.rst
  /\ \/ /\ due # <<>> /\ k.space > 0
        /\ k' = AfterWrite(k, due)
        /\ UNCHANGED job
     \/ /\ BetweenRequests /\ job.need = 0 /\ Upcoming.bad = ""
        /\ Upcoming.hdr + Upcoming.body <= BufCap /\ BodyHere
        /\ job' = [job EXCEPT !.i = @ + 1, !.ka = Upcoming.ka]
        /\ UNCHANGED k
     \/ /\ BetweenRequests /\ job.need > 0 /\ Upcoming.expect
        /\ ~Expected /\ k.space > 0
        /\ k' = AfterWrite(k, <<<<job.i + 1, 0>>>>)
        /\ UNCHANGED job
  /\ UNCHANGED <<env, charged, pc, ret, c, doneCh>>

\* The header is in the buffer and the body not all of it: takeoverLoop
\* charges the shared budget, reads on, and refunds it when the body is there.
TakeoverBody ==
  /\ BetweenRequests /\ c.takenOver /\ ~k.rst
  /\ \/ /\ job.need = 0 /\ Upcoming.bad = "" /\ Upcoming.hdr <= BufCap
        /\ HeaderHere /\ Upcoming.body > 0
        /\ charged' = charged + Upcoming.body
        /\ job' = [job EXCEPT !.need = Upcoming.body]
     \/ /\ job.need > 0 /\ BodyHere /\ (Upcoming.expect => Expected)
        /\ charged' = charged - job.need
        /\ job' = [job EXCEPT !.i = @ + 1, !.ka = Upcoming.ka, !.need = 0]
  /\ UNCHANGED <<env, pc, ret, c, doneCh, k>>

Finished == Complete([data |-> <<>>, ka |-> FALSE, file |-> TRUE])

\* takeoverLoop refuses the next request with an error response and ends; a
\* charge beyond the budget is taken back at once.
TakeoverRefuses ==
  /\ BetweenRequests /\ job.need = 0 /\ ~k.rst /\ k.space > 0
  /\ \/ Upcoming.bad = "error" /\ HeaderHere
     \/ Upcoming.hdr > BufCap /\ k.sent >= Start[job.i + 1] + BufCap - 1
     \/ /\ env.bodyBudget /\ Upcoming.bad = "" /\ Upcoming.body > 0
        /\ HeaderHere
  /\ k' = AfterWrite(k, <<<<job.i + 1, 1>>>>)
  /\ Finished
  /\ UNCHANGED <<env, charged, pc, ret, c>>

\* The deadline that writeTakeover sets for one write may pass while the
\* socket has no room, the idle or read deadline while nothing is owed.
WriteDeadline == Timeouts /\ job.mode = "loop" /\ k.space = 0

ReadDeadline == Timeouts /\ job.mode = "loop" /\ Answered(job.i)

\* Why takeoverLoop ends without a response: the client closed or failed, a
\* deadline passed, the last request asked for close, the next one is
\* malformed, or the hijacker is done.
TakeoverOver ==
  /\ job # <<>> /\ c.takenOver
  /\ \/ k.rst \/ WriteDeadline \/ ReadDeadline
     \/ /\ Answered(job.i)
        /\ \/ job.mode = "hijack" \/ ~job.ka
           \/ k.fin /\ (job.i < N => ~BodyHere)
           \/ BetweenRequests /\ Upcoming.bad = "malformed" /\ HeaderHere

MutTakeoverEnds ==                 \* a failed body read keeps its charge
  TakeoverOver /\ Finished /\ UNCHANGED <<env, charged, pc, ret, c, k>>

\* A body that is not finished gives back its charge.
TakeoverEnds ==
  /\ TakeoverOver
  /\ charged' = charged - job.need
  /\ Finished
  /\ UNCHANGED <<env, pc, ret, c, k>>

-----------------------------------------------------------------------------
(* ioLoop: drain doneCh, wait, handle the event, sweep. *)

\* handleDone.
HandleDone ==
  LET msg == Head(doneCh)
      s   == [c EXCEPT !.pending = @ - 1]
      t   == [s EXCEPT !.keepAlive = msg.ka]
  IN
  /\ pc = "drain" /\ doneCh # <<>>
  /\ doneCh' = Tail(doneCh)
  /\ ret' = Loop
  /\ UNCHANGED <<env, charged, job>>
  /\ CASE msg.file \/ c.closePending \/ (msg.data = <<>> /\ ~msg.ka) ->
            /\ pc' = "closed"
            /\ c' = [s EXCEPT !.file = <<>>]
            /\ k' = [k EXCEPT !.mask = "none", !.ready = FALSE]
       [] ~msg.file /\ ~c.closePending /\ msg.data = <<>> /\ msg.ka ->
            /\ pc' = IF c.readBuf # <<>> THEN "parse"
                     ELSE IF c.readSuppressed THEN "recv" ELSE Loop
            /\ c' = t
            /\ UNCHANGED k
       [] OTHER ->
            /\ pc' = Loop
            /\ c' = Queue(t, msg.data)
            /\ k' = Mod(k, "inout")

DoneChEmpty ==
  /\ pc = "drain" /\ doneCh = <<>>
  /\ Goto("wait", c)

\* epoll_wait returns the conn's event, EPOLLOUT first.
Wait ==
  /\ pc = "wait"
  /\ \/ /\ k.ready
        /\ k' = [k EXCEPT !.ready = FALSE,
                          !.nospace = @ \/ (k.mask = "inout" /\ k.space = 0)]
        /\ Continue(IF Writable(k) THEN "writable"
                    ELSE IF Readable(k) THEN "recv" ELSE Loop, c)
     \/ /\ doneCh # <<>>          \* PostWake
        /\ Goto(Loop, c)

\* sweepTimeouts, after the events of a batch.
SweepTimeouts ==
  /\ pc = "wait" /\ Timeouts
  /\ c.pending = 0
  /\ c.deadline \/ c.readBuf = <<>> \/ c.sendBuf # <<>>
  /\ CloseConn(c)

-----------------------------------------------------------------------------
(* The client. *)

Connected == pc \notin {"closed", "panic"} /\ ~k.rst

ClientSends ==
  /\ Connected /\ ~k.fin /\ k.sent < Total
  /\ LET i == RequestAt(k.sent + 1)
     IN  ~Pipelining /\ i > 1 /\ k.sent + 1 = Start[i] =>
           Answered(i - 1) /\ k.space = SendCap
  /\ k' = [k EXCEPT !.sent = @ + 1, !.ready = @ \/ k.mask # "none"]
  /\ UNCHANGED <<env, charged, pc, ret, c, job, doneCh>>

ClientReads ==
  /\ Connected /\ k.space < SendCap
  /\ k' = [k EXCEPT !.space = SendCap, !.nospace = FALSE,
                    !.ready = @ \/ (k.mask = "inout" /\ k.nospace)]
  /\ UNCHANGED <<env, charged, pc, ret, c, job, doneCh>>

ClientFinishes ==
  /\ Connected /\ env.halfClose /\ ~k.fin
  /\ k' = [k EXCEPT !.fin = TRUE, !.ready = @ \/ k.mask # "none"]
  /\ UNCHANGED <<env, charged, pc, ret, c, job, doneCh>>

ClientResets ==
  /\ Connected /\ env.reset
  /\ k' = [k EXCEPT !.rst = TRUE, !.ready = @ \/ k.mask # "none"]
  /\ UNCHANGED <<env, charged, pc, ret, c, job, doneCh>>

-----------------------------------------------------------------------------
LoopStep ==
  \/ Accept \/ HandleRecv \/ TryParse \/ Refill
  \/ DrainBody \/ DrainPipelined \/ FinishBody
  \/ DirectSend \/ Speculate \/ HandleSend
  \/ HandleDone \/ DoneChEmpty \/ Wait

HandlerStep == HandlerReturns \/ TakeoverServes \/ TakeoverBody
               \/ TakeoverRefuses \/ TakeoverEnds

ClientStep == ClientSends \/ ClientReads \/ ClientFinishes \/ ClientResets

Next == LoopStep \/ SweepTimeouts \/ HandlerStep \/ ClientStep

Spec == Init /\ [][Next]_vars

\* The worker's thread runs, handlers return, and the client reads.
Fairness == WF_vars(LoopStep) /\ WF_vars(HandlerStep) /\ WF_vars(ClientReads)

FairSpec == Spec /\ Fairness

\* As FairSpec, with a client that goes on to send its whole stream.
EagerSpec == FairSpec /\ WF_vars(ClientSends)

-----------------------------------------------------------------------------
(* Properties. *)

Bytes == Seq(Nat)
Parts == Seq(Nat \X Nat)

Places == {"accept", "recv", "parse", "refill", "body", "pipelined", "finish",
           "send", "speculate", "writable", "drain", "wait", "closed",
           "panic"}

Conns == [readBuf : Bytes, sendBuf : Parts, file : Parts,
          keepAlive : BOOLEAN, pending : 0..1, takenOver : BOOLEAN,
          closePending : BOOLEAN, readSuppressed : BOOLEAN,
          readDrained : BOOLEAN, deadline : BOOLEAN, bodyNeed : Nat,
          bodyBuf : Bytes, header : 0..N, inflight : Nat]

Jobs == [i : 1..N, ka : BOOLEAN, need : Nat,
         mode : {"write", "queue", "loop", "hijack"}]

Completions == [data : Parts, ka : BOOLEAN, file : BOOLEAN]

Sockets == [sent : Nat, rcvd : Nat, fin : BOOLEAN, rst : BOOLEAN,
            space : 0..SendCap, nospace : BOOLEAN, out : Parts,
            mask : {"in", "inout", "none"}, ready : BOOLEAN]

\* The state is well-formed: one handler at most owns the conn (pending), and
\* nothing is read from the socket that was not sent.
TypeOK ==
  /\ Scenario(env)
  /\ pc \in Places /\ ret \in {"drain", "body"}
  /\ c \in Conns
  /\ job = <<>> \/ job \in Jobs
  /\ doneCh \in Seq(Completions)
  /\ k \in Sockets /\ k.rcvd <= k.sent

\* Part b may follow part a on the wire.
Follows(a, b) ==
  \/ b = <<a[1], a[2] + 1>>
  \/ a[2] = RespLen /\ b \in {<<a[1] + 1, 0>>, <<a[1] + 1, 1>>}

\* "Responses written in request order": the bytes the client gets are whole
\* responses in the order of its requests, however the loop, sendfile, the
\* pool's direct writes and the blocked sends interleave.
ResponsesInOrder ==
  /\ k.out # <<>> => k.out[1] \in {<<1, 0>>, <<1, 1>>}
  /\ \A n \in 1..(Len(k.out) - 1) : Follows(k.out[n], k.out[n+1])

Span(a, b) == [n \in 1..(b - a + 1) |-> a + n - 1]

\* No byte of the stream is lost, repeated or moved between requests: the
\* read buffer is the stretch of the stream that ends at the last byte read,
\* the body is the bytes behind its header, and a parse starts at a request.
StreamIntact ==
  ~c.takenOver =>
    /\ c.readBuf = Span(k.rcvd - Len(c.readBuf) + 1, k.rcvd)
    /\ c.bodyNeed > 0 =>
         LET from == Start[c.header] + script[c.header].hdr
         IN  c.bodyBuf = Span(from, from + Len(c.bodyBuf) - 1)
    /\ pc = "parse" /\ c.readBuf # <<>> =>
         c.readBuf[1] = Start[RequestAt(c.readBuf[1])]

\* "Keep the fd open until its completion is processed so the kernel cannot
\* recycle its number": the conn is never closed under a handler goroutine
\* that may still write to the fd.
FdHeldForHandler == pc = "closed" => job = <<>>

\* The loop and a handler goroutine never both have bytes to write: a
\* goroutine that writes to the fd itself finds everything earlier flushed.
OneWriter == job # <<>> /\ job.mode # "queue" => ~Unsent(c)

\* A handler goroutine that may write owns the fd: nobody closes it, and the
\* loop has nothing of its own to write.
HandlerOwnsFd == FdHeldForHandler /\ OneWriter

\* What takeoverLoop should have charged: the body it is reading.
InBody(j) == IF j = <<>> THEN 0 ELSE j.need

\* The reservation against MaxInflightBodyBytes is held exactly while a body
\* is being accumulated, on every way out of it, by the event loop and by
\* takeoverLoop; read buffer and body never outgrow their room.
BudgetExact ==
  /\ c.inflight = c.bodyNeed /\ charged = InBody(job)
  /\ Len(c.readBuf) <= BufCap /\ Len(c.bodyBuf) <= c.bodyNeed

\* A request that is wholly sent is answered unless the connection is closed:
\* no edge of epoll and no completion is lost.
RequestsAnswered ==
  \A i \in 1..3 :
    (i <= N /\ k.sent >= End(i)) ~> (pc = "closed" \/ Answered(i))

\* "queues an error response and triggers a direct send, then closes"
\* (writeAndClose), and the same of Connection: close: nothing is written
\* after a response that ends the connection.
NothingAfterLast ==
  \A m, n \in 1..Len(k.out) :
    m < n /\ (~script[k.out[m][1]].ka \/ script[k.out[m][1]].bad # "") =>
      k.out[n] = <<k.out[m][1], k.out[m][2] + n - m>>

\* readSuppressed was set by bytes that the reads of a body have taken since:
\* handleDone reads again, gets EAGAIN, and closes an idle connection.
Stale == c.readSuppressed /\ k.rcvd = k.sent

\* The server closes a connection only when the client ended or broke it, the
\* last request asked for it or could not be served, or a timeout struck, or
\* for a Stale mark.  A read addresses the byte behind a full buffer (pc
\* "panic") only while a response waits for the socket.
ClosedForCause ==
  /\ pc = "panic" => Unsent(c)
  /\ pc = "closed" /\ ~Timeouts /\ ~c.takenOver =>
       \/ k.fin \/ k.rst \/ ~c.keepAlive \/ Stale
       \/ \E i \in 1..N : script[i].bad = "malformed" /\ k.rcvd >= Start[i]

\* The send buffer of the socket takes all there is to send.
Roomy == SendCap >= (RespLen + 1) * N

\* A connection ends when it has to and not before: closed for a cause; and
\* silent after the response that announced it, if the client waits for its
\* responses or the socket takes them at once.  Behind a last response that
\* blocks the loop goes on serving, and that run has its own question.
EndsProperly == ClosedForCause /\ (~Pipelining \/ Roomy => NothingAfterLast)
=============================================================================
