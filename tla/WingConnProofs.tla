--------------------------- MODULE WingConnProofs ---------------------------
(***************************************************************************)
(* The safety of one connection, for every scenario: any sequence of       *)
(* requests of any kind and size, any buffer sizes and limits, any         *)
(* behaviour of client, kernel and handlers.                               *)
(*                                                                         *)
(* BudgetExact needs to know where in the handlers a body is being         *)
(* accumulated (At of IInv), since each way out has its own reset, and     *)
(* that only takeoverLoop has a charge of its own (Charged).               *)
(* HandlerOwnsFd needs that pending counts the one completion that is on   *)
(* its way, in a goroutine or in doneCh (Owes of IInv).                    *)
(*                                                                         *)
(* StreamIntact needs SInv: all the bytes consumed so far end where a      *)
(* request ends, or inside the body that is being read (Flow).  Every      *)
(* action that cuts bytes off the read buffer has to cut at such a place.  *)
(*                                                                         *)
(* ResponsesInOrder needs OInv: the responses on the wire and in the send  *)
(* buffer are those of all the requests whose bytes are consumed, except   *)
(* the one that a handler or doneCh still owes (Owed), or that             *)
(* takeoverLoop is writing (Serving).                                      *)
(***************************************************************************)
EXTENDS WingConn, SequenceTheorems, FiniteSetTheorems, TLAPS

\* The conn's buffers fit, and the reservation is that of the body being read.
Fits(s) ==
  /\ s.inflight = s.bodyNeed
  /\ Len(s.readBuf) <= BufCap
  /\ Len(s.bodyBuf) <= s.bodyNeed
  /\ s.bodyNeed > 0 => s.pending = 0 /\ s.header > 0

Reading == {"accept", "parse", "refill", "speculate"}
Filling == {"body", "pipelined", "finish"}

\* What the place in the handlers says of the conn.
At(p, r, s) ==
  /\ p \in Reading => s.bodyNeed = 0 /\ s.pending = 0
  /\ p \in Filling => s.bodyNeed > 0
  /\ r = "body" => s.bodyNeed > 0
  /\ p = "closed" => s.pending = 0

\* The completion that a conn waits for is on its way exactly once.
Owes(s, j, d) ==
  /\ s.pending = Len(d) + (IF j = <<>> THEN 0 ELSE 1)
  /\ j # <<>> /\ j.mode # "queue" => ~Unsent(s)

IInv == TypeOK /\ Fits(c) /\ At(pc, ret, c) /\ Owes(c, job, doneCh)

LEMMA RestType ==
  ASSUME NEW S, NEW q \in Seq(S), NEW n \in Nat
  PROVE  /\ Rest(q, n) \in Seq(S)
         /\ n <= Len(q) => Len(Rest(q, n)) = Len(q) - n
         /\ n >= Len(q) => Rest(q, n) = <<>>
         /\ Len(Rest(q, n)) \in 0..Len(q)
<1>1. Rest(q, n) \in Seq(S)
  BY SubSeqProperties, LenProperties DEF Rest
<1>2. n <= Len(q) => Len(Rest(q, n)) = Len(q) - n
  BY SubSeqProperties, LenProperties DEF Rest
<1>3. n >= Len(q) => Rest(q, n) = <<>>
  BY SubSeqProperties, LenProperties DEF Rest
<1>4. Len(Rest(q, n)) \in 0..Len(q)
  <2>1. Len(q) \in Nat /\ Len(<<>>) = 0
    BY LenProperties
  <2> QED  BY <1>2, <1>3, <2>1
<1> QED  BY <1>1, <1>2, <1>3, <1>4

LEMMA ConnFlags ==
  ASSUME NEW s \in Conns, NEW b \in BOOLEAN, NEW d \in BOOLEAN
  PROVE  /\ [s EXCEPT !.readDrained = b] \in Conns
         /\ [s EXCEPT !.keepAlive = b] \in Conns
         /\ [s EXCEPT !.readSuppressed = b] \in Conns
         /\ [s EXCEPT !.readSuppressed = b, !.readDrained = d] \in Conns
         /\ [s EXCEPT !.closePending = b] \in Conns
         /\ [s EXCEPT !.deadline = b] \in Conns
  BY DEF Conns

LEMMA ArmedKeeps ==
  ASSUME Scenario(env), NEW s \in Conns, NEW n \in Nat
  PROVE  Armed(s, n) \in Conns
<1>1. Timeouts \in BOOLEAN  BY DEF Scenario, Timeouts
<1> DEFINE b == s.deadline \/ (Timeouts /\ Len(s.readBuf) = n /\ s.bodyNeed = 0)
<1>2. b \in BOOLEAN  OBVIOUS
<1>3. Armed(s, n) = [s EXCEPT !.deadline = b]  BY DEF Armed
<1> HIDE DEF b
<1> QED BY <1>2, <1>3, ConnFlags

LEMMA Frame ==
  ASSUME env' = env
  PROVE  /\ Scenario(env)' = Scenario(env) /\ script' = script
         /\ BufCap' = BufCap /\ N' = N
         /\ Conns' = Conns /\ Jobs' = Jobs /\ Sockets' = Sockets
  BY DEF Scenario, script, BufCap, SendCap, N, Conns, Jobs, Sockets

LEMMA ScenarioFacts ==
  ASSUME Scenario(env)
  PROVE  /\ BufCap \in Nat \ {0} /\ SendCap \in Nat \ {0}
         /\ script \in Seq(Requests) /\ N \in Nat \ {0}
         /\ \A i \in 1..N : script[i] \in Requests
         /\ Timeouts \in BOOLEAN
<1>1. /\ BufCap \in Nat \ {0} /\ SendCap \in Nat \ {0}
      /\ script \in Seq(Requests) /\ script # <<>>
  BY DEF Scenario, BufCap, SendCap, script
<1>2. Timeouts \in BOOLEAN
  BY DEF Scenario, Timeouts
<1>3. N \in Nat \ {0}
  BY <1>1, LenProperties, EmptySeq DEF N
<1>4. \A i \in 1..N : script[i] \in Requests
  BY <1>1, ElementOfSeq DEF N
<1> QED  BY <1>1, <1>2, <1>3, <1>4

RequestOK(i) ==
  /\ i \in Nat /\ i > 0 /\ i \in 0..N
  /\ script[i].hdr \in Nat /\ script[i].hdr > 0 /\ script[i].body \in Nat
  /\ script[i].ka \in BOOLEAN
  /\ script[i].bad \in {"", "error", "malformed"}
  /\ script[i].d \in Dispatches

LEMMA RequestFacts ==
  ASSUME Scenario(env), NEW i \in 1..N
  PROVE  RequestOK(i)
<1>1. i \in Nat /\ i > 0 /\ i \in 0..N
  BY ScenarioFacts
<1>2. script[i] \in Requests
  BY ScenarioFacts
<1>3. script[i].hdr \in Nat \ {0} /\ script[i].body \in Nat
  BY <1>2 DEF Requests
<1>4. script[i].hdr \in Nat /\ script[i].hdr > 0
  BY <1>3
<1>5. script[i].ka \in BOOLEAN
  BY <1>2 DEF Requests
<1>6. /\ script[i].bad \in {"", "error", "malformed"}
      /\ script[i].d \in Dispatches
  BY <1>2 DEF Requests
<1> QED  BY <1>1, <1>3, <1>4, <1>5, <1>6, Zenon DEF RequestOK

LEMMA RequestAtType ==
  ASSUME Scenario(env), NEW p
  PROVE  RequestAt(p) \in 1..N
<1> DEFINE holds(i) == Start[i] <= p /\ p <= End(i)
           best(i) == (\E j \in 1..N : holds(j)) => holds(i)
<1>1. RequestAt(p) = CHOOSE i \in 1..N : best(i)
  BY DEF RequestAt
<1>2. 1 \in 1..N
  BY ScenarioFacts
<1> HIDE DEF holds
<1>3. \E i \in 1..N : best(i)
  BY <1>2
<1> HIDE DEF best
<1> QED  BY <1>1, <1>3

LEMMA ResponseType ==
  ASSUME NEW i \in Nat
  PROVE  /\ Response(i) \in Parts /\ Len(Response(i)) = RespLen
         /\ Response(i) # <<>> /\ Tail(Response(i)) \in Parts
         /\ \A j \in Nat : <<<<i, j>>>> \in Parts
<1>1. RespLen \in Nat \ {0}
  BY ConstantsAssumption
<1>2. Response(i) \in Parts
  BY <1>1 DEF Response, Parts
<1>3. Len(Response(i)) = RespLen
  BY <1>1, <1>2 DEF Response, Parts
<1>4. Response(i) # <<>>
  BY <1>1, <1>3
<1>5. Tail(Response(i)) \in Parts
  BY <1>2, <1>4, HeadTailProperties DEF Parts
<1>6. \A j \in Nat : <<<<i, j>>>> \in Parts
  BY DEF Parts
<1> QED  BY <1>2, <1>3, <1>4, <1>5, <1>6

\* The loop goes on at p with the conn s.
LEMMA MoveKeeps ==
  ASSUME IInv, NEW p \in Places, NEW r \in {"drain", "body"},
         NEW s \in Conns, Fits(s), At(p, r, s), s.pending = c.pending,
         c.pending > 0 => (Unsent(s) => Unsent(c)),
         k' \in Sockets, k'.rcvd <= k'.sent,
         pc' = p, ret' = r, c' = s, UNCHANGED <<env, job, doneCh>>
  PROVE  IInv'
<1>1. /\ env' = env /\ pc' = p /\ ret' = r /\ c' = s
      /\ job' = job /\ doneCh' = doneCh
  OBVIOUS
<1>2. TypeOK'
  BY <1>1, Frame DEF IInv, TypeOK
<1>3. Fits(c)'
  BY <1>1, Frame DEF Fits
<1>4. At(pc, ret, c)'
  BY <1>1 DEF At
<1>5. Owes(c, job, doneCh)'
  <2>1. doneCh \in Seq(Completions)  BY DEF IInv, TypeOK
  <2>2. Len(doneCh) \in Nat  BY <2>1, LenProperties
  <2>3. c.pending = 0 => job = <<>>  BY <2>2 DEF IInv, Owes
  <2>4. c.pending \in 0..1  BY DEF IInv, TypeOK, Conns
  <2>5. job # <<>> /\ job.mode # "queue" => ~Unsent(s)
    BY <2>3, <2>4 DEF IInv, Owes
  <2>6. Owes(s, job, doneCh)
    BY <2>5 DEF IInv, Owes
  <2> QED  BY <1>1, <2>6 DEF Owes, Unsent
<1> QED  BY <1>2, <1>3, <1>4, <1>5 DEF IInv

LEMMA ContinueKeeps ==
  ASSUME IInv, NEW p \in Places, NEW s \in Conns, Continue(p, s),
         Fits(s), At(p, "drain", s), s.pending = c.pending,
         c.pending > 0 => (Unsent(s) => Unsent(c)),
         k' \in Sockets, k'.rcvd <= k'.sent
  PROVE  IInv'
<1>1. pc' = p /\ ret' = "drain" /\ c' = s /\ UNCHANGED <<env, job, doneCh>>
  BY DEF Continue, Loop
<1> QED  BY <1>1, MoveKeeps

LEMMA GotoKeeps ==
  ASSUME IInv, NEW p \in Places, NEW s \in Conns, Goto(p, s),
         Fits(s), At(p, "drain", s), s.pending = c.pending,
         c.pending > 0 => (Unsent(s) => Unsent(c))
  PROVE  IInv'
<1>1. k' \in Sockets /\ k'.rcvd <= k'.sent
  BY DEF IInv, TypeOK, Goto
<1>2. Continue(p, s)  BY DEF Goto
<1> QED  BY <1>1, <1>2, ContinueKeeps

\* closeConn, on a conn that no handler owns.
LEMMA CloseKeeps ==
  ASSUME IInv, NEW s \in Conns, CloseConn(s), Fits(s),
         s.pending = 0, c.pending = 0
  PROVE  IInv'
<1>1. /\ env' = env /\ pc' = "closed" /\ ret' = "drain"
      /\ job' = job /\ doneCh' = doneCh
      /\ k' = [k EXCEPT !.mask = "none", !.ready = FALSE]
      /\ c' = [s EXCEPT !.inflight = s.inflight - s.bodyNeed, !.bodyNeed = 0,
                        !.bodyBuf = <<>>, !.header = 0, !.file = <<>>]
  BY DEF CloseConn, Loop
<1>2. /\ s.inflight \in Nat /\ s.inflight = s.bodyNeed
      /\ Len(s.readBuf) <= BufCap
  BY DEF Conns, Fits
<1>3. c' \in Conns /\ c'.inflight = 0 /\ c'.bodyNeed = 0 /\ c'.bodyBuf = <<>>
      /\ c'.readBuf = s.readBuf /\ c'.pending = 0
  <2>1. N \in Nat /\ <<>> \in Bytes /\ <<>> \in Parts
    BY ScenarioFacts DEF IInv, TypeOK, Bytes, Parts
  <2>2. s.inflight - s.bodyNeed = 0 /\ 0 \in 0..N
    BY <1>2, <2>1
  <2>3. c' = [s EXCEPT !.inflight = 0, !.bodyNeed = 0,
                       !.bodyBuf = <<>>, !.header = 0, !.file = <<>>]
    BY <1>1, <2>2
  <2>4. c' \in Conns
    BY <2>1, <2>2, <2>3 DEF Conns
  <2> QED  BY <2>3, <2>4 DEF Conns
<1>4. k' \in Sockets /\ k'.rcvd <= k'.sent
  BY <1>1 DEF Sockets, IInv, TypeOK
<1>5. TypeOK'
  BY <1>1, <1>3, <1>4, Frame DEF IInv, TypeOK, Places
<1>6. Fits(c)'
  BY <1>1, <1>2, <1>3, Frame, EmptySeq DEF Fits
<1>7. At(pc, ret, c)'
  BY <1>1, <1>3 DEF At, Reading, Filling
<1>8. Owes(c, job, doneCh)'
  <2>1. Len(doneCh) \in Nat  BY LenProperties DEF IInv, TypeOK
  <2>2. job = <<>> /\ Len(doneCh) = 0  BY <2>1 DEF IInv, Owes
  <2> QED  BY <1>1, <1>3, <2>2 DEF Owes
<1> QED  BY <1>5, <1>6, <1>7, <1>8 DEF IInv

-----------------------------------------------------------------------------
(* The socket. *)

LEMMA ReadFacts ==
  ASSUME TypeOK, NEW room \in Nat
  PROVE  /\ BytesRead(room) \in Bytes
         /\ Len(BytesRead(room)) = SmallerOf(Avail, room)
         /\ Avail \in Nat /\ SmallerOf(Avail, room) \in 0..room
         /\ AfterRead(room) \in Sockets
         /\ AfterRead(room).rcvd <= AfterRead(room).sent
<1>1. k \in Sockets /\ k.sent \in Nat /\ k.rcvd \in Nat /\ k.rcvd <= k.sent
  BY DEF TypeOK, Sockets
<1>2. Avail \in Nat
  BY <1>1 DEF Avail
<1> DEFINE n == SmallerOf(Avail, room)
<1>3. n \in 0..room /\ n <= Avail
  BY <1>2 DEF SmallerOf
<1>4. k.rcvd + n \in Nat /\ k.rcvd + n <= k.sent
  BY <1>1, <1>2, <1>3 DEF Avail
<1>5. BytesRead(room) = [j \in 1..n |-> k.rcvd + j] /\ n \in Nat
  BY <1>3 DEF BytesRead
<1>6. AfterRead(room) = [k EXCEPT !.rcvd = k.rcvd + n]
  BY DEF AfterRead
<1> HIDE DEF n
<1>7. BytesRead(room) \in Bytes /\ Len(BytesRead(room)) = n
  BY <1>1, <1>5 DEF Bytes
<1>8. AfterRead(room) \in Sockets
  BY <1>1, <1>4, <1>6 DEF Sockets
<1>9. AfterRead(room).rcvd <= AfterRead(room).sent
  BY <1>1, <1>4, <1>6 DEF Sockets
<1> QED  BY <1>2, <1>3, <1>7, <1>8, <1>9 DEF n

LEMMA ModKeeps ==
  ASSUME TypeOK, NEW mask \in {"in", "inout", "none"}
  PROVE  Mod(k, mask) \in Sockets /\ Mod(k, mask).rcvd <= Mod(k, mask).sent
<1>1. k \in Sockets /\ k.rcvd <= k.sent
  BY DEF TypeOK
<1> DEFINE s1 == [k EXCEPT !.mask = mask]
           b  == k.ready \/ Readable(s1) \/ Writable(s1)
           d  == k.nospace \/ (mask = "inout" /\ k.space = 0)
<1>2. s1 \in Sockets /\ s1.ready = k.ready /\ s1.nospace = k.nospace
      /\ s1.rcvd = k.rcvd /\ s1.sent = k.sent
  BY <1>1 DEF Sockets
<1>3. b \in BOOLEAN /\ d \in BOOLEAN
  OBVIOUS
<1>4. Mod(k, mask) = [s1 EXCEPT !.ready = b, !.nospace = d]
  BY <1>1, <1>2 DEF Mod, Sockets
<1> HIDE DEF s1, b, d
<1>5. Mod(k, mask) \in Sockets
  BY <1>2, <1>3, <1>4 DEF Sockets
<1>6. Mod(k, mask).rcvd = k.rcvd /\ Mod(k, mask).sent = k.sent
  BY <1>2, <1>4 DEF Sockets
<1> QED  BY <1>1, <1>5, <1>6

LEMMA WriteKeeps ==
  ASSUME TypeOK, NEW bytes \in Parts
  PROVE  /\ Wrote(k, bytes) \in 0..Len(bytes)
         /\ AfterWrite(k, bytes) \in Sockets
         /\ AfterWrite(k, bytes).rcvd <= AfterWrite(k, bytes).sent
<1>1. /\ k \in Sockets /\ k.rcvd <= k.sent /\ k.out \in Parts
      /\ k.space \in 0..SendCap /\ SendCap \in Nat
  BY ScenarioFacts DEF TypeOK, Sockets
<1>2. Len(bytes) \in Nat
  BY LenProperties DEF Parts
<1> DEFINE n == Wrote(k, bytes)
           o == k.out \o SubSeq(bytes, 1, n)
           d == k.nospace \/ k.space < Len(bytes)
<1>3. n \in 0..Len(bytes) /\ n <= k.space
  BY <1>1, <1>2 DEF Wrote, SmallerOf
<1>4. AfterWrite(k, bytes)
        = [k EXCEPT !.space = k.space - n, !.out = o, !.nospace = d]
  BY <1>1 DEF AfterWrite, Sockets
<1>5. d \in BOOLEAN
  OBVIOUS
<1> HIDE DEF n, d
<1>6. k.space - n \in 0..SendCap
  BY <1>1, <1>2, <1>3
<1>7. SubSeq(bytes, 1, n) \in Parts
  BY <1>2, <1>3, SubSeqProperties DEF Parts
<1>8. o \in Parts
  BY <1>1, <1>7, ConcatProperties DEF Parts
<1> HIDE DEF o
<1>9. AfterWrite(k, bytes) \in Sockets
  BY <1>1, <1>4, <1>5, <1>6, <1>8 DEF Sockets
<1>10. /\ AfterWrite(k, bytes).rcvd = k.rcvd
       /\ AfterWrite(k, bytes).sent = k.sent
  BY <1>1, <1>4 DEF Sockets
<1> QED  BY <1>1, <1>3, <1>9, <1>10 DEF n

-----------------------------------------------------------------------------
(* Accept, the read handler and the refill. *)

LEMMA AcceptStep ==
  ASSUME IInv, Accept
  PROVE  IInv'
<1>1. TypeOK /\ c \in Conns /\ Fits(c) /\ At(pc, ret, c) /\ pc = "accept"
  BY DEF IInv, TypeOK, Accept
<1>2. BufCap \in Nat /\ c.bodyNeed = 0 /\ c.pending = 0
  BY <1>1, ScenarioFacts DEF At, Reading, TypeOK
<1>3. CASE ReadResult(BufCap) = "data"
  <2> DEFINE s == [c EXCEPT !.readBuf = BytesRead(BufCap),
                            !.readDrained = Avail < BufCap]
  <2>1. Continue("parse", s) /\ k' = AfterRead(BufCap)
    BY <1>3 DEF Accept
  <2>2. BytesRead(BufCap) \in Bytes /\ Len(BytesRead(BufCap)) <= BufCap
    BY <1>1, <1>2, ReadFacts
  <2>3. (Avail < BufCap) \in BOOLEAN
    OBVIOUS
  <2>4. s \in Conns
    BY <1>1, <2>2, <2>3 DEF Conns
  <2>5. /\ s.readBuf = BytesRead(BufCap) /\ s.pending = 0 /\ s.bodyNeed = 0
        /\ s.inflight = c.inflight /\ s.bodyBuf = c.bodyBuf
    BY <1>1, <1>2 DEF Conns
  <2>6. Fits(s)
    BY <1>1, <1>2, <2>2, <2>5 DEF Fits
  <2>7. At("parse", "drain", s)
    BY <2>5 DEF At, Filling
  <2> HIDE DEF s
  <2>8. k' \in Sockets /\ k'.rcvd <= k'.sent
    BY <1>1, <1>2, <2>1, ReadFacts
  <2> QED
    BY <1>2, <2>1, <2>4, <2>5, <2>6, <2>7, <2>8, ContinueKeeps DEF Places
<1>4. CASE ReadResult(BufCap) # "data"
  <2>1. Goto("drain", c)
    BY <1>4 DEF Accept, Loop
  <2>2. At("drain", "drain", c)
    BY DEF At, Reading, Filling
  <2> QED  BY <1>1, <2>1, <2>2, GotoKeeps DEF Places
<1> QED  BY <1>3, <1>4

\* s differs from t in its flags only.
Same(s, t) ==
  /\ s.readBuf = t.readBuf /\ s.sendBuf = t.sendBuf /\ s.file = t.file
  /\ s.pending = t.pending /\ s.bodyNeed = t.bodyNeed
  /\ s.bodyBuf = t.bodyBuf /\ s.header = t.header
  /\ s.inflight = t.inflight /\ s.takenOver = t.takenOver

LEMMA SameFacts ==
  ASSUME NEW s, NEW t, Same(s, t), Fits(t)
  PROVE  /\ Fits(s) /\ s.pending = t.pending /\ Unsent(s) = Unsent(t)
         /\ \A p, r : At(p, r, t) => At(p, r, s)
<1>1. Fits(s)  BY DEF Same, Fits
<1>2. Unsent(s) = Unsent(t)  BY DEF Same, Unsent
<1>3. \A p, r : At(p, r, t) => At(p, r, s)  BY DEF Same, At
<1> QED  BY <1>1, <1>2, <1>3 DEF Same

LEMMA FlagsSame ==
  ASSUME NEW s \in Conns, NEW b \in BOOLEAN, NEW d \in BOOLEAN
  PROVE  /\ Same(s, s)
         /\ Same([s EXCEPT !.readDrained = b], s)
         /\ Same([s EXCEPT !.keepAlive = b], s)
         /\ Same([s EXCEPT !.readSuppressed = b], s)
         /\ Same([s EXCEPT !.readSuppressed = b, !.readDrained = d], s)
         /\ Same([s EXCEPT !.deadline = b], s)
  BY DEF Same, Conns

LEMMA ArmedSame ==
  ASSUME NEW s \in Conns, NEW n \in Nat
  PROVE  Same(Armed(s, n), s)
  BY DEF Same, Armed, Conns

LEMMA AccumulateKeeps ==
  ASSUME Scenario(env), NEW s \in Conns, Fits(s),
         NEW bytes \in Bytes, Len(bytes) <= BufCap
  PROVE  /\ Accumulate(s, bytes) \in Conns /\ Fits(Accumulate(s, bytes))
         /\ Accumulate(s, bytes).bodyNeed = s.bodyNeed
         /\ Accumulate(s, bytes).pending = s.pending
         /\ Accumulate(s, bytes).sendBuf = s.sendBuf
         /\ Accumulate(s, bytes).file = s.file
<1>1. /\ s.bodyNeed \in Nat /\ s.bodyBuf \in Bytes /\ BufCap \in Nat
      /\ Len(s.bodyBuf) \in Nat /\ Len(bytes) \in Nat
  BY ScenarioFacts, LenProperties DEF Conns, Bytes
<1> DEFINE take == SmallerOf(s.bodyNeed - Len(s.bodyBuf), Len(bytes))
           b == s.bodyBuf \o SubSeq(bytes, 1, take)
           q == Rest(bytes, take)
           t == [s EXCEPT !.bodyBuf = b, !.readBuf = q]
<1>2. /\ take \in Nat /\ take <= Len(bytes)
      /\ take <= s.bodyNeed - Len(s.bodyBuf)
  BY <1>1 DEF SmallerOf, Fits
<1>3. Accumulate(s, bytes) = t
  BY DEF Accumulate, Conns
<1> HIDE DEF take
<1>4. q \in Bytes /\ Len(q) = Len(bytes) - take
  BY <1>2, RestType DEF Bytes
<1>5. SubSeq(bytes, 1, take) \in Bytes /\ Len(SubSeq(bytes, 1, take)) = take
  BY <1>1, <1>2, SubSeqProperties DEF Bytes
<1>6. b \in Bytes /\ Len(b) = Len(s.bodyBuf) + take
  BY <1>1, <1>5, ConcatProperties DEF Bytes
<1> HIDE DEF b, q
<1>7. t \in Conns
  BY <1>4, <1>6 DEF Conns
<1>8. /\ t.bodyNeed = s.bodyNeed /\ t.pending = s.pending
      /\ t.inflight = s.inflight /\ t.header = s.header
      /\ t.bodyBuf = b /\ t.readBuf = q
      /\ t.sendBuf = s.sendBuf /\ t.file = s.file
  BY DEF Conns
<1> HIDE DEF t
<1>9. Len(t.readBuf) <= BufCap /\ Len(t.bodyBuf) <= t.bodyNeed
  BY <1>1, <1>2, <1>4, <1>6, <1>8
<1>10. Fits(t)
  BY <1>8, <1>9 DEF Fits
<1> QED  BY <1>3, <1>7, <1>8, <1>10

\* The room that handleRecv reads into, and the conn it has then.
Room == BufCap - Len(c.readBuf)

Received ==
  Armed([c EXCEPT !.readSuppressed = FALSE,
                  !.readDrained =
                     c.bodyNeed = 0 /\ SmallerOf(Avail, Room) < Room,
                  !.readBuf = @ \o BytesRead(Room)],
        SmallerOf(Avail, Room))

LEMMA ReceivedFacts ==
  ASSUME IInv
  PROVE  /\ Room \in Nat /\ Received \in Conns /\ Fits(Received)
         /\ Received.readBuf = c.readBuf \o BytesRead(Room)
         /\ Received.readBuf \in Bytes /\ Len(Received.readBuf) <= BufCap
         /\ Received.pending = c.pending /\ Received.bodyNeed = c.bodyNeed
         /\ Received.bodyBuf = c.bodyBuf /\ Received.header = c.header
         /\ Received.takenOver = c.takenOver
<1>1. TypeOK /\ Scenario(env) /\ c \in Conns /\ Fits(c)
  BY DEF IInv, TypeOK
<1>2. /\ BufCap \in Nat
      /\ c.readBuf \in Bytes /\ Len(c.readBuf) \in 0..BufCap
  BY <1>1, ScenarioFacts, LenProperties DEF Conns, Bytes, Fits
<1> DEFINE n    == SmallerOf(Avail, Room)
           q    == c.readBuf \o BytesRead(Room)
           b    == c.bodyNeed = 0 /\ n < Room
           g    == [c EXCEPT !.readSuppressed = FALSE, !.readDrained = b,
                             !.readBuf = q]
           got  == Armed(g, n)
<1>3. Room \in Nat
  BY <1>2 DEF Room
<1>a. Received = got
  BY <1>1 DEF Received, Conns
<1>4. /\ BytesRead(Room) \in Bytes /\ Len(BytesRead(Room)) = n
      /\ n \in 0..Room
  BY <1>1, <1>3, ReadFacts
<1>5. b \in BOOLEAN
  OBVIOUS
<1> HIDE DEF n, b
<1>6. q \in Bytes /\ Len(q) = Len(c.readBuf) + n
  BY <1>2, <1>4, ConcatProperties DEF Bytes
<1> HIDE DEF q
<1>7. Len(q) <= BufCap /\ n \in Nat
  BY <1>2, <1>3, <1>4, <1>6 DEF Room
<1>8. g \in Conns
  BY <1>1, <1>5, <1>6 DEF Conns
<1>9. /\ g.readBuf = q /\ g.sendBuf = c.sendBuf /\ g.file = c.file
      /\ g.pending = c.pending /\ g.bodyNeed = c.bodyNeed
      /\ g.bodyBuf = c.bodyBuf /\ g.header = c.header
      /\ g.inflight = c.inflight /\ g.takenOver = c.takenOver
  BY <1>1 DEF Conns
<1> HIDE DEF g
<1>10. Fits(g)
  BY <1>1, <1>7, <1>9 DEF Fits
<1>11. got \in Conns /\ Same(got, g)
  BY <1>1, <1>7, <1>8, ArmedKeeps, ArmedSame
<1>12. got.takenOver = g.takenOver
  BY <1>8 DEF Armed, Conns
<1> HIDE DEF got
<1>13. Fits(got)
  BY <1>10, <1>11, SameFacts
<1>14. /\ got.readBuf = q /\ got.pending = c.pending
       /\ got.bodyNeed = c.bodyNeed /\ got.bodyBuf = c.bodyBuf
       /\ got.header = c.header /\ got.takenOver = c.takenOver
  BY <1>9, <1>11, <1>12 DEF Same
<1>15. Len(got.readBuf) <= BufCap /\ got.readBuf \in Bytes
  BY <1>6, <1>7, <1>14
<1>16. got.readBuf = c.readBuf \o BytesRead(Room)
  BY <1>14 DEF q
<1> QED  BY <1>3, <1>a, <1>11, <1>13, <1>14, <1>15, <1>16

LEMMA HandleRecvCases ==
  ASSUME IInv, HandleRecv
  PROVE  \/ /\ c.pending > 0
            /\ Goto("drain", [c EXCEPT !.readSuppressed = TRUE,
                                       !.readDrained = FALSE])
         \/ c.pending = 0 /\ Room = 0 /\ Goto("panic", c)
         \/ c.pending = 0 /\ CloseConn(c)
         \/ /\ c.pending = 0 /\ c.bodyNeed > 0 /\ k' = AfterRead(Room)
            /\ Continue("body", Accumulate(Received, Received.readBuf))
         \/ /\ c.pending = 0 /\ c.bodyNeed = 0 /\ k' = AfterRead(Room)
            /\ Continue("parse", Received)
<1>1. c.pending \in 0..1 /\ c.bodyNeed \in Nat
  BY DEF IInv, TypeOK, Conns
<1>2. Room \in Nat
  BY ReceivedFacts
<1>3. CASE c.pending > 0
  BY <1>3 DEF HandleRecv, Loop
<1>4. CASE c.pending = 0 /\ Room = 0
  BY <1>4 DEF HandleRecv, Room
<1>5. CASE c.pending = 0 /\ Room > 0 /\ ReadResult(Room) # "data"
  BY <1>5 DEF HandleRecv, Room
<1>6. CASE c.pending = 0 /\ Room > 0 /\ ReadResult(Room) = "data"
  <2>1. /\ IF c.bodyNeed > 0
           THEN Continue("body", Accumulate(Received, Received.readBuf))
           ELSE Continue("parse", Received)
        /\ k' = AfterRead(Room)
    BY <1>6 DEF HandleRecv, Room, Received
  <2>2. c.bodyNeed > 0 \/ c.bodyNeed = 0
    BY <1>1
  <2> QED  BY <1>6, <2>1, <2>2
<1> QED  BY <1>1, <1>2, <1>3, <1>4, <1>5, <1>6

LEMMA HandleRecvStep ==
  ASSUME IInv, HandleRecv
  PROVE  IInv'
<1>1. /\ TypeOK /\ Scenario(env) /\ c \in Conns /\ Fits(c)
      /\ At(pc, ret, c) /\ pc = "recv"
  BY DEF IInv, TypeOK, HandleRecv
<1>2. CASE /\ c.pending > 0
           /\ Goto("drain", [c EXCEPT !.readSuppressed = TRUE,
                                      !.readDrained = FALSE])
  <2> DEFINE s == [c EXCEPT !.readSuppressed = TRUE, !.readDrained = FALSE]
  <2>1. Goto("drain", s)
    BY <1>2
  <2>2. s \in Conns /\ Same(s, c)
    BY <1>1, ConnFlags, FlagsSame
  <2> HIDE DEF s
  <2>3. At("drain", "drain", c)
    BY DEF At, Reading, Filling
  <2> QED  BY <1>1, <2>1, <2>2, <2>3, SameFacts, GotoKeeps DEF Places
<1>3. CASE Goto("panic", c)
  <2>1. At("panic", "drain", c)
    BY DEF At, Reading, Filling
  <2> QED  BY <1>1, <1>3, <2>1, GotoKeeps DEF Places
<1>4. CASE c.pending = 0 /\ CloseConn(c)
  BY <1>1, <1>4, CloseKeeps
<1>5. CASE /\ c.pending = 0 /\ c.bodyNeed > 0 /\ k' = AfterRead(Room)
           /\ Continue("body", Accumulate(Received, Received.readBuf))
  <2> DEFINE s == Accumulate(Received, Received.readBuf)
  <2>1. Continue("body", s)
    BY <1>5
  <2>2. k' \in Sockets /\ k'.rcvd <= k'.sent
    BY <1>1, <1>5, ReceivedFacts, ReadFacts
  <2>3. /\ s \in Conns /\ Fits(s) /\ s.bodyNeed = c.bodyNeed
        /\ s.pending = c.pending
    BY <1>1, ReceivedFacts, AccumulateKeeps
  <2> HIDE DEF s
  <2>4. At("body", "drain", s)
    BY <1>5, <2>3 DEF At, Reading
  <2> QED  BY <1>5, <2>1, <2>2, <2>3, <2>4, ContinueKeeps DEF Places
<1>6. CASE /\ c.pending = 0 /\ c.bodyNeed = 0 /\ k' = AfterRead(Room)
           /\ Continue("parse", Received)
  <2>1. k' \in Sockets /\ k'.rcvd <= k'.sent
    BY <1>1, <1>6, ReceivedFacts, ReadFacts
  <2>2. /\ Received \in Conns /\ Fits(Received)
        /\ Received.pending = 0 /\ Received.bodyNeed = 0
    BY <1>6, ReceivedFacts
  <2>3. At("parse", "drain", Received)
    BY <2>2 DEF At, Filling
  <2> QED  BY <1>6, <2>1, <2>2, <2>3, ContinueKeeps DEF Places
<1> QED  BY <1>2, <1>3, <1>4, <1>5, <1>6, HandleRecvCases

-----------------------------------------------------------------------------
(* tryParse. *)

LEMMA QueueKeeps ==
  ASSUME NEW s \in Conns, Fits(s), NEW bytes \in Parts
  PROVE  /\ Queue(s, bytes) \in Conns /\ Fits(Queue(s, bytes))
         /\ Queue(s, bytes).pending = s.pending
         /\ Queue(s, bytes).bodyNeed = s.bodyNeed
         /\ Queue(s, bytes).keepAlive = s.keepAlive
<1> DEFINE q == s.sendBuf \o bytes
           t == [s EXCEPT !.sendBuf = q]
<1>1. s.sendBuf \in Parts
  BY DEF Conns
<1>2. q \in Parts
  BY <1>1, ConcatProperties DEF Parts
<1>3. Queue(s, bytes) = t
  BY DEF Queue, Conns
<1> HIDE DEF q
<1>4. t \in Conns
  BY <1>2 DEF Conns
<1>5. /\ t.inflight = s.inflight /\ t.bodyNeed = s.bodyNeed
      /\ t.readBuf = s.readBuf /\ t.bodyBuf = s.bodyBuf
      /\ t.pending = s.pending /\ t.header = s.header
      /\ t.keepAlive = s.keepAlive
  BY DEF Conns
<1> HIDE DEF t
<1>6. Fits(t)
  BY <1>5 DEF Fits
<1> QED  BY <1>3, <1>4, <1>5, <1>6

LEMMA ParseEndKeeps ==
  ASSUME IInv, c.pending = 0, NEW s \in Conns, Fits(s), s.pending = 0,
         ParseEnd(s)
  PROVE  IInv'
<1>1. PICK p \in {"send", "drain"} : Goto(p, s)
  BY DEF ParseEnd, Loop
<1>2. At(p, "drain", s)
  BY DEF At, Reading, Filling
<1> QED  BY <1>1, <1>2, GotoKeeps DEF Places

LEMMA RefuseKeeps ==
  ASSUME IInv, c.pending = 0, NEW s \in Conns, Fits(s), s.pending = 0,
         NEW i \in 1..N, writeAndClose(s, i)
  PROVE  IInv'
<1> DEFINE t == [s EXCEPT !.keepAlive = FALSE]
           q == Queue(t, <<<<i, 1>>>>)
<1>1. Goto("send", q)
  BY DEF writeAndClose
<1>2. t \in Conns /\ Same(t, s)
  BY ConnFlags, FlagsSame
<1> HIDE DEF t
<1>3. Fits(t) /\ t.pending = 0
  BY <1>2, SameFacts DEF Same
<1>4. i \in Nat
  BY ScenarioFacts DEF IInv, TypeOK
<1>5. <<<<i, 1>>>> \in Parts
  BY <1>4, ResponseType
<1>6. q \in Conns /\ Fits(q) /\ q.pending = 0
  BY <1>2, <1>3, <1>5, QueueKeeps
<1> HIDE DEF q
<1>7. At("send", "drain", q)
  BY DEF At, Reading, Filling
<1> QED  BY <1>1, <1>6, <1>7, GotoKeeps DEF Places

\* A parse runs on a conn that no handler owns and no body is read for.
Parsing ==
  /\ TypeOK /\ Scenario(env) /\ c \in Conns /\ Fits(c)
  /\ c.bodyNeed = 0 /\ c.pending = 0
  /\ c.readBuf \in Bytes /\ Len(c.readBuf) \in 0..BufCap /\ BufCap \in Nat

LEMMA ParsingFacts ==
  ASSUME IInv, pc \in Reading
  PROVE  Parsing
<1>1. TypeOK /\ Scenario(env) /\ c \in Conns /\ Fits(c) /\ At(pc, ret, c)
  BY DEF IInv, TypeOK
<1>2. BufCap \in Nat /\ c.readBuf \in Bytes /\ Len(c.readBuf) \in 0..BufCap
  BY <1>1, ScenarioFacts, LenProperties DEF Conns, Bytes, Fits
<1> QED  BY <1>1, <1>2 DEF At, Parsing

LEMMA HeaderMoreKeeps ==
  ASSUME IInv, Parsing, HeaderMore
  PROVE  IInv'
<1>1. c \in Conns /\ Fits(c) /\ c.bodyNeed = 0 /\ c.pending = 0
  BY DEF Parsing
<1>2. CASE Len(c.readBuf) = BufCap
  <2>1. writeAndClose(c, RequestAt(c.readBuf[1]))
    BY <1>2 DEF HeaderMore
  <2>2. RequestAt(c.readBuf[1]) \in 1..N
    BY RequestAtType DEF Parsing
  <2> QED  BY <1>1, <2>1, <2>2, RefuseKeeps
<1>3. CASE Len(c.readBuf) # BufCap /\ ~c.readDrained
  <2>1. PICK p \in {"send", "refill"} : Goto(p, c)
    BY <1>1, <1>3 DEF HeaderMore
  <2>2. At(p, "drain", c)
    BY <1>1 DEF At, Filling
  <2> QED  BY <1>1, <2>1, <2>2, GotoKeeps DEF Places
<1>4. CASE Len(c.readBuf) # BufCap /\ c.readDrained
  <2>1. ParseEnd(c)
    BY <1>4 DEF HeaderMore
  <2> QED  BY <1>1, <2>1, ParseEndKeeps
<1> QED  BY <1>2, <1>3, <1>4

LEMMA RefillStep ==
  ASSUME IInv, Refill
  PROVE  IInv'
<1>1. Parsing
  BY ParsingFacts DEF Refill, Reading
<1>2. /\ TypeOK /\ Scenario(env) /\ c \in Conns /\ Fits(c)
      /\ c.bodyNeed = 0 /\ c.pending = 0
      /\ c.readBuf \in Bytes /\ Len(c.readBuf) \in 0..BufCap /\ BufCap \in Nat
  BY <1>1 DEF Parsing
<1> DEFINE room == BufCap - Len(c.readBuf)
           s    == [c EXCEPT !.readSuppressed = FALSE]
<1>3. room \in Nat
  BY <1>2
<1>4. s \in Conns /\ Same(s, c)
  BY <1>2, ConnFlags, FlagsSame
<1>5. Fits(s) /\ s.pending = 0 /\ s.bodyNeed = 0
  BY <1>2, <1>4, SameFacts DEF Same
<1>6. CASE ReadResult(room) = "again"
  <2> DEFINE t == [s EXCEPT !.readDrained = TRUE]
  <2>1. ParseEnd(t)
    BY <1>6 DEF Refill
  <2> HIDE DEF s
  <2>2. t \in Conns /\ Same(t, s)
    BY <1>4, ConnFlags, FlagsSame
  <2> HIDE DEF t
  <2>3. Fits(t) /\ t.pending = 0
    BY <1>5, <2>2, SameFacts DEF Same
  <2> QED  BY <1>2, <2>1, <2>2, <2>3, ParseEndKeeps
<1>7. CASE ReadResult(room) = "error"
  <2>1. CloseConn(s)
    BY <1>7 DEF Refill
  <2> HIDE DEF s
  <2> QED  BY <1>2, <1>4, <1>5, <2>1, CloseKeeps
<1>8. CASE ReadResult(room) = "eof"
  <2> DEFINE t == [s EXCEPT !.keepAlive = FALSE]
  <2>1. CloseConn(t)
    BY <1>8 DEF Refill
  <2> HIDE DEF s
  <2>2. t \in Conns /\ Same(t, s)
    BY <1>4, ConnFlags, FlagsSame
  <2> HIDE DEF t
  <2>3. Fits(t) /\ t.pending = 0
    BY <1>5, <2>2, SameFacts DEF Same
  <2> QED  BY <1>2, <2>1, <2>2, <2>3, CloseKeeps
<1>9. CASE ReadResult(room) = "data"
  <2> DEFINE q == s.readBuf \o BytesRead(room)
             t == [s EXCEPT !.readDrained = Avail < room, !.readBuf = q]
  <2>1. Continue("parse", t) /\ k' = AfterRead(room)
    BY <1>4, <1>9 DEF Refill, Conns
  <2>2. BytesRead(room) \in Bytes /\ Len(BytesRead(room)) \in 0..room
    BY <1>2, <1>3, ReadFacts
  <2>a. room = BufCap - Len(c.readBuf)
    OBVIOUS
  <2>3. k' \in Sockets /\ k'.rcvd <= k'.sent
    BY <1>2, <1>3, <2>1, ReadFacts
  <2>4. (Avail < room) \in BOOLEAN
    OBVIOUS
  <2>5. s.readBuf = c.readBuf
    BY <1>4 DEF Same
  <2> HIDE DEF room, s
  <2>6. q \in Bytes /\ Len(q) = Len(c.readBuf) + Len(BytesRead(room))
    BY <1>2, <2>2, <2>5, ConcatProperties DEF Bytes
  <2> HIDE DEF q
  <2>7. Len(q) <= BufCap
    <3> DEFINE x == Len(c.readBuf)
               y == Len(BytesRead(room))
    <3>1. /\ x \in 0..BufCap /\ y \in 0..room /\ room = BufCap - x
          /\ BufCap \in Nat /\ room \in Nat /\ Len(q) = x + y
      BY <1>2, <1>3, <2>2, <2>6, <2>a
    <3> HIDE DEF x, y
    <3> QED  BY <3>1
  <2>8. t \in Conns
    BY <1>4, <2>4, <2>6 DEF Conns
  <2>9. /\ t.readBuf = q /\ t.pending = s.pending /\ t.header = s.header
        /\ t.bodyNeed = s.bodyNeed /\ t.bodyBuf = s.bodyBuf
        /\ t.inflight = s.inflight
    BY <1>4 DEF Conns
  <2> HIDE DEF t
  <2>10. Fits(t)
    BY <1>5, <2>7, <2>9 DEF Fits
  <2>11. At("parse", "drain", t)
    BY <1>5, <2>9 DEF At, Filling
  <2> QED
    BY <1>2, <1>5, <2>1, <2>3, <2>8, <2>9, <2>10, <2>11, ContinueKeeps
    DEF Places
<1>10. ReadResult(room) \in {"again", "error", "eof", "data"}
  BY DEF ReadResult
<1> QED  BY <1>6, <1>7, <1>8, <1>9, <1>10

LEMMA BeginBodyKeeps ==
  ASSUME IInv, Parsing, NEW i \in 1..N, script[i].body > 0, BeginBody(i)
  PROVE  IInv'
<1>1. /\ TypeOK /\ Scenario(env) /\ c \in Conns /\ Fits(c)
      /\ c.bodyNeed = 0 /\ c.pending = 0
      /\ c.readBuf \in Bytes /\ Len(c.readBuf) \in 0..BufCap /\ BufCap \in Nat
  BY DEF Parsing
<1>2. /\ i \in Nat /\ i > 0 /\ i \in 0..N /\ script[i].body \in Nat
      /\ script[i].hdr \in Nat
  <2>1. RequestOK(i)  BY <1>1, RequestFacts
  <2> QED  BY <2>1 DEF RequestOK
<1> DEFINE n == script[i].body
           t == [c EXCEPT !.readDrained = FALSE, !.header = i, !.bodyNeed = n,
                          !.bodyBuf = <<>>, !.inflight = c.inflight + n]
           q == Rest(c.readBuf, script[i].hdr)
           s == Accumulate(t, q)
           o == Queue(s, <<<<i, 0>>>>)
<1>3. CASE writeAndClose([c EXCEPT !.readDrained = FALSE], i)
  <2> DEFINE u == [c EXCEPT !.readDrained = FALSE]
  <2>1. u \in Conns /\ Same(u, c)
    BY <1>1, ConnFlags, FlagsSame
  <2> HIDE DEF u
  <2>2. Fits(u) /\ u.pending = 0
    BY <1>1, <2>1, SameFacts DEF Same
  <2>3. writeAndClose(u, i)
    BY <1>3 DEF u
  <2> QED  BY <1>1, <2>1, <2>2, <2>3, RefuseKeeps
<1>4. c.inflight = 0 /\ c.inflight + n = n
  BY <1>1, <1>2 DEF Fits
<1>5. <<>> \in Bytes /\ Len(<<>>) = 0
  BY DEF Bytes
<1>6. t \in Conns
  BY <1>1, <1>2, <1>4, <1>5 DEF Conns
<1>7. /\ t.header = i /\ t.bodyNeed = n /\ t.bodyBuf = <<>>
      /\ t.inflight = n /\ t.pending = 0 /\ t.readBuf = c.readBuf
  BY <1>1, <1>4 DEF Conns
<1>8. Fits(t)
  BY <1>1, <1>2, <1>5, <1>7 DEF Fits
<1>9. q \in Bytes /\ Len(q) <= BufCap
  <2>1. q \in Bytes
    BY <1>1, <1>2, RestType DEF Bytes
  <2>2. Len(q) \in 0..Len(c.readBuf)
    BY <1>1, <1>2, RestType DEF Bytes
  <2> HIDE DEF q
  <2> QED  BY <1>1, <2>1, <2>2
<1> HIDE DEF q
<1>10. /\ s \in Conns /\ Fits(s) /\ s.bodyNeed = n /\ s.pending = 0
  <2> HIDE DEF t
  <2> QED  BY <1>1, <1>6, <1>7, <1>8, <1>9, AccumulateKeeps
<1>11. CASE Goto("body", s)
  <2> HIDE DEF s
  <2>1. At("body", "drain", s)
    BY <1>10 DEF At, Reading
  <2> QED  BY <1>1, <1>10, <1>11, <2>1, GotoKeeps DEF Places
<1>12. CASE /\ pc' = "send" /\ ret' = "body" /\ c' = o
            /\ UNCHANGED <<env, job, doneCh, k>>
  <2> HIDE DEF s
  <2>1. <<<<i, 0>>>> \in Parts
    BY <1>2, ResponseType
  <2>2. o \in Conns /\ Fits(o) /\ o.pending = 0 /\ o.bodyNeed = n
    BY <1>10, <2>1, QueueKeeps
  <2> HIDE DEF o
  <2>3. At("send", "body", o)
    BY <2>2 DEF At, Reading, Filling
  <2>4. k' \in Sockets /\ k'.rcvd <= k'.sent
    BY <1>1, <1>12 DEF TypeOK
  <2> QED  BY <1>1, <1>12, <2>2, <2>3, <2>4, MoveKeeps DEF Places
<1>13. \/ writeAndClose([c EXCEPT !.readDrained = FALSE], i)
       \/ Goto("body", s)
       \/ /\ pc' = "send" /\ ret' = "body" /\ c' = o
          /\ UNCHANGED <<env, job, doneCh, k>>
  <2>1. t = [c EXCEPT !.readDrained = FALSE, !.header = i, !.bodyNeed = n,
                      !.bodyBuf = <<>>, !.inflight = @ + n]
    BY <1>1 DEF Conns
  <2> QED  BY <2>1 DEF BeginBody, q
<1> QED  BY <1>3, <1>11, <1>12, <1>13

\* The conn once request i has left the read buffer.
LEMMA ConsumedFacts ==
  ASSUME Scenario(env), NEW s \in Conns, Fits(s), NEW i \in 1..N
  PROVE  /\ Consumed(s, i) \in Conns /\ Fits(Consumed(s, i))
         /\ Consumed(s, i).pending = s.pending
         /\ Consumed(s, i).bodyNeed = s.bodyNeed
         /\ Consumed(s, i).sendBuf = s.sendBuf
         /\ Consumed(s, i).file = s.file
<1>1. /\ script[i].hdr + script[i].body \in Nat /\ script[i].ka \in BOOLEAN
      /\ BufCap \in Nat
  <2>1. RequestOK(i)  BY RequestFacts
  <2>2. /\ script[i].hdr \in Nat /\ script[i].body \in Nat
        /\ script[i].ka \in BOOLEAN
    BY <2>1, Zenon DEF RequestOK
  <2>3. script[i].hdr + script[i].body \in Nat
    BY <2>2
  <2> QED  BY <2>2, <2>3, ScenarioFacts
<1>2. s.readBuf \in Bytes /\ Len(s.readBuf) \in Nat
      /\ Len(s.readBuf) <= BufCap
  BY LenProperties DEF Conns, Bytes, Fits
<1> DEFINE n == script[i].hdr + script[i].body
           q == Rest(s.readBuf, n)
           b == script[i].ka
           t == [s EXCEPT !.readBuf = q, !.keepAlive = b]
<1>3. Consumed(s, i) = t
  BY DEF Consumed, Conns
<1> HIDE DEF n
<1>4. q \in Bytes /\ Len(q) \in 0..Len(s.readBuf)
  BY <1>1, <1>2, RestType DEF Bytes, n
<1> HIDE DEF q, b
<1>6. Len(q) <= BufCap
  BY <1>1, <1>2, <1>4
<1>7. t \in Conns
  BY <1>1, <1>4 DEF Conns, b
<1>8. /\ t.inflight = s.inflight /\ t.bodyNeed = s.bodyNeed
      /\ t.readBuf = q /\ t.bodyBuf = s.bodyBuf /\ t.header = s.header
      /\ t.pending = s.pending /\ t.sendBuf = s.sendBuf /\ t.file = s.file
  BY DEF Conns
<1> HIDE DEF t
<1>9. Fits(t)
  BY <1>6, <1>8 DEF Fits
<1> QED  BY <1>3, <1>7, <1>8, <1>9

LEMMA JobsNotEmpty == <<>> \notin Jobs
<1> SUFFICES ASSUME <<>> \in Jobs PROVE FALSE
  OBVIOUS
<1>1. DOMAIN <<>> = {"i", "ka", "need", "mode"}
  BY DEF Jobs
<1>2. DOMAIN <<>> = {}
  OBVIOUS
<1> QED  BY <1>1, <1>2

\* Without a pending completion there is no handler and nothing in doneCh.
LEMMA NobodyOwns ==
  ASSUME IInv, c.pending = 0
  PROVE  job = <<>> /\ doneCh = <<>>
<1>1. doneCh \in Seq(Completions)
  BY DEF IInv, TypeOK
<1>2. Len(doneCh) \in Nat
  BY <1>1, LenProperties
<1>3. job = <<>> /\ Len(doneCh) = 0
  BY <1>2 DEF IInv, Owes
<1> QED  BY <1>1, <1>3, EmptySeq

\* The request goes to a goroutine, or its completion to doneCh.
LEMMA HandOverKeeps ==
  ASSUME IInv, c.pending = 0, NEW s \in Conns, Fits(s), s.pending = 1,
         pc' = "drain", ret' = "drain", c' = s, env' = env,
         k' \in Sockets, k'.rcvd <= k'.sent,
         \/ /\ job' \in Jobs /\ (job'.mode # "queue" => ~Unsent(s))
            /\ doneCh' = doneCh
         \/ /\ job' = job
            /\ \E m \in Completions : doneCh' = Append(doneCh, m)
  PROVE  IInv'
<1>1. job = <<>> /\ doneCh = <<>>
  BY NobodyOwns
<1>2. Fits(c)'
  BY Frame DEF Fits
<1>3. At(pc, ret, c)'
  BY DEF At, Reading, Filling
<1>4. /\ job' = <<>> \/ job' \in Jobs
      /\ doneCh' \in Seq(Completions)
      /\ 1 = Len(doneCh') + (IF job' = <<>> THEN 0 ELSE 1)
      /\ job' # <<>> /\ job'.mode # "queue" => ~Unsent(s)
  <2>1. CASE job' \in Jobs /\ doneCh' = doneCh
    <3>1. job' # <<>>
      BY <2>1, JobsNotEmpty
    <3>2. doneCh' \in Seq(Completions) /\ Len(doneCh') = 0
      BY <1>1, <2>1
    <3>3. job'.mode # "queue" => ~Unsent(s)
      BY <1>1, <3>1
    <3> QED  BY <2>1, <3>1, <3>2, <3>3
  <2>2. CASE /\ job' = job
             /\ \E m \in Completions : doneCh' = Append(doneCh, m)
    <3>1. PICK m \in Completions : doneCh' = Append(<<>>, m)
      BY <1>1, <2>2
    <3>2. doneCh' \in Seq(Completions) /\ Len(doneCh') = 1
      BY <3>1
    <3> QED  BY <1>1, <2>2, <3>2
  <2> QED  BY <2>1, <2>2
<1>5. TypeOK'
  BY <1>4, Frame DEF IInv, TypeOK, Places
<1>6. Owes(c, job, doneCh)'
  BY <1>4 DEF Owes, Unsent
<1> QED  BY <1>2, <1>3, <1>5, <1>6 DEF IInv

LEMMA InlineKeeps ==
  ASSUME IInv, Scenario(env), c.pending = 0, NEW i \in 1..N,
         NEW s \in Conns, Fits(s), s.pending = 0, s.bodyNeed = 0,
         DispatchInline(s, i)
  PROVE  IInv'
<1> DEFINE u == Consumed(s, i)
           q == Queue(u, Response(i))
<1>1. u \in Conns /\ Fits(u) /\ u.pending = 0 /\ u.bodyNeed = 0
  BY ConsumedFacts
<1>2. i \in Nat
  BY ScenarioFacts
<1>3. Response(i) \in Parts
  BY <1>2, ResponseType
<1>4. Goto("parse", q) \/ ParseEnd(q)
  BY DEF DispatchInline
<1> HIDE DEF u
<1>5. q \in Conns /\ Fits(q) /\ q.pending = 0 /\ q.bodyNeed = 0
  BY <1>1, <1>3, QueueKeeps
<1> HIDE DEF q
<1>6. At("parse", "drain", q)
  BY <1>5 DEF At, Filling
<1>7. CASE Goto("parse", q)
  BY <1>5, <1>6, <1>7, GotoKeeps DEF Places
<1>8. CASE ParseEnd(q)
  BY <1>5, <1>8, ParseEndKeeps
<1> QED  BY <1>4, <1>7, <1>8

LEMMA FileKeeps ==
  ASSUME IInv, Scenario(env), c.pending = 0, NEW i \in 1..N,
         NEW s \in Conns, Fits(s), s.pending = 0, s.bodyNeed = 0,
         DispatchFile(s, i)
  PROVE  IInv'
<1> DEFINE u == Consumed(s, i)
           q == Queue(u, <<<<i, 1>>>>)
           f == Tail(Response(i))
           t == [q EXCEPT !.file = f]
<1>1. u \in Conns /\ Fits(u) /\ u.pending = 0 /\ u.bodyNeed = 0
  BY ConsumedFacts
<1>2. i \in Nat
  BY ScenarioFacts
<1>3. <<<<i, 1>>>> \in Parts /\ f \in Parts
  BY <1>2, ResponseType
<1>4. Goto("send", t)
  BY DEF DispatchFile
<1> HIDE DEF u, f
<1>5. q \in Conns /\ Fits(q) /\ q.pending = 0 /\ q.bodyNeed = 0
  BY <1>1, <1>3, QueueKeeps
<1> HIDE DEF q
<1>6. t \in Conns
  BY <1>3, <1>5 DEF Conns
<1>7. /\ t.inflight = q.inflight /\ t.bodyNeed = q.bodyNeed
      /\ t.readBuf = q.readBuf /\ t.bodyBuf = q.bodyBuf
      /\ t.pending = q.pending /\ t.header = q.header
  BY <1>5 DEF Conns
<1> HIDE DEF t
<1>8. Fits(t)
  BY <1>5, <1>7 DEF Fits
<1>9. At("send", "drain", t)
  BY DEF At, Reading, Filling
<1> QED  BY <1>4, <1>5, <1>6, <1>7, <1>8, <1>9, GotoKeeps DEF Places

\* The conn that waits for the completion of the request it gave away.
LEMMA WaitingFacts ==
  ASSUME Scenario(env),
         NEW u \in Conns, Fits(u), u.pending = 0, u.bodyNeed = 0
  PROVE  LET v == [u EXCEPT !.pending = @ + 1]
             w == [u EXCEPT !.pending = @ + 1, !.takenOver = TRUE,
                            !.readBuf = <<>>]
         IN  /\ v \in Conns /\ Fits(v) /\ v.pending = 1
             /\ Unsent(v) = Unsent(u)
             /\ w \in Conns /\ Fits(w) /\ w.pending = 1
             /\ Unsent(w) = Unsent(u)
<1> DEFINE v == [u EXCEPT !.pending = 1]
           w == [u EXCEPT !.pending = 1, !.takenOver = TRUE, !.readBuf = <<>>]
<1>1. /\ [u EXCEPT !.pending = @ + 1] = v
      /\ [u EXCEPT !.pending = @ + 1, !.takenOver = TRUE,
                   !.readBuf = <<>>] = w
  BY DEF Conns
<1>2. <<>> \in Bytes /\ Len(<<>>) = 0
  BY DEF Bytes
<1>3. v \in Conns /\ w \in Conns
  <2>1. v \in Conns
    BY DEF Conns
  <2>2. w = [v EXCEPT !.takenOver = TRUE, !.readBuf = <<>>]
    BY DEF Conns
  <2> HIDE DEF v
  <2>3. w \in Conns
    BY <1>2, <2>1, <2>2 DEF Conns
  <2> QED  BY <2>1, <2>3
<1>4. /\ v.inflight = u.inflight /\ v.bodyNeed = 0 /\ v.pending = 1
      /\ v.readBuf = u.readBuf /\ v.bodyBuf = u.bodyBuf
      /\ v.sendBuf = u.sendBuf /\ v.file = u.file
  BY DEF Conns
<1>5. /\ w.inflight = u.inflight /\ w.bodyNeed = 0 /\ w.pending = 1
      /\ w.readBuf = <<>> /\ w.bodyBuf = u.bodyBuf
      /\ w.sendBuf = u.sendBuf /\ w.file = u.file
  BY DEF Conns
<1> HIDE DEF v, w
<1>6. Unsent(v) = Unsent(u) /\ Unsent(w) = Unsent(u)
  BY <1>4, <1>5 DEF Unsent
<1>7. Fits(v)
  BY <1>4 DEF Fits
<1>9. BufCap \in Nat
  BY ScenarioFacts
<1>10. Fits(w)
  BY <1>2, <1>5, <1>9 DEF Fits
<1> QED  BY <1>1, <1>3, <1>4, <1>5, <1>6, <1>7, <1>10

LEMMA PendingKeeps ==
  ASSUME IInv, Scenario(env), c.pending = 0, NEW i \in 1..N,
         NEW s \in Conns, Fits(s), s.pending = 0, s.bodyNeed = 0,
         DispatchPending(s, i)
  PROVE  IInv'
<1> DEFINE u == Consumed(s, i)
           v == [u EXCEPT !.pending = @ + 1]
<1>1. u \in Conns /\ Fits(u) /\ u.pending = 0 /\ u.bodyNeed = 0
      /\ u.sendBuf = s.sendBuf /\ u.file = s.file
  BY ConsumedFacts
<1>2. /\ DispatchAsync(s, i) \/ DispatchSaturated(s, i)
      /\ c' = v /\ pc' = "drain" /\ ret' = "drain" /\ env' = env
      /\ k' = IF s.sendBuf # <<>> THEN Mod(k, "inout") ELSE k
  BY DEF DispatchPending, Loop
<1> HIDE DEF u
<1>3. v \in Conns /\ Fits(v) /\ v.pending = 1 /\ Unsent(v) = Unsent(u)
  BY <1>1, WaitingFacts
<1>4. Unsent(v) = Unsent(s)
  BY <1>1, <1>3 DEF Unsent
<1> HIDE DEF v
<1>5. k' \in Sockets /\ k'.rcvd <= k'.sent
  BY <1>2, ModKeeps DEF IInv, TypeOK
<1>6. RequestOK(i)
  BY RequestFacts
<1>7. i \in Nat /\ script[i].ka \in BOOLEAN
  BY <1>6, Zenon DEF RequestOK
<1>8. CASE DispatchAsync(s, i)
  <2> DEFINE m == IF Unsent(s) THEN "queue" ELSE "write"
             b == script[i].ka
  <2>1. job' = [i |-> i, ka |-> b, need |-> 0, mode |-> m]
        /\ doneCh' = doneCh
    BY <1>8 DEF DispatchAsync
  <2>2. m \in {"queue", "write"} /\ (m # "queue" => ~Unsent(s))
    OBVIOUS
  <2> HIDE DEF m, b
  <2>3. job' \in Jobs /\ job'.mode = m
    BY <1>7, <2>1, <2>2 DEF Jobs, b
  <2>4. job'.mode # "queue" => ~Unsent(v)
    BY <1>4, <2>2, <2>3
  <2> QED  BY <1>2, <1>3, <1>5, <2>1, <2>3, <2>4, HandOverKeeps
<1>9. CASE DispatchSaturated(s, i)
  <2> DEFINE m == [data |-> Response(i), ka |-> script[i].ka, file |-> FALSE]
  <2>1. job' = job /\ doneCh' = Append(doneCh, m)
    BY <1>9 DEF DispatchSaturated
  <2>2. Response(i) \in Parts
    BY <1>7, ResponseType
  <2>3. m \in Completions
    BY <1>7, <2>2 DEF Completions
  <2> QED  BY <1>2, <1>3, <1>5, <2>1, <2>3, HandOverKeeps
<1> QED  BY <1>2, <1>8, <1>9

LEMMA TakeoverKeeps ==
  ASSUME IInv, Scenario(env), c.pending = 0, NEW i \in 1..N,
         NEW s \in Conns, Fits(s), s.pending = 0, s.bodyNeed = 0,
         ~Unsent(s), DispatchTakeover(s, i)
  PROVE  IInv'
<1> DEFINE u == Consumed(s, i)
           w == [u EXCEPT !.pending = @ + 1, !.takenOver = TRUE,
                          !.readBuf = <<>>]
           m == IF script[i].d = "Hijack" THEN "hijack" ELSE "loop"
           b == script[i].ka
<1>1. u \in Conns /\ Fits(u) /\ u.pending = 0 /\ u.bodyNeed = 0
      /\ u.sendBuf = s.sendBuf /\ u.file = s.file
  BY ConsumedFacts
<1>2. /\ c' = w /\ pc' = "drain" /\ ret' = "drain" /\ env' = env
      /\ k' = [k EXCEPT !.mask = "none", !.ready = FALSE]
      /\ doneCh' = doneCh
  BY DEF DispatchTakeover, Loop
<1>3. job' = [i |-> i, ka |-> b, need |-> 0, mode |-> m]
      /\ m \in {"hijack", "loop"}
  BY DEF DispatchTakeover
<1>4. RequestOK(i)
  BY RequestFacts
<1>5. i \in Nat /\ b \in BOOLEAN
  BY <1>4, Zenon DEF RequestOK
<1> HIDE DEF u, m, b
<1>6. w \in Conns /\ Fits(w) /\ w.pending = 1 /\ Unsent(w) = Unsent(u)
  BY <1>1, WaitingFacts
<1>7. ~Unsent(w)
  BY <1>1, <1>6 DEF Unsent
<1> HIDE DEF w
<1>8. k' \in Sockets /\ k'.rcvd <= k'.sent
  BY <1>2 DEF Sockets, IInv, TypeOK
<1>9. job' \in Jobs
  BY <1>3, <1>5 DEF Jobs
<1> QED  BY <1>2, <1>6, <1>7, <1>8, <1>9, HandOverKeeps

LEMMA DispatchCases ==
  ASSUME IInv, Parsing, NEW i \in 1..N, Dispatch(i)
  PROVE  \E s \in Conns :
           /\ Same(s, c)
           /\ \/ Goto("send", s)
              \/ DispatchInline(s, i)
              \/ script[i].d = "File" /\ DispatchFile(s, i)
              \/ DispatchPending(s, i)
              \/ ~Unsent(s) /\ DispatchTakeover(s, i)
<1>1. /\ Scenario(env) /\ c \in Conns /\ c.pending = 0
  BY DEF Parsing
<1>2. RequestOK(i)
  BY <1>1, RequestFacts
<1>3. script[i].d \in Dispatches
  BY <1>2 DEF RequestOK
<1> DEFINE b == c.readDrained /\ script[i].d \in {"Inline", "File"}
           s == [c EXCEPT !.deadline = FALSE, !.readDrained = b]
<1>4. b \in BOOLEAN
  OBVIOUS
<1>5. \/ Goto("send", s)
      \/ DispatchInline(s, i)
      \/ script[i].d = "File" /\ DispatchFile(s, i)
      \/ DispatchPending(s, i)
      \/ ~Unsent(s) /\ DispatchTakeover(s, i)
  <2>1. s = [c EXCEPT !.deadline = FALSE,
                      !.readDrained = @ /\ script[i].d \in {"Inline", "File"}]
    BY <1>1 DEF Conns
  <2> HIDE DEF s
  <2>2. ~(c.pending > 0)
    BY <1>1
  <2>3. CASE script[i].d = "Inline"
    BY <1>1, <2>1, <2>2, <2>3 DEF Dispatch
  <2>4. CASE script[i].d = "File"
    BY <1>1, <2>1, <2>2, <2>4 DEF Dispatch
  <2>5. CASE script[i].d \in {"Pool", "Spawn"}
    BY <1>1, <2>1, <2>2, <2>5 DEF Dispatch
  <2>6. CASE script[i].d \in {"Takeover", "Hijack"}
    BY <1>1, <2>1, <2>2, <2>6 DEF Dispatch
  <2> QED  BY <1>3, <2>3, <2>4, <2>5, <2>6 DEF Dispatches
<1> HIDE DEF b
<1>6. s \in Conns
  BY <1>1, <1>4 DEF Conns
<1>7. Same(s, c)
  BY <1>1 DEF Same, Conns
<1> HIDE DEF s
<1> QED  BY <1>5, <1>6, <1>7

LEMMA DispatchKeeps ==
  ASSUME IInv, Parsing, NEW i \in 1..N, Dispatch(i)
  PROVE  IInv'
<1>1. /\ Scenario(env) /\ c \in Conns /\ Fits(c)
      /\ c.bodyNeed = 0 /\ c.pending = 0
  BY DEF Parsing
<1>2. PICK s \in Conns :
        /\ Same(s, c)
        /\ \/ Goto("send", s)
           \/ DispatchInline(s, i)
           \/ DispatchFile(s, i)
           \/ DispatchPending(s, i)
           \/ ~Unsent(s) /\ DispatchTakeover(s, i)
  BY DispatchCases
<1>3. Fits(s) /\ s.pending = 0 /\ s.bodyNeed = 0
  BY <1>1, <1>2, SameFacts DEF Same
<1>4. CASE Goto("send", s)
  <2>1. At("send", "drain", s)
    BY DEF At, Reading, Filling
  <2> QED  BY <1>1, <1>3, <1>4, <2>1, GotoKeeps DEF Places
<1>5. CASE DispatchInline(s, i)
  BY <1>1, <1>3, <1>5, InlineKeeps
<1>6. CASE DispatchFile(s, i)
  BY <1>1, <1>3, <1>6, FileKeeps
<1>7. CASE DispatchPending(s, i)
  BY <1>1, <1>3, <1>7, PendingKeeps
<1>8. CASE ~Unsent(s) /\ DispatchTakeover(s, i)
  BY <1>1, <1>3, <1>8, TakeoverKeeps
<1> QED  BY <1>2, <1>4, <1>5, <1>6, <1>7, <1>8

LEMMA TryParseCases ==
  ASSUME IInv, TryParse, Parsing, c.readBuf # <<>>
  PROVE  LET i == RequestAt(c.readBuf[1])
             n == Len(c.readBuf)
         IN  /\ i \in 1..N
             /\ \/ n < script[i].hdr /\ HeaderMore
                \/ script[i].bad # "" /\ CloseConn(c)
                \/ script[i].bad # "" /\ writeAndClose(c, i)
                \/ n >= script[i].hdr + script[i].body /\ Dispatch(i)
                \/ n >= script[i].hdr /\ script[i].body > 0 /\ BeginBody(i)
<1>c. /\ Scenario(env) /\ Len(c.readBuf) \in 0..BufCap /\ BufCap \in Nat
  BY DEF Parsing
<1> DEFINE i == RequestAt(c.readBuf[1])
           n == Len(c.readBuf)
<1>1. i \in 1..N
  BY <1>c, RequestAtType
<1>2. RequestOK(i)
  BY <1>c, <1>1, RequestFacts
<1> HIDE DEF i
<1>3. /\ script[i].hdr \in Nat /\ script[i].body \in Nat
      /\ script[i].bad \in {"", "error", "malformed"}
  BY <1>2, Zenon DEF RequestOK
<1>a. n \in Nat
  BY <1>c
<1>4. \/ n < script[i].hdr /\ HeaderMore
      \/ script[i].bad # "" /\ CloseConn(c)
      \/ script[i].bad # "" /\ writeAndClose(c, i)
      \/ n >= script[i].hdr + script[i].body /\ Dispatch(i)
      \/ n >= script[i].hdr /\ script[i].body > 0 /\ BeginBody(i)
  <2>1. CASE n < script[i].hdr
    BY <2>1 DEF TryParse, i
  <2>2. CASE n >= script[i].hdr /\ script[i].bad = "malformed" /\ n < BufCap
    BY <1>c, <1>3, <2>2 DEF TryParse, i
  <2>3. CASE /\ n >= script[i].hdr
             /\ \/ script[i].bad = "error"
                \/ (script[i].bad = "malformed" /\ n = BufCap)
    BY <1>c, <1>3, <2>3 DEF TryParse, i
  <2>4. CASE n >= script[i].hdr + script[i].body /\ script[i].bad = ""
    BY <1>c, <1>3, <2>4 DEF TryParse, i
  <2>5. CASE /\ n >= script[i].hdr /\ script[i].bad = ""
             /\ n < script[i].hdr + script[i].body
    <3>1. script[i].body > 0
      <4> DEFINE h == script[i].hdr
                 b == script[i].body
      <4>1. n \in Nat /\ h \in Nat /\ b \in Nat /\ n >= h /\ n < h + b
        BY <1>a, <1>3, <2>5, Zenon
      <4> HIDE DEF n, h, b
      <4>2. b > 0
        BY <4>1
      <4> QED  BY <4>2 DEF b
    <3>2. ~(n >= script[i].hdr + script[i].body) /\ ~(n < script[i].hdr)
      <4> DEFINE h == script[i].hdr
                 b == script[i].body
      <4>1. n \in Nat /\ h \in Nat /\ b \in Nat /\ n >= h /\ n < h + b
        BY <1>a, <1>3, <2>5, Zenon
      <4> HIDE DEF n, h, b
      <4>2. ~(n >= h + b) /\ ~(n < h)
        BY <4>1
      <4> QED  BY <4>2 DEF h, b
    <3>3. BeginBody(i)
      BY <2>5, <3>2 DEF TryParse, i
    <3> QED  BY <2>5, <3>1, <3>3
  <2>6. /\ n < script[i].hdr \/ n >= script[i].hdr
        /\ \/ n < script[i].hdr + script[i].body
           \/ n >= script[i].hdr + script[i].body
    <3> DEFINE h == script[i].hdr
               b == script[i].body
    <3>1. n \in Nat /\ h \in Nat /\ b \in Nat
      BY <1>a, <1>3, Zenon
    <3> HIDE DEF n, h, b
    <3>2. (n < h \/ n >= h) /\ (n < h + b \/ n >= h + b)
      BY <3>1
    <3> QED  BY <3>2 DEF h, b
  <2>8. n < BufCap \/ n = BufCap
    BY <1>c
  <2> QED  BY <1>3, <2>1, <2>2, <2>3, <2>4, <2>5, <2>6, <2>8
<1> QED  BY <1>1, <1>4 DEF i

LEMMA TryParseStep ==
  ASSUME IInv, TryParse
  PROVE  IInv'
<1>1. Parsing
  BY ParsingFacts DEF TryParse, Reading
<1>2. /\ Scenario(env) /\ c \in Conns /\ Fits(c) /\ c.pending = 0
  BY <1>1 DEF Parsing
<1>3. CASE c.readBuf = <<>>
  <2>1. ParseEnd(c)
    BY <1>3 DEF TryParse
  <2> QED  BY <1>2, <2>1, ParseEndKeeps
<1>4. CASE c.readBuf # <<>>
  <2> DEFINE i == RequestAt(c.readBuf[1])
  <2>1. /\ i \in 1..N
        /\ \/ HeaderMore
           \/ CloseConn(c)
           \/ writeAndClose(c, i)
           \/ Dispatch(i)
           \/ script[i].body > 0 /\ BeginBody(i)
    BY <1>1, <1>4, TryParseCases
  <2> HIDE DEF i
  <2>2. CASE HeaderMore
    BY <1>1, <2>2, HeaderMoreKeeps
  <2>3. CASE CloseConn(c)
    BY <1>2, <2>3, CloseKeeps
  <2>4. CASE writeAndClose(c, i)
    BY <1>2, <2>1, <2>4, RefuseKeeps
  <2>5. CASE Dispatch(i)
    BY <1>1, <2>1, <2>5, DispatchKeeps
  <2>6. CASE script[i].body > 0 /\ BeginBody(i)
    BY <1>1, <2>1, <2>6, BeginBodyKeeps
  <2> QED  BY <2>1, <2>2, <2>3, <2>4, <2>5, <2>6
<1> QED  BY <1>3, <1>4

-----------------------------------------------------------------------------
(* Body accumulation. *)

LEMMA ConnFacts ==
  ASSUME IInv
  PROVE  /\ TypeOK /\ Scenario(env) /\ c \in Conns /\ Fits(c)
         /\ At(pc, ret, c) /\ BufCap \in Nat
         /\ c.pending \in 0..1 /\ c.bodyNeed \in Nat
         /\ c.readBuf \in Bytes /\ Len(c.readBuf) \in 0..BufCap
         /\ c.sendBuf \in Parts /\ c.file \in Parts
         /\ k \in Sockets /\ k.rcvd <= k.sent
<1>1. /\ TypeOK /\ Scenario(env) /\ c \in Conns /\ Fits(c)
      /\ At(pc, ret, c) /\ k \in Sockets /\ k.rcvd <= k.sent
  BY DEF IInv, TypeOK
<1>2. BufCap \in Nat
  BY <1>1, ScenarioFacts
<1>3. /\ c.pending \in 0..1 /\ c.bodyNeed \in Nat
      /\ c.readBuf \in Bytes /\ c.sendBuf \in Parts /\ c.file \in Parts
  BY <1>1 DEF Conns
<1>4. Len(c.readBuf) \in 0..BufCap
  BY <1>1, <1>2, <1>3, LenProperties DEF Fits, Bytes
<1> QED  BY <1>1, <1>2, <1>3, <1>4

LEMMA DrainBodyStep ==
  ASSUME IInv, DrainBody
  PROVE  IInv'
<1>1. /\ TypeOK /\ Scenario(env) /\ c \in Conns /\ Fits(c)
      /\ At(pc, ret, c) /\ BufCap \in Nat /\ pc = "body"
  BY ConnFacts DEF DrainBody
<1>2. c.bodyNeed > 0 /\ c.pending = 0
  BY <1>1 DEF At, Filling, Fits
<1> DEFINE s == [c EXCEPT !.readDrained = FALSE]
<1>3. s \in Conns /\ Same(s, c)
  BY <1>1, ConnFlags, FlagsSame
<1>4. \/ Goto("pipelined", s)
      \/ Goto("drain", s)
      \/ CloseConn(s)
      \/ /\ Continue("body", Accumulate(s, BytesRead(BufCap)))
         /\ k' = AfterRead(BufCap)
  BY DEF DrainBody, Loop
<1> HIDE DEF s
<1>5. Fits(s) /\ s.pending = 0 /\ s.bodyNeed > 0
  BY <1>1, <1>2, <1>3, SameFacts DEF Same
<1>6. At("pipelined", "drain", s) /\ At("drain", "drain", s)
  BY <1>5 DEF At, Reading, Filling
<1>7. CASE Goto("pipelined", s)
  BY <1>2, <1>3, <1>5, <1>6, <1>7, GotoKeeps DEF Places
<1>8. CASE Goto("drain", s)
  BY <1>2, <1>3, <1>5, <1>6, <1>8, GotoKeeps DEF Places
<1>9. CASE CloseConn(s)
  BY <1>2, <1>3, <1>5, <1>9, CloseKeeps
<1>10. CASE /\ Continue("body", Accumulate(s, BytesRead(BufCap)))
            /\ k' = AfterRead(BufCap)
  <2> DEFINE t == Accumulate(s, BytesRead(BufCap))
  <2>1. BytesRead(BufCap) \in Bytes /\ Len(BytesRead(BufCap)) <= BufCap
    BY <1>1, ReadFacts
  <2>2. k' \in Sockets /\ k'.rcvd <= k'.sent
    BY <1>1, <1>10, ReadFacts
  <2>3. t \in Conns /\ Fits(t) /\ t.bodyNeed = s.bodyNeed /\ t.pending = 0
    BY <1>1, <1>3, <1>5, <2>1, AccumulateKeeps
  <2>4. Continue("body", t)
    BY <1>10
  <2> HIDE DEF t
  <2>5. At("body", "drain", t)
    BY <1>5, <2>3 DEF At, Reading
  <2> QED  BY <1>2, <2>2, <2>3, <2>4, <2>5, ContinueKeeps DEF Places
<1> QED  BY <1>4, <1>7, <1>8, <1>9, <1>10

LEMMA DrainPipelinedStep ==
  ASSUME IInv, DrainPipelined
  PROVE  IInv'
<1>1. /\ TypeOK /\ c \in Conns /\ Fits(c) /\ At(pc, ret, c)
      /\ BufCap \in Nat /\ pc = "pipelined"
      /\ c.readBuf \in Bytes /\ Len(c.readBuf) \in 0..BufCap
  BY ConnFacts DEF DrainPipelined
<1>2. c.bodyNeed > 0 /\ c.pending = 0
  BY <1>1 DEF At, Filling, Fits
<1> DEFINE room == BufCap - Len(c.readBuf)
           q    == c.readBuf \o BytesRead(room)
           t    == [c EXCEPT !.readBuf = q]
<1>3. CASE Goto("finish", c)
  <2>1. At("finish", "drain", c)
    BY <1>2 DEF At, Reading
  <2> QED  BY <1>1, <1>3, <2>1, GotoKeeps DEF Places
<1>4. CASE Continue("pipelined", t) /\ k' = AfterRead(room)
  <2>1. room \in Nat /\ room = BufCap - Len(c.readBuf)
    BY <1>1
  <2>2. BytesRead(room) \in Bytes /\ Len(BytesRead(room)) \in 0..room
    BY <1>1, <2>1, ReadFacts
  <2>3. k' \in Sockets /\ k'.rcvd <= k'.sent
    BY <1>1, <1>4, <2>1, ReadFacts
  <2> HIDE DEF room
  <2>4. q \in Bytes /\ Len(q) = Len(c.readBuf) + Len(BytesRead(room))
    BY <1>1, <2>2, ConcatProperties DEF Bytes
  <2> HIDE DEF q
  <2>5. Len(q) <= BufCap
    <3> DEFINE x == Len(c.readBuf)
               y == Len(BytesRead(room))
    <3>1. /\ x \in 0..BufCap /\ y \in 0..room /\ room = BufCap - x
          /\ BufCap \in Nat /\ room \in Nat /\ Len(q) = x + y
      BY <1>1, <2>1, <2>2, <2>4
    <3> HIDE DEF x, y
    <3> QED  BY <3>1
  <2>6. t \in Conns
    BY <1>1, <2>4 DEF Conns
  <2>7. /\ t.readBuf = q /\ t.pending = c.pending /\ t.header = c.header
        /\ t.bodyNeed = c.bodyNeed /\ t.bodyBuf = c.bodyBuf
        /\ t.inflight = c.inflight
    BY <1>1 DEF Conns
  <2>8. Continue("pipelined", t)
    BY <1>4
  <2> HIDE DEF t
  <2>9. Fits(t) /\ At("pipelined", "drain", t)
    BY <1>1, <1>2, <2>5, <2>7 DEF Fits, At, Reading
  <2> QED  BY <1>2, <2>3, <2>6, <2>7, <2>8, <2>9, ContinueKeeps DEF Places
<1> QED  BY <1>1, <1>3, <1>4 DEF DrainPipelined, Conns

LEMMA FinishBodyStep ==
  ASSUME IInv, FinishBody
  PROVE  IInv'
<1>1. /\ Scenario(env) /\ c \in Conns /\ Fits(c) /\ At(pc, ret, c)
      /\ c.bodyNeed \in Nat /\ pc = "finish"
  BY ConnFacts DEF FinishBody
<1>2. c.bodyNeed > 0 /\ c.pending = 0 /\ c.header > 0
  BY <1>1 DEF At, Filling, Fits
<1>3. c.header \in 1..N
  <2>1. c.header \in 0..N /\ N \in Nat
    BY <1>1, ScenarioFacts DEF Conns
  <2> QED  BY <1>2, <2>1
<1> DEFINE i == c.header
           s == [c EXCEPT !.inflight = 0, !.bodyNeed = 0, !.bodyBuf = <<>>,
                          !.header = 0, !.deadline = FALSE,
                          !.readDrained = FALSE]
<1>4. c.inflight - c.bodyNeed = 0 /\ c.inflight = c.bodyNeed
  BY <1>1 DEF Fits
<1>5. s = [c EXCEPT !.inflight = @ - c.bodyNeed, !.bodyNeed = 0,
                    !.bodyBuf = <<>>, !.header = 0, !.deadline = FALSE,
                    !.readDrained = FALSE]
  BY <1>1, <1>4 DEF Conns
<1>6. <<>> \in Bytes /\ Len(<<>>) = 0 /\ 0 \in 0..N
  BY <1>1, ScenarioFacts DEF Bytes
<1>7. s \in Conns
  BY <1>1, <1>6 DEF Conns
<1>8. /\ s.inflight = 0 /\ s.bodyNeed = 0 /\ s.bodyBuf = <<>>
      /\ s.readBuf = c.readBuf /\ s.pending = c.pending
  BY <1>1 DEF Conns
<1>9. \/ writeAndClose(s, i)
      \/ Goto("send", Queue([s EXCEPT !.keepAlive = script[i].ka],
                            Response(i)))
  <2> HIDE DEF s
  <2> QED  BY <1>5 DEF FinishBody
<1> HIDE DEF s
<1>10. Fits(s)
  BY <1>1, <1>6, <1>8 DEF Fits
<1>11. RequestOK(i)
  BY <1>1, <1>3, RequestFacts
<1> HIDE DEF i
<1>12. i \in Nat /\ script[i].ka \in BOOLEAN
  BY <1>11, Zenon DEF RequestOK
<1>13. CASE writeAndClose(s, i)
  <2>1. i \in 1..N
    BY <1>3 DEF i
  <2> QED  BY <1>2, <1>7, <1>8, <1>10, <1>13, <2>1, RefuseKeeps
<1>14. CASE Goto("send", Queue([s EXCEPT !.keepAlive = script[i].ka],
                               Response(i)))
  <2> DEFINE b == script[i].ka
             t == [s EXCEPT !.keepAlive = b]
             q == Queue(t, Response(i))
  <2>1. t \in Conns /\ Same(t, s)
    BY <1>7, <1>12, ConnFlags, FlagsSame
  <2>2. Response(i) \in Parts
    BY <1>12, ResponseType
  <2>3. Goto("send", q)
    BY <1>14
  <2> HIDE DEF t
  <2>4. Fits(t) /\ t.pending = 0
    BY <1>2, <1>8, <1>10, <2>1, SameFacts DEF Same
  <2>5. q \in Conns /\ Fits(q) /\ q.pending = 0
    BY <2>1, <2>2, <2>4, QueueKeeps
  <2> HIDE DEF q
  <2>6. At("send", "drain", q)
    BY DEF At, Reading, Filling
  <2> QED  BY <1>2, <2>3, <2>5, <2>6, GotoKeeps DEF Places
<1> QED  BY <1>9, <1>13, <1>14

-----------------------------------------------------------------------------
(* directSend. *)

LEMMA SentKeeps ==
  ASSUME IInv, Sent
  PROVE  IInv'
<1>1. /\ c \in Conns /\ Fits(c) /\ At(pc, ret, c) /\ ret \in {"drain", "body"}
      /\ k \in Sockets /\ k.rcvd <= k.sent
      /\ c.bodyNeed \in Nat /\ c.pending \in 0..1
  BY ConnFacts DEF TypeOK
<1>2. CASE c.bodyNeed > 0
  <2>1. pc' = ret /\ ret' = "drain" /\ UNCHANGED <<env, c, job, doneCh, k>>
    BY <1>2 DEF Sent, Loop
  <2>2. At(ret, "drain", c)
    BY <1>1, <1>2 DEF At, Reading
  <2>3. ret \in Places
    BY <1>1 DEF Places
  <2>4. k' \in Sockets /\ k'.rcvd <= k'.sent
    BY <1>1, <2>1
  <2> QED  BY <1>1, <2>1, <2>2, <2>3, <2>4, MoveKeeps
<1>3. CASE c.bodyNeed = 0 /\ c.pending > 0
  <2>1. Goto("drain", c)
    BY <1>3 DEF Sent, Loop
  <2>2. At("drain", "drain", c)
    BY DEF At, Reading, Filling
  <2> QED  BY <1>1, <2>1, <2>2, GotoKeeps DEF Places
<1>4. CASE c.bodyNeed = 0 /\ c.pending = 0
  <2>1. \/ CloseConn(c)
        \/ \E p \in {"parse", "drain", "speculate"} : Goto(p, c)
    <3>1. ~(c.bodyNeed > 0) /\ ~(c.pending > 0)
      BY <1>4
    <3>2. CASE ~c.keepAlive
      BY <1>4, <3>1, <3>2 DEF Sent
    <3>3. CASE c.keepAlive /\ c.readBuf # <<>>
      BY <1>4, <3>1, <3>3 DEF Sent
    <3>4. CASE c.keepAlive /\ c.readBuf = <<>>
      <4>1. \E p \in {"drain", "speculate"} : Goto(p, c)
        BY <1>4, <3>1, <3>4 DEF Sent, Loop
      <4> QED  BY <4>1
    <3> QED  BY <3>2, <3>3, <3>4
  <2>2. CASE CloseConn(c)
    BY <1>1, <1>4, <2>2, CloseKeeps
  <2>3. CASE \E p \in {"parse", "drain", "speculate"} : Goto(p, c)
    <3>1. PICK p \in {"parse", "drain", "speculate"} : Goto(p, c)
      BY <2>3
    <3>2. At(p, "drain", c)
      BY <1>4 DEF At, Filling
    <3> QED  BY <1>1, <3>1, <3>2, GotoKeeps DEF Places
  <2> QED  BY <2>1, <2>2, <2>3
<1> QED  BY <1>1, <1>2, <1>3, <1>4

LEMMA FailSendKeeps ==
  ASSUME IInv, failSend
  PROVE  IInv'
<1>1. c \in Conns /\ Fits(c) /\ c.pending \in 0..1
  BY ConnFacts
<1> DEFINE s == [c EXCEPT !.sendBuf = <<>>, !.file = <<>>]
           t == [s EXCEPT !.closePending = TRUE]
<1>2. <<>> \in Parts
  BY DEF Parts
<1>3. s \in Conns
  BY <1>1, <1>2 DEF Conns
<1>4. /\ s.inflight = c.inflight /\ s.bodyNeed = c.bodyNeed
      /\ s.readBuf = c.readBuf /\ s.bodyBuf = c.bodyBuf
      /\ s.pending = c.pending /\ s.header = c.header
      /\ s.sendBuf = <<>> /\ s.file = <<>>
  BY <1>1 DEF Conns
<1>5. IF c.pending > 0 THEN Goto("drain", t) ELSE CloseConn(s)
  BY DEF failSend, Loop
<1> HIDE DEF s
<1>6. Fits(s)
  BY <1>1, <1>4 DEF Fits
<1>7. CASE c.pending > 0
  <2>1. t \in Conns
    BY <1>3, ConnFlags
  <2>2. Same(t, s)
    BY <1>3 DEF Same, Conns
  <2>3. Goto("drain", t)
    BY <1>5, <1>7
  <2> HIDE DEF t
  <2>4. Fits(t) /\ t.pending = c.pending /\ ~Unsent(t)
    BY <1>4, <1>6, <2>2, SameFacts DEF Same, Unsent
  <2>5. At("drain", "drain", t)
    BY DEF At, Reading, Filling
  <2> QED  BY <2>1, <2>3, <2>4, <2>5, GotoKeeps DEF Places
<1>8. CASE c.pending = 0
  BY <1>3, <1>4, <1>5, <1>6, <1>8, CloseKeeps
<1> QED  BY <1>1, <1>7, <1>8

LEMMA WouldBlockKeeps ==
  ASSUME IInv, WouldBlock
  PROVE  IInv'
<1>1. /\ TypeOK /\ c \in Conns /\ Fits(c) /\ At(pc, ret, c)
      /\ ret \in {"drain", "body"}
  BY ConnFacts DEF TypeOK
<1> DEFINE s == [c EXCEPT !.readDrained = FALSE]
<1>2. /\ pc' = ret /\ ret' = "drain" /\ c' = s /\ k' = Mod(k, "inout")
      /\ UNCHANGED <<env, job, doneCh>>
  BY DEF WouldBlock, Loop
<1>3. s \in Conns /\ Same(s, c)
  BY <1>1, ConnFlags, FlagsSame
<1> HIDE DEF s
<1>4. Fits(s) /\ s.pending = c.pending /\ Unsent(s) = Unsent(c)
  BY <1>1, <1>3, SameFacts
<1>5. At(ret, "drain", s)
  BY <1>1, <1>3 DEF Same, At, Reading, Filling
<1>6. ret \in Places
  BY <1>1 DEF Places
<1>7. k' \in Sockets /\ k'.rcvd <= k'.sent
  BY <1>1, <1>2, ModKeeps
<1> QED  BY <1>2, <1>3, <1>4, <1>5, <1>6, <1>7, MoveKeeps

\* A write of what the loop has unsent.
LEMMA TransferKeeps ==
  ASSUME IInv, pc = "send", Unsent(c), NEW bytes \in Parts, NEW s \in Conns,
         Transfer(bytes, s), s.inflight = c.inflight,
         s.bodyNeed = c.bodyNeed, s.readBuf = c.readBuf,
         s.bodyBuf = c.bodyBuf, s.pending = c.pending, s.header = c.header
  PROVE  IInv'
<1>1. /\ TypeOK /\ Fits(c) /\ At(pc, ret, c) /\ ret \in {"drain", "body"}
  BY ConnFacts DEF TypeOK
<1>2. /\ k' = AfterWrite(k, bytes) /\ c' = s /\ pc' = "send" /\ ret' = ret
      /\ UNCHANGED <<env, job, doneCh>>
  BY DEF Transfer
<1>3. k' \in Sockets /\ k'.rcvd <= k'.sent
  BY <1>1, <1>2, WriteKeeps
<1>4. Fits(s) /\ At("send", ret, s)
  BY <1>1 DEF Fits, At, Reading, Filling
<1> QED  BY <1>1, <1>2, <1>3, <1>4, MoveKeeps DEF Places

LEMMA DirectSendStep ==
  ASSUME IInv, DirectSend
  PROVE  IInv'
<1>1. /\ TypeOK /\ c \in Conns /\ c.sendBuf \in Parts /\ c.file \in Parts
      /\ pc = "send"
  BY ConnFacts DEF DirectSend
<1> DEFINE q == Rest(c.sendBuf, Wrote(k, c.sendBuf))
           f == Rest(c.file, Wrote(k, c.file))
           s == [c EXCEPT !.sendBuf = q]
           t == [c EXCEPT !.file = f]
<1>2. \/ Sent
      \/ failSend
      \/ WouldBlock
      \/ Unsent(c) /\ Transfer(c.sendBuf, s)
      \/ Unsent(c) /\ Transfer(c.file, t)
  <2>1. /\ s = [c EXCEPT !.sendBuf = Rest(@, Wrote(k, c.sendBuf))]
        /\ t = [c EXCEPT !.file = Rest(@, Wrote(k, c.file))]
    BY <1>1 DEF Conns
  <2> HIDE DEF s, t
  <2>2. CASE ~Unsent(c)
    BY <2>2 DEF DirectSend
  <2>3. CASE Unsent(c) /\ k.rst
    BY <2>3 DEF DirectSend
  <2>4. CASE Unsent(c) /\ ~k.rst
    BY <2>1, <2>4 DEF DirectSend
  <2> QED  BY <2>2, <2>3, <2>4
<1>3. CASE Sent        BY <1>3, SentKeeps
<1>4. CASE failSend    BY <1>4, FailSendKeeps
<1>5. CASE WouldBlock  BY <1>5, WouldBlockKeeps
<1>6. CASE Unsent(c) /\ Transfer(c.sendBuf, s)
  <2>1. Wrote(k, c.sendBuf) \in Nat
    BY <1>1, WriteKeeps, LenProperties DEF Parts
  <2>2. q \in Parts
    BY <1>1, <2>1, RestType DEF Parts
  <2> HIDE DEF q
  <2>3. s \in Conns
    BY <1>1, <2>2 DEF Conns
  <2>4. /\ s.inflight = c.inflight /\ s.bodyNeed = c.bodyNeed
        /\ s.readBuf = c.readBuf /\ s.bodyBuf = c.bodyBuf
        /\ s.pending = c.pending /\ s.header = c.header
    BY <1>1 DEF Conns
  <2> HIDE DEF s
  <2> QED  BY <1>1, <1>6, <2>3, <2>4, TransferKeeps
<1>7. CASE Unsent(c) /\ Transfer(c.file, t)
  <2>1. Wrote(k, c.file) \in Nat
    BY <1>1, WriteKeeps, LenProperties DEF Parts
  <2>2. f \in Parts
    BY <1>1, <2>1, RestType DEF Parts
  <2> HIDE DEF f
  <2>3. t \in Conns
    BY <1>1, <2>2 DEF Conns
  <2>4. /\ t.inflight = c.inflight /\ t.bodyNeed = c.bodyNeed
        /\ t.readBuf = c.readBuf /\ t.bodyBuf = c.bodyBuf
        /\ t.pending = c.pending /\ t.header = c.header
    BY <1>1 DEF Conns
  <2> HIDE DEF t
  <2> QED  BY <1>1, <1>7, <2>3, <2>4, TransferKeeps
<1> QED  BY <1>2, <1>3, <1>4, <1>5, <1>6, <1>7

LEMMA SpeculateStep ==
  ASSUME IInv, Speculate
  PROVE  IInv'
<1>1. /\ TypeOK /\ c \in Conns /\ Fits(c) /\ At(pc, ret, c)
      /\ BufCap \in Nat /\ pc = "speculate"
  BY ConnFacts DEF Speculate
<1>2. c.bodyNeed = 0 /\ c.pending = 0
  BY <1>1 DEF At, Reading
<1> DEFINE s == [c EXCEPT !.readSuppressed = FALSE, !.readDrained = FALSE]
           q == BytesRead(BufCap)
           b == Avail < BufCap
           t == [s EXCEPT !.readBuf = q, !.readDrained = b]
<1>3. s \in Conns /\ Same(s, c)
  BY <1>1, ConnFlags, FlagsSame
<1>4. \/ Continue("parse", t) /\ k' = AfterRead(BufCap)
      \/ Goto("drain", s)
  BY DEF Speculate, Loop
<1> HIDE DEF s
<1>5. Fits(s) /\ s.pending = 0 /\ s.bodyNeed = 0
  BY <1>1, <1>2, <1>3, SameFacts DEF Same
<1>6. CASE Continue("parse", t) /\ k' = AfterRead(BufCap)
  <2>1. q \in Bytes /\ Len(q) <= BufCap
    BY <1>1, ReadFacts
  <2>2. k' \in Sockets /\ k'.rcvd <= k'.sent
    BY <1>1, <1>6, ReadFacts
  <2>3. b \in BOOLEAN
    OBVIOUS
  <2> HIDE DEF q, b
  <2>4. t \in Conns
    BY <1>3, <2>1, <2>3 DEF Conns
  <2>5. /\ t.readBuf = q /\ t.pending = s.pending /\ t.header = s.header
        /\ t.bodyNeed = s.bodyNeed /\ t.bodyBuf = s.bodyBuf
        /\ t.inflight = s.inflight
    BY <1>3 DEF Conns
  <2> HIDE DEF t
  <2>6. Fits(t) /\ At("parse", "drain", t)
    BY <1>5, <2>1, <2>5 DEF Fits, At, Filling
  <2> QED
    BY <1>2, <1>5, <1>6, <2>2, <2>4, <2>5, <2>6, ContinueKeeps DEF Places
<1>7. CASE Goto("drain", s)
  <2>1. At("drain", "drain", s)
    BY DEF At, Reading, Filling
  <2> QED  BY <1>2, <1>3, <1>5, <1>7, <2>1, GotoKeeps DEF Places
<1> QED  BY <1>4, <1>6, <1>7

LEMMA HandleSendStep ==
  ASSUME IInv, HandleSend
  PROVE  IInv'
<1>1. TypeOK /\ c \in Conns /\ Fits(c)
  BY ConnFacts
<1> DEFINE s == [c EXCEPT !.readDrained = FALSE]
<1>2. s \in Conns /\ Same(s, c)
  BY <1>1, ConnFlags, FlagsSame
<1>3. Goto("send", s) \/ (Continue("drain", s) /\ k' = Mod(k, "in"))
  BY DEF HandleSend, Loop
<1> HIDE DEF s
<1>4. Fits(s) /\ s.pending = c.pending /\ Unsent(s) = Unsent(c)
  BY <1>1, <1>2, SameFacts
<1>5. At("send", "drain", s) /\ At("drain", "drain", s)
  BY DEF At, Reading, Filling
<1>6. CASE Goto("send", s)
  BY <1>2, <1>4, <1>5, <1>6, GotoKeeps DEF Places
<1>7. CASE Continue("drain", s) /\ k' = Mod(k, "in")
  <2>1. k' \in Sockets /\ k'.rcvd <= k'.sent
    BY <1>1, <1>7, ModKeeps
  <2> QED  BY <1>2, <1>4, <1>5, <1>7, <2>1, ContinueKeeps DEF Places
<1> QED  BY <1>3, <1>6, <1>7

-----------------------------------------------------------------------------
(* The handler goroutine. *)

\* A step of the client, or of a handler that goes on.
LEMMA SocketKeeps ==
  ASSUME IInv, UNCHANGED <<env, pc, ret, c, doneCh>>,
         k' \in Sockets, k'.rcvd <= k'.sent,
         \/ job' = job
         \/ job # <<>> /\ job' \in Jobs /\ job'.mode = job.mode
  PROVE  IInv'
<1>1. TypeOK'
  BY Frame DEF IInv, TypeOK
<1>2. Fits(c)' /\ At(pc, ret, c)'
  BY Frame DEF IInv, Fits, At
<1>3. Owes(c, job, doneCh)'
  <2>1. CASE job' = job
    BY <2>1 DEF IInv, Owes, Unsent
  <2>2. CASE job # <<>> /\ job' \in Jobs /\ job'.mode = job.mode
    <3>1. job' # <<>>
      BY <2>2, JobsNotEmpty, Frame
    <3> QED  BY <2>2, <3>1 DEF IInv, Owes, Unsent
  <2> QED  BY <2>1, <2>2
<1> QED  BY <1>1, <1>2, <1>3 DEF IInv

\* The handler reports.
LEMMA CompleteKeeps ==
  ASSUME IInv, job # <<>>, NEW m \in Completions, Complete(m),
         UNCHANGED <<env, pc, ret, c>>, k' \in Sockets, k'.rcvd <= k'.sent
  PROVE  IInv'
<1>1. job' = <<>> /\ doneCh' = Append(doneCh, m)
  BY DEF Complete
<1>2. doneCh \in Seq(Completions) /\ Len(doneCh) \in Nat
  BY LenProperties DEF IInv, TypeOK
<1>3. doneCh' \in Seq(Completions) /\ Len(doneCh') = Len(doneCh) + 1
  BY <1>1, <1>2, AppendProperties
<1>4. TypeOK'
  BY <1>1, <1>3, Frame DEF IInv, TypeOK
<1>5. Fits(c)' /\ At(pc, ret, c)'
  BY Frame DEF IInv, Fits, At
<1>6. c.pending = Len(doneCh) + 1
  BY DEF IInv, Owes
<1>7. Owes(c, job, doneCh)'
  BY <1>1, <1>2, <1>3, <1>6 DEF Owes
<1> QED  BY <1>4, <1>5, <1>7 DEF IInv

LEMMA HandlerReturnsStep ==
  ASSUME IInv, HandlerReturns
  PROVE  IInv'
<1>1. job # <<>> /\ UNCHANGED <<env, pc, ret, c>>
  BY DEF HandlerReturns
<1>2. TypeOK /\ k \in Sockets /\ k.rcvd <= k.sent /\ N \in Nat
  BY ConnFacts, ScenarioFacts
<1>3. job \in Jobs
  BY <1>1 DEF IInv, TypeOK
<1>4. job.i \in Nat /\ job.ka \in BOOLEAN
  BY <1>2, <1>3 DEF Jobs
<1> DEFINE resp == Response(job.i)
           n == IF job.mode = "write" /\ ~k.rst THEN Wrote(k, resp) ELSE 0
           d == Rest(resp, n)
           m == [data |-> d, ka |-> job.ka, file |-> FALSE]
<1>5. resp \in Parts
  BY <1>4, ResponseType
<1>6. /\ k' = IF n > 0 THEN AfterWrite(k, resp) ELSE k
      /\ Complete(m)
  BY DEF HandlerReturns
<1> HIDE DEF resp
<1>7. k' \in Sockets /\ k'.rcvd <= k'.sent
  BY <1>2, <1>5, <1>6, WriteKeeps
<1>8. n \in Nat
  <2>1. Wrote(k, resp) \in 0..Len(resp) /\ Len(resp) \in Nat
    BY <1>2, <1>5, WriteKeeps, LenProperties DEF Parts
  <2>2. Wrote(k, resp) \in Nat
    BY <2>1
  <2> QED  BY <2>2
<1> HIDE DEF n
<1>9. d \in Parts
  BY <1>5, <1>8, RestType DEF Parts
<1> HIDE DEF d
<1>10. m \in Completions
  BY <1>4, <1>9 DEF Completions
<1> HIDE DEF m
<1> QED  BY <1>1, <1>6, <1>7, <1>10, CompleteKeeps

LEMMA TakeoverServesStep ==
  ASSUME IInv, TakeoverServes
  PROVE  IInv'
<1>1. job # <<>> /\ UNCHANGED <<env, pc, ret, c, doneCh>>
  BY DEF TakeoverServes
<1>2. /\ TypeOK /\ Scenario(env) /\ k \in Sockets /\ k.rcvd <= k.sent
      /\ N \in Nat
  BY ConnFacts, ScenarioFacts
<1>3. job \in Jobs
  BY <1>1 DEF IInv, TypeOK
<1>4. job.i \in 1..N /\ job.i \in Nat /\ job.i + 1 \in Nat
  BY <1>2, <1>3 DEF Jobs
<1> DEFINE S == {n \in 1..Len(k.out) :
                   k.out[n][1] = job.i /\ k.out[n][2] > 0}
           due == Rest(Response(job.i), Cardinality(S))
<1>5. k.out \in Parts
  BY <1>2 DEF Sockets
<1>6. Len(k.out) \in Nat
  BY <1>5, LenProperties DEF Parts
<1>7. IsFiniteSet(S) /\ Cardinality(S) \in Nat
  <2>1. IsFiniteSet(1..Len(k.out))
    BY <1>6, FS_Interval
  <2>2. S \subseteq 1..Len(k.out)
    OBVIOUS
  <2> HIDE DEF S
  <2> QED  BY <2>1, <2>2, FS_Subset, FS_CardinalityType
<1>8. \/ k' = AfterWrite(k, due) /\ job' = job
      \/ /\ BetweenRequests /\ k' = k
         /\ job' = [job EXCEPT !.i = @ + 1, !.ka = Upcoming.ka]
      \/ k' = AfterWrite(k, <<<<job.i + 1, 0>>>>) /\ job' = job
  BY DEF TakeoverServes
<1>9. Response(job.i) \in Parts /\ <<<<job.i + 1, 0>>>> \in Parts
  BY <1>4, ResponseType
<1> HIDE DEF S
<1>10. due \in Parts
  BY <1>7, <1>9, RestType DEF Parts
<1> HIDE DEF due
<1>11. CASE k' = AfterWrite(k, due) /\ job' = job
  <2>1. k' \in Sockets /\ k'.rcvd <= k'.sent
    BY <1>2, <1>10, <1>11, WriteKeeps
  <2> QED  BY <1>1, <1>11, <2>1, SocketKeeps
<1>12. CASE /\ BetweenRequests /\ k' = k
            /\ job' = [job EXCEPT !.i = @ + 1, !.ka = Upcoming.ka]
  <2>1. job.i < N
    BY <1>12 DEF BetweenRequests
  <2>2. job.i + 1 \in 1..N
    BY <1>2, <1>4, <2>1
  <2>3. RequestOK(job.i + 1)
    BY <1>2, <2>2, RequestFacts
  <2>4. Upcoming.ka \in BOOLEAN
    BY <2>3, Zenon DEF RequestOK, Upcoming
  <2> DEFINE b == Upcoming.ka
  <2>5. job' = [job EXCEPT !.i = job.i + 1, !.ka = b]
    BY <1>3, <1>12 DEF Jobs
  <2> HIDE DEF b
  <2>6. job' \in Jobs /\ job'.mode = job.mode
    BY <1>3, <2>2, <2>4, <2>5 DEF Jobs, b
  <2>7. k' \in Sockets /\ k'.rcvd <= k'.sent
    BY <1>2, <1>12
  <2> QED  BY <1>1, <2>6, <2>7, SocketKeeps
<1>13. CASE k' = AfterWrite(k, <<<<job.i + 1, 0>>>>) /\ job' = job
  <2>1. k' \in Sockets /\ k'.rcvd <= k'.sent
    BY <1>2, <1>9, <1>13, WriteKeeps
  <2> QED  BY <1>1, <1>13, <2>1, SocketKeeps
<1> QED  BY <1>8, <1>11, <1>12, <1>13

LEMMA TakeoverBodyStep ==
  ASSUME IInv, TakeoverBody
  PROVE  IInv'
<1>1. /\ job # <<>> /\ job.i < N /\ UNCHANGED <<env, pc, ret, c, doneCh, k>>
      /\ \/ job' = [job EXCEPT !.need = Upcoming.body]
         \/ job' = [job EXCEPT !.i = @ + 1, !.ka = Upcoming.ka, !.need = 0]
  BY DEF TakeoverBody, BetweenRequests
<1>2. /\ TypeOK /\ Scenario(env) /\ k \in Sockets /\ k.rcvd <= k.sent
      /\ N \in Nat
  BY ConnFacts, ScenarioFacts
<1>3. job \in Jobs
  BY <1>1 DEF IInv, TypeOK
<1>4. job.i + 1 \in 1..N
  <2>1. job.i \in 1..N
    BY <1>3 DEF Jobs
  <2> QED  BY <1>1, <1>2, <2>1
<1>5. RequestOK(job.i + 1)
  BY <1>2, <1>4, RequestFacts
<1>6. Upcoming.ka \in BOOLEAN /\ Upcoming.body \in Nat
  BY <1>5, Zenon DEF RequestOK, Upcoming
<1> DEFINE b == Upcoming.ka
           n == Upcoming.body
<1>7. \/ job' = [job EXCEPT !.need = n]
      \/ job' = [job EXCEPT !.i = job.i + 1, !.ka = b, !.need = 0]
  BY <1>1, <1>3 DEF Jobs
<1>8. b \in BOOLEAN /\ n \in Nat
  BY <1>6
<1> HIDE DEF b, n
<1>9. job' \in Jobs /\ job'.mode = job.mode
  <2>1. CASE job' = [job EXCEPT !.need = n]
    BY <1>3, <1>8, <2>1 DEF Jobs
  <2>2. CASE job' = [job EXCEPT !.i = job.i + 1, !.ka = b, !.need = 0]
    BY <1>3, <1>4, <1>8, <2>2 DEF Jobs
  <2> QED  BY <1>7, <2>1, <2>2
<1>10. k' \in Sockets /\ k'.rcvd <= k'.sent
  BY <1>1, <1>2
<1> QED  BY <1>1, <1>9, <1>10, SocketKeeps

LEMMA FinishedKeeps ==
  ASSUME IInv, job # <<>>, Finished, UNCHANGED <<env, pc, ret, c>>,
         k' \in Sockets, k'.rcvd <= k'.sent
  PROVE  IInv'
<1> DEFINE m == [data |-> <<>>, ka |-> FALSE, file |-> TRUE]
<1>1. Complete(m)
  BY DEF Finished
<1>2. m \in Completions
  BY DEF Completions, Parts
<1> HIDE DEF m
<1> QED  BY <1>1, <1>2, CompleteKeeps

LEMMA TakeoverRefusesStep ==
  ASSUME IInv, TakeoverRefuses
  PROVE  IInv'
<1>1. /\ job # <<>> /\ Finished /\ UNCHANGED <<env, pc, ret, c>>
      /\ k' = AfterWrite(k, <<<<job.i + 1, 1>>>>)
  BY DEF TakeoverRefuses, BetweenRequests
<1>2. TypeOK /\ N \in Nat
  BY ConnFacts, ScenarioFacts
<1>3. job \in Jobs
  BY <1>1 DEF IInv, TypeOK
<1>4. job.i + 1 \in Nat
  BY <1>2, <1>3 DEF Jobs
<1>5. <<<<job.i + 1, 1>>>> \in Parts
  BY <1>4, ResponseType
<1>6. k' \in Sockets /\ k'.rcvd <= k'.sent
  BY <1>1, <1>2, <1>5, WriteKeeps
<1> QED  BY <1>1, <1>6, FinishedKeeps

LEMMA TakeoverEndsStep ==
  ASSUME IInv, TakeoverEnds
  PROVE  IInv'
<1>1. /\ job # <<>> /\ Finished /\ UNCHANGED <<env, pc, ret, c>> /\ k' = k
  BY DEF TakeoverEnds, TakeoverOver
<1>2. k' \in Sockets /\ k'.rcvd <= k'.sent
  BY <1>1, ConnFacts
<1> QED  BY <1>1, <1>2, FinishedKeeps

-----------------------------------------------------------------------------
(* ioLoop. *)

LEMMA HandleDoneStep ==
  ASSUME IInv, HandleDone
  PROVE  IInv'
<1>1. /\ doneCh # <<>> /\ doneCh' = Tail(doneCh)
      /\ ret' = "drain" /\ env' = env /\ job' = job
  BY DEF HandleDone, Loop
<1>2. /\ TypeOK /\ Scenario(env) /\ c \in Conns /\ Fits(c)
      /\ c.pending \in 0..1 /\ c.bodyNeed \in Nat
      /\ k \in Sockets /\ k.rcvd <= k.sent
  BY ConnFacts
<1>3. doneCh \in Seq(Completions) /\ Len(doneCh) \in Nat
  BY <1>2, LenProperties DEF TypeOK
<1>4. Len(doneCh) > 0
  BY <1>1, <1>3, EmptySeq
<1>5. c.pending = 1 /\ job = <<>> /\ Len(doneCh) = 1
  BY <1>2, <1>3, <1>4 DEF IInv, Owes
<1>6. c.bodyNeed = 0
  BY <1>2, <1>5 DEF Fits
<1>7. /\ Head(doneCh) \in Completions /\ doneCh' \in Seq(Completions)
      /\ Len(doneCh') = 0
  BY <1>1, <1>3, <1>5, HeadTailProperties
<1> DEFINE msg == Head(doneCh)
           s   == [c EXCEPT !.pending = 0]
           t   == [s EXCEPT !.keepAlive = msg.ka]
           o   == Queue(t, msg.data)
           z   == [s EXCEPT !.file = <<>>]
<1>8. msg.ka \in BOOLEAN /\ msg.data \in Parts
  BY <1>7 DEF Completions
<1>9. s \in Conns
  BY <1>2 DEF Conns
<1>10. /\ s.inflight = c.inflight /\ s.bodyNeed = 0 /\ s.pending = 0
       /\ s.readBuf = c.readBuf /\ s.bodyBuf = c.bodyBuf
  BY <1>2, <1>6 DEF Conns
<1>11. s = [c EXCEPT !.pending = @ - 1]
  BY <1>2, <1>5 DEF Conns
<1>12. \/ /\ pc' = "closed" /\ c' = z
          /\ k' = [k EXCEPT !.mask = "none", !.ready = FALSE]
       \/ pc' \in {"parse", "recv", "drain"} /\ c' = t /\ k' = k
       \/ pc' = "drain" /\ c' = o /\ k' = Mod(k, "inout")
  <2> DEFINE a == msg.file \/ c.closePending \/ (msg.data = <<>> /\ ~msg.ka)
             b == /\ ~msg.file /\ ~c.closePending
                  /\ msg.data = <<>> /\ msg.ka
  <2> HIDE DEF s
  <2>1. CASE a
    BY <1>11, <2>1 DEF HandleDone
  <2>2. CASE ~a /\ b
    BY <1>11, <2>2 DEF HandleDone, Loop
  <2>3. CASE ~a /\ ~b
    BY <1>11, <2>3 DEF HandleDone, Loop
  <2> QED  BY <2>1, <2>2, <2>3
<1> HIDE DEF s
<1>13. Fits(s)
  BY <1>2, <1>6, <1>10 DEF Fits
<1>14. t \in Conns /\ Same(t, s)
  BY <1>8, <1>9, ConnFlags, FlagsSame
<1>15. z \in Conns /\ z.bodyNeed = 0 /\ z.pending = 0 /\ Fits(z)
  <2>1. <<>> \in Parts
    BY DEF Parts
  <2>2. z \in Conns
    BY <1>9, <2>1 DEF Conns
  <2>3. /\ z.inflight = s.inflight /\ z.bodyNeed = 0 /\ z.pending = 0
        /\ z.readBuf = s.readBuf /\ z.bodyBuf = s.bodyBuf
    BY <1>9, <1>10 DEF Conns
  <2> HIDE DEF z
  <2>4. Fits(z)
    BY <1>10, <1>13, <2>3 DEF Fits
  <2> QED  BY <2>2, <2>3, <2>4
<1> HIDE DEF t, z, msg
<1>16. Fits(t) /\ t.pending = 0 /\ t.bodyNeed = 0
  BY <1>10, <1>13, <1>14, SameFacts DEF Same
<1>17. o \in Conns /\ Fits(o) /\ o.pending = 0 /\ o.bodyNeed = 0
  BY <1>8, <1>14, <1>16, QueueKeeps
<1> HIDE DEF o
<1>18. /\ k' \in Sockets /\ k'.rcvd <= k'.sent
  <2>1. CASE k' = [k EXCEPT !.mask = "none", !.ready = FALSE]
    BY <1>2, <2>1 DEF Sockets
  <2>2. CASE k' = Mod(k, "inout")
    BY <1>2, <2>2, ModKeeps
  <2> QED  BY <1>2, <1>12, <2>1, <2>2
<1>19. /\ c' \in Conns /\ c'.pending = 0 /\ c'.bodyNeed = 0
       /\ pc' \in {"closed", "parse", "recv", "drain"}
  BY <1>12, <1>14, <1>15, <1>16, <1>17
<1>20. Fits(c)'
  <2>1. Fits(c') = Fits(c)'
    BY <1>1, Frame DEF Fits
  <2>2. Fits(c')
    BY <1>12, <1>15, <1>16, <1>17
  <2> QED  BY <2>1, <2>2
<1>21. TypeOK'
  BY <1>1, <1>2, <1>5, <1>7, <1>18, <1>19, Frame DEF TypeOK, Places
<1>22. At(pc, ret, c)'
  BY <1>1, <1>19 DEF At, Filling
<1>23. Owes(c, job, doneCh)'
  BY <1>1, <1>5, <1>7, <1>19 DEF Owes
<1> QED  BY <1>20, <1>21, <1>22, <1>23 DEF IInv

LEMMA WaitStep ==
  ASSUME IInv, DoneChEmpty \/ Wait
  PROVE  IInv'
<1>1. TypeOK /\ c \in Conns /\ Fits(c) /\ k \in Sockets /\ k.rcvd <= k.sent
  BY ConnFacts
<1>2. \A p \in {"writable", "recv", "drain", "wait"} : At(p, "drain", c)
  BY DEF At, Reading, Filling
<1>3. CASE \E p \in {"drain", "wait"} : Goto(p, c)
  <2>1. PICK p \in {"drain", "wait"} : Goto(p, c)
    BY <1>3
  <2> QED  BY <1>1, <1>2, <2>1, GotoKeeps DEF Places
<1> DEFINE b == k.nospace \/ (k.mask = "inout" /\ k.space = 0)
           next == [k EXCEPT !.ready = FALSE, !.nospace = b]
           at == IF Writable(k) THEN "writable"
                 ELSE IF Readable(k) THEN "recv" ELSE "drain"
<1>4. CASE k' = next /\ Continue(at, c)
  <2>1. at \in {"writable", "recv", "drain"}
    OBVIOUS
  <2>2. b \in BOOLEAN
    OBVIOUS
  <2> HIDE DEF at, b
  <2>3. k' \in Sockets /\ k'.rcvd <= k'.sent
    BY <1>1, <1>4, <2>2 DEF Sockets
  <2>4. at \in Places /\ At(at, "drain", c)
    BY <1>2, <2>1 DEF Places
  <2> QED  BY <1>1, <1>4, <2>3, <2>4, ContinueKeeps
<1>5. CASE DoneChEmpty
  <2>1. Goto("wait", c)
    BY <1>5 DEF DoneChEmpty
  <2> QED  BY <1>3, <2>1
<1>6. CASE Wait
  <2>1. next = [k EXCEPT !.ready = FALSE,
                         !.nospace = @ \/ (k.mask = "inout" /\ k.space = 0)]
    BY <1>1 DEF Sockets
  <2>2. (k' = next /\ Continue(at, c)) \/ Goto("drain", c)
    <3> HIDE DEF next
    <3> QED  BY <1>6, <2>1 DEF Wait, Loop
  <2> QED  BY <1>3, <1>4, <2>2
<1> QED  BY <1>5, <1>6

LEMMA SweepStep ==
  ASSUME IInv, SweepTimeouts
  PROVE  IInv'
<1>1. c \in Conns /\ Fits(c) /\ c.pending = 0 /\ CloseConn(c)
  BY ConnFacts DEF SweepTimeouts
<1> QED  BY <1>1, CloseKeeps

LEMMA ClientKeeps ==
  ASSUME IInv, ClientStep
  PROVE  IInv'
<1>1. TypeOK /\ k \in Sockets /\ k.rcvd <= k.sent
  BY ConnFacts
<1>2. SendCap \in Nat
  BY <1>1, ScenarioFacts DEF TypeOK
<1>3. UNCHANGED <<env, pc, ret, c, job, doneCh>>
  BY DEF ClientStep, ClientSends, ClientReads, ClientFinishes, ClientResets
<1> DEFINE b == k.ready \/ k.mask # "none"
           d == k.ready \/ (k.mask = "inout" /\ k.nospace)
<1>4. b \in BOOLEAN /\ d \in BOOLEAN
  OBVIOUS
<1>5. \/ k' = [k EXCEPT !.sent = k.sent + 1, !.ready = b]
      \/ k' = [k EXCEPT !.space = SendCap, !.nospace = FALSE, !.ready = d]
      \/ k' = [k EXCEPT !.fin = TRUE, !.ready = b]
      \/ k' = [k EXCEPT !.rst = TRUE, !.ready = b]
  <2>1. CASE ClientSends
    BY <1>1, <2>1 DEF ClientSends, Sockets
  <2>2. CASE ClientReads
    BY <1>1, <2>2 DEF ClientReads, Sockets
  <2>3. CASE ClientFinishes
    BY <1>1, <2>3 DEF ClientFinishes, Sockets
  <2>4. CASE ClientResets
    BY <1>1, <2>4 DEF ClientResets, Sockets
  <2> QED  BY <2>1, <2>2, <2>3, <2>4 DEF ClientStep
<1> HIDE DEF b, d
<1>6. k' \in Sockets
  <2>1. SendCap \in 0..SendCap /\ k.sent + 1 \in Nat
    BY <1>1, <1>2 DEF Sockets
  <2> QED  BY <1>1, <1>4, <1>5, <2>1 DEF Sockets
<1>7. k'.rcvd <= k'.sent
  <2>1. k.rcvd \in Nat /\ k.sent \in Nat
    BY <1>1 DEF Sockets
  <2>2. k'.rcvd = k.rcvd /\ (k'.sent = k.sent \/ k'.sent = k.sent + 1)
    BY <1>1, <1>5 DEF Sockets
  <2> QED  BY <1>1, <2>1, <2>2
<1> QED  BY <1>3, <1>6, <1>7, SocketKeeps

-----------------------------------------------------------------------------
(* The stream: what has left the read buffer ends at a request's first byte, *)
(* or in the middle of the body that is being read.                          *)

\* The last byte that has left the read buffer.
Consumption(s, r) == r - Len(s.readBuf)

\* The bytes of the stream from f + 1 to r.
Between(f, r) == Span(f + 1, r)

\* The last byte of a request's header.
HeaderEnd(i) == Start[i] + script[i].hdr - 1

\* The body of request s.header is read up to byte f.
BodyTo(s, f) ==
  /\ s.bodyNeed = script[s.header].body
  /\ HeaderEnd(s.header) <= f
  /\ s.bodyBuf = Between(HeaderEnd(s.header), f)

BodyAt(s, f) ==
  BodyTo(s, f) /\ (Len(s.bodyBuf) < s.bodyNeed => s.readBuf = <<>>)

\* Byte f is the last one of a request, or comes before all of them.
Boundary(f) == \E j \in 1..(N + 1) : f + 1 = Start[j]

\* The conn s at place p, when the loop has read r bytes.
Flow(s, r, p) ==
  ~s.takenOver =>
    /\ Consumption(s, r) \in Nat
    /\ s.readBuf = Between(Consumption(s, r), r)
    /\ s.bodyNeed > 0 => BodyAt(s, Consumption(s, r))
    /\ s.bodyNeed = 0 /\ p # "closed" => Boundary(Consumption(s, r))
    /\ p \in {"accept", "speculate"} => s.readBuf = <<>>
    /\ p \in {"pipelined", "finish"} => Len(s.bodyBuf) = s.bodyNeed

SInv == IInv /\ k.sent <= Total /\ Flow(c, k.rcvd, pc)

LEMMA BetweenFacts ==
  ASSUME NEW f \in Nat, NEW r \in Nat, f <= r
  PROVE  /\ Between(f, r) \in Bytes /\ Len(Between(f, r)) = r - f
         /\ \A n \in 1..(r - f) : Between(f, r)[n] = f + n
<1> DEFINE m == r - f
<1>1. m \in Nat /\ r - (f + 1) + 1 = m
  OBVIOUS
<1>2. Between(f, r) = [n \in 1..m |-> (f + 1) + n - 1]
  BY <1>1 DEF Between, Span
<1> HIDE DEF m
<1>3. \A n \in 1..m : (f + 1) + n - 1 = f + n /\ f + n \in Nat
  BY <1>1
<1>4. Between(f, r) = [n \in 1..m |-> f + n]
  BY <1>2, <1>3
<1>5. Between(f, r) \in Bytes /\ Len(Between(f, r)) = m
  BY <1>1, <1>3, <1>4 DEF Bytes
<1>6. \A n \in 1..m : Between(f, r)[n] = f + n
  BY <1>4
<1> QED  BY <1>5, <1>6 DEF m

LEMMA BetweenEmpty ==
  ASSUME NEW f \in Nat
  PROVE  Between(f, f) = <<>>
<1>1. Between(f, f) \in Seq(Nat) /\ Len(Between(f, f)) = 0
  BY BetweenFacts DEF Bytes
<1> QED  BY <1>1, EmptySeq

LEMMA BetweenJoin ==
  ASSUME NEW f \in Nat, NEW g \in Nat, NEW r \in Nat, f <= g, g <= r
  PROVE  Between(f, g) \o Between(g, r) = Between(f, r)
<1> DEFINE x == Between(f, g)
           y == Between(g, r)
           z == Between(f, r)
<1>1. /\ x \in Seq(Nat) /\ Len(x) = g - f
      /\ \A n \in 1..(g - f) : x[n] = f + n
  BY BetweenFacts DEF Bytes
<1>2. /\ y \in Seq(Nat) /\ Len(y) = r - g
      /\ \A n \in 1..(r - g) : y[n] = g + n
  BY BetweenFacts DEF Bytes
<1>3. /\ z \in Seq(Nat) /\ Len(z) = r - f
      /\ \A n \in 1..(r - f) : z[n] = f + n
  <2>1. f <= r
    OBVIOUS
  <2> QED  BY <2>1, BetweenFacts DEF Bytes
<1> HIDE DEF x, y, z
<1>4. /\ x \o y \in Seq(Nat) /\ Len(x \o y) = Len(x) + Len(y)
      /\ \A i \in 1..(Len(x) + Len(y)) :
           (x \o y)[i] = IF i <= Len(x) THEN x[i] ELSE y[i - Len(x)]
  BY <1>1, <1>2, ConcatProperties
<1>5. Len(x \o y) = Len(z)
  BY <1>1, <1>2, <1>3, <1>4
<1>6. \A n \in 1..Len(z) : (x \o y)[n] = z[n]
  <2> SUFFICES ASSUME NEW n \in 1..Len(z) PROVE (x \o y)[n] = z[n]
    OBVIOUS
  <2>1. n \in Int /\ z[n] = f + n /\ n \in 1..(Len(x) + Len(y))
    BY <1>1, <1>2, <1>3
  <2>2. CASE n <= Len(x)
    <3>1. (x \o y)[n] = x[n]
      BY <1>4, <2>1, <2>2
    <3>2. x[n] = f + n
      BY <1>1, <2>1, <2>2
    <3> QED  BY <2>1, <3>1, <3>2
  <2>3. CASE n > Len(x)
    <3>1. (x \o y)[n] = y[n - Len(x)]
      <4>1. ~(n <= Len(x))
        BY <1>1, <2>1, <2>3
      <4> QED  BY <1>4, <2>1, <4>1
    <3>2. n - Len(x) \in 1..(r - g)
      BY <1>1, <1>2, <2>1, <2>3
    <3>3. y[n - Len(x)] = g + (n - Len(x))
      BY <1>2, <3>2
    <3> QED  BY <1>1, <2>1, <3>1, <3>3
  <2>4. n <= Len(x) \/ n > Len(x)
    BY <1>1, <2>1
  <2> QED  BY <2>2, <2>3, <2>4
<1>7. x \o y = z
  BY <1>3, <1>4, <1>5, <1>6, SeqEqual
<1> QED  BY <1>7 DEF x, y, z

LEMMA BetweenSplit ==
  ASSUME NEW f \in Nat, NEW g \in Nat, NEW r \in Nat, f <= g, g <= r
  PROVE  /\ SubSeq(Between(f, r), 1, g - f) = Between(f, g)
         /\ Rest(Between(f, r), g - f) = Between(g, r)
<1> DEFINE t == g - f
           x == Between(f, r)
           y == Between(f, g)
           z == Between(g, r)
<1>1. t \in Nat /\ t <= r - f /\ g = f + t /\ f <= r
  OBVIOUS
<1>2. /\ x \in Seq(Nat) /\ Len(x) = r - f
      /\ \A n \in 1..(r - f) : x[n] = f + n
  BY <1>1, BetweenFacts DEF Bytes
<1>3. /\ y \in Seq(Nat) /\ Len(y) = t
      /\ \A n \in 1..t : y[n] = f + n
  BY BetweenFacts DEF Bytes
<1>4. /\ z \in Seq(Nat) /\ Len(z) = r - g
      /\ \A n \in 1..(r - g) : z[n] = g + n
  BY BetweenFacts DEF Bytes
<1> HIDE DEF t, x, y, z
<1>5. SubSeq(x, 1, t) = y
  <2>1. /\ SubSeq(x, 1, t) \in Seq(Nat) /\ Len(SubSeq(x, 1, t)) = t
        /\ \A n \in 1..t : SubSeq(x, 1, t)[n] = x[n]
    BY <1>1, <1>2, SubSeqProperties
  <2>2. \A n \in 1..t : SubSeq(x, 1, t)[n] = y[n]
    BY <1>1, <1>2, <1>3, <2>1
  <2> QED  BY <1>3, <2>1, <2>2, SeqEqual
<1>6. Rest(x, t) = z
  <2> DEFINE w == SubSeq(x, t + 1, Len(x))
  <2>1. /\ w \in Seq(Nat) /\ Len(w) = r - g
        /\ \A n \in 1..(r - g) : w[n] = x[t + n]
    BY <1>1, <1>2, SubSeqProperties
  <2> HIDE DEF w
  <2>2. \A n \in 1..Len(z) : w[n] = z[n]
    <3> SUFFICES ASSUME NEW n \in 1..Len(z) PROVE w[n] = z[n]
      OBVIOUS
    <3>1. n \in 1..(r - g) /\ t + n \in 1..(r - f)
      BY <1>1, <1>4
    <3>2. w[n] = x[t + n] /\ x[t + n] = f + (t + n)
      BY <1>2, <2>1, <3>1
    <3>3. z[n] = g + n
      BY <1>4, <3>1
    <3> QED  BY <1>1, <3>1, <3>2, <3>3
  <2>3. w = z
    BY <1>4, <2>1, <2>2, SeqEqual
  <2> QED  BY <2>3 DEF w, Rest
<1> QED  BY <1>5, <1>6 DEF t, x, y, z

\* Where the requests of the stream lie.
LEMMA LayoutFacts ==
  ASSUME Scenario(env)
  PROVE  /\ 1 \in 1..(N + 1) /\ Start[1] = 1
         /\ \A j \in 1..(N + 1) : Start[j] \in Nat /\ Start[j] > 0
         /\ \A i \in 1..N :
              /\ Start[i + 1] = Start[i] + script[i].hdr + script[i].body
              /\ i + 1 \in 1..(N + 1) /\ i \in 1..(N + 1)
              /\ \A j \in (i + 1)..(N + 1) : Start[i + 1] <= Start[j]
         /\ Total \in Nat
<1>1. LaidOut(script, Start) /\ N = Len(script)
  BY DEF Scenario, script, Start, N
<1>2. N \in Nat \ {0}
  BY ScenarioFacts
<1>3. /\ Start[1] = 1 /\ \A j \in 1..(N + 1) : Start[j] \in Nat
      /\ \A i \in 1..N :
           /\ Start[i + 1] = Start[i] + script[i].hdr + script[i].body
           /\ \A j \in (i + 1)..(N + 1) : Start[i + 1] <= Start[j]
  BY <1>1 DEF LaidOut
<1>4. \A i \in 1..N : i + 1 \in 1..(N + 1) /\ i \in 1..(N + 1)
  BY <1>2
<1>5. 1 \in 1..N /\ 1 \in 1..(N + 1) /\ 2 \in 1..(N + 1)
  BY <1>2
<1>6. Start[2] > 0
  <2>1. RequestOK(1)
    BY <1>5, RequestFacts
  <2>2. script[1].hdr \in Nat /\ script[1].body \in Nat
    BY <2>1, Zenon DEF RequestOK
  <2>3. Start[1 + 1] = Start[1] + script[1].hdr + script[1].body
    BY <1>3, <1>5
  <2> QED  BY <1>3, <2>2, <2>3
<1>7. \A j \in 1..(N + 1) : Start[j] > 0
  <2> SUFFICES ASSUME NEW j \in 1..(N + 1) PROVE Start[j] > 0
    OBVIOUS
  <2>1. CASE j = 1
    BY <1>3, <2>1
  <2>2. CASE j > 1
    <3>1. j \in (1 + 1)..(N + 1)
      BY <1>2, <2>2
    <3>2. Start[1 + 1] <= Start[j]
      BY <1>3, <1>5, <3>1
    <3> QED  BY <1>3, <1>5, <1>6, <3>2
  <2> QED  BY <1>2, <2>1, <2>2
<1>8. Total \in Nat
  <2>1. N + 1 \in 1..(N + 1)
    BY <1>2
  <2>2. Start[N + 1] \in Nat /\ Start[N + 1] > 0
    BY <1>3, <1>7, <2>1
  <2> QED  BY <2>2 DEF Total, End
<1> QED  BY <1>3, <1>4, <1>5, <1>7, <1>8

LEMMA RequestAtStart ==
  ASSUME Scenario(env), NEW j \in 1..N
  PROVE  RequestAt(Start[j]) = j
<1> DEFINE p == Start[j]
           holds(i) == Start[i] <= p /\ p <= End(i)
<1>1. N \in Nat /\ j \in Nat
  BY ScenarioFacts
<1>2. /\ \A i \in 1..(N + 1) : Start[i] \in Nat
      /\ \A i \in 1..N : i \in 1..(N + 1) /\ i + 1 \in 1..(N + 1)
      /\ \A i \in 1..N : \A m \in (i + 1)..(N + 1) : Start[i + 1] <= Start[m]
  BY LayoutFacts
<1>3. Start[j + 1] = Start[j] + script[j].hdr + script[j].body
  BY LayoutFacts
<1>4. RequestOK(j)
  BY RequestFacts
<1>5. /\ script[j].hdr \in Nat /\ script[j].hdr > 0 /\ script[j].body \in Nat
  BY <1>4, Zenon DEF RequestOK
<1>6. p \in Nat /\ Start[j + 1] \in Nat /\ p < Start[j + 1]
  <2>1. p \in Nat /\ Start[j + 1] \in Nat
    BY <1>2
  <2>2. Start[j + 1] = p + script[j].hdr + script[j].body
    BY <1>3
  <2> HIDE DEF p
  <2> QED  BY <1>5, <2>1, <2>2
<1>7. holds(j)
  <2>1. End(j) = Start[j + 1] - 1
    BY DEF End
  <2> QED  BY <1>6, <2>1
<1>8. ASSUME NEW i \in 1..N, holds(i)
      PROVE  i = j
  <2>1. Start[i] <= p /\ p <= Start[i + 1] - 1
    BY <1>8 DEF End
  <2>2. /\ i \in Nat /\ Start[i] \in Nat /\ Start[i + 1] \in Nat
    BY <1>1, <1>2
  <2>3. CASE i < j
    <3>1. j \in (i + 1)..(N + 1)
      BY <1>1, <2>2, <2>3
    <3>2. Start[i + 1] <= p
      BY <1>2, <3>1
    <3> QED  BY <1>6, <2>1, <2>2, <3>2
  <2>4. CASE j < i
    <3>1. i \in (j + 1)..(N + 1)
      BY <1>1, <2>2, <2>4
    <3>2. Start[j + 1] <= Start[i]
      BY <1>2, <3>1
    <3> QED  BY <1>6, <2>1, <2>2, <3>2
  <2> QED  BY <1>1, <2>2, <2>3, <2>4
<1>9. RequestAt(p)
        = CHOOSE i \in 1..N : (\E m \in 1..N : holds(m)) => holds(i)
  BY DEF RequestAt
<1> HIDE DEF holds, p
<1>10. \A i \in 1..N :
         ((\E m \in 1..N : holds(m)) => holds(i)) <=> (i = j)
  BY <1>7, <1>8
<1>11. RequestAt(p) = j
  BY <1>9, <1>10
<1> QED  BY <1>11 DEF p

\* s and t hold the same input.
Input(s, t) ==
  /\ s.readBuf = t.readBuf /\ s.bodyNeed = t.bodyNeed
  /\ s.bodyBuf = t.bodyBuf /\ s.header = t.header
  /\ s.takenOver = t.takenOver

InStream == k.sent <= Total /\ Flow(c, k.rcvd, pc)

\* What the place p asks of the input.
Suits(s, p) ==
  /\ p \in {"accept", "speculate"} => s.readBuf = <<>>
  /\ p \in {"pipelined", "finish"} => Len(s.bodyBuf) = s.bodyNeed

LEMMA FlowFrame ==
  ASSUME SInv, env' = env, NEW s, NEW r, NEW p, c' = s, k'.rcvd = r,
         pc' = p, k'.sent = k.sent, Flow(s, r, p)
  PROVE  InStream'
<1>1. /\ N' = N /\ Start' = Start /\ script' = script /\ Total' = Total
  BY DEF N, Start, script, Total, End
<1>2. k'.sent <= Total'
  BY <1>1 DEF SInv
<1>3. \A f : Boundary(f)' = Boundary(f)
  BY <1>1 DEF Boundary
<1>4. \A t, f : BodyAt(t, f)' = BodyAt(t, f)
  BY <1>1 DEF BodyAt, BodyTo, HeaderEnd
<1>5. Flow(s, r, p)'
  BY <1>3, <1>4 DEF Flow, Consumption
<1>6. Flow(c, k.rcvd, pc)'
  BY <1>3, <1>4, <1>5 DEF Flow, Consumption
<1> QED  BY <1>2, <1>6 DEF InStream

\* The same input at another place.
LEMMA FlowInput ==
  ASSUME NEW s, NEW t, NEW r, NEW p, NEW q, Flow(t, r, q), Input(s, t),
         p # "closed" => q # "closed", Suits(t, p)
  PROVE  Flow(s, r, p)
<1> SUFFICES ASSUME ~s.takenOver
             PROVE  Flow(s, r, p)
  BY DEF Flow
<1>1. ~t.takenOver
  BY DEF Input
<1>2. Consumption(s, r) = Consumption(t, r)
  BY DEF Input, Consumption
<1>3. BodyAt(t, Consumption(t, r)) => BodyAt(s, Consumption(t, r))
  BY DEF Input, BodyAt, BodyTo
<1> QED  BY <1>1, <1>2, <1>3 DEF Flow, Input, Suits

LEMMA GotoFlow ==
  ASSUME SInv, NEW p, NEW s, Goto(p, s), Flow(s, k.rcvd, p)
  PROVE  InStream'
<1>1. env' = env /\ c' = s /\ pc' = p /\ k' = k
  BY DEF Goto, Continue
<1> QED  BY <1>1, FlowFrame

LEMMA MoveFlow ==
  ASSUME SInv, NEW p, NEW s, pc # "closed", Input(s, c), Suits(c, p),
         pc' = p, c' = s, env' = env, k'.rcvd = k.rcvd, k'.sent = k.sent
  PROVE  InStream'
<1>1. Flow(c, k.rcvd, pc)
  BY DEF SInv
<1>2. Flow(s, k.rcvd, p)
  BY <1>1, FlowInput
<1> QED  BY <1>2, FlowFrame

\* The handlers go on with the input they have.
LEMMA GoFlow ==
  ASSUME SInv, NEW p, NEW s, Goto(p, s), pc # "closed", Input(s, c),
         Suits(c, p)
  PROVE  InStream'
<1>1. env' = env /\ c' = s /\ pc' = p /\ k' = k
  BY DEF Goto, Continue
<1> QED  BY <1>1, MoveFlow

LEMMA CloseFlow ==
  ASSUME SInv, NEW s \in Conns, CloseConn(s), s.readBuf = c.readBuf,
         s.takenOver = c.takenOver
  PROVE  InStream'
<1>1. k \in Sockets /\ c \in Conns
  BY DEF SInv, IInv, TypeOK
<1>2. /\ env' = env /\ pc' = "closed"
      /\ k' = [k EXCEPT !.mask = "none", !.ready = FALSE]
  BY DEF CloseConn
<1>3. k'.rcvd = k.rcvd /\ k'.sent = k.sent
  BY <1>1, <1>2 DEF Sockets
<1>4. /\ c'.readBuf = c.readBuf /\ c'.takenOver = c.takenOver
      /\ c'.bodyNeed = 0
  BY DEF CloseConn, Conns
<1>5. Flow(c', k.rcvd, "closed")
  BY <1>4 DEF SInv, Flow, Consumption
<1> QED  BY <1>2, <1>3, <1>5, FlowFrame

LEMMA QueueInput ==
  ASSUME NEW s \in Conns, NEW bytes
  PROVE  Input(Queue(s, bytes), s)
  BY DEF Input, Queue, Conns

LEMMA FlagsInput ==
  ASSUME NEW s \in Conns, NEW b, NEW d
  PROVE  /\ Input(s, s)
         /\ Input([s EXCEPT !.readDrained = b], s)
         /\ Input([s EXCEPT !.keepAlive = b], s)
         /\ Input([s EXCEPT !.readSuppressed = b], s)
         /\ Input([s EXCEPT !.readSuppressed = b, !.readDrained = d], s)
         /\ Input([s EXCEPT !.deadline = b, !.readDrained = d], s)
  BY DEF Input, Conns

LEMMA InputTransitive ==
  ASSUME NEW s, NEW t, NEW u, Input(s, t), Input(t, u)
  PROVE  Input(s, u)
  BY DEF Input

LEMMA ParseEndFlow ==
  ASSUME SInv, NEW s, ParseEnd(s), pc # "closed", Input(s, c)
  PROVE  InStream'
<1>1. PICK p \in {"send", "drain"} : Goto(p, s)
  BY DEF ParseEnd, Loop
<1>2. Suits(c, p)
  BY DEF Suits
<1> QED  BY <1>1, <1>2, GoFlow

LEMMA RefuseFlow ==
  ASSUME SInv, NEW s \in Conns, NEW i, writeAndClose(s, i), pc # "closed",
         Input(s, c)
  PROVE  InStream'
<1> DEFINE t == [s EXCEPT !.keepAlive = FALSE]
           q == Queue(t, <<<<i, 1>>>>)
<1>1. Goto("send", q)
  BY DEF writeAndClose
<1>2. t \in Conns /\ Input(t, s)
  BY ConnFlags, FlagsInput
<1> HIDE DEF t
<1>3. Input(q, t)
  BY <1>2, QueueInput
<1>4. Input(q, c)
  BY <1>2, <1>3, InputTransitive
<1> HIDE DEF q
<1>5. Suits(c, "send")
  BY DEF Suits
<1> QED  BY <1>1, <1>4, <1>5, GoFlow

LEMMA ReadSpan ==
  ASSUME TypeOK, NEW room \in Nat
  PROVE  LET r == k.rcvd + SmallerOf(Avail, room)
         IN  /\ BytesRead(room) = Between(k.rcvd, r)
             /\ r \in Nat /\ k.rcvd \in Nat /\ k.rcvd <= r
             /\ AfterRead(room).rcvd = r /\ AfterRead(room).sent = k.sent
<1> DEFINE n == SmallerOf(Avail, room)
           r == k.rcvd + n
<1>1. k \in Sockets /\ k.rcvd \in Nat
  BY DEF TypeOK, Sockets
<1>2. n \in 0..room
  BY ReadFacts
<1>3. BytesRead(room) = [j \in 1..n |-> k.rcvd + j]
  BY DEF BytesRead
<1>4. AfterRead(room) = [k EXCEPT !.rcvd = r]
  BY DEF AfterRead
<1> HIDE DEF n
<1>5. n \in Nat /\ r \in Nat /\ k.rcvd <= r /\ r - (k.rcvd + 1) + 1 = n
  BY <1>1, <1>2
<1>6. Between(k.rcvd, r) = [j \in 1..n |-> (k.rcvd + 1) + j - 1]
  BY <1>5 DEF Between, Span
<1>7. \A j \in 1..n : (k.rcvd + 1) + j - 1 = k.rcvd + j
  BY <1>1
<1>8. BytesRead(room) = Between(k.rcvd, r)
  BY <1>3, <1>6, <1>7
<1> HIDE DEF r
<1>9. AfterRead(room).rcvd = r /\ AfterRead(room).sent = k.sent
  BY <1>1, <1>4 DEF Sockets
<1> QED  BY <1>1, <1>5, <1>8, <1>9 DEF r, n

\* What the loop knows of its read buffer.
LEMMA BufferFacts ==
  ASSUME SInv, ~c.takenOver
  PROVE  LET f == Consumption(c, k.rcvd)
         IN  /\ f \in Nat /\ f <= k.rcvd /\ k.rcvd \in Nat
             /\ c.readBuf = Between(f, k.rcvd)
             /\ Len(c.readBuf) = k.rcvd - f
<1> DEFINE f == Consumption(c, k.rcvd)
           n == Len(c.readBuf)
<1>1. c.readBuf \in Bytes /\ k.rcvd \in Nat
  BY DEF SInv, IInv, TypeOK, Conns, Sockets
<1>2. n \in Nat
  BY <1>1, LenProperties DEF Bytes
<1>3. f \in Nat /\ c.readBuf = Between(f, k.rcvd)
  BY DEF SInv, Flow
<1>4. f = k.rcvd - n
  BY DEF Consumption
<1> HIDE DEF f, n
<1>5. f <= k.rcvd /\ n = k.rcvd - f
  BY <1>1, <1>2, <1>3, <1>4
<1> QED  BY <1>1, <1>3, <1>5 DEF f, n

\* Bytes read behind the read buffer continue it.
LEMMA AppendFlow ==
  ASSUME SInv, NEW room \in Nat, NEW t, ~c.takenOver,
         t.readBuf = c.readBuf \o BytesRead(room)
  PROVE  LET r == k.rcvd + SmallerOf(Avail, room)
         IN  /\ Consumption(t, r) = Consumption(c, k.rcvd)
             /\ Consumption(t, r) \in Nat /\ Consumption(t, r) <= r
             /\ r \in Nat /\ t.readBuf = Between(Consumption(t, r), r)
<1> DEFINE r == k.rcvd + SmallerOf(Avail, room)
           f == Consumption(c, k.rcvd)
           g == k.rcvd
<1>1. TypeOK
  BY DEF SInv, IInv
<1>2. BytesRead(room) = Between(g, r) /\ r \in Nat /\ g \in Nat /\ g <= r
  BY <1>1, ReadSpan
<1>3. f \in Nat /\ f <= g /\ c.readBuf = Between(f, g)
  BY BufferFacts
<1> HIDE DEF r, f, g
<1>4. t.readBuf = Between(f, r)
  <2>1. Between(f, g) \o Between(g, r) = Between(f, r)
    BY <1>2, <1>3, BetweenJoin
  <2> QED  BY <1>2, <1>3, <2>1
<1>5. f <= r
  BY <1>2, <1>3
<1>6. Len(t.readBuf) = r - f
  BY <1>2, <1>3, <1>4, <1>5, BetweenFacts
<1>7. Consumption(t, r) = f
  BY <1>2, <1>3, <1>6 DEF Consumption
<1> QED  BY <1>2, <1>3, <1>4, <1>5, <1>7 DEF r, f

\* A read that leaves the body alone.
LEMMA ReadFlow ==
  ASSUME SInv, pc # "closed", NEW room \in Nat, NEW t,
         NEW p \in {"parse", "pipelined"},
         t.readBuf = c.readBuf \o BytesRead(room),
         t.bodyNeed = c.bodyNeed, t.bodyBuf = c.bodyBuf,
         t.header = c.header, t.takenOver = c.takenOver,
         c.bodyNeed = 0 \/ Len(c.bodyBuf) = c.bodyNeed,
         p = "pipelined" => Len(c.bodyBuf) = c.bodyNeed,
         Continue(p, t), k' = AfterRead(room)
  PROVE  InStream'
<1> DEFINE r == k.rcvd + SmallerOf(Avail, room)
<1>1. TypeOK /\ Flow(c, k.rcvd, pc) /\ c.bodyNeed \in Nat
  BY DEF SInv, IInv, TypeOK, Conns
<1>2. k'.rcvd = r /\ k'.sent = k.sent
  BY <1>1, ReadSpan
<1>3. env' = env /\ c' = t /\ pc' = p
  BY DEF Continue
<1>4. Flow(t, r, p)
  <2> SUFFICES ASSUME ~c.takenOver PROVE Flow(t, r, p)
    BY DEF Flow
  <2>1. /\ Consumption(t, r) = Consumption(c, k.rcvd)
        /\ Consumption(t, r) \in Nat
        /\ t.readBuf = Between(Consumption(t, r), r)
    BY AppendFlow
  <2> HIDE DEF r
  <2>2. t.bodyNeed > 0 => BodyAt(t, Consumption(t, r))
    <3> SUFFICES ASSUME t.bodyNeed > 0 PROVE BodyAt(t, Consumption(t, r))
      OBVIOUS
    <3>1. BodyAt(c, Consumption(c, k.rcvd))
      BY <1>1 DEF Flow
    <3>2. ~(Len(t.bodyBuf) < t.bodyNeed)
      BY <1>1
    <3> QED  BY <2>1, <3>1, <3>2 DEF BodyAt, BodyTo
  <2>3. t.bodyNeed = 0 => Boundary(Consumption(t, r))
    BY <1>1, <2>1 DEF Flow
  <2> QED  BY <2>1, <2>2, <2>3 DEF Flow
<1> QED  BY <1>2, <1>3, <1>4, FlowFrame

LEMMA HeaderEndFacts ==
  ASSUME Scenario(env), NEW i \in 1..N
  PROVE  /\ HeaderEnd(i) \in Nat /\ Start[i] \in Nat /\ Start[i] > 0
         /\ HeaderEnd(i) = Start[i] - 1 + script[i].hdr
         /\ Start[i + 1] = HeaderEnd(i) + script[i].body + 1
<1>1. RequestOK(i)
  BY RequestFacts
<1>2. script[i].hdr \in Nat /\ script[i].hdr > 0 /\ script[i].body \in Nat
  BY <1>1, Zenon DEF RequestOK
<1>3. /\ Start[i] \in Nat /\ Start[i] > 0
      /\ Start[i + 1] = Start[i] + script[i].hdr + script[i].body
  BY LayoutFacts
<1> DEFINE a == Start[i]
           h == script[i].hdr
           b == script[i].body
<1>4. HeaderEnd(i) = a + h - 1 /\ Start[i + 1] = a + h + b
  BY <1>3 DEF HeaderEnd
<1>5. a \in Nat /\ a > 0 /\ h \in Nat /\ b \in Nat
  BY <1>2, <1>3
<1> HIDE DEF a, h, b
<1>6. /\ HeaderEnd(i) \in Nat /\ HeaderEnd(i) = a - 1 + h
      /\ Start[i + 1] = HeaderEnd(i) + b + 1
  BY <1>4, <1>5
<1> QED  BY <1>5, <1>6 DEF a, h, b

\* Bytes f+1 to r are given to a body that is read up to byte f.
LEMMA AccumulateFlow ==
  ASSUME Scenario(env), NEW s \in Conns, Fits(s), s.bodyNeed > 0,
         NEW f \in Nat, NEW r \in Nat, f <= r, NEW bytes,
         bytes = Between(f, r), BodyTo(s, f)
  PROVE  LET t == Accumulate(s, bytes)
         IN  /\ Consumption(t, r) \in Nat
             /\ t.readBuf = Between(Consumption(t, r), r)
             /\ BodyAt(t, Consumption(t, r))
             /\ t.bodyNeed = s.bodyNeed /\ t.takenOver = s.takenOver
<1> DEFINE e == HeaderEnd(s.header)
           l == Len(s.bodyBuf)
           need == s.bodyNeed
           take == SmallerOf(need - l, Len(bytes))
           g == f + take
           b == s.bodyBuf \o SubSeq(bytes, 1, take)
           q == Rest(bytes, take)
           t == [s EXCEPT !.bodyBuf = b, !.readBuf = q]
<1>1. Accumulate(s, bytes) = t
  BY DEF Accumulate, Conns
<1>2. need \in Nat /\ l \in Nat /\ l <= need
  BY LenProperties DEF Conns, Bytes, Fits
<1>3. bytes \in Bytes /\ Len(bytes) = r - f
  BY BetweenFacts
<1>4. s.header \in 1..N /\ e \in Nat
  <2>1. s.header \in 0..N /\ s.header > 0 /\ N \in Nat
    BY ScenarioFacts DEF Fits, Conns
  <2>2. s.header \in 1..N
    BY <2>1
  <2> QED  BY <2>2, HeaderEndFacts
<1>5. /\ need = script[s.header].body
      /\ e <= f /\ s.bodyBuf = Between(e, f)
  BY DEF BodyTo
<1> HIDE DEF e
<1>6. l = f - e
  BY <1>4, <1>5, BetweenFacts
<1> HIDE DEF l, need
<1>7. /\ take \in Nat /\ take <= r - f /\ take <= need - l
      /\ take = r - f \/ take = need - l
  BY <1>2, <1>3 DEF SmallerOf
<1> HIDE DEF take
<1>8. g \in Nat /\ f <= g /\ g <= r /\ take = g - f
  BY <1>7
<1> HIDE DEF g
<1>9. SubSeq(bytes, 1, take) = Between(f, g) /\ q = Between(g, r)
  BY <1>8, BetweenSplit
<1>10. Len(q) = r - g
  BY <1>8, <1>9, BetweenFacts
<1>11. b = Between(e, g)
  BY <1>4, <1>5, <1>8, <1>9, BetweenJoin
<1>12. e <= g
  BY <1>4, <1>5, <1>8
<1>13. Len(b) = g - e
  BY <1>4, <1>8, <1>11, <1>12, BetweenFacts
<1> HIDE DEF b, q
<1>14. /\ t.readBuf = q /\ t.bodyBuf = b /\ t.bodyNeed = need
       /\ t.header = s.header /\ t.takenOver = s.takenOver
  BY DEF Conns, need
<1> HIDE DEF t
<1>15. Consumption(t, r) = g
  BY <1>8, <1>10, <1>14 DEF Consumption
<1>16. Len(t.bodyBuf) < t.bodyNeed => t.readBuf = <<>>
  <2> SUFFICES ASSUME Len(b) < need PROVE q = <<>>
    BY <1>14
  <2>1. g - e < need
    BY <1>13
  <2>2. take # need - l
    BY <1>2, <1>4, <1>6, <1>8, <2>1
  <2>3. g = r
    BY <1>7, <1>8, <2>2
  <2> QED  BY <1>9, <2>3, BetweenEmpty
<1>17. BodyTo(t, g)
  BY <1>5, <1>11, <1>12, <1>14 DEF BodyTo, e
<1>18. BodyAt(t, Consumption(t, r))
  BY <1>15, <1>16, <1>17 DEF BodyAt
<1>19. t.bodyNeed = s.bodyNeed
  BY <1>14 DEF need
<1> QED  BY <1>1, <1>8, <1>9, <1>14, <1>15, <1>18, <1>19
\* A conn that a takeover handler owns has no stream of the loop's.
LEMMA TakenFlow ==
  ASSUME SInv, env' = env, k'.sent = k.sent, c'.takenOver
  PROVE  InStream'
<1>1. Flow(c', k'.rcvd, pc')
  BY DEF Flow
<1> QED  BY <1>1, FlowFrame

LEMMA SInvFacts ==
  ASSUME SInv
  PROVE  /\ IInv /\ TypeOK /\ Scenario(env) /\ c \in Conns /\ Fits(c)
         /\ At(pc, ret, c) /\ BufCap \in Nat /\ c.bodyNeed \in Nat
         /\ c.readBuf \in Bytes /\ Len(c.readBuf) \in 0..BufCap
         /\ k \in Sockets /\ k.rcvd \in Nat /\ Flow(c, k.rcvd, pc)
<1>1. IInv /\ Flow(c, k.rcvd, pc)
  BY DEF SInv
<1>2. /\ TypeOK /\ Scenario(env) /\ c \in Conns /\ Fits(c)
      /\ At(pc, ret, c) /\ BufCap \in Nat /\ c.bodyNeed \in Nat
      /\ c.readBuf \in Bytes /\ Len(c.readBuf) \in 0..BufCap
      /\ k \in Sockets
  BY <1>1, ConnFacts
<1>3. k.rcvd \in Nat
  BY <1>2 DEF Sockets
<1> QED  BY <1>1, <1>2, <1>3

\* A read into an empty read buffer (handleAccept, directSend).
LEMMA FirstReadFlow ==
  ASSUME SInv, pc \in {"accept", "speculate"}, NEW t,
         t.readBuf = BytesRead(BufCap), t.bodyNeed = c.bodyNeed,
         t.bodyBuf = c.bodyBuf, t.header = c.header,
         t.takenOver = c.takenOver, Continue("parse", t),
         k' = AfterRead(BufCap)
  PROVE  InStream'
<1>1. /\ TypeOK /\ Flow(c, k.rcvd, pc) /\ BufCap \in Nat /\ At(pc, ret, c)
  BY SInvFacts
<1>2. c.bodyNeed = 0
  BY <1>1 DEF At, Reading
<1>3. CASE c.takenOver
  <2>1. k'.sent = k.sent
    BY <1>1, ReadSpan
  <2>2. env' = env /\ c'.takenOver
    BY <1>3 DEF Continue
  <2> QED  BY <2>1, <2>2, TakenFlow
<1>4. CASE ~c.takenOver
  <2>1. c.readBuf = <<>>
    BY <1>1, <1>4 DEF Flow
  <2>2. BytesRead(BufCap) \in Seq(Nat)
    BY <1>1, ReadFacts DEF Bytes
  <2>3. t.readBuf = c.readBuf \o BytesRead(BufCap)
    BY <2>1, <2>2, ConcatEmptySeq
  <2> QED  BY <1>1, <1>2, <2>3, ReadFlow
<1> QED  BY <1>3, <1>4

LEMMA AcceptFlow ==
  ASSUME SInv, Accept
  PROVE  InStream'
<1>1. c \in Conns /\ pc = "accept"
  BY SInvFacts DEF Accept
<1>2. CASE ReadResult(BufCap) = "data"
  <2> DEFINE t == [c EXCEPT !.readBuf = BytesRead(BufCap),
                            !.readDrained = Avail < BufCap]
  <2>1. Continue("parse", t) /\ k' = AfterRead(BufCap)
    BY <1>2 DEF Accept
  <2>2. /\ t.readBuf = BytesRead(BufCap) /\ t.bodyNeed = c.bodyNeed
        /\ t.bodyBuf = c.bodyBuf /\ t.header = c.header
        /\ t.takenOver = c.takenOver
    BY <1>1 DEF Conns
  <2> HIDE DEF t
  <2> QED  BY <1>1, <2>1, <2>2, FirstReadFlow
<1>3. CASE ReadResult(BufCap) # "data"
  <2>1. Goto("drain", c)
    BY <1>3 DEF Accept, Loop
  <2>2. Input(c, c) /\ Suits(c, "drain")
    BY DEF Input, Suits
  <2> QED  BY <1>1, <2>1, <2>2, GoFlow
<1> QED  BY <1>2, <1>3

LEMMA SpeculateFlow ==
  ASSUME SInv, Speculate
  PROVE  InStream'
<1>1. c \in Conns /\ pc = "speculate"
  BY SInvFacts DEF Speculate
<1> DEFINE s == [c EXCEPT !.readSuppressed = FALSE, !.readDrained = FALSE]
<1>2. s \in Conns /\ Input(s, c)
  BY <1>1, ConnFlags, FlagsInput
<1>3. \/ /\ Continue("parse", [s EXCEPT !.readBuf = BytesRead(BufCap),
                                        !.readDrained = Avail < BufCap])
         /\ k' = AfterRead(BufCap)
      \/ Goto("drain", s)
  BY DEF Speculate, Loop
<1> HIDE DEF s
<1>4. CASE /\ Continue("parse", [s EXCEPT !.readBuf = BytesRead(BufCap),
                                          !.readDrained = Avail < BufCap])
           /\ k' = AfterRead(BufCap)
  <2> DEFINE t == [s EXCEPT !.readBuf = BytesRead(BufCap),
                            !.readDrained = Avail < BufCap]
  <2>1. Continue("parse", t) /\ k' = AfterRead(BufCap)
    BY <1>4
  <2>2. /\ t.readBuf = BytesRead(BufCap) /\ t.bodyNeed = s.bodyNeed
        /\ t.bodyBuf = s.bodyBuf /\ t.header = s.header
        /\ t.takenOver = s.takenOver
    BY <1>2 DEF Conns
  <2> HIDE DEF t
  <2>3. /\ t.bodyNeed = c.bodyNeed /\ t.bodyBuf = c.bodyBuf
        /\ t.header = c.header /\ t.takenOver = c.takenOver
    BY <1>2, <2>2 DEF Input
  <2> QED  BY <1>1, <2>1, <2>2, <2>3, FirstReadFlow
<1>5. CASE Goto("drain", s)
  <2>1. Suits(c, "drain")
    BY DEF Suits
  <2> QED  BY <1>1, <1>2, <1>5, <2>1, GoFlow
<1> QED  BY <1>3, <1>4, <1>5
\* What the loop reads goes to the body first (handleRecv, drainBodyAccum).
LEMMA BodyReadFlow ==
  ASSUME SInv, NEW room \in Nat, NEW s \in Conns, Fits(s), c.bodyNeed > 0,
         s.bodyNeed = c.bodyNeed, s.bodyBuf = c.bodyBuf,
         s.header = c.header, s.takenOver = c.takenOver,
         NEW bytes, bytes = c.readBuf \o BytesRead(room),
         Continue("body", Accumulate(s, bytes)), k' = AfterRead(room)
  PROVE  InStream'
<1> DEFINE r == k.rcvd + SmallerOf(Avail, room)
           f == Consumption(c, k.rcvd)
           t == Accumulate(s, bytes)
<1>1. TypeOK /\ Scenario(env) /\ Flow(c, k.rcvd, pc)
  BY SInvFacts
<1>2. k'.rcvd = r /\ k'.sent = k.sent
  BY <1>1, ReadSpan
<1>3. env' = env /\ c' = t /\ pc' = "body"
  BY DEF Continue
<1>4. t.takenOver = s.takenOver
  BY DEF Accumulate, Conns
<1>5. CASE c.takenOver
  BY <1>2, <1>3, <1>4, <1>5, TakenFlow
<1>6. CASE ~c.takenOver
  <2> DEFINE u == [c EXCEPT !.readBuf = bytes]
  <2>1. u.readBuf = c.readBuf \o BytesRead(room)
    BY SInvFacts DEF Conns
  <2>2. /\ Consumption(u, r) = f /\ Consumption(u, r) \in Nat
        /\ Consumption(u, r) <= r /\ r \in Nat
        /\ u.readBuf = Between(Consumption(u, r), r)
    BY <1>6, <2>1, AppendFlow
  <2>3. f \in Nat /\ f <= r /\ r \in Nat /\ bytes = Between(f, r)
    BY <2>1, <2>2
  <2>4. BodyTo(c, f)
    BY <1>1, <1>6 DEF Flow, BodyAt
  <2> HIDE DEF f, r
  <2>5. BodyTo(s, f)
    BY <2>4 DEF BodyTo
  <2>6. /\ Consumption(t, r) \in Nat
        /\ t.readBuf = Between(Consumption(t, r), r)
        /\ BodyAt(t, Consumption(t, r))
        /\ t.bodyNeed = s.bodyNeed
    BY <1>1, <2>3, <2>5, AccumulateFlow
  <2> HIDE DEF t
  <2>7. Flow(t, r, "body")
    BY <2>6 DEF Flow
  <2> QED  BY <1>2, <1>3, <2>7, FlowFrame
<1> QED  BY <1>5, <1>6

LEMMA HandleRecvFlow ==
  ASSUME SInv, HandleRecv
  PROVE  InStream'
<1>1. /\ IInv /\ c \in Conns /\ pc = "recv"
  BY SInvFacts DEF HandleRecv
<1>2. CASE Goto("drain", [c EXCEPT !.readSuppressed = TRUE,
                                   !.readDrained = FALSE])
  <2> DEFINE s == [c EXCEPT !.readSuppressed = TRUE, !.readDrained = FALSE]
  <2>1. Goto("drain", s)
    BY <1>2
  <2>2. Input(s, c)
    BY <1>1, FlagsInput
  <2> HIDE DEF s
  <2>3. Suits(c, "drain")
    BY DEF Suits
  <2> QED  BY <1>1, <2>1, <2>2, <2>3, GoFlow
<1>3. CASE Goto("panic", c)
  <2>1. Input(c, c) /\ Suits(c, "panic")
    BY DEF Input, Suits
  <2> QED  BY <1>1, <1>3, <2>1, GoFlow
<1>4. CASE CloseConn(c)
  BY <1>1, <1>4, CloseFlow
<1>5. CASE /\ c.bodyNeed > 0 /\ k' = AfterRead(Room)
           /\ Continue("body", Accumulate(Received, Received.readBuf))
  BY <1>1, <1>5, ReceivedFacts, BodyReadFlow
<1>6. CASE /\ c.bodyNeed = 0 /\ k' = AfterRead(Room)
           /\ Continue("parse", Received)
  BY <1>1, <1>6, ReceivedFacts, ReadFlow
<1> QED  BY <1>1, <1>2, <1>3, <1>4, <1>5, <1>6, HandleRecvCases

LEMMA HeaderMoreFlow ==
  ASSUME SInv, pc = "parse", HeaderMore
  PROVE  InStream'
<1>1. c \in Conns /\ Input(c, c)
  BY SInvFacts DEF Input
<1>2. Suits(c, "send") /\ Suits(c, "refill")
  BY DEF Suits
<1>3. \/ writeAndClose(c, RequestAt(c.readBuf[1]))
      \/ Goto("send", c) \/ Goto("refill", c) \/ ParseEnd(c)
  BY DEF HeaderMore
<1>4. CASE writeAndClose(c, RequestAt(c.readBuf[1]))
  BY <1>1, <1>4, RefuseFlow
<1>5. CASE Goto("send", c)
  BY <1>1, <1>2, <1>5, GoFlow
<1>6. CASE Goto("refill", c)
  BY <1>1, <1>2, <1>6, GoFlow
<1>7. CASE ParseEnd(c)
  BY <1>1, <1>7, ParseEndFlow
<1> QED  BY <1>3, <1>4, <1>5, <1>6, <1>7

LEMMA RefillFlow ==
  ASSUME SInv, Refill
  PROVE  InStream'
<1>1. /\ c \in Conns /\ pc = "refill" /\ At(pc, ret, c)
      /\ Len(c.readBuf) \in 0..BufCap /\ BufCap \in Nat
  BY SInvFacts DEF Refill
<1>2. c.bodyNeed = 0
  BY <1>1 DEF At, Reading
<1> DEFINE room == BufCap - Len(c.readBuf)
           s    == [c EXCEPT !.readSuppressed = FALSE]
<1>3. room \in Nat
  BY <1>1
<1>4. s \in Conns /\ Input(s, c)
  BY <1>1, ConnFlags, FlagsInput
<1>5. \/ ParseEnd([s EXCEPT !.readDrained = TRUE])
      \/ CloseConn(s)
      \/ CloseConn([s EXCEPT !.keepAlive = FALSE])
      \/ /\ Continue("parse", [s EXCEPT !.readDrained = Avail < room,
                                        !.readBuf = @ \o BytesRead(room)])
         /\ k' = AfterRead(room)
  BY DEF Refill
<1> HIDE DEF s, room
<1>6. CASE ParseEnd([s EXCEPT !.readDrained = TRUE])
  <2> DEFINE t == [s EXCEPT !.readDrained = TRUE]
  <2>1. Input(t, s)
    BY <1>4, FlagsInput
  <2>2. ParseEnd(t)
    BY <1>6
  <2> HIDE DEF t
  <2>3. Input(t, c)
    BY <1>4, <2>1, InputTransitive
  <2> QED  BY <1>1, <2>2, <2>3, ParseEndFlow
<1>7. CASE CloseConn(s)
  BY <1>4, <1>7, CloseFlow DEF Input
<1>8. CASE CloseConn([s EXCEPT !.keepAlive = FALSE])
  <2> DEFINE t == [s EXCEPT !.keepAlive = FALSE]
  <2>1. t \in Conns /\ Input(t, s)
    BY <1>4, ConnFlags, FlagsInput
  <2>2. CloseConn(t)
    BY <1>8
  <2> HIDE DEF t
  <2> QED  BY <1>4, <2>1, <2>2, CloseFlow DEF Input
<1>9. CASE /\ Continue("parse", [s EXCEPT !.readDrained = Avail < room,
                                          !.readBuf = @ \o BytesRead(room)])
           /\ k' = AfterRead(room)
  <2> DEFINE t == [s EXCEPT !.readDrained = Avail < room,
                            !.readBuf = @ \o BytesRead(room)]
  <2>1. /\ t.readBuf = s.readBuf \o BytesRead(room)
        /\ t.bodyNeed = s.bodyNeed /\ t.bodyBuf = s.bodyBuf
        /\ t.header = s.header /\ t.takenOver = s.takenOver
    BY <1>4 DEF Conns
  <2>2. Continue("parse", t) /\ k' = AfterRead(room)
    BY <1>9
  <2> HIDE DEF t
  <2>3. /\ t.readBuf = c.readBuf \o BytesRead(room)
        /\ t.bodyNeed = c.bodyNeed /\ t.bodyBuf = c.bodyBuf
        /\ t.header = c.header /\ t.takenOver = c.takenOver
    BY <1>4, <2>1 DEF Input
  <2> QED  BY <1>1, <1>2, <1>3, <2>2, <2>3, ReadFlow
<1> QED  BY <1>5, <1>6, <1>7, <1>8, <1>9
\* The parser finds a request's first byte at the front of the read buffer.
AtRequest(i) ==
  ~c.takenOver => Consumption(c, k.rcvd) + 1 = Start[i]

LEMMA ParseAtRequest ==
  ASSUME SInv, pc = "parse", c.readBuf # <<>>, ~c.takenOver
  PROVE  /\ AtRequest(RequestAt(c.readBuf[1]))
         /\ c.readBuf[1] = Start[RequestAt(c.readBuf[1])]
<1> DEFINE f == Consumption(c, k.rcvd)
           r == k.rcvd
<1>1. /\ TypeOK /\ Scenario(env) /\ Flow(c, r, pc) /\ At(pc, ret, c)
      /\ k \in Sockets /\ r \in Nat
  BY SInvFacts
<1>2. c.bodyNeed = 0
  BY <1>1 DEF At, Reading
<1>3. f \in Nat /\ f <= r /\ c.readBuf = Between(f, r)
  BY BufferFacts
<1>4. PICK j \in 1..(N + 1) : f + 1 = Start[j]
  BY <1>1, <1>2 DEF Flow, Boundary
<1>5. r <= Total
  <2>1. k.rcvd <= k.sent /\ k.sent <= Total /\ k.sent \in Nat /\ Total \in Nat
    BY <1>1, LayoutFacts DEF SInv, TypeOK, Sockets
  <2> QED  BY <1>1, <2>1
<1> HIDE DEF f, r
<1>6. f < r
  <2>1. f # r
    BY <1>3, BetweenEmpty
  <2> QED  BY <1>1, <1>3, <2>1
<1>7. c.readBuf[1] = f + 1
  <2>1. 1 \in 1..(r - f)
    BY <1>1, <1>3, <1>6
  <2> QED  BY <1>1, <1>3, <2>1, BetweenFacts
<1>8. j \in 1..N
  <2>1. N \in Nat /\ Total = Start[N + 1] - 1 /\ Total \in Nat
    BY <1>1, LayoutFacts, ScenarioFacts DEF Total, End
  <2>2. Start[N + 1] \in Nat
    <3>1. N + 1 \in 1..(N + 1)
      BY <2>1
    <3> QED  BY <1>1, <3>1, LayoutFacts
  <2>3. j # N + 1
    BY <1>1, <1>3, <1>4, <1>5, <1>6, <2>1, <2>2
  <2> QED  BY <2>1, <2>3
<1>9. RequestAt(c.readBuf[1]) = j
  BY <1>1, <1>4, <1>7, <1>8, RequestAtStart
<1> QED  BY <1>4, <1>7, <1>9 DEF AtRequest, f, r

\* Where request i lies when byte f is the last one before it.
LEMMA RequestSpan ==
  ASSUME Scenario(env), NEW i \in 1..N, NEW f \in Nat, f + 1 = Start[i]
  PROVE  /\ script[i].hdr \in Nat /\ script[i].body \in Nat
         /\ script[i].hdr + script[i].body \in Nat
         /\ HeaderEnd(i) = f + script[i].hdr
         /\ Start[i + 1] = f + (script[i].hdr + script[i].body) + 1
<1> DEFINE h == script[i].hdr
           b == script[i].body
           e == HeaderEnd(i)
           z == Start[i + 1]
<1>1. RequestOK(i)
  BY RequestFacts
<1>2. h \in Nat /\ b \in Nat
  BY <1>1, Zenon DEF RequestOK
<1>3. e = Start[i] - 1 + h /\ z = e + b + 1 /\ e \in Nat
  BY HeaderEndFacts
<1> HIDE DEF h, b, e, z
<1>4. h + b \in Nat /\ e = f + h /\ z = f + (h + b) + 1
  BY <1>2, <1>3
<1> QED  BY <1>2, <1>4 DEF h, b, e, z

\* The first n bytes leave a buffer that holds bytes f+1 to r.
LEMMA BetweenRest ==
  ASSUME NEW f \in Nat, NEW r \in Nat, NEW n \in Nat, f <= r, n <= r - f
  PROVE  /\ f + n \in Nat /\ f + n <= r
         /\ Rest(Between(f, r), n) = Between(f + n, r)
<1> DEFINE g == f + n
<1>1. g \in Nat /\ f <= g /\ g <= r /\ g - f = n
  OBVIOUS
<1> HIDE DEF g
<1>2. Rest(Between(f, r), g - f) = Between(g, r)
  BY <1>1, BetweenSplit
<1> QED  BY <1>1, <1>2 DEF g

LEMMA BeginBodyFlow ==
  ASSUME SInv, pc = "parse", NEW i \in 1..N, AtRequest(i),
         script[i].body > 0, Len(c.readBuf) >= script[i].hdr, BeginBody(i)
  PROVE  InStream'
<1>1. /\ Scenario(env) /\ c \in Conns /\ Fits(c) /\ At(pc, ret, c)
      /\ BufCap \in Nat
  BY SInvFacts
<1>2. c.bodyNeed = 0 /\ c.pending = 0
  BY <1>1 DEF At, Reading
<1>3. RequestOK(i)
  BY <1>1, RequestFacts
<1>4. /\ i \in Nat /\ i > 0 /\ i \in 0..N /\ script[i].body \in Nat
      /\ script[i].hdr \in Nat
  BY <1>3, Zenon DEF RequestOK
<1> DEFINE n == script[i].body
           h == script[i].hdr
           t == [c EXCEPT !.readDrained = FALSE, !.header = i, !.bodyNeed = n,
                          !.bodyBuf = <<>>, !.inflight = c.inflight + n]
           q == Rest(c.readBuf, h)
           s == Accumulate(t, q)
           o == Queue(s, <<<<i, 0>>>>)
<1>5. CASE writeAndClose([c EXCEPT !.readDrained = FALSE], i)
  <2> DEFINE u == [c EXCEPT !.readDrained = FALSE]
  <2>1. u \in Conns /\ Input(u, c)
    BY <1>1, ConnFlags, FlagsInput
  <2>2. writeAndClose(u, i)
    BY <1>5
  <2> HIDE DEF u
  <2> QED  BY <2>1, <2>2, RefuseFlow
<1>6. c.inflight = 0 /\ c.inflight + n = n
  BY <1>1, <1>2, <1>4 DEF Fits
<1>7. <<>> \in Bytes /\ Len(<<>>) = 0
  BY DEF Bytes
<1>8. t \in Conns
  BY <1>1, <1>4, <1>6, <1>7 DEF Conns
<1>9. /\ t.header = i /\ t.bodyNeed = n /\ t.bodyBuf = <<>>
      /\ t.inflight = n /\ t.pending = 0 /\ t.readBuf = c.readBuf
      /\ t.takenOver = c.takenOver
  BY <1>1, <1>2, <1>6 DEF Conns
<1>10. Fits(t)
  BY <1>1, <1>4, <1>7, <1>9 DEF Fits
<1>11. \/ writeAndClose([c EXCEPT !.readDrained = FALSE], i)
       \/ Goto("body", s)
       \/ pc' = "send" /\ c' = o /\ UNCHANGED <<env, k>>
  <2>1. t = [c EXCEPT !.readDrained = FALSE, !.header = i, !.bodyNeed = n,
                      !.bodyBuf = <<>>, !.inflight = @ + n]
    BY <1>1 DEF Conns
  <2> QED  BY <2>1 DEF BeginBody
<1> HIDE DEF t
<1>12. s \in Conns /\ s.takenOver = c.takenOver
  <2>1. q \in Bytes
    BY <1>1, <1>4, RestType DEF Conns, Bytes
  <2>2. Len(q) <= BufCap
    <3>1. Len(q) \in 0..Len(c.readBuf) /\ Len(c.readBuf) \in 0..BufCap
      BY <1>1, <1>4, SInvFacts, RestType DEF Bytes
    <3> HIDE DEF q
    <3> QED  BY <1>1, <3>1
  <2> HIDE DEF q
  <2>3. s \in Conns
    BY <1>1, <1>8, <1>10, <2>1, <2>2, AccumulateKeeps
  <2>4. s.takenOver = t.takenOver
    BY <1>8 DEF Accumulate, Conns
  <2> QED  BY <1>9, <2>3, <2>4
<1>13. Flow(s, k.rcvd, "body") /\ Flow(s, k.rcvd, "send")
  <2> SUFFICES ASSUME ~c.takenOver
               PROVE  Flow(s, k.rcvd, "body") /\ Flow(s, k.rcvd, "send")
    BY <1>12 DEF Flow
  <2> DEFINE f == Consumption(c, k.rcvd)
             e == HeaderEnd(i)
             r == k.rcvd
  <2>1. /\ f \in Nat /\ f <= r /\ r \in Nat
        /\ c.readBuf = Between(f, r) /\ Len(c.readBuf) = r - f
    BY BufferFacts
  <2>2. f + 1 = Start[i]
    BY DEF AtRequest
  <2>3. e = f + h /\ h \in Nat
    BY <1>1, <2>1, <2>2, RequestSpan
  <2>4. h <= r - f
    <3>1. r - f >= h
      BY <2>1
    <3> HIDE DEF h, r, f
    <3> QED  BY <2>1, <2>3, <3>1
  <2>5. e \in Nat /\ e <= r /\ q = Between(e, r)
    <3> HIDE DEF f, e, r, h
    <3>1. /\ f + h \in Nat /\ f + h <= r
          /\ Rest(Between(f, r), h) = Between(f + h, r)
      BY <2>1, <2>3, <2>4, BetweenRest
    <3> QED  BY <2>1, <2>3, <3>1
  <2> HIDE DEF f, e, r, h
  <2>7. BodyTo(t, e)
    <3>1. t.bodyBuf = Between(e, e)
      BY <1>9, <2>5, BetweenEmpty
    <3>2. e <= e
      BY <2>5
    <3> QED  BY <1>9, <3>1, <3>2 DEF BodyTo, e
  <2>8. t.bodyNeed > 0
    BY <1>9
  <2>9. /\ Consumption(s, r) \in Nat
        /\ s.readBuf = Between(Consumption(s, r), r)
        /\ BodyAt(s, Consumption(s, r)) /\ s.bodyNeed = t.bodyNeed
    <3> HIDE DEF q
    <3> QED
      BY <1>1, <1>8, <1>10, <2>1, <2>5, <2>7, <2>8, AccumulateFlow
  <2> HIDE DEF s
  <2> QED  BY <1>9, <2>8, <2>9 DEF Flow, r
<1> HIDE DEF s
<1>14. CASE Goto("body", s)
  BY <1>13, <1>14, GotoFlow
<1>15. CASE pc' = "send" /\ c' = o /\ UNCHANGED <<env, k>>
  <2>1. Input(o, s)
    BY <1>12, QueueInput
  <2> HIDE DEF o
  <2>2. Suits(s, "send")
    BY DEF Suits
  <2>3. Flow(o, k.rcvd, "send")
    BY <1>13, <2>1, <2>2, FlowInput
  <2> QED  BY <1>15, <2>3, FlowFrame
<1> QED  BY <1>5, <1>11, <1>14, <1>15

LEMMA ConsumedFlow ==
  ASSUME SInv, pc = "parse", NEW i \in 1..N, AtRequest(i),
         Len(c.readBuf) >= script[i].hdr + script[i].body,
         NEW s \in Conns, Input(s, c), NEW t, Input(t, Consumed(s, i)),
         NEW p \in {"parse", "send", "drain"}
  PROVE  Flow(t, k.rcvd, p)
<1> DEFINE u == Consumed(s, i)
           n == script[i].hdr + script[i].body
<1>1. /\ Scenario(env) /\ At(pc, ret, c)
  BY SInvFacts
<1>2. c.bodyNeed = 0
  BY <1>1 DEF At, Reading
<1>3. /\ u.readBuf = Rest(s.readBuf, n) /\ u.bodyNeed = s.bodyNeed
      /\ u.takenOver = s.takenOver
  BY DEF Consumed, Conns
<1> HIDE DEF u
<1>4. /\ u.readBuf = Rest(c.readBuf, n) /\ u.bodyNeed = 0
      /\ u.takenOver = c.takenOver
  BY <1>2, <1>3 DEF Input
<1>5. Flow(u, k.rcvd, p)
  <2> SUFFICES ASSUME ~c.takenOver PROVE Flow(u, k.rcvd, p)
    BY <1>4 DEF Flow
  <2> DEFINE f == Consumption(c, k.rcvd)
             g == f + n
             r == k.rcvd
  <2>1. /\ f \in Nat /\ f <= r /\ r \in Nat
        /\ c.readBuf = Between(f, r) /\ Len(c.readBuf) = r - f
    BY BufferFacts
  <2>2. f + 1 = Start[i]
    BY DEF AtRequest
  <2>3. n \in Nat /\ Start[i + 1] = g + 1
    BY <1>1, <2>1, <2>2, RequestSpan
  <2>4. n <= r - f
    <3>1. r - f >= n
      BY <2>1
    <3> HIDE DEF n, r, f
    <3> QED  BY <2>1, <2>3, <3>1
  <2>5. g \in Nat /\ g <= r /\ Rest(Between(f, r), n) = Between(g, r)
    <3> HIDE DEF f, r, n
    <3> QED  BY <2>1, <2>3, <2>4, BetweenRest
  <2> HIDE DEF f, g, r, n
  <2>9. u.readBuf = Between(g, r)
    BY <1>4, <2>1, <2>5
  <2>10. Len(u.readBuf) = r - g
    BY <2>1, <2>5, <2>9, BetweenFacts
  <2>11. Consumption(u, r) = g
    BY <2>1, <2>5, <2>10 DEF Consumption
  <2>12. Boundary(g)
    BY <1>1, <2>3, LayoutFacts DEF Boundary
  <2> QED  BY <1>4, <2>5, <2>9, <2>11, <2>12 DEF Flow, r
<1>6. Suits(u, p) /\ p # "closed"
  BY DEF Suits
<1>7. Input(t, u)
  BY DEF u
<1> QED  BY <1>5, <1>6, <1>7, FlowInput
LEMMA SameInput ==
  ASSUME NEW s, NEW t, Same(s, t)
  PROVE  Input(s, t)
  BY DEF Same, Input

LEMMA DispatchFlow ==
  ASSUME SInv, pc = "parse", Parsing, NEW i \in 1..N, AtRequest(i),
         Len(c.readBuf) >= script[i].hdr + script[i].body, Dispatch(i)
  PROVE  InStream'
<1>1. IInv /\ Scenario(env) /\ k \in Sockets /\ Fits(c)
  BY SInvFacts
<1>2. PICK s \in Conns :
        /\ Same(s, c)
        /\ \/ Goto("send", s)
           \/ DispatchInline(s, i)
           \/ DispatchFile(s, i)
           \/ DispatchPending(s, i)
           \/ ~Unsent(s) /\ DispatchTakeover(s, i)
  BY <1>1, DispatchCases
<1>3. Input(s, c) /\ Fits(s)
  BY <1>1, <1>2, SameInput, SameFacts
<1> DEFINE u == Consumed(s, i)
<1>4. u \in Conns
  BY <1>1, <1>3, ConsumedFacts
<1>5. \A t : Input(t, u) =>
               /\ Flow(t, k.rcvd, "parse") /\ Flow(t, k.rcvd, "send")
               /\ Flow(t, k.rcvd, "drain")
  BY <1>3, ConsumedFlow
<1>6. CASE Goto("send", s)
  <2>1. Suits(c, "send")
    BY DEF Suits
  <2> QED  BY <1>3, <1>6, <2>1, GoFlow
<1>7. CASE DispatchInline(s, i)
  <2> DEFINE q == Queue(u, Response(i))
  <2>1. \E p \in {"parse", "send", "drain"} : Goto(p, q)
    BY <1>7 DEF DispatchInline, ParseEnd, Loop
  <2> HIDE DEF u
  <2>2. Input(q, u)
    BY <1>4, QueueInput
  <2> HIDE DEF q
  <2> QED  BY <1>5, <2>1, <2>2, GotoFlow
<1>8. CASE DispatchFile(s, i)
  <2> DEFINE q == Queue(u, <<<<i, 1>>>>)
             t == [q EXCEPT !.file = Tail(Response(i))]
  <2>1. Goto("send", t)
    BY <1>8 DEF DispatchFile
  <2> HIDE DEF u
  <2>2. Input(t, u)
    BY <1>4 DEF Input, Queue, Conns
  <2> HIDE DEF t
  <2> QED  BY <1>5, <2>1, <2>2, GotoFlow
<1>9. CASE DispatchPending(s, i)
  <2> DEFINE t == [u EXCEPT !.pending = @ + 1]
  <2>1. /\ c' = t /\ pc' = "drain" /\ env' = env
        /\ k' = IF s.sendBuf # <<>> THEN Mod(k, "inout") ELSE k
    BY <1>9 DEF DispatchPending, Loop
  <2>2. k'.rcvd = k.rcvd /\ k'.sent = k.sent
    BY <1>1, <2>1 DEF Mod, Sockets
  <2> HIDE DEF u
  <2>3. Input(t, u)
    BY <1>4 DEF Input, Conns
  <2> HIDE DEF t
  <2> QED  BY <1>5, <2>1, <2>2, <2>3, FlowFrame
<1>10. CASE DispatchTakeover(s, i)
  <2>1. /\ c' = [u EXCEPT !.pending = @ + 1, !.takenOver = TRUE,
                          !.readBuf = <<>>]
        /\ k' = [k EXCEPT !.mask = "none", !.ready = FALSE] /\ env' = env
    BY <1>10 DEF DispatchTakeover
  <2> HIDE DEF u
  <2>2. c'.takenOver
    BY <1>4, <2>1 DEF Conns
  <2>3. k'.sent = k.sent
    BY <1>1, <2>1 DEF Sockets
  <2> QED  BY <2>1, <2>2, <2>3, TakenFlow
<1> QED  BY <1>2, <1>6, <1>7, <1>8, <1>9, <1>10

LEMMA TryParseFlow ==
  ASSUME SInv, TryParse
  PROVE  InStream'
<1>1. IInv /\ c \in Conns /\ pc = "parse" /\ Input(c, c)
  BY SInvFacts DEF TryParse, Input
<1>2. Parsing
  BY <1>1, ParsingFacts DEF Reading
<1>3. CASE c.readBuf = <<>>
  <2>1. ParseEnd(c)
    BY <1>3 DEF TryParse
  <2> QED  BY <1>1, <2>1, ParseEndFlow
<1>4. CASE c.readBuf # <<>>
  <2> DEFINE i == RequestAt(c.readBuf[1])
  <2>1. AtRequest(i)
    BY <1>1, <1>4, ParseAtRequest DEF AtRequest
  <2>2. /\ i \in 1..N
        /\ \/ HeaderMore
           \/ CloseConn(c)
           \/ writeAndClose(c, i)
           \/ /\ Len(c.readBuf) >= script[i].hdr + script[i].body
              /\ Dispatch(i)
           \/ /\ Len(c.readBuf) >= script[i].hdr
              /\ script[i].body > 0 /\ BeginBody(i)
    BY <1>1, <1>2, <1>4, TryParseCases
  <2> HIDE DEF i
  <2>3. CASE HeaderMore
    BY <1>1, <2>3, HeaderMoreFlow
  <2>4. CASE CloseConn(c)
    BY <1>1, <2>4, CloseFlow
  <2>5. CASE writeAndClose(c, i)
    BY <1>1, <2>5, RefuseFlow
  <2>6. CASE /\ Len(c.readBuf) >= script[i].hdr + script[i].body
             /\ Dispatch(i)
    BY <1>1, <1>2, <2>1, <2>2, <2>6, DispatchFlow
  <2>7. CASE /\ Len(c.readBuf) >= script[i].hdr
             /\ script[i].body > 0 /\ BeginBody(i)
    BY <1>1, <2>1, <2>2, <2>7, BeginBodyFlow
  <2> QED  BY <2>2, <2>3, <2>4, <2>5, <2>6, <2>7
<1> QED  BY <1>3, <1>4
LEMMA DrainBodyFlow ==
  ASSUME SInv, DrainBody
  PROVE  InStream'
<1>1. /\ IInv /\ TypeOK /\ c \in Conns /\ Fits(c) /\ At(pc, ret, c)
      /\ BufCap \in Nat /\ pc = "body" /\ c.bodyNeed \in Nat
      /\ Flow(c, k.rcvd, pc)
  BY SInvFacts DEF DrainBody
<1>2. c.bodyNeed > 0
  BY <1>1 DEF At, Filling
<1>3. Len(c.bodyBuf) \in Nat /\ Len(c.bodyBuf) <= c.bodyNeed
  BY <1>1, LenProperties DEF Conns, Bytes, Fits
<1> DEFINE s == [c EXCEPT !.readDrained = FALSE]
<1>4. s \in Conns /\ Same(s, c)
  BY <1>1, ConnFlags, FlagsSame
<1>5. \/ Len(c.bodyBuf) >= c.bodyNeed /\ Goto("pipelined", s)
      \/ Goto("drain", s)
      \/ CloseConn(s)
      \/ /\ Len(c.bodyBuf) < c.bodyNeed
         /\ Continue("body", Accumulate(s, BytesRead(BufCap)))
         /\ k' = AfterRead(BufCap)
  <2> HIDE DEF s
  <2>1. Len(c.bodyBuf) >= c.bodyNeed \/ Len(c.bodyBuf) < c.bodyNeed
    BY <1>1, <1>3
  <2>2. CASE Len(c.bodyBuf) >= c.bodyNeed
    BY <1>1, <1>3, <2>2 DEF DrainBody, s
  <2>3. CASE Len(c.bodyBuf) < c.bodyNeed
    BY <1>1, <1>3, <2>3 DEF DrainBody, Loop, s
  <2> QED  BY <2>1, <2>2, <2>3
<1> HIDE DEF s
<1>6. Input(s, c) /\ Fits(s)
  BY <1>1, <1>4, SameInput, SameFacts
<1>7. CASE Len(c.bodyBuf) >= c.bodyNeed /\ Goto("pipelined", s)
  <2>1. Len(c.bodyBuf) = c.bodyNeed
    BY <1>1, <1>3, <1>7
  <2>2. Suits(c, "pipelined")
    BY <2>1 DEF Suits
  <2> QED  BY <1>1, <1>6, <1>7, <2>2, GoFlow
<1>8. CASE Goto("drain", s)
  <2>1. Suits(c, "drain")
    BY DEF Suits
  <2> QED  BY <1>1, <1>6, <1>8, <2>1, GoFlow
<1>9. CASE CloseConn(s)
  BY <1>4, <1>6, <1>9, CloseFlow DEF Input
<1>10. CASE /\ Len(c.bodyBuf) < c.bodyNeed
            /\ Continue("body", Accumulate(s, BytesRead(BufCap)))
            /\ k' = AfterRead(BufCap)
  <2>1. CASE c.takenOver
    <3>1. c'.takenOver
      BY <1>4, <1>6, <1>10, <2>1 DEF Continue, Accumulate, Input, Conns
    <3>2. k'.sent = k.sent /\ env' = env
      BY <1>1, <1>10, ReadSpan DEF Continue
    <3> QED  BY <3>1, <3>2, TakenFlow
  <2>2. CASE ~c.takenOver
    <3>1. c.readBuf = <<>>
      BY <1>1, <1>2, <1>10, <2>2 DEF Flow, BodyAt
    <3>2. BytesRead(BufCap) \in Seq(Nat)
      BY <1>1, ReadFacts DEF Bytes
    <3>3. BytesRead(BufCap) = c.readBuf \o BytesRead(BufCap)
      BY <3>1, <3>2, ConcatEmptySeq
    <3>4. /\ s.bodyNeed = c.bodyNeed /\ s.bodyBuf = c.bodyBuf
          /\ s.header = c.header /\ s.takenOver = c.takenOver
      BY <1>6 DEF Input
    <3> QED  BY <1>1, <1>2, <1>4, <1>6, <1>10, <3>3, <3>4, BodyReadFlow
  <2> QED  BY <2>1, <2>2
<1> QED  BY <1>5, <1>7, <1>8, <1>9, <1>10

LEMMA DrainPipelinedFlow ==
  ASSUME SInv, DrainPipelined
  PROVE  InStream'
<1>1. /\ c \in Conns /\ pc = "pipelined" /\ Flow(c, k.rcvd, pc) /\ TypeOK
      /\ Len(c.readBuf) \in 0..BufCap /\ BufCap \in Nat
  BY SInvFacts DEF DrainPipelined
<1> DEFINE room == BufCap - Len(c.readBuf)
           t    == [c EXCEPT !.readBuf = @ \o BytesRead(room)]
<1>2. room \in Nat
  BY <1>1
<1>3. ~c.takenOver => Len(c.bodyBuf) = c.bodyNeed
  BY <1>1 DEF Flow
<1>4. CASE Goto("finish", c)
  <2>1. CASE c.takenOver
    BY <1>4, <2>1, TakenFlow DEF Goto, Continue
  <2>2. CASE ~c.takenOver
    <3>1. Input(c, c) /\ Suits(c, "finish")
      BY <1>3, <2>2 DEF Input, Suits
    <3> QED  BY <1>1, <1>4, <3>1, GoFlow
  <2> QED  BY <2>1, <2>2
<1>5. CASE Continue("pipelined", t) /\ k' = AfterRead(room)
  <2>1. /\ t.readBuf = c.readBuf \o BytesRead(room)
        /\ t.bodyNeed = c.bodyNeed /\ t.bodyBuf = c.bodyBuf
        /\ t.header = c.header /\ t.takenOver = c.takenOver
    BY <1>1 DEF Conns
  <2> HIDE DEF t, room
  <2>2. CASE c.takenOver
    <3>1. c'.takenOver /\ env' = env
      BY <1>5, <2>1, <2>2 DEF Continue
    <3>2. k'.sent = k.sent
      BY <1>1, <1>2, <1>5, ReadSpan
    <3> QED  BY <3>1, <3>2, TakenFlow
  <2>3. CASE ~c.takenOver
    BY <1>1, <1>2, <1>3, <1>5, <2>1, <2>3, ReadFlow
  <2> QED  BY <2>2, <2>3
<1>6. Goto("finish", c) \/ (Continue("pipelined", t) /\ k' = AfterRead(room))
  BY DEF DrainPipelined
<1> QED  BY <1>4, <1>5, <1>6

LEMMA FinishBodyFlow ==
  ASSUME SInv, FinishBody
  PROVE  InStream'
<1>1. /\ Scenario(env) /\ c \in Conns /\ Fits(c) /\ At(pc, ret, c)
      /\ c.bodyNeed \in Nat /\ pc = "finish" /\ Flow(c, k.rcvd, pc)
  BY SInvFacts DEF FinishBody
<1>2. c.bodyNeed > 0 /\ c.header > 0
  BY <1>1 DEF At, Filling, Fits
<1>3. c.header \in 1..N
  <2>1. c.header \in 0..N /\ N \in Nat
    BY <1>1, ScenarioFacts DEF Conns
  <2> QED  BY <1>2, <2>1
<1> DEFINE s == [c EXCEPT !.inflight = @ - c.bodyNeed, !.bodyNeed = 0,
                          !.bodyBuf = <<>>, !.header = 0, !.deadline = FALSE,
                          !.readDrained = FALSE]
           t(b, bytes) == Queue([s EXCEPT !.keepAlive = b], bytes)
<1>4. \E b, bytes : Goto("send", t(b, bytes))
  BY DEF FinishBody, writeAndClose
<1>5. \A b, bytes : /\ t(b, bytes).readBuf = c.readBuf
                    /\ t(b, bytes).bodyNeed = 0
                    /\ t(b, bytes).takenOver = c.takenOver
  BY <1>1 DEF Queue, Conns
<1> HIDE DEF t
<1>6. \A b, bytes : Flow(t(b, bytes), k.rcvd, "send")
  <2> SUFFICES ASSUME NEW b, NEW bytes, ~c.takenOver
               PROVE  Flow(t(b, bytes), k.rcvd, "send")
    BY <1>5 DEF Flow
  <2> DEFINE f == Consumption(c, k.rcvd)
             i == c.header
             e == HeaderEnd(i)
             n == script[i].body
             u == t(b, bytes)
  <2>1. /\ f \in Nat /\ c.readBuf = Between(f, k.rcvd)
        /\ BodyTo(c, f) /\ Len(c.bodyBuf) = c.bodyNeed
    BY <1>1, <1>2 DEF Flow, BodyAt
  <2>2. /\ c.bodyNeed = n /\ e <= f /\ c.bodyBuf = Between(e, f)
    BY <2>1 DEF BodyTo
  <2>3. e \in Nat /\ Start[i + 1] = e + n + 1
    BY <1>1, <1>3, HeaderEndFacts
  <2>4. i + 1 \in 1..(N + 1)
    BY <1>1, <1>3, LayoutFacts
  <2> HIDE DEF f, e, n, i
  <2>5. Len(c.bodyBuf) = f - e
    BY <2>1, <2>2, <2>3, BetweenFacts
  <2>6. n = f - e
    BY <2>1, <2>2, <2>5
  <2>7. f + 1 = Start[i + 1]
    <3> DEFINE z == Start[i + 1]
    <3>1. z = e + n + 1
      BY <2>3
    <3> HIDE DEF z
    <3>2. f + 1 = z
      BY <2>1, <2>3, <2>6, <3>1
    <3> QED  BY <3>2 DEF z
  <2>8. Boundary(f)
    BY <2>4, <2>7 DEF Boundary
  <2>9. u.readBuf = c.readBuf /\ u.bodyNeed = 0 /\ u.takenOver = c.takenOver
    BY <1>5
  <2> HIDE DEF u
  <2>10. Consumption(u, k.rcvd) = f
    BY <2>9 DEF Consumption, f
  <2>11. Flow(u, k.rcvd, "send")
    BY <2>1, <2>8, <2>9, <2>10 DEF Flow
  <2> QED  BY <2>11 DEF u
<1> QED  BY <1>4, <1>6, GotoFlow

LEMMA DirectSendFlow ==
  ASSUME SInv, DirectSend
  PROVE  InStream'
<1>1. /\ c \in Conns /\ k \in Sockets /\ ret \in {"drain", "body"}
      /\ pc = "send" /\ Input(c, c)
  BY SInvFacts DEF DirectSend, Input, TypeOK
<1>2. /\ Suits(c, "drain") /\ Suits(c, "parse") /\ Suits(c, ret)
      /\ Suits(c, "send")
  BY <1>1 DEF Suits
<1>3. CASE Sent
  <2>1. \/ pc' = ret /\ UNCHANGED <<env, c, k>>
        \/ Goto("drain", c) \/ CloseConn(c) \/ Goto("parse", c)
        \/ c.readBuf = <<>> /\ Goto("speculate", c)
    <3>1. c.pending \in 0..1 /\ c.bodyNeed \in Nat /\ c.keepAlive \in BOOLEAN
      BY <1>1 DEF Conns
    <3>2. CASE c.bodyNeed > 0
      BY <1>3, <3>2 DEF Sent
    <3>3. CASE c.bodyNeed = 0 /\ c.pending > 0
      BY <1>3, <3>3 DEF Sent, Loop
    <3>4. CASE c.bodyNeed = 0 /\ c.pending = 0 /\ ~c.keepAlive
      BY <1>3, <3>4 DEF Sent
    <3>5. CASE /\ c.bodyNeed = 0 /\ c.pending = 0 /\ c.keepAlive
               /\ c.readBuf # <<>>
      BY <1>3, <3>5 DEF Sent
    <3>6. CASE /\ c.bodyNeed = 0 /\ c.pending = 0 /\ c.keepAlive
               /\ c.readBuf = <<>>
      BY <1>3, <3>6 DEF Sent, Loop
    <3> QED  BY <3>1, <3>2, <3>3, <3>4, <3>5, <3>6
  <2>2. CASE pc' = ret /\ UNCHANGED <<env, c, k>>
    BY <1>1, <1>2, <2>2, MoveFlow
  <2>3. CASE Goto("drain", c)
    BY <1>1, <1>2, <2>3, GoFlow
  <2>4. CASE CloseConn(c)
    BY <1>1, <2>4, CloseFlow
  <2>5. CASE Goto("parse", c)
    BY <1>1, <1>2, <2>5, GoFlow
  <2>6. CASE c.readBuf = <<>> /\ Goto("speculate", c)
    <3>1. Suits(c, "speculate")
      BY <2>6 DEF Suits
    <3> QED  BY <1>1, <2>6, <3>1, GoFlow
  <2> QED  BY <2>1, <2>2, <2>3, <2>4, <2>5, <2>6
<1>4. CASE failSend
  <2> DEFINE s == [c EXCEPT !.sendBuf = <<>>, !.file = <<>>]
             t == [s EXCEPT !.closePending = TRUE]
  <2>1. Goto("drain", t) \/ CloseConn(s)
    BY <1>4 DEF failSend, Loop
  <2>2. <<>> \in Parts
    BY DEF Parts
  <2>3. s \in Conns /\ Input(s, c) /\ Input(t, c)
    BY <1>1, <2>2 DEF Conns, Input
  <2> HIDE DEF s, t
  <2>4. CASE Goto("drain", t)
    BY <1>1, <1>2, <2>3, <2>4, GoFlow
  <2>5. CASE CloseConn(s)
    BY <2>3, <2>5, CloseFlow DEF Input
  <2> QED  BY <2>1, <2>4, <2>5
<1>5. CASE WouldBlock
  <2> DEFINE s == [c EXCEPT !.readDrained = FALSE]
  <2>1. pc' = ret /\ c' = s /\ env' = env /\ k' = Mod(k, "inout")
    BY <1>5 DEF WouldBlock
  <2>2. Input(s, c)
    BY <1>1, FlagsInput
  <2>3. k'.rcvd = k.rcvd /\ k'.sent = k.sent
    BY <1>1, <2>1 DEF Mod, Sockets
  <2> HIDE DEF s
  <2> QED  BY <1>1, <1>2, <2>1, <2>2, <2>3, MoveFlow
<1>6. ASSUME NEW bytes, NEW s, Input(s, c), Transfer(bytes, s)
      PROVE  InStream'
  <2>1. pc' = pc /\ c' = s /\ env' = env /\ k' = AfterWrite(k, bytes)
    BY <1>6 DEF Transfer
  <2>2. k'.rcvd = k.rcvd /\ k'.sent = k.sent
    BY <1>1, <2>1 DEF AfterWrite, Sockets
  <2> QED  BY <1>1, <1>2, <1>6, <2>1, <2>2, MoveFlow
<1>7. CASE Transfer(c.sendBuf,
                    [c EXCEPT !.sendBuf = Rest(@, Wrote(k, c.sendBuf))])
  <2>1. Input([c EXCEPT !.sendBuf = Rest(@, Wrote(k, c.sendBuf))], c)
    BY <1>1 DEF Input, Conns
  <2> QED  BY <1>6, <1>7, <2>1
<1>8. CASE Transfer(c.file, [c EXCEPT !.file = Rest(@, Wrote(k, c.file))])
  <2>1. Input([c EXCEPT !.file = Rest(@, Wrote(k, c.file))], c)
    BY <1>1 DEF Input, Conns
  <2> QED  BY <1>6, <1>8, <2>1
<1> QED  BY <1>3, <1>4, <1>5, <1>7, <1>8 DEF DirectSend


LEMMA HandleSendFlow ==
  ASSUME SInv, HandleSend
  PROVE  InStream'
<1> DEFINE s == [c EXCEPT !.readDrained = FALSE]
<1>1. c \in Conns /\ k \in Sockets /\ pc = "writable"
  BY SInvFacts DEF HandleSend
<1>2. Input(s, c) /\ Suits(c, "send") /\ Suits(c, "drain")
  BY <1>1, FlagsInput DEF Suits
<1>3. \/ Goto("send", s)
      \/ pc' = "drain" /\ c' = s /\ env' = env /\ k' = Mod(k, "in")
  BY DEF HandleSend, Continue, Loop
<1> HIDE DEF s
<1>4. CASE Goto("send", s)
  BY <1>1, <1>2, <1>4, GoFlow
<1>5. CASE pc' = "drain" /\ c' = s /\ env' = env /\ k' = Mod(k, "in")
  <2>1. k'.rcvd = k.rcvd /\ k'.sent = k.sent
    BY <1>1, <1>5 DEF Mod, Sockets
  <2> QED  BY <1>1, <1>2, <1>5, <2>1, MoveFlow
<1> QED  BY <1>3, <1>4, <1>5

LEMMA HandleDoneFlow ==
  ASSUME SInv, HandleDone
  PROVE  InStream'
<1> DEFINE msg == Head(doneCh)
           s   == [c EXCEPT !.pending = @ - 1]
           t   == [s EXCEPT !.keepAlive = msg.ka]
           u   == [s EXCEPT !.file = <<>>]
           v   == Queue(t, msg.data)
<1>1. c \in Conns /\ k \in Sockets /\ pc = "drain"
  BY SInvFacts DEF HandleDone
<1>2. Input(t, c) /\ Input(u, c) /\ Input(v, c)
  BY <1>1 DEF Input, Queue, Conns
<1>3. /\ Suits(c, "closed") /\ Suits(c, "parse") /\ Suits(c, "recv")
      /\ Suits(c, "drain")
  BY DEF Suits
<1>4. \/ /\ pc' = "closed" /\ c' = u /\ env' = env
         /\ k' = [k EXCEPT !.mask = "none", !.ready = FALSE]
      \/ /\ pc' \in {"parse", "recv", "drain"} /\ c' = t
         /\ UNCHANGED <<env, k>>
      \/ pc' = "drain" /\ c' = v /\ env' = env /\ k' = Mod(k, "inout")
  BY DEF HandleDone, Loop
<1> HIDE DEF s, t, u, v
<1>5. k'.rcvd = k.rcvd /\ k'.sent = k.sent
  BY <1>1, <1>4 DEF Mod, Sockets
<1>6. CASE pc' = "closed" /\ c' = u /\ env' = env
  BY <1>1, <1>2, <1>3, <1>5, <1>6, MoveFlow
<1>7. CASE pc' \in {"parse", "recv", "drain"} /\ c' = t /\ env' = env
  BY <1>1, <1>2, <1>3, <1>5, <1>7, MoveFlow
<1>8. CASE pc' = "drain" /\ c' = v /\ env' = env
  BY <1>1, <1>2, <1>3, <1>5, <1>8, MoveFlow
<1> QED  BY <1>4, <1>6, <1>7, <1>8

LEMMA WaitFlow ==
  ASSUME SInv, DoneChEmpty \/ Wait
  PROVE  InStream'
<1>1. k \in Sockets /\ Input(c, c)
  BY SInvFacts DEF Input
<1>2. /\ pc # "closed" /\ pc' \in {"wait", "writable", "recv", "drain"}
      /\ c' = c /\ env' = env
      /\ \/ k' = k
         \/ k' = [k EXCEPT !.ready = FALSE,
                           !.nospace = @ \/ (k.mask = "inout" /\ k.space = 0)]
  BY DEF DoneChEmpty, Wait, Goto, Continue, Loop
<1>3. k'.rcvd = k.rcvd /\ k'.sent = k.sent
  BY <1>1, <1>2 DEF Sockets
<1>4. Suits(c, pc')
  BY <1>2 DEF Suits
<1> QED  BY <1>1, <1>2, <1>3, <1>4, MoveFlow

\* Neither a handler nor the client touches what the loop has read.
LEMMA OthersFlow ==
  ASSUME SInv, HandlerStep \/ ClientStep
  PROVE  InStream'
<1>1. k \in Sockets /\ Flow(c, k.rcvd, pc) /\ k.sent <= Total
  BY SInvFacts DEF SInv
<1>2. pc' = pc /\ c' = c /\ env' = env
  BY DEF HandlerStep, HandlerReturns, TakeoverServes, TakeoverBody,
         TakeoverRefuses, TakeoverEnds, ClientStep, ClientSends, ClientReads, ClientFinishes,
         ClientResets
<1>3. CASE HandlerStep
  <2>1. k' = k \/ \E bytes : k' = AfterWrite(k, bytes)
    BY <1>3 DEF HandlerStep, HandlerReturns, TakeoverServes, TakeoverBody,
                TakeoverRefuses, TakeoverEnds
  <2>2. k'.rcvd = k.rcvd /\ k'.sent = k.sent
    BY <1>1, <2>1 DEF AfterWrite, Sockets
  <2> QED  BY <1>1, <1>2, <2>2, FlowFrame
<1>4. CASE ClientReads \/ ClientFinishes \/ ClientResets
  <2>1. k'.rcvd = k.rcvd /\ k'.sent = k.sent
    BY <1>1, <1>4 DEF ClientReads, ClientFinishes, ClientResets, Sockets
  <2> QED  BY <1>1, <1>2, <2>1, FlowFrame
<1>5. CASE ClientSends
  <2>1. k.sent < Total /\ k' = [k EXCEPT !.sent = @ + 1,
                                         !.ready = @ \/ k.mask # "none"]
    BY <1>5 DEF ClientSends
  <2>2. k'.rcvd = k.rcvd /\ k'.sent = k.sent + 1 /\ k.sent \in Nat
    BY <1>1, <2>1 DEF Sockets
  <2>3. Total \in Nat
    BY SInvFacts, LayoutFacts
  <2>4. k.sent + 1 <= Total
    BY <2>1, <2>2, <2>3
  <2>5. /\ N' = N /\ Start' = Start /\ script' = script /\ Total' = Total
    BY <1>2 DEF N, Start, script, Total, End
  <2>6. \A f : Boundary(f)' = Boundary(f)
    BY <2>5 DEF Boundary
  <2>7. \A f : BodyAt(c, f)' = BodyAt(c, f)
    BY <1>2, <2>5 DEF BodyAt, BodyTo, HeaderEnd
  <2>8. Flow(c, k.rcvd, pc)'
    BY <1>1, <1>2, <2>2, <2>6, <2>7 DEF Flow, Consumption
  <2> QED  BY <2>2, <2>4, <2>5, <2>8 DEF InStream
<1> QED  BY <1>3, <1>4, <1>5 DEF ClientStep

-----------------------------------------------------------------------------
(* The theorems. *)

LEMMA InitHolds == Init => IInv
<1> SUFFICES ASSUME Init PROVE IInv
  OBVIOUS
<1>1. Scenario(env)
  BY ConstantsAssumption DEF Init
<1>2. /\ pc = "accept" /\ ret = "drain" /\ c = NewConn
      /\ job = <<>> /\ doneCh = <<>>
      /\ k = [sent |-> 0, rcvd |-> 0, fin |-> FALSE, rst |-> FALSE,
              space |-> SendCap, nospace |-> FALSE, out |-> <<>>,
              mask |-> "in", ready |-> FALSE]
  BY DEF Init, Loop
<1>3. /\ BufCap \in Nat /\ SendCap \in 0..SendCap /\ 0 \in 0..N
      /\ Timeouts \in BOOLEAN
  BY <1>1, ScenarioFacts
<1>4. <<>> \in Bytes /\ <<>> \in Parts /\ Len(<<>>) = 0
  BY DEF Bytes, Parts
<1>5. c \in Conns
  BY <1>2, <1>3, <1>4 DEF NewConn, Conns
<1>6. /\ c.inflight = 0 /\ c.bodyNeed = 0 /\ c.pending = 0
      /\ c.readBuf = <<>> /\ c.bodyBuf = <<>>
  BY <1>2 DEF NewConn
<1>7. k \in Sockets /\ k.rcvd <= k.sent
  BY <1>2, <1>3, <1>4 DEF Sockets
<1>8. TypeOK
  BY <1>1, <1>2, <1>5, <1>7 DEF TypeOK, Places
<1>9. Fits(c)
  BY <1>3, <1>4, <1>6 DEF Fits
<1>10. At(pc, ret, c)
  BY <1>2, <1>6 DEF At, Filling
<1>11. Owes(c, job, doneCh)
  BY <1>2, <1>4, <1>6 DEF Owes
<1> QED  BY <1>8, <1>9, <1>10, <1>11 DEF IInv

LEMMA StepKeeps == IInv /\ [Next]_vars => IInv'
<1> SUFFICES ASSUME IInv, [Next]_vars PROVE IInv'
  OBVIOUS
<1>1. CASE UNCHANGED vars
  <2>1. UNCHANGED <<env, pc, ret, c, job, doneCh, k>>
    BY <1>1 DEF vars
  <2> QED  BY <2>1, ConnFacts, SocketKeeps
<1>2. CASE LoopStep
  BY <1>2, AcceptStep, HandleRecvStep, TryParseStep, RefillStep,
     DrainBodyStep, DrainPipelinedStep, FinishBodyStep, DirectSendStep,
     SpeculateStep, HandleSendStep, HandleDoneStep, WaitStep DEF LoopStep
<1>3. CASE SweepTimeouts
  BY <1>3, SweepStep
<1>4. CASE HandlerStep
  BY <1>4, HandlerReturnsStep, TakeoverServesStep, TakeoverBodyStep,
     TakeoverRefusesStep, TakeoverEndsStep DEF HandlerStep
<1>5. CASE ClientStep
  BY <1>5, ClientKeeps
<1> QED  BY <1>1, <1>2, <1>3, <1>4, <1>5 DEF Next

LEMMA Inductive == Spec => []IInv
<1> QED  BY InitHolds, StepKeeps, PTL DEF Spec

\* Every handler of the event loop, every handler goroutine and every action
\* of the client leaves each part of the state in its type.
THEOREM TypeCorrect == Spec => []TypeOK
<1>1. IInv => TypeOK
  BY DEF IInv
<1> QED  BY <1>1, Inductive, PTL

(* The charge of takeoverLoop: only a goroutine in the loop of takeoverLoop *)
(* has one, and it is the length of the body that it is reading.            *)

Charged ==
  /\ charged = InBody(job)
  /\ job # <<>> /\ job.need # 0 => job.mode = "loop"

\* A step of the loop or of the client charges nothing for takeoverLoop, and a
\* request that goes to a goroutine has charged nothing yet.
Lends ==
  /\ charged' = charged
  /\ job' = job \/ (job = <<>> /\ job' # <<>> /\ job'.need = 0)

LEMMA LendsKeeps ==
  ASSUME Charged, Lends
  PROVE  Charged'
  BY DEF Charged, Lends, InBody

LEMMA DispatchLends ==
  ASSUME IInv, Parsing, NEW i \in 1..N, Dispatch(i)
  PROVE  Lends
<1>1. PICK s \in Conns :
        \/ Goto("send", s) \/ DispatchInline(s, i) \/ DispatchFile(s, i)
        \/ DispatchPending(s, i) \/ DispatchTakeover(s, i)
  BY DispatchCases
<1>2. job = <<>>
  BY NobodyOwns DEF Parsing
<1>3. ASSUME NEW j, NEW x, NEW y, NEW m,
             j = [i |-> x, ka |-> y, need |-> 0, mode |-> m]
      PROVE  j # <<>> /\ j.need = 0
  <2>1. j.need = 0 /\ DOMAIN j = {"i", "ka", "need", "mode"}
    BY <1>3
  <2>2. DOMAIN <<>> = {}
    OBVIOUS
  <2> QED  BY <2>1, <2>2
<1>4. CASE DispatchPending(s, i)
  <2>1. charged' = charged
    BY <1>4 DEF DispatchPending
  <2>2. CASE DispatchSaturated(s, i)
    BY <2>1, <2>2 DEF DispatchSaturated, Lends
  <2>3. CASE DispatchAsync(s, i)
    BY <1>2, <1>3, <2>1, <2>3 DEF DispatchAsync, Lends
  <2> QED  BY <1>4, <2>2, <2>3 DEF DispatchPending
<1>5. CASE DispatchTakeover(s, i)
  BY <1>2, <1>3, <1>5 DEF DispatchTakeover, Lends
<1>6. CASE Goto("send", s) \/ DispatchInline(s, i) \/ DispatchFile(s, i)
  BY <1>6 DEF DispatchInline, DispatchFile, ParseEnd, Goto, Continue,
              CloseConn, Lends
<1> QED  BY <1>1, <1>4, <1>5, <1>6

LEMMA LoopLends ==
  ASSUME IInv, LoopStep \/ SweepTimeouts \/ ClientStep
  PROVE  Lends
<1>1. ASSUME NEW p, NEW s, Goto(p, s) \/ Continue(p, s) \/ CloseConn(s)
      PROVE  Lends
  BY <1>1 DEF Goto, Continue, CloseConn, Lends
<1>2. ASSUME NEW s, NEW i, ParseEnd(s) \/ writeAndClose(s, i)
      PROVE  Lends
  BY <1>1, <1>2 DEF ParseEnd, writeAndClose
<1>3. CASE Accept
  BY <1>1, <1>3 DEF Accept
<1>4. CASE HandleRecv
  BY <1>1, <1>4, HandleRecvCases
<1>5. CASE TryParse
  <2>1. CASE c.readBuf = <<>>
    BY <1>2, <1>5, <2>1 DEF TryParse
  <2>2. CASE c.readBuf # <<>>
    <3> DEFINE i == RequestAt(c.readBuf[1])
    <3>1. Parsing
      BY <1>5, ParsingFacts DEF TryParse, Reading
    <3>2. /\ i \in 1..N
          /\ \/ HeaderMore \/ CloseConn(c) \/ writeAndClose(c, i)
             \/ Dispatch(i) \/ BeginBody(i)
      BY <1>5, <2>2, <3>1, TryParseCases
    <3> HIDE DEF i
    <3>3. CASE HeaderMore
      BY <1>1, <1>2, <3>3 DEF HeaderMore
    <3>4. CASE BeginBody(i)
      BY <1>1, <1>2, <3>4 DEF BeginBody, Lends
    <3> QED  BY <1>1, <1>2, <3>1, <3>2, <3>3, <3>4, DispatchLends
  <2> QED  BY <2>1, <2>2
<1>6. CASE Refill \/ DrainBody \/ DrainPipelined \/ FinishBody
  BY <1>1, <1>2, <1>6 DEF Refill, DrainBody, DrainPipelined, FinishBody
<1>7. CASE DirectSend
  <2>1. CASE Sent \/ failSend
    BY <1>1, <2>1 DEF Sent, failSend, Lends
  <2>2. CASE WouldBlock \/ \E bytes, s : Transfer(bytes, s)
    BY <2>2 DEF WouldBlock, Transfer, Lends
  <2> QED  BY <1>7, <2>1, <2>2 DEF DirectSend
<1>8. CASE Speculate \/ HandleSend \/ DoneChEmpty \/ Wait \/ SweepTimeouts
  BY <1>1, <1>8 DEF Speculate, HandleSend, DoneChEmpty, Wait, SweepTimeouts
<1>9. CASE HandleDone
  BY <1>9 DEF HandleDone, Lends
<1>10. CASE ClientStep
  BY <1>10 DEF ClientStep, ClientSends, ClientReads, ClientFinishes,
               ClientResets, Lends
<1> QED  BY <1>3, <1>4, <1>5, <1>6, <1>7, <1>8, <1>9, <1>10 DEF LoopStep

LEMMA HandlerCharges ==
  ASSUME IInv, Charged, HandlerStep
  PROVE  Charged'
<1>1. job # <<>>
  BY DEF HandlerStep, HandlerReturns, TakeoverServes, TakeoverBody,
         TakeoverRefuses, TakeoverEnds, TakeoverOver, BetweenRequests
<1>2. job \in Jobs
  BY <1>1 DEF IInv, TypeOK
<1>3. job.need \in Nat /\ charged = job.need
  BY <1>1, <1>2 DEF Jobs, Charged, InBody
<1>4. CASE HandlerReturns
  <2>1. job.need = 0
    BY <1>1, <1>4 DEF HandlerReturns, Charged
  <2>2. charged' = charged /\ job' = <<>>
    BY <1>4 DEF HandlerReturns, Complete
  <2> QED  BY <1>3, <2>1, <2>2 DEF Charged, InBody
<1>5. CASE TakeoverServes
  <2> DEFINE b == Upcoming.ka
             n == job.i + 1
  <2>1. charged' = charged /\ (job' = job \/ job' = [job EXCEPT !.i = n, !.ka = b])
    BY <1>2, <1>5 DEF TakeoverServes, Jobs
  <2> HIDE DEF b, n
  <2>2. job'.need = job.need /\ job'.mode = job.mode /\ (job' = job \/ DOMAIN job' # {})
    BY <1>2, <2>1 DEF Jobs
  <2>3. job' # <<>>
    BY <1>1, <2>2
  <2> QED  BY <1>1, <1>3, <2>1, <2>2, <2>3 DEF Charged, InBody
<1>6. CASE TakeoverBody
  <2> DEFINE b == Upcoming.ka
             n == job.i + 1
             m == Upcoming.body
  <2>1. \/ job.need = 0 /\ charged' = charged + m /\ job' = [job EXCEPT !.need = m]
        \/ charged' = charged - job.need /\ job' = [job EXCEPT !.i = n, !.ka = b, !.need = 0]
    BY <1>2, <1>6 DEF TakeoverBody, Jobs
  <2>2. job.mode = "loop" /\ job.i < N
    BY <1>6 DEF TakeoverBody, BetweenRequests
  <2>3. m \in Nat
    <3>1. Scenario(env) /\ N \in Nat
      BY ScenarioFacts DEF IInv, TypeOK
    <3>2. job.i \in 1..N
      BY <1>2 DEF Jobs
    <3>3. job.i + 1 \in 1..N
      BY <2>2, <3>1, <3>2
    <3>4. RequestOK(job.i + 1)
      BY <3>1, <3>3, RequestFacts
    <3> QED  BY <3>4, Zenon DEF RequestOK, Upcoming
  <2> HIDE DEF b, n, m
  <2>4. charged' = job'.need /\ job'.mode = "loop" /\ DOMAIN job' # {}
    <3>1. CASE job.need = 0 /\ charged' = charged + m
               /\ job' = [job EXCEPT !.need = m]
      BY <1>2, <1>3, <2>2, <2>3, <3>1 DEF Jobs
    <3>2. CASE charged' = charged - job.need
               /\ job' = [job EXCEPT !.i = n, !.ka = b, !.need = 0]
      BY <1>2, <1>3, <2>2, <3>2 DEF Jobs
    <3> QED  BY <2>1, <3>1, <3>2
  <2>5. job' # <<>>
    BY <2>4
  <2> QED  BY <2>4, <2>5 DEF Charged, InBody
<1>7. CASE TakeoverRefuses
  <2>1. job.need = 0 /\ charged' = charged /\ job' = <<>>
    BY <1>7 DEF TakeoverRefuses, Finished, Complete
  <2> QED  BY <1>3, <2>1 DEF Charged, InBody
<1>8. CASE TakeoverEnds
  <2>1. charged' = charged - job.need /\ job' = <<>>
    BY <1>8 DEF TakeoverEnds, Finished, Complete
  <2> QED  BY <1>3, <2>1 DEF Charged, InBody
<1> QED  BY <1>4, <1>5, <1>6, <1>7, <1>8 DEF HandlerStep

LEMMA ChargeIsExact == Spec => []Charged
<1>1. Init => Charged
  BY DEF Init, Charged, InBody
<1>2. IInv /\ Charged /\ [Next]_vars => Charged'
  <2> SUFFICES ASSUME IInv, Charged, [Next]_vars PROVE Charged'
    OBVIOUS
  <2>1. CASE UNCHANGED vars
    BY <2>1 DEF vars, Charged, InBody
  <2>2. CASE LoopStep \/ SweepTimeouts \/ ClientStep
    BY <2>2, LoopLends, LendsKeeps
  <2>3. CASE HandlerStep
    BY <2>3, HandlerCharges
  <2> QED  BY <2>1, <2>2, <2>3 DEF Next
<1> QED  BY <1>1, <1>2, Inductive, PTL DEF Spec

\* What beginBodyAccum reserved of maxInflightBody is given back exactly once,
\* on every way out of a body (finished, refused, timed out, client gone), and
\* so is what takeoverLoop charged for the bodies it reads itself; neither the
\* read buffer nor the body outgrows its room, whatever is sent.
THEOREM BudgetIsExact == Spec => []BudgetExact
<1>1. IInv /\ Charged => BudgetExact
  BY DEF IInv, Fits, Charged, BudgetExact
<1> QED  BY <1>1, Inductive, ChargeIsExact, PTL

\* closeConn never frees the fd of a connection whose handler goroutine has
\* not reported its end (pending, closePending), and a goroutine that writes
\* to the fd itself never runs while the loop still has bytes to send.
THEOREM HandlersOwnTheirFd == Spec => []HandlerOwnsFd
<1>1. IInv => HandlerOwnsFd
  <2> SUFFICES ASSUME IInv PROVE HandlerOwnsFd
    OBVIOUS
  <2>1. pc = "closed" => c.pending = 0
    BY DEF IInv, At
  <2>2. pc = "closed" => job = <<>>
    BY <2>1, NobodyOwns
  <2>3. job # <<>> /\ job.mode # "queue" => ~Unsent(c)
    BY DEF IInv, Owes
  <2> QED  BY <2>2, <2>3 DEF HandlerOwnsFd, FdHeldForHandler, OneWriter
<1> QED  BY <1>1, Inductive, PTL

LEMMA StreamStarts == Init => SInv
<1> SUFFICES ASSUME Init PROVE SInv
  OBVIOUS
<1>1. IInv
  BY InitHolds
<1>2. Scenario(env)
  BY <1>1 DEF IInv, TypeOK
<1>3. /\ pc = "accept" /\ k.sent = 0 /\ k.rcvd = 0
      /\ c.readBuf = <<>> /\ c.bodyNeed = 0
  BY DEF Init, NewConn
<1>4. Total \in Nat /\ 1 \in 1..(N + 1) /\ Start[1] = 1
  BY <1>2, LayoutFacts
<1>5. Consumption(c, k.rcvd) = 0
  <2> DEFINE l == Len(c.readBuf)
             r == k.rcvd
  <2>1. l = 0
    BY <1>3
  <2>2. r = 0 /\ Consumption(c, k.rcvd) = r - l
    BY <1>3 DEF Consumption
  <2> HIDE DEF l, r
  <2>3. r - l = 0
    BY <2>1, <2>2
  <2> QED  BY <2>2, <2>3
<1>6. Between(0, 0) = <<>>
  BY BetweenEmpty
<1>7. Boundary(0)
  <2>1. 0 + 1 = Start[1]
    BY <1>4
  <2> QED  BY <1>4, <2>1 DEF Boundary
<1>8. Flow(c, k.rcvd, pc)
  BY <1>3, <1>5, <1>6, <1>7 DEF Flow
<1> QED  BY <1>1, <1>3, <1>4, <1>8 DEF SInv

LEMMA StreamGoesOn == SInv /\ [Next]_vars => SInv'
<1> SUFFICES ASSUME SInv, [Next]_vars PROVE SInv'
  OBVIOUS
<1>1. IInv'
  BY StepKeeps DEF SInv
<1>2. InStream'
  <2>1. CASE UNCHANGED vars
    <3>1. Flow(c, k.rcvd, pc)
      BY DEF SInv
    <3> QED  BY <2>1, <3>1, FlowFrame DEF vars
  <2>2. CASE LoopStep
    BY <2>2, AcceptFlow, HandleRecvFlow, TryParseFlow, RefillFlow,
       DrainBodyFlow, DrainPipelinedFlow, FinishBodyFlow, DirectSendFlow,
       SpeculateFlow, HandleSendFlow, HandleDoneFlow, WaitFlow DEF LoopStep
  <2>3. CASE SweepTimeouts
    BY <2>3, SInvFacts, CloseFlow DEF SweepTimeouts
  <2>4. CASE HandlerStep \/ ClientStep
    BY <2>4, OthersFlow
  <2> QED  BY <2>1, <2>2, <2>3, <2>4 DEF Next
<1> QED  BY <1>1, <1>2 DEF SInv, InStream

\* handleRecv, tryParse, beginBodyAccum and drainBodyAccum neither lose nor
\* repeat a byte of the client's stream, nor give one request's bytes to
\* another: a parse always starts at the first byte of a request, for every
\* pipeline and every way the kernel cuts the stream into reads.
THEOREM StreamStaysIntact == Spec => []StreamIntact
<1>1. SInv => StreamIntact
  <2> SUFFICES ASSUME SInv, ~c.takenOver PROVE StreamIntact
    BY DEF StreamIntact
  <2> DEFINE f == Consumption(c, k.rcvd)
             l == Len(c.readBuf)
  <2>1. /\ Scenario(env) /\ c \in Conns /\ Fits(c) /\ c.bodyNeed \in Nat
        /\ Flow(c, k.rcvd, pc)
    BY SInvFacts
  <2>2. c.readBuf = Span(k.rcvd - l + 1, k.rcvd)
    BY <2>1 DEF Flow, Consumption, Between
  <2>3. ASSUME c.bodyNeed > 0
        PROVE  LET from == Start[c.header] + script[c.header].hdr
               IN  c.bodyBuf = Span(from, from + Len(c.bodyBuf) - 1)
    <3> DEFINE i == c.header
               e == HeaderEnd(i)
               from == Start[i] + script[i].hdr
    <3>1. f \in Nat /\ BodyTo(c, f)
      BY <2>1, <2>3 DEF Flow, BodyAt
    <3>2. e <= f /\ c.bodyBuf = Between(e, f)
      BY <3>1 DEF BodyTo
    <3>3. i \in 1..N
      <4>1. i \in 0..N /\ i > 0 /\ N \in Nat
        BY <2>1, <2>3, ScenarioFacts DEF Fits, Conns
      <4> QED  BY <4>1
    <3>4. e \in Nat /\ e = from - 1 /\ from \in Nat
      <4> DEFINE h == script[i].hdr
                 b == Start[i]
      <4>1. RequestOK(i)
        BY <2>1, <3>3, RequestFacts
      <4>2. h \in Nat
        BY <4>1, Zenon DEF RequestOK
      <4>3. e \in Nat /\ b \in Nat /\ e = b - 1 + h /\ from = b + h
        BY <2>1, <3>3, HeaderEndFacts
      <4> HIDE DEF e, h, b, from
      <4> QED  BY <4>2, <4>3
    <3> HIDE DEF f, e, from
    <3>6. Len(c.bodyBuf) = f - e
      BY <3>1, <3>2, <3>4, BetweenFacts
    <3>7. e + 1 = from /\ from + (f - e) - 1 = f
      BY <3>1, <3>4
    <3>8. c.bodyBuf = Span(from, f)
      BY <3>2, <3>7 DEF Between
    <3>9. c.bodyBuf = Span(from, from + Len(c.bodyBuf) - 1)
      BY <3>6, <3>7, <3>8
    <3> QED  BY <3>9 DEF from
  <2>4. ASSUME pc = "parse", c.readBuf # <<>>
        PROVE  c.readBuf[1] = Start[RequestAt(c.readBuf[1])]
    BY <2>4, ParseAtRequest
  <2> QED  BY <2>2, <2>3, <2>4 DEF StreamIntact
<1>2. Spec => []SInv
  BY StreamStarts, StreamGoesOn, PTL DEF Spec
<1> QED  BY <1>1, <1>2, PTL

-----------------------------------------------------------------------------
(* The order of the responses: what is on the wire, followed by what waits   *)
(* in the send buffer, is the responses to all the requests that have left   *)
(* the read buffer, but for the one a handler is still to give.              *)

\* Requests that are served with whole responses.  A file response that
\* blocks, and an error response that blocks, are overtaken or repeated.
WellServed(e) ==
  /\ \A i \in 1..Len(e.script) :
       /\ e.script[i].d # "File" /\ e.script[i].bad = ""
       /\ e.script[i].hdr <= e.bufCap
       /\ e.script[i].d = "Hijack" => e.script[i].body = 0
  /\ ~e.bodyBudget

\* The parts w are in order.
InOrder(w) ==
  /\ w # <<>> => w[1] \in {<<1, 0>>, <<1, 1>>}
  /\ \A n \in 1..(Len(w) - 1) : Follows(w[n], w[n+1])

\* None of the parts w comes after part m of response i.
Within(w, i, m) ==
  \A n \in 1..Len(w) : w[n][1] < i \/ (w[n][1] = i /\ w[n][2] <= m)

\* The parts w are in order and end with part m of response i.
Upto(w, i, m) ==
  /\ InOrder(w) /\ Within(w, i, m)
  /\ IF i = 0 THEN w = <<>> /\ m = RespLen
     ELSE w # <<>> /\ w[Len(w)] = <<i, m>>

\* The parts w end before response i, but for its 100 Continue.
Before(w, i) == Upto(w, i - 1, RespLen) \/ Upto(w, i, 0)

\* The parts of response i among w.
Count(w, i) ==
  Cardinality({n \in 1..Len(w) : w[n][1] = i /\ w[n][2] > 0})

\* takeoverLoop has written w and is at request i.
Serving(w, i) ==
  \/ Before(w, i)
  \/ \E m \in 1..RespLen : Upto(w, i, m) /\ Count(w, i) = m
  \/ Upto(w, i + 1, 0) /\ Count(w, i) = RespLen

\* With w on its way, requests 1 to i are answered, or will be by j or d.
Owed(w, i, s, j, d) ==
  /\ s.pending = 0 => Upto(w, i, RespLen)
  /\ j # <<>> => j.i = i /\ Upto(w, i - 1, RespLen)
  /\ d # <<>> => ~d[1].file /\ Upto(w \o d[1].data, i, RespLen)

\* The loop serves the connection.
LoopOrder(s, w, f, j, d) ==
  /\ s.bodyNeed > 0 => Before(w, s.header)
  /\ s.bodyNeed = 0 =>
       \A i \in 0..N : f + 1 = Start[i + 1] => Owed(w, i, s, j, d)

\* A goroutine has taken the connection over.
TakenOrder(s, o, j, d) ==
  /\ s.pending = 1 /\ s.sendBuf = <<>>
  /\ j # <<>> => Serving(o, j.i) /\ j.mode \in {"loop", "hijack"}
  /\ d # <<>> => d[1].file

Order(s, o, f, j, d) ==
  /\ s.file = <<>>
  /\ ~s.takenOver => LoopOrder(s, o \o s.sendBuf, f, j, d)
  /\ s.takenOver => TakenOrder(s, o, j, d)

\* The connection still carries responses.
Live == ~k.rst /\ pc # "closed"

Ordered ==
  /\ InOrder(k.out)
  /\ Live => Order(c, k.out, Consumption(c, k.rcvd), job, doneCh)

OInv == SInv /\ (WellServed(env) => Ordered)

\* n parts of response i, behind part b of it.
Run(i, b, n) == [x \in 1..n |-> <<i, b + x>>]

LEMMA RunFacts ==
  ASSUME NEW i \in Nat, NEW b \in Int, b >= 0 - 1, NEW n \in Nat
  PROVE  /\ Run(i, b, n) \in Parts /\ Len(Run(i, b, n)) = n
         /\ \A x \in 1..n : Run(i, b, n)[x] = <<i, b + x>>
<1>1. \A x \in 1..n : b + x \in Nat
  OBVIOUS
<1>2. \A x \in 1..n : <<i, b + x>> \in Nat \X Nat
  BY <1>1
<1>3. Run(i, b, n) \in Parts /\ Len(Run(i, b, n)) = n
  BY <1>2 DEF Run, Parts
<1>4. \A x \in 1..n : Run(i, b, n)[x] = <<i, b + x>>
  BY DEF Run
<1> QED  BY <1>3, <1>4

LEMMA RunResponse ==
  ASSUME NEW i \in Nat
  PROVE  Response(i) = Run(i, 0, RespLen)
<1>1. \A x \in 1..RespLen : 0 + x = x
  BY ConstantsAssumption
<1> QED  BY <1>1 DEF Response, Run

LEMMA RunContinue ==
  ASSUME NEW i \in Nat
  PROVE  <<<<i, 0>>>> = Run(i, 0 - 1, 1)
<1> DEFINE s == <<<<i, 0>>>>
           t == Run(i, 0 - 1, 1)
<1>1. t \in Seq(Nat \X Nat) /\ Len(t) = 1 /\ t[1] = <<i, 0 - 1 + 1>>
  <2> DEFINE b == 0 - 1
             n == 1
  <2>1. b \in Int /\ b >= 0 - 1 /\ n \in Nat /\ 1 \in 1..n
    OBVIOUS
  <2> HIDE DEF b, n
  <2>2. /\ Run(i, b, n) \in Parts /\ Len(Run(i, b, n)) = n
        /\ Run(i, b, n)[1] = <<i, b + 1>>
    BY <2>1, RunFacts
  <2> QED  BY <2>2 DEF b, n, Parts
<1>2. s \in Seq(Nat \X Nat) /\ Len(s) = 1 /\ s[1] = <<i, 0>>
  OBVIOUS
<1>3. 0 - 1 + 1 = 0
  OBVIOUS
<1> HIDE DEF s, t
<1>4. \A x \in 1..1 : s[x] = t[x]
  BY <1>1, <1>2, <1>3
<1>5. s = t
  BY <1>1, <1>2, <1>4, SeqEqual
<1> QED  BY <1>5 DEF s, t

\* A run is cut in two runs.
LEMMA RunCut ==
  ASSUME NEW i \in Nat, NEW b \in Nat, NEW n \in Nat, NEW m \in 0..n
  PROVE  /\ SubSeq(Run(i, b, n), 1, m) = Run(i, b, m)
         /\ Rest(Run(i, b, n), m) = Run(i, b + m, n - m)
<1> DEFINE r == Run(i, b, n)
           u == Run(i, b, m)
           v == Run(i, b + m, n - m)
           p == SubSeq(r, 1, m)
           q == SubSeq(r, m + 1, Len(r))
<1>1. /\ m \in Nat /\ n - m \in Nat /\ b + m \in Nat /\ m <= n
      /\ b \in Int /\ b >= 0 - 1
  OBVIOUS
<1>2. /\ r \in Seq(Nat \X Nat) /\ Len(r) = n
      /\ \A x \in 1..n : r[x] = <<i, b + x>>
  BY <1>1, RunFacts DEF Parts
<1>3. /\ u \in Seq(Nat \X Nat) /\ Len(u) = m
      /\ \A x \in 1..m : u[x] = <<i, b + x>>
  BY <1>1, RunFacts DEF Parts
<1>4. /\ v \in Seq(Nat \X Nat) /\ Len(v) = n - m
      /\ \A x \in 1..(n - m) : v[x] = <<i, b + m + x>>
  <2> DEFINE a == b + m
             l == n - m
  <2>1. a \in Nat /\ a \in Int /\ a >= 0 - 1 /\ l \in Nat
    BY <1>1
  <2> HIDE DEF a, l
  <2>2. /\ Run(i, a, l) \in Seq(Nat \X Nat) /\ Len(Run(i, a, l)) = l
        /\ \A x \in 1..l : Run(i, a, l)[x] = <<i, a + x>>
    BY <2>1, RunFacts DEF Parts
  <2> QED  BY <2>2 DEF a, l
<1> HIDE DEF r, u, v
<1>5. p = u
  <2>1. /\ p \in Seq(Nat \X Nat) /\ Len(p) = m
        /\ \A x \in 1..m : p[x] = r[x]
    BY <1>1, <1>2, SubSeqProperties
  <2> HIDE DEF p
  <2>2. ASSUME NEW x \in 1..m PROVE p[x] = u[x]
    <3>1. x \in 1..n
      BY <1>1
    <3> QED  BY <1>2, <1>3, <2>1, <3>1
  <2> QED  BY <1>3, <2>1, <2>2, SeqEqual
<1>6. q = v
  <2>1. /\ q \in Seq(Nat \X Nat) /\ Len(q) = n - m
        /\ \A x \in 1..(n - m) : q[x] = r[m + x]
    BY <1>1, <1>2, SubSeqProperties
  <2> HIDE DEF q
  <2>2. ASSUME NEW x \in 1..(n - m) PROVE q[x] = v[x]
    <3>1. m + x \in 1..n /\ b + (m + x) = b + m + x
      BY <1>1
    <3>2. r[m + x] = <<i, b + (m + x)>>
      BY <1>2, <3>1
    <3> QED  BY <1>4, <2>1, <3>1, <3>2
  <2> QED  BY <1>4, <2>1, <2>2, SeqEqual
<1> QED  BY <1>5, <1>6 DEF r, u, v, Rest

\* A sequence is what is written of it and the rest.
LEMMA CutJoin ==
  ASSUME NEW q \in Parts, NEW n \in 0..Len(q)
  PROVE  /\ SubSeq(q, 1, n) \in Parts /\ Rest(q, n) \in Parts
         /\ SubSeq(q, 1, n) \o Rest(q, n) = q
<1> DEFINE S == Nat \X Nat
           u == SubSeq(q, 1, n)
           v == SubSeq(q, n + 1, Len(q))
           l == Len(q)
<1>1. q \in Seq(S) /\ l \in Nat /\ n \in Nat /\ n <= l
  BY LenProperties DEF Parts
<1>2. /\ u \in Seq(S) /\ Len(u) = n
      /\ \A x \in 1..n : u[x] = q[x]
  BY <1>1, ElementOfSeq, SubSeqProperties
<1>3. /\ v \in Seq(S) /\ Len(v) = l - n
      /\ \A x \in 1..(l - n) : v[x] = q[n + x]
  BY <1>1, ElementOfSeq, SubSeqProperties
<1> HIDE DEF u, v, S
<1>4. /\ u \o v \in Seq(S) /\ Len(u \o v) = Len(u) + Len(v)
      /\ \A x \in 1..(Len(u) + Len(v)) :
           (u \o v)[x] = IF x <= Len(u) THEN u[x] ELSE v[x - Len(u)]
  BY <1>2, <1>3, ConcatProperties
<1> HIDE DEF l
<1>5. Len(u \o v) = l
  BY <1>1, <1>2, <1>3, <1>4
<1>6. ASSUME NEW x \in 1..l PROVE (u \o v)[x] = q[x]
  <2>1. CASE x <= n
    <3>1. x \in 1..n /\ x \in 1..(Len(u) + Len(v)) /\ x <= Len(u)
      BY <1>1, <1>2, <1>3, <2>1
    <3> QED  BY <1>2, <1>4, <3>1
  <2>2. CASE ~(x <= n)
    <3>1. /\ x - n \in 1..(l - n) /\ x \in 1..(Len(u) + Len(v))
          /\ ~(x <= Len(u)) /\ n + (x - n) = x
      BY <1>1, <1>2, <1>3, <2>2
    <3>2. (u \o v)[x] = v[x - n]
      BY <1>2, <1>4, <3>1
    <3>3. v[x - n] = q[n + (x - n)]
      BY <1>3, <3>1
    <3> QED  BY <3>1, <3>2, <3>3
  <2> QED  BY <2>1, <2>2
<1>7. u \o v = q
  <2>1. Len(q) = l
    BY DEF l
  <2> QED  BY <1>1, <1>4, <1>5, <1>6, <2>1, SeqEqual
<1> QED  BY <1>2, <1>3, <1>7 DEF u, v, S, Rest, Parts, l

LEMMA PartsJoin ==
  ASSUME NEW w \in Parts, NEW v \in Parts
  PROVE  /\ w \o v \in Parts /\ Len(w \o v) = Len(w) + Len(v)
         /\ Len(w) \in Nat /\ Len(v) \in Nat
         /\ w \o <<>> = w
         /\ \A x \in 1..Len(w) : (w \o v)[x] = w[x]
         /\ \A x \in 1..Len(v) : (w \o v)[Len(w) + x] = v[x]
         /\ \A x \in 1..(Len(w) + Len(v)) :
              x \in 1..Len(w) \/ \E y \in 1..Len(v) : x = Len(w) + y
<1> DEFINE a == Len(w)
           b == Len(v)
           S == Nat \X Nat
<1>1. a \in Nat /\ b \in Nat
  BY LenProperties DEF Parts
<1>2. /\ w \o v \in Seq(S) /\ Len(w \o v) = a + b
      /\ \A i \in 1..(a + b) :
           (w \o v)[i] = IF i <= a THEN w[i] ELSE v[i - a]
  BY ConcatProperties DEF Parts
<1>3. w \o <<>> = w
  BY ConcatEmptySeq DEF Parts
<1> HIDE DEF a, b, S
<1>4. \A x \in 1..a : (w \o v)[x] = w[x]
  BY <1>1, <1>2
<1>5. ASSUME NEW x \in 1..b PROVE (w \o v)[a + x] = v[x]
  <2> DEFINE y == a + x
  <2>1. y \in 1..(a + b) /\ ~(y <= a) /\ y - a = x
    BY <1>1
  <2> HIDE DEF y
  <2>2. (w \o v)[y] = v[y - a]
    BY <1>2, <2>1
  <2> QED  BY <2>1, <2>2 DEF y
<1>6. ASSUME NEW x \in 1..(a + b)
      PROVE  x \in 1..a \/ \E y \in 1..b : x = a + y
  <2>1. x <= a \/ (x - a \in 1..b /\ x = a + (x - a))
    BY <1>1
  <2> QED  BY <1>1, <2>1
<1> QED  BY <1>1, <1>2, <1>3, <1>4, <1>5, <1>6 DEF a, b, S, Parts

LEMMA OrderStarts == InOrder(<<>>) /\ Upto(<<>>, 0, RespLen)
<1>1. Len(<<>>) = 0
  OBVIOUS
<1>2. \A n \in 1..(Len(<<>>) - 1) : FALSE
  BY <1>1
<1>3. \A n \in 1..Len(<<>>) : FALSE
  BY <1>1
<1> QED  BY <1>2, <1>3 DEF InOrder, Within, Upto

LEMMA OrderPrefix ==
  ASSUME NEW w \in Parts, NEW v \in Parts, InOrder(w \o v)
  PROVE  InOrder(w)
<1> DEFINE a == Len(w)
           u == w \o v
<1>1. /\ a \in Nat /\ Len(v) \in Nat /\ Len(u) = a + Len(v)
      /\ \A x \in 1..a : u[x] = w[x]
  BY PartsJoin
<1>2. /\ u # <<>> => u[1] \in {<<1, 0>>, <<1, 1>>}
      /\ \A n \in 1..(Len(u) - 1) : Follows(u[n], u[n+1])
  BY DEF InOrder
<1>3. ASSUME w # <<>> PROVE w[1] \in {<<1, 0>>, <<1, 1>>}
  <2>1. a > 0
    BY <1>3, EmptySeq DEF Parts
  <2>2. Len(u) > 0 /\ 1 \in 1..a
    BY <1>1, <2>1
  <2>3. u # <<>>
    BY <2>2
  <2> QED  BY <1>1, <1>2, <2>2, <2>3
<1>4. ASSUME NEW n \in 1..(a - 1) PROVE Follows(w[n], w[n+1])
  <2>1. n \in 1..a /\ n + 1 \in 1..a /\ n \in 1..(Len(u) - 1)
    BY <1>1
  <2> HIDE DEF u
  <2>2. u[n] = w[n] /\ u[n+1] = w[n+1]
    BY <1>1, <2>1
  <2> QED  BY <1>2, <2>1, <2>2
<1> QED  BY <1>3, <1>4 DEF InOrder

\* The next parts of response i, or the first ones of the next response.
LEMMA Extend ==
  ASSUME NEW w \in Parts, NEW i \in Nat, NEW m \in Nat, Upto(w, i, m),
         NEW a \in Nat, NEW b \in Int, NEW n \in Nat, n > 0,
         \/ a = i /\ b = m /\ i > 0
         \/ m = RespLen /\ a = i + 1 /\ b \in {0 - 1, 0}
  PROVE  Upto(w \o Run(a, b, n), a, b + n)
<1> DEFINE v == Run(a, b, n)
           u == w \o v
           l == Len(w)
<1>1. a > 0 /\ b >= 0 - 1 /\ b + n \in Nat
  OBVIOUS
<1>2. /\ v \in Parts /\ Len(v) = n
      /\ \A x \in 1..n : v[x] = <<a, b + x>>
  BY <1>1, RunFacts
<1> HIDE DEF v
<1>3. /\ u \in Parts /\ Len(u) = l + n /\ l \in Nat
      /\ \A x \in 1..l : u[x] = w[x]
      /\ \A x \in 1..n : u[l + x] = v[x]
      /\ \A x \in 1..(l + n) : x \in 1..l \/ \E y \in 1..n : x = l + y
  BY <1>2, PartsJoin
<1> HIDE DEF u
<1>4. \A x \in 1..n : u[l + x] = <<a, b + x>>
  BY <1>2, <1>3
<1>5. InOrder(w) /\ Within(w, i, m)
  BY DEF Upto
<1>6. /\ i = 0 => w = <<>> /\ l = 0 /\ m = RespLen
      /\ i # 0 => w # <<>> /\ l > 0 /\ w[l] = <<i, m>>
  <2>1. i = 0 => w = <<>> /\ m = RespLen
    BY DEF Upto
  <2>2. i # 0 => w # <<>> /\ w[l] = <<i, m>>
    BY DEF Upto
  <2>3. w # <<>> => l > 0
    BY EmptySeq DEF Parts
  <2> QED  BY <2>1, <2>2, <2>3
<1>7. u # <<>>
  <2>1. Len(u) > 0
    BY <1>3
  <2> QED  BY <2>1
<1>8. u[Len(u)] = <<a, b + n>>
  <2>1. n \in 1..n
    OBVIOUS
  <2> QED  BY <1>3, <1>4, <2>1
<1>9. u[1] \in {<<1, 0>>, <<1, 1>>}
  <2>1. CASE i = 0
    <3>1. l = 0 /\ 1 \in 1..n /\ l + 1 = 1 /\ a = 1
      BY <1>6, <2>1
    <3>2. u[1] = <<a, b + 1>> /\ b \in {0 - 1, 0}
      <4>1. u[l + 1] = <<a, b + 1>>
        BY <1>4, <3>1
      <4> QED  BY <2>1, <3>1, <4>1
    <3>3. b + 1 = 0 \/ b + 1 = 1
      BY <3>2
    <3> QED  BY <3>1, <3>2, <3>3
  <2>2. CASE i # 0
    <3>1. l > 0 /\ w # <<>>
      BY <1>6, <2>2
    <3>2. 1 \in 1..l
      BY <1>3, <3>1
    <3>3. u[1] = w[1]
      BY <1>3, <3>2
    <3> QED  BY <1>5, <3>1, <3>3 DEF InOrder
  <2> QED  BY <2>1, <2>2
<1>10. ASSUME NEW x \in 1..(Len(u) - 1) PROVE Follows(u[x], u[x+1])
  <2>1. x \in 1..(l + n) /\ x + 1 \in 1..(l + n) /\ x < l + n
    BY <1>3
  <2>2. CASE x \in 1..(l - 1)
    <3>1. x \in 1..l /\ x + 1 \in 1..l
      BY <1>3, <2>2
    <3>2. u[x] = w[x] /\ u[x+1] = w[x+1]
      BY <1>3, <3>1
    <3>3. Follows(w[x], w[x+1])
      BY <1>5, <2>2 DEF InOrder
    <3> QED  BY <3>2, <3>3
  <2>3. CASE x = l
    <3>1. l > 0 /\ l \in 1..l /\ 1 \in 1..n
      BY <1>3, <2>1, <2>3
    <3>2. i # 0 /\ w[l] = <<i, m>>
      BY <1>6, <3>1
    <3>3. u[x] = <<i, m>> /\ u[x+1] = <<a, b + 1>>
      BY <1>3, <1>4, <2>3, <3>1, <3>2
    <3>4. CASE a = i /\ b = m
      BY <3>3, <3>4 DEF Follows
    <3>5. CASE m = RespLen /\ a = i + 1 /\ b \in {0 - 1, 0}
      <4>1. b + 1 = 0 \/ b + 1 = 1
        BY <3>5
      <4>2. <<a, b + 1>> \in {<<i + 1, 0>>, <<i + 1, 1>>}
        BY <3>5, <4>1
      <4> QED  BY <3>3, <3>5, <4>2 DEF Follows
    <3> QED  BY <3>4, <3>5
  <2>4. CASE x > l
    <3> DEFINE y == x - l
    <3>1. y \in 1..n /\ y + 1 \in 1..n /\ x = l + y /\ x + 1 = l + (y + 1)
      BY <1>3, <2>1, <2>4
    <3> HIDE DEF y
    <3>2. u[x] = <<a, b + y>> /\ u[x+1] = <<a, b + (y + 1)>>
      BY <1>4, <3>1
    <3>3. b + (y + 1) = b + y + 1
      BY <3>1
    <3> QED  BY <3>2, <3>3 DEF Follows
  <2> QED  BY <1>3, <2>1, <2>2, <2>3, <2>4
<1>11. Within(u, a, b + n)
  <2> SUFFICES ASSUME NEW x \in 1..Len(u)
               PROVE  u[x][1] < a \/ (u[x][1] = a /\ u[x][2] <= b + n)
    BY DEF Within
  <2>1. CASE x \in 1..l
    <3>1. u[x] = w[x]
      BY <1>3, <2>1
    <3>2. w[x][1] < i \/ (w[x][1] = i /\ w[x][2] <= m)
      BY <1>5, <2>1 DEF Within
    <3>3. w[x][1] \in Nat /\ w[x][2] \in Nat
      <4>1. w[x] \in Nat \X Nat
        BY <2>1, ElementOfSeq DEF Parts
      <4> QED  BY <4>1
    <3> DEFINE g == w[x][1]
               h == w[x][2]
    <3> HIDE DEF g, h
    <3>4. g < i \/ (g = i /\ h <= m)
      BY <3>2 DEF g, h
    <3>5. g \in Nat /\ h \in Nat
      BY <3>3 DEF g, h
    <3>6. g < a \/ (g = a /\ h <= b + n)
      BY <3>4, <3>5
    <3> QED  BY <3>1, <3>6 DEF g, h
  <2>2. CASE \E y \in 1..n : x = l + y
    <3>1. PICK y \in 1..n : x = l + y
      BY <2>2
    <3>2. u[x] = <<a, b + y>>
      BY <1>4, <3>1
    <3>3. b + y <= b + n
      OBVIOUS
    <3> QED  BY <3>2, <3>3
  <2> QED  BY <1>3, <2>1, <2>2
<1>12. InOrder(u)
  BY <1>9, <1>10 DEF InOrder
<1>13. Upto(u, a, b + n)
  <2>1. a # 0
    BY <1>1
  <2> QED  BY <1>7, <1>8, <1>11, <1>12, <2>1 DEF Upto
<1> QED  BY <1>13 DEF u, v

\* A whole response, behind the one before it or its own 100 Continue.
LEMMA ExtendResponse ==
  ASSUME NEW w \in Parts, NEW i \in Nat, i > 0, Before(w, i)
  PROVE  Upto(w \o Response(i), i, RespLen)
<1>1. RespLen \in Nat /\ RespLen > 0 /\ 0 + RespLen = RespLen
  BY ConstantsAssumption
<1>2. Response(i) = Run(i, 0, RespLen)
  BY RunResponse
<1> DEFINE h == i - 1
           z == 0
<1>3. h \in Nat /\ i = h + 1 /\ z \in Int /\ z \in {0 - 1, 0} /\ z \in Nat
  OBVIOUS
<1>4. CASE Upto(w, i - 1, RespLen)
  <2>1. Upto(w, h, RespLen)
    BY <1>4
  <2> HIDE DEF h, z
  <2>2. Upto(w \o Run(i, z, RespLen), i, z + RespLen)
    BY <1>1, <1>3, <2>1, Extend
  <2> QED  BY <1>1, <1>2, <2>2 DEF z
<1>5. CASE Upto(w, i, 0)
  <2>1. Upto(w, i, z)
    BY <1>5
  <2> HIDE DEF h, z
  <2>2. Upto(w \o Run(i, z, RespLen), i, z + RespLen)
    BY <1>1, <1>3, <2>1, Extend
  <2> QED  BY <1>1, <1>2, <2>2 DEF z
<1> QED  BY <1>4, <1>5 DEF Before

LEMMA ExtendContinue ==
  ASSUME NEW w \in Parts, NEW i \in Nat, i > 0, Upto(w, i - 1, RespLen)
  PROVE  Upto(w \o <<<<i, 0>>>>, i, 0)
<1>1. RespLen \in Nat
  BY ConstantsAssumption
<1>2. <<<<i, 0>>>> = Run(i, 0 - 1, 1)
  BY RunContinue
<1> DEFINE h == i - 1
           z == 0 - 1
           n == 1
<1>3. /\ h \in Nat /\ i = h + 1 /\ z \in Int /\ z \in {0 - 1, 0}
      /\ n \in Nat /\ n > 0 /\ z + n = 0
  OBVIOUS
<1>4. Upto(w, h, RespLen)
  OBVIOUS
<1> HIDE DEF h, z, n
<1>5. Upto(w \o Run(i, z, n), i, z + n)
  BY <1>1, <1>3, <1>4, Extend
<1> QED  BY <1>2, <1>3, <1>5 DEF z, n

-----------------------------------------------------------------------------
(* takeoverLoop counts the parts of its response that it has written. *)

Counted(w, i) == {n \in 1..Len(w) : w[n][1] = i /\ w[n][2] > 0}

LEMMA CountedFinite ==
  ASSUME NEW w \in Parts, NEW i \in Nat
  PROVE  /\ IsFiniteSet(Counted(w, i)) /\ Count(w, i) \in Nat
         /\ Count(w, i) = Cardinality(Counted(w, i))
<1>1. Len(w) \in Nat
  BY LenProperties DEF Parts
<1>2. IsFiniteSet(1..Len(w))
  BY <1>1, FS_Interval
<1>3. Counted(w, i) \in SUBSET (1..Len(w))
  BY DEF Counted
<1>4. IsFiniteSet(Counted(w, i))
  BY <1>2, <1>3, FS_Subset
<1>5. Count(w, i) = Cardinality(Counted(w, i))
  BY DEF Count, Counted
<1> QED  BY <1>4, <1>5, FS_CardinalityType

\* No part of response i is written before its turn.
LEMMA CountNone ==
  ASSUME NEW w \in Parts, NEW i \in Nat, i > 0, Before(w, i)
  PROVE  Count(w, i) = 0
<1>1. ASSUME NEW n \in 1..Len(w) PROVE ~(w[n][1] = i /\ w[n][2] > 0)
  <2> DEFINE g == w[n][1]
             h == w[n][2]
  <2>1. w[n] \in Nat \X Nat
    BY ElementOfSeq DEF Parts
  <2>2. g \in Nat /\ h \in Nat
    BY <2>1
  <2>3. Within(w, i - 1, RespLen) \/ Within(w, i, 0)
    BY DEF Before, Upto
  <2>4. (g < i - 1 \/ g = i - 1) \/ (g < i \/ (g = i /\ h <= 0))
    BY <2>3 DEF Within
  <2> HIDE DEF g, h
  <2>5. ~(g = i /\ h > 0)
    BY <2>2, <2>4
  <2> QED  BY <2>5 DEF g, h
<1>2. Counted(w, i) = {}
  BY <1>1 DEF Counted
<1> QED  BY <1>2, CountedFinite, FS_EmptySet

LEMMA CountRun ==
  ASSUME NEW w \in Parts, NEW i \in Nat, NEW b \in Nat, NEW n \in Nat
  PROVE  Count(w \o Run(i, b, n), i) = Count(w, i) + n
<1> DEFINE v == Run(i, b, n)
           u == w \o v
           l == Len(w)
           S == Counted(w, i)
           T == (l + 1)..(l + n)
<1>1. /\ v \in Parts /\ Len(v) = n
      /\ \A x \in 1..n : v[x] = <<i, b + x>>
  <2>1. b \in Int /\ b >= 0 - 1
    OBVIOUS
  <2> QED  BY <2>1, RunFacts
<1> HIDE DEF v
<1>2. /\ u \in Parts /\ Len(u) = l + n /\ l \in Nat
      /\ \A x \in 1..l : u[x] = w[x]
      /\ \A x \in 1..n : u[l + x] = v[x]
  BY <1>1, PartsJoin
<1> HIDE DEF u
<1>3. Counted(u, i) = S \cup T
  <2>1. ASSUME NEW x \in Counted(u, i) PROVE x \in S \cup T
    <3>1. x \in 1..(l + n) /\ u[x][1] = i /\ u[x][2] > 0
      BY <1>2 DEF Counted
    <3>2. CASE x <= l
      <4>1. x \in 1..l
        BY <1>2, <3>1, <3>2
      <4>2. u[x] = w[x]
        BY <1>2, <4>1
      <4> QED  BY <3>1, <4>1, <4>2 DEF Counted
    <3>3. CASE ~(x <= l)
      <4>1. x \in T
        BY <1>2, <3>1, <3>3
      <4> QED  BY <4>1
    <3> QED  BY <3>2, <3>3
  <2>2. ASSUME NEW x \in S PROVE x \in Counted(u, i)
    <3>1. x \in 1..l /\ w[x][1] = i /\ w[x][2] > 0
      BY DEF Counted
    <3>2. x \in 1..(l + n) /\ u[x] = w[x]
      BY <1>2, <3>1
    <3> QED  BY <1>2, <3>1, <3>2 DEF Counted
  <2>3. ASSUME NEW x \in T PROVE x \in Counted(u, i)
    <3> DEFINE y == x - l
    <3>1. y \in 1..n /\ x = l + y /\ x \in 1..(l + n) /\ b + y > 0
      BY <1>2
    <3> HIDE DEF y
    <3>2. u[x] = <<i, b + y>>
      BY <1>1, <1>2, <3>1
    <3> QED  BY <1>2, <3>1, <3>2 DEF Counted
  <2> QED  BY <2>1, <2>2, <2>3
<1>4. S \cap T = {}
  <2> SUFFICES ASSUME NEW x \in S, x \in T PROVE FALSE
    OBVIOUS
  <2>1. x \in 1..l
    BY DEF Counted
  <2> QED  BY <1>2, <2>1
<1>5. IsFiniteSet(S) /\ Count(w, i) \in Nat /\ Count(w, i) = Cardinality(S)
  BY CountedFinite
<1>6. IsFiniteSet(T) /\ Cardinality(T) = n
  <2> DEFINE p == l + 1
             q == l + n
  <2>1. p \in Int /\ q \in Int
    BY <1>2
  <2>2. IsFiniteSet(p..q) /\ Cardinality(p..q) = IF p > q THEN 0 ELSE q-p+1
    <3> HIDE DEF p, q
    <3> QED  BY <2>1, FS_Interval
  <2>3. (IF p > q THEN 0 ELSE q-p+1) = n
    BY <1>2
  <2> QED  BY <2>2, <2>3
<1> HIDE DEF S, T
<1>7. Cardinality(S \cup T) = Cardinality(S) + Cardinality(T) - Cardinality({})
  BY <1>4, <1>5, <1>6, FS_Union
<1>8. Cardinality({}) = 0
  BY FS_EmptySet
<1>9. Count(u, i) = Cardinality(S \cup T)
  BY <1>2, <1>3, CountedFinite
<1>10. Count(u, i) = Count(w, i) + n
  BY <1>5, <1>6, <1>7, <1>8, <1>9
<1> QED  BY <1>10 DEF u, v

LEMMA CountContinue ==
  ASSUME NEW w \in Parts, NEW i \in Nat
  PROVE  Count(w \o <<<<i + 1, 0>>>>, i) = Count(w, i)
<1> DEFINE v == <<<<i + 1, 0>>>>
           u == w \o v
           l == Len(w)
<1>1. v \in Parts /\ Len(v) = 1 /\ v[1] = <<i + 1, 0>>
  <2>1. i + 1 \in Nat /\ 0 \in Nat
    OBVIOUS
  <2>2. v \in Parts
    BY <2>1, ResponseType
  <2> QED  BY <2>2
<1> HIDE DEF v
<1>2. /\ u \in Parts /\ Len(u) = l + Len(v) /\ l \in Nat
      /\ \A x \in 1..l : u[x] = w[x]
      /\ \A x \in 1..Len(v) : u[l + x] = v[x]
  BY <1>1, PartsJoin
<1> HIDE DEF u
<1>3. Len(u) = l + 1 /\ u[l + 1] = <<i + 1, 0>>
  BY <1>1, <1>2
<1>4. ASSUME NEW x \in 1..(l + 1), u[x][1] = i PROVE x \in 1..l
  <2>1. x # l + 1
    BY <1>3, <1>4
  <2> QED  BY <1>2, <2>1
<1>5. \A x \in 1..l : x \in 1..(l + 1)
  BY <1>2
<1>6. Counted(u, i) = Counted(w, i)
  BY <1>2, <1>3, <1>4, <1>5 DEF Counted
<1>7. Count(u, i) = Count(w, i)
  BY <1>2, <1>6, CountedFinite
<1> QED  BY <1>7 DEF u, v

\* takeoverLoop writes n more parts of its response.
LEMMA ServeMore ==
  ASSUME NEW w \in Parts, NEW i \in Nat, i > 0, Serving(w, i), NEW due,
         due = Rest(Response(i), Count(w, i)), due # <<>>,
         NEW n \in 1..Len(due)
  PROVE  Serving(w \o SubSeq(due, 1, n), i)
<1> DEFINE l == RespLen
<1>1. l \in Nat /\ l > 0
  BY ConstantsAssumption
<1>2. Response(i) = Run(i, 0, l)
  BY RunResponse
<1> HIDE DEF l
<1>3. ASSUME NEW m \in 0..l, Count(w, i) = m
      PROVE  /\ due = Run(i, m, l - m) /\ n \in 1..(l - m)
             /\ SubSeq(due, 1, n) = Run(i, m, n)
             /\ Count(w \o Run(i, m, n), i) = m + n
  <2> DEFINE r == l - m
             z == 0
  <2>1. r \in Nat /\ m \in Nat /\ z \in Nat /\ z + m = m /\ m \in Int
        /\ m >= 0 - 1
    BY <1>1
  <2>2. Rest(Run(i, z, l), m) = Run(i, z + m, l - m)
    <3> HIDE DEF z
    <3> QED  BY <1>1, <2>1, RunCut
  <2>3. due = Run(i, m, r)
    BY <1>2, <1>3, <2>1, <2>2
  <2> HIDE DEF r, z
  <2>4. Len(due) = r
    BY <2>1, <2>3, RunFacts
  <2>5. n \in 1..r /\ n \in 0..r /\ n \in Nat
    BY <2>1, <2>4
  <2>6. SubSeq(due, 1, n) = Run(i, m, n)
    <3>1. SubSeq(Run(i, m, r), 1, n) = Run(i, m, n)
      BY <2>1, <2>5, RunCut
    <3> QED  BY <2>3, <3>1
  <2>7. Count(w \o Run(i, m, n), i) = m + n
    BY <1>3, <2>1, <2>5, CountRun
  <2> QED  BY <2>3, <2>5, <2>6, <2>7 DEF r
<1>4. CASE Before(w, i)
  <2> DEFINE z == 0
             h == i - 1
  <2>1. Count(w, i) = z /\ z \in 0..l /\ z \in Nat /\ z \in Int
        /\ h \in Nat /\ i = h + 1 /\ z \in {0 - 1, 0}
    BY <1>1, <1>4, CountNone
  <2>2. Upto(w, h, l) \/ Upto(w, i, z)
    BY <1>4 DEF Before, l
  <2> HIDE DEF z, h
  <2>3. /\ n \in 1..(l - z) /\ SubSeq(due, 1, n) = Run(i, z, n)
        /\ Count(w \o Run(i, z, n), i) = z + n
    BY <1>3, <2>1
  <2>4. n \in Nat /\ n > 0 /\ z + n \in 1..l
    BY <1>1, <2>3 DEF z
  <2>5. Upto(w \o Run(i, z, n), i, z + n)
    BY <1>1, <2>1, <2>2, <2>4, Extend DEF l
  <2> QED  BY <2>3, <2>4, <2>5 DEF Serving, l
<1>5. CASE \E m \in 1..l : Upto(w, i, m) /\ Count(w, i) = m
  <2>1. PICK m \in 1..l : Upto(w, i, m) /\ Count(w, i) = m
    BY <1>5
  <2>2. m \in Nat /\ m \in Int /\ m \in 0..l
    BY <1>1
  <2>3. /\ n \in 1..(l - m) /\ SubSeq(due, 1, n) = Run(i, m, n)
        /\ Count(w \o Run(i, m, n), i) = m + n
    BY <1>3, <2>1, <2>2
  <2>4. n \in Nat /\ n > 0 /\ m + n \in 1..l
    BY <1>1, <2>2, <2>3
  <2>5. Upto(w \o Run(i, m, n), i, m + n)
    BY <2>1, <2>2, <2>4, Extend
  <2> QED  BY <2>3, <2>4, <2>5 DEF Serving, l
<1>6. CASE Count(w, i) = l
  <2>1. l \in 0..l
    BY <1>1
  <2>2. n \in 1..(l - l)
    BY <1>3, <1>6, <2>1
  <2> QED  BY <1>1, <2>2
<1> QED  BY <1>4, <1>5, <1>6 DEF Serving, l

\* Only a whole response shows its last part.
LEMMA ServedWhole ==
  ASSUME NEW w \in Parts, NEW i \in Nat, i > 0, Serving(w, i),
         \E n \in 1..Len(w) : w[n] = <<i, RespLen>>
  PROVE  /\ Upto(w, i, RespLen) \/ Upto(w, i + 1, 0)
         /\ Count(w, i) = RespLen
<1> DEFINE l == RespLen
<1>1. l \in Nat /\ l > 0
  BY ConstantsAssumption
<1>2. PICK n \in 1..Len(w) : w[n] = <<i, l>>
  OBVIOUS
<1> HIDE DEF l
<1>3. ASSUME NEW a \in Nat, NEW m \in Nat, Within(w, a, m)
      PROVE  i < a \/ (i = a /\ l <= m)
  BY <1>2, <1>3 DEF Within
<1>4. ~Before(w, i)
  <2> SUFFICES ASSUME Before(w, i) PROVE FALSE
    OBVIOUS
  <2> DEFINE h == i - 1
             z == 0
  <2>1. h \in Nat /\ z \in Nat
    OBVIOUS
  <2>2. Within(w, h, l) \/ Within(w, i, z)
    BY DEF Before, Upto, l
  <2>3. i < h \/ (i = h /\ l <= l) \/ i < i \/ (i = i /\ l <= z)
    <3> HIDE DEF h, z
    <3> QED  BY <1>1, <1>3, <2>1, <2>2
  <2> QED  BY <1>1, <2>3
<1>5. ASSUME NEW m \in 1..l, Upto(w, i, m), Count(w, i) = m PROVE m = l
  <2>1. m \in Nat /\ Within(w, i, m)
    BY <1>1, <1>5 DEF Upto
  <2>2. i < i \/ (i = i /\ l <= m)
    BY <1>3, <2>1
  <2> QED  BY <1>1, <2>1, <2>2
<1> QED  BY <1>4, <1>5 DEF Serving, l

LEMMA ServeNext ==
  ASSUME NEW w \in Parts, NEW i \in Nat, i > 0, Serving(w, i),
         \E n \in 1..Len(w) : w[n] = <<i, RespLen>>
  PROVE  Serving(w, i + 1)
<1>1. Upto(w, i, RespLen) \/ Upto(w, i + 1, 0)
  BY ServedWhole
<1>2. i + 1 - 1 = i
  OBVIOUS
<1> QED  BY <1>1, <1>2 DEF Serving, Before

LEMMA ServeContinue ==
  ASSUME NEW w \in Parts, NEW i \in Nat, i > 0, Serving(w, i),
         \E n \in 1..Len(w) : w[n] = <<i, RespLen>>,
         ~ \E n \in 1..Len(w) : w[n] = <<i + 1, 0>>
  PROVE  Serving(w \o <<<<i + 1, 0>>>>, i)
<1>1. /\ Upto(w, i, RespLen) \/ Upto(w, i + 1, 0)
      /\ Count(w, i) = RespLen
  BY ServedWhole
<1>2. ~Upto(w, i + 1, 0)
  <2> SUFFICES ASSUME Upto(w, i + 1, 0) PROVE FALSE
    OBVIOUS
  <2>1. w # <<>> /\ w[Len(w)] = <<i + 1, 0>>
    <3>1. i + 1 # 0
      OBVIOUS
    <3> QED  BY <3>1 DEF Upto
  <2>2. Len(w) \in 1..Len(w)
    BY <2>1, EmptySeq DEF Parts
  <2> QED  BY <2>1, <2>2
<1> DEFINE j == i + 1
<1>3. j \in Nat /\ j > 0 /\ j - 1 = i
  OBVIOUS
<1>4. Upto(w, j - 1, RespLen)
  BY <1>1, <1>2, <1>3
<1>5. Upto(w \o <<<<j, 0>>>>, j, 0)
  <2> HIDE DEF j
  <2> QED  BY <1>3, <1>4, ExtendContinue
<1>6. Count(w \o <<<<i + 1, 0>>>>, i) = RespLen
  BY <1>1, CountContinue
<1> QED  BY <1>5, <1>6 DEF Serving

-----------------------------------------------------------------------------
(* The steps that leave the responses alone. *)

Running == SInv /\ WellServed(env) /\ Ordered /\ Live

\* s and t hold the same output.
Output(s, t) ==
  /\ s.sendBuf = t.sendBuf /\ s.file = t.file /\ s.pending = t.pending
  /\ s.takenOver = t.takenOver /\ s.bodyNeed = t.bodyNeed
  /\ s.header = t.header

LEMMA RunningFacts ==
  ASSUME Running
  PROVE  /\ SInv /\ IInv /\ TypeOK /\ Scenario(env) /\ c \in Conns /\ Fits(c)
         /\ At(pc, ret, c) /\ BufCap \in Nat /\ c.bodyNeed \in Nat
         /\ c.readBuf \in Bytes /\ Len(c.readBuf) \in 0..BufCap
         /\ k \in Sockets /\ k.rcvd \in Nat
         /\ Flow(c, k.rcvd, pc) /\ Owes(c, job, doneCh)
         /\ k.out \in Parts /\ c.sendBuf \in Parts /\ InOrder(k.out)
         /\ ~k.rst /\ pc # "closed"
         /\ Order(c, k.out, Consumption(c, k.rcvd), job, doneCh)
<1>1. SInv /\ IInv /\ Owes(c, job, doneCh)
  BY DEF Running, SInv, IInv
<1>2. c \in Conns /\ k \in Sockets
  BY <1>1, SInvFacts
<1>3. k.out \in Parts /\ c.sendBuf \in Parts
  BY <1>2 DEF Conns, Sockets
<1>4. /\ InOrder(k.out) /\ ~k.rst /\ pc # "closed"
      /\ Order(c, k.out, Consumption(c, k.rcvd), job, doneCh)
  BY DEF Running, Ordered, Live
<1> QED  BY <1>1, <1>3, <1>4, SInvFacts

LEMMA OrderFrame ==
  ASSUME env' = env, NEW s, NEW o, NEW f, NEW j, NEW d, c' = s, k'.out = o,
         Consumption(s, k'.rcvd) = f, job' = j, doneCh' = d,
         InOrder(o), Order(s, o, f, j, d)
  PROVE  Ordered'
<1>1. N' = N /\ Start' = Start
  BY DEF N, Start, script
<1>2. \A t, w, g, x, y : LoopOrder(t, w, g, x, y)' = LoopOrder(t, w, g, x, y)
  BY <1>1 DEF LoopOrder
<1>3. Order(s, o, f, j, d)'
  BY <1>2 DEF Order
<1>4. Order(c, k.out, Consumption(c, k.rcvd), job, doneCh)'
  <2>1. Consumption(c, k.rcvd)' = f
    BY DEF Consumption
  <2> QED  BY <1>2, <1>3, <2>1 DEF Order
<1>5. InOrder(k.out)'
  OBVIOUS
<1> QED  BY <1>4, <1>5 DEF Ordered

LEMMA OrderAgrees ==
  ASSUME NEW s, NEW t, NEW o, NEW f, NEW g, NEW j, NEW d,
         Order(t, o, f, j, d), Output(s, t),
         f = g \/ t.bodyNeed # 0 \/ t.takenOver
  PROVE  Order(s, o, g, j, d)
<1>1. s.file = <<>>
  BY DEF Order, Output
<1>2. s.takenOver => TakenOrder(s, o, j, d)
  BY DEF Order, Output, TakenOrder
<1>3. ASSUME ~s.takenOver PROVE LoopOrder(s, o \o s.sendBuf, g, j, d)
  <2> DEFINE w == o \o t.sendBuf
  <2>1. /\ LoopOrder(t, w, f, j, d) /\ o \o s.sendBuf = w
        /\ f = g \/ t.bodyNeed # 0
    BY <1>3 DEF Order, Output
  <2> HIDE DEF w
  <2>2. s.bodyNeed > 0 => Before(w, s.header)
    BY <2>1 DEF LoopOrder, Output
  <2>3. \A i : Owed(w, i, t, j, d) => Owed(w, i, s, j, d)
    BY DEF Owed, Output
  <2>4. s.bodyNeed = 0 =>
          \A i \in 0..N : g + 1 = Start[i + 1] => Owed(w, i, s, j, d)
    BY <2>1, <2>3 DEF LoopOrder, Output
  <2> QED  BY <2>1, <2>2, <2>4 DEF LoopOrder
<1> QED  BY <1>1, <1>2, <1>3 DEF Order

LEMMA OrderDead ==
  ASSUME Ordered, k'.out = k.out, ~Live'
  PROVE  Ordered'
  BY DEF Ordered

LEMMA OrderMove ==
  ASSUME Running, env' = env, job' = job, doneCh' = doneCh, k'.out = k.out,
         NEW s, c' = s, Output(s, c),
         \/ Consumption(s, k'.rcvd) = Consumption(c, k.rcvd)
         \/ c.bodyNeed # 0 \/ c.takenOver
  PROVE  Ordered'
<1> DEFINE f == Consumption(c, k.rcvd)
           g == Consumption(s, k'.rcvd)
<1>1. Order(c, k.out, f, job, doneCh) /\ InOrder(k.out)
  BY RunningFacts
<1>2. Order(s, k.out, g, job, doneCh)
  <2> HIDE DEF f
  <2>1. f = g \/ c.bodyNeed # 0 \/ c.takenOver
    BY DEF f
  <2> HIDE DEF g
  <2> QED  BY <1>1, <2>1, OrderAgrees
<1> QED  BY <1>1, <1>2, OrderFrame

\* The handlers go on.
LEMMA OrderGo ==
  ASSUME Running, NEW p, NEW s, Goto(p, s), Output(s, c),
         s.readBuf = c.readBuf
  PROVE  Ordered'
<1>1. env' = env /\ job' = job /\ doneCh' = doneCh /\ k' = k /\ c' = s
  BY DEF Goto, Continue
<1>2. Consumption(s, k'.rcvd) = Consumption(c, k.rcvd)
  BY <1>1 DEF Consumption
<1> QED  BY <1>1, <1>2, OrderMove

LEMMA OrderClose ==
  ASSUME Running, NEW s, CloseConn(s)
  PROVE  Ordered'
<1>1. k \in Sockets /\ Ordered
  BY RunningFacts DEF Running
<1>2. pc' = "closed" /\ k'.out = k.out
  BY <1>1 DEF CloseConn, Sockets
<1> QED  BY <1>1, <1>2, OrderDead DEF Live

\* A read behind the read buffer, or for a body.
LEMMA OrderRead ==
  ASSUME Running, NEW room \in Nat, NEW p, NEW t, Output(t, c),
         \/ t.readBuf = c.readBuf \o BytesRead(room)
         \/ c.bodyNeed # 0,
         Continue(p, t), k' = AfterRead(room)
  PROVE  Ordered'
<1>1. TypeOK /\ SInv /\ k \in Sockets
  BY RunningFacts
<1>2. /\ env' = env /\ job' = job /\ doneCh' = doneCh /\ c' = t
  BY DEF Continue
<1>3. k'.out = k.out /\ k'.rcvd = k.rcvd + SmallerOf(Avail, room)
  BY <1>1 DEF AfterRead, Sockets
<1>4. \/ Consumption(t, k'.rcvd) = Consumption(c, k.rcvd)
      \/ c.bodyNeed # 0 \/ c.takenOver
  BY <1>1, <1>3, AppendFlow
<1> QED  BY <1>2, <1>3, <1>4, OrderMove

LEMMA FlagsOutput ==
  ASSUME NEW s \in Conns, NEW b, NEW d, NEW e
  PROVE  /\ Output(s, s)
         /\ Output([s EXCEPT !.readDrained = b], s)
         /\ Output([s EXCEPT !.keepAlive = b], s)
         /\ Output([s EXCEPT !.readSuppressed = b], s)
         /\ Output([s EXCEPT !.readSuppressed = b, !.readDrained = d], s)
         /\ Output([s EXCEPT !.readBuf = b], s)
         /\ Output([s EXCEPT !.readBuf = b, !.readDrained = d], s)
         /\ Output([s EXCEPT !.readDrained = b, !.readBuf = d], s)
         /\ Output([s EXCEPT !.readSuppressed = b, !.readDrained = d,
                             !.readBuf = e], s)
         /\ Output([s EXCEPT !.bodyBuf = b, !.readBuf = d], s)
  BY DEF Output, Conns

LEMMA OutputTransitive ==
  ASSUME NEW s, NEW t, NEW u, Output(s, t), Output(t, u)
  PROVE  Output(s, u)
  BY DEF Output

LEMMA AccumulateOutput ==
  ASSUME NEW s \in Conns, NEW bytes
  PROVE  Output(Accumulate(s, bytes), s)
  BY DEF Accumulate, Output, Conns

LEMMA ParseEndOrder ==
  ASSUME Running, NEW s, ParseEnd(s), Output(s, c), s.readBuf = c.readBuf
  PROVE  Ordered'
<1>1. PICK p : Goto(p, s)
  BY DEF ParseEnd
<1> QED  BY <1>1, OrderGo

\* The loop does not read a connection that a goroutine has taken over.
LEMMA TakenReads ==
  ASSUME Running, c.takenOver
  PROVE  pc \notin Reading /\ pc \notin Filling /\ c.pending = 1
<1>1. c.pending = 1
  BY RunningFacts DEF Order, TakenOrder
<1>2. pc \notin Reading
  BY <1>1, RunningFacts DEF At
<1>3. c.bodyNeed = 0
  BY <1>1, RunningFacts DEF Fits
<1>4. pc \notin Filling
  BY <1>3, RunningFacts DEF At
<1> QED  BY <1>1, <1>2, <1>4

\* A read into the empty read buffer of handleAccept or directSend.
LEMMA FirstReadOrder ==
  ASSUME Running, pc \in {"accept", "speculate"}, NEW t, Output(t, c),
         t.readBuf = BytesRead(BufCap), NEW p, Continue(p, t),
         k' = AfterRead(BufCap)
  PROVE  Ordered'
<1>1. Flow(c, k.rcvd, pc) /\ BufCap \in Nat /\ TypeOK
  BY RunningFacts
<1>2. ~c.takenOver
  BY TakenReads DEF Reading
<1>3. BytesRead(BufCap) \in Seq(Nat)
  BY <1>1, ReadFacts DEF Bytes
<1>4. t.readBuf = c.readBuf \o BytesRead(BufCap)
  BY <1>1, <1>2, <1>3, ConcatEmptySeq DEF Flow
<1> QED  BY <1>1, <1>4, OrderRead

LEMMA AcceptOrder ==
  ASSUME Running, Accept
  PROVE  Ordered'
<1>1. c \in Conns /\ pc = "accept"
  BY RunningFacts DEF Accept
<1>2. CASE ReadResult(BufCap) = "data"
  <2> DEFINE t == [c EXCEPT !.readBuf = BytesRead(BufCap),
                            !.readDrained = Avail < BufCap]
  <2>1. Continue("parse", t) /\ k' = AfterRead(BufCap)
    BY <1>2 DEF Accept
  <2>2. Output(t, c) /\ t.readBuf = BytesRead(BufCap)
    BY <1>1 DEF Output, Conns
  <2> HIDE DEF t
  <2> QED  BY <1>1, <2>1, <2>2, FirstReadOrder
<1>3. CASE ReadResult(BufCap) # "data"
  <2>1. Goto("drain", c)
    BY <1>3 DEF Accept, Loop
  <2> QED  BY <1>1, <2>1, FlagsOutput, OrderGo
<1> QED  BY <1>2, <1>3

LEMMA SpeculateOrder ==
  ASSUME Running, Speculate
  PROVE  Ordered'
<1> DEFINE s == [c EXCEPT !.readSuppressed = FALSE, !.readDrained = FALSE]
           t == [s EXCEPT !.readBuf = BytesRead(BufCap),
                          !.readDrained = Avail < BufCap]
<1>1. c \in Conns /\ pc = "speculate"
  BY RunningFacts DEF Speculate
<1>2. \/ Continue("parse", t) /\ k' = AfterRead(BufCap)
      \/ Goto("drain", s)
  BY DEF Speculate, Loop
<1>3. /\ Output(s, c) /\ s.readBuf = c.readBuf
      /\ Output(t, c) /\ t.readBuf = BytesRead(BufCap)
  BY <1>1 DEF Output, Conns
<1> HIDE DEF s, t
<1>4. CASE Continue("parse", t) /\ k' = AfterRead(BufCap)
  BY <1>1, <1>3, <1>4, FirstReadOrder
<1>5. CASE Goto("drain", s)
  BY <1>3, <1>5, OrderGo
<1> QED  BY <1>2, <1>4, <1>5

LEMMA HandleRecvOrder ==
  ASSUME Running, HandleRecv
  PROVE  Ordered'
<1>1. IInv /\ c \in Conns /\ c.bodyNeed \in Nat
  BY RunningFacts
<1>2. CASE Goto("drain", [c EXCEPT !.readSuppressed = TRUE,
                                   !.readDrained = FALSE])
  <2> DEFINE s == [c EXCEPT !.readSuppressed = TRUE, !.readDrained = FALSE]
  <2>1. Goto("drain", s)
    BY <1>2
  <2>2. Output(s, c) /\ s.readBuf = c.readBuf
    BY <1>1 DEF Output, Conns
  <2> HIDE DEF s
  <2> QED  BY <2>1, <2>2, OrderGo
<1>3. CASE Goto("panic", c)
  BY <1>1, <1>3, FlagsOutput, OrderGo
<1>4. CASE CloseConn(c)
  BY <1>4, OrderClose
<1>5. /\ Room \in Nat /\ Received \in Conns
      /\ Received.readBuf = c.readBuf \o BytesRead(Room)
  BY <1>1, ReceivedFacts
<1>6. Output(Received, c)
  BY <1>1 DEF Received, Armed, Output, Conns
<1>7. CASE /\ c.bodyNeed > 0 /\ k' = AfterRead(Room)
           /\ Continue("body", Accumulate(Received, Received.readBuf))
  <2> DEFINE t == Accumulate(Received, Received.readBuf)
  <2>1. Output(t, c)
    BY <1>5, <1>6, AccumulateOutput, OutputTransitive
  <2>2. Continue("body", t)
    BY <1>7
  <2> HIDE DEF t
  <2>3. c.bodyNeed # 0
    BY <1>1, <1>7
  <2> QED  BY <1>5, <1>7, <2>1, <2>2, <2>3, OrderRead
<1>8. CASE /\ c.bodyNeed = 0 /\ k' = AfterRead(Room)
           /\ Continue("parse", Received)
  BY <1>5, <1>6, <1>8, OrderRead
<1> QED  BY <1>1, <1>2, <1>3, <1>4, <1>7, <1>8, HandleRecvCases

LEMMA RefillOrder ==
  ASSUME Running, Refill
  PROVE  Ordered'
<1> DEFINE room == BufCap - Len(c.readBuf)
           s == [c EXCEPT !.readSuppressed = FALSE]
           t == [s EXCEPT !.readDrained = TRUE]
           u == [s EXCEPT !.keepAlive = FALSE]
           v == [s EXCEPT !.readDrained = Avail < room,
                          !.readBuf = @ \o BytesRead(room)]
<1>1. /\ c \in Conns /\ Len(c.readBuf) \in 0..BufCap /\ BufCap \in Nat
  BY RunningFacts
<1>2. \/ ParseEnd(t) \/ CloseConn(s) \/ CloseConn(u)
      \/ Continue("parse", v) /\ k' = AfterRead(room)
  BY DEF Refill
<1>3. room \in Nat
  BY <1>1
<1> HIDE DEF room
<1>4. /\ Output(t, c) /\ t.readBuf = c.readBuf
      /\ Output(v, c) /\ v.readBuf = c.readBuf \o BytesRead(room)
  BY <1>1 DEF Output, Conns
<1> HIDE DEF s, t, u, v
<1>5. CASE ParseEnd(t)
  BY <1>4, <1>5, ParseEndOrder
<1>6. CASE CloseConn(s) \/ CloseConn(u)
  BY <1>6, OrderClose
<1>7. CASE Continue("parse", v) /\ k' = AfterRead(room)
  BY <1>3, <1>4, <1>7, OrderRead
<1> QED  BY <1>2, <1>5, <1>6, <1>7

LEMMA DrainBodyOrder ==
  ASSUME Running, DrainBody
  PROVE  Ordered'
<1> DEFINE s == [c EXCEPT !.readDrained = FALSE]
           t == Accumulate(s, BytesRead(BufCap))
<1>1. /\ c \in Conns /\ BufCap \in Nat /\ At(pc, ret, c) /\ pc = "body"
      /\ c.bodyNeed \in Nat
  BY RunningFacts DEF DrainBody
<1>2. c.bodyNeed # 0
  BY <1>1 DEF At, Filling
<1>3. \/ Goto("pipelined", s) \/ Goto("drain", s) \/ CloseConn(s)
      \/ Continue("body", t) /\ k' = AfterRead(BufCap)
  BY DEF DrainBody, Loop
<1>4. s \in Conns /\ Output(s, c) /\ s.readBuf = c.readBuf
  BY <1>1 DEF Output, Conns
<1> HIDE DEF s
<1>5. Output(t, c)
  BY <1>4, AccumulateOutput, OutputTransitive
<1> HIDE DEF t
<1>6. CASE Goto("pipelined", s) \/ Goto("drain", s)
  BY <1>4, <1>6, OrderGo
<1>7. CASE CloseConn(s)
  BY <1>7, OrderClose
<1>8. CASE Continue("body", t) /\ k' = AfterRead(BufCap)
  BY <1>1, <1>2, <1>5, <1>8, OrderRead
<1> QED  BY <1>3, <1>6, <1>7, <1>8

LEMMA DrainPipelinedOrder ==
  ASSUME Running, DrainPipelined
  PROVE  Ordered'
<1> DEFINE room == BufCap - Len(c.readBuf)
           t == [c EXCEPT !.readBuf = @ \o BytesRead(room)]
<1>1. c \in Conns /\ Len(c.readBuf) \in 0..BufCap /\ BufCap \in Nat
  BY RunningFacts
<1>2. \/ Continue("pipelined", t) /\ k' = AfterRead(room)
      \/ Goto("finish", c)
  BY DEF DrainPipelined
<1>3. room \in Nat
  BY <1>1
<1> HIDE DEF room
<1>4. Output(t, c) /\ t.readBuf = c.readBuf \o BytesRead(room)
  BY <1>1 DEF Output, Conns
<1> HIDE DEF t
<1>5. CASE Continue("pipelined", t) /\ k' = AfterRead(room)
  BY <1>3, <1>4, <1>5, OrderRead
<1>6. CASE Goto("finish", c)
  BY <1>1, <1>6, FlagsOutput, OrderGo
<1> QED  BY <1>2, <1>5, <1>6

LEMMA HandleSendOrder ==
  ASSUME Running, HandleSend
  PROVE  Ordered'
<1> DEFINE s == [c EXCEPT !.readDrained = FALSE]
<1>1. c \in Conns /\ k \in Sockets
  BY RunningFacts
<1>2. /\ c' = s /\ env' = env /\ job' = job /\ doneCh' = doneCh
      /\ k' = k \/ k' = Mod(k, "in")
  BY DEF HandleSend, Goto, Continue
<1>3. Output(s, c) /\ s.readBuf = c.readBuf
  BY <1>1 DEF Output, Conns
<1> HIDE DEF s
<1>4. k'.rcvd = k.rcvd /\ k'.out = k.out
  BY <1>1, <1>2 DEF Mod, Sockets
<1>5. Consumption(s, k'.rcvd) = Consumption(c, k.rcvd)
  BY <1>3, <1>4 DEF Consumption
<1> QED  BY <1>2, <1>3, <1>4, <1>5, OrderMove

LEMMA WaitOrder ==
  ASSUME Running, DoneChEmpty \/ Wait
  PROVE  Ordered'
<1>1. k \in Sockets /\ c \in Conns
  BY RunningFacts
<1>2. /\ c' = c /\ env' = env /\ job' = job /\ doneCh' = doneCh
      /\ \/ k' = k
         \/ k' = [k EXCEPT !.ready = FALSE,
                           !.nospace = @ \/ (k.mask = "inout" /\ k.space = 0)]
  BY DEF DoneChEmpty, Wait, Goto, Continue
<1>3. k'.rcvd = k.rcvd /\ k'.out = k.out
  BY <1>1, <1>2 DEF Sockets
<1>4. Consumption(c, k'.rcvd) = Consumption(c, k.rcvd)
  BY <1>3
<1> QED  BY <1>1, <1>2, <1>3, <1>4, FlagsOutput, OrderMove

LEMMA ClientOrder ==
  ASSUME Running, ClientStep
  PROVE  Ordered'
<1>1. k \in Sockets /\ c \in Conns
  BY RunningFacts
<1>2. /\ c' = c /\ env' = env /\ job' = job /\ doneCh' = doneCh
      /\ k'.rcvd = k.rcvd /\ k'.out = k.out
  BY <1>1 DEF ClientStep, ClientSends, ClientReads, ClientFinishes,
              ClientResets, Sockets
<1>3. Consumption(c, k'.rcvd) = Consumption(c, k.rcvd)
  BY <1>2
<1> QED  BY <1>1, <1>2, <1>3, FlagsOutput, OrderMove

-----------------------------------------------------------------------------
(* The steps that add to the responses. *)

LEMMA StartInjective ==
  ASSUME Scenario(env), NEW a \in 1..(N + 1), NEW b \in 1..(N + 1),
         Start[a] = Start[b]
  PROVE  a = b
<1>1. N \in Nat
  BY ScenarioFacts
<1>2. ASSUME NEW x \in 1..(N + 1), NEW y \in 1..(N + 1), x < y
      PROVE  Start[x] # Start[y]
  <2>1. x \in 1..N /\ y \in (x + 1)..(N + 1) /\ x + 1 \in 1..(N + 1)
    BY <1>1, <1>2
  <2> DEFINE p == Start[x]
             q == Start[x + 1]
             r == Start[y]
  <2>2. q <= r /\ p \in Nat /\ q \in Nat /\ r \in Nat
    BY <2>1, LayoutFacts
  <2>3. HeaderEnd(x) = p - 1 + script[x].hdr
        /\ q = HeaderEnd(x) + script[x].body + 1 /\ HeaderEnd(x) \in Nat
    BY <2>1, HeaderEndFacts
  <2>4. /\ script[x].hdr \in Nat /\ script[x].hdr > 0
        /\ script[x].body \in Nat
    <3>1. RequestOK(x)
      BY <2>1, RequestFacts
    <3> QED  BY <3>1, Zenon DEF RequestOK
  <2> DEFINE h == script[x].hdr
             l == script[x].body
             e == HeaderEnd(x)
  <2> HIDE DEF p, q, r, h, l, e
  <2>5. e = p - 1 + h /\ q = e + l + 1 /\ h \in Nat /\ h > 0 /\ l \in Nat
    BY <2>3, <2>4 DEF h, l, e
  <2>6. p < q
    BY <2>2, <2>5
  <2>7. p # r
    BY <2>2, <2>6
  <2> QED  BY <2>7 DEF p, r
<1>3. a < b \/ a = b \/ b < a
  BY <1>1
<1> QED  BY <1>2, <1>3

\* What a well-served request is.
LEMMA ServedFacts ==
  ASSUME Running, NEW i \in 1..N
  PROVE  /\ script[i].d \in Dispatches \ {"File"} /\ script[i].bad = ""
         /\ script[i].hdr \in Nat /\ script[i].hdr > 0
         /\ script[i].hdr <= BufCap /\ script[i].body \in Nat
         /\ script[i].d = "Hijack" => script[i].body = 0
         /\ ~env.bodyBudget /\ i \in Nat /\ i > 0 /\ i - 1 \in 0..N
         /\ i \in 0..N
<1>1. WellServed(env) /\ Scenario(env)
  BY RunningFacts DEF Running
<1>2. RequestOK(i)
  BY <1>1, RequestFacts
<1>3. i \in 1..Len(env.script) /\ script = env.script /\ BufCap = env.bufCap
  BY DEF N, script, BufCap
<1>4. /\ script[i].d # "File" /\ script[i].bad = ""
      /\ script[i].hdr <= BufCap /\ ~env.bodyBudget
      /\ script[i].d = "Hijack" => script[i].body = 0
  BY <1>1, <1>3, Zenon DEF WellServed
<1>5. /\ script[i].hdr \in Nat /\ script[i].hdr > 0 /\ script[i].body \in Nat
      /\ script[i].d \in Dispatches
  BY <1>2, Zenon DEF RequestOK
<1>6. i \in Nat /\ i > 0 /\ i - 1 \in 0..N /\ i \in 0..N
  BY <1>1, ScenarioFacts
<1> QED  BY <1>4, <1>5, <1>6

\* A conn at the end of request i.
LEMMA OwedAt ==
  ASSUME Scenario(env), NEW i \in 0..N, NEW f, f + 1 = Start[i + 1],
         NEW w, NEW s, NEW j, NEW d, s.bodyNeed = 0, Owed(w, i, s, j, d)
  PROVE  LoopOrder(s, w, f, j, d)
<1>1. N \in Nat
  BY ScenarioFacts
<1>2. ASSUME NEW x \in 0..N, f + 1 = Start[x + 1] PROVE Owed(w, x, s, j, d)
  <2>1. x + 1 \in 1..(N + 1) /\ i + 1 \in 1..(N + 1)
    BY <1>1
  <2>2. x + 1 = i + 1
    BY <1>2, <2>1, StartInjective
  <2>3. x = i
    BY <1>1, <2>2
  <2> QED  BY <2>3
<1> QED  BY <1>2 DEF LoopOrder

\* At a request, all the earlier ones are answered.
LEMMA ParseUpto ==
  ASSUME Running, pc = "parse", NEW i \in 1..N, AtRequest(i)
  PROVE  /\ Upto(k.out \o c.sendBuf, i - 1, RespLen) /\ ~c.takenOver
         /\ c.file = <<>> /\ job = <<>> /\ doneCh = <<>>
         /\ c.pending = 0 /\ c.bodyNeed = 0
         /\ Before(k.out \o c.sendBuf, i)
<1> DEFINE f == Consumption(c, k.rcvd)
           w == k.out \o c.sendBuf
<1>1. ~c.takenOver
  BY TakenReads DEF Reading
<1>2. c.pending = 0 /\ c.bodyNeed = 0
  BY RunningFacts DEF At, Reading
<1>3. c.file = <<>> /\ LoopOrder(c, w, f, job, doneCh)
  BY <1>1, RunningFacts DEF Order
<1>4. job = <<>> /\ doneCh = <<>>
  BY <1>2, RunningFacts, NobodyOwns
<1>5. f + 1 = Start[i]
  BY <1>1 DEF AtRequest
<1>6. i - 1 \in 0..N /\ i - 1 + 1 = i
  <2>1. i \in Nat /\ i - 1 \in 0..N
    BY ServedFacts
  <2> QED  BY <2>1
<1> HIDE DEF f, w
<1>7. Owed(w, i - 1, c, job, doneCh)
  BY <1>2, <1>3, <1>5, <1>6 DEF LoopOrder
<1>8. Upto(w, i - 1, RespLen)
  BY <1>2, <1>7 DEF Owed
<1> QED  BY <1>1, <1>2, <1>3, <1>4, <1>8 DEF w, Before

LEMMA ConsumedAt ==
  ASSUME SInv, ~c.takenOver, NEW i \in 1..N, AtRequest(i),
         Len(c.readBuf) >= script[i].hdr + script[i].body,
         NEW t, t.readBuf = Rest(c.readBuf, script[i].hdr + script[i].body)
  PROVE  Consumption(t, k.rcvd) + 1 = Start[i + 1]
<1> DEFINE n == script[i].hdr + script[i].body
           f == Consumption(c, k.rcvd)
           g == f + n
           r == k.rcvd
           z == Start[i + 1]
<1>1. Scenario(env)
  BY SInvFacts
<1>2. /\ f \in Nat /\ f <= r /\ r \in Nat
      /\ c.readBuf = Between(f, r) /\ Len(c.readBuf) = r - f
  BY BufferFacts
<1>3. f + 1 = Start[i]
  BY DEF AtRequest
<1>4. n \in Nat /\ z = g + 1
  BY <1>1, <1>2, <1>3, RequestSpan
<1>5. r - f >= n
  BY <1>2
<1> HIDE DEF n, r, f
<1>6. n <= r - f
  BY <1>2, <1>4, <1>5
<1>7. g \in Nat /\ g <= r /\ Rest(Between(f, r), n) = Between(g, r)
  BY <1>2, <1>4, <1>6, BetweenRest
<1> HIDE DEF g, z
<1>8. t.readBuf = Between(g, r)
  BY <1>2, <1>7 DEF n
<1>9. Len(t.readBuf) = r - g
  BY <1>2, <1>7, <1>8, BetweenFacts
<1>10. Consumption(t, r) = g
  BY <1>2, <1>7, <1>9 DEF Consumption
<1> QED  BY <1>4, <1>10 DEF r, z

\* The wire and the send buffer grow by bytes.
LEMMA WireGrows ==
  ASSUME NEW o \in Parts, NEW b \in Parts, NEW bytes \in Parts
  PROVE  /\ o \o (b \o bytes) = (o \o b) \o bytes
         /\ o \o b \in Parts /\ (o \o b) \o bytes \in Parts
<1> DEFINE S == Nat \X Nat
<1>1. o \o (b \o bytes) = (o \o b) \o bytes
  <2>1. o \in Seq(S) /\ b \in Seq(S) /\ bytes \in Seq(S)
    BY DEF Parts
  <2> HIDE DEF S
  <2> QED  BY <2>1, ConcatAssociative
<1> QED  BY <1>1, PartsJoin

\* The conn s that has consumed request i and goes on at the loop.
LEMMA ConsumedOrder ==
  ASSUME Running, pc = "parse", NEW i \in 1..N, AtRequest(i),
         Len(c.readBuf) >= script[i].hdr + script[i].body,
         NEW t, t.readBuf = Rest(c.readBuf, script[i].hdr + script[i].body),
         t.bodyNeed = 0, ~t.takenOver, t.file = <<>>,
         NEW j, NEW d, Owed(k.out \o t.sendBuf, i, t, j, d),
         env' = env, c' = t, job' = j, doneCh' = d, k'.out = k.out,
         k'.rcvd = k.rcvd
  PROVE  Ordered'
<1> DEFINE f == Consumption(t, k.rcvd)
           w == k.out \o t.sendBuf
<1>1. SInv /\ Scenario(env) /\ InOrder(k.out)
  BY RunningFacts
<1>2. ~c.takenOver
  BY ParseUpto
<1>3. f + 1 = Start[i + 1]
  BY <1>1, <1>2, ConsumedAt
<1>4. i \in 0..N
  BY ServedFacts
<1>5. LoopOrder(t, w, f, j, d)
  <2> HIDE DEF f, w
  <2>1. Owed(w, i, t, j, d)
    BY DEF w
  <2> QED  BY <1>1, <1>3, <1>4, <2>1, OwedAt
<1>6. Order(t, k.out, f, j, d)
  BY <1>5 DEF Order
<1>7. Consumption(t, k'.rcvd) = f
  OBVIOUS
<1> HIDE DEF f
<1> QED  BY <1>1, <1>6, <1>7, OrderFrame

LEMMA InlineOrder ==
  ASSUME Running, pc = "parse", NEW i \in 1..N, AtRequest(i),
         Len(c.readBuf) >= script[i].hdr + script[i].body,
         NEW s \in Conns, Same(s, c), DispatchInline(s, i)
  PROVE  Ordered'
<1> DEFINE u == Consumed(s, i)
           q == Queue(u, Response(i))
           n == script[i].hdr + script[i].body
           w == k.out \o c.sendBuf
<1>1. /\ Before(w, i) /\ ~c.takenOver /\ c.file = <<>> /\ job = <<>>
      /\ doneCh = <<>> /\ c.bodyNeed = 0
  BY ParseUpto
<1>2. \E p : Goto(p, q)
  BY DEF DispatchInline, ParseEnd
<1>3. env' = env /\ c' = q /\ job' = job /\ doneCh' = doneCh /\ k' = k
  BY <1>2 DEF Goto, Continue
<1>4. /\ q.readBuf = Rest(s.readBuf, n) /\ q.bodyNeed = s.bodyNeed
      /\ q.takenOver = s.takenOver /\ q.file = s.file
      /\ q.sendBuf = s.sendBuf \o Response(i)
  BY DEF Queue, Consumed, Conns
<1> HIDE DEF u, q, n
<1>5. /\ q.readBuf = Rest(c.readBuf, n) /\ q.bodyNeed = 0 /\ ~q.takenOver
      /\ q.file = <<>> /\ q.sendBuf = c.sendBuf \o Response(i)
  BY <1>1, <1>4 DEF Same
<1>6. /\ k.out \in Parts /\ c.sendBuf \in Parts /\ Response(i) \in Parts
      /\ i \in Nat /\ i > 0
  BY RunningFacts, ServedFacts, ResponseType
<1>7. k.out \o q.sendBuf = w \o Response(i) /\ w \in Parts
  <2> DEFINE v == Response(i)
             o == k.out
             b == c.sendBuf
  <2>1. v \in Parts /\ o \in Parts /\ b \in Parts /\ q.sendBuf = b \o v
    BY <1>5, <1>6
  <2> HIDE DEF v, o, b
  <2>2. o \o (b \o v) = (o \o b) \o v /\ o \o b \in Parts
    BY <2>1, WireGrows
  <2> QED  BY <2>1, <2>2 DEF v, o, b
<1> HIDE DEF w
<1>8. Upto(w \o Response(i), i, RespLen)
  BY <1>1, <1>6, <1>7, ExtendResponse
<1>9. Owed(k.out \o q.sendBuf, i, q, job, doneCh)
  BY <1>1, <1>7, <1>8 DEF Owed
<1>10. q.readBuf = Rest(c.readBuf, script[i].hdr + script[i].body)
  BY <1>5 DEF n
<1> QED  BY <1>3, <1>5, <1>9, <1>10, ConsumedOrder

LEMMA PendingOrder ==
  ASSUME Running, pc = "parse", NEW i \in 1..N, AtRequest(i),
         Len(c.readBuf) >= script[i].hdr + script[i].body,
         NEW s \in Conns, Same(s, c), DispatchPending(s, i)
  PROVE  Ordered'
<1> DEFINE u == Consumed(s, i)
           q == [u EXCEPT !.pending = @ + 1]
           n == script[i].hdr + script[i].body
           w == k.out \o c.sendBuf
           x == [data |-> Response(i), ka |-> script[i].ka, file |-> FALSE]
<1>1. /\ Before(w, i) /\ ~c.takenOver /\ c.file = <<>> /\ job = <<>>
      /\ doneCh = <<>> /\ c.bodyNeed = 0 /\ c.pending = 0
      /\ Upto(w, i - 1, RespLen)
  BY ParseUpto
<1>2. /\ DispatchAsync(s, i) \/ DispatchSaturated(s, i)
      /\ c' = q /\ env' = env
      /\ k' = IF s.sendBuf # <<>> THEN Mod(k, "inout") ELSE k
  BY DEF DispatchPending
<1>3. k'.out = k.out /\ k'.rcvd = k.rcvd
  BY <1>2, RunningFacts DEF Mod, Sockets
<1>4. /\ q.readBuf = Rest(s.readBuf, n) /\ q.bodyNeed = s.bodyNeed
      /\ q.takenOver = s.takenOver /\ q.file = s.file
      /\ q.sendBuf = s.sendBuf /\ q.pending = s.pending + 1
  BY DEF Consumed, Conns
<1>5. \/ job' # <<>> /\ job'.i = i /\ doneCh' = <<>>
      \/ job' = <<>> /\ doneCh' = <<x>>
  <2>1. CASE DispatchAsync(s, i)
    <3>1. /\ job'.i = i /\ doneCh' = <<>>
          /\ job' = [i |-> i, ka |-> script[i].ka, need |-> 0,
                     mode |-> IF Unsent(s) THEN "queue" ELSE "write"]
      BY <1>1, <2>1 DEF DispatchAsync
    <3>2. job' \in Jobs
      <4>1. RequestOK(i)
        BY RunningFacts, RequestFacts
      <4>2. script[i].ka \in BOOLEAN
        BY <4>1, Zenon DEF RequestOK
      <4> QED  BY <3>1, <4>2 DEF Jobs
    <3> QED  BY <3>1, <3>2, JobsNotEmpty
  <2>2. CASE DispatchSaturated(s, i)
    BY <1>1, <2>2 DEF DispatchSaturated
  <2> QED  BY <1>2, <2>1, <2>2
<1>6. x.data = Response(i) /\ ~x.file
  OBVIOUS
<1> HIDE DEF u, q, n, x
<1>7. /\ q.readBuf = Rest(c.readBuf, n) /\ q.bodyNeed = 0 /\ ~q.takenOver
      /\ q.file = <<>> /\ q.sendBuf = c.sendBuf /\ q.pending = 1
  BY <1>1, <1>4 DEF Same
<1>8. i \in Nat /\ i > 0 /\ w \in Parts
  BY RunningFacts, ServedFacts, WireGrows, PartsJoin
<1>9. k.out \o q.sendBuf = w
  BY <1>7
<1> HIDE DEF w
<1>10. Upto(w \o Response(i), i, RespLen)
  BY <1>1, <1>8, ExtendResponse
<1>11. ASSUME NEW j, NEW d, \/ j # <<>> /\ j.i = i /\ d = <<>>
                            \/ j = <<>> /\ d = <<x>>
       PROVE  Owed(w, i, q, j, d)
  <2>1. CASE j # <<>> /\ j.i = i /\ d = <<>>
    BY <1>1, <1>7, <2>1 DEF Owed
  <2>2. CASE j = <<>> /\ d = <<x>>
    <3>1. d[1] = x
      BY <2>2
    <3> QED  BY <1>6, <1>7, <1>10, <2>2, <3>1 DEF Owed
  <2> QED  BY <1>11, <2>1, <2>2
<1>12. q.readBuf = Rest(c.readBuf, script[i].hdr + script[i].body)
  BY <1>7 DEF n
<1>13. Owed(k.out \o q.sendBuf, i, q, job', doneCh')
  BY <1>5, <1>9, <1>11
<1> QED  BY <1>2, <1>3, <1>7, <1>12, <1>13, ConsumedOrder

LEMMA TakeoverOrder ==
  ASSUME Running, pc = "parse", NEW i \in 1..N, AtRequest(i),
         NEW s \in Conns, Same(s, c), ~Unsent(s), DispatchTakeover(s, i)
  PROVE  Ordered'
<1> DEFINE u == Consumed(s, i)
           q == [u EXCEPT !.pending = @ + 1, !.takenOver = TRUE,
                          !.readBuf = <<>>]
           f == Consumption(q, k'.rcvd)
<1>1. /\ Before(k.out \o c.sendBuf, i) /\ c.file = <<>> /\ doneCh = <<>>
      /\ c.pending = 0
  BY ParseUpto
<1>2. /\ c' = q /\ env' = env /\ doneCh' = doneCh /\ job'.i = i
      /\ job'.mode \in {"loop", "hijack"}
      /\ k' = [k EXCEPT !.mask = "none", !.ready = FALSE]
  BY DEF DispatchTakeover
<1>3. k'.out = k.out /\ k.out \in Parts /\ InOrder(k.out)
  BY <1>2, RunningFacts DEF Sockets
<1>4. /\ q.takenOver /\ q.file = s.file /\ q.sendBuf = s.sendBuf
      /\ q.pending = s.pending + 1
  BY DEF Consumed, Conns
<1> HIDE DEF u, q
<1>5. q.file = <<>> /\ q.sendBuf = <<>> /\ q.pending = 1 /\ c.sendBuf = <<>>
  BY <1>1, <1>4 DEF Unsent, Same
<1>6. Before(k.out, i)
  <2>1. k.out \o <<>> = k.out
    BY <1>3, PartsJoin
  <2> QED  BY <1>1, <1>5, <2>1
<1>7. TakenOrder(q, k.out, job', doneCh')
  BY <1>1, <1>2, <1>5, <1>6 DEF TakenOrder, Serving
<1>8. Order(q, k.out, f, job', doneCh')
  BY <1>4, <1>5, <1>7 DEF Order
<1> HIDE DEF f
<1>9. Consumption(q, k'.rcvd) = f
  BY DEF f
<1> QED  BY <1>2, <1>3, <1>8, <1>9, OrderFrame

LEMMA DispatchOrder ==
  ASSUME Running, pc = "parse", Parsing, NEW i \in 1..N, AtRequest(i),
         Len(c.readBuf) >= script[i].hdr + script[i].body, Dispatch(i)
  PROVE  Ordered'
<1>1. IInv /\ script[i].d # "File"
  BY RunningFacts, ServedFacts
<1>2. PICK s \in Conns :
        /\ Same(s, c)
        /\ \/ Goto("send", s)
           \/ DispatchInline(s, i)
           \/ script[i].d = "File" /\ DispatchFile(s, i)
           \/ DispatchPending(s, i)
           \/ ~Unsent(s) /\ DispatchTakeover(s, i)
  BY <1>1, DispatchCases
<1>3. CASE Goto("send", s)
  <2>1. Output(s, c) /\ s.readBuf = c.readBuf
    BY <1>2 DEF Same, Output
  <2> QED  BY <1>3, <2>1, OrderGo
<1>4. CASE DispatchInline(s, i)
  BY <1>2, <1>4, InlineOrder
<1>5. CASE DispatchPending(s, i)
  BY <1>2, <1>5, PendingOrder
<1>6. CASE ~Unsent(s) /\ DispatchTakeover(s, i)
  BY <1>2, <1>6, TakeoverOrder
<1> QED  BY <1>1, <1>2, <1>3, <1>4, <1>5, <1>6

LEMMA BeginBodyOrder ==
  ASSUME Running, pc = "parse", NEW i \in 1..N, AtRequest(i),
         script[i].body > 0, BeginBody(i)
  PROVE  Ordered'
<1> DEFINE n == script[i].body
           t == [c EXCEPT !.readDrained = FALSE, !.header = i, !.bodyNeed = n,
                          !.bodyBuf = <<>>, !.inflight = @ + n]
           s == Accumulate(t, Rest(c.readBuf, script[i].hdr))
           x == <<<<i, 0>>>>
           q == Queue(s, x)
           w == k.out \o c.sendBuf
           f(u) == Consumption(u, k.rcvd)
<1>1. /\ Upto(w, i - 1, RespLen) /\ Before(w, i) /\ ~c.takenOver
      /\ c.file = <<>> /\ job = <<>> /\ doneCh = <<>>
  BY ParseUpto
<1>2. /\ ~env.bodyBudget /\ i \in Nat /\ i > 0 /\ n \in Nat /\ n > 0
  BY ServedFacts
<1>3. /\ c \in Conns /\ k.out \in Parts /\ c.sendBuf \in Parts
      /\ InOrder(k.out) /\ x \in Parts
  BY <1>2, RunningFacts, ResponseType
<1>4. (\E p : Goto(p, s))
      \/ (c' = q /\ UNCHANGED <<env, job, doneCh, k>>)
  BY <1>2 DEF BeginBody
<1>5. /\ env' = env /\ job' = job /\ doneCh' = doneCh /\ k' = k
      /\ c' = s \/ c' = q
  BY <1>4 DEF Goto, Continue
<1>6. /\ s.header = i /\ s.bodyNeed = n /\ s.takenOver = c.takenOver
      /\ s.file = c.file /\ s.sendBuf = c.sendBuf
      /\ q.header = i /\ q.bodyNeed = n /\ q.takenOver = c.takenOver
      /\ q.file = c.file /\ q.sendBuf = c.sendBuf \o x
  BY <1>3 DEF Accumulate, Queue, Conns
<1> HIDE DEF n, t, s, q
<1>7. k.out \o (c.sendBuf \o x) = w \o x /\ w \in Parts
  <2> DEFINE o == k.out
             b == c.sendBuf
  <2>1. o \in Parts /\ b \in Parts /\ x \in Parts
    BY <1>3
  <2> HIDE DEF o, b, x
  <2>2. o \o (b \o x) = (o \o b) \o x /\ o \o b \in Parts
    BY <2>1, WireGrows
  <2> QED  BY <2>2 DEF o, b
<1> HIDE DEF w
<1>8. Before(w \o x, i)
  BY <1>1, <1>2, <1>7, ExtendContinue DEF Before
<1> HIDE DEF x
<1>9. ASSUME NEW u, NEW y, u.header = i, u.bodyNeed = n, ~u.takenOver,
             u.file = <<>>, k.out \o u.sendBuf = y, Before(y, i)
      PROVE  Order(u, k.out, f(u), job, doneCh)
  <2>1. LoopOrder(u, y, f(u), job, doneCh)
    BY <1>2, <1>9 DEF LoopOrder
  <2> QED  BY <1>9, <2>1 DEF Order
<1>10. Order(s, k.out, f(s), job, doneCh)
  BY <1>1, <1>6, <1>9 DEF w
<1>11. Order(q, k.out, f(q), job, doneCh)
  BY <1>1, <1>6, <1>7, <1>8, <1>9
<1>12. Order(c', k.out, f(c'), job, doneCh)
  BY <1>5, <1>10, <1>11
<1>13. Consumption(c', k'.rcvd) = f(c')
  BY <1>5
<1> HIDE DEF f
<1> QED  BY <1>3, <1>5, <1>12, <1>13, OrderFrame

LEMMA TryParseOrder ==
  ASSUME Running, TryParse
  PROVE  Ordered'
<1>1. /\ IInv /\ SInv /\ c \in Conns /\ pc = "parse" /\ Output(c, c)
  BY RunningFacts, FlagsOutput DEF TryParse
<1>2. Parsing
  BY <1>1, ParsingFacts DEF Reading
<1>3. CASE c.readBuf = <<>>
  <2>1. ParseEnd(c)
    BY <1>3 DEF TryParse
  <2> QED  BY <1>1, <2>1, ParseEndOrder
<1>4. CASE c.readBuf # <<>>
  <2> DEFINE i == RequestAt(c.readBuf[1])
             n == Len(c.readBuf)
  <2>1. AtRequest(i)
    BY <1>1, <1>4, ParseAtRequest DEF AtRequest
  <2>2. /\ i \in 1..N
        /\ \/ n < script[i].hdr /\ HeaderMore
           \/ script[i].bad # "" /\ CloseConn(c)
           \/ script[i].bad # "" /\ writeAndClose(c, i)
           \/ n >= script[i].hdr + script[i].body /\ Dispatch(i)
           \/ n >= script[i].hdr /\ script[i].body > 0 /\ BeginBody(i)
    BY <1>1, <1>2, <1>4, TryParseCases
  <2> HIDE DEF i
  <2>3. /\ script[i].bad = "" /\ script[i].hdr <= BufCap
        /\ script[i].hdr \in Nat
    BY <2>2, ServedFacts
  <2>4. CASE n < script[i].hdr /\ HeaderMore
    <3>1. n \in Nat /\ BufCap \in Nat
      BY <1>2 DEF Parsing
    <3>2. n # BufCap
      <4> DEFINE h == script[i].hdr
      <4>1. h \in Nat /\ h <= BufCap /\ n < h
        BY <2>3, <2>4
      <4> HIDE DEF h, n
      <4> QED  BY <3>1, <4>1
    <3>3. Goto("send", c) \/ Goto("refill", c) \/ ParseEnd(c)
      BY <2>4, <3>2 DEF HeaderMore
    <3> QED  BY <1>1, <3>3, OrderGo, ParseEndOrder
  <2>5. CASE n >= script[i].hdr + script[i].body /\ Dispatch(i)
    BY <1>1, <1>2, <2>1, <2>2, <2>5, DispatchOrder
  <2>6. CASE script[i].body > 0 /\ BeginBody(i)
    BY <1>1, <2>1, <2>2, <2>6, BeginBodyOrder
  <2> QED  BY <2>2, <2>3, <2>4, <2>5, <2>6
<1> QED  BY <1>3, <1>4

\* The whole body of request i is read.
LEMMA FinishAt ==
  ASSUME SInv, pc = "finish", ~c.takenOver
  PROVE  /\ c.header \in 1..N /\ c.bodyNeed = script[c.header].body
         /\ Consumption(c, k.rcvd) + 1 = Start[c.header + 1]
         /\ c.bodyNeed > 0
<1> DEFINE f == Consumption(c, k.rcvd)
           i == c.header
           e == HeaderEnd(i)
           n == script[i].body
           z == Start[i + 1]
<1>1. /\ Scenario(env) /\ c \in Conns /\ Fits(c) /\ At(pc, ret, c)
      /\ c.bodyNeed \in Nat /\ Flow(c, k.rcvd, pc)
  BY SInvFacts
<1>2. c.bodyNeed > 0 /\ c.header > 0
  BY <1>1 DEF At, Filling, Fits
<1>3. i \in 1..N
  <2>1. c.header \in 0..N /\ N \in Nat
    BY <1>1, ScenarioFacts DEF Conns
  <2> QED  BY <1>2, <2>1
<1>4. f \in Nat /\ BodyTo(c, f) /\ Len(c.bodyBuf) = c.bodyNeed
  BY <1>1, <1>2 DEF Flow, BodyAt
<1>5. c.bodyNeed = n /\ e <= f /\ c.bodyBuf = Between(e, f)
  BY <1>4 DEF BodyTo
<1>6. e \in Nat /\ z = e + n + 1
  BY <1>1, <1>3, HeaderEndFacts
<1> HIDE DEF f, e, n, z
<1>7. Len(c.bodyBuf) = f - e
  BY <1>4, <1>5, <1>6, BetweenFacts
<1>8. f + 1 = z
  BY <1>1, <1>4, <1>5, <1>6, <1>7
<1> QED  BY <1>2, <1>3, <1>5, <1>8 DEF f, n, z

LEMMA FinishBodyOrder ==
  ASSUME Running, FinishBody
  PROVE  Ordered'
<1> DEFINE i == c.header
           s == [c EXCEPT !.inflight = @ - c.bodyNeed, !.bodyNeed = 0,
                          !.bodyBuf = <<>>, !.header = 0, !.deadline = FALSE,
                          !.readDrained = FALSE]
           x == Response(i)
           q == Queue([s EXCEPT !.keepAlive = script[i].ka], x)
           w == k.out \o c.sendBuf
           f == Consumption(c, k.rcvd)
<1>1. /\ SInv /\ c \in Conns /\ pc = "finish" /\ Scenario(env)
      /\ k.out \in Parts /\ c.sendBuf \in Parts /\ InOrder(k.out)
  BY RunningFacts DEF FinishBody
<1>2. ~c.takenOver
  BY <1>1, TakenReads DEF Filling
<1>3. /\ i \in 1..N /\ c.bodyNeed = script[i].body /\ c.bodyNeed > 0
      /\ f + 1 = Start[i + 1]
  BY <1>1, <1>2, FinishAt
<1>4. /\ script[i].d # "Hijack" /\ i \in Nat /\ i > 0 /\ i \in 0..N
  <2> HIDE DEF i
  <2>1. /\ script[i].d = "Hijack" => script[i].body = 0
        /\ i \in Nat /\ i > 0 /\ i \in 0..N
    BY <1>3, ServedFacts
  <2>2. script[i].body # 0
    BY <1>1, <1>3 DEF Conns
  <2> QED  BY <2>1, <2>2
<1>5. Goto("send", q)
  BY <1>4 DEF FinishBody
<1>6. env' = env /\ job' = job /\ doneCh' = doneCh /\ k' = k /\ c' = q
  BY <1>5 DEF Goto, Continue
<1>7. /\ q.readBuf = c.readBuf /\ q.bodyNeed = 0 /\ q.file = c.file
      /\ q.takenOver = c.takenOver /\ q.sendBuf = c.sendBuf \o x
      /\ q.pending = c.pending
  BY <1>1 DEF Queue, Conns
<1>8. /\ c.file = <<>> /\ LoopOrder(c, w, f, job, doneCh)
  BY <1>2, RunningFacts DEF Order
<1>9. c.pending = 0
  BY <1>3, RunningFacts DEF Fits
<1>10. job = <<>> /\ doneCh = <<>>
  BY <1>9, RunningFacts, NobodyOwns
<1>11. Before(w, i)
  BY <1>3, <1>8 DEF LoopOrder
<1> HIDE DEF s, q
<1>12. k.out \o (c.sendBuf \o x) = w \o x /\ w \in Parts
  <2> DEFINE o == k.out
             b == c.sendBuf
  <2>1. o \in Parts /\ b \in Parts /\ x \in Parts
    BY <1>1, <1>4, ResponseType
  <2> HIDE DEF o, b, x
  <2>2. o \o (b \o x) = (o \o b) \o x /\ o \o b \in Parts
    BY <2>1, WireGrows
  <2> QED  BY <2>2 DEF o, b
<1> HIDE DEF w
<1>13. Upto(w \o x, i, RespLen)
  BY <1>4, <1>11, <1>12, ExtendResponse
<1>14. Consumption(q, k.rcvd) = f
  BY <1>7 DEF Consumption
<1> HIDE DEF f, x, i
<1>15. Owed(w \o x, i, q, job, doneCh)
  BY <1>10, <1>13 DEF Owed
<1> DEFINE y == w \o x
<1>16. k.out \o q.sendBuf = y
  BY <1>7, <1>12
<1>17. LoopOrder(q, y, f, job, doneCh)
  <2>1. Owed(y, i, q, job, doneCh)
    BY <1>15
  <2> HIDE DEF y
  <2> QED  BY <1>1, <1>3, <1>4, <1>7, <2>1, OwedAt
<1> HIDE DEF y
<1>18. Order(q, k.out, f, job, doneCh)
  BY <1>2, <1>7, <1>8, <1>16, <1>17 DEF Order
<1>19. Consumption(q, k'.rcvd) = f
  BY <1>6, <1>14
<1> QED  BY <1>1, <1>6, <1>18, <1>19, OrderFrame

\* What is on its way is in order, all of it.
LEMMA WireInOrder ==
  ASSUME Running, ~c.takenOver
  PROVE  /\ InOrder(k.out \o c.sendBuf)
         /\ doneCh # <<>> => InOrder((k.out \o c.sendBuf) \o doneCh[1].data)
<1> DEFINE w == k.out \o c.sendBuf
           f == Consumption(c, k.rcvd)
           v == doneCh[1].data
<1>1. /\ Scenario(env) /\ c \in Conns /\ c.bodyNeed \in Nat /\ Fits(c)
      /\ Flow(c, k.rcvd, pc) /\ Owes(c, job, doneCh) /\ pc # "closed"
      /\ k.out \in Parts /\ c.sendBuf \in Parts /\ IInv
      /\ doneCh \in Seq(Completions)
  BY RunningFacts DEF TypeOK
<1>2. LoopOrder(c, w, f, job, doneCh)
  BY RunningFacts DEF Order
<1>3. w \in Parts
  BY <1>1, PartsJoin
<1>4. CASE c.bodyNeed > 0
  <2>1. Before(w, c.header)
    BY <1>2, <1>4 DEF LoopOrder
  <2>2. c.pending = 0
    BY <1>1, <1>4 DEF Fits
  <2>3. doneCh = <<>>
    BY <1>1, <2>2, NobodyOwns
  <2> QED  BY <2>1, <2>3 DEF Before, Upto
<1>5. CASE c.bodyNeed = 0
  <2>1. PICK j \in 1..(N + 1) : f + 1 = Start[j]
    BY <1>1, <1>5 DEF Flow, Boundary
  <2>2. j - 1 \in 0..N /\ j - 1 + 1 = j
    BY <1>1, ScenarioFacts
  <2> HIDE DEF f, w
  <2> DEFINE i == j - 1
  <2>3. Owed(w, i, c, job, doneCh)
    BY <1>2, <1>5, <2>1, <2>2 DEF LoopOrder
  <2> HIDE DEF i
  <2>4. CASE doneCh # <<>>
    <3>1. InOrder(w \o v)
      BY <2>3, <2>4 DEF Owed, Upto
    <3>2. v \in Parts
      <4>1. Len(doneCh) \in Nat \ {0}
        BY <1>1, <2>4, EmptySeq
      <4>2. doneCh[1] \in Completions
        BY <1>1, <4>1, ElementOfSeq
      <4> QED  BY <4>2 DEF Completions
    <3> HIDE DEF v
    <3>3. InOrder(w)
      BY <1>3, <3>1, <3>2, OrderPrefix
    <3> QED  BY <3>1, <3>3 DEF w, v
  <2>5. CASE doneCh = <<>> /\ job # <<>>
    <3>1. InOrder(w)
      BY <2>3, <2>5 DEF Owed, Upto
    <3> QED  BY <2>5, <3>1 DEF w
  <2>6. CASE doneCh = <<>> /\ job = <<>>
    <3>1. c.pending = 0
      BY <1>1, <2>6 DEF Owes
    <3>2. InOrder(w)
      BY <2>3, <3>1 DEF Owed, Upto
    <3> QED  BY <2>6, <3>2 DEF w
  <2> QED  BY <2>4, <2>5, <2>6
<1> QED  BY <1>1, <1>4, <1>5

\* Bytes move from the send buffer to the wire.
LEMMA TransferOrder ==
  ASSUME Running, c.sendBuf # <<>>, k.space > 0,
         Transfer(c.sendBuf,
                  [c EXCEPT !.sendBuf = Rest(@, Wrote(k, c.sendBuf))])
  PROVE  Ordered'
<1> DEFINE b == c.sendBuf
           n == Wrote(k, b)
           s == [c EXCEPT !.sendBuf = Rest(@, n)]
           x == SubSeq(b, 1, n)
           y == Rest(b, n)
           o == k.out
           w == o \o b
           f == Consumption(c, k.rcvd)
<1>1. /\ c \in Conns /\ k \in Sockets /\ o \in Parts /\ b \in Parts
      /\ Order(c, o, f, job, doneCh)
  BY RunningFacts
<1>2. ~c.takenOver /\ LoopOrder(c, w, f, job, doneCh) /\ c.file = <<>>
  BY <1>1 DEF Order, TakenOrder
<1>3. InOrder(w)
  BY <1>2, WireInOrder
<1>4. n \in 0..Len(b)
  <2>1. k.space \in Nat /\ Len(b) \in Nat
    BY <1>1, LenProperties DEF Sockets, Parts
  <2> QED  BY <2>1 DEF Wrote, SmallerOf
<1>5. /\ env' = env /\ job' = job /\ doneCh' = doneCh /\ c' = s
      /\ k' = AfterWrite(k, b)
  BY DEF Transfer
<1>6. k'.out = o \o x /\ k'.rcvd = k.rcvd
  BY <1>1, <1>5 DEF AfterWrite, Sockets
<1>7. /\ s.sendBuf = y /\ s.file = c.file /\ s.pending = c.pending
      /\ s.takenOver = c.takenOver /\ s.bodyNeed = c.bodyNeed
      /\ s.header = c.header /\ s.readBuf = c.readBuf
  BY <1>1 DEF Conns
<1> HIDE DEF s, n
<1>8. x \in Parts /\ y \in Parts /\ x \o y = b
  <2> HIDE DEF b
  <2> QED  BY <1>1, <1>4, CutJoin
<1> HIDE DEF x, y, b, o
<1>9. (o \o x) \o y = w /\ o \o x \in Parts
  <2>1. o \in Parts /\ x \in Parts /\ y \in Parts
    BY <1>1, <1>8
  <2>2. o \o (x \o y) = (o \o x) \o y /\ o \o x \in Parts
    BY <2>1, WireGrows
  <2> QED  BY <1>8, <2>2
<1>10. InOrder(o \o x)
  <2> DEFINE u == o \o x
  <2>1. InOrder(u \o y) /\ u \in Parts
    BY <1>3, <1>9
  <2> HIDE DEF u
  <2>2. InOrder(u)
    BY <1>8, <2>1, OrderPrefix
  <2> QED  BY <2>2 DEF u
<1> DEFINE u == o \o x
<1> HIDE DEF w, f
<1>11. LoopOrder(s, w, f, job, doneCh)
  BY <1>2, <1>7 DEF LoopOrder, Owed
<1>12. u \o s.sendBuf = w /\ k'.out = u /\ InOrder(u)
  BY <1>6, <1>7, <1>9, <1>10
<1> HIDE DEF u
<1>13. Order(s, u, f, job, doneCh)
  BY <1>2, <1>7, <1>11, <1>12 DEF Order
<1>14. Consumption(s, k'.rcvd) = f
  BY <1>6, <1>7 DEF f, Consumption
<1> QED  BY <1>5, <1>12, <1>13, <1>14, OrderFrame

LEMMA DirectSendOrder ==
  ASSUME Running, DirectSend
  PROVE  Ordered'
<1>1. /\ c \in Conns /\ k \in Sockets /\ ~k.rst /\ Output(c, c)
      /\ k.space \in Nat
  <2>1. c \in Conns /\ k \in Sockets /\ ~k.rst /\ Scenario(env)
    BY RunningFacts
  <2>2. SendCap \in Nat
    BY <2>1, ScenarioFacts
  <2>3. k.space \in Nat
    BY <2>1, <2>2 DEF Sockets
  <2> QED  BY <2>1, <2>3, FlagsOutput
<1>2. c.file = <<>>
  BY RunningFacts DEF Order
<1>3. CASE ~Unsent(c)
  <2>1. Sent
    BY <1>3 DEF DirectSend
  <2>2. \/ UNCHANGED <<env, c, job, doneCh, k>>
        \/ \E p : Goto(p, c)
        \/ CloseConn(c)
    <3>1. c.pending \in 0..1 /\ c.bodyNeed \in Nat /\ c.keepAlive \in BOOLEAN
      BY <1>1 DEF Conns
    <3>2. CASE c.bodyNeed > 0
      BY <2>1, <3>2 DEF Sent
    <3>3. CASE c.bodyNeed = 0 /\ c.pending > 0
      BY <2>1, <3>3 DEF Sent
    <3>4. CASE c.bodyNeed = 0 /\ c.pending = 0 /\ ~c.keepAlive
      BY <2>1, <3>4 DEF Sent
    <3>5. CASE /\ c.bodyNeed = 0 /\ c.pending = 0 /\ c.keepAlive
               /\ c.readBuf # <<>>
      BY <2>1, <3>5 DEF Sent
    <3>6. CASE /\ c.bodyNeed = 0 /\ c.pending = 0 /\ c.keepAlive
               /\ c.readBuf = <<>>
      BY <2>1, <3>6 DEF Sent
    <3> QED  BY <3>1, <3>2, <3>3, <3>4, <3>5, <3>6
  <2>3. CASE UNCHANGED <<env, c, job, doneCh, k>>
    BY <1>1, <2>3, OrderMove
  <2>4. CASE \E p : Goto(p, c)
    BY <1>1, <2>4, OrderGo
  <2>5. CASE CloseConn(c)
    BY <2>5, OrderClose
  <2> QED  BY <2>2, <2>3, <2>4, <2>5
<1>4. CASE Unsent(c) /\ k.space = 0
  <2> DEFINE s == [c EXCEPT !.readDrained = FALSE]
  <2>1. WouldBlock
    BY <1>1, <1>4 DEF DirectSend
  <2>2. /\ env' = env /\ job' = job /\ doneCh' = doneCh /\ c' = s
        /\ k' = Mod(k, "inout")
    BY <2>1 DEF WouldBlock
  <2>3. Output(s, c) /\ s.readBuf = c.readBuf
    BY <1>1 DEF Output, Conns
  <2> HIDE DEF s
  <2>4. k'.out = k.out /\ k'.rcvd = k.rcvd
    BY <1>1, <2>2 DEF Mod, Sockets
  <2>5. Consumption(s, k'.rcvd) = Consumption(c, k.rcvd)
    BY <2>3, <2>4 DEF Consumption
  <2> QED  BY <2>2, <2>3, <2>4, <2>5, OrderMove
<1>5. CASE Unsent(c) /\ k.space > 0
  <2>1. c.sendBuf # <<>>
    BY <1>2, <1>5 DEF Unsent
  <2>2. Transfer(c.sendBuf,
                 [c EXCEPT !.sendBuf = Rest(@, Wrote(k, c.sendBuf))])
    <3>1. ~(k.space = 0)
      BY <1>1, <1>5
    <3> QED  BY <1>1, <1>5, <2>1, <3>1 DEF DirectSend
  <2> QED  BY <1>5, <2>1, <2>2, TransferOrder
<1> QED  BY <1>1, <1>3, <1>4, <1>5

\* A handler has the conn: nothing else is on its way to the loop.
LEMMA HandlerHas ==
  ASSUME Running, job # <<>>
  PROVE  /\ job \in Jobs /\ job.i \in 1..N /\ job.i \in Nat /\ job.i > 0
         /\ doneCh = <<>> /\ c.pending = 1 /\ c.bodyNeed = 0
<1>1. /\ TypeOK /\ c \in Conns /\ Owes(c, job, doneCh) /\ Fits(c)
      /\ c.bodyNeed \in Nat /\ Scenario(env)
  BY RunningFacts
<1>2. job \in Jobs /\ doneCh \in Seq(Completions)
  BY <1>1 DEF TypeOK
<1>3. job.i \in 1..N /\ N \in Nat
  BY <1>1, <1>2, ScenarioFacts DEF Jobs
<1>4. Len(doneCh) \in Nat /\ c.pending = Len(doneCh) + 1 /\ c.pending \in 0..1
  BY <1>1, <1>2, LenProperties DEF Owes, Conns
<1>5. Len(doneCh) = 0 /\ c.pending = 1
  BY <1>4
<1>6. doneCh = <<>>
  BY <1>2, <1>5, EmptySeq
<1>7. c.bodyNeed = 0
  BY <1>1, <1>5 DEF Fits
<1> QED  BY <1>2, <1>3, <1>5, <1>6, <1>7

\* Where a conn that waits for its handler stands.
LEMMA OwedNow ==
  ASSUME Running, ~c.takenOver, c.bodyNeed = 0
  PROVE  \E i \in 0..N :
           /\ Consumption(c, k.rcvd) + 1 = Start[i + 1]
           /\ Owed(k.out \o c.sendBuf, i, c, job, doneCh)
<1> DEFINE w == k.out \o c.sendBuf
           f == Consumption(c, k.rcvd)
<1>1. Scenario(env) /\ Flow(c, k.rcvd, pc) /\ pc # "closed"
  BY RunningFacts
<1>2. LoopOrder(c, w, f, job, doneCh)
  BY RunningFacts DEF Order
<1>3. PICK j \in 1..(N + 1) : f + 1 = Start[j]
  BY <1>1 DEF Flow, Boundary
<1>4. j - 1 \in 0..N /\ j - 1 + 1 = j
  BY <1>1, ScenarioFacts
<1> HIDE DEF f, w
<1> DEFINE i == j - 1
<1>5. Owed(w, i, c, job, doneCh) /\ f + 1 = Start[i + 1] /\ i \in 0..N
  BY <1>2, <1>3, <1>4 DEF LoopOrder
<1> HIDE DEF i
<1> QED  BY <1>5 DEF f, w

\* A pool or Spawn handler writes what it may; the rest waits in doneCh.
\* What a goroutine is follows from who owns the connection.
LEMMA TakenMode ==
  ASSUME Running, c.takenOver, job # <<>>
  PROVE  job.mode \in {"loop", "hijack"}
<1>1. Order(c, k.out, Consumption(c, k.rcvd), job, doneCh)
  BY RunningFacts
<1> QED  BY <1>1 DEF Order, TakenOrder

LEMMA HandlerReturnsOrder ==
  ASSUME Running, HandlerReturns
  PROVE  Ordered'
<1> DEFINE resp == Response(job.i)
           n == IF job.mode = "write" /\ ~k.rst THEN Wrote(k, resp) ELSE 0
           o == k.out
           b == c.sendBuf
           x == SubSeq(resp, 1, n)
           y == Rest(resp, n)
           w == o \o b
           u == o \o x
           f == Consumption(c, k.rcvd)
           d == <<[data |-> y, ka |-> job.ka, file |-> FALSE]>>
<1> job # <<>> /\ ~c.takenOver
  BY TakenMode DEF HandlerReturns
<1>1. /\ job # <<>> /\ ~c.takenOver /\ env' = env /\ c' = c
      /\ k' = (IF n > 0 THEN AfterWrite(k, resp) ELSE k)
      /\ job' = <<>>
      /\ doneCh' = Append(doneCh, [data |-> y, ka |-> job.ka,
                                   file |-> FALSE])
  BY DEF HandlerReturns, Complete
<1>2. /\ job \in Jobs /\ job.i \in 1..N /\ job.i \in Nat /\ job.i > 0
      /\ doneCh = <<>> /\ c.pending = 1 /\ c.bodyNeed = 0
  BY <1>1, HandlerHas
<1>3. /\ TypeOK /\ o \in Parts /\ b \in Parts /\ k \in Sockets
      /\ Scenario(env) /\ Owes(c, job, doneCh) /\ c.file = <<>>
  BY RunningFacts DEF Order
<1>4. resp \in Parts /\ Len(resp) \in Nat
  BY <1>2, ResponseType, LenProperties DEF Parts
<1> HIDE DEF resp
<1>5. n \in 0..Len(resp)
  <2>1. Wrote(k, resp) \in 0..Len(resp)
    BY <1>3, <1>4, WriteKeeps
  <2> QED  BY <1>4, <2>1
<1>6. x \in Parts /\ y \in Parts /\ x \o y = resp
  <2> HIDE DEF n
  <2> QED  BY <1>4, <1>5, CutJoin
<1>7. n = 0 => x = <<>>
  BY <1>4 DEF Parts
<1>8. k'.out = u /\ k'.rcvd = k.rcvd
  <2>1. CASE n > 0
    <3>1. n = Wrote(k, resp)
      BY <2>1
    <3> HIDE DEF n
    <3>2. k' = AfterWrite(k, resp)
      BY <1>1, <2>1
    <3>3. AfterWrite(k, resp).out = o \o SubSeq(resp, 1, Wrote(k, resp))
      BY <1>3 DEF AfterWrite, Sockets
    <3>4. AfterWrite(k, resp).rcvd = k.rcvd
      BY <1>3 DEF AfterWrite, Sockets
    <3> QED  BY <3>1, <3>2, <3>3, <3>4
  <2>2. CASE ~(n > 0)
    <3>1. n = 0
      BY <1>4, <1>5, <2>2
    <3>2. o \o <<>> = o
      BY <1>3, PartsJoin
    <3> QED  BY <1>1, <1>7, <2>2, <3>1, <3>2
  <2> QED  BY <2>1, <2>2
<1>9. n = 0 \/ b = <<>>
  BY <1>1, <1>3 DEF Owes, Unsent
<1>10. PICK i \in 0..N : f + 1 = Start[i + 1] /\ Owed(w, i, c, job, doneCh)
  BY <1>1, <1>2, OwedNow
<1>11. job.i = i /\ Upto(w, i - 1, RespLen) /\ i \in Nat /\ i > 0
  BY <1>1, <1>2, <1>10 DEF Owed
<1>12. doneCh' = d
  BY <1>1, <1>2
<1> HIDE DEF n, x, y, o, b
<1>13. Upto(w \o resp, i, RespLen)
  <2>1. w \in Parts /\ Before(w, i)
    BY <1>3, <1>11, PartsJoin DEF Before
  <2> HIDE DEF w
  <2>2. Upto(w \o Response(i), i, RespLen)
    BY <1>11, <2>1, ExtendResponse
  <2> QED  BY <1>11, <2>2 DEF resp
<1>14. (u \o b) \o y = w \o resp /\ u \in Parts /\ u \o b \in Parts
  <2>1. u \in Parts
    BY <1>3, <1>6, PartsJoin
  <2>2. u \o b \in Parts
    BY <1>3, <2>1, PartsJoin
  <2>3. CASE n = 0
    <3>1. x = <<>> /\ u = o
      BY <1>3, <1>7, <2>3, PartsJoin
    <3>2. y = resp
      <4>1. Rest(resp, 0) = resp
        <5>1. SubSeq(resp, 0 + 1, Len(resp)) = resp
          BY <1>4 DEF Parts
        <5> QED  BY <5>1 DEF Rest
      <4> QED  BY <2>3, <4>1 DEF y
    <3> QED  BY <2>1, <2>2, <3>1, <3>2
  <2>4. CASE b = <<>>
    <3>1. u \o b = u /\ w = o
      BY <1>3, <2>1, <2>4, PartsJoin
    <3>2. o \o (x \o y) = (o \o x) \o y
      BY <1>3, <1>6, WireGrows
    <3> QED  BY <1>6, <2>1, <2>2, <3>1, <3>2
  <2> QED  BY <1>9, <2>3, <2>4
<1> HIDE DEF u, w
<1>15. Upto((u \o b) \o y, i, RespLen)
  BY <1>13, <1>14
<1>16. InOrder(u)
  <2> DEFINE v == u \o b
  <2>1. InOrder(v \o y) /\ v \in Parts
    BY <1>14, <1>15 DEF Upto
  <2> HIDE DEF v
  <2>2. InOrder(v)
    BY <1>6, <2>1, OrderPrefix
  <2>3. InOrder(u \o b)
    BY <2>2 DEF v
  <2> QED  BY <1>3, <1>14, <2>3, OrderPrefix
<1> DEFINE j == <<>>
<1>17. d[1].data = y /\ d[1].file = FALSE
  OBVIOUS
<1> HIDE DEF d, f
<1>18. Owed(u \o b, i, c, j, d)
  BY <1>2, <1>15, <1>17 DEF Owed
<1> HIDE DEF j
<1>19. LoopOrder(c, u \o b, f, j, d)
  BY <1>2, <1>3, <1>10, <1>18, OwedAt
<1>20. Order(c, u, f, j, d)
  BY <1>1, <1>3, <1>19 DEF Order, b
<1>21. job' = j /\ Consumption(c, k'.rcvd) = f
  BY <1>1, <1>8 DEF j, f
<1> QED  BY <1>1, <1>8, <1>12, <1>16, <1>20, <1>21, OrderFrame

LEMMA ServingInOrder ==
  ASSUME NEW w, NEW i, Serving(w, i)
  PROVE  InOrder(w)
BY DEF Serving, Before, Upto

\* What a connection that is taken over holds.
LEMMA TakenHas ==
  ASSUME Running, c.takenOver
  PROVE  /\ TakenOrder(c, k.out, job, doneCh) /\ c.file = <<>>
         /\ c.pending = 1 /\ c.sendBuf = <<>>
         /\ job # <<>> => Serving(k.out, job.i)
<1>1. Order(c, k.out, Consumption(c, k.rcvd), job, doneCh)
  BY RunningFacts
<1> QED  BY <1>1 DEF Order, TakenOrder

\* takeoverLoop goes on.
LEMMA ServingKeeps ==
  ASSUME Running, c.takenOver, env' = env, c' = c, doneCh' = doneCh,
         NEW o, k'.out = o, NEW j, job' = j, Serving(o, j.i),
         job # <<>>, j.mode = job.mode
  PROVE  Ordered'
<1> DEFINE f == Consumption(c, k'.rcvd)
<1>1. InOrder(o)
  BY ServingInOrder
<1>2. TakenOrder(c, k.out, job, doneCh) /\ c.file = <<>>
  BY TakenHas
<1>3. TakenOrder(c, o, j, doneCh)
  BY <1>2 DEF TakenOrder
<1> HIDE DEF f
<1>4. Order(c, o, f, j, doneCh)
  BY <1>2, <1>3 DEF Order
<1> QED  BY <1>1, <1>4, OrderFrame DEF f

LEMMA AnsweredHere ==
  ASSUME NEW i, Answered(i)
  PROVE  \E n \in 1..Len(k.out) : k.out[n] = <<i, RespLen>>
BY DEF Answered

LEMMA TakeoverServesOrder ==
  ASSUME Running, TakeoverServes
  PROVE  Ordered'
<1> DEFINE i == job.i
           o == k.out
           due == Rest(Response(i), Count(o, i))
           n == Wrote(k, due)
           e == <<<<i + 1, 0>>>>
<1>1. /\ job # <<>> /\ c.takenOver /\ env' = env /\ c' = c
      /\ doneCh' = doneCh
  BY DEF TakeoverServes
<1>2. job \in Jobs /\ i \in 1..N /\ i \in Nat /\ i > 0
  BY <1>1, HandlerHas
<1>3. TypeOK /\ k \in Sockets /\ o \in Parts /\ k.space \in Nat
  <2>1. TypeOK /\ k \in Sockets /\ o \in Parts /\ Scenario(env)
    BY RunningFacts
  <2>2. SendCap \in Nat
    BY <2>1, ScenarioFacts
  <2> QED  BY <2>1, <2>2 DEF Sockets
<1>4. Serving(o, i)
  BY <1>1, TakenHas
<1>5. \/ due # <<>> /\ k.space > 0 /\ k' = AfterWrite(k, due) /\ job' = job
      \/ /\ BetweenRequests
         /\ job' = [job EXCEPT !.i = @ + 1, !.ka = Upcoming.ka] /\ k' = k
      \/ /\ BetweenRequests /\ ~Expected /\ k.space > 0
         /\ k' = AfterWrite(k, e) /\ job' = job
  BY DEF TakeoverServes, Count
<1>6. CASE due # <<>> /\ k.space > 0 /\ k' = AfterWrite(k, due) /\ job' = job
  <2> DEFINE x == SubSeq(due, 1, n)
  <2>1. due \in Parts
    <3> DEFINE S == Nat \X Nat
               m == Count(o, i)
               q == Response(i)
    <3>1. q \in Seq(S) /\ m \in Nat
      BY <1>2, <1>3, ResponseType, CountedFinite DEF Parts
    <3> HIDE DEF S, m, q
    <3>2. Rest(q, m) \in Seq(S)
      BY <3>1, RestType
    <3> QED  BY <3>2 DEF S, m, q, Parts
  <2>2. k'.out = o \o x
    <3> HIDE DEF due
    <3> QED  BY <1>3, <1>6 DEF AfterWrite, Sockets
  <2>3. n \in 1..Len(due)
    <3> HIDE DEF due
    <3>1. Len(due) \in Nat /\ Len(due) # 0
      BY <1>6, <2>1, LenProperties, EmptySeq DEF Parts
    <3> QED  BY <1>3, <1>6, <3>1 DEF Wrote, SmallerOf
  <2>4. due = Rest(Response(i), Count(o, i))
    OBVIOUS
  <2> HIDE DEF due, n, o
  <2>5. Serving(o \o x, i)
    <3> HIDE DEF i
    <3> QED  BY <1>2, <1>3, <1>4, <1>6, <2>3, <2>4, ServeMore
  <2> DEFINE v == o \o x
             j == job
  <2>6. k'.out = v /\ job' = j /\ Serving(v, j.i) /\ j.mode = job.mode
    BY <1>6, <2>2, <2>5
  <2> HIDE DEF v, j
  <2> QED  BY <1>1, <2>6, ServingKeeps
<1>7. CASE /\ BetweenRequests
           /\ job' = [job EXCEPT !.i = @ + 1, !.ka = Upcoming.ka] /\ k' = k
  <2>1. Answered(i)
    BY <1>7 DEF BetweenRequests
  <2>2. Serving(o, i + 1)
    <3>1. \E m \in 1..Len(o) : o[m] = <<i, RespLen>>
      BY <2>1, AnsweredHere
    <3> HIDE DEF o, i
    <3> QED  BY <1>2, <1>3, <1>4, <3>1, ServeNext
  <2> DEFINE j == [job EXCEPT !.i = @ + 1, !.ka = Upcoming.ka]
  <2>3. j.i = i + 1 /\ j.mode = job.mode
    BY <1>2 DEF Jobs
  <2>4. k'.out = o /\ job' = j
    BY <1>7
  <2> HIDE DEF j, o
  <2>5. Serving(o, j.i)
    BY <2>2, <2>3
  <2> QED  BY <1>1, <2>3, <2>4, <2>5, ServingKeeps
<1>8. CASE /\ BetweenRequests /\ ~Expected /\ k.space > 0
           /\ k' = AfterWrite(k, e) /\ job' = job
  <2>1. Answered(i)
    BY <1>8 DEF BetweenRequests
  <2>2. ~ \E m \in 1..Len(o) : o[m] = <<i + 1, 0>>
    BY <1>8 DEF Expected
  <2>3. Serving(o \o e, i)
    <3>1. \E m \in 1..Len(o) : o[m] = <<i, RespLen>>
      BY <2>1, AnsweredHere
    <3> HIDE DEF o, i
    <3> QED  BY <1>2, <1>3, <1>4, <2>2, <3>1, ServeContinue
  <2>4. k'.out = o \o e
    <3>1. e \in Seq(Nat \X Nat) /\ Len(e) = 1
      BY <1>2
    <3> HIDE DEF e
    <3>2. Wrote(k, e) = 1
      BY <1>3, <1>8, <3>1 DEF Wrote, SmallerOf
    <3>3. SubSeq(e, 1, 1) = e
      BY <3>1
    <3>4. AfterWrite(k, e).out = o \o SubSeq(e, 1, Wrote(k, e))
      BY <1>3 DEF AfterWrite, Sockets
    <3> QED  BY <1>8, <3>2, <3>3, <3>4
  <2> DEFINE v == o \o e
             j == job
  <2>5. k'.out = v /\ job' = j /\ Serving(v, j.i) /\ j.mode = job.mode
    BY <1>8, <2>3, <2>4
  <2> HIDE DEF v, j
  <2> QED  BY <1>1, <2>5, ServingKeeps
<1> QED  BY <1>5, <1>6, <1>7, <1>8

LEMMA TakeoverBodyOrder ==
  ASSUME Running, TakeoverBody
  PROVE  Ordered'
<1> DEFINE i == job.i
           o == k.out
           j == job'
<1>1. /\ job # <<>> /\ c.takenOver /\ env' = env /\ c' = c /\ k' = k
      /\ doneCh' = doneCh /\ Answered(i)
      /\ \/ j = [job EXCEPT !.need = Upcoming.body]
         \/ j = [job EXCEPT !.i = @ + 1, !.ka = Upcoming.ka, !.need = 0]
  BY DEF TakeoverBody, BetweenRequests
<1>2. job \in Jobs /\ i \in 1..N /\ i \in Nat /\ i > 0
  BY <1>1, HandlerHas
<1>3. o \in Parts /\ TypeOK
  BY RunningFacts
<1>4. Serving(o, i)
  BY <1>1, TakenHas
<1>5. Serving(o, i + 1)
  <2>1. \E m \in 1..Len(o) : o[m] = <<i, RespLen>>
    BY <1>1, AnsweredHere
  <2> HIDE DEF o, i
  <2> QED  BY <1>2, <1>3, <1>4, <2>1, ServeNext
<1>6. (j.i = i \/ j.i = i + 1) /\ j.mode = job.mode
  BY <1>1, <1>2 DEF Jobs
<1>7. k'.out = o
  BY <1>1
<1> HIDE DEF j, o, i
<1>8. Serving(o, j.i)
  BY <1>4, <1>5, <1>6
<1>9. job' = j
  BY DEF j
<1> QED  BY <1>1, <1>6, <1>7, <1>8, <1>9, ServingKeeps

\* A well-served request is never refused.
LEMMA NeverRefuses ==
  ASSUME Running, TakeoverRefuses
  PROVE  FALSE
<1>1. job # <<>> /\ job.i < N
  BY DEF TakeoverRefuses, BetweenRequests
<1>2. job.i \in 1..N /\ job.i \in Nat /\ N \in Nat
  BY <1>1, HandlerHas, RunningFacts, ScenarioFacts
<1> DEFINE i == job.i + 1
<1>3. i \in 1..N
  BY <1>1, <1>2
<1>4. /\ script[i].bad = "" /\ script[i].hdr <= BufCap /\ ~env.bodyBudget
      /\ script[i].hdr \in Nat /\ BufCap \in Nat
  <2> HIDE DEF i
  <2> QED  BY <1>3, ServedFacts, RunningFacts
<1>5. \/ script[i].bad = "error" \/ script[i].hdr > BufCap
      \/ env.bodyBudget
  BY DEF TakeoverRefuses, Upcoming
<1> HIDE DEF i
<1>6. script[i].bad # "error"
  BY <1>4
<1>7. ~(script[i].hdr > BufCap)
  <2> DEFINE h == script[i].hdr
             b == BufCap
  <2>1. h <= b /\ h \in Nat /\ b \in Nat
    BY <1>4
  <2> HIDE DEF h, b
  <2>2. ~(h > b)
    BY <2>1
  <2> QED  BY <2>2 DEF h, b
<1> QED  BY <1>4, <1>5, <1>6, <1>7, Zenon

LEMMA TakeoverEndsOrder ==
  ASSUME Running, TakeoverEnds
  PROVE  Ordered'
<1> DEFINE m == [data |-> <<>>, ka |-> FALSE, file |-> TRUE]
           o == k.out
           f == Consumption(c, k.rcvd)
           j == <<>>
           d == <<m>>
<1>1. /\ job # <<>> /\ c.takenOver /\ env' = env /\ c' = c /\ k' = k
      /\ job' = <<>> /\ doneCh' = Append(doneCh, m)
  BY DEF TakeoverEnds, TakeoverOver, Finished, Complete
<1>2. doneCh = <<>>
  BY <1>1, HandlerHas
<1>3. TakenOrder(c, o, job, doneCh) /\ c.file = <<>> /\ InOrder(o)
  BY <1>1, TakenHas, RunningFacts
<1>4. doneCh' = d /\ d[1].file
  BY <1>1, <1>2
<1> HIDE DEF d, f, o
<1>5. TakenOrder(c, o, j, d)
  BY <1>3, <1>4 DEF TakenOrder
<1>6. job' = j
  BY <1>1
<1> HIDE DEF j
<1>7. Order(c, o, f, j, d)
  BY <1>1, <1>3, <1>5 DEF Order
<1>8. k'.out = o /\ Consumption(c, k'.rcvd) = f
  BY <1>1 DEF o, f
<1> QED  BY <1>1, <1>3, <1>4, <1>6, <1>7, <1>8, OrderFrame

\* handleDone queues what the handler left.
LEMMA HandleDoneOrder ==
  ASSUME Running, HandleDone
  PROVE  Ordered'
<1> DEFINE msg == Head(doneCh)
           v == msg.data
           t == [c EXCEPT !.pending = @ - 1, !.keepAlive = msg.ka]
           o == k.out
           b == c.sendBuf
           w == o \o b
           f == Consumption(c, k.rcvd)
           e == <<>>
<1>1. /\ c \in Conns /\ k \in Sockets /\ o \in Parts /\ b \in Parts
      /\ InOrder(o) /\ Owes(c, job, doneCh) /\ Fits(c) /\ c.bodyNeed \in Nat
      /\ Order(c, o, f, job, doneCh) /\ doneCh \in Seq(Completions)
      /\ Scenario(env) /\ Ordered
  BY RunningFacts DEF TypeOK, Running
<1>2. /\ doneCh # <<>> /\ doneCh' = Tail(doneCh) /\ env' = env /\ job' = job
  BY DEF HandleDone
<1>3. Len(doneCh) = 1 /\ job = <<>> /\ c.pending = 1
  <2>1. Len(doneCh) \in Nat /\ Len(doneCh) # 0 /\ c.pending \in 0..1
    BY <1>1, <1>2, LenProperties, EmptySeq DEF Conns
  <2> QED  BY <1>1, <2>1 DEF Owes
<1>4. doneCh' = e /\ msg = doneCh[1] /\ msg \in Completions
  <2>1. Tail(doneCh) \in Seq(Completions) /\ Len(Tail(doneCh)) = 0
    BY <1>1, <1>2, <1>3
  <2>2. Tail(doneCh) = <<>>
    BY <2>1, EmptySeq
  <2>3. 1 \in 1..Len(doneCh)
    BY <1>3
  <2>4. doneCh[1] \in Completions
    BY <1>1, <2>3, ElementOfSeq
  <2> QED  BY <1>2, <2>2, <2>4
<1>5. v \in Parts
  BY <1>4 DEF Completions
<1>6. c.bodyNeed = 0
  BY <1>1, <1>3 DEF Fits
<1>7. CASE pc' = "closed" /\ k'.out = o
  BY <1>1, <1>7, OrderDead DEF Live
<1>8. /\ t \in Conns /\ t.pending = 0 /\ t.sendBuf = b /\ t.file = c.file
      /\ t.takenOver = c.takenOver /\ t.bodyNeed = c.bodyNeed
      /\ t.readBuf = c.readBuf /\ t.header = c.header
  <2>1. msg.ka \in BOOLEAN
    BY <1>4 DEF Completions
  <2> DEFINE z == c.pending - 1
  <2>2. z = 0 /\ z \in 0..1
    BY <1>3
  <2> HIDE DEF msg, z
  <2>3. t = [c EXCEPT !.pending = z, !.keepAlive = msg.ka]
    BY <1>1 DEF z, Conns
  <2>4. [c EXCEPT !.pending = z, !.keepAlive = msg.ka] \in Conns
    BY <1>1, <2>1, <2>2 DEF Conns
  <2>5. t.pending = 0
    BY <1>1, <2>2, <2>3 DEF Conns
  <2> QED  BY <1>1, <2>3, <2>4, <2>5 DEF Conns
<1>9. \/ /\ pc' = "closed"
         /\ k' = [k EXCEPT !.mask = "none", !.ready = FALSE]
      \/ ~msg.file /\ v = <<>> /\ c' = t /\ k' = k
      \/ ~msg.file /\ c' = Queue(t, v) /\ k' = Mod(k, "inout")
  <2>1. t = [[c EXCEPT !.pending = @ - 1] EXCEPT !.keepAlive = msg.ka]
    BY <1>1 DEF Conns
  <2> HIDE DEF t
  <2>2. /\ msg.file \in BOOLEAN /\ msg.ka \in BOOLEAN
        /\ c.closePending \in BOOLEAN
    BY <1>1, <1>4 DEF Completions, Conns
  <2>3. CASE msg.file \/ c.closePending \/ (v = <<>> /\ ~msg.ka)
    BY <2>3 DEF HandleDone
  <2>4. CASE ~msg.file /\ ~c.closePending /\ v = <<>> /\ msg.ka
    BY <2>1, <2>4 DEF HandleDone
  <2>5. CASE ~msg.file /\ ~c.closePending /\ v # <<>>
    BY <2>1, <2>5 DEF HandleDone
  <2> QED  BY <2>2, <2>3, <2>4, <2>5
<1>10. CASE pc' = "closed" /\ k' = [k EXCEPT !.mask = "none", !.ready = FALSE]
  <2>1. k'.out = o
    BY <1>1, <1>10 DEF Sockets
  <2> QED  BY <1>7, <1>10, <2>1
<1>11. ASSUME ~msg.file
       PROVE  /\ ~c.takenOver /\ c.file = <<>>
              /\ \E i \in 0..N : /\ f + 1 = Start[i + 1]
                                 /\ Upto(w \o v, i, RespLen)
  <2>1. ~c.takenOver
    BY <1>1, <1>2, <1>4, <1>11 DEF Order, TakenOrder
  <2>2. PICK i \in 0..N : f + 1 = Start[i + 1] /\ Owed(w, i, c, job, doneCh)
    BY <1>6, <2>1, OwedNow
  <2>3. Upto(w \o v, i, RespLen)
    BY <1>2, <1>4, <2>2 DEF Owed
  <2>4. c.file = <<>>
    BY <1>1 DEF Order
  <2> QED  BY <2>1, <2>2, <2>3, <2>4
<1> HIDE DEF msg, v
<1>12. ASSUME ~msg.file, NEW s, c' = s, s.pending = 0, s.file = c.file,
              s.takenOver = c.takenOver, s.bodyNeed = c.bodyNeed,
              s.readBuf = c.readBuf, o \o s.sendBuf = w \o v,
              k'.out = o, k'.rcvd = k.rcvd
       PROVE  Ordered'
  <2>1. /\ ~c.takenOver /\ c.file = <<>>
        /\ \E i \in 0..N : f + 1 = Start[i + 1] /\ Upto(w \o v, i, RespLen)
    BY <1>11, <1>12
  <2>2. PICK i \in 0..N : f + 1 = Start[i + 1] /\ Upto(w \o v, i, RespLen)
    BY <2>1
  <2> DEFINE x == o \o s.sendBuf
             g == Consumption(s, k'.rcvd)
  <2>3. g = f
    BY <1>12 DEF Consumption
  <2>4. job' = e
    BY <1>2, <1>3
  <2> HIDE DEF g, f
  <2>5. Owed(x, i, s, e, e)
    BY <1>12, <2>2 DEF Owed
  <2> HIDE DEF x, e
  <2>6. LoopOrder(s, x, g, e, e)
    <3>1. s.bodyNeed = 0 /\ g + 1 = Start[i + 1]
      BY <1>6, <1>12, <2>2, <2>3
    <3> QED  BY <1>1, <2>5, <3>1, OwedAt
  <2>7. Order(s, o, g, e, e)
    BY <1>12, <2>1, <2>6 DEF Order, x
  <2>8. Consumption(s, k'.rcvd) = g
    BY DEF g
  <2> QED  BY <1>1, <1>2, <1>4, <1>12, <2>4, <2>7, <2>8, OrderFrame
<1>13. CASE ~msg.file /\ v = <<>> /\ c' = t /\ k' = k
  <2>1. o \o t.sendBuf = w \o v
    <3>1. w \in Parts
      BY <1>1, PartsJoin
    <3> HIDE DEF w
    <3>2. w \o v = w
      BY <1>13, <3>1, PartsJoin
    <3> QED  BY <1>8, <3>2 DEF w
  <2> HIDE DEF t, w
  <2> QED  BY <1>8, <1>12, <1>13, <2>1
<1>14. CASE ~msg.file /\ c' = Queue(t, v) /\ k' = Mod(k, "inout")
  <2> DEFINE s == Queue(t, v)
  <2> HIDE DEF t
  <2>1. /\ s.sendBuf = b \o v /\ s.pending = 0 /\ s.file = c.file
        /\ s.takenOver = c.takenOver /\ s.bodyNeed = c.bodyNeed
        /\ s.readBuf = c.readBuf
    BY <1>8 DEF Queue, Conns
  <2>2. k'.out = o /\ k'.rcvd = k.rcvd
    BY <1>1, <1>14 DEF Mod, Sockets
  <2> HIDE DEF s
  <2>3. o \o s.sendBuf = w \o v
    <3> HIDE DEF o, b
    <3>1. o \o (b \o v) = (o \o b) \o v
      BY <1>1, <1>5, WireGrows
    <3> QED  BY <2>1, <3>1
  <2>4. c' = s
    BY <1>14 DEF s
  <2> HIDE DEF w
  <2> QED  BY <1>12, <1>14, <2>1, <2>2, <2>3, <2>4
<1> QED  BY <1>9, <1>10, <1>13, <1>14

LEMMA SweepOrder ==
  ASSUME Running, SweepTimeouts
  PROVE  Ordered'
BY OrderClose DEF SweepTimeouts

\* The wire of a connection that is reset or closed stays as it is.
Quiet == k'.out = k.out /\ k'.rst = k.rst

LEMMA QuietMoves ==
  ASSUME k \in Sockets
  PROVE  /\ \A p, s : Goto(p, s) => Quiet
         /\ \A s : CloseConn(s) => Quiet
         /\ \A room : k' = AfterRead(room) => Quiet
         /\ \A mask : k' = Mod(k, mask) => Quiet
         /\ k' = k => Quiet
         /\ k' = [k EXCEPT !.mask = "none", !.ready = FALSE] => Quiet
<1>1. \A p, s : Goto(p, s) => Quiet
  BY DEF Goto, Quiet
<1>2. \A s : CloseConn(s) => Quiet
  BY DEF CloseConn, Quiet, Sockets
<1>3. \A room : k' = AfterRead(room) => Quiet
  BY DEF AfterRead, Quiet, Sockets
<1>4. \A mask : k' = Mod(k, mask) => Quiet
  BY DEF Mod, Quiet, Sockets
<1> QED  BY <1>1, <1>2, <1>3, <1>4 DEF Quiet, Sockets

LEMMA RefusalQuiet ==
  ASSUME k \in Sockets, NEW s, NEW i, writeAndClose(s, i)
  PROVE  Quiet
BY QuietMoves DEF writeAndClose

LEMMA ParseEndQuiet ==
  ASSUME k \in Sockets, NEW s, ParseEnd(s)
  PROVE  Quiet
BY QuietMoves DEF ParseEnd

LEMMA ParseQuiet ==
  ASSUME SInv, pc = "parse", TryParse
  PROVE  Quiet
<1>1. IInv /\ Parsing /\ k \in Sockets
  BY SInvFacts, ParsingFacts DEF Reading
<1>2. CASE c.readBuf = <<>>
  BY <1>1, <1>2, ParseEndQuiet DEF TryParse
<1>3. CASE c.readBuf # <<>>
  <2> DEFINE i == RequestAt(c.readBuf[1])
  <2>1. /\ i \in 1..N
        /\ \/ HeaderMore \/ CloseConn(c) \/ writeAndClose(c, i)
           \/ Dispatch(i) \/ BeginBody(i)
    BY <1>1, <1>3, TryParseCases
  <2> HIDE DEF i
  <2>2. CASE HeaderMore
    <3>1. \/ writeAndClose(c, RequestAt(c.readBuf[1]))
          \/ \E p : Goto(p, c)
          \/ ParseEnd(c)
      BY <2>2 DEF HeaderMore
    <3> QED  BY <1>1, <3>1, QuietMoves, RefusalQuiet, ParseEndQuiet
  <2>3. CASE CloseConn(c) \/ writeAndClose(c, i)
    BY <1>1, <2>3, QuietMoves, RefusalQuiet
  <2>4. CASE Dispatch(i)
    <3>1. PICK s \in Conns :
            \/ Goto("send", s) \/ DispatchInline(s, i) \/ DispatchFile(s, i)
            \/ DispatchPending(s, i) \/ DispatchTakeover(s, i)
      BY <1>1, <2>1, <2>4, DispatchCases
    <3>2. CASE Goto("send", s)
      BY <1>1, <3>2, QuietMoves
    <3>3. CASE DispatchInline(s, i)
      <4> DEFINE q == Queue(Consumed(s, i), Response(i))
      <4>1. Goto("parse", q) \/ ParseEnd(q)
        BY <3>3 DEF DispatchInline
      <4> HIDE DEF q
      <4> QED  BY <1>1, <4>1, QuietMoves, ParseEndQuiet
    <3>4. CASE DispatchFile(s, i)
      BY <1>1, <3>4, QuietMoves DEF DispatchFile
    <3>5. CASE DispatchPending(s, i)
      <4>1. k' = Mod(k, "inout") \/ k' = k
        BY <3>5 DEF DispatchPending
      <4> QED  BY <1>1, <4>1, QuietMoves
    <3>6. CASE DispatchTakeover(s, i)
      BY <1>1, <3>6, QuietMoves DEF DispatchTakeover
    <3> QED  BY <3>1, <3>2, <3>3, <3>4, <3>5, <3>6
  <2>5. CASE BeginBody(i)
    <3>1. \/ \E s : writeAndClose(s, i)
          \/ k' = k
          \/ \E s : Goto("body", s)
      BY <2>5 DEF BeginBody
    <3> QED  BY <1>1, <3>1, QuietMoves, RefusalQuiet
  <2> QED  BY <2>1, <2>2, <2>3, <2>4, <2>5
<1> QED  BY <1>2, <1>3

LEMMA SendQuiet ==
  ASSUME SInv, k.rst, DirectSend
  PROVE  Quiet
<1>1. k \in Sockets
  BY SInvFacts
<1>2. Sent \/ failSend
  BY DEF DirectSend
<1>3. CASE Sent
  <2>1. k' = k \/ (\E p : Goto(p, c)) \/ CloseConn(c)
    BY <1>3 DEF Sent
  <2> QED  BY <1>1, <2>1, QuietMoves
<1>4. CASE failSend
  <2>1. (\E p, s : Goto(p, s)) \/ (\E s : CloseConn(s))
    BY <1>4 DEF failSend
  <2> QED  BY <1>1, <2>1, QuietMoves
<1> QED  BY <1>2, <1>3, <1>4

LEMMA LoopQuiet ==
  ASSUME SInv, k.rst, LoopStep \/ SweepTimeouts
  PROVE  Quiet
<1>1. IInv /\ k \in Sockets
  BY SInvFacts
<1>2. CASE Accept
  <2>1. (\E p, s : Goto(p, s)) \/ k' = AfterRead(BufCap)
    BY <1>2 DEF Accept
  <2> QED  BY <1>1, <2>1, QuietMoves
<1>3. CASE HandleRecv
  <2>1. \/ \E p, s : Goto(p, s)
        \/ CloseConn(c)
        \/ k' = AfterRead(Room)
    BY <1>1, <1>3, HandleRecvCases
  <2> QED  BY <1>1, <2>1, QuietMoves
<1>4. CASE TryParse
  BY <1>4, ParseQuiet DEF TryParse
<1>5. CASE Refill
  <2>1. \E s : CloseConn(s)
    BY <1>5 DEF Refill, ReadResult
  <2> QED  BY <1>1, <2>1, QuietMoves
<1>6. CASE DrainBody
  <2>1. \/ \E p, s : Goto(p, s)
        \/ \E s : CloseConn(s)
        \/ k' = AfterRead(BufCap)
    BY <1>6 DEF DrainBody
  <2> QED  BY <1>1, <2>1, QuietMoves
<1>7. CASE DrainPipelined
  <2>1. (\E p, s : Goto(p, s)) \/ (\E room : k' = AfterRead(room))
    BY <1>7 DEF DrainPipelined
  <2> QED  BY <1>1, <2>1, QuietMoves
<1>8. CASE FinishBody
  <2>1. (\E p, s : Goto(p, s)) \/ (\E s, i : writeAndClose(s, i))
    BY <1>8 DEF FinishBody
  <2> QED  BY <1>1, <2>1, QuietMoves, RefusalQuiet
<1>9. CASE DirectSend
  BY <1>9, SendQuiet
<1>10. CASE Speculate
  <2>1. (\E p, s : Goto(p, s)) \/ k' = AfterRead(BufCap)
    BY <1>10 DEF Speculate
  <2> QED  BY <1>1, <2>1, QuietMoves
<1>11. CASE HandleSend
  <2>1. (\E p, s : Goto(p, s)) \/ k' = Mod(k, "in")
    BY <1>11 DEF HandleSend
  <2> QED  BY <1>1, <2>1, QuietMoves
<1>12. CASE HandleDone
  <2>1. \/ k' = [k EXCEPT !.mask = "none", !.ready = FALSE]
        \/ k' = k
        \/ k' = Mod(k, "inout")
    BY <1>12 DEF HandleDone
  <2> QED  BY <1>1, <2>1, QuietMoves
<1>13. CASE DoneChEmpty
  BY <1>1, <1>13, QuietMoves DEF DoneChEmpty
<1>14. CASE Wait
  <2>1. \/ \E b : k' = [k EXCEPT !.ready = FALSE, !.nospace = b]
        \/ \E p, s : Goto(p, s)
    BY <1>14 DEF Wait
  <2>2. CASE \E b : k' = [k EXCEPT !.ready = FALSE, !.nospace = b]
    BY <1>1, <2>2 DEF Quiet, Sockets
  <2> QED  BY <1>1, <2>1, <2>2, QuietMoves
<1>15. CASE SweepTimeouts
  BY <1>1, <1>15, QuietMoves DEF SweepTimeouts
<1> QED  BY <1>2, <1>3, <1>4, <1>5, <1>6, <1>7, <1>8, <1>9, <1>10, <1>11,
            <1>12, <1>13, <1>14, <1>15 DEF LoopStep

\* Nothing is written on a connection that is reset.
LEMMA ResetStays ==
  ASSUME SInv, k.rst, Next
  PROVE  Quiet
<1>1. k \in Sockets
  BY SInvFacts
<1>2. CASE LoopStep \/ SweepTimeouts
  BY <1>2, LoopQuiet
<1>3. CASE HandlerStep
  <2>1. k' = k
    <3>1. CASE HandlerReturns
      BY <3>1 DEF HandlerReturns
    <3>2. CASE TakeoverServes \/ TakeoverRefuses
      BY <3>2 DEF TakeoverServes, TakeoverRefuses
    <3>3. CASE TakeoverBody \/ TakeoverEnds
      BY <3>3 DEF TakeoverBody, TakeoverEnds
    <3> QED  BY <1>3, <3>1, <3>2, <3>3 DEF HandlerStep
  <2> QED  BY <1>1, <2>1, QuietMoves
<1>4. CASE ClientStep
  BY <1>4 DEF ClientStep, ClientSends, ClientReads, ClientFinishes,
              ClientResets, Connected
<1> QED  BY <1>2, <1>3, <1>4 DEF Next

\* Nothing happens to a connection that is closed.
LEMMA ClosedStays ==
  ASSUME SInv, pc = "closed"
  PROVE  ~Next
<1>1. IInv /\ At(pc, ret, c)
  BY SInvFacts
<1>2. job = <<>> /\ doneCh = <<>>
  BY <1>1, NobodyOwns DEF At
<1>3. ~LoopStep
  BY DEF LoopStep, Accept, HandleRecv, TryParse, Refill, DrainBody,
         DrainPipelined, FinishBody, DirectSend, Speculate, HandleSend,
         HandleDone, DoneChEmpty, Wait
<1>4. ~SweepTimeouts
  BY DEF SweepTimeouts
<1>5. ~HandlerStep
  BY <1>2 DEF HandlerStep, HandlerReturns, TakeoverServes, TakeoverBody,
              TakeoverRefuses, TakeoverEnds, TakeoverOver, BetweenRequests
<1>6. ~ClientStep
  BY DEF ClientStep, ClientSends, ClientReads, ClientFinishes, ClientResets,
         Connected
<1> QED  BY <1>3, <1>4, <1>5, <1>6 DEF Next

\* The scenario does not change.
LEMMA EnvStays ==
  ASSUME SInv, Next
  PROVE  env' = env
<1>1. IInv
  BY SInvFacts
<1>2. ASSUME NEW p, NEW s, Goto(p, s) \/ Continue(p, s) \/ CloseConn(s)
      PROVE  env' = env
  BY <1>2 DEF Goto, Continue, CloseConn
<1>3. ASSUME NEW s, NEW i, ParseEnd(s) \/ writeAndClose(s, i)
      PROVE  env' = env
  BY <1>2, <1>3 DEF ParseEnd, writeAndClose
<1>4. CASE Accept
  BY <1>2, <1>4 DEF Accept
<1>5. CASE HandleRecv
  BY <1>1, <1>2, <1>5, HandleRecvCases
<1>6. CASE TryParse
  <2>1. CASE c.readBuf = <<>>
    BY <1>3, <1>6, <2>1 DEF TryParse
  <2>2. CASE c.readBuf # <<>>
    <3> DEFINE i == RequestAt(c.readBuf[1])
    <3>1. Parsing
      BY <1>1, <1>6, ParsingFacts DEF TryParse, Reading
    <3>2. /\ i \in 1..N
          /\ \/ HeaderMore \/ CloseConn(c) \/ writeAndClose(c, i)
             \/ Dispatch(i) \/ BeginBody(i)
      BY <1>1, <1>6, <2>2, <3>1, TryParseCases
    <3> HIDE DEF i
    <3>3. CASE HeaderMore
      BY <1>2, <1>3, <3>3 DEF HeaderMore
    <3>4. CASE CloseConn(c) \/ writeAndClose(c, i)
      BY <1>2, <1>3, <3>4
    <3>5. CASE Dispatch(i)
      <4>1. PICK s \in Conns :
              \/ Goto("send", s) \/ DispatchInline(s, i)
              \/ DispatchFile(s, i) \/ DispatchPending(s, i)
              \/ DispatchTakeover(s, i)
        BY <1>1, <3>1, <3>2, <3>5, DispatchCases
      <4>2. CASE DispatchInline(s, i)
        BY <1>2, <1>3, <4>2 DEF DispatchInline
      <4>3. CASE DispatchFile(s, i)
        BY <1>2, <4>3 DEF DispatchFile
      <4>4. CASE DispatchPending(s, i) \/ DispatchTakeover(s, i)
        BY <4>4 DEF DispatchPending, DispatchTakeover
      <4> QED  BY <1>2, <4>1, <4>2, <4>3, <4>4
    <3>6. CASE BeginBody(i)
      BY <1>2, <1>3, <3>6 DEF BeginBody
    <3> QED  BY <3>2, <3>3, <3>4, <3>5, <3>6
  <2> QED  BY <2>1, <2>2
<1>7. CASE Refill
  BY <1>2, <1>3, <1>7 DEF Refill
<1>8. CASE DrainBody \/ DrainPipelined
  BY <1>2, <1>8 DEF DrainBody, DrainPipelined
<1>9. CASE FinishBody
  BY <1>2, <1>3, <1>9 DEF FinishBody
<1>10. CASE DirectSend
  <2>1. CASE Sent
    BY <1>2, <2>1 DEF Sent
  <2>2. CASE failSend
    BY <1>2, <2>2 DEF failSend
  <2>3. CASE WouldBlock \/ \E bytes, s : Transfer(bytes, s)
    BY <2>3 DEF WouldBlock, Transfer
  <2> QED  BY <1>10, <2>1, <2>2, <2>3 DEF DirectSend
<1>11. CASE Speculate \/ HandleSend \/ DoneChEmpty \/ Wait \/ SweepTimeouts
  BY <1>2, <1>11 DEF Speculate, HandleSend, DoneChEmpty, Wait,
                     SweepTimeouts
<1>12. CASE HandleDone
  BY <1>12 DEF HandleDone
<1>13. CASE HandlerStep
  BY <1>13 DEF HandlerStep, HandlerReturns, TakeoverServes, TakeoverBody,
               TakeoverRefuses, TakeoverEnds
<1>14. CASE ClientStep
  BY <1>14 DEF ClientStep, ClientSends, ClientReads, ClientFinishes,
               ClientResets
<1> QED  BY <1>4, <1>5, <1>6, <1>7, <1>8, <1>9, <1>10, <1>11, <1>12, <1>13,
            <1>14 DEF Next, LoopStep

LEMMA OrderKept ==
  ASSUME Running, Next
  PROVE  Ordered'
<1>1. CASE LoopStep
  BY <1>1, AcceptOrder, HandleRecvOrder, TryParseOrder, RefillOrder,
     DrainBodyOrder, DrainPipelinedOrder, FinishBodyOrder, DirectSendOrder,
     SpeculateOrder, HandleSendOrder, HandleDoneOrder, WaitOrder
     DEF LoopStep
<1>2. CASE SweepTimeouts
  BY <1>2, SweepOrder
<1>3. CASE HandlerStep
  BY <1>3, HandlerReturnsOrder, TakeoverServesOrder, TakeoverBodyOrder,
     NeverRefuses, TakeoverEndsOrder DEF HandlerStep
<1>4. CASE ClientStep
  BY <1>4, ClientOrder
<1> QED  BY <1>1, <1>2, <1>3, <1>4 DEF Next

LEMMA OrderBegins == Init => OInv
<1> SUFFICES ASSUME Init PROVE OInv
  OBVIOUS
<1> DEFINE o == k.out
           f == Consumption(c, k.rcvd)
           b == c.sendBuf
<1>1. SInv
  BY StreamStarts
<1>2. /\ o = <<>> /\ b = <<>> /\ c.file = <<>> /\ c.bodyNeed = 0
      /\ ~c.takenOver /\ job = <<>> /\ doneCh = <<>>
      /\ c.readBuf = <<>> /\ k.rcvd = 0
  BY DEF Init, NewConn
<1>3. InOrder(<<>>) /\ Upto(<<>>, 0, RespLen)
  BY OrderStarts
<1>4. Scenario(env) /\ 0 \in 0..N
  BY <1>1, SInvFacts, ScenarioFacts
<1>5. f + 1 = Start[0 + 1]
  <2>1. Start[1] = 1
    BY <1>4, LayoutFacts
  <2>2. f = 0
    <3> DEFINE l == Len(c.readBuf)
               r == k.rcvd
    <3>1. l = 0 /\ r = 0 /\ f = r - l
      BY <1>2 DEF Consumption
    <3> HIDE DEF l, r, f
    <3> QED  BY <3>1
  <2> HIDE DEF f
  <2> QED  BY <2>1, <2>2
<1> DEFINE w == o \o b
           z == 0
<1>6. w = <<>>
  BY <1>2
<1>7. Owed(w, z, c, job, doneCh)
  BY <1>2, <1>3, <1>6 DEF Owed
<1>8. z \in 0..N /\ f + 1 = Start[z + 1]
  BY <1>4, <1>5
<1> HIDE DEF w, z, f
<1>9. LoopOrder(c, w, f, job, doneCh)
  BY <1>2, <1>4, <1>7, <1>8, OwedAt
<1>10. Order(c, o, f, job, doneCh)
  BY <1>2, <1>9 DEF Order, w
<1>11. InOrder(o)
  BY <1>2, <1>3
<1> QED  BY <1>1, <1>10, <1>11 DEF OInv, Ordered, f

LEMMA OrderGoesOn == OInv /\ [Next]_vars => OInv'
<1> SUFFICES ASSUME OInv, [Next]_vars PROVE OInv'
  OBVIOUS
<1>1. SInv /\ SInv'
  BY StreamGoesOn DEF OInv
<1>2. CASE UNCHANGED vars
  <2>1. /\ env' = env /\ c' = c /\ k' = k /\ job' = job /\ doneCh' = doneCh
        /\ pc' = pc
    BY <1>2 DEF vars
  <2>2. SUFFICES ASSUME WellServed(env) PROVE Ordered'
    BY <1>1, <2>1 DEF OInv, WellServed
  <2>3. Ordered
    BY <2>2 DEF OInv
  <2>4. CASE Live
    BY <2>1, <2>3, <2>4, OrderFrame DEF Ordered
  <2>5. CASE ~Live
    BY <2>1, <2>3, <2>5, OrderDead DEF Live
  <2> QED  BY <2>4, <2>5
<1>3. CASE Next
  <2>1. env' = env
    BY <1>1, <1>3, EnvStays
  <2>2. SUFFICES ASSUME WellServed(env) PROVE Ordered'
    BY <1>1, <2>1 DEF OInv, WellServed
  <2>3. Ordered
    BY <2>2 DEF OInv
  <2>4. CASE Live
    BY <1>1, <1>3, <2>2, <2>3, <2>4, OrderKept DEF Running
  <2>5. CASE k.rst
    <3>1. k'.out = k.out /\ k'.rst = k.rst
      BY <1>1, <1>3, <2>5, ResetStays DEF Quiet
    <3>2. ~Live'
      BY <2>5, <3>1 DEF Live
    <3> QED  BY <2>3, <3>1, <3>2, OrderDead
  <2>6. CASE pc = "closed"
    BY <1>1, <1>3, <2>6, ClosedStays
  <2> QED  BY <2>4, <2>5, <2>6 DEF Live
<1> QED  BY <1>2, <1>3

\* "Responses written in request order", for every stream of requests that
\* end in a whole response: whatever the loop, the pool's direct writes, the
\* completions in doneCh, the blocked sends and takeoverLoop interleave, the
\* client gets the responses in the order of its requests, none of them cut,
\* mixed or repeated.  Without WellServed it does not hold: a blocked file
\* response is overtaken, and a blocked error response is repeated.
THEOREM ResponsesStayInOrder ==
  Spec => [](WellServed(env) => ResponsesInOrder)
<1>1. OInv => (WellServed(env) => ResponsesInOrder)
  BY DEF OInv, Ordered, InOrder, ResponsesInOrder
<1> QED  BY <1>1, OrderBegins, OrderGoesOn, PTL DEF Spec

=============================================================================
