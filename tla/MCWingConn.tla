----------------------------- MODULE MCWingConn -----------------------------
(* Scenarios in which the connection of WingConn is explored. *)
EXTENDS WingConn

\* Headers of two bytes, so that one can be split, and bodies of none or two.
Get(d)  == [d |-> d, hdr |-> 2, body |-> 0, ka |-> TRUE, expect |-> FALSE,
            bad |-> ""]
Post(d) == [Get(d) EXCEPT !.body = 2]
Expect(d) == [Post(d) EXCEPT !.expect = TRUE]
Last(r) == [r EXCEPT !.ka = FALSE]
Bad(b)  == [Get("Inline") EXCEPT !.bad = b]
Long    == [Get("Inline") EXCEPT !.hdr = 6]

\* Everything the dispatcher can meet, in pairs.
AllKinds == {Get(d) : d \in Dispatches} \cup
            {Post("Inline"), Post("Pool"), Post("Hijack"), Expect("Inline"),
             Last(Get("Inline")), Last(Get("Pool")), Last(Get("File")),
             Last(Get("Takeover")), Bad("error"), Bad("malformed"), Long}
Pairs == {<<a, b>> : a, b \in AllKinds}

\* Kept-alive requests without a body, answered from memory or by a handler.
Plain == {Get(d) : d \in {"Inline", "Pool", "Spawn"}}
PlainTriples == {<<a, b, d>> : a, b, d \in Plain}

\* Where each request of a stream starts, and where the stream ends.
Positions(reqs) ==
  LET at[i \in 1..(Len(reqs) + 1)] ==
        IF i = 1 THEN 1 ELSE at[i-1] + reqs[i-1].hdr + reqs[i-1].body
  IN  at

\* A client that pipelines and never fails, and a socket that never blocks.
Calm(reqs) ==
  [script |-> reqs, start |-> Positions(reqs), bufCap |-> 4, sendCap |-> 9,
   pipelining |-> TRUE, halfClose |-> FALSE, reset |-> FALSE, timeouts |-> FALSE,
   bodyBudget |-> FALSE]

\* Every pair, pipelined, with every failure, with timeouts and without; the
\* socket does not block.
Pipelined ==
  {[Calm(s) EXCEPT !.halfClose = TRUE, !.reset = TRUE, !.timeouts = t,
                   !.bodyBudget = TRUE] : s \in Pairs, t \in BOOLEAN}

\* Every pair from a client that waits for each response and reads slowly.
OneByOne ==
  {[Calm(s) EXCEPT !.sendCap = 1, !.pipelining = FALSE, !.halfClose = TRUE,
                   !.reset = TRUE, !.bodyBudget = TRUE] : s \in Pairs}

\* Three requests pipelined by a client that reads slowly; some ask for the
\* end of the connection, or for a takeover, which waits for earlier responses
\* while the buffer fills; and a header longer than the buffer.
Behind == Plain \cup {Last(Get("Inline")), Get("Takeover")}
Backpressure ==
  {[Calm(s) EXCEPT !.sendCap = 1, !.halfClose = TRUE, !.reset = TRUE] :
     s \in {<<a, b, d>> : a, b, d \in Behind} \cup {<<Get("Inline"), Long>>}}

\* A body between two pool requests: its reads take the bytes that
\* readSuppressed stands for.
Between ==
  {[Calm(<<Get("Pool"), Post("Inline"), Get("Pool")>>) EXCEPT !.bufCap = 5]}

AllScenarios == Pipelined \cup OneByOne \cup Backpressure \cup Between

\* For liveness: no failures; a buffer that no request boundary fills.
LiveScenarios ==
  {[Calm(s) EXCEPT !.bufCap = 5] : s \in Pairs} \cup
  {[Calm(s) EXCEPT !.sendCap = 1] : s \in PlainTriples}

\* The error response of the transport blocks, with a request behind it.
BlockedLast ==
  {[Calm(<<Get("Inline"), Bad("error"), Get("Inline")>>) EXCEPT !.sendCap = 1]}

\* A file response that blocks, with a pipelined request behind it.
SendfileBlocked ==
  {[Calm(<<Get("File"), Get("Inline")>>) EXCEPT !.sendCap = 1]}
=============================================================================
