---------------------------- MODULE WebSocket ----------------------------
(***************************************************************************)
(* A connection that a handler hijacked from Wing (wing_ws.go) and that    *)
(* contrib/ws runs the WebSocket protocol on.  The goroutine H upgrades,   *)
(* reads frames in the application's handler, returns and then holds the   *)
(* descriptor as hijackTakeover; the goroutine A belongs to the            *)
(* application, shares the Conn and may outlive the handler; the server    *)
(* may shut down; the event loop closes the descriptor, which the kernel   *)
(* may give to another connection at once.                                 *)
(***************************************************************************)
EXTENDS Naturals, Sequences, FiniteSets, SequencesExt

CONSTANTS
    Handshakes,        \* the upgrade requests a client may send
    AllowedOrigins, StrictOrigin,        \* Config
    Inputs,            \* the sequences of frames a client may send
    maxMessageSize,    \* Config.MaxMessageSize, in payload bytes
    maxPingPerSec,     \* Config.MaxPingPerSecond
    MaxControl,        \* RFC 6455's 125 bytes, scaled down
    MaxAppOps          \* bound: calls of the application's goroutine

VARIABLES
    in,        \* the frames not read yet
    msg,       \* the message ReadMessage is assembling; <<>> between messages
    pings,     \* Conn.pingCount
    mu,        \* the holder of Conn.mu, or "free"
    closed,    \* Conn.closed
    werr,      \* the sticky error of the bufio.Writer
    aclosed,   \* wingHijackConn.closed
    done,      \* wingHijackConn.done is closed
    ctxDone,   \* the connection's context is cancelled
    fd,        \* what the descriptor's number stands for
    pc,        \* where H and A are
    back,      \* where each goes when the adapter's Close returns
    ops,       \* calls A has made
    wire,      \* what reached the client
    got,       \* the messages ReadMessage returned
    read,      \* history: the frames consumed
    foreign    \* history: Shutdown hit a descriptor that is someone else's

wsvars == <<in, msg, pings, mu, closed, werr, aclosed, done, ctxDone, fd, pc,
            back, ops, wire, got, read, foreign>>
conn == <<closed, werr, wire>>
adapter == <<aclosed, done, ctxDone, fd, foreign>>
input == <<in, msg, pings, got, read>>

---------------------------------------------------------------------------
(* Frames: [op, fin, masked, rsv, data].  A payload byte is 1 (a character *)
(* of its own), 2 (first byte of a two-byte character) or 3 (its second);  *)
(* a close payload starts with its code, or is a lone byte below 1000.     *)

Text == 1
Binary == 2
CloseOp == 8
Ping == 9
Pong == 10

CloseGoingAway == 1001
CloseProtocolError == 1002
CloseInvalidPayload == 1007
ClosePolicyViolation == 1008
CloseMessageTooBig == 1009

utf8Valid(s) ==
    \A i \in DOMAIN s :
        /\ s[i] = 2 => i < Len(s) /\ s[i + 1] = 3
        /\ s[i] = 3 => i > 1 /\ s[i - 1] = 2

\* frame.go readFrame: "ok", or the error.  rsv stands for what the header
\* alone rules out (reserved bits, a length not in its shortest form).
readFrame(f) ==
    IF f.rsv \/ f.op \notin {0, Text, Binary, CloseOp, Ping, Pong} THEN "malformed"
    ELSE IF f.op < 8 /\ Len(f.data) > maxMessageSize THEN "exceeds max size"
    ELSE IF f.op >= 8 /\ (~f.fin \/ Len(f.data) > MaxControl) THEN "malformed"
    ELSE "ok"

validReceivedCloseCode(code) ==
    \/ code \in 3000..4999
    \/ code \in (1000..1014) \ {1004, 1005, 1006}

\* 0, or the code to close with.
validateClosePayload(p) ==
    IF p = <<>> THEN 0
    ELSE IF p[1] < 1000 \/ ~validReceivedCloseCode(p[1]) THEN CloseProtocolError
    ELSE IF ~utf8Valid(Tail(p)) THEN CloseInvalidPayload
    ELSE 0

---------------------------------------------------------------------------
(* The handshake: [method, body, valid, origin], valid being the set of    *)
(* handshake headers that are there with the value they need.              *)

validateUpgrade(r) ==
    /\ r.method = "GET"
    /\ ~r.body
    /\ {"Upgrade", "Connection", "Sec-WebSocket-Key", "Sec-WebSocket-Version"} \subseteq r.valid

\* "" is a request without the header.
checkOrigin(r) ==
    \/ AllowedOrigins = {}
    \/ r.origin = "" /\ ~StrictOrigin
    \/ r.origin # "" /\ {"*", r.origin} \cap AllowedOrigins # {}

\* The status that Upgrader.Upgrade answers r with; 101 switches protocols.
UpgradeStatus(r) ==
    IF ~validateUpgrade(r) THEN 400 ELSE IF ~checkOrigin(r) THEN 403 ELSE 101

\* wingHijackWriter: what a handler that did not hijack has left in the
\* pooled response.
Buffered(status) == <<"refused", status>>

---------------------------------------------------------------------------
WSInit ==
    /\ in \in Inputs
    /\ msg = <<>> /\ pings = 0 /\ got = <<>> /\ read = <<>>
    /\ mu = "free" /\ closed = FALSE /\ werr = FALSE /\ wire = <<>>
    /\ aclosed = FALSE /\ done = FALSE /\ ctxDone = FALSE
    /\ fd = "open" /\ foreign = FALSE
    /\ pc = [H |-> "upgrade", A |-> "absent"]
    /\ back = [H |-> "", A |-> ""] /\ ops = 0

Go(p, l) == pc' = [pc EXCEPT ![p] = l]

\* writeFrame and Flush: the whole frame, or a part of it and an error that
\* stays; a socket that was shut down takes nothing.
Written(x) ==
    IF werr \/ fd # "open"
    THEN wire' = wire /\ werr' = TRUE
    ELSE \/ wire' = Append(wire, x) /\ werr' = werr
         \/ wire' = Append(wire, <<"part">>) /\ werr' = TRUE

closeFrame(code) == <<"close", code>>

\* rwc.Close is about to run; p goes to l when it has returned.
CloseAdapter(p, l) ==
    /\ Go(p, "swap")
    /\ back' = [back EXCEPT ![p] = l]

\* Conn.Close with a code, called by p, which goes on to l.  The mutex stays
\* with p until rwc.Close has returned.
Close(p, code, l) ==
    /\ mu = "free"
    /\ IF closed
       THEN Go(p, l) /\ UNCHANGED <<mu, back, conn>>
       ELSE /\ mu' = p
            /\ closed' = TRUE
            /\ Written(closeFrame(code))
            /\ CloseAdapter(p, l)

---------------------------------------------------------------------------
(* The adapter's Close, step by step.                                      *)

\* closed.Swap(true): the winner goes on to Shutdown, a loser waits on done.
Swap(p) ==
    /\ pc[p] = "swap"
    /\ aclosed' = TRUE
    /\ Go(p, IF aclosed THEN "await" ELSE "shutdown")
    /\ UNCHANGED <<input, conn, mu, done, ctxDone, fd, foreign, back, ops>>

\* syscall.Shutdown on the raw number, whatever it stands for by now.
Shutdown(p) ==
    /\ pc[p] = "shutdown"
    /\ fd' = IF fd = "open" THEN "shut" ELSE fd
    /\ foreign' = (foreign \/ fd \notin {"open", "shut"})
    /\ Go(p, "signal")
    /\ UNCHANGED <<input, conn, mu, aclosed, done, ctxDone, back, ops>>

\* close(c.done), or <-c.done for a loser; then the caller lets go of mu.
LoserGoesOn(p) ==                                    \* mutant: a loser does not wait
    /\ pc[p] \in {"signal", "await"} /\ done' = (done \/ pc[p] = "signal")
    /\ Go(p, back[p])
    /\ mu' = IF mu = p THEN "free" ELSE mu
    /\ UNCHANGED <<input, conn, aclosed, ctxDone, fd, foreign, back, ops>>
AdapterClosed(p) ==
    /\ \/ pc[p] = "signal" /\ done' = TRUE
       \/ pc[p] = "await" /\ done /\ UNCHANGED done
    /\ Go(p, back[p])
    /\ mu' = IF mu = p THEN "free" ELSE mu
    /\ UNCHANGED <<input, conn, aclosed, ctxDone, fd, foreign, back, ops>>

---------------------------------------------------------------------------
(* H: the takeover goroutine, which runs the handler.                      *)

\* The upgrade is refused, or the handler panics before it: hijackTakeover
\* writes the buffered response and gives the descriptor back.
Reject ==
    /\ pc["H"] = "upgrade"
    /\ \E status \in {UpgradeStatus(r) : r \in Handshakes} \cup {500} :
          status # 101 /\ wire' = IF fd = "open" THEN Append(wire, Buffered(status)) ELSE wire
    /\ Go("H", "reclaim")
    /\ UNCHANGED <<input, adapter, mu, closed, werr, back, ops>>

\* upgradeHijacker: Hijack, write and flush the 101; a failure closes the
\* connection without a close frame and the handler is not called.
Upgrade ==
    /\ pc["H"] = "upgrade"
    /\ \E r \in Handshakes : UpgradeStatus(r) = 101
    /\ Written(<<"101">>)
    /\ IF werr'
       THEN CloseAdapter("H", "wait")
       ELSE pc' = [H |-> "read", A |-> "run"] /\ UNCHANGED back
    /\ UNCHANGED <<input, adapter, mu, closed, ops>>

\* A handler that takes the connection with Hijack and returns; a goroutine of
\* its own keeps the adapter, with no Conn and no mutex around it.
Hijack ==
    /\ pc["H"] = "upgrade"
    /\ pc' = [H |-> "wait", A |-> "raw"]
    /\ UNCHANGED <<input, conn, adapter, mu, back, ops>>

\* ReadMessage returned an error and the handler returns.
Fail == Go("H", "return") /\ UNCHANGED <<conn, mu, back>>

\* handleControl of a ping: the rate first, then the pong.  The second may
\* have passed since the window began.
PongAfterClose(f) ==                                 \* mutant: the policy close is only a frame
    /\ mu = "free"
    /\ \E fresh \in BOOLEAN : pings' = IF fresh THEN 1 ELSE pings + 1
    /\ Written(IF pings' > maxPingPerSec THEN <<"close", ClosePolicyViolation>> ELSE <<"pong", f.data>>)
    /\ Go("H", IF werr' \/ pings' > maxPingPerSec THEN "return" ELSE "read")
    /\ UNCHANGED <<closed, mu, back, msg, got>>
ReadPing(f) ==
    /\ mu = "free"
    /\ \E fresh \in BOOLEAN : pings' = IF fresh THEN 1 ELSE pings + 1
    /\ IF pings' > maxPingPerSec
       THEN Close("H", ClosePolicyViolation, "return")
       ELSE /\ Written(<<"pong", f.data>>)
            /\ IF werr' THEN Go("H", "return") ELSE UNCHANGED pc
            /\ UNCHANGED <<closed, mu, back>>
    /\ UNCHANGED <<msg, got>>

\* handleControl of a close frame: echo it, once.
ReadClose(f) ==
    /\ LET code == validateClosePayload(f.data) IN
       Close("H", IF code # 0 THEN code ELSE f.data, "return")
    /\ UNCHANGED <<msg, pings, got>>

\* A message is complete.
Deliver(m) ==
    IF m.op = Text /\ ~utf8Valid(m.data)
    THEN Close("H", CloseInvalidPayload, "return") /\ UNCHANGED <<msg, got>>
    ELSE /\ got' = Append(got, m)
         /\ msg' = <<>>
         /\ UNCHANGED <<conn, mu, back, pc>>

\* A frame that is no control frame, within a fragmented message or not.
FragmentsUnbounded(f) ==                             \* mutant: only single frames are measured
    LET m == IF msg = <<>> THEN [op |-> f.op, data |-> f.data]
             ELSE [op |-> msg[1].op, data |-> msg[1].data \o f.data]
    IN  /\ IF (msg = <<>>) = (f.op = 0)
           THEN Close("H", CloseProtocolError, "return") /\ UNCHANGED <<msg, got>>
           ELSE IF f.fin THEN Deliver(m)
           ELSE msg' = <<m>> /\ UNCHANGED <<conn, mu, back, pc, got>>
        /\ UNCHANGED pings
ReadData(f) ==
    LET m == IF msg = <<>> THEN [op |-> f.op, data |-> f.data]
             ELSE [op |-> msg[1].op, data |-> msg[1].data \o f.data]
    IN  /\ IF (msg = <<>>) = (f.op = 0)
           THEN Close("H", CloseProtocolError, "return") /\ UNCHANGED <<msg, got>>
           ELSE IF Len(m.data) > maxMessageSize
           THEN Close("H", CloseMessageTooBig, "return") /\ UNCHANGED <<msg, got>>
           ELSE IF f.fin THEN Deliver(m)
           ELSE msg' = <<m>> /\ UNCHANGED <<conn, mu, back, pc, got>>
        /\ UNCHANGED pings

\* readClientFrame and what ReadMessage does with the frame.  Only the first
\* frame of a message that is too large is answered with 1009.
ReadMessage ==
    /\ pc["H"] = "read" /\ in # <<>> /\ fd \in {"open", "shut"}
    /\ in' = Tail(in)
    /\ LET f == Head(in)
           r == readFrame(f)
       IN  /\ read' = Append(read, f)
           /\ CASE r = "malformed" \/ (r = "exceeds max size" /\ msg # <<>>) ->
                     Fail /\ UNCHANGED <<msg, pings, got>>
                [] r = "exceeds max size" /\ msg = <<>> ->
                     Close("H", CloseMessageTooBig, "return") /\ UNCHANGED <<msg, pings, got>>
                [] r = "ok" /\ ~f.masked ->
                     Close("H", CloseProtocolError, "return") /\ UNCHANGED <<msg, pings, got>>
                [] r = "ok" /\ f.masked /\ f.op = Ping -> ReadPing(f)
                [] r = "ok" /\ f.masked /\ f.op = Pong ->
                     UNCHANGED <<msg, pings, got, conn, mu, back, pc>>
                [] r = "ok" /\ f.masked /\ f.op = CloseOp -> ReadClose(f)
                [] r = "ok" /\ f.masked /\ f.op < 8 -> ReadData(f)
    /\ UNCHANGED <<adapter, ops>>

\* A read fails (the client is gone, a deadline passed, the socket was shut
\* down), or the handler has had enough of the connection.
ReadError ==
    /\ pc["H"] = "read"
    /\ Fail
    /\ UNCHANGED <<input, adapter, ops>>

\* The deferred conn.Close(CloseGoingAway) of upgradeHijacker.
HandlerReturns ==
    /\ pc["H"] = "return"
    /\ Close("H", CloseGoingAway, "wait")
    /\ UNCHANGED <<input, adapter, ops>>

\* hijackTakeover waits for done or for the server's shutdown; it closes the
\* adapter itself in the second case.  With both ready the select picks one.
Takeover ==
    /\ pc["H"] = "wait"
    /\ \/ done /\ Go("H", "reclaim") /\ UNCHANGED back
       \/ ctxDone /\ CloseAdapter("H", "reclaim")
    /\ UNCHANGED <<input, conn, adapter, mu, ops>>

\* doneMsg: the event loop closes the descriptor through its File.
CloseFd ==
    /\ pc["H"] = "reclaim"
    /\ fd' = "closed"
    /\ Go("H", "end")
    /\ UNCHANGED <<input, conn, mu, aclosed, done, ctxDone, foreign, back, ops>>

\* The kernel hands the number to the next connection.
Recycle ==
    /\ fd = "closed"
    /\ fd' = "reused"
    /\ UNCHANGED <<input, conn, mu, aclosed, done, ctxDone, foreign, pc, back, ops>>

---------------------------------------------------------------------------
(* A, and the server.                                                      *)

WriteMessage ==
    /\ pc["A"] = "run" /\ ops < MaxAppOps /\ mu = "free"
    /\ ops' = ops + 1
    /\ IF closed THEN UNCHANGED conn
       ELSE Written(<<"text", ops>>) /\ UNCHANGED closed
    /\ UNCHANGED <<input, adapter, mu, pc, back>>

AppClose ==
    /\ pc["A"] = "run" /\ ops < MaxAppOps
    /\ ops' = ops + 1
    /\ Close("A", CloseGoingAway, "run")
    /\ UNCHANGED <<input, adapter>>

\* Close of the adapter itself, by the goroutine a plain hijacker left behind.
RawClose ==
    /\ pc["A"] = "raw" /\ ops < MaxAppOps
    /\ ops' = ops + 1
    /\ CloseAdapter("A", "raw")
    /\ UNCHANGED <<input, conn, adapter, mu>>

\* The worker's cleanup shuts the descriptor down and cancels the context,
\* unless the connection was handed back before.
Cancel ==
    /\ ~ctxDone /\ pc["H"] # "end"
    /\ ctxDone' = TRUE
    /\ fd' = IF fd = "open" THEN "shut" ELSE fd
    /\ UNCHANGED <<input, conn, mu, aclosed, done, foreign, pc, back, ops>>

WSNext ==
    \/ \E p \in {"H", "A"} : Swap(p) \/ Shutdown(p) \/ AdapterClosed(p)
    \/ Reject \/ Upgrade \/ Hijack \/ ReadMessage \/ ReadError \/ HandlerReturns
    \/ Takeover \/ CloseFd \/ Recycle
    \/ WriteMessage \/ AppClose \/ RawClose \/ Cancel

---------------------------------------------------------------------------
\* wing_ws.go:33-39, 62-74: whoever closes the connection, and in whatever
\* order the handler, the application and the shutdown do, Shutdown is never
\* called on a number that has been given back to the kernel.
NoForeignShutdown == ~foreign

\* A frame that was cut short or a close frame is the last thing the client
\* receives, and the response to the upgrade the first: no goroutine slips a
\* message, a pong or a second close frame behind it.
WireEndsOnce ==
    \A i \in DOMAIN wire :
        /\ wire[i][1] \in {"101", "refused"} => i = 1
        /\ i = 1 => wire[i][1] \in {"101", "refused", "part"}
        /\ wire[i][1] \in {"refused", "part", "close"} => i = Len(wire)

\* What ReadMessage returns is what the frames say: the fragments of one
\* message in order and nothing of a control frame or of a refused message;
\* within the size limit, and text only if the whole of it is UTF-8.
MessagesExact ==
    LET data == SelectSeq(read, LAMBDA f : f.op < 8)
        ends == {i \in DOMAIN data : data[i].fin}
        End(k) == CHOOSE i \in ends : Cardinality({j \in ends : j <= i}) = k
        Start(k) == IF k = 1 THEN 1 ELSE End(k - 1) + 1
        part(k) == SubSeq(data, Start(k), End(k))
    IN  /\ Len(got) <= Cardinality(ends)
        /\ pc["H"] = "read" => Len(got) = Cardinality(ends)
        /\ \A k \in DOMAIN got :
              /\ got[k].op = part(k)[1].op /\ got[k].op # 0
              /\ got[k].data = FlattenSeq([i \in DOMAIN part(k) |-> part(k)[i].data])
              /\ \A i \in DOMAIN part(k) : part(k)[i].masked /\ (i > 1 => part(k)[i].op = 0)
              /\ Len(got[k].data) <= maxMessageSize
              /\ got[k].op = Text => utf8Valid(got[k].data)
=============================================================================
