------------------------------ MODULE WingHTTP ------------------------------
(***************************************************************************)
(* The HTTP/1.1 reader of a Wing connection: parseHTTPRequestInternal,     *)
(* classifyIncomplete and the two loops that call them, tryParse of the    *)
(* event loop and the keep-alive loop of a taken-over connection.          *)
(*                                                                         *)
(* Bytes are grouped to tokens, one per line and one per body byte: the    *)
(* reader decides nothing before it has seen a blank line, so a read that  *)
(* ends inside a line adds no case.  "crlf" is an empty line, leading or   *)
(* closing a header block; every other token is named for what the two     *)
(* readers tell apart.  The read buffer is modelled with its memory, since *)
(* the fast parser leaves Host, Accept and Connection pointing into it.    *)
(***************************************************************************)
EXTENDS Naturals, Sequences, FiniteSets, SequencesExt

CONSTANTS
    Streams,            \* what a client may send on a connection
    ReadBufSize,        \* tokens the read buffer holds
    maxHeaderCount, bodyLimit, maxContentLength

VARIABLES
    stream,     \* all the client sends, fixed
    path,       \* "loop" or "takeover": which of the two loops reads
    sock,       \* tokens that are still to be read
    mem, readN, \* the read buffer and its filled length
    phase,      \* "read", "parse", "body", "closed", "panic"
    need, bodyBuf, headerSnapshot,
    out,        \* requests given to handlers, and the answers of the reader
    live,       \* the request an async handler works on, or NoReq
    ka          \* c.keepAlive: of the latest request; FALSE after a refusal

hvars == <<stream, path, sock, mem, readN, phase, need, bodyBuf, headerSnapshot, out, live, ka>>

Lines == {"line11", "line10", "lineToken", "lineBad"}   \* lineToken: bad method or target
Hosts == {"hostA", "hostB"}
Lengths == [cl0 |-> 0, cl1 |-> 1, cl2 |-> 2, cl3 |-> 3, clPlus |-> 2]
HeaderLines == Hosts \cup DOMAIN Lengths \cup
    {"hostBad", "te", "close", "keep", "expect", "other", "long", "fold", "badName", "badValue", "bareLF"}
Body == {"p", "q", "r"}

NoReq == [host |-> "none", alias |-> 0]
buf == [i \in 1..readN |-> mem[i]]
Full == readN = ReadBufSize

-----------------------------------------------------------------------------
(* Reading a header block *)

(* Leading CRLFs that both readers skip. *)
skip(d) == CHOOSE k \in 0..Len(d) : /\ \A i \in 1..k : d[i] = "crlf"
                                    /\ k < Len(d) => d[k + 1] # "crlf"

(* bytes.Index(d, CRLFCRLF): the token before the blank line, 0 if none. *)
headerEnd(d) ==
    LET ends == {i \in 1..(Len(d) - 1) : d[i + 1] = "crlf" /\ d[i] \notin Body \cup {"bareLF"}}
    IN IF ends = {} THEN 0 ELSE CHOOSE i \in ends : \A j \in ends : i <= j

Fields(d) == SubSeq(d, 2, headerEnd(d))
Count(hs, S) == Cardinality({i \in DOMAIN hs : hs[i] \in S})
ContentLength(hs) ==
    IF Count(hs, DOMAIN Lengths) = 0 THEN 0
    ELSE Lengths[hs[CHOOSE i \in DOMAIN hs : hs[i] \in DOMAIN Lengths]]

(* Lines with a byte the validators refuse: in a name, in a value, in a      *)
(* Content-Length (a sign, say) or in a Host.                                *)
InvalidBytes == {"badName", "badValue", "clPlus", "hostBad"}

(* A line either parser drops the request for. *)
TEPasses == InvalidBytes \cup {"long", "fold", "bareLF"}       \* mutant
BadField == InvalidBytes \cup {"te", "long", "fold", "bareLF"}

requiresHostHeader(line) == line = "line11"

(* The persistence directives of the Connection fields. *)
scanConnectionTokens(hs) ==
    [hasClose |-> Count(hs, {"close"}) > 0, hasKeepAlive |-> Count(hs, {"keep"}) > 0]

(* A close token wins; HTTP/1.0 has to ask for persistence. *)
keepAlive(line, hs) ==
    LET tokens == scanConnectionTokens(hs) IN
    ~tokens.hasClose /\ (line = "line11" \/ tokens.hasKeepAlive)

(* The loop over the header lines: every line is one the parser accepts, and *)
(* neither Host nor Content-Length comes twice.                              *)
HeadersAccepted(line, hs) ==
    /\ \A i \in DOMAIN hs : hs[i] \in HeaderLines \ BadField
    /\ Len(hs) <= maxHeaderCount
    /\ Count(hs, DOMAIN Lengths) <= 1 /\ Count(hs, Hosts) <= 1
    /\ requiresHostHeader(line) => Count(hs, Hosts) = 1

(* parseHTTPRequestInternal.  Every refusal is the same answer, so the order *)
(* of the checks does not show.  alias is the token a fast parse leaves the  *)
(* host in; it is not shifted with the buffer.                               *)
Failed == [ok |-> FALSE]
parseHTTPRequest(data) ==
    LET k == skip(data)
        d == SubSeq(data, k + 1, Len(data))
        e == headerEnd(d)
        hs == Fields(d)
        n == ContentLength(hs)
        h == {i \in DOMAIN hs : hs[i] \in Hosts}
    IN IF \/ e = 0 \/ d[1] \notin {"line11", "line10"}
          \/ ~HeadersAccepted(d[1], hs)
          \/ n > maxContentLength \/ n > bodyLimit
          \/ e + 1 + n > Len(d)
       THEN Failed
       ELSE [ok |-> TRUE, consumed |-> k + e + 1 + n,
             keepAlive |-> keepAlive(d[1], hs), line |-> d[1], fields |-> hs,
             body |-> SubSeq(d, e + 2, e + 1 + n),
             host |-> IF h = {} THEN "" ELSE hs[CHOOSE i \in h : TRUE],
             alias |-> IF h = {} THEN 0 ELSE k + 1 + CHOOSE i \in h : TRUE]

(* What classifyIncomplete says of field i, given those before it. *)
FieldVerdict(hs, i) ==
    LET before == SubSeq(hs, 1, i - 1) IN
    CASE hs[i] = "fold" -> "malformed"
      [] hs[i] = "long" -> "headerTooLarge"
      [] hs[i] \notin HeaderLines \/ hs[i] = "badValue" -> "malformed"
      [] hs[i] \in DOMAIN Lengths /\ Count(before, DOMAIN Lengths) > 0 -> "malformed"
      [] hs[i] = "hostBad" \/ (hs[i] \in Hosts /\ Count(before, Hosts) > 0) -> "badRequest"
      [] OTHER -> "ok"

(* classifyIncomplete: why parseHTTPRequest said no, as a status. *)
classifyIncomplete(data) ==
    LET k == skip(data)
        d == SubSeq(data, k + 1, Len(data))
        hs == Fields(d)
        n == ContentLength(hs)
        bad == {i \in DOMAIN hs : FieldVerdict(hs, i) # "ok"}
    IN CASE headerEnd(d) = 0 -> "needHeaderMore"
         [] d[1] \notin Lines \/ d[1] = "lineBad" -> "malformed"
         [] bad # {} -> FieldVerdict(hs, CHOOSE i \in bad : \A j \in bad : i <= j)
         [] d[1] # "line10" /\ Count(hs, Hosts) = 0 -> "badRequest"
         [] Count(hs, {"te"}) > 0 -> IF Count(hs, DOMAIN Lengths) > 0 THEN "malformed" ELSE "chunked"
         [] n = 0 -> "malformed"
         [] n > bodyLimit -> "bodyTooLarge"
         [] OTHER -> "needBody"
bodyNeed(data) == ContentLength(Fields(SubSeq(data, skip(data) + 1, Len(data))))

-----------------------------------------------------------------------------
(* The loops *)

Handled(r) == [kind |-> "request", line |-> r.line, fields |-> r.fields, body |-> r.body]
Refusal(code) == [kind |-> "status", code |-> code]      \* 0: closed without a word

Stay == UNCHANGED <<stream, path>>
NoBody == need' = 0 /\ bodyBuf' = <<>> /\ headerSnapshot' = <<>>
closeConn == phase' = "closed" /\ readN' = 0 /\ live' = NoReq /\ NoBody /\ UNCHANGED <<sock, mem, ka>>

(* A response after which the connection ends.  If the event loop cannot     *)
(* send it at once, the connection stays, the buffer as it is, and is read   *)
(* and parsed again when more arrives; a takeover blocks in the write.       *)
Ends == phase' = "closed" \/ (path = "loop" /\ phase' = "read")

(* copy(readBuf, d): d goes to the front, the memory behind it stays. *)
Relocate(d) == /\ mem' = [i \in DOMAIN mem |-> IF i <= Len(d) THEN d[i] ELSE mem[i]]
               /\ readN' = Len(d)

(* One read of the socket into the free part of the buffer.  While a handler *)
(* is pending the loop notes that it did not read (readSuppressed).          *)
HandleRecv ==
    /\ phase = "read" /\ live = NoReq
    /\ \E k \in 1..Len(sock) :
         /\ readN + k <= ReadBufSize
         /\ mem' = [i \in DOMAIN mem |-> IF i \in readN + 1..readN + k THEN sock[i - readN] ELSE mem[i]]
         /\ readN' = readN + k
         /\ sock' = SubSeq(sock, k + 1, Len(sock))
    /\ phase' = "parse"
    /\ UNCHANGED <<need, bodyBuf, headerSnapshot, out, live, ka>> /\ Stay

(* With no room left the read addresses the byte behind the buffer.         *)
RecvFull ==
    /\ phase = "read" /\ live = NoReq /\ Full /\ sock # <<>>
    /\ phase' = "panic"
    /\ UNCHANGED <<sock, mem, readN, need, bodyBuf, headerSnapshot, out, live, ka>> /\ Stay

(* The last response has left at last. *)
SendDone ==
    /\ phase = "read" /\ live = NoReq /\ ~ka
    /\ closeConn /\ UNCHANGED out /\ Stay

(* A complete request is consumed and dispatched: inline, so that it is      *)
(* answered within the step or left in a full sendBuf, or to another         *)
(* goroutine (Pool, Spawn), whose response the loop handles later.  The      *)
(* fields that point into the buffer are cloned only when the rest of the    *)
(* buffer is about to move (finalizeRequestCommonHeaders).                   *)
NeverCopied(r, remaining) == r                       \* mutant
finalizeRequestCommonHeaders(r, remaining) ==
    IF remaining > 0 THEN [r EXCEPT !.alias = 0] ELSE r

Dispatch ==
    LET r == parseHTTPRequest(buf)
        rest == SubSeq(buf, r.consumed + 1, readN)
        f == finalizeRequestCommonHeaders(r, Len(rest))
    IN /\ phase = "parse" /\ r.ok
       /\ Relocate(rest)
       /\ out' = Append(out, Handled(r))
       /\ ka' = r.keepAlive
       /\ \/ /\ live' = NoReq
             /\ IF r.keepAlive THEN phase' = IF rest = <<>> THEN "read" ELSE "parse" ELSE Ends
          \/ /\ path = "loop"
             /\ live' = [host |-> r.host, alias |-> f.alias] /\ phase' = "read"
       /\ UNCHANGED <<sock, need, bodyBuf, headerSnapshot>> /\ Stay

(* The handler asks for the Host: a string that still points into the read   *)
(* buffer is cloned first.                                                   *)
Header ==
    /\ live # NoReq /\ live.alias # 0
    /\ live' = [host |-> mem[live.alias], alias |-> 0]
    /\ UNCHANGED <<sock, mem, readN, phase, need, bodyBuf, headerSnapshot, out, ka>> /\ Stay

(* handleDone: the response is sent and the buffer is parsed again, or the   *)
(* connection ends.                                                          *)
HandlerDone ==
    /\ live # NoReq
    /\ live' = NoReq
    /\ IF ka THEN phase' = IF readN > 0 THEN "parse" ELSE "read" ELSE Ends
    /\ UNCHANGED <<sock, mem, readN, need, bodyBuf, headerSnapshot, out, ka>> /\ Stay

(* What the loops answer.  With a full buffer the event loop answers 431 to  *)
(* whatever is neither a Host error nor about the body.                      *)
StatusOf(st) == CASE st = "badRequest" -> 400 [] st = "chunked" -> 501 [] st = "bodyTooLarge" -> 413
                  [] st = "headerTooLarge" -> 431 [] OTHER -> 0
Overflows(p) == IF p = "loop" THEN {"needHeaderMore", "headerTooLarge", "chunked", "malformed"}
                ELSE {"needHeaderMore"}
Refuse ==
    LET st == classifyIncomplete(buf)
        code == IF Full /\ st \in Overflows(path) THEN 431 ELSE StatusOf(st)
    IN
    /\ phase = "parse" /\ ~parseHTTPRequest(buf).ok /\ st # "needBody"
    /\ \/ /\ st = "needHeaderMore" /\ ~Full
          /\ phase' = "read" /\ UNCHANGED <<out, ka>>
       \/ /\ st # "needHeaderMore" \/ Full
          /\ out' = Append(out, Refusal(code)) /\ ka' = FALSE
          /\ IF code = 0 THEN phase' = "closed" ELSE Ends
    /\ UNCHANGED <<sock, mem, readN, need, bodyBuf, headerSnapshot, live>> /\ Stay

(* accumBody: how many of k new tokens the body takes when it lacks rest. *)
TakesAll(k, rest) == k                               \* mutant: the next request is swallowed
accumBody(k, rest) == IF k < rest THEN k ELSE rest

(* beginBodyAccum and its twin: the header block is set aside, where it ends *)
(* is looked up in the buffer as it is, and what follows goes to the body.   *)
BeginBody ==
    LET e == headerEnd(buf) + 1
        n == bodyNeed(buf)
        take == accumBody(readN - e, n)
    IN /\ phase = "parse" /\ ~parseHTTPRequest(buf).ok /\ classifyIncomplete(buf) = "needBody"
       /\ headerSnapshot' = SubSeq(buf, 1, e)
       /\ need' = n
       /\ bodyBuf' = SubSeq(buf, e + 1, e + take)
       /\ Relocate(SubSeq(buf, e + take + 1, readN))
       /\ phase' = "body"
       /\ UNCHANGED <<sock, out, live, ka>> /\ Stay

(* drainBodyAccum: read over the buffer until the body is whole; what was    *)
(* read too much is the start of the next request.                           *)
DrainBody ==
    /\ phase = "body" /\ Len(bodyBuf) < need
    /\ \E k \in 1..Len(sock) :
         LET take == accumBody(k, need - Len(bodyBuf)) IN
         /\ k <= ReadBufSize
         /\ bodyBuf' = bodyBuf \o SubSeq(sock, 1, take)
         /\ Relocate(SubSeq(sock, take + 1, k))
         /\ sock' = SubSeq(sock, k + 1, Len(sock))
    /\ UNCHANGED <<phase, need, headerSnapshot, out, live, ka>> /\ Stay

(* finishBodyAccum: header block and body are parsed again and, whatever the *)
(* preset says, handled inline.                                              *)
FinishBody ==
    LET r == parseHTTPRequest(headerSnapshot \o bodyBuf) IN
    /\ phase = "body" /\ Len(bodyBuf) >= need
    /\ IF ~r.ok THEN out' = Append(out, Refusal(0)) /\ closeConn
       ELSE /\ out' = Append(out, Handled(r)) /\ ka' = r.keepAlive
            /\ IF r.keepAlive THEN phase' = IF readN > 0 THEN "parse" ELSE "read" ELSE Ends
            /\ NoBody
            /\ UNCHANGED <<sock, mem, readN, live>>
    /\ Stay

HInit ==
    /\ stream \in Streams /\ path \in {"loop", "takeover"}
    /\ sock = stream /\ mem = [i \in 1..ReadBufSize |-> "none"] /\ readN = 0
    /\ phase = "read" /\ need = 0 /\ bodyBuf = <<>> /\ headerSnapshot = <<>>
    /\ out = <<>> /\ live = NoReq /\ ka = TRUE

HNext == HandleRecv \/ RecvFull \/ SendDone \/ Dispatch \/ Header \/ HandlerDone \/ Refuse \/ BeginBody \/ DrainBody \/ FinishBody

HSpec == HInit /\ [][HNext]_hvars

-----------------------------------------------------------------------------
(* The stream read in one piece, with no limit on the buffer: a sequence of  *)
(* requests and at most one final refusal.  W[k] is the answer to what       *)
(* follows the first k tokens; `on` goes on behind a request that should end *)
(* the connection.                                                           *)
Whole(on) ==
    LET From(k) == SubSeq(stream, k + 1, Len(stream))
        W[k \in 0..Len(stream)] ==
            LET d == From(k)
                r == parseHTTPRequest(d)
                st == classifyIncomplete(d)
                n == bodyNeed(d)
                e == skip(d) + headerEnd(From(k + skip(d))) + 1
            IN CASE r.ok -> <<Handled(r)>> \o (IF r.keepAlive \/ on THEN W[k + r.consumed] ELSE <<>>)
                 [] ~r.ok /\ st = "needHeaderMore" -> <<>>
                 [] ~r.ok /\ st = "needBody" -> IF e + n <= Len(d) THEN <<Refusal(0)>> ELSE <<>>
                 [] OTHER -> <<Refusal(StatusOf(st))>>
    IN W[0]

IsRequest(x) == x.kind = "request"
Final(x) == ~IsRequest(x) \/ ~keepAlive(x.line, x.fields)
Proper(s) ==        \* up to the answer that should be the last
    LET f == {i \in DOMAIN s : Final(s[i])} IN
    IF f = {} THEN s ELSE SubSeq(s, 1, CHOOSE i \in f : \A j \in f : i <= j)

Resting ==
    \/ phase = "closed"
    \/ sock = <<>> /\ live = NoReq /\ ka /\ phase = "read"
    \/ sock = <<>> /\ live = NoReq /\ phase = "body" /\ Len(bodyBuf) < need

(* How the bytes are cut into reads never shows: both loops hand the same    *)
(* requests with the same bodies to the handlers, and end with the same      *)
(* refusal, as if the whole stream had arrived at once; nothing is lost or   *)
(* read twice between requests.  A full buffer may turn the final refusal    *)
(* into 431.  Behind an answer that should be the last and that a full       *)
(* socket delays, the event loop goes on: what it hands out then is still    *)
(* the next request of the stream, each once, and behind a refusal, whose    *)
(* bytes it parses again, only refusals.  A takeover never goes on.          *)
SegmentationFree ==
    LET p == Proper(out)
        n == Len(p)
        same == IsPrefix(p, Whole(FALSE))
        full431 == /\ n > 0 /\ p[n] = Refusal(431) /\ IsPrefix(SubSeq(p, 1, n - 1), Whole(FALSE))
                   /\ Len(stream) >= ReadBufSize
    IN /\ same \/ full431
       /\ Resting /\ ~full431 => p = Whole(FALSE)
       /\ n < Len(out) => path = "loop"
       /\ IsPrefix(SelectSeq(out, IsRequest), SelectSeq(Whole(TRUE), IsRequest))
       /\ \A i \in DOMAIN out, j \in DOMAIN out : i < j /\ ~IsRequest(out[i]) => ~IsRequest(out[j])

Sound == {"hostA", "hostB", "cl0", "cl1", "cl2", "cl3", "close", "keep", "expect", "other"}

(* What reaches a handler is a request a strict reader would accept: one     *)
(* Host unless HTTP/1.0, no Transfer-Encoding, no folded, over-long or       *)
(* invalid line, and a body of exactly the declared length within the limit. *)
HandledWellFormed ==
    \A i \in DOMAIN out : out[i].kind = "request" =>
        LET hs == out[i].fields IN
        /\ out[i].line \in {"line11", "line10"}
        /\ Count(hs, Hosts) <= 1 /\ (out[i].line = "line11" => Count(hs, Hosts) = 1)
        /\ \A j \in DOMAIN hs : hs[j] \in Sound
        /\ Len(out[i].body) = ContentLength(hs) /\ Len(out[i].body) <= bodyLimit
        /\ \A j \in DOMAIN out[i].body : out[i].body[j] \in Body

(* While a handler runs on another goroutine, the Host it may ask for, or    *)
(* has got, is the one its request was sent with: neither what the loop      *)
(* moves in the read buffer nor the clone made of it changes that.           *)
AliasStable ==
    live # NoReq =>
        LET hs == Last(out).fields
            sent == {hs[i] : i \in DOMAIN hs} \cap Hosts
        IN  {IF live.alias # 0 THEN mem[live.alias] ELSE live.host} = IF sent = {} THEN {""} ELSE sent
=============================================================================
