---------------------------- MODULE WingStream ----------------------------
(***************************************************************************)
(* A route with the Stream preset: streamTakeover gives the handler a      *)
(* wingStreamWriter, watches the socket for the client's departure, and    *)
(* closes the connection when the handler returns.  The handler opens an   *)
(* SSE stream (ctx_response.go SSE, sse.go) or answers in the plain way.   *)
(* Text is a sequence of tokens: "x" is a character, "n" and "r" are the   *)
(* line breaks, "D", "E", "I", "C" and "R" the prefixes data:, event:,     *)
(* id:, the bare colon of a comment, and retry:.                           *)
(***************************************************************************)
EXTENDS Naturals, Sequences, SequencesExt

CONSTANTS
    Texts,      \* what the handler may send: token sequences
    MaxEvents   \* bound: calls on the stream

VARIABLES
    at,           \* where the handler is
    cancelled,    \* the stream's context is cancelled
    gone,         \* the client has closed its half of the connection
    status,       \* wingStreamWriter.status
    headersSent,  \* wingStreamWriter.headersSent
    wire,         \* what has reached the client, see NoBytes
    sent,         \* history: the events of the last call that wrote, if it returned nil
    calls         \* calls made on the stream

streamvars == <<at, cancelled, gone, status, headersSent, wire, sent, calls>>

---------------------------------------------------------------------------
(* The client's side: the event stream format of the HTML standard, a token *)
(* at a time.  A line ends with LF, CR or CR LF; an empty one dispatches    *)
(* the event read so far, if it has data.                                   *)

Break == {"n", "r"}

Between == [cur |-> <<>>, cr |-> FALSE, event |-> <<>>, data |-> <<>>, out |-> <<>>]

LineRead(a) ==
    IF a.cur = <<>>
    THEN [Between EXCEPT !.out = IF a.data = <<>> THEN a.out
                                 ELSE Append(a.out, [event |-> a.event, data |-> a.data])]
    ELSE [a EXCEPT !.cur = <<>>, !.cr = FALSE,
                   !.event = IF a.cur[1] = "E" THEN Tail(a.cur) ELSE @,
                   !.data = IF a.cur[1] = "D" THEN Append(@, Tail(a.cur)) ELSE @]

TokenRead(a, c) ==
    CASE c = "n" /\ a.cr -> [a EXCEPT !.cr = FALSE]
      [] c \in Break /\ ~(c = "n" /\ a.cr) -> [LineRead(a) EXCEPT !.cr = c = "r"]
      [] OTHER -> [a EXCEPT !.cur = Append(@, c), !.cr = FALSE]

\* out: the events this text makes the client dispatch.
Reads(a, text) == FoldLeft(TokenRead, [a EXCEPT !.out = <<>>], text)

---------------------------------------------------------------------------
\* strings.IndexAny(s, "\r\n"): the text before the first line break.
sanitizeSSE(s) ==
    IF \E i \in DOMAIN s : s[i] \in Break
    THEN SubSeq(s, 1, (CHOOSE i \in DOMAIN s :
             s[i] \in Break /\ \A j \in 1..(i - 1) : s[j] \notin Break) - 1)
    ELSE s

\* Both ReplaceAll calls: CR LF, and then CR, become LF.
CRStays(s) == s                                      \* mutant
Normalised(s) ==
    LET kept == SelectSeq([i \in DOMAIN s |-> i],
                          LAMBDA i : ~(s[i] = "n" /\ i > 1 /\ s[i - 1] = "r"))
    IN  [k \in DOMAIN kept |-> IF s[kept[k]] = "r" THEN "n" ELSE s[kept[k]]]

\* Every line after the first gets the prefix of its own.
formatDataField(s) ==
    FlattenSeq([i \in DOMAIN Normalised(s) |->
        IF Normalised(s)[i] = "n" THEN <<"n", "D">> ELSE <<Normalised(s)[i]>>])

Event(e, d) == <<"E">> \o sanitizeSSE(e) \o <<"n", "D">> \o formatDataField(d) \o <<"n", "n">>
EventWithID(e, d) == <<"I">> \o sanitizeSSE(e) \o <<"n">> \o Event(e, d)
Data(d) == <<"D">> \o formatDataField(d) \o <<"n", "n">>
Comment(t) == <<"C">> \o sanitizeSSE(t) \o <<"n", "n">>
Retry == <<"R", "x", "n", "n">>

---------------------------------------------------------------------------
\* heads: preambles written whole; torn: one was cut short; bare: body bytes
\* came before any; cut: the last write of a body was cut short; behind: so
\* was the one before it.
NoBytes == [heads |-> 0, torn |-> FALSE, bare |-> FALSE, cut |-> FALSE, behind |-> FALSE,
            client |-> Between]

StreamInit ==
    /\ at = "start" /\ cancelled = FALSE /\ gone = FALSE
    /\ status = 200 /\ headersSent = FALSE
    /\ wire = NoBytes /\ sent = <<>> /\ calls = 0

WriteHeader(code) == status' = IF headersSent THEN status ELSE code

\* conn.Write of the preamble or of a body: all of it, or (the write deadline
\* passed, the client is gone) a first part, which may be empty, and an error.
Preamble(w) ==
    {<<TRUE, [w EXCEPT !.heads = @ + 1]>>, <<FALSE, w>>, <<FALSE, [w EXCEPT !.torn = TRUE]>>}
Body(w, text) ==
    {<<n = Len(text),
       [w EXCEPT !.client = Reads(@, SubSeq(text, 1, n)), !.bare = @ \/ w.heads = 0,
                 !.behind = w.cut, !.cut = n < Len(text)]>> : n \in 0..Len(text)}

\* What can become of the wire, and whether the call succeeds.
flushHeaders == IF headersSent THEN {<<TRUE, wire>>} ELSE Preamble(wire)

\* Write: the preamble if it is due, and the body unless that failed.
Write(text, event) ==
    \E h \in flushHeaders :
        /\ headersSent' = (headersSent \/ h[1])
        /\ IF ~h[1] THEN wire' = h[2] /\ sent' = sent
           ELSE \E b \in Body(h[2], text) :
                   wire' = b[2] /\ sent' = IF b[1] THEN event ELSE <<>>

Flush ==
    \E h \in flushHeaders : headersSent' = (headersSent \/ h[1]) /\ wire' = h[2]

\* Ctx.SSE up to the callback: status 200 and the preamble, at once.
Open ==
    /\ at = "start"
    /\ WriteHeader(200)
    /\ Flush
    /\ at' = "open"
    /\ UNCHANGED <<cancelled, gone, sent, calls>>

\* A call on the stream: nothing once the context is cancelled, else one
\* write, and a Flush that emits the preamble only when there was none.
Send(text, event) ==
    /\ at = "open" /\ calls < MaxEvents /\ ~cancelled
    /\ Write(text, event)
    /\ calls' = calls + 1
    /\ UNCHANGED <<at, cancelled, gone, status>>

SSECall ==
    \/ \E e, d \in Texts :
          \/ Send(Event(e, d), <<[event |-> e, data |-> d]>>)
          \/ Send(EventWithID(e, d), <<[event |-> e, data |-> d]>>)
    \/ \E d \in Texts :
          \/ Send(Data(d), <<[event |-> <<>>, data |-> d]>>)
          \/ Send(Comment(d), <<>>)
    \/ Send(Retry, <<>>)

\* The handler answers without a stream.
Respond(code) ==
    /\ at = "start"
    /\ WriteHeader(code)
    /\ Write(<<"x">>, <<>>)
    /\ at' = "returned"
    /\ UNCHANGED <<cancelled, gone, calls>>

\* A panic: 500 if nothing has been sent.
Panic ==
    /\ at \in {"start", "open"}
    /\ IF headersSent THEN UNCHANGED <<status, headersSent, wire, sent>>
       ELSE WriteHeader(500) /\ Write(<<"x">>, <<>>)
    /\ at' = "returned"
    /\ UNCHANGED <<cancelled, gone, calls>>

\* SSE flushes once more when the callback returns.
Return ==
    /\ at = "open"
    /\ Flush
    /\ at' = "returned"
    /\ UNCHANGED <<cancelled, gone, status, sent, calls>>

\* streamTakeover cancels, and the event loop closes the descriptor.
Done ==
    /\ at = "returned"
    /\ cancelled' = TRUE
    /\ at' = "closed"
    /\ UNCHANGED <<gone, status, headersSent, wire, sent, calls>>

Disconnect == ~gone /\ gone' = TRUE
              /\ UNCHANGED <<at, cancelled, status, headersSent, wire, sent, calls>>

\* watchStreamDisconnect: a failing read cancels the context.
watchStreamDisconnect ==
    /\ gone
    /\ ~cancelled /\ cancelled' = TRUE
    /\ UNCHANGED <<at, gone, status, headersSent, wire, sent, calls>>

StreamNext ==
    \/ Open \/ SSECall \/ Panic \/ Return \/ Done
    \/ \E code \in {200, 404} : Respond(code)
    \/ Disconnect \/ watchStreamDisconnect

---------------------------------------------------------------------------
\* The lines of a text, as the client of it will read them.
Lines(s) ==
    LET step(a, c) == IF c = "n" /\ a.cr THEN [a EXCEPT !.cr = FALSE]
                      ELSE IF c \in Break THEN [done |-> Append(a.done, <<>>), cr |-> c = "r"]
                      ELSE [done |-> [a.done EXCEPT ![Len(a.done)] = Append(@, c)], cr |-> FALSE]
    IN  FoldLeft(step, [done |-> <<<<>>>>, cr |-> FALSE], s).done

Seen(e) == [event |-> sanitizeSSE(e.event), data |-> Lines(e.data)]

\* No byte of a body comes before the preamble, and there is no second one
\* after a whole one.  On a stream whose preamble was not torn, an event
\* that is written whole behind a whole one is the one event the client
\* dispatches, whatever line breaks are in its name and its data; a write
\* that is cut short dispatches nothing; and the first whole write behind it
\* dispatches at most one event and leaves the client between two events, so
\* that what follows arrives as it was sent.
\* Two things the code does not do.  A write that fails is no end: the call
\* after it goes on behind the half event, and the event the client makes of
\* both is not one the handler sent.  And a preamble that was cut short is
\* written again behind its first half, against "exactly once. Subsequent
\* calls are no-ops" (wing_stream.go:69-70).
EventsArrive ==
    /\ ~wire.bare /\ wire.heads <= 1
    /\ (at = "open" /\ ~wire.torn /\ calls > 0) =>
          /\ wire.cut => wire.client.out = <<>>
          /\ ~wire.cut => /\ [wire.client EXCEPT !.out = <<>>] = Between
                          /\ Len(wire.client.out) <= 1
                          /\ ~wire.behind => wire.client.out = [i \in DOMAIN sent |-> Seen(sent[i])]
=============================================================================
