-------------------------- MODULE WebSocketProofs --------------------------
(***************************************************************************)
(* The end of a hijacked connection, for any frames, handshakes and limits *)
(* and any number of calls: Shutdown never hits a descriptor that was      *)
(* given back, and nothing follows the last frame on the wire.             *)
(*                                                                         *)
(* NoForeignShutdown rests on the Swap: one goroutine at most is between   *)
(* it and the closing of done (Closers), and the descriptor is given back  *)
(* only after done, or where nobody else has the adapter (HandedBack).     *)
(* WireEndsOnce has to explain the writes that do not look at closed, such *)
(* as a pong: whoever closed held the mutex until the socket was shut down *)
(* (Sealed), so what comes later does not reach the wire.                  *)
(***************************************************************************)
EXTENDS WebSocket, SequenceTheorems, TLAPS

WSSpec == WSInit /\ [][WSNext]_wsvars

Callers == {"H", "A"}

Closing == {"swap", "shutdown", "signal", "await"}

Spots == {"upgrade", "read", "return", "wait", "reclaim", "end", "absent",
          "run", "raw"}

TypeOK ==
    /\ pc \in [Callers -> Spots \cup Closing]
    /\ back \in [Callers -> Spots \cup {""}]
    /\ {closed, werr, aclosed, done, ctxDone} \subseteq BOOLEAN
    /\ foreign \in BOOLEAN
    /\ fd \in {"open", "shut", "closed", "reused"}
    /\ mu \in Callers \cup {"free"}
    /\ \E S : wire \in Seq(S)

\* Where the two goroutines can be, and where they return to.
Places ==
    /\ pc["H"] \in {"upgrade", "read", "return", "wait", "reclaim", "end"}
                     \cup Closing
    /\ pc["A"] \in {"absent", "run", "raw"} \cup Closing
    /\ pc["H"] \in Closing => back["H"] \in {"return", "wait", "reclaim"}
    /\ pc["A"] \in Closing => back["A"] \in {"run", "raw"}

\* The winner of the Swap has not closed done yet, and there is one winner.
Closers ==
    /\ \A p \in Callers : pc[p] \in {"shutdown", "signal"} => aclosed /\ ~done
    /\ ~ \A p \in Callers : pc[p] \in {"shutdown", "signal"}
    /\ done => aclosed

\* The descriptor goes back when the adapter is closed or is nobody else's.
HandedBack ==
    /\ pc["H"] \in {"reclaim", "end"} => done \/ pc["A"] = "absent"
    /\ fd \in {"closed", "reused"} => pc["H"] = "end"

\* Once closed, the socket takes nothing when the mutex is free again.
Sealed ==
    /\ \A p \in Callers : pc[p] = "signal" => fd # "open"
    /\ done => fd # "open"
    /\ closed => fd # "open" \/ (mu # "free" /\ pc[mu] \in Closing)

\* Nothing has happened yet.
Fresh ==
    pc["H"] = "upgrade" =>
        /\ pc["A"] = "absent" /\ wire = <<>> /\ mu = "free"
        /\ ~closed /\ ~werr

\* Who has a Conn has the answer to the upgrade on the wire.
Upgraded ==
    \/ pc["H"] \in {"read", "return"} \/ pc["A"] = "run"
    \/ (pc["H"] \in Closing /\ back["H"] = "return")
    \/ (pc["A"] \in Closing /\ back["A"] = "run")
    => wire # <<>>

\* What the last item on the wire means.
LastItem ==
    wire # <<>> =>
        LET x == wire[Len(wire)][1]
        IN  /\ x = "part" => werr
            /\ x = "close" => closed
            /\ x = "refused" =>
                  pc["A"] = "absent" /\ pc["H"] \in {"reclaim", "end"}

IInv ==
    /\ TypeOK /\ Places /\ Closers /\ HandedBack /\ Sealed /\ Fresh /\ Upgraded
    /\ LastItem /\ WireEndsOnce /\ NoForeignShutdown

-----------------------------------------------------------------------------
(* Moves of a goroutine, and what is appended to the wire.                 *)

LEMMA GoFacts ==
    ASSUME TypeOK, NEW p \in Callers, NEW l \in Spots \cup Closing, Go(p, l)
    PROVE  /\ pc' \in [Callers -> Spots \cup Closing] /\ pc'[p] = l
           /\ \A q \in Callers : q # p => pc'[q] = pc[q]
    BY DEF TypeOK, Go

LEMMA AdapterFacts ==
    ASSUME TypeOK, NEW p \in Callers, NEW l \in Spots, CloseAdapter(p, l)
    PROVE  /\ pc' \in [Callers -> Spots \cup Closing] /\ pc'[p] = "swap"
           /\ \A q \in Callers : q # p => pc'[q] = pc[q]
           /\ back' \in [Callers -> Spots \cup {""}] /\ back'[p] = l
           /\ \A q \in Callers : q # p => back'[q] = back[q]
<1>1. Go(p, "swap") /\ back' = [back EXCEPT ![p] = l]
    BY DEF CloseAdapter
<1>2. "swap" \in Spots \cup Closing
    BY DEF Closing
<1>3. back \in [Callers -> Spots \cup {""}]
    BY DEF TypeOK
<1> QED  BY <1>1, <1>2, <1>3, GoFacts

\* What ends the wire.
Ends == {"refused", "part", "close"}

LEMMA AppendWire ==
    ASSUME NEW S, wire \in Seq(S), WireEndsOnce, NEW x,
           wire' = Append(wire, x),
           wire # <<>> => wire[Len(wire)][1] \notin Ends,
           wire # <<>> => x[1] \notin {"101", "refused"},
           wire = <<>> => x[1] \in {"101", "refused", "part"}
    PROVE  /\ WireEndsOnce' /\ wire' # <<>> /\ wire'[Len(wire')] = x
           /\ \E T : wire' \in Seq(T)
<1> DEFINE n == Len(wire)
           T == S \cup {x}
<1>1. n \in Nat /\ (wire # <<>> => n # 0) /\ DOMAIN wire = 1..n
    BY EmptySeq, LenProperties
<1>2. wire \in Seq(T)
    <2>1. \A i \in 1..n : wire[i] \in T
        BY ElementOfSeq
    <2> QED  BY <1>1, <2>1, SeqDef, LenProperties
<1>3. /\ wire' \in Seq(T) /\ Len(wire') = n + 1
      /\ wire'[n + 1] = x /\ \A i \in 1..n : wire'[i] = wire[i]
    BY <1>2, AppendProperties
<1>4. DOMAIN wire' = 1..(n + 1)
    BY <1>3, LenProperties
<1>5. wire' # <<>>
    BY <1>1, <1>3
<1>6. ASSUME NEW i \in 1..n
      PROVE  /\ wire[i][1] \in {"101", "refused"} => i = 1
             /\ i = 1 => wire[i][1] \in {"101", "refused", "part"}
             /\ wire[i][1] \notin Ends
    BY <1>1 DEF WireEndsOnce, Ends
<1>7. ASSUME NEW i \in DOMAIN wire'
      PROVE  /\ wire'[i][1] \in {"101", "refused"} => i = 1
             /\ i = 1 => wire'[i][1] \in {"101", "refused", "part"}
             /\ wire'[i][1] \in {"refused", "part", "close"} => i = Len(wire')
    <2>1. CASE i \in 1..n
        BY <1>3, <1>6, <2>1 DEF Ends
    <2>2. CASE i = n + 1
        <3>1. i = 1 => wire = <<>>
            BY <1>1, <2>2
        <3>2. wire'[i] = x /\ i = Len(wire')
            BY <1>3, <2>2
        <3>3. wire = <<>> => n = 0
            OBVIOUS
        <3> QED  BY <1>1, <2>2, <3>1, <3>2, <3>3
    <2> QED  BY <1>1, <1>4, <2>1, <2>2
<1>8. WireEndsOnce'
    BY <1>7 DEF WireEndsOnce
<1> QED  BY <1>3, <1>5, <1>8

\* The effect of a write.
LEMMA WriteFacts ==
    ASSUME IInv, NEW x, Written(x),
           ~werr /\ fd = "open" /\ wire # <<>> =>
               wire[Len(wire)][1] \notin Ends,
           wire # <<>> => x[1] \notin {"101", "refused"},
           wire = <<>> => x[1] \in {"101", "refused", "part"}
    PROVE  /\ WireEndsOnce' /\ werr' \in BOOLEAN /\ (werr => werr')
           /\ \E T : wire' \in Seq(T)
           /\ \/ wire' = wire /\ werr'
              \/ wire' # <<>> /\ wire'[Len(wire')] = x /\ ~werr'
              \/ wire' # <<>> /\ wire'[Len(wire')] = <<"part">> /\ werr'
<1>1. werr \in BOOLEAN /\ WireEndsOnce
    BY DEF IInv, TypeOK
<1>2. PICK S : wire \in Seq(S)
    BY DEF IInv, TypeOK
<1>3. CASE wire' = wire /\ werr' = TRUE
    BY <1>1, <1>2, <1>3 DEF WireEndsOnce
<1>4. CASE /\ ~werr /\ fd = "open" /\ wire' = Append(wire, x)
           /\ werr' = werr
    <2>1. /\ WireEndsOnce' /\ wire' # <<>> /\ wire'[Len(wire')] = x
          /\ \E T : wire' \in Seq(T)
        BY <1>1, <1>2, <1>4, AppendWire
    <2> QED  BY <1>1, <1>4, <2>1
<1>5. CASE /\ ~werr /\ fd = "open" /\ wire' = Append(wire, <<"part">>)
           /\ werr' = TRUE
    <2> DEFINE y == <<"part">>
    <2>1. y[1] = "part"
        OBVIOUS
    <2>2. wire' = Append(wire, y)
        BY <1>5
    <2> HIDE DEF y
    <2>3. /\ WireEndsOnce' /\ wire' # <<>> /\ wire'[Len(wire')] = y
          /\ \E T : wire' \in Seq(T)
        BY <1>1, <1>2, <1>5, <2>1, <2>2, AppendWire
    <2> QED  BY <1>1, <1>5, <2>3 DEF y
<1> QED  BY <1>1, <1>3, <1>4, <1>5 DEF Written

-----------------------------------------------------------------------------
(* The adapter's Close.                                                    *)

LEMMA Facts ==
    ASSUME IInv
    PROVE  /\ TypeOK /\ pc \in [Callers -> Spots \cup Closing]
           /\ back \in [Callers -> Spots \cup {""}]
           /\ closed \in BOOLEAN /\ werr \in BOOLEAN /\ aclosed \in BOOLEAN
           /\ done \in BOOLEAN /\ ctxDone \in BOOLEAN
           /\ fd \in {"open", "shut", "closed", "reused"}
           /\ mu \in Callers \cup {"free"} /\ ~foreign
           /\ (\E S : wire \in Seq(S))
           /\ Places /\ Closers /\ HandedBack /\ Sealed /\ Fresh /\ Upgraded
           /\ LastItem /\ WireEndsOnce
    BY DEF IInv, TypeOK, NoForeignShutdown

\* Nothing of the wire changes.
LEMMA WireFrame ==
    ASSUME IInv, UNCHANGED conn
    PROVE  /\ WireEndsOnce' /\ (\E S : wire \in Seq(S))'
           /\ wire' = wire /\ closed' = closed /\ werr' = werr
    BY DEF IInv, TypeOK, conn, WireEndsOnce

LEMMA SwapStep ==
    ASSUME IInv, NEW p \in Callers, Swap(p)
    PROVE  IInv'
<1> DEFINE l == IF aclosed THEN "await" ELSE "shutdown"
<1>1. /\ pc[p] = "swap" /\ aclosed' = TRUE /\ Go(p, l)
      /\ UNCHANGED <<mu, done, ctxDone, fd, foreign, back>>
      /\ UNCHANGED conn
    BY DEF Swap
<1>2. l \in Closing /\ l \in Spots \cup Closing
    BY DEF Closing
<1>3. /\ pc' \in [Callers -> Spots \cup Closing] /\ pc'[p] = l
      /\ \A q \in Callers : q # p => pc'[q] = pc[q]
    BY <1>1, <1>2, Facts, GoFacts
<1>4. /\ WireEndsOnce' /\ (\E S : wire \in Seq(S))'
      /\ wire' = wire /\ closed' = closed /\ werr' = werr
    BY <1>1, WireFrame
<1>5. TypeOK'
    BY <1>1, <1>3, <1>4, Facts DEF TypeOK
<1>6. Places'
    BY <1>1, <1>2, <1>3, Facts DEF Places, Callers, Closing
<1>7. Closers'
    BY <1>1, <1>2, <1>3, Facts DEF Closers, Callers
<1>8. HandedBack'
    BY <1>1, <1>2, <1>3, Facts DEF HandedBack, Callers, Closing
<1>9. Sealed'
    BY <1>1, <1>2, <1>3, <1>4, Facts DEF Sealed, Callers, Closing
<1>10. Fresh' /\ Upgraded'
    BY <1>1, <1>2, <1>3, <1>4, Facts
       DEF Fresh, Upgraded, Callers, Closing
<1>11. LastItem'
    BY <1>1, <1>2, <1>3, <1>4, Facts DEF LastItem, Callers
<1> QED  BY <1>1, <1>4, <1>5, <1>6, <1>7, <1>8, <1>9, <1>10, <1>11, Facts
         DEF IInv, NoForeignShutdown

\* The winner shuts down a descriptor that is still the connection's.
LEMMA ShutdownStep ==
    ASSUME IInv, NEW p \in Callers, Shutdown(p)
    PROVE  IInv'
<1>1. /\ pc[p] = "shutdown" /\ Go(p, "signal")
      /\ fd' = (IF fd = "open" THEN "shut" ELSE fd)
      /\ foreign' = (foreign \/ fd \notin {"open", "shut"})
      /\ UNCHANGED <<mu, aclosed, done, ctxDone, back>>
      /\ UNCHANGED conn
    BY DEF Shutdown
<1>2. /\ pc' \in [Callers -> Spots \cup Closing] /\ pc'[p] = "signal"
      /\ \A q \in Callers : q # p => pc'[q] = pc[q]
    BY <1>1, Facts, GoFacts DEF Closing
<1>3. /\ WireEndsOnce' /\ (\E S : wire \in Seq(S))'
      /\ wire' = wire /\ closed' = closed /\ werr' = werr
    BY <1>1, WireFrame
<1>4. fd \in {"open", "shut"}
    BY <1>1, Facts DEF HandedBack, Closers, Callers
<1>5. fd' = "shut" /\ ~foreign'
    BY <1>1, <1>4, Facts
<1>6. TypeOK'
    BY <1>1, <1>2, <1>3, <1>5, Facts DEF TypeOK
<1>7. Places'
    BY <1>1, <1>2, Facts DEF Places, Callers, Closing
<1>8. Closers'
    BY <1>1, <1>2, Facts DEF Closers, Callers
<1>9. HandedBack'
    BY <1>1, <1>2, <1>5, Facts DEF HandedBack, Callers
<1>10. Sealed'
    BY <1>1, <1>2, <1>3, <1>5, Facts DEF Sealed, Callers, Closing
<1>11. Fresh' /\ Upgraded'
    BY <1>1, <1>2, <1>3, Facts DEF Fresh, Upgraded, Callers, Closing
<1>12. LastItem'
    BY <1>1, <1>2, <1>3, Facts DEF LastItem, Callers
<1> QED  BY <1>3, <1>5, <1>6, <1>7, <1>8, <1>9, <1>10, <1>11, <1>12
         DEF IInv, NoForeignShutdown

LEMMA AdapterClosedStep ==
    ASSUME IInv, NEW p \in Callers, AdapterClosed(p)
    PROVE  IInv'
<1>1. /\ pc[p] \in {"signal", "await"} /\ done' = TRUE /\ Go(p, back[p])
      /\ pc[p] = "await" => done
      /\ mu' = (IF mu = p THEN "free" ELSE mu)
      /\ UNCHANGED <<aclosed, ctxDone, fd, foreign, back>>
      /\ UNCHANGED conn
    BY Facts DEF AdapterClosed
<1>2. back[p] \in {"return", "wait", "reclaim", "run", "raw"}
    BY <1>1, Facts DEF Places, Callers, Closing
<1>3. /\ pc' \in [Callers -> Spots \cup Closing] /\ pc'[p] = back[p]
      /\ \A q \in Callers : q # p => pc'[q] = pc[q]
    BY <1>1, <1>2, Facts, GoFacts DEF Spots
<1>4. /\ WireEndsOnce' /\ (\E S : wire \in Seq(S))'
      /\ wire' = wire /\ closed' = closed /\ werr' = werr
    BY <1>1, WireFrame
<1>5. aclosed /\ fd # "open"
    BY <1>1, Facts DEF Closers, Sealed
<1>6. \A q \in Callers : q # p => pc[q] \notin {"shutdown", "signal"}
    BY <1>1, Facts DEF Closers, Callers
<1>7. TypeOK'
    BY <1>1, <1>3, <1>4, Facts DEF TypeOK
<1>8. Places'
    BY <1>1, <1>2, <1>3, Facts DEF Places, Callers, Closing
<1>9. Closers'
    BY <1>1, <1>2, <1>3, <1>5, <1>6, Facts DEF Closers, Callers
<1>10. HandedBack'
    BY <1>1, <1>2, <1>3, Facts DEF HandedBack, Callers
<1>11. Sealed'
    BY <1>1, <1>2, <1>3, <1>4, <1>5, <1>6, Facts
       DEF Sealed, Callers, Closing
<1>12. Fresh'
    BY <1>1, <1>2, <1>3, <1>4, Facts DEF Fresh, Places, Callers, Closing
<1>13. Upgraded'
    BY <1>1, <1>2, <1>3, <1>4, Facts DEF Upgraded, Callers, Closing
<1>14. LastItem'
    BY <1>1, <1>2, <1>3, <1>4, Facts DEF LastItem, Callers, Closing
<1> QED  BY <1>1, <1>4, <1>7, <1>8, <1>9, <1>10, <1>11, <1>12, <1>13, <1>14,
            Facts DEF IInv, NoForeignShutdown

-----------------------------------------------------------------------------
(* What is written on the Conn.                                            *)

\* While somebody has the Conn, the wire begins with 101 and may go on.
HasConn == pc["H"] \in {"read", "return"} \/ pc["A"] = "run"

LEMMA OpenEnded ==
    ASSUME IInv, HasConn, mu = "free"
    PROVE  /\ wire # <<>>
           /\ ~werr /\ fd = "open" => wire[Len(wire)][1] \notin Ends
<1>1. wire # <<>>
    BY Facts DEF HasConn, Upgraded
<1>2. wire[Len(wire)][1] # "refused"
    BY <1>1, Facts DEF HasConn, LastItem
<1>3. closed => fd # "open"
    BY Facts DEF Sealed
<1> QED  BY <1>1, <1>2, <1>3, Facts DEF LastItem, Ends

\* Conn.Close by H or A.
LEMMA CloseKeeps ==
    ASSUME IInv, NEW p \in Callers, NEW code, NEW l,
           \/ /\ p = "H" /\ pc["H"] \in {"read", "return"}
              /\ l \in {"return", "wait"}
           \/ p = "A" /\ pc["A"] = "run" /\ l = "run",
           Close(p, code, l), UNCHANGED adapter
    PROVE  IInv'
<1>1. /\ UNCHANGED <<aclosed, done, ctxDone, fd, foreign>> /\ mu = "free"
      /\ HasConn /\ l \in Spots
    BY DEF adapter, Close, HasConn, Spots
<1>2. pc[p] \notin Closing
    BY DEF Closing
<1>3. /\ wire # <<>>
      /\ ~werr /\ fd = "open" => wire[Len(wire)][1] \notin Ends
    BY <1>1, OpenEnded
<1>4. CASE closed
    <2>1. Go(p, l) /\ UNCHANGED <<mu, back>> /\ UNCHANGED conn
        BY <1>4 DEF Close
    <2>2. /\ pc' \in [Callers -> Spots \cup Closing] /\ pc'[p] = l
          /\ \A q \in Callers : q # p => pc'[q] = pc[q]
        BY <1>1, <2>1, Facts, GoFacts
    <2>3. /\ WireEndsOnce' /\ (\E S : wire \in Seq(S))'
          /\ wire' = wire /\ closed' = closed /\ werr' = werr
        BY <2>1, WireFrame
    <2>4. TypeOK'
        BY <1>1, <2>1, <2>2, <2>3, Facts DEF TypeOK
    <2>5. Places' /\ Closers'
        BY <1>1, <2>1, <2>2, Facts DEF Places, Closers, Callers, Closing
    <2>6. HandedBack' /\ Sealed'
        BY <1>1, <2>1, <2>2, <2>3, Facts DEF HandedBack, Sealed, Callers
    <2>7. Fresh' /\ Upgraded' /\ LastItem'
        BY <1>1, <1>3, <2>1, <2>2, <2>3, Facts
           DEF Fresh, Upgraded, LastItem, Callers
    <2> QED  BY <1>1, <2>3, <2>4, <2>5, <2>6, <2>7, Facts
             DEF IInv, NoForeignShutdown
<1>5. CASE ~closed
    <2> DEFINE x == closeFrame(code)
    <2>1. mu' = p /\ closed' = TRUE /\ Written(x) /\ CloseAdapter(p, l)
        BY <1>5 DEF Close
    <2>2. /\ pc' \in [Callers -> Spots \cup Closing] /\ pc'[p] = "swap"
          /\ \A q \in Callers : q # p => pc'[q] = pc[q]
          /\ back' \in [Callers -> Spots \cup {""}] /\ back'[p] = l
          /\ \A q \in Callers : q # p => back'[q] = back[q]
        BY <1>1, <2>1, Facts, AdapterFacts
    <2>3. x[1] = "close"
        BY DEF closeFrame
    <2> HIDE DEF x
    <2>4. /\ WireEndsOnce' /\ werr' \in BOOLEAN /\ (werr => werr')
          /\ \E T : wire' \in Seq(T)
          /\ \/ wire' = wire /\ werr'
             \/ wire' # <<>> /\ wire'[Len(wire')] = x /\ ~werr'
             \/ wire' # <<>> /\ wire'[Len(wire')] = <<"part">> /\ werr'
        BY <1>3, <2>1, <2>3, WriteFacts
    <2>5. TypeOK'
        BY <1>1, <2>1, <2>2, <2>4, Facts DEF TypeOK
    <2>6. Places' /\ Closers'
        BY <1>1, <1>2, <2>2, Facts DEF Places, Closers, Callers, Closing
    <2>7. HandedBack' /\ Sealed'
        BY <1>1, <2>1, <2>2, Facts DEF HandedBack, Sealed, Callers, Closing
    <2>8. Fresh' /\ Upgraded'
        BY <1>1, <1>3, <2>2, <2>4, Facts DEF Fresh, Upgraded, Callers
    <2>9. LastItem'
        <3>1. CASE wire' = wire /\ werr'
            BY <1>1, <1>3, <2>1, <2>2, <3>1, Facts
               DEF LastItem, HasConn, Callers
        <3>2. CASE wire'[Len(wire')] = x
            BY <2>1, <2>3, <3>2 DEF LastItem
        <3>3. CASE wire'[Len(wire')] = <<"part">> /\ werr'
            BY <3>3 DEF LastItem
        <3> QED  BY <2>4, <3>1, <3>2, <3>3
    <2> QED  BY <1>1, <2>4, <2>5, <2>6, <2>7, <2>8, <2>9, Facts
             DEF IInv, NoForeignShutdown
<1> QED  BY <1>4, <1>5, Facts

\* A message or a pong; the reader may give up after it.
LEMMA WriteKeeps ==
    ASSUME IInv, HasConn, mu = "free", NEW x, x[1] \in {"text", "pong"},
           Written(x), UNCHANGED adapter, UNCHANGED <<mu, closed, back>>,
           pc' = pc \/ (pc["H"] = "read" /\ Go("H", "return"))
    PROVE  IInv'
<1>1. UNCHANGED <<aclosed, done, ctxDone, fd, foreign>>
    BY DEF adapter
<1>2. /\ wire # <<>>
      /\ ~werr /\ fd = "open" => wire[Len(wire)][1] \notin Ends
    BY OpenEnded
<1>3. /\ WireEndsOnce' /\ werr' \in BOOLEAN /\ (werr => werr')
      /\ \E T : wire' \in Seq(T)
      /\ \/ wire' = wire /\ werr'
         \/ wire' # <<>> /\ wire'[Len(wire')] = x /\ ~werr'
         \/ wire' # <<>> /\ wire'[Len(wire')] = <<"part">> /\ werr'
    BY <1>2, WriteFacts
<1>4. /\ pc' \in [Callers -> Spots \cup Closing] /\ pc'["A"] = pc["A"]
      /\ \/ pc'["H"] = pc["H"]
         \/ pc["H"] = "read" /\ pc'["H"] = "return"
    BY Facts, GoFacts DEF Callers, Spots
<1>5. TypeOK'
    BY <1>1, <1>3, <1>4, Facts DEF TypeOK
<1>6. Places' /\ Closers'
    BY <1>1, <1>4, Facts DEF Places, Closers, Callers, Closing
<1>7. HandedBack' /\ Sealed'
    BY <1>1, <1>4, Facts DEF HandedBack, Sealed, Callers, Closing
<1>8. Fresh' /\ Upgraded'
    BY <1>1, <1>2, <1>3, <1>4, Facts DEF Fresh, Upgraded, HasConn
<1>9. LastItem'
    <2>1. CASE wire' = wire /\ werr'
        BY <1>1, <1>2, <1>4, <2>1, Facts DEF LastItem, HasConn
    <2>2. CASE wire'[Len(wire')] = x
        BY <2>2 DEF LastItem
    <2>3. CASE wire'[Len(wire')] = <<"part">> /\ werr'
        BY <2>3 DEF LastItem
    <2> QED  BY <1>3, <2>1, <2>2, <2>3
<1> QED  BY <1>1, <1>3, <1>5, <1>6, <1>7, <1>8, <1>9, Facts
         DEF IInv, NoForeignShutdown

\* H gives up reading, or goes on with no effect on the connection.
LEMMA ReadOn ==
    ASSUME IInv, pc["H"] = "read", UNCHANGED conn, UNCHANGED adapter,
           UNCHANGED <<mu, back>>, pc' = pc \/ Go("H", "return")
    PROVE  IInv'
<1>1. UNCHANGED <<aclosed, done, ctxDone, fd, foreign>>
    BY DEF adapter
<1>2. /\ WireEndsOnce' /\ (\E S : wire \in Seq(S))'
      /\ wire' = wire /\ closed' = closed /\ werr' = werr
    BY WireFrame
<1>3. /\ pc' \in [Callers -> Spots \cup Closing] /\ pc'["A"] = pc["A"]
      /\ pc'["H"] \in {"read", "return"}
    BY Facts, GoFacts DEF Callers, Spots
<1>4. TypeOK'
    BY <1>1, <1>2, <1>3, Facts DEF TypeOK
<1>5. Places' /\ Closers'
    BY <1>1, <1>3, Facts DEF Places, Closers, Callers, Closing
<1>6. HandedBack' /\ Sealed'
    BY <1>1, <1>2, <1>3, Facts DEF HandedBack, Sealed, Callers, Closing
<1>7. Fresh' /\ Upgraded' /\ LastItem'
    BY <1>1, <1>2, <1>3, Facts DEF Fresh, Upgraded, LastItem
<1> QED  BY <1>1, <1>2, <1>4, <1>5, <1>6, <1>7, Facts
         DEF IInv, NoForeignShutdown

-----------------------------------------------------------------------------
(* The steps of H.                                                         *)

LEMMA RejectStep ==
    ASSUME IInv, Reject
    PROVE  IInv'
<1>1. /\ pc["H"] = "upgrade" /\ Go("H", "reclaim")
      /\ UNCHANGED <<aclosed, done, ctxDone, fd, foreign>>
      /\ UNCHANGED <<mu, closed, werr, back>>
    BY DEF Reject, adapter
<1>2. /\ pc["A"] = "absent" /\ wire = <<>> /\ mu = "free" /\ ~closed /\ ~werr
    BY <1>1, Facts DEF Fresh
<1>3. /\ pc' \in [Callers -> Spots \cup Closing] /\ pc'["H"] = "reclaim"
      /\ pc'["A"] = "absent"
    BY <1>1, <1>2, Facts, GoFacts DEF Callers, Spots
<1>4. /\ WireEndsOnce' /\ \E S : wire' \in Seq(S)
      /\ wire' = wire \/ (wire' # <<>> /\ wire'[Len(wire')][1] = "refused")
    <2>1. \/ wire' = wire
          \/ \E status : wire' = Append(wire, Buffered(status))
        BY DEF Reject
    <2>2. CASE wire' = wire
        BY <2>2, Facts DEF WireEndsOnce
    <2>3. CASE \E status : wire' = Append(wire, Buffered(status))
        <3>1. PICK status : wire' = Append(wire, Buffered(status))
            BY <2>3
        <3> DEFINE x == Buffered(status)
        <3>2. x[1] = "refused"
            BY DEF Buffered
        <3>3. wire' = Append(wire, x)
            BY <3>1
        <3> HIDE DEF x
        <3>4. PICK S : wire \in Seq(S)
            BY Facts
        <3>5. /\ WireEndsOnce' /\ wire' # <<>> /\ wire'[Len(wire')] = x
              /\ \E T : wire' \in Seq(T)
            BY <1>2, <3>2, <3>3, <3>4, Facts, AppendWire
        <3> QED  BY <3>2, <3>5
    <2> QED  BY <2>1, <2>2, <2>3
<1>5. TypeOK'
    BY <1>1, <1>3, <1>4, Facts DEF TypeOK
<1>6. Places' /\ Closers'
    BY <1>1, <1>3, Facts DEF Places, Closers, Callers, Closing
<1>7. HandedBack' /\ Sealed'
    BY <1>1, <1>2, <1>3, Facts DEF HandedBack, Sealed, Callers
<1>8. Fresh' /\ Upgraded'
    BY <1>3 DEF Fresh, Upgraded, Closing
<1>9. LastItem'
    BY <1>2, <1>3, <1>4 DEF LastItem
<1> QED  BY <1>1, <1>4, <1>5, <1>6, <1>7, <1>8, <1>9, Facts
         DEF IInv, NoForeignShutdown

LEMMA UpgradeStep ==
    ASSUME IInv, Upgrade
    PROVE  IInv'
<1> DEFINE x == <<"101">>
<1>1. /\ pc["H"] = "upgrade" /\ Written(x)
      /\ UNCHANGED <<aclosed, done, ctxDone, fd, foreign, mu, closed>>
    BY DEF Upgrade, adapter
<1>2. /\ pc["A"] = "absent" /\ wire = <<>> /\ mu = "free" /\ ~closed /\ ~werr
    BY <1>1, Facts DEF Fresh
<1>3. x[1] = "101"
    OBVIOUS
<1> HIDE DEF x
<1>4. /\ WireEndsOnce' /\ werr' \in BOOLEAN
      /\ \E T : wire' \in Seq(T)
      /\ \/ wire' = wire /\ werr'
         \/ wire' # <<>> /\ wire'[Len(wire')] = x /\ ~werr'
         \/ wire' # <<>> /\ wire'[Len(wire')] = <<"part">> /\ werr'
    BY <1>1, <1>2, <1>3, WriteFacts
<1>5. LastItem'
    <2>1. CASE wire' = wire
        BY <1>2, <2>1 DEF LastItem
    <2>2. CASE wire'[Len(wire')] = x
        BY <1>3, <2>2 DEF LastItem
    <2>3. CASE wire'[Len(wire')] = <<"part">> /\ werr'
        BY <2>3 DEF LastItem
    <2> QED  BY <1>4, <2>1, <2>2, <2>3
<1>6. CASE werr'
    <2>1. CloseAdapter("H", "wait")
        BY <1>6 DEF Upgrade
    <2>2. /\ pc' \in [Callers -> Spots \cup Closing] /\ pc'["H"] = "swap"
          /\ pc'["A"] = "absent"
          /\ back' \in [Callers -> Spots \cup {""}] /\ back'["H"] = "wait"
          /\ back'["A"] = back["A"]
        BY <1>2, <2>1, Facts, AdapterFacts DEF Callers, Spots
    <2>3. TypeOK'
        BY <1>1, <1>4, <2>2, Facts DEF TypeOK
    <2>4. Places' /\ Closers'
        BY <1>1, <2>2, Facts DEF Places, Closers, Callers, Closing
    <2>5. HandedBack' /\ Sealed'
        BY <1>1, <1>2, <2>2, Facts DEF HandedBack, Sealed, Callers
    <2>6. Fresh' /\ Upgraded'
        BY <2>2 DEF Fresh, Upgraded, Closing
    <2> QED  BY <1>1, <1>4, <1>5, <2>3, <2>4, <2>5, <2>6, Facts
             DEF IInv, NoForeignShutdown
<1>7. CASE ~werr'
    <2>1. pc' = [H |-> "read", A |-> "run"] /\ UNCHANGED back
        BY <1>7 DEF Upgrade
    <2>2. /\ pc' \in [Callers -> Spots \cup Closing] /\ pc'["H"] = "read"
          /\ pc'["A"] = "run"
        BY <2>1 DEF Callers, Spots
    <2>3. wire' # <<>>
        BY <1>4, <1>7
    <2>4. TypeOK'
        BY <1>1, <1>4, <2>1, <2>2, Facts DEF TypeOK
    <2>5. Places' /\ Closers'
        BY <1>1, <2>2, Facts DEF Places, Closers, Callers, Closing
    <2>6. HandedBack' /\ Sealed'
        BY <1>1, <1>2, <2>2, Facts DEF HandedBack, Sealed, Callers
    <2>7. Fresh' /\ Upgraded'
        BY <2>2, <2>3 DEF Fresh, Upgraded
    <2> QED  BY <1>1, <1>4, <1>5, <2>4, <2>5, <2>6, <2>7, Facts
             DEF IInv, NoForeignShutdown
<1> QED  BY <1>4, <1>6, <1>7

LEMMA HijackStep ==
    ASSUME IInv, Hijack
    PROVE  IInv'
<1>1. /\ pc["H"] = "upgrade" /\ pc' = [H |-> "wait", A |-> "raw"]
      /\ UNCHANGED <<aclosed, done, ctxDone, fd, foreign, mu, back>>
      /\ UNCHANGED conn
    BY DEF Hijack, adapter
<1>2. /\ pc["A"] = "absent" /\ wire = <<>> /\ mu = "free" /\ ~closed
    BY <1>1, Facts DEF Fresh
<1>3. /\ pc' \in [Callers -> Spots \cup Closing] /\ pc'["H"] = "wait"
      /\ pc'["A"] = "raw"
    BY <1>1 DEF Callers, Spots
<1>4. /\ WireEndsOnce' /\ (\E S : wire \in Seq(S))'
      /\ wire' = wire /\ closed' = closed /\ werr' = werr
    BY <1>1, WireFrame
<1>5. TypeOK'
    BY <1>1, <1>3, <1>4, Facts DEF TypeOK
<1>6. Places' /\ Closers'
    BY <1>1, <1>3, Facts DEF Places, Closers, Callers, Closing
<1>7. HandedBack' /\ Sealed'
    BY <1>1, <1>2, <1>3, <1>4, Facts DEF HandedBack, Sealed, Callers
<1>8. Fresh' /\ Upgraded' /\ LastItem'
    BY <1>2, <1>3, <1>4 DEF Fresh, Upgraded, LastItem, Closing
<1> QED  BY <1>1, <1>4, <1>5, <1>6, <1>7, <1>8, Facts
         DEF IInv, NoForeignShutdown

\* What a frame does to the connection.
LEMMA ReadEffect ==
    ASSUME ReadMessage
    PROVE  /\ pc["H"] = "read" /\ UNCHANGED adapter
           /\ \/ /\ UNCHANGED conn /\ UNCHANGED <<mu, back>>
                 /\ pc' = pc \/ Go("H", "return")
              \/ \E code : Close("H", code, "return")
              \/ /\ mu = "free" /\ UNCHANGED <<mu, closed, back>>
                 /\ \E x : x[1] = "pong" /\ Written(x)
                 /\ pc' = pc \/ Go("H", "return")
<1> DEFINE f == Head(in)
           r == readFrame(f)
           Quiet == /\ UNCHANGED conn /\ UNCHANGED <<mu, back>>
                    /\ pc' = pc \/ Go("H", "return")
           Closes == \E code : Close("H", code, "return")
           Pongs == /\ mu = "free" /\ UNCHANGED <<mu, closed, back>>
                    /\ \E x : x[1] = "pong" /\ Written(x)
                    /\ pc' = pc \/ Go("H", "return")
<1>1. pc["H"] = "read" /\ UNCHANGED adapter
    BY DEF ReadMessage
<1>2. ASSUME Fail PROVE Quiet
    BY <1>2 DEF Fail
<1>3. ASSUME NEW g, ReadPing(g) PROVE Closes \/ Pongs
    <2>1. CASE Close("H", ClosePolicyViolation, "return")
        BY <2>1
    <2>2. CASE /\ Written(<<"pong", g.data>>)
               /\ IF werr' THEN Go("H", "return") ELSE UNCHANGED pc
               /\ UNCHANGED <<closed, mu, back>>
        <3> DEFINE x == <<"pong", g.data>>
        <3>1. x[1] = "pong" /\ Written(x)
            BY <2>2
        <3> QED  BY <1>3, <2>2, <3>1 DEF ReadPing
    <2> QED  BY <1>3, <2>1, <2>2 DEF ReadPing
<1>4. ASSUME NEW g, ReadClose(g) PROVE Closes
    BY <1>4 DEF ReadClose
<1>5. ASSUME NEW m, Deliver(m) PROVE Closes \/ Quiet
    BY <1>5 DEF Deliver, conn
<1>6. ASSUME NEW g, ReadData(g) PROVE Closes \/ Quiet
    BY <1>5, <1>6 DEF ReadData, conn
<1>7. r \in {"malformed", "exceeds max size", "ok"}
    BY DEF readFrame
<1>8. r = "ok" => f.op \in {0, Text, Binary, CloseOp, Ping, Pong}
    BY DEF readFrame
<1>9. /\ f.op = Ping => f.op # Pong /\ f.op # CloseOp /\ ~(f.op < 8)
      /\ f.op = Pong => f.op # Ping /\ f.op # CloseOp /\ ~(f.op < 8)
      /\ f.op = CloseOp => f.op # Ping /\ f.op # Pong /\ ~(f.op < 8)
      /\ f.op \in {0, Text, Binary} =>
            f.op # Ping /\ f.op # Pong /\ f.op # CloseOp /\ f.op < 8
    BY DEF Ping, Pong, CloseOp, Text, Binary
<1>10. CASE r = "malformed" \/ (r = "exceeds max size" /\ msg # <<>>)
    <2>1. Fail
        BY <1>10 DEF ReadMessage
    <2> QED  BY <1>1, <1>2, <2>1
<1>11. CASE r = "exceeds max size" /\ msg = <<>>
    <2>1. Close("H", CloseMessageTooBig, "return")
        BY <1>11 DEF ReadMessage
    <2> QED  BY <1>1, <2>1
<1>12. CASE r = "ok" /\ ~f.masked
    <2>1. Close("H", CloseProtocolError, "return")
        BY <1>12 DEF ReadMessage
    <2> QED  BY <1>1, <2>1
<1>13. CASE r = "ok" /\ f.masked /\ f.op = Ping
    <2>1. ReadPing(f)
        BY <1>9, <1>13, Zenon DEF ReadMessage
    <2> QED  BY <1>1, <1>3, <2>1
<1>14. CASE r = "ok" /\ f.masked /\ f.op = Pong
    <2>1. UNCHANGED <<conn, mu, back, pc>>
        BY <1>9, <1>14, Zenon DEF ReadMessage
    <2> QED  BY <1>1, <2>1
<1>15. CASE r = "ok" /\ f.masked /\ f.op = CloseOp
    <2>1. ReadClose(f)
        BY <1>9, <1>15, Zenon DEF ReadMessage
    <2> QED  BY <1>1, <1>4, <2>1
<1>16. CASE r = "ok" /\ f.masked /\ f.op \in {0, Text, Binary}
    <2>1. ReadData(f)
        BY <1>9, <1>16, Zenon DEF ReadMessage
    <2> QED  BY <1>1, <1>6, <2>1
<1> QED  BY <1>7, <1>8, <1>10, <1>11, <1>12, <1>13, <1>14, <1>15, <1>16

LEMMA ReadMessageStep ==
    ASSUME IInv, ReadMessage
    PROVE  IInv'
<1>1. pc["H"] = "read" /\ UNCHANGED adapter /\ HasConn
    BY ReadEffect DEF HasConn
<1>2. CASE /\ UNCHANGED conn /\ UNCHANGED <<mu, back>>
           /\ pc' = pc \/ Go("H", "return")
    BY <1>1, <1>2, ReadOn
<1>3. CASE \E code : Close("H", code, "return")
    <2> DEFINE p == "H"
               l == "return"
    <2>1. PICK code : Close(p, code, l)
        BY <1>3
    <2>2. p \in Callers /\ p = "H" /\ l \in {"return", "wait"}
        BY DEF Callers
    <2> HIDE DEF p, l
    <2> QED  BY <1>1, <2>1, <2>2, CloseKeeps
<1>4. CASE /\ mu = "free" /\ UNCHANGED <<mu, closed, back>>
           /\ \E x : x[1] = "pong" /\ Written(x)
           /\ pc' = pc \/ Go("H", "return")
    <2>1. PICK x : x[1] = "pong" /\ Written(x)
        BY <1>4
    <2> QED  BY <1>1, <1>4, <2>1, WriteKeeps
<1> QED  BY <1>2, <1>3, <1>4, ReadEffect

LEMMA ReadErrorStep ==
    ASSUME IInv, ReadError
    PROVE  IInv'
    BY ReadOn DEF ReadError, Fail

LEMMA HandlerReturnsStep ==
    ASSUME IInv, HandlerReturns
    PROVE  IInv'
<1> DEFINE p == "H"
           l == "wait"
<1>1. /\ pc["H"] = "return" /\ UNCHANGED adapter
      /\ Close(p, CloseGoingAway, l)
    BY DEF HandlerReturns
<1>2. p \in Callers /\ p = "H" /\ l \in {"return", "wait"}
    BY DEF Callers
<1> HIDE DEF p, l
<1> QED  BY <1>1, <1>2, CloseKeeps

LEMMA TakeoverStep ==
    ASSUME IInv, Takeover
    PROVE  IInv'
<1>1. /\ pc["H"] = "wait" /\ UNCHANGED conn
      /\ UNCHANGED <<aclosed, done, ctxDone, fd, foreign, mu>>
    BY DEF Takeover, adapter
<1>2. /\ WireEndsOnce' /\ (\E S : wire \in Seq(S))'
      /\ wire' = wire /\ closed' = closed /\ werr' = werr
    BY <1>1, WireFrame
<1>3. /\ pc' \in [Callers -> Spots \cup Closing] /\ pc'["A"] = pc["A"]
      /\ back' \in [Callers -> Spots \cup {""}] /\ back'["A"] = back["A"]
      /\ \/ done /\ pc'["H"] = "reclaim" /\ back' = back
         \/ pc'["H"] = "swap" /\ back'["H"] = "reclaim"
    <2>1. CASE done /\ Go("H", "reclaim") /\ UNCHANGED back
        BY <2>1, Facts, GoFacts DEF Callers, Spots
    <2>2. CASE CloseAdapter("H", "reclaim")
        BY <2>2, Facts, AdapterFacts DEF Callers, Spots
    <2> QED  BY <2>1, <2>2 DEF Takeover
<1>4. TypeOK'
    BY <1>1, <1>2, <1>3, Facts DEF TypeOK
<1>5. Places' /\ Closers'
    BY <1>1, <1>3, Facts DEF Places, Closers, Callers, Closing
<1>6. HandedBack'
    BY <1>1, <1>3, Facts DEF HandedBack
<1>7. Sealed'
    BY <1>1, <1>2, <1>3, Facts DEF Sealed, Callers, Closing
<1>8. Fresh' /\ Upgraded' /\ LastItem'
    BY <1>1, <1>2, <1>3, Facts DEF Fresh, Upgraded, LastItem, Closing
<1> QED  BY <1>1, <1>2, <1>4, <1>5, <1>6, <1>7, <1>8, Facts
         DEF IInv, NoForeignShutdown

LEMMA CloseFdStep ==
    ASSUME IInv, CloseFd
    PROVE  IInv'
<1>1. /\ pc["H"] = "reclaim" /\ Go("H", "end") /\ fd' = "closed"
      /\ UNCHANGED <<aclosed, done, ctxDone, foreign, mu, back>>
      /\ UNCHANGED conn
    BY DEF CloseFd
<1>2. /\ WireEndsOnce' /\ (\E S : wire \in Seq(S))'
      /\ wire' = wire /\ closed' = closed /\ werr' = werr
    BY <1>1, WireFrame
<1>3. /\ pc' \in [Callers -> Spots \cup Closing] /\ pc'["H"] = "end"
      /\ pc'["A"] = pc["A"]
    BY <1>1, Facts, GoFacts DEF Callers, Spots
<1>4. TypeOK'
    BY <1>1, <1>2, <1>3, Facts DEF TypeOK
<1>5. Places' /\ Closers'
    BY <1>1, <1>3, Facts DEF Places, Closers, Callers, Closing
<1>6. HandedBack' /\ Sealed'
    BY <1>1, <1>3, Facts DEF HandedBack, Sealed
<1>7. Fresh' /\ Upgraded' /\ LastItem'
    BY <1>1, <1>2, <1>3, Facts DEF Fresh, Upgraded, LastItem, Closing
<1> QED  BY <1>1, <1>2, <1>4, <1>5, <1>6, <1>7, Facts
         DEF IInv, NoForeignShutdown

\* The kernel reuses the number, or the server cancels the context.
LEMMA FdKeeps ==
    ASSUME IInv, UNCHANGED conn, ctxDone' \in BOOLEAN,
           UNCHANGED <<aclosed, done, foreign, mu, pc, back>>,
           \/ fd' = fd
           \/ fd = "open" /\ fd' = "shut"
           \/ fd = "closed" /\ fd' = "reused"
    PROVE  IInv'
<1>1. /\ WireEndsOnce' /\ (\E S : wire \in Seq(S))'
      /\ wire' = wire /\ closed' = closed /\ werr' = werr
    BY WireFrame
<1>2. TypeOK'
    BY <1>1, Facts DEF TypeOK
<1>3. Places' /\ Closers'
    BY Facts DEF Places, Closers
<1>4. HandedBack' /\ Sealed'
    BY <1>1, Facts DEF HandedBack, Sealed
<1>5. Fresh' /\ Upgraded' /\ LastItem'
    BY <1>1, Facts DEF Fresh, Upgraded, LastItem
<1> QED  BY <1>1, <1>2, <1>3, <1>4, <1>5, Facts DEF IInv, NoForeignShutdown

LEMMA RecycleStep ==
    ASSUME IInv, Recycle
    PROVE  IInv'
    BY Facts, FdKeeps DEF Recycle

LEMMA CancelStep ==
    ASSUME IInv, Cancel
    PROVE  IInv'
    BY Facts, FdKeeps DEF Cancel

-----------------------------------------------------------------------------
(* The steps of A.                                                         *)

LEMMA WriteMessageStep ==
    ASSUME IInv, WriteMessage
    PROVE  IInv'
<1>1. /\ pc["A"] = "run" /\ mu = "free" /\ UNCHANGED adapter
      /\ UNCHANGED <<mu, pc, back>> /\ HasConn
    BY DEF WriteMessage, HasConn
<1>2. CASE closed
    <2>1. UNCHANGED conn
        BY <1>2 DEF WriteMessage
    <2> QED  BY <1>1, <2>1, Facts, FdKeeps DEF adapter
<1>3. CASE ~closed
    <2> DEFINE x == <<"text", ops>>
    <2>1. Written(x) /\ closed' = closed /\ x[1] = "text"
        BY <1>3 DEF WriteMessage
    <2> HIDE DEF x
    <2> QED  BY <1>1, <2>1, WriteKeeps
<1> QED  BY <1>2, <1>3

LEMMA AppCloseStep ==
    ASSUME IInv, AppClose
    PROVE  IInv'
<1> DEFINE p == "A"
           l == "run"
<1>1. /\ pc["A"] = "run" /\ UNCHANGED adapter
      /\ Close(p, CloseGoingAway, l)
    BY DEF AppClose
<1>2. p \in Callers /\ p = "A" /\ l = "run"
    BY DEF Callers
<1> HIDE DEF p, l
<1> QED  BY <1>1, <1>2, CloseKeeps

LEMMA RawCloseStep ==
    ASSUME IInv, RawClose
    PROVE  IInv'
<1>1. /\ pc["A"] = "raw" /\ CloseAdapter("A", "raw")
      /\ UNCHANGED <<aclosed, done, ctxDone, fd, foreign, mu>>
      /\ UNCHANGED conn
    BY DEF RawClose, adapter
<1>2. /\ WireEndsOnce' /\ (\E S : wire \in Seq(S))'
      /\ wire' = wire /\ closed' = closed /\ werr' = werr
    BY <1>1, WireFrame
<1>3. /\ pc' \in [Callers -> Spots \cup Closing] /\ pc'["A"] = "swap"
      /\ pc'["H"] = pc["H"]
      /\ back' \in [Callers -> Spots \cup {""}] /\ back'["A"] = "raw"
      /\ back'["H"] = back["H"]
    BY <1>1, Facts, AdapterFacts DEF Callers, Spots
<1>4. TypeOK'
    BY <1>1, <1>2, <1>3, Facts DEF TypeOK
<1>5. Places' /\ Closers'
    BY <1>1, <1>3, Facts DEF Places, Closers, Callers, Closing
<1>6. HandedBack' /\ Sealed'
    BY <1>1, <1>2, <1>3, Facts DEF HandedBack, Sealed, Callers, Closing
<1>7. Fresh' /\ Upgraded' /\ LastItem'
    BY <1>1, <1>2, <1>3, Facts DEF Fresh, Upgraded, LastItem, Closing
<1> QED  BY <1>1, <1>2, <1>4, <1>5, <1>6, <1>7, Facts
         DEF IInv, NoForeignShutdown

-----------------------------------------------------------------------------
LEMMA InitHolds == WSInit => IInv
<1> SUFFICES ASSUME WSInit PROVE IInv
    OBVIOUS
<1>1. /\ wire = <<>> /\ mu = "free" /\ closed = FALSE /\ werr = FALSE
      /\ aclosed = FALSE /\ done = FALSE /\ ctxDone = FALSE
      /\ fd = "open" /\ foreign = FALSE
    BY DEF WSInit
<1>2. /\ pc \in [Callers -> Spots \cup Closing] /\ pc["H"] = "upgrade"
      /\ pc["A"] = "absent" /\ back \in [Callers -> Spots \cup {""}]
    <2>1. pc \in [Callers -> Spots \cup Closing]
        <3>1. pc = [H |-> "upgrade", A |-> "absent"]
            BY DEF WSInit
        <3> QED  BY <3>1 DEF Callers, Spots
    <2>2. pc["H"] = "upgrade" /\ pc["A"] = "absent"
        BY DEF WSInit
    <2>3. back \in [Callers -> Spots \cup {""}]
        <3> DEFINE B == Spots \cup {""}
                   e == ""
        <3>1. back = [H |-> e, A |-> e] /\ e \in B
            BY DEF WSInit
        <3> HIDE DEF B, e
        <3>2. back \in [Callers -> B]
            BY <3>1 DEF Callers
        <3> QED  BY <3>2 DEF B
    <2> QED  BY <2>1, <2>2, <2>3
<1>3. wire \in Seq(Nat) /\ Len(wire) = 0
    BY <1>1, EmptySeq
<1>4. TypeOK
    BY <1>1, <1>2, <1>3 DEF TypeOK
<1>5. Places /\ Closers
    BY <1>1, <1>2 DEF Places, Closers, Callers, Closing
<1>6. HandedBack /\ Sealed
    BY <1>1, <1>2 DEF HandedBack, Sealed, Callers
<1>7. Fresh /\ Upgraded /\ LastItem
    BY <1>1, <1>2 DEF Fresh, Upgraded, LastItem, Closing
<1>8. WireEndsOnce
    <2>1. DOMAIN wire = 1..0
        BY <1>3, LenProperties
    <2> QED  BY <2>1 DEF WireEndsOnce
<1> QED  BY <1>1, <1>4, <1>5, <1>6, <1>7, <1>8 DEF IInv, NoForeignShutdown

LEMMA StepKeeps == IInv /\ [WSNext]_wsvars => IInv'
<1> SUFFICES ASSUME IInv, [WSNext]_wsvars PROVE IInv'
    OBVIOUS
<1>1. CASE UNCHANGED wsvars
    <2>1. UNCHANGED conn /\ UNCHANGED adapter /\ UNCHANGED <<mu, pc, back>>
        BY <1>1 DEF wsvars, conn, adapter
    <2> QED  BY <2>1, Facts, FdKeeps DEF adapter
<1>2. CASE \E p \in Callers : Swap(p) \/ Shutdown(p) \/ AdapterClosed(p)
    BY <1>2, SwapStep, ShutdownStep, AdapterClosedStep
<1>3. CASE \/ Reject \/ Upgrade \/ Hijack \/ ReadMessage \/ ReadError
           \/ HandlerReturns \/ Takeover \/ CloseFd \/ Recycle
    BY <1>3, RejectStep, UpgradeStep, HijackStep, ReadMessageStep,
       ReadErrorStep, HandlerReturnsStep, TakeoverStep, CloseFdStep,
       RecycleStep
<1>4. CASE WriteMessage \/ AppClose \/ RawClose \/ Cancel
    BY <1>4, WriteMessageStep, AppCloseStep, RawCloseStep, CancelStep
<1> QED  BY <1>1, <1>2, <1>3, <1>4 DEF WSNext, Callers

\* wing_ws.go, wingHijackConn.Close: whichever of the handler, the
\* application's goroutine and the server's shutdown closes the connection,
\* and however often, Shutdown is only called while the number is still the
\* connection's; the loser of the Swap that waits on done is what makes it so.
THEOREM NeverForeign == WSSpec => []NoForeignShutdown
<1>1. IInv => NoForeignShutdown
    BY DEF IInv
<1> QED  BY <1>1, InitHolds, StepKeeps, PTL DEF WSSpec

\* contrib/ws/conn.go: the answer to the upgrade is the first thing on the
\* wire, and a close frame, a refusal or a frame cut short the last, for any
\* frames of the client and any number of calls of the application; a pong
\* that is written without a look at closed does not get through.
THEOREM WireEnds == WSSpec => []WireEndsOnce
<1>1. IInv => WireEndsOnce
    BY DEF IInv
<1> QED  BY <1>1, InitHolds, StepKeeps, PTL DEF WSSpec
=============================================================================
