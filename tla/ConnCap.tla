------------------------------ MODULE ConnCap ------------------------------
(***************************************************************************)
(* What the accept-side limits of the Wing transport promise to whoever    *)
(* sized the server: a set of admitted connections that never outgrows the *)
(* configured cap.  Workers, counters and races are not mentioned here;    *)
(* WingAdmission is shown to implement this specification.                 *)
(***************************************************************************)
EXTENDS Integers, FiniteSets

CONSTANTS Ids,      \* everything that can identify an admitted connection
          MaxConns  \* the configured total cap, 0 for unlimited

VARIABLE live       \* the connections admitted now

Init == live = {}

\* A connection is admitted only while there is room under the cap.
Admit == \E c \in Ids \ live :
           /\ MaxConns > 0 => Cardinality(live) < MaxConns
           /\ live' = live \cup {c}

\* A connection is released exactly once.
Release == \E c \in live : live' = live \ {c}

Next == Admit \/ Release

Spec == Init /\ [][Next]_live
=============================================================================
