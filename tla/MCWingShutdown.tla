--------------------------- MODULE MCWingShutdown ---------------------------
(* Setups in which the shutdown of WingShutdown is explored. *)
EXTENDS WingShutdown

\* Every dispatch, a queue that saturates, room in doneCh for every conn.
Roomy == [jobCap |-> 1, doneCap |-> 3,
          dispatches |-> {"Pool", "Spawn", "Takeover"}]

\* Spawn and Takeover with a doneCh that fills at once.
Tight == [jobCap |-> 1, doneCap |-> 1, dispatches |-> {"Spawn", "Takeover"}]

SoundSetups == {Roomy, Tight}

\* Pool with a doneCh that fills at once.
FullSetups == {[jobCap |-> 2, doneCap |-> 1, dispatches |-> {"Pool"}]}
=============================================================================
