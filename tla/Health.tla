------------------------------ MODULE Health ------------------------------
(***************************************************************************)
(* health.go: discoverHealthCheckers and runHealthChecks.  Every checker   *)
(* runs in a goroutine of its own and sends its result on a channel with   *)
(* room for all; the request's goroutine collects until all have answered  *)
(* or the deadline passes.  A checker that ignores the context may answer  *)
(* late or never.  Results are kept by name, and two checkers may have the *)
(* same one.                                                               *)
(***************************************************************************)
EXTENDS Naturals, FiniteSets, Sequences, TLC

CONSTANTS
    Entries,   \* what the container may hold: [slot, name, inst] records
    Checkers   \* the instances that implement HealthChecker

VARIABLES
    checkers,  \* the checkers this request runs, as [name, inst] records
    pending,   \* checkers whose Check has not returned
    ch,        \* results in the channel
    turns,     \* turns of the collecting loop that are left
    results,   \* results collected, by name
    expired,   \* the context is done
    said,      \* history: what each checker has answered
    early,     \* history: said, when the deadline passed
    reply      \* the response: 0 (none yet), 200 or 503

healthvars == <<checkers, pending, ch, turns, results, expired, said, early, reply>>

Outcomes == {"ok", "failed"}
NoAnswer == << >>
Names == {k.name : k \in checkers}

\* The slots in the order they are searched.  A singleton and a built lazy
\* are named by the short name of their type, a named instance by its name.
Slots == <<"singleton", "lazy", "named">>

\* The seen map: an instance is checked once, under the slot searched first.
\* Within one slot the maps have no order, so either of two names may be
\* the one it gets.  A lazy that is not built is not looked at.  (A value
\* that cannot be a map key is checked for every entry: to the model it is
\* a different instance in each.)
FirstFound(entries, e) ==
    \E i \in DOMAIN Slots :
        /\ e.slot = Slots[i]
        /\ \A x \in entries, j \in 1 .. i - 1 : ~(x.inst = e.inst /\ x.slot = Slots[j])
discoverHealthCheckers(entries) ==
    LET found == {[name |-> e.name, inst |-> e.inst] :
                     e \in {x \in entries : x.inst \in Checkers /\ FirstFound(entries, x)}}
    IN  {s \in SUBSET found : \A i \in {k.inst : k \in found} :
                                 Cardinality({k \in s : k.inst = i}) = 1}

HealthInit ==
    \E entries \in SUBSET Entries :
        /\ checkers \in discoverHealthCheckers(entries)
        /\ pending = checkers /\ turns = Cardinality(checkers)
        /\ ch = <<>> /\ results = << >> /\ expired = FALSE
        /\ said = NoAnswer /\ early = NoAnswer
        /\ reply = IF checkers = {} THEN 200 ELSE 0

\* A checker's goroutine answers, in time or not.
Check(k, out) ==
    /\ k \in pending
    /\ pending' = pending \ {k}
    /\ ch' = Append(ch, [name |-> k.name, err |-> out])
    /\ said' = said @@ (k :> out)
    /\ UNCHANGED <<checkers, turns, results, expired, early, reply>>

\* context.WithTimeout, or the client's own context.
Deadline ==
    /\ ~expired /\ reply = 0
    /\ expired' = TRUE
    /\ early' = said
    /\ UNCHANGED <<checkers, pending, ch, turns, results, said, reply>>

\* results[r.name] = ... for one result: a later one replaces an earlier.
Put(res, m) == (m.name :> m.err) @@ res

\* case r := <-ch, one of as many turns as there are checkers.
Receive ==
    /\ reply = 0 /\ ch # <<>> /\ turns > 0
    /\ results' = Put(results, Head(ch))
    /\ ch' = Tail(ch)
    /\ turns' = turns - 1
    /\ UNCHANGED <<checkers, pending, expired, said, early, reply>>

\* case <-ctx.Done(): take what is in the channel, leave the loop.
DrainNothing(res, msgs) == res                       \* mutant
DrainAll(res, msgs) ==
    LET names == {msgs[i].name : i \in DOMAIN msgs}
        last(n) == CHOOSE i \in DOMAIN msgs :
                      msgs[i].name = n /\ \A j \in i + 1 .. Len(msgs) : msgs[j].name # n
    IN  [n \in names |-> msgs[last(n)].err] @@ res
TimeOut ==
    /\ reply = 0 /\ expired /\ turns > 0
    /\ results' = DrainAll(results, ch)
    /\ ch' = <<>>
    /\ turns' = 0
    /\ UNCHANGED <<checkers, pending, expired, said, early, reply>>

\* The names without a result are labelled, and the response is rendered.
Labelled(res) == res @@ [n \in Names \ DOMAIN res |-> "health check timed out"]
renderHealthResponse ==
    /\ reply = 0 /\ turns = 0
    /\ results' = Labelled(results)
    /\ reply' = IF \A n \in Names : results'[n] = "ok" THEN 200 ELSE 503
    /\ UNCHANGED <<checkers, pending, ch, turns, expired, said, early>>

HealthNext ==
    \/ \E k \in checkers, out \in Outcomes : Check(k, out)
    \/ Deadline \/ Receive \/ TimeOut \/ renderHealthResponse

Namesakes(k) == {x \in checkers : x.name = k.name}

\* The select picks either case when both are ready, and the loop may be
\* left with results still in the channel; still
\*  - a checker that had answered when the deadline passed is not reported
\*    as timed out, and a checker with a name of its own is reported with
\*    its own answer;
\*  - without a deadline the reply waits for every checker, and 503 means
\*    that some checker failed or had not answered in time;
\*  - 200 means that for every name some checker of that name said ok, so
\*    that, where no two share a name, every checker said so.
\* More cannot be said: of two checkers with one name (two types with the
\* same short name, or a name that is also a type's) the last answer
\* collected decides, and one that failed or never answered may be hidden
\* behind an ok.
HealthExact ==
    (reply # 0 /\ checkers # {}) =>
        /\ \A k \in DOMAIN early :
              /\ results[k.name] \in {said[x] : x \in Namesakes(k) \cap DOMAIN said}
              /\ Namesakes(k) = {k} => results[k.name] = early[k]
        /\ ~expired => pending = {}
        /\ reply = 503 => \/ \E k \in DOMAIN said : said[k] = "failed"
                          \/ expired /\ DOMAIN early # checkers
        /\ reply = 200 => \A k \in checkers :
                              \E x \in Namesakes(k) \cap DOMAIN said : said[x] = "ok"
=============================================================================
