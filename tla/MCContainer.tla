---------------------------- MODULE MCContainer ----------------------------
(* Containers in which the resolutions of Container are explored. *)
EXTENDS Container

\* What holds of the three services "a", "b" and "c".
Each(x, y, z) ==
  [t \in Types |-> CASE t = "a" -> x [] t = "b" -> y [] t = "c" -> z]

\* A lazy service on two others, one of them lazy on the third.
Chain ==
  [kind   |-> Each("lazy", "lazy", "singleton"),
   deps   |-> Each(<<"b", "c">>, <<"c">>, <<>>),
   users  |-> Goroutines, warmup |-> TRUE,
   sds    |-> Types, given |-> <<"c">>, lazily |-> {"a", "b"},
   maxCalls |-> 2, maxFails |-> 1, maxStarts |-> 0]

\* Two lazy services, one through a transient.
Through ==
  [Chain EXCEPT !.kind = Each("lazy", "transient", "lazy"),
                !.deps = Each(<<"b">>, <<"c">>, <<>>),
                !.given = <<>>, !.lazily = Types]

\* Registration during resolution, and the lifecycle with it.
Growing ==
  [Chain EXCEPT !.given = <<>>, !.lazily = {}, !.warmup = FALSE,
                !.sds = {"a", "c"},
                !.maxCalls = 1, !.maxFails = 0, !.maxStarts = 2]

OneUser == {CHOOSE g \in Goroutines : TRUE}

\* Circles, met by one goroutine that tries again: of a lazy through a
\* transient, and of transients.
Circle ==
  [Chain EXCEPT !.kind = Each("lazy", "transient", "lazy"),
                !.deps = Each(<<"b">>, <<"a">>, <<"a">>),
                !.given = <<>>, !.lazily = Types, !.users = OneUser]

Transients ==
  [Circle EXCEPT !.kind = Each("transient", "transient", "lazy")]

\* A circle of two lazies, which two goroutines enter from either end.
Ring ==
  [Circle EXCEPT !.kind = Each("lazy", "lazy", "lazy"), !.users = Goroutines,
                 !.maxCalls = 1, !.maxFails = 0]

AllGraphs == {Chain, Through, Growing, Circle, Transients, Ring}

\* What the comment of Container promises an error for: Use by two goroutines,
\* and Warmup by one.
CircularGraphs ==
  {[Ring EXCEPT !.warmup = FALSE],
   [Circle EXCEPT !.maxCalls = 1, !.maxFails = 0]}
=============================================================================
