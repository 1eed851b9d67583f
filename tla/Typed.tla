------------------------------ MODULE Typed ------------------------------
(***************************************************************************)
(* A typed route: buildTypedHandler compiles a parser and validators for   *)
(* the input struct when the route is registered (bind.go, handler.go,     *)
(* validation.go), or takes the binder and the validator that cmd/bindgen  *)
(* generated for an earlier version of the struct, if they still attest    *)
(* (bind_generated.go).  A request is then bound, shown to the OnParse     *)
(* hook, validated and handed to the handler.                              *)
(*                                                                         *)
(* A struct is a sequence of fields.  The value of a string is its length, *)
(* that of an upload the number of its files.                              *)
(* Integers are four bits wide and a float has three bits of precision, so *)
(* that the edges of int64, uint64 and float64 are within reach.           *)
(***************************************************************************)
EXTENDS Integers, Sequences, SequencesExt

CONSTANTS
    Structs,    \* input structs: sequences of fields
    Requests    \* [body, query, param]: a body, pairs [key, eq, text], texts by tag

VARIABLES
    struct,     \* the route's input struct
    plan,       \* the struct bindgen saw, or <<>> for no plan
    custom,     \* the application replaced the rule "min"
    route,      \* what registration compiled; "none" before it
    req,        \* the request being served
    at,         \* the stage of the request
    val,        \* the bound input: field name -> value
    reply,      \* status and failed rules
    hooked      \* history: what the OnParse hook wrote into field A, if it did

typedvars == <<struct, plan, custom, route, req, at, val, reply, hooked>>

Names == {"A", "B"}
NoReply == [status |-> 0, errs |-> <<>>]

---------------------------------------------------------------------------
(* Numbers.                                                                *)

IntRange(kind) == IF kind = "int" THEN -8..7 ELSE 0..15

\* Conversion to float64: beyond 4 only even numbers exist, beyond 8 only
\* multiples of 4; ties go to the even significand.
Round(n, u) == LET q == n \div u  r == n % u IN
    IF 2 * r < u \/ (2 * r = u /\ q % 2 = 0) THEN u * q ELSE u * (q + 1)
Float(n) == IF n \in -4..4 THEN n ELSE IF n \in -8..8 THEN Round(n, 2) ELSE Round(n, 4)

Holds(name, a, b) ==
    CASE name \in {"min", "gte"} -> a >= b
      [] name \in {"max", "lte"} -> a <= b
      [] name = "gt" -> a > b
      [] name = "lt" -> a < b

\* strconv.ParseInt or ParseUint accepts the rule's parameter.
Parses(kind, p) == kind # "string" /\ p.int /\ p.n \in IntRange(kind)

\* validateMin and its siblings, on the boxed value.
validateNumber(kind, rule, v) ==
    /\ rule.p.num
    /\ IF Parses(kind, rule.p) THEN Holds(rule.name, v, rule.p.n)
       ELSE Holds(rule.name, Float(v), Float(rule.p.n))

\* The rule as v.rules had it when the route was registered; a replaced
\* "min" wants an even value.
ruleFn(kind, rule, over, v) ==
    IF rule.name = "required" THEN v # 0
    ELSE IF rule.name = "min" /\ over THEN v % 2 = 0
    ELSE validateNumber(kind, rule, v)

Builtin == {"required", "min", "max", "gt", "gte", "lt", "lte"}

\* compileMinMax: whether there is an unboxed check, and the check.
compiles(kind, rule) == rule.name \in {"min", "max"} /\ rule.p.num
FloatsOnly(kind, rule, v) == Holds(rule.name, Float(v), Float(rule.p.n))    \* mutant
compileMinMax(kind, rule, v) ==
    IF Parses(kind, rule.p) THEN Holds(rule.name, v, rule.p.n)
    ELSE Holds(rule.name, Float(v), Float(rule.p.n))

\* bindgen's validationExpr: the expression it emits.
validationExpr(kind, rule, v) ==
    IF Parses(kind, rule.p) THEN Holds(rule.name, v, rule.p.n)
    ELSE Holds(rule.name, Float(v), Float(rule.p.n))

---------------------------------------------------------------------------
(* Registration.                                                           *)

\* buildValidators: a rule nobody knows is skipped, a field without rules
\* has no validator, and the checks are dropped all together unless every
\* rule compiles and none is replaced.
buildValidators(s, over) ==
    LET rules(i) == SelectSeq(s[i].rules, LAMBDA r : r.name \in Builtin)
        checked(i) == \A j \in DOMAIN rules(i) :
            compiles(s[i].kind, rules(i)[j]) /\ ~(over /\ rules(i)[j].name = "min")
    IN  [k \in DOMAIN SelectSeq([i \in DOMAIN s |-> i], LAMBDA i : rules(i) # <<>>) |->
            LET i == SelectSeq([x \in DOMAIN s |-> x], LAMBDA x : rules(x) # <<>>)[k] IN
            [index |-> i, omitEmpty |-> s[i].omit, rules |-> rules(i),
             numChecks |-> IF checked(i) THEN Len(rules(i)) ELSE 0]]

\* The exported mirror of the validators, which is all a generated factory
\* sees of them.
describeValidators(vs) ==
    [k \in DOMAIN vs |-> [Index |-> vs[k].index, OmitEmpty |-> vs[k].omitEmpty,
                          Rules |-> vs[k].rules, NumChecks |-> vs[k].numChecks]]

\* bindgen refuses a struct with body, form or file fields.
Generates(g) ==
    /\ g # <<>>
    /\ \A i \in DOMAIN g : ~g[i].json /\ ~g[i].form /\ g[i].kind \in {"string", "int", "uint"}

\* The shape record that bindgen writes beside the binder.
Shape(g) ==
    [i \in DOMAIN g |-> [Name |-> g[i].name, Kind |-> g[i].kind, Query |-> g[i].query,
                         Param |-> g[i].param, Default |-> g[i].def]]

\* The field f is the one the binder saw.
attestField(f, w) ==
    /\ f.name = w.Name /\ f.kind = w.Kind
    /\ f.query = w.Query /\ f.param = w.Param /\ f.def = w.Default
    /\ ~f.json /\ ~f.form

\* The struct t is still the one of the shape.
AttestBinderShape(t, shape) ==
    /\ Len(t) = Len(shape)
    /\ \A i \in DOMAIN shape : attestField(t[i], shape[i])

\* The validator factory of generateValidator: a predicate if every rule of
\* the generated struct is supported and the descriptors ds are its own.
ValidatorFactory(t, g, ds) ==
    LET own == SelectSeq([i \in DOMAIN g |-> i], LAMBDA i : g[i].rules # <<>> \/ g[i].omit) IN
    /\ own # <<>>
    /\ \A i \in DOMAIN g : ~g[i].omit /\ \A j \in DOMAIN g[i].rules : compiles(g[i].kind, g[i].rules[j])
    /\ Len(ds) = Len(own)
    /\ \A k \in DOMAIN own :
          /\ own[k] \in DOMAIN t
          /\ t[own[k]].name = g[own[k]].name /\ t[own[k]].kind = g[own[k]].kind
          /\ ds[k].Index = own[k] /\ ~ds[k].OmitEmpty
          /\ ds[k].Rules = g[own[k]].rules
          /\ ds[k].NumChecks = Len(g[own[k]].rules)

\* selectGeneratedPlan and buildTypedHandlerWithValidation.
buildTypedHandler(t, g, over) ==
    LET vs == buildValidators(t, over) IN
    [binder |-> Generates(g) /\ AttestBinderShape(t, Shape(g)),
     over |-> over,
     validators |-> vs,
     validInput |-> Generates(g) /\ vs # <<>> /\ ValidatorFactory(t, g, describeValidators(vs))]

---------------------------------------------------------------------------
(* Binding.  A text is [len, num, n]; the empty one counts as not given.   *)

NoText == [len |-> 0, num |-> FALSE, n |-> 0]
text(src, tag) == IF tag \in DOMAIN src THEN src[tag] ELSE NoText
given(src, tag) == text(src, tag).len > 0

\* wingRequest.QueryParam: the first pair with that key and an equals sign,
\* for every tag at once.
QueryParam(q) ==
    LET set == SelectSeq(q, LAMBDA p : p.eq) IN
    [tag \in {set[i].key : i \in DOMAIN set} |-> SelectSeq(set, LAMBDA p : p.key = tag)[1].text]

\* The single pass over the raw query that the generated binder makes: it
\* stops as soon as it has seen every tag.
QueryCollection(tags, q) ==
    LET take(acc, p) ==
          IF p.eq /\ p.key \in tags /\ p.key \notin DOMAIN acc
          THEN [t \in DOMAIN acc \cup {p.key} |-> IF t = p.key THEN p.text ELSE acc[t]]
          ELSE acc
    IN  FoldLeft(take, [t \in {} |-> NoText], q)

\* selectConverter.
converts(kind, t) == kind = "string" \/ (t.num /\ t.n \in IntRange(kind))
convert(kind, t) == IF kind = "string" THEN t.len ELSE t.n

Bad(status) == [status |-> status, errs |-> <<>>]

\* The fields of s whose tag (query or param) is in src, assigned in order over v.
assign(s, v, src, tag) ==
    [f \in Names |->
        LET set == {i \in DOMAIN s : s[i].name = f /\ given(src, s[i][tag])} IN
        IF set = {} THEN v[f]
        ELSE LET i == CHOOSE i \in set : TRUE IN convert(s[i].kind, text(src, s[i][tag]))]
unusable(s, src, tag) ==
    \E i \in DOMAIN s : given(src, s[i][tag]) /\ ~converts(s[i].kind, text(src, s[i][tag]))

defaults(s) == [f \in Names |->
    IF \E i \in DOMAIN s : s[i].name = f
    THEN (CHOOSE x \in {s[i] : i \in DOMAIN s} : x.name = f).def ELSE 0]

\* inputParser.parseMultipart: the first text of a string, one file or all
\* the files of an upload; what is not in the form is left alone.
parseMultipart(s, v, fields) ==
    LET set(f) == {i \in DOMAIN s : s[i].form /\ s[i].name = f /\ f \in DOMAIN fields} IN
    [f \in Names |-> IF set(f) = {} \/ fields[f] = 0 THEN v[f]
                     ELSE IF s[CHOOSE i \in set(f) : TRUE].kind = "file" THEN 1 ELSE fields[f]]

Bound(err, v) == [err |-> err, val |-> v]

\* The query and then the path, over v.
bindTexts(s, v, query, param) ==
    IF unusable(s, query, "query") \/ unusable(s, param, "param") THEN Bound(Bad(400), v)
    ELSE Bound(NoReply, assign(s, assign(s, v, query, "query"), param, "param"))

\* inputParser.parse: defaults, then the form or else the body of a POST,
\* then the query, then the path.
parse(s, r) ==
    LET hasForm == \E i \in DOMAIN s : s[i].form
        hasBody == ~hasForm /\ \E i \in DOMAIN s : s[i].json
        v0 == defaults(s)
    IN  CASE (hasForm \/ hasBody) /\ r.body.kind = "too large" -> Bound(Bad(413), v0)
          [] hasForm /\ r.body.kind # "too large" ->
                IF r.body.kind # "multipart" THEN Bound(Bad(400), v0)
                ELSE bindTexts(s, parseMultipart(s, v0, r.body.fields), QueryParam(r.query), r.param)
          [] hasBody /\ r.body.kind # "too large" ->
                IF r.body.kind # "json" THEN Bound(Bad(400), v0)
                ELSE bindTexts(s, [f \in Names |-> IF f \in DOMAIN r.body.fields
                                                   THEN r.body.fields[f] ELSE v0[f]],
                               QueryParam(r.query), r.param)
          [] ~hasForm /\ ~hasBody -> bindTexts(s, v0, QueryParam(r.query), r.param)

\* The function that bindgen generates for g: it knows no body.
binder(g, r) ==
    bindTexts(g, defaults(g), QueryCollection({g[i].query : i \in DOMAIN g} \ {""}, r.query), r.param)

---------------------------------------------------------------------------
(* validate: the failed rules, in field and rule order.                    *)

fieldErrors(s, fv, over, v) ==
    LET kind == s[fv.index].kind
        x == v[s[fv.index].name]
        valid == fv.numChecks > 0 /\ \A j \in DOMAIN fv.rules : compileMinMax(kind, fv.rules[j], x)
    IN  IF (fv.omitEmpty /\ x = 0) \/ valid THEN <<>>
        ELSE LET bad == SelectSeq(fv.rules, LAMBDA r : ~ruleFn(kind, r, over, x))
             IN  [j \in DOMAIN bad |-> <<s[fv.index].name, bad[j].name>>]

validate(s, rt, v) ==
    FlattenSeq([k \in DOMAIN rt.validators |-> fieldErrors(s, rt.validators[k], rt.over, v)])

\* The generated predicate over the whole input.
validInput(s, g, v) ==
    \A i \in DOMAIN g : \A j \in DOMAIN g[i].rules :
        validationExpr(g[i].kind, g[i].rules[j], v[g[i].name])

---------------------------------------------------------------------------
TypedInit ==
    /\ struct \in Structs /\ plan \in Structs \cup {<<>>}
    /\ custom = FALSE /\ route = "none"
    /\ req \in Requests /\ at = "setup"
    /\ val = defaults(struct) /\ reply = NoReply /\ hooked = "no"

\* Validator.Register("min", ...), before the routes or too late for them.
Register ==
    /\ at \in {"setup", "ready"} /\ ~custom
    /\ custom' = TRUE
    /\ UNCHANGED <<struct, plan, route, req, at, val, reply, hooked>>

\* Get, Post, Put...: the typed handler is built once.
Route ==
    /\ at = "setup"
    /\ route' = buildTypedHandler(struct, plan, custom)
    /\ at' = "ready"
    /\ UNCHANGED <<struct, plan, custom, req, val, reply, hooked>>

Parse ==
    /\ at = "ready"
    /\ LET p == IF route.binder THEN binder(plan, req) ELSE parse(struct, req) IN
       /\ val' = p.val
       /\ reply' = p.err
       /\ at' = IF p.err = NoReply THEN "parsed" ELSE "replied"
    /\ UNCHANGED <<struct, plan, custom, route, req, hooked>>

\* An OnParse hook gets a pointer to the input; its error ends the request.
OnParse ==
    /\ at = "parsed"
    /\ \/ at' = "hooked" /\ UNCHANGED <<val, reply, hooked>>
       \/ at' = "hooked" /\ val' = [val EXCEPT !["A"] = 3] /\ hooked' = "wrote" /\ UNCHANGED reply
       \/ at' = "replied" /\ reply' = Bad(403) /\ hooked' = "refused" /\ UNCHANGED val
    /\ UNCHANGED <<struct, plan, custom, route, req>>

\* finishTypedHandler: only a failing predicate, or none, runs validate.
Validate ==
    /\ at = "hooked"
    /\ LET errs == IF route.validators = <<>> \/ (route.validInput /\ validInput(struct, plan, val))
                   THEN <<>> ELSE validate(struct, route, val)
       IN  reply' = [status |-> IF errs = <<>> THEN 200 ELSE 422, errs |-> errs]
    /\ at' = "replied"
    /\ UNCHANGED <<struct, plan, custom, route, req, val, hooked>>

TypedNext == Register \/ Route \/ Parse \/ OnParse \/ Validate

---------------------------------------------------------------------------
(* The reference: what the struct's own tags ask for, without any of the   *)
(* compiled shortcuts.                                                     *)

Form == \E k \in DOMAIN struct : struct[k].form
Json == \E k \in DOMAIN struct : struct[k].json

\* What the first pair of the query with the field's tag says.
InQuery(f) ==
    LET hits == SelectSeq(req.query, LAMBDA p : p.eq /\ p.key = f.query /\ f.query # "") IN
    IF hits = <<>> THEN NoText ELSE hits[1].text
InBody(f) ==
    /\ f.name \in DOMAIN req.body.fields
    /\ IF Form THEN f.form /\ req.body.fields[f.name] > 0 ELSE Json

Source(i) ==
    LET f == struct[i]
        t == IF given(req.param, f.param) THEN text(req.param, f.param) ELSE InQuery(f)
    IN  CASE t.len > 0 -> convert(f.kind, t)
          [] t.len = 0 /\ InBody(f) -> IF f.kind = "file" THEN 1 ELSE req.body.fields[f.name]
          [] OTHER -> f.def

Asked(i) ==
    LET f == struct[i]
        x == IF f.name = "A" /\ hooked = "wrote" THEN 3 ELSE Source(i)
        bad == SelectSeq(f.rules, LAMBDA r : r.name \in Builtin /\ ~ruleFn(f.kind, r, route.over, x))
    IN  IF f.omit /\ x = 0 THEN <<>> ELSE [j \in DOMAIN bad |-> <<f.name, bad[j].name>>]

\* Whatever plan the route was given, generated for this struct or for an
\* older one, and whatever rule was replaced before or after registration:
\* the handler runs on the value that path, query, body and default ask for
\* (in that order), changed by the hook, and only if every rule of the struct
\* holds of it; otherwise the reply lists exactly the rules that fail.
InputExact ==
    at = "replied" /\ reply.status \in {200, 422} =>
        /\ \A i \in DOMAIN struct :
              val[struct[i].name] = IF struct[i].name = "A" /\ hooked = "wrote" THEN 3 ELSE Source(i)
        /\ reply.errs = FlattenSeq([i \in DOMAIN struct |-> Asked(i)])
        /\ (reply.status = 200) = (reply.errs = <<>>)
=============================================================================
