----------------------------- MODULE WarlField -----------------------------
(***************************************************************************)
(* The Field Rule Evaluator: what the function legalize_<reg>_<FIELD>(o,  *)
(* v) that config2sail.py generates for a WARL field computes.            *)
(* legalize_without_dependencies and legalize_with_dependencies build its *)
(* body from the field's "legal" strings and "wr_illegal" rules.          *)
(*                                                                         *)
(* A field description is a record:                                       *)
(*   deps  : FALSE when dependency_fields is empty, TRUE otherwise;        *)
(*   legal : a sequence of [dep, parts], dep a dependency predicate (a     *)
(*           sequence of clauses, << >> when the string has no "->") and   *)
(*           parts the parts of the legal string; Compile turns parts into *)
(*           the WARL_either that parse_field_range emits;                 *)
(*   rules : a sequence of [dep, action], action [kind |-> "mode", mode]   *)
(*           or [kind |-> "literal", value].                               *)
(* A dependency clause [src, msb, lsb, clause] tests bits msb..lsb of the *)
(* value env[src] of another field or register.                           *)
(***************************************************************************)
EXTENDS WarlLegalize

\* The bits msb..lsb of x, right-aligned: unsigned(x[msb .. lsb]).
Slice(x, msb, lsb) == (x \div 2^lsb) % 2^(msb - lsb + 1)

\* parse_dependency: the values of a clause become WARL_range_value or one
\* WARL_range_interval, unshifted; the operator ("in" or "not in") is never
\* consulted.
DepEntries(c) ==
  IF c.kind = "range" THEN << Interval(c.base, c.bound) >>
  ELSE [i \in 1..Len(c.vals) |-> Value(c.vals[i])]

DepHolds(dep, env) ==
  \A i \in 1..Len(dep) :
    IsValueInRange(Slice(env[dep[i].src], dep[i].msb, dep[i].lsb),
                   DepEntries(dep[i].clause))

\* What config2sail emits for a legal string: parse_field_range runs once,
\* when the function is generated, and its body holds the resulting
\* WARL_either as a literal.
Compile(f) ==
  [f EXCEPT !.legal = [i \in 1..Len(f.legal) |->
                         [dep |-> f.legal[i].dep,
                          either |-> ParseFieldRange(f.legal[i].parts)]]]

\* One wr_illegal rule applied to m: a literal, or legalize_warl_either over
\* the range list "warl_range_list" in scope at the rule.
ApplyRule(W, action, o, m, list) ==
  IF action.kind = "literal" THEN action.value
  ELSE LegalizeWarlEither(W, o, m, [kind |-> "range_list", list |-> list],
                          action.mode)

\* legalize_without_dependencies, over a compiled field: exactly one legal
\* string and one rule.
LegalizeNoDeps(W, f, o, v) ==
  LET e == f.legal[1].either
  IN  IF e.kind = "bitmask" THEN LegalizeWarlEither(W, o, v, e, "Unchanged")
      ELSE IF IsValueInRangeList(v, e.list) THEN v
      ELSE ApplyRule(W, f.rules[1].action, o, v, e.list)

\* legalize_with_dependencies.  The clause blocks run in order; a bitmask
\* clause whose predicate holds rewrites m in place.
RECURSIVE BitmaskClauses(_, _, _, _, _)
BitmaskClauses(W, legal, o, m, env) ==
  IF legal = << >> THEN m
  ELSE BitmaskClauses(W, Tail(legal), o,
         IF DepHolds(Head(legal).dep, env) /\ Head(legal).either.kind = "bitmask"
         THEN LegalizeWarlEither(W, o, m, Head(legal).either, "Unchanged") ELSE m,
         env)

\* "illegal" turns on when a range clause whose predicate holds rejects v.
Illegal(f, v, env) ==
  \E i \in 1..Len(f.legal) :
    /\ DepHolds(f.legal[i].dep, env)
    /\ f.legal[i].either.kind = "range_list"
    /\ ~IsValueInRangeList(v, f.legal[i].either.list)

\* The rules run in order, each rewriting m when its predicate holds.  Each
\* clause binds its own warl_range_list inside its block, so every rule
\* sees the outer, empty one.
RECURSIVE RunRules(_, _, _, _, _)
RunRules(W, rules, o, m, env) ==
  IF rules = << >> THEN m
  ELSE RunRules(W, Tail(rules), o,
         IF DepHolds(Head(rules).dep, env)
         THEN ApplyRule(W, Head(rules).action, o, m, << >>) ELSE m,
         env)

LegalizeWithDeps(W, f, o, v, env) ==
  LET m == BitmaskClauses(W, f.legal, o, v, env)
  IN  IF Illegal(f, v, env) THEN RunRules(W, f.rules, o, m, env) ELSE m

LegalizeField(W, f, o, v, env) ==
  IF f.deps THEN LegalizeWithDeps(W, f, o, v, env) ELSE LegalizeNoDeps(W, f, o, v)

\* What the legal strings of a compiled field allow: every active range
\* string accepts the value and every active bitmask leaves it unchanged.
FieldLegal(W, f, x, env) ==
  \A i \in 1..Len(f.legal) :
    (~f.deps \/ DepHolds(f.legal[i].dep, env)) =>
      IF f.legal[i].either.kind = "bitmask"
      THEN LegalizeWarlBitmask(W, x, f.legal[i].either) = x
      ELSE IsValueInRangeList(x, f.legal[i].either.list)
=============================================================================
