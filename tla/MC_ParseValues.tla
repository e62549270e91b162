--------------------------- MODULE MC_ParseValues ---------------------------
(***************************************************************************)
(* Model-checking harness for the checks parse_values makes before it     *)
(* emits a range list: the state is one legal-value clause as the YAML   *)
(* may write it, bounds beyond the field included, and the lsb of the     *)
(* field.  Init takes every such clause; a step moves to the next lsb.   *)
(***************************************************************************)
EXTENDS WarlRange, FiniteSets

CONSTANTS
  ValueBits,   \* width of the field (msb - lsb + 1)
  Lsbs,        \* the lsb positions tried
  MaxListLen,  \* the longest value list of a clause
  Beyond       \* how far above the field's top a written bound may lie

VARIABLES lsb, clause
vars == <<lsb, clause>>

Top == 2^ValueBits - 1
FieldMask(l) == 2^(l + ValueBits) - 2^l

\* The clauses a YAML legal string can hold: ranges and value lists whose
\* numbers may exceed the field.
RawClauses ==
  LET nums == 0 .. Top + Beyond
      ranges == {c \in [kind : {"range"}, base : nums, bound : nums,
                        notIn : BOOLEAN] : c.base <= c.bound}
      lists == {[kind |-> "list", vals |-> s, notIn |-> b] :
                  s \in UNION {[1..n -> nums] : n \in 1..MaxListLen},
                  b \in BOOLEAN}
  IN  ranges \cup lists

\* parse_values goes on (no SystemExit) for the clause.
Accepted(c, l) ==
  IF c.kind = "range" THEN ~RangeClauseRejected(c, FieldMask(l), l)
  ELSE ~ListClauseRejected(c, FieldMask(l), l)

Init == lsb \in Lsbs /\ clause \in RawClauses

\* The next lsb position, for the same clause.
NextLsb ==
  /\ \E l \in Lsbs : lsb' = l
  /\ UNCHANGED clause

Spec == Init /\ [][NextLsb]_vars

-----------------------------------------------------------------------------
\* A clause parse_values accepts names field values only: every range
\* entry it emits lies within the field mask (spec 3: a bound beyond the
\* field is a configuration error).  The check at line 298 reads as the
\* chained comparison base > (field_mask | bound) > field_mask.
AcceptedWithinField ==
  Accepted(clause, lsb) =>
    \A i \in 1..Len(ParseValues(clause, FieldMask(lsb), lsb)) :
      ParseValues(clause, FieldMask(lsb), lsb)[i].hi <= FieldMask(lsb)

=============================================================================
