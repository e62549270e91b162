----------------------------- MODULE WarlRange -----------------------------
(***************************************************************************)
(* The Range Model and the Range Resolution Algorithms of the WARL         *)
(* legalizer: the Sail functions that config2sail.py emits verbatim       *)
(* (is_value_in_range, WARL_range_max/min/nextup/nextdown/nearup/neardown) *)
(* and the Python translation of a legal-value list into range entries    *)
(* (parse_values).                                                         *)
(*                                                                         *)
(* A range entry is a record [kind, lo, hi], kind naming the constructor  *)
(* of the Sail union WARL_range_entry: WARL_range_value(v) has lo = hi = v *)
(* and WARL_range_interval(l, u) keeps its own kind even when l = u, since *)
(* the two arms of every match differ.  The Sail functions recurse on the  *)
(* list from the right: the last entry gives a base value and every        *)
(* earlier entry is combined with the result of the tail.  That is         *)
(* FoldRight over Front(s) from the base of Last(s).                       *)
(***************************************************************************)
EXTENDS Integers, Sequences, SequencesExt, Bitwise

Value(v) == [kind |-> "value", lo |-> v, hi |-> v]
Interval(l, u) == [kind |-> "interval", lo |-> l, hi |-> u]
IsValue(e) == e.kind = "value"

\* is_value_in_range: the recursive "or" over the list.
IsValueInRange(value, r) ==
  \E i \in 1..Len(r) : r[i].lo <= value /\ value <= r[i].hi

\* WARL_range_max: the upper bound of every entry.
RangeMax(r) ==
  FoldRight(LAMBDA e, tail : IF e.hi > tail THEN e.hi ELSE tail,
            Front(r), Last(r).hi)

\* WARL_range_min: the last entry contributes its lower bound, every other
\* entry its UPPER bound (the interval arm compares u, not l).
RangeMin(r) ==
  FoldRight(LAMBDA e, tail : IF e.hi < tail THEN e.hi ELSE tail,
            Front(r), Last(r).lo)

\* The one-element case of WARL_range_nextup and WARL_range_nextdown.
NextLast(value, e) ==
  IF IsValue(e) THEN e.lo
  ELSE IF value >= e.lo /\ value <= e.hi THEN value
  ELSE IF value > e.hi THEN e.hi
  ELSE e.lo

\* The interval arm of both recursive cases (the two functions share it).
IntervalStep(value, e, tail) ==
  IF value >= e.lo /\ value <= e.hi THEN value
  ELSE IF value > e.hi /\ e.hi > tail THEN e.hi
  ELSE IF value < e.lo /\ e.lo < tail THEN e.lo
  ELSE tail

\* Variant: a value entry equal to the value does not count as at or above it.
NextUpStepStrict(value, e, tail) ==
  IF IsValue(e)
  THEN IF \/ e.lo > value /\ e.lo < tail
          \/ e.lo >= value /\ tail < value
          \/ e.lo <= value /\ e.lo > tail
       THEN e.lo ELSE tail
  ELSE IntervalStep(value, e, tail)

NextUpStep(value, e, tail) ==
  IF IsValue(e)
  THEN IF \/ e.lo >= value /\ e.lo < tail
          \/ e.lo >= value /\ tail < value
          \/ e.lo <= value /\ e.lo > tail
       THEN e.lo ELSE tail
  ELSE IntervalStep(value, e, tail)

NextDownStep(value, e, tail) ==
  IF IsValue(e)
  THEN IF \/ e.lo <= value /\ e.lo > tail
          \/ e.lo <= value /\ tail > value
          \/ e.lo >= value /\ e.lo < tail
       THEN e.lo ELSE tail
  ELSE IntervalStep(value, e, tail)

RangeNextUp(value, r) ==
  FoldRight(LAMBDA e, tail : NextUpStep(value, e, tail),
            Front(r), NextLast(value, Last(r)))

RangeNextDown(value, r) ==
  FoldRight(LAMBDA e, tail : NextDownStep(value, e, tail),
            Front(r), NextLast(value, Last(r)))

\* The choice between the candidates up and dn of WARL_range_nearup
\* (tieUp) and WARL_range_neardown.
NearChoice(value, up, dn, tieUp) ==
  IF up <= value THEN up
  ELSE IF dn >= value THEN dn
  ELSE IF (up - value < value - dn) \/ (tieUp /\ up - value = value - dn)
       THEN up ELSE dn

\* WARL_range_nearup / WARL_range_neardown: both compute their "nextdown"
\* candidate with WARL_range_nextup; they differ only in < versus <=.
Near(value, r, tieUp) ==
  NearChoice(value, RangeNextUp(value, r), RangeNextUp(value, r), tieUp)

RangeNearUp(value, r) == Near(value, r, TRUE)
RangeNearDown(value, r) == Near(value, r, FALSE)

-----------------------------------------------------------------------------
(***************************************************************************)
(* parse_values: a legal-value clause "[msb:lsb] in [..]" or "not in [..]" *)
(* of a field, with its values shifted into place by lsb.  A clause is a   *)
(* record: kind "range" with base and bound, or kind "list" with a         *)
(* sequence vals; notIn for "not in".  fieldMask is                        *)
(* (1 << (msb + 1)) - (1 << lsb).                                          *)
(***************************************************************************)
\* The rejection test "base > field_mask | bound > field_mask": Python
\* parses it as the chained comparison base > (field_mask | bound) > field_mask.
RangeClauseRejected(clause, fieldMask, lsb) ==
  LET base == clause.base * 2^lsb
      bound == clause.bound * 2^lsb
  IN  base > (fieldMask | bound) /\ (fieldMask | bound) > fieldMask

ListClauseRejected(clause, fieldMask, lsb) ==
  \E i \in 1..Len(clause.vals) : clause.vals[i] * 2^lsb > fieldMask

\* The not-in list: gaps between the sorted excluded values, the running
\* bound "last" being shifted once more when it opens a gap.
NotInGaps(values, fieldMask, lsb) ==
  LET step(acc, i) ==
        [out  |-> IF i # acc.last
                  THEN Append(acc.out, Interval(acc.last * 2^lsb, i - 2^lsb))
                  ELSE acc.out,
         last |-> i + 2^lsb]
      res == FoldLeft(step, [out |-> <<>>, last |-> 0], values)
  IN  IF res.last <= fieldMask
      THEN Append(res.out, Interval(res.last, fieldMask))
      ELSE res.out

ParseValues(clause, fieldMask, lsb) ==
  IF clause.kind = "range"
  THEN LET base == clause.base * 2^lsb
           bound == clause.bound * 2^lsb
       IN  IF clause.notIn
           THEN (IF base # 0 THEN << Interval(0, base - 2^lsb) >> ELSE << >>)
                \o (IF bound # fieldMask
                    THEN << Interval(bound + 2^lsb, fieldMask) >> ELSE << >>)
           ELSE << Interval(base, bound) >>
  ELSE LET values == SortSeq([i \in 1..Len(clause.vals) |->
                                clause.vals[i] * 2^lsb], <)
       IN  IF clause.notIn
           THEN NotInGaps(values, fieldMask, lsb)
           ELSE [i \in 1..Len(values) |-> Value(values[i])]

-----------------------------------------------------------------------------
(***************************************************************************)
(* Reference definitions: what the entries denote and what the resolution *)
(* functions are meant to return (spec section 4.2).                      *)
(***************************************************************************)
Members(r) == UNION {r[i].lo .. r[i].hi : i \in 1..Len(r)}

SetMax(S) == CHOOSE x \in S : \A y \in S : x >= y
SetMin(S) == CHOOSE x \in S : \A y \in S : x <= y

\* The smallest legal value >= value, else the largest legal value.
RefNextUp(value, r) ==
  LET above == {x \in Members(r) : x >= value}
  IN  IF above # {} THEN SetMin(above) ELSE SetMax(Members(r))

\* The largest legal value <= value, else the smallest legal value.
RefNextDown(value, r) ==
  LET below == {x \in Members(r) : x <= value}
  IN  IF below # {} THEN SetMax(below) ELSE SetMin(Members(r))

\* The values a clause is meant to allow, shifted into place.
ClauseMeaning(clause, fieldMask, lsb) ==
  LET written == IF clause.kind = "range"
                 THEN {x * 2^lsb : x \in clause.base .. clause.bound}
                 ELSE {clause.vals[i] * 2^lsb : i \in 1..Len(clause.vals)}
      all == {x * 2^lsb : x \in 0 .. fieldMask \div 2^lsb}
  IN  IF clause.notIn THEN all \ written ELSE written
=============================================================================
