---------------------------- MODULE MC_WarlRange ----------------------------
(***************************************************************************)
(* Model-checking harness for WarlRange: the state is one input of the    *)
(* range algorithms -- a legal-value clause of a field whose lowest bit   *)
(* is lsb, as parse_values translates it, and a value to resolve.  Init  *)
(* takes every bounded input; a step moves on to the next value.          *)
(***************************************************************************)
EXTENDS WarlRange, FiniteSets

CONSTANTS
  ValueBits,   \* width of the field a clause constrains (msb - lsb + 1)
  Lsbs,        \* the lsb positions tried
  MaxListLen   \* the longest value list of a clause

ASSUME ValueBits \in Nat \ {0} /\ Lsbs \subseteq Nat /\ MaxListLen \in Nat \ {0}

VARIABLES lsb, clause, value
vars == <<lsb, clause, value>>

Top == 2^ValueBits - 1
FieldMask(l) == 2^(l + ValueBits) - 2^l
Entries == ParseValues(clause, FieldMask(lsb), lsb)

DistinctSeqs ==
  UNION {{s \in [1..n -> 0..Top] : \A i, j \in 1..n : i # j => s[i] # s[j]}
           : n \in 1..MaxListLen}

\* The clauses that parse_values accepts and that give a non-empty list.
Clauses(l) ==
  LET ranges == {c \in [kind : {"range"}, base : 0..Top, bound : 0..Top,
                        notIn : BOOLEAN] : c.base <= c.bound}
      lists == {[kind |-> "list", vals |-> s, notIn |-> b]
                  : s \in DistinctSeqs, b \in BOOLEAN}
  IN  {c \in ranges \cup lists :
         /\ c.kind = "range" => ~RangeClauseRejected(c, FieldMask(l), l)
         /\ c.kind = "list" => ~ListClauseRejected(c, FieldMask(l), l)
         /\ ParseValues(c, FieldMask(l), l) # << >>}

Values(l) == 0 .. 2^(l + ValueBits) - 1

Init ==
  /\ lsb \in Lsbs
  /\ clause \in Clauses(lsb)
  /\ value \in Values(lsb)

\* The next query value: every step moves to the next value of the field.
NextValue ==
  /\ value' = (value + 1) % 2^(lsb + ValueBits)
  /\ UNCHANGED <<lsb, clause>>

Next == NextValue

Spec == Init /\ [][Next]_vars

-----------------------------------------------------------------------------
TypeOK ==
  /\ lsb \in Lsbs
  /\ clause \in Clauses(lsb)
  /\ value \in Values(lsb)

\* The values whose field bits a membership test can see: multiples of 2^lsb.
Aligned(S) == {x \in S : x % 2^lsb = 0}

\* parse_values denotes what the clause says: the field values listed, or
\* all others for "not in", each shifted by lsb (spec 4.1 complement).
ParseValuesMeaning ==
  Aligned(Members(Entries)) = ClauseMeaning(clause, FieldMask(lsb), lsb)

\* WARL_range_nextup returns the smallest legal value >= the value, and the
\* largest legal value when there is none (spec 4.2).
NextUpNearestAbove == RangeNextUp(value, Entries) = RefNextUp(value, Entries)

\* WARL_range_nextdown returns the largest legal value <= the value, and the
\* smallest legal value when there is none (spec 4.2).
NextDownNearestBelow ==
  RangeNextDown(value, Entries) = RefNextDown(value, Entries)

\* WARL_range_min returns the least legal value (spec 4.2).
MinIsLeast == RangeMin(Entries) = SetMin(Members(Entries))

=============================================================================
