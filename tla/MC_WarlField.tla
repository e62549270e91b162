---------------------------- MODULE MC_WarlField ----------------------------
(***************************************************************************)
(* Model-checking harness for WarlField: a register made of one WARL      *)
(* field without dependencies, of width W, written again and again.  The  *)
(* field description is fixed in the initial state and ranges over every  *)
(* legal string of one or two parts that parse_field_range accepts, and   *)
(* every fallback mode in Modes; the stored value starts at a legal reset *)
(* value.  A write stores legalize_<reg>_<FIELD>(stored, v).              *)
(***************************************************************************)
EXTENDS WarlField, FiniteSets

CONSTANTS
  W,            \* width of the field
  Splits,       \* the part layouts tried: sequences of [msb, lsb]
  FieldModes,   \* the wr_illegal modes tried
  MaxListLen,   \* the longest value list of a part
  ShiftedNotIn  \* whether "not in" value lists of parts above bit 0 are tried

\* parse_values mistranslates a "not in" value list of a part whose lsb is
\* above 0 (run parse_values_meaning); the runs about the legalizer proper
\* leave those strings out.
ASSUME W \in Nat \ {0} /\ MaxListLen \in Nat \ {0} /\ ShiftedNotIn \in BOOLEAN

VARIABLES field, stored, written
vars == <<field, stored, written>>

Word == 0 .. 2^W - 1

\* The clauses of a part of width b at lsb l that parse_values accepts and
\* that give a non-empty list; value lists are written in ascending order.
PartClauses(b, l) ==
  LET top == 2^b - 1
      fm == 2^(l + b) - 2^l
      ranges == {c \in [kind : {"range"}, base : 0..top, bound : 0..top,
                        notIn : BOOLEAN] : c.base <= c.bound}
      lists == {[kind |-> "list", vals |-> s, notIn |-> ni] :
                  s \in {s \in UNION {[1..n -> 0..top] : n \in 1..MaxListLen} :
                           \A i \in 1..Len(s) - 1 : s[i] < s[i + 1]},
                  ni \in BOOLEAN}
  IN  {c \in ranges \cup lists :
         /\ c.kind = "range" => ~RangeClauseRejected(c, fm, l)
         /\ c.kind = "list" => ~ListClauseRejected(c, fm, l)
         /\ ParseValues(c, fm, l) # << >>
         /\ (c.notIn /\ c.kind = "list" /\ l > 0) => ShiftedNotIn}

Parts(split) ==
  LET n == Len(split)
      choices == [1..n -> UNION {PartClauses(split[i].msb - split[i].lsb + 1,
                                             split[i].lsb) : i \in 1..n}]
  IN  {[i \in 1..n |-> [msb |-> split[i].msb, lsb |-> split[i].lsb,
                        bitmask |-> FALSE, clause |-> ch[i]]]
         : ch \in {c \in choices :
                     \A i \in 1..n : c[i] \in PartClauses(split[i].msb - split[i].lsb + 1,
                                                          split[i].lsb)}}

Fields ==
  {Compile([deps |-> FALSE,
    legal |-> << [dep |-> << >>, parts |-> p] >>,
    rules |-> << [dep |-> << >>, action |-> [kind |-> "mode", mode |-> md]] >>])
     : p \in UNION {Parts(s) : s \in Splits}, md \in FieldModes}

List(f) == f.legal[1].either.list
\* The values the parsed legal string denotes: each part's bits lie in the
\* values of its segment.
Legal(f) ==
  {x \in Word : \A i \in 1..Len(List(f)) : (x & List(f)[i].mask) \in Members(List(f)[i].values)}

Init ==
  /\ field \in Fields
  /\ stored \in Legal(field)
  /\ written = stored

Write(v) ==
  /\ stored' = LegalizeField(W, field, stored, v, << >>)
  /\ written' = v
  /\ UNCHANGED field

Next == \E v \in Word : Write(v)

Spec == Init /\ [][Next]_vars

\* A 4-bit field made of two 2-bit parts.
SplitsOf4 == { << [msb |-> 3, lsb |-> 2], [msb |-> 1, lsb |-> 0] >> }

-----------------------------------------------------------------------------

\* Totality (spec 8): whatever is written, the value the field holds is one
\* its legal string allows.
StoredLegal == stored \in Legal(field)

=============================================================================
