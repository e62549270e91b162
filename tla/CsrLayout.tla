------------------------------ MODULE CsrLayout -----------------------------
(***************************************************************************)
(* The registers config2sail.py assembles, as parse_reg and parse_field    *)
(* see them: for every register its fields in statement order, and for    *)
(* every field its kind (the branch of parse_field that handles it), its  *)
(* width, its ro_constant value, its shadow target and the fields its     *)
(* dependency clauses read.  CsrFile (the generated write, read and reset *)
(* procedures) and CsrAbstract (what they promise) share these            *)
(* definitions.                                                            *)
(***************************************************************************)
EXTENDS Naturals, Sequences

CONSTANTS
  Regs,               \* the registers parse_reg assembles
  Order,              \* [Regs -> Seq(field name)], in statement order
  Desc,               \* Desc[r][n]: the description of field n of r
  ResetValue,         \* ResetValue[r]: EXTZ(reset-val) split into fields
  Legal(_, _)         \* Legal(r, n): what the legal strings of r.n allow

Kinds == {"warl", "ro_constant", "ro_variable", "plain", "uncovered",
          "shadow_rw", "shadow_ro"}

Names(r) == {Order[r][i] : i \in 1..Len(Order[r])}
Vals(r, n) == 0 .. 2^Desc[r][n].width - 1
IsRegVal(r, g) == g \in [Names(r) -> Nat] /\ \A n \in Names(r) : g[n] \in Vals(r, n)

\* The values a dependency clause of r.n can read: Desc[r][n].deps is the
\* set of <<register, field>> pairs of its dependency_fields.
Env(r, n, s) == [d \in Desc[r][n].deps |-> s[d[1]][d[2]]]
EnvVals(r, n) ==
  {e \in [Desc[r][n].deps -> UNION {Vals(d[1], d[2]) : d \in Desc[r][n].deps}] :
     \A d \in Desc[r][n].deps : e[d] \in Vals(d[1], d[2])}

WarlFields == {f \in Regs \X UNION {Names(x) : x \in Regs} :
                 f[2] \in Names(f[1]) /\ Desc[f[1]][f[2]].kind = "warl"}
\* The WARL fields without dependency_fields.
PlainWarl == {f \in WarlFields : Desc[f[1]][f[2]].deps = {}}

ASSUME OrderAssumption ==
  \A r \in Regs :
    /\ Order[r] \in Seq(STRING)
    /\ \A i, j \in 1..Len(Order[r]) : i # j => Order[r][i] # Order[r][j]

ASSUME DescAssumption ==
  \A r \in Regs : \A n \in Names(r) :
    /\ Desc[r][n].kind \in Kinds
    /\ Desc[r][n].width \in Nat \ {0}
    /\ Desc[r][n].kind = "ro_constant" => Desc[r][n].value \in Vals(r, n)
    /\ \A d \in Desc[r][n].deps : d[1] \in Regs /\ d[2] \in Names(d[1])
    \* A shadow targets a field of the same width of a register assembled
    \* before r (parse_field exits otherwise), so never r itself.
    /\ Desc[r][n].kind \in {"shadow_rw", "shadow_ro"} =>
         /\ Desc[r][n].treg \in Regs \ {r}
         /\ Desc[r][n].tfield \in Names(Desc[r][n].treg)
         /\ Desc[Desc[r][n].treg][Desc[r][n].tfield].width = Desc[r][n].width

ASSUME ResetAssumption ==
  DOMAIN ResetValue = Regs /\ \A r \in Regs : IsRegVal(r, ResetValue[r])
=============================================================================
