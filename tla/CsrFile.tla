------------------------------ MODULE CsrFile ------------------------------
(***************************************************************************)
(* The register file that the generated Sail code maintains: for every    *)
(* register R, config2sail.py (parse_reg, parse_field) emits              *)
(*                                                                         *)
(*   legalize_R(o, v) = { let m = Mk_R(v); <one statement per field>; m }  *)
(*   write_csr:  R = legalize_R(R, value)                                  *)
(*   read_csr:   get_R(R) when R has a read-write shadow field, else R     *)
(*   reset_regs: R->bits() = EXTZ(reset-val) for every R                  *)
(*                                                                         *)
(* A register value is a function from the names of its fields to        *)
(* naturals below 2^width; bits no declared field covers form a field of  *)
(* kind "uncovered".  Order[r] lists the fields in the order their        *)
(* statements run (parse_reg walks the YAML keys reversed).  A write runs *)
(* as StartWrite, one step per statement, and Commit (the assignment      *)
(* R = legalize_R(R, value)); while it runs no other operation is         *)
(* enabled, as in the single-threaded simulator, but a shadow statement   *)
(* has already assigned another register, and a later dependency reads   *)
(* that register as it is then.                                            *)
(*                                                                         *)
(* The field legalizer legalize_R_F is the parameter Legalize; its        *)
(* contract is stated as assumptions and WarlField provides it.           *)
(***************************************************************************)
EXTENDS CsrLayout

CONSTANT
  Legalize(_, _, _, _, _)   \* legalize_R_F(o, v) with dependency values

\* legalize_R_F returns a value of the field's width.
ASSUME LegalizeType ==
  \A f \in WarlFields : \A o, v \in Vals(f[1], f[2]) : \A e \in EnvVals(f[1], f[2]) :
    Legalize(f[1], f[2], o, v, e) \in Vals(f[1], f[2])

\* The legal values of a WARL field without dependencies are values of its
\* width, its reset value is one of them, and legalize_R_F keeps a legal
\* stored value legal whatever is written.
ASSUME LegalizeSound ==
  \A f \in PlainWarl :
    /\ Legal(f[1], f[2]) \subseteq Vals(f[1], f[2])
    /\ ResetValue[f[1]][f[2]] \in Legal(f[1], f[2])
    /\ \A o \in Legal(f[1], f[2]) : \A v \in Vals(f[1], f[2]) :
         Legalize(f[1], f[2], o, v, Env(f[1], f[2], << >>)) \in Legal(f[1], f[2])

\* legalize_R_F returns a legal written value unchanged, whatever the
\* field held (spec 4.4: only an illegal value is replaced).
ASSUME LegalizeKeepsLegal ==
  \A f \in PlainWarl : \A o \in Vals(f[1], f[2]) : \A v \in Legal(f[1], f[2]) :
    Legalize(f[1], f[2], o, v, Env(f[1], f[2], << >>)) = v

-----------------------------------------------------------------------------
VARIABLES
  regs,      \* regs[r]: the value of register r
  pending    \* the write in progress: register, written value, m, next statement

vars == <<regs, pending>>

Idle == ~pending.busy

Init ==
  /\ regs = ResetValue
  /\ pending = [busy |-> FALSE, reg |-> CHOOSE r \in Regs : TRUE,
                v |-> << >>, m |-> << >>, idx |-> 1]

\* The values write_csr may be given for r, split into its fields.
WriteValues(r) ==
  {g \in [Names(r) -> UNION {Vals(r, n) : n \in Names(r)}] : IsRegVal(r, g)}

\* write_csr(R's address, value): legalize_R starts with m = Mk_R(value).
StartWrite(r, v) ==
  /\ Idle
  /\ pending' = [busy |-> TRUE, reg |-> r, v |-> v, m |-> v, idx |-> 1]
  /\ UNCHANGED regs

\* The statement of the next field, of a given kind.
Current == pending.reg
Field == Order[Current][pending.idx]
D == Desc[Current][Field]
Stepping(kinds) ==
  /\ pending.busy
  /\ pending.idx <= Len(Order[Current])
  /\ D.kind \in kinds

Advance(m) == pending' = [pending EXCEPT !.m = m, !.idx = @ + 1]

\* Variant: the old and the written value change places in the call.
WarlStepSwapped ==
  /\ Stepping({"warl"})
  /\ Advance([pending.m EXCEPT ![Field] =
               Legalize(Current, Field, pending.m[Field], regs[Current][Field],
                        Env(Current, Field, regs))])
  /\ UNCHANGED regs

\* m = update_F(m, legalize_R_F(o.F(), m.F()))
WarlStep ==
  /\ Stepping({"warl"})
  /\ Advance([pending.m EXCEPT ![Field] =
               Legalize(Current, Field, regs[Current][Field], pending.m[Field],
                        Env(Current, Field, regs))])
  /\ UNCHANGED regs

\* m = update_F(m, to_bits(len, ro_constant))
ConstantStep ==
  /\ Stepping({"ro_constant"})
  /\ Advance([pending.m EXCEPT ![Field] = D.value])
  /\ UNCHANGED regs

\* m = update_F(m, o.F()): ro_variable fields and read-only shadows.
KeepStep ==
  /\ Stepping({"ro_variable", "shadow_ro"})
  /\ Advance([pending.m EXCEPT ![Field] = regs[Current][Field]])
  /\ UNCHANGED regs

\* No statement: the written bits stay in m.
PlainStep ==
  /\ Stepping({"plain", "uncovered"})
  /\ Advance(pending.m)
  /\ UNCHANGED regs

\* Variant: the target is updated with the raw written slice, as the code
\* does when the target is missing from parsed_warl_fields.
ShadowStepRaw ==
  /\ Stepping({"shadow_rw"})
  /\ regs' = [regs EXCEPT ![D.treg][D.tfield] = pending.v[Field]]
  /\ Advance([pending.m EXCEPT ![Field] = pending.v[Field]])

\* Variant: a read-only shadow propagates writes to its target as a
\* read-write one does.
ShadowStepReadOnly ==
  /\ Stepping({"shadow_rw", "shadow_ro"})
  /\ LET t == D.treg
         g == D.tfield
         new == IF Desc[t][g].kind = "warl"
                THEN Legalize(t, g, regs[t][g], pending.v[Field], Env(t, g, regs))
                ELSE pending.v[Field]
     IN  /\ regs' = [regs EXCEPT ![t][g] = new]
         /\ Advance([pending.m EXCEPT ![Field] = new])

\* T = update_G(T, legalize_T_G(T.G(), v[msb .. lsb])) when T.G is a WARL
\* field, T = update_G(T, v[msb .. lsb]) otherwise; then m = update_F(m, T.G()).
ShadowStep ==
  /\ Stepping({"shadow_rw"})
  /\ LET t == D.treg
         g == D.tfield
         new == IF Desc[t][g].kind = "warl"
                THEN Legalize(t, g, regs[t][g], pending.v[Field], Env(t, g, regs))
                ELSE pending.v[Field]
     IN  /\ regs' = [regs EXCEPT ![t][g] = new]
         /\ Advance([pending.m EXCEPT ![Field] = new])

\* R = legalize_R(R, value): the result is assigned once every statement ran.
Commit ==
  /\ pending.busy
  /\ pending.idx > Len(Order[Current])
  /\ regs' = [regs EXCEPT ![Current] = pending.m]
  /\ pending' = [pending EXCEPT !.busy = FALSE]

\* reset_regs
Reset ==
  /\ Idle
  /\ regs' = ResetValue
  /\ UNCHANGED pending

Next ==
  \/ \E r \in Regs : \E v \in WriteValues(r) : StartWrite(r, v)
  \/ WarlStep \/ ConstantStep \/ KeepStep \/ PlainStep \/ ShadowStep
  \/ Commit
  \/ Reset

Spec == Init /\ [][Next]_vars

\* read_csr: get_R(R) = R with every read-write shadow field taken from its target.
ReadValue(r) ==
  [n \in Names(r) |->
     IF Desc[r][n].kind = "shadow_rw" THEN regs[Desc[r][n].treg][Desc[r][n].tfield]
     ELSE regs[r][n]]

\* The register file as CsrAbstract specifies it: the write in progress
\* goes through pending.reg.
Writing == IF pending.busy THEN {pending.reg} ELSE {}
Abstract == INSTANCE CsrAbstract WITH writing <- Writing

-----------------------------------------------------------------------------
TypeOK ==
  /\ \A r \in Regs : IsRegVal(r, regs[r])
  /\ DOMAIN regs = Regs
  /\ pending.busy \in BOOLEAN
  /\ pending.busy =>
       /\ pending.reg \in Regs
       /\ IsRegVal(pending.reg, pending.v)
       /\ IsRegVal(pending.reg, pending.m)
       /\ pending.idx \in 1..Len(Order[pending.reg]) + 1

\* Every WARL field without dependencies holds a value its legal string
\* allows: no path of write_csr -- its own legalize_R_F, a shadow
\* statement of another register writing through legalize_T_G, reset --
\* stores an illegal value.
StoredLegal ==
  \A f \in PlainWarl : regs[f[1]][f[2]] \in Legal(f[1], f[2])

\* StoredLegal strengthened to be inductive: a running write has legalized
\* every WARL field whose statement already ran, so that the commit stores
\* legal values only.
LegalizedSoFar ==
  pending.busy =>
    \A i \in 1..pending.idx - 1 :
      LET n == Order[pending.reg][i]
      IN  <<pending.reg, n>> \in PlainWarl => pending.m[n] \in Legal(pending.reg, n)

StoredLegalInv == TypeOK /\ StoredLegal /\ LegalizedSoFar

\* Every step of the register file is a step CsrAbstract allows: a shadow
\* statement or the final assignment of write_csr through r changes only
\* fields writable through r and leaves the registers it changes legal,
\* and reset_regs restores the reset values.
AbstractSpec == Abstract!Spec

\* A write_csr whose value is legal for a WARL field without dependencies
\* stores it in that field unchanged: m starts as Mk_R(value), the field's
\* statement calls legalize_R_F(o.F(), m.F()) with the arguments in that
\* order, and no other statement of legalize_R touches the field.
KeptOnCommit ==
  Commit => \A n \in Names(Current) :
              <<Current, n>> \in PlainWarl /\ pending.v[n] \in Legal(Current, n)
                => regs'[Current][n] = pending.v[n]
LegalWritesKept == [][KeptOnCommit]_vars

\* LegalWritesKept strengthened to an invariant, for its proof: during a
\* write, a field whose statement has not run still holds the written bits
\* in m, and a WARL field written with a legal value holds it after its
\* statement.
KeptSoFar ==
  pending.busy =>
    \A i \in 1..Len(Order[pending.reg]) :
      LET n == Order[pending.reg][i]
      IN  /\ i >= pending.idx => pending.m[n] = pending.v[n]
          /\ (i < pending.idx /\ <<pending.reg, n>> \in PlainWarl
              /\ pending.v[n] \in Legal(pending.reg, n))
               => pending.m[n] = pending.v[n]

=============================================================================
