-------------------------- MODULE CsrFile_proofs ---------------------------
(***************************************************************************)
(* Proofs about the register file of CsrFile, for every configuration     *)
(* that satisfies its assumptions: the register values and the write in   *)
(* progress keep their types, and no write_csr, shadow write or reset     *)
(* stores an illegal value in a WARL field without dependencies.          *)
(***************************************************************************)
EXTENDS CsrFile, TLAPS

\* Replacing one field of a register value by a value of that field's width
\* gives a register value.
LEMMA UpdateRegVal ==
  ASSUME NEW r, NEW g, NEW n \in Names(r), NEW x \in Vals(r, n), IsRegVal(r, g)
  PROVE  IsRegVal(r, [g EXCEPT ![n] = x])
<1>1. x \in Nat
  BY DEF Vals
<1> QED
  BY <1>1 DEF IsRegVal

\* The field whose statement runs next is a field of the register written.
LEMMA FieldInNames ==
  ASSUME TypeOK, pending.busy, pending.idx <= Len(Order[Current])
  PROVE  /\ Current \in Regs
         /\ pending.idx \in 1..Len(Order[Current])
         /\ Field \in Names(Current)
BY DEF TypeOK, Field, Current, Names

\* The dependency values a field's statement reads have their types.
LEMMA EnvType ==
  ASSUME TypeOK, NEW r \in Regs, NEW n \in Names(r)
  PROVE  Env(r, n, regs) \in EnvVals(r, n)
<1>1. \A d \in Desc[r][n].deps : d[1] \in Regs /\ d[2] \in Names(d[1])
  BY DescAssumption
<1>2. \A d \in Desc[r][n].deps : regs[d[1]][d[2]] \in Vals(d[1], d[2])
  BY <1>1 DEF TypeOK, IsRegVal
<1> QED
  BY <1>2 DEF Env, EnvVals

\* What the legalizer returns for the field whose statement runs next.
LEMMA LegalizeInVals ==
  ASSUME TypeOK, NEW r \in Regs, NEW n \in Names(r), Desc[r][n].kind = "warl",
         NEW o \in Vals(r, n), NEW v \in Vals(r, n)
  PROVE  Legalize(r, n, o, v, Env(r, n, regs)) \in Vals(r, n)
<1>1. <<r, n>> \in WarlFields
  BY DEF WarlFields
<1>2. Env(r, n, regs) \in EnvVals(r, n)
  BY EnvType
<1> QED
  BY <1>1, <1>2, LegalizeType

\* A field step replaces m by a register value and moves to the next
\* statement; the written value and the register stay.
LEMMA AdvanceType ==
  ASSUME TypeOK, pending.busy, pending.idx <= Len(Order[Current]),
         NEW m, IsRegVal(Current, m), Advance(m)
  PROVE  /\ pending'.busy
         /\ pending'.reg = Current
         /\ pending'.reg \in Regs
         /\ IsRegVal(pending'.reg, pending'.v)
         /\ IsRegVal(pending'.reg, pending'.m)
         /\ pending'.idx \in 1..Len(Order[pending'.reg]) + 1
BY DEF TypeOK, Advance, Current

-----------------------------------------------------------------------------
(* The types of the register file and of the write in progress are kept   *)
(* by every step: write_csr, each field statement, the commit and reset.  *)
LEMMA InitTypeOK == Init => TypeOK
BY ResetAssumption DEF Init, TypeOK

LEMMA NextTypeOK == TypeOK /\ [Next]_vars => TypeOK'
<1> SUFFICES ASSUME TypeOK, [Next]_vars PROVE TypeOK'
  OBVIOUS
<1>1. ASSUME NEW r \in Regs, NEW v \in WriteValues(r), StartWrite(r, v)
      PROVE  TypeOK'
  BY <1>1 DEF StartWrite, TypeOK, WriteValues
<1>2. CASE WarlStep
  <2>1. /\ Current \in Regs /\ Field \in Names(Current)
        /\ pending.idx <= Len(Order[Current]) /\ pending.busy /\ D.kind = "warl"
    BY <1>2, FieldInNames DEF WarlStep, Stepping
  <2>2. /\ regs[Current][Field] \in Vals(Current, Field)
        /\ pending.m[Field] \in Vals(Current, Field)
    BY <2>1 DEF TypeOK, IsRegVal, Current
  <2>3. Legalize(Current, Field, regs[Current][Field], pending.m[Field],
                 Env(Current, Field, regs)) \in Vals(Current, Field)
    BY <2>1, <2>2, LegalizeInVals DEF D
  <2>4. IsRegVal(Current, [pending.m EXCEPT ![Field] =
          Legalize(Current, Field, regs[Current][Field], pending.m[Field],
                   Env(Current, Field, regs))])
    BY <2>1, <2>3, UpdateRegVal DEF TypeOK, Current
  <2> QED
    BY <1>2, <2>1, <2>4, AdvanceType DEF WarlStep, TypeOK
<1>3. CASE ConstantStep
  <2>1. /\ Current \in Regs /\ Field \in Names(Current)
        /\ pending.idx <= Len(Order[Current]) /\ pending.busy /\ D.kind = "ro_constant"
    BY <1>3, FieldInNames DEF ConstantStep, Stepping
  <2>2. D.value \in Vals(Current, Field)
    BY <2>1, DescAssumption DEF D
  <2>3. IsRegVal(Current, [pending.m EXCEPT ![Field] = D.value])
    BY <2>1, <2>2, UpdateRegVal DEF TypeOK, Current
  <2> QED
    BY <1>3, <2>1, <2>3, AdvanceType DEF ConstantStep, TypeOK
<1>4. CASE KeepStep
  <2>1. /\ Current \in Regs /\ Field \in Names(Current)
        /\ pending.idx <= Len(Order[Current]) /\ pending.busy
    BY <1>4, FieldInNames DEF KeepStep, Stepping
  <2>2. regs[Current][Field] \in Vals(Current, Field)
    BY <2>1 DEF TypeOK, IsRegVal
  <2>3. IsRegVal(Current, [pending.m EXCEPT ![Field] = regs[Current][Field]])
    BY <2>1, <2>2, UpdateRegVal DEF TypeOK, Current
  <2> QED
    BY <1>4, <2>1, <2>3, AdvanceType DEF KeepStep, TypeOK
<1>5. CASE PlainStep
  <2>1. /\ pending.idx <= Len(Order[Current]) /\ pending.busy
    BY <1>5 DEF PlainStep, Stepping
  <2>2. IsRegVal(Current, pending.m)
    BY <2>1 DEF TypeOK, Current
  <2> QED
    BY <1>5, <2>1, <2>2, AdvanceType DEF PlainStep, TypeOK
<1>6. CASE ShadowStep
  <2> DEFINE r == Current
             n == Field
             t == D.treg
             g == D.tfield
             new == IF Desc[t][g].kind = "warl"
                    THEN Legalize(t, g, regs[t][g], pending.v[n], Env(t, g, regs))
                    ELSE pending.v[n]
  <2>1. /\ r \in Regs /\ n \in Names(r)
        /\ pending.idx <= Len(Order[r]) /\ pending.busy /\ D.kind = "shadow_rw"
    BY <1>6, FieldInNames DEF ShadowStep, Stepping
  <2>2. /\ t \in Regs \ {r} /\ g \in Names(t)
        /\ Vals(t, g) = Vals(r, n)
    BY <2>1, DescAssumption DEF D, Vals
  <2>3. /\ regs[t][g] \in Vals(t, g)
        /\ pending.v[n] \in Vals(t, g)
    BY <2>1, <2>2 DEF TypeOK, IsRegVal, Current
  <2>4. new \in Vals(t, g)
    BY <2>2, <2>3, LegalizeInVals
  <2>5. /\ regs' = [regs EXCEPT ![t][g] = new]
        /\ Advance([pending.m EXCEPT ![n] = new])
    BY <1>6 DEF ShadowStep
  <2>6. IsRegVal(t, [regs[t] EXCEPT ![g] = new])
    BY <2>2, <2>4, UpdateRegVal DEF TypeOK
  <2>7. \A x \in Regs : IsRegVal(x, regs'[x])
    BY <2>2, <2>5, <2>6 DEF TypeOK
  <2>8. IsRegVal(r, [pending.m EXCEPT ![n] = new])
    BY <2>1, <2>2, <2>4, UpdateRegVal DEF TypeOK, Current
  <2> QED
    BY <2>1, <2>5, <2>7, <2>8, AdvanceType DEF TypeOK
<1>7. CASE Commit
  BY <1>7 DEF Commit, TypeOK, Current
<1>8. CASE Reset
  BY <1>8, ResetAssumption DEF Reset, TypeOK
<1>9. CASE UNCHANGED vars
  BY <1>9 DEF vars, TypeOK
<1> QED
  BY <1>1, <1>2, <1>3, <1>4, <1>5, <1>6, <1>7, <1>8, <1>9 DEF Next

\* The register file and the write in progress keep their types.
THEOREM TypeCorrect == Spec => []TypeOK
BY InitTypeOK, NextTypeOK, PTL DEF Spec

-----------------------------------------------------------------------------
(* Legality.  A field without dependencies reads no register, so its      *)
(* legalizer sees the same (empty) dependency values in every state.      *)
LEMMA EnvEmpty ==
  ASSUME NEW f \in PlainWarl, NEW s
  PROVE  Env(f[1], f[2], s) = Env(f[1], f[2], << >>)
BY DEF PlainWarl, Env

\* The legalizer keeps a legal stored value of such a field legal.
LEMMA LegalizeLegal ==
  ASSUME NEW f \in PlainWarl, NEW o \in Legal(f[1], f[2]),
         NEW v \in Vals(f[1], f[2]), NEW s
  PROVE  Legalize(f[1], f[2], o, v, Env(f[1], f[2], s)) \in Legal(f[1], f[2])
BY EnvEmpty, LegalizeSound

\* The fields of a register have distinct names, so a statement rewrites
\* only its own field of m.
LEMMA OtherField ==
  ASSUME NEW r \in Regs, NEW i \in 1..Len(Order[r]), NEW j \in 1..Len(Order[r]), i # j
  PROVE  Order[r][i] # Order[r][j]
BY OrderAssumption

\* A <<register, field>> pair names a WARL field without dependencies only
\* when the field's kind is "warl".
LEMMA PlainWarlKind ==
  ASSUME NEW r, NEW n, <<r, n>> \in PlainWarl
  PROVE  Desc[r][n].kind = "warl" /\ r \in Regs /\ n \in Names(r)
BY DEF PlainWarl, WarlFields

LEMMA InitStoredLegalInv == Init => StoredLegalInv
<1> SUFFICES ASSUME Init PROVE StoredLegalInv
  OBVIOUS
<1>1. TypeOK
  BY InitTypeOK
<1>2. StoredLegal
  BY LegalizeSound DEF Init, StoredLegal
<1>3. LegalizedSoFar
  BY DEF Init, LegalizedSoFar
<1> QED
  BY <1>1, <1>2, <1>3 DEF StoredLegalInv

\* A field statement that stores x into m keeps every field legalized so
\* far, provided x is legal when the field is a WARL field.
LEMMA StepKeepsLegalized ==
  ASSUME TypeOK, LegalizedSoFar, pending.busy, pending.idx <= Len(Order[Current]),
         NEW x, <<Current, Field>> \in PlainWarl => x \in Legal(Current, Field),
         pending' = [pending EXCEPT !.m = [pending.m EXCEPT ![Field] = x],
                                    !.idx = @ + 1]
  PROVE  LegalizedSoFar'
<1> DEFINE r == Current
           n == Field
<1>1. r \in Regs /\ pending.idx \in 1..Len(Order[r]) /\ n \in Names(r)
  BY FieldInNames
<1>2. /\ pending'.busy /\ pending'.reg = r /\ pending'.idx = pending.idx + 1
      /\ pending'.m = [pending.m EXCEPT ![n] = x]
  BY DEF Current
<1>3. DOMAIN pending.m = Names(r)
  BY <1>1 DEF TypeOK, IsRegVal, Current
<1> SUFFICES ASSUME NEW i \in 1..pending'.idx - 1, <<r, Order[r][i]>> \in PlainWarl
             PROVE  pending'.m[Order[r][i]] \in Legal(r, Order[r][i])
  BY <1>2 DEF LegalizedSoFar
<1>4. CASE i = pending.idx
  BY <1>1, <1>2, <1>3, <1>4 DEF Field
<1>5. CASE i # pending.idx
  <2>1. i \in 1..pending.idx - 1
    BY <1>1, <1>2, <1>5
  <2>2. Order[r][i] # n
    BY <1>1, <2>1, OtherField DEF Field
  <2>3. pending'.m[Order[r][i]] = pending.m[Order[r][i]]
    BY <1>2, <2>2
  <2> QED
    BY <2>1, <2>3 DEF LegalizedSoFar, Current
<1> QED
  BY <1>4, <1>5

\* A statement of a field that is not a WARL field keeps every field
\* legalized so far, and leaves regs alone unless it is a shadow's.
LEMMA NonWarlStep ==
  ASSUME TypeOK, LegalizedSoFar, pending.busy, pending.idx <= Len(Order[Current]),
         D.kind # "warl", NEW x,
         pending' = [pending EXCEPT !.m = [pending.m EXCEPT ![Field] = x],
                                    !.idx = @ + 1]
  PROVE  LegalizedSoFar'
<1>1. <<Current, Field>> \notin PlainWarl
  BY PlainWarlKind DEF D
<1> QED
  BY <1>1, StepKeepsLegalized

LEMMA NextStoredLegalInv == StoredLegalInv /\ [Next]_vars => StoredLegalInv'
<1> SUFFICES ASSUME StoredLegalInv, [Next]_vars PROVE StoredLegalInv'
  OBVIOUS
<1>T. TypeOK /\ StoredLegal /\ LegalizedSoFar
  BY DEF StoredLegalInv
<1>0. TypeOK'
  BY <1>T, NextTypeOK
<1> SUFFICES StoredLegal' /\ LegalizedSoFar'
  BY <1>0 DEF StoredLegalInv
<1>1. ASSUME NEW r \in Regs, NEW v \in WriteValues(r), StartWrite(r, v)
      PROVE  StoredLegal' /\ LegalizedSoFar'
  BY <1>T, <1>1 DEF StartWrite, StoredLegal, LegalizedSoFar
<1>2. CASE WarlStep
  <2> DEFINE r == Current
             n == Field
             new == Legalize(r, n, regs[r][n], pending.m[n], Env(r, n, regs))
  <2>1. /\ r \in Regs /\ n \in Names(r) /\ pending.idx <= Len(Order[r])
        /\ pending.busy
    BY <1>T, <1>2, FieldInNames DEF WarlStep, Stepping
  <2>2. <<r, n>> \in PlainWarl => new \in Legal(r, n)
    <3> SUFFICES ASSUME <<r, n>> \in PlainWarl PROVE new \in Legal(r, n)
      OBVIOUS
    <3>1. regs[r][n] \in Legal(r, n)
      BY <1>T DEF StoredLegal
    <3>2. pending.m[n] \in Vals(r, n)
      BY <1>T, <2>1 DEF TypeOK, IsRegVal, Current
    <3> QED
      BY <3>1, <3>2, LegalizeLegal
  <2>3. LegalizedSoFar'
    BY <1>T, <1>2, <2>1, <2>2, StepKeepsLegalized DEF WarlStep, Advance
  <2> QED
    BY <1>T, <1>2, <2>3 DEF WarlStep, StoredLegal
<1>3. CASE ConstantStep
  <2>1. LegalizedSoFar'
    BY <1>T, <1>3, NonWarlStep DEF ConstantStep, Stepping, Advance
  <2> QED
    BY <1>T, <1>3, <2>1 DEF ConstantStep, StoredLegal
<1>4. CASE KeepStep
  <2>1. LegalizedSoFar'
    BY <1>T, <1>4, NonWarlStep DEF KeepStep, Stepping, Advance
  <2> QED
    BY <1>T, <1>4, <2>1 DEF KeepStep, StoredLegal
<1>5. CASE PlainStep
  <2>1. pending.busy /\ pending.idx <= Len(Order[Current])
    BY <1>5 DEF PlainStep, Stepping
  <2>2. pending.m = [pending.m EXCEPT ![Field] = pending.m[Field]]
    <3>1. Field \in Names(Current)
      BY <1>T, <2>1, FieldInNames
    <3> QED
      BY <1>T, <2>1, <3>1 DEF TypeOK, IsRegVal, Current
  <2>3. LegalizedSoFar'
    BY <1>T, <1>5, <2>1, <2>2, NonWarlStep DEF PlainStep, Stepping, Advance
  <2> QED
    BY <1>T, <1>5, <2>3 DEF PlainStep, StoredLegal
<1>6. CASE ShadowStep
  <2> DEFINE r == Current
             n == Field
             t == D.treg
             g == D.tfield
             new == IF Desc[t][g].kind = "warl"
                    THEN Legalize(t, g, regs[t][g], pending.v[n], Env(t, g, regs))
                    ELSE pending.v[n]
  <2>1. /\ r \in Regs /\ n \in Names(r)
        /\ pending.idx <= Len(Order[r]) /\ pending.busy /\ D.kind = "shadow_rw"
    BY <1>T, <1>6, FieldInNames DEF ShadowStep, Stepping
  <2>2. /\ t \in Regs \ {r} /\ g \in Names(t)
        /\ Vals(t, g) = Vals(r, n)
    BY <2>1, DescAssumption DEF D, Vals
  <2>3. /\ regs' = [regs EXCEPT ![t][g] = new]
        /\ pending' = [pending EXCEPT !.m = [pending.m EXCEPT ![n] = new], !.idx = @ + 1]
    BY <1>6 DEF ShadowStep, Advance
  <2>4. LegalizedSoFar'
    BY <1>T, <2>1, <2>3, NonWarlStep
  <2>5. <<t, g>> \in PlainWarl => new \in Legal(t, g)
    <3> SUFFICES ASSUME <<t, g>> \in PlainWarl PROVE new \in Legal(t, g)
      OBVIOUS
    <3>1. Desc[t][g].kind = "warl"
      BY PlainWarlKind
    <3>2. regs[t][g] \in Legal(t, g)
      BY <1>T DEF StoredLegal
    <3>3. pending.v[n] \in Vals(t, g)
      BY <1>T, <2>1, <2>2 DEF TypeOK, IsRegVal, Current
    <3> QED
      BY <3>1, <3>2, <3>3, LegalizeLegal
  <2>6. StoredLegal'
    <3> SUFFICES ASSUME NEW f \in PlainWarl PROVE regs'[f[1]][f[2]] \in Legal(f[1], f[2])
      BY DEF StoredLegal
    <3>1. f = <<f[1], f[2]>> /\ f[1] \in Regs /\ f[2] \in Names(f[1])
      BY DEF PlainWarl, WarlFields
    <3>2. CASE f = <<t, g>>
      BY <1>T, <2>2, <2>3, <2>5, <3>1, <3>2 DEF TypeOK, IsRegVal
    <3>3. CASE f # <<t, g>>
      <4>1. regs'[f[1]][f[2]] = regs[f[1]][f[2]]
        BY <1>T, <2>2, <2>3, <3>1, <3>3 DEF TypeOK, IsRegVal
      <4> QED
        BY <1>T, <4>1 DEF StoredLegal
    <3> QED
      BY <3>2, <3>3
  <2> QED
    BY <2>4, <2>6
<1>7. CASE Commit
  <2> DEFINE r == Current
  <2>1. /\ pending.busy /\ r \in Regs
        /\ pending.idx = Len(Order[r]) + 1
    BY <1>T, <1>7 DEF Commit, TypeOK, Current
  <2>2. \A n \in Names(r) : <<r, n>> \in PlainWarl => pending.m[n] \in Legal(r, n)
    BY <1>T, <2>1 DEF LegalizedSoFar, Names, Current
  <2>3. StoredLegal'
    <3> SUFFICES ASSUME NEW f \in PlainWarl PROVE regs'[f[1]][f[2]] \in Legal(f[1], f[2])
      BY DEF StoredLegal
    <3>1. f = <<f[1], f[2]>> /\ f[1] \in Regs /\ f[2] \in Names(f[1])
      BY DEF PlainWarl, WarlFields
    <3>2. CASE f[1] = r
      BY <1>T, <1>7, <2>2, <3>1, <3>2 DEF Commit, TypeOK
    <3>3. CASE f[1] # r
      BY <1>T, <1>7, <3>1, <3>3 DEF Commit, TypeOK, StoredLegal
    <3> QED
      BY <3>2, <3>3
  <2> QED
    BY <1>7, <2>3 DEF Commit, LegalizedSoFar
<1>8. CASE Reset
  BY <1>8, LegalizeSound DEF Reset, Idle, StoredLegal, LegalizedSoFar, PlainWarl, WarlFields
<1>9. CASE UNCHANGED vars
  BY <1>T, <1>9 DEF vars, StoredLegal, LegalizedSoFar
<1> QED
  BY <1>1, <1>2, <1>3, <1>4, <1>5, <1>6, <1>7, <1>8, <1>9 DEF Next

\* No write_csr, shadow write or reset ever leaves a WARL field without
\* dependencies holding a value its legal string forbids, for every
\* register file whose legalizers keep legal values legal.
THEOREM StoredLegalInvariant == Spec => []StoredLegal
<1>1. StoredLegalInv => StoredLegal
  BY DEF StoredLegalInv
<1> QED
  BY InitStoredLegalInv, NextStoredLegalInv, <1>1, PTL DEF Spec

=============================================================================
