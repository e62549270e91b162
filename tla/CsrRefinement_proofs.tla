----------------------- MODULE CsrRefinement_proofs -----------------------
(***************************************************************************)
(* Proofs that the register file of CsrFile implements CsrAbstract under  *)
(* the mapping writing <- Writing, and that a legal value written to a    *)
(* WARL field without dependencies is stored as written.  They rest on    *)
(* the invariants of CsrFile_proofs.                                       *)
(***************************************************************************)
EXTENDS CsrFile_proofs

\* The inductive invariant of CsrFile_proofs holds in every state.
THEOREM StoredLegalInvHolds == Spec => []StoredLegalInv
BY InitStoredLegalInv, NextStoredLegalInv, PTL DEF Spec

\* CsrAbstract is instantiated with the constants of CsrFile, so its
\* layout definitions are CsrFile's.
LEMMA AbstractLayout ==
  /\ \A r : Abstract!Names(r) = Names(r)
  /\ \A r, n : Abstract!Vals(r, n) = Vals(r, n)
  /\ \A r, g : Abstract!IsRegVal(r, g) = IsRegVal(r, g)
  /\ Abstract!PlainWarl = PlainWarl
<1>1. \A r : Abstract!Names(r) = Names(r)
  BY DEF Abstract!Names, Names
<1>2. \A r, n : Abstract!Vals(r, n) = Vals(r, n)
  BY DEF Abstract!Vals, Vals
<1>3. \A r, g : Abstract!IsRegVal(r, g) = IsRegVal(r, g)
  BY <1>1, <1>2 DEF Abstract!IsRegVal, IsRegVal
<1>4. Abstract!WarlFields = WarlFields
  BY <1>1 DEF Abstract!WarlFields, WarlFields
<1> QED
  BY <1>1, <1>2, <1>3, <1>4 DEF Abstract!PlainWarl, PlainWarl

\* A field statement leaves the write in progress running, through the
\* same register.
LEMMA AdvanceFrame ==
  ASSUME NEW m, Advance(m)
  PROVE  pending'.busy = pending.busy /\ pending'.reg = pending.reg
BY DEF Advance

\* A typed register value whose WARL fields without dependencies hold
\* legal values is one CsrAbstract calls legal.
LEMMA LegalRegVal ==
  ASSUME NEW s \in Regs, NEW g, IsRegVal(s, g),
         \A n \in Names(s) : <<s, n>> \in PlainWarl => g[n] \in Legal(s, n)
  PROVE  Abstract!LegalRegVal(s, g)
BY AbstractLayout DEF Abstract!LegalRegVal

\* A step that assigns only fields writable through r, between two states
\* of StoredLegalInv, is an assignment CsrAbstract allows.
LEMMA AssignsFromFrame ==
  ASSUME StoredLegalInv, StoredLegalInv', NEW r \in Regs,
         \A s \in Regs : \A n \in Names(s) :
           regs'[s][n] # regs[s][n] => <<s, n>> \in Abstract!Writable(r)
  PROVE  Abstract!Assigns(r)
<1>1. DOMAIN regs' = Regs
  BY DEF StoredLegalInv, TypeOK
<1>2. ASSUME NEW s \in Regs PROVE Abstract!LegalRegVal(s, regs'[s])
  <2>1. IsRegVal(s, regs'[s])
    BY DEF StoredLegalInv, TypeOK
  <2>2. \A n \in Names(s) : <<s, n>> \in PlainWarl => regs'[s][n] \in Legal(s, n)
    BY DEF StoredLegalInv, StoredLegal
  <2> QED
    BY <2>1, <2>2, LegalRegVal
<1> QED
  BY <1>1, <1>2, AbstractLayout DEF Abstract!Assigns

\* The register file implements CsrAbstract: writes begin, assign only
\* fields writable through the register written (its own and its shadows'
\* targets), leave every assigned register legal and end; reset_regs runs
\* between writes.  It holds for every configuration meeting the
\* assumptions of CsrLayout and CsrFile.
THEOREM Refinement == Spec => AbstractSpec
<1>1. Init => Abstract!Init
  BY DEF Init, Abstract!Init, Writing
<1>2. StoredLegalInv /\ StoredLegalInv' /\ [Next]_vars => [Abstract!Next]_Abstract!vars
  <2> SUFFICES ASSUME StoredLegalInv, StoredLegalInv', [Next]_vars
               PROVE  [Abstract!Next]_Abstract!vars
    OBVIOUS
  <2>T. TypeOK
    BY DEF StoredLegalInv
  <2>1. ASSUME NEW r \in Regs, NEW v \in WriteValues(r), StartWrite(r, v)
        PROVE  Abstract!Begin(r)
    BY <2>1 DEF StartWrite, Idle, Abstract!Begin, Writing
  <2>2. ASSUME WarlStep \/ ConstantStep \/ KeepStep \/ PlainStep
        PROVE  UNCHANGED Abstract!vars
    <3>1. UNCHANGED regs /\ \E m : Advance(m)
      <4>1. CASE WarlStep
        BY <4>1 DEF WarlStep
      <4>2. CASE ConstantStep
        BY <4>2 DEF ConstantStep
      <4>3. CASE KeepStep
        BY <4>3 DEF KeepStep
      <4>4. CASE PlainStep
        BY <4>4 DEF PlainStep
      <4> QED
        BY <2>2, <4>1, <4>2, <4>3, <4>4
    <3>2. pending'.busy = pending.busy /\ pending'.reg = pending.reg
      BY <3>1, AdvanceFrame
    <3> QED
      BY <3>1, <3>2 DEF Abstract!vars, Writing
  <2>3. CASE ShadowStep
    <3> DEFINE t == D.treg
               g == D.tfield
    <3>1. /\ Current \in Regs /\ Field \in Names(Current) /\ pending.busy
          /\ D.kind = "shadow_rw"
      BY <2>T, <2>3, FieldInNames DEF ShadowStep, Stepping
    <3>2. t \in Regs \ {Current} /\ g \in Names(t)
      BY <3>1, DescAssumption DEF D
    <3>3. regs' = [regs EXCEPT ![t][g] =
                    IF Desc[t][g].kind = "warl"
                    THEN Legalize(t, g, regs[t][g], pending.v[Field], Env(t, g, regs))
                    ELSE pending.v[Field]]
      BY <2>3 DEF ShadowStep
    <3>8. pending'.busy /\ pending'.reg = Current
      <4>1. \E m : Advance(m)
        BY <2>3 DEF ShadowStep
      <4> QED
        BY <3>1, <4>1, AdvanceFrame DEF Current
    <3>4. <<t, g>> \in Abstract!Writable(Current)
      BY <3>1, AbstractLayout DEF Abstract!Writable, D
    <3>5. \A s \in Regs : \A n \in Names(s) :
            regs'[s][n] # regs[s][n] => <<s, n>> \in Abstract!Writable(Current)
      BY <2>T, <3>2, <3>3, <3>4 DEF TypeOK, IsRegVal
    <3>6. Abstract!Assigns(Current)
      BY <3>1, <3>5, AssignsFromFrame
    <3>7. Writing = {Current} /\ Writing' = {Current}
      BY <3>1, <3>8 DEF Writing, Current
    <3> QED
      BY <3>6, <3>7 DEF Abstract!Next, Abstract!Assign
  <2>4. CASE Commit
    <3>1. pending.busy /\ Current \in Regs /\ ~pending'.busy
      BY <2>T, <2>4 DEF Commit, TypeOK, Current
    <3>2. \A s \in Regs : \A n \in Names(s) :
            regs'[s][n] # regs[s][n] => <<s, n>> \in Abstract!Writable(Current)
      BY <2>T, <2>4, <3>1, AbstractLayout DEF Commit, TypeOK, Abstract!Writable
    <3>3. Abstract!Assigns(Current)
      BY <3>1, <3>2, AssignsFromFrame
    <3>4. Writing = {Current} /\ Writing' = {}
      BY <3>1 DEF Writing, Current
    <3> QED
      BY <3>3, <3>4 DEF Abstract!Next, Abstract!Finish
  <2>5. CASE Reset
    BY <2>5 DEF Reset, Idle, Abstract!Next, Abstract!Reset, Writing
  <2>6. CASE UNCHANGED vars
    BY <2>6 DEF vars, Abstract!vars, Writing
  <2> QED
    BY <2>1, <2>2, <2>3, <2>4, <2>5, <2>6 DEF Next, Abstract!Next
<1> QED
  BY <1>1, <1>2, StoredLegalInvHolds, PTL DEF Spec, AbstractSpec, Abstract!Spec

-----------------------------------------------------------------------------
(* A legal write is kept.  KeptSoFar follows the written bits through m:  *)
(* Mk_R(value) puts them there, a statement rewrites only its own field,  *)
(* and legalize_R_F(o.F(), m.F()) returns m.F() when it is legal.          *)
LEMMA InitKept == Init => KeptSoFar
BY DEF Init, KeptSoFar

\* A field statement that stores x in m keeps KeptSoFar, provided x is the
\* written value when the field is a WARL field written with a legal value.
LEMMA StepKeepsKept ==
  ASSUME TypeOK, KeptSoFar, pending.busy, pending.idx <= Len(Order[Current]),
         NEW x,
         <<Current, Field>> \in PlainWarl /\ pending.v[Field] \in Legal(Current, Field)
           => x = pending.v[Field],
         pending' = [pending EXCEPT !.m = [pending.m EXCEPT ![Field] = x],
                                    !.idx = @ + 1]
  PROVE  KeptSoFar'
<1> DEFINE r == Current
           n == Field
<1>1. r \in Regs /\ pending.idx \in 1..Len(Order[r]) /\ n \in Names(r)
  BY FieldInNames
<1>2. /\ pending'.busy /\ pending'.reg = r /\ pending'.idx = pending.idx + 1
      /\ pending'.m = [pending.m EXCEPT ![n] = x] /\ pending'.v = pending.v
  BY DEF Current
<1>3. DOMAIN pending.m = Names(r)
  BY <1>1 DEF TypeOK, IsRegVal, Current
<1> SUFFICES ASSUME NEW i \in 1..Len(Order[r])
             PROVE  /\ i >= pending'.idx => pending'.m[Order[r][i]] = pending'.v[Order[r][i]]
                    /\ (/\ i < pending'.idx /\ <<r, Order[r][i]>> \in PlainWarl
                        /\ pending'.v[Order[r][i]] \in Legal(r, Order[r][i]))
                         => pending'.m[Order[r][i]] = pending'.v[Order[r][i]]
  BY <1>2 DEF KeptSoFar
<1>4. CASE i = pending.idx
  BY <1>1, <1>2, <1>3, <1>4 DEF Field
<1>5. CASE i # pending.idx
  <2>1. Order[r][i] # n
    BY <1>1, <1>5, OtherField DEF Field
  <2>2. pending'.m[Order[r][i]] = pending.m[Order[r][i]]
    BY <1>2, <2>1
  <2>3. /\ i >= pending.idx => pending.m[Order[r][i]] = pending.v[Order[r][i]]
        /\ (/\ i < pending.idx /\ <<r, Order[r][i]>> \in PlainWarl
            /\ pending.v[Order[r][i]] \in Legal(r, Order[r][i]))
             => pending.m[Order[r][i]] = pending.v[Order[r][i]]
    BY DEF KeptSoFar, Current
  <2> QED
    BY <1>1, <1>2, <1>5, <2>2, <2>3
<1> QED
  BY <1>4, <1>5

\* A statement of a field that is not a WARL field keeps KeptSoFar.
LEMMA NonWarlKept ==
  ASSUME TypeOK, KeptSoFar, pending.busy, pending.idx <= Len(Order[Current]),
         D.kind # "warl", NEW x,
         pending' = [pending EXCEPT !.m = [pending.m EXCEPT ![Field] = x],
                                    !.idx = @ + 1]
  PROVE  KeptSoFar'
<1>1. <<Current, Field>> \notin PlainWarl
  BY PlainWarlKind DEF D
<1> QED
  BY <1>1, StepKeepsKept

LEMMA NextKept == TypeOK /\ KeptSoFar /\ [Next]_vars => KeptSoFar'
<1> SUFFICES ASSUME TypeOK, KeptSoFar, [Next]_vars PROVE KeptSoFar'
  OBVIOUS
<1>1. ASSUME NEW r \in Regs, NEW v \in WriteValues(r), StartWrite(r, v)
      PROVE  KeptSoFar'
  BY <1>1 DEF StartWrite, KeptSoFar
<1>2. CASE WarlStep
  <2> DEFINE r == Current
             n == Field
             new == Legalize(r, n, regs[r][n], pending.m[n], Env(r, n, regs))
  <2>1. /\ r \in Regs /\ n \in Names(r) /\ pending.idx \in 1..Len(Order[r])
        /\ pending.busy /\ pending.idx <= Len(Order[Current])
    BY <1>2, FieldInNames DEF WarlStep, Stepping
  <2>2. pending.m[n] = pending.v[n]
    <3>1. \A i \in 1..Len(Order[r]) :
            i >= pending.idx => pending.m[Order[r][i]] = pending.v[Order[r][i]]
      BY <2>1 DEF KeptSoFar, Current
    <3> QED
      BY <2>1, <3>1 DEF Field
  <2>3. <<r, n>> \in PlainWarl /\ pending.v[n] \in Legal(r, n)
          => new = pending.v[n]
    <3> SUFFICES ASSUME <<r, n>> \in PlainWarl, pending.v[n] \in Legal(r, n)
                 PROVE  new = pending.v[n]
      OBVIOUS
    <3>1. regs[r][n] \in Vals(r, n)
      BY <2>1 DEF TypeOK, IsRegVal
    <3>2. Env(r, n, regs) = Env(r, n, << >>)
      BY EnvEmpty
    <3>3. \A o \in Vals(r, n) : \A w \in Legal(r, n) :
            Legalize(r, n, o, w, Env(r, n, << >>)) = w
      BY LegalizeKeepsLegal
    <3> QED
      BY <2>2, <3>1, <3>2, <3>3
  <2>4. pending' = [pending EXCEPT !.m = [pending.m EXCEPT ![n] = new], !.idx = @ + 1]
    BY <1>2 DEF WarlStep, Advance
  <2> QED
    BY <2>1, <2>3, <2>4, StepKeepsKept
<1>3. CASE ConstantStep
  BY <1>3, NonWarlKept DEF ConstantStep, Stepping, Advance
<1>4. CASE KeepStep
  BY <1>4, NonWarlKept DEF KeepStep, Stepping, Advance
<1>5. CASE PlainStep
  <2>1. pending.busy /\ pending.idx <= Len(Order[Current])
    BY <1>5 DEF PlainStep, Stepping
  <2>2. pending.m = [pending.m EXCEPT ![Field] = pending.m[Field]]
    <3>1. Field \in Names(Current)
      BY <2>1, FieldInNames
    <3> QED
      BY <2>1, <3>1 DEF TypeOK, IsRegVal, Current
  <2> QED
    BY <1>5, <2>1, <2>2, NonWarlKept DEF PlainStep, Stepping, Advance
<1>6. CASE ShadowStep
  BY <1>6, NonWarlKept DEF ShadowStep, Stepping, Advance
<1>7. CASE Commit
  BY <1>7 DEF Commit, KeptSoFar
<1>8. CASE Reset
  BY <1>8 DEF Reset, Idle, KeptSoFar
<1>9. CASE UNCHANGED vars
  BY <1>9 DEF vars, KeptSoFar
<1> QED
  BY <1>1, <1>2, <1>3, <1>4, <1>5, <1>6, <1>7, <1>8, <1>9 DEF Next

\* At the assignment of write_csr every statement has run, so every WARL
\* field written with a legal value holds it in m.
LEMMA CommitKept == TypeOK /\ KeptSoFar => KeptOnCommit
<1> SUFFICES ASSUME TypeOK, KeptSoFar, Commit,
                    NEW n \in Names(Current), <<Current, n>> \in PlainWarl,
                    pending.v[n] \in Legal(Current, n)
             PROVE  regs'[Current][n] = pending.v[n]
  BY DEF KeptOnCommit
<1>1. pending.busy /\ Current \in Regs /\ pending.idx = Len(Order[Current]) + 1
  BY DEF Commit, TypeOK, Current
<1>2. PICK i \in 1..Len(Order[Current]) : Order[Current][i] = n
  BY DEF Names
<1>3. pending.m[n] = pending.v[n]
  BY <1>1, <1>2 DEF KeptSoFar, Current
<1>4. regs'[Current][n] = pending.m[n]
  BY <1>1 DEF Commit, TypeOK
<1> QED
  BY <1>3, <1>4

\* A write_csr whose value is legal for a WARL field without dependencies
\* stores it there unchanged, for every configuration whose legalizers
\* return legal values as written (LegalizeKeepsLegal).
THEOREM LegalWritesKeptHolds == Spec => LegalWritesKept
<1>1. Init => TypeOK /\ KeptSoFar
  BY InitTypeOK, InitKept
<1>2. TypeOK /\ KeptSoFar /\ [Next]_vars => (TypeOK /\ KeptSoFar)'
  BY NextTypeOK, NextKept
<1> QED
  BY <1>1, <1>2, CommitKept, PTL DEF Spec, LegalWritesKept

\* While a write_csr runs, every field whose statement has not run still
\* holds the written value in m (Mk_R(value)), and every WARL field without
\* dependencies whose written value is legal holds it after its statement.
THEOREM KeptSoFarHolds == Spec => []KeptSoFar
<1>1. Init => TypeOK /\ KeptSoFar
  BY InitTypeOK, InitKept
<1>2. TypeOK /\ KeptSoFar /\ [Next]_vars => (TypeOK /\ KeptSoFar)'
  BY NextTypeOK, NextKept
<1> QED
  BY <1>1, <1>2, PTL DEF Spec

-----------------------------------------------------------------------------
(* CsrAbstract alone carries StoredLegal: its registers start legal, an    *)
(* assignment changes only registers it leaves legal, and reset restores   *)
(* values LegalizeSound calls legal.  With Refinement this derives the    *)
(* property of run csr_file_legal from the abstract specification, without *)
(* looking at the statements of legalize_R.                                *)
AbstractLegal == \A r \in Regs : Abstract!LegalRegVal(r, regs[r])

\* The reset values are legal register values.
LEMMA ResetLegal == \A r \in Regs : Abstract!LegalRegVal(r, ResetValue[r])
<1> SUFFICES ASSUME NEW r \in Regs PROVE Abstract!LegalRegVal(r, ResetValue[r])
  OBVIOUS
<1>1. IsRegVal(r, ResetValue[r])
  BY ResetAssumption
<1>2. \A n \in Names(r) : <<r, n>> \in PlainWarl => ResetValue[r][n] \in Legal(r, n)
  BY LegalizeSound
<1> QED
  BY <1>1, <1>2, LegalRegVal

LEMMA AbstractKeepsLegal == Abstract!Spec => []AbstractLegal
<1>1. Abstract!Init => AbstractLegal
  BY ResetLegal DEF Abstract!Init, AbstractLegal
<1>2. AbstractLegal /\ [Abstract!Next]_Abstract!vars => AbstractLegal'
  <2> SUFFICES ASSUME AbstractLegal, [Abstract!Next]_Abstract!vars,
                      NEW s \in Regs
               PROVE  Abstract!LegalRegVal(s, regs'[s])
    BY DEF AbstractLegal
  <2>1. CASE \E r \in Regs : Abstract!Begin(r)
    BY <2>1 DEF Abstract!Begin, AbstractLegal
  <2>2. CASE Abstract!Assign \/ Abstract!Finish
    <3>1. PICK r \in Writing : Abstract!Assigns(r)
      BY <2>2 DEF Abstract!Assign, Abstract!Finish
    <3> QED
      BY <3>1 DEF Abstract!Assigns, AbstractLegal
  <2>3. CASE Abstract!Reset
    BY <2>3, ResetLegal DEF Abstract!Reset
  <2>4. CASE UNCHANGED Abstract!vars
    BY <2>4 DEF Abstract!vars, AbstractLegal
  <2> QED
    BY <2>1, <2>2, <2>3, <2>4 DEF Abstract!Next
<1> QED
  BY <1>1, <1>2, PTL DEF Abstract!Spec

\* A legal register value holds legal values in its plain WARL fields.
LEMMA AbstractLegalStored == AbstractLegal => StoredLegal
<1> SUFFICES ASSUME AbstractLegal, NEW f \in PlainWarl
             PROVE  regs[f[1]][f[2]] \in Legal(f[1], f[2])
  BY DEF StoredLegal
<1>1. f[1] \in Regs /\ f[2] \in Names(f[1]) /\ f = <<f[1], f[2]>>
  BY DEF PlainWarl, WarlFields
<1> QED
  BY <1>1, AbstractLayout DEF AbstractLegal, Abstract!LegalRegVal

\* No write, shadow write or reset stores an illegal value in a WARL field
\* without dependencies, derived through CsrAbstract: the register file
\* implements it, and it keeps every register legal.
THEOREM StoredLegalThroughAbstract == Spec => []StoredLegal
BY Refinement, AbstractKeepsLegal, AbstractLegalStored, PTL DEF AbstractSpec
=============================================================================
