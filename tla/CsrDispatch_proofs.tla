------------------------- MODULE CsrDispatch_proofs -------------------------
(***************************************************************************)
(* Proofs about the dispatch tables.  The lemmas about FirstArm hold for  *)
(* every ISA description; the theorems at the end carry them to the two   *)
(* invariants of run dispatch_tables.                                     *)
(***************************************************************************)
EXTENDS MC_CsrDispatch, WellFoundedInduction, TLAPS

\* No two arms of the registers in arms match the same address.
DistinctArms(desc, arms) ==
  \A i, j \in 1..Len(desc.keys) :
    /\ desc.keys[i] \in arms /\ desc.keys[j] \in arms
    /\ desc.address[desc.keys[i]] = desc.address[desc.keys[j]]
    => i = j

\* The Sail match takes the one arm that matches, when exactly one does.
LEMMA FirstArmIs ==
  ASSUME NEW desc, NEW arms, NEW a, NEW i \in 1..Len(desc.keys),
         desc.keys[i] \in arms, desc.address[desc.keys[i]] = a,
         \A j \in 1..Len(desc.keys) :
           desc.keys[j] \in arms /\ desc.address[desc.keys[j]] = a => j = i
  PROVE  FirstArm(desc, arms, a) = desc.keys[i]
<1> DEFINE hits == {k \in 1..Len(desc.keys) : desc.keys[k] \in arms /\ desc.address[desc.keys[k]] = a}
<1>1. hits = {i}
  OBVIOUS
<1>2. (CHOOSE k \in hits : \A j \in hits : k <= j) = i
  BY <1>1
<1> QED
  BY <1>1, <1>2 DEF FirstArm

\* When no arm matches, the wildcard answers.
LEMMA FirstArmNone ==
  ASSUME NEW desc, NEW arms, NEW a,
         \A j \in 1..Len(desc.keys) : ~(desc.keys[j] \in arms /\ desc.address[desc.keys[j]] = a)
  PROVE  FirstArm(desc, arms, a) = "None"
BY DEF FirstArm

\* With distinct arms, a match that is not the wildcard is the arm of a
\* register at that address.
LEMMA FirstArmFound ==
  ASSUME NEW desc, NEW arms, NEW a, DistinctArms(desc, arms),
         FirstArm(desc, arms, a) # "None"
  PROVE  \E i \in 1..Len(desc.keys) :
           /\ desc.keys[i] \in arms
           /\ desc.address[desc.keys[i]] = a
           /\ FirstArm(desc, arms, a) = desc.keys[i]
<1>1. PICK i \in 1..Len(desc.keys) : desc.keys[i] \in arms /\ desc.address[desc.keys[i]] = a
  BY FirstArmNone
<1>2. \A j \in 1..Len(desc.keys) : desc.keys[j] \in arms /\ desc.address[desc.keys[j]] = a => j = i
  BY <1>1 DEF DistinctArms
<1> QED
  BY <1>1, <1>2, FirstArmIs

\* The privilege test of an is_csr_defined arm admits exactly the
\* privileges at or above the register's mode.
LEMMA PrivAllowsLevel ==
  ASSUME NEW m \in {"M", "S", "U"}, NEW p \in Privileges
  PROVE  PrivAllows(m, p) <=> Level[p] >= ModeLevel[m]
BY DEF PrivAllows, Level, ModeLevel, Privileges

-----------------------------------------------------------------------------
(* For every ISA description whose emitted registers have distinct        *)
(* addresses and a privilege mode each, is_csr_defined(a, p) holds         *)
(* exactly when a is the address of an emitted register whose mode p       *)
(* satisfies: the claim of spec 4.5 about the loop of lines 804-816.       *)
LEMMA IsCsrDefinedByLevel ==
  ASSUME NEW desc, NEW a, NEW p \in Privileges,
         DistinctArms(desc, Emitted(desc)), "None" \notin Emitted(desc),
         \A r \in Emitted(desc) : desc.priv[r] \in {"M", "S", "U"}
  PROVE  IsCsrDefined(desc, a, p) <=>
           \E i \in 1..Len(desc.keys) :
             /\ desc.keys[i] \in Emitted(desc)
             /\ desc.address[desc.keys[i]] = a
             /\ Level[p] >= ModeLevel[desc.priv[desc.keys[i]]]
<1>1. ASSUME IsCsrDefined(desc, a, p)
      PROVE  \E i \in 1..Len(desc.keys) :
               /\ desc.keys[i] \in Emitted(desc)
               /\ desc.address[desc.keys[i]] = a
               /\ Level[p] >= ModeLevel[desc.priv[desc.keys[i]]]
  <2>1. FirstArm(desc, Emitted(desc), a) # "None"
    BY <1>1 DEF IsCsrDefined
  <2>2. PICK i \in 1..Len(desc.keys) :
               /\ desc.keys[i] \in Emitted(desc)
               /\ desc.address[desc.keys[i]] = a
               /\ FirstArm(desc, Emitted(desc), a) = desc.keys[i]
    BY <2>1, FirstArmFound
  <2>3. PrivAllows(desc.priv[desc.keys[i]], p)
    BY <1>1, <2>2 DEF IsCsrDefined
  <2> QED
    BY <2>2, <2>3, PrivAllowsLevel
<1>2. ASSUME NEW i \in 1..Len(desc.keys), desc.keys[i] \in Emitted(desc),
             desc.address[desc.keys[i]] = a,
             Level[p] >= ModeLevel[desc.priv[desc.keys[i]]]
      PROVE  IsCsrDefined(desc, a, p)
  <2>1. FirstArm(desc, Emitted(desc), a) = desc.keys[i]
    BY <1>2, FirstArmIs DEF DistinctArms
  <2>2. PrivAllows(desc.priv[desc.keys[i]], p)
    BY <1>2, PrivAllowsLevel
  <2> QED
    BY <1>2, <2>1, <2>2 DEF IsCsrDefined
<1> QED
  BY <1>1, <1>2

(* For every ISA description whose emitted registers have distinct        *)
(* addresses, an address read_csr handles is handled by write_csr for the *)
(* same register, csr_name_map names that register (its clause comes      *)
(* before the trigger clauses), and is_csr_defined admits Machine mode.   *)
THEOREM TablesAgreeAt ==
  ASSUME NEW desc, NEW a, DistinctArms(desc, Emitted(desc)), ReadCsr(desc, a) # "None"
  PROVE  /\ WriteCsr(desc, a) = ReadCsr(desc, a)
         /\ CsrName(desc, a) = ReadCsr(desc, a)
         /\ IsCsrDefined(desc, a, "Machine")
<1>1. DistinctArms(desc, Parsed(desc))
  BY DEF DistinctArms, Parsed
<1>2. PICK i \in 1..Len(desc.keys) :
             /\ desc.keys[i] \in Parsed(desc)
             /\ desc.address[desc.keys[i]] = a
             /\ ReadCsr(desc, a) = desc.keys[i]
  BY <1>1, FirstArmFound DEF ReadCsr
<1>3. FirstArm(desc, Emitted(desc), a) = desc.keys[i]
  BY <1>2, FirstArmIs DEF DistinctArms, Parsed
<1>4. CsrName(desc, a) = ReadCsr(desc, a)
  BY <1>2, <1>3 DEF CsrName
<1>5. IsCsrDefined(desc, a, "Machine")
  BY <1>2, <1>3 DEF IsCsrDefined, PrivAllows
<1> QED
  BY <1>4, <1>5 DEF WriteCsr, ReadCsr
-----------------------------------------------------------------------------
(* What the match does when several arms share an address.  A Sail match  *)
(* takes the first arm in program order, which FirstArm writes as the     *)
(* least matching position; a non-empty set of naturals has one.           *)
LEMMA NatSetHasLeast ==
  ASSUME NEW T \in SUBSET Nat, T # {}
  PROVE  \E x \in T : \A z \in T : x <= z
<1>1. PICK x \in T : \A z \in T : ~(<<z, x>> \in OpToRel(<, Nat))
  BY NatLessThanWellFounded, WFMin
<1>2. \A z \in T : ~(z < x)
  BY <1>1, Zenon DEF OpToRel
<1>3. \A z \in T : x <= z
  BY <1>2
<1> QED
  BY <1>3

\* When some arm matches, the match answers with the first one.
LEMMA FirstArmLeast ==
  ASSUME NEW desc, NEW arms, NEW adr,
         NEW k \in 1..Len(desc.keys), desc.keys[k] \in arms,
         desc.address[desc.keys[k]] = adr
  PROVE  \E i \in 1..Len(desc.keys) :
           /\ desc.keys[i] \in arms
           /\ desc.address[desc.keys[i]] = adr
           /\ FirstArm(desc, arms, adr) = desc.keys[i]
           /\ \A j \in 1..Len(desc.keys) :
                desc.keys[j] \in arms /\ desc.address[desc.keys[j]] = adr => i <= j
<1> DEFINE hits == {m \in 1..Len(desc.keys) :
                      desc.keys[m] \in arms /\ desc.address[desc.keys[m]] = adr}
<1>1. hits \in SUBSET Nat /\ hits # {} /\ k \in hits
  OBVIOUS
<1>2. \E x \in hits : \A z \in hits : x <= z
  BY <1>1, NatSetHasLeast
<1> DEFINE i == CHOOSE x \in hits : \A z \in hits : x <= z
<1>3. i \in hits /\ \A z \in hits : i <= z
  BY <1>2
<1>4. FirstArm(desc, arms, adr) = desc.keys[i]
  BY <1>1 DEF FirstArm
<1> QED
  BY <1>3, <1>4

(* Hazard of line 691: nothing rejects two registers at one address.  For *)
(* every ISA description with distinct keys, when two assembled registers *)
(* share an address, the later one is neither read nor written by         *)
(* read_csr and write_csr, nor named by csr_name_map: it is unreachable   *)
(* (spec 3 and 6 require DuplicateAddressError instead).                  *)
THEOREM DuplicateUnreachable ==
  ASSUME NEW desc,
         \A m, n \in 1..Len(desc.keys) : desc.keys[m] = desc.keys[n] => m = n,
         "None" \notin Emitted(desc),
         NEW i \in 1..Len(desc.keys), NEW j \in 1..Len(desc.keys), i < j,
         desc.keys[i] \in Parsed(desc), desc.keys[j] \in Parsed(desc),
         desc.address[desc.keys[i]] = desc.address[desc.keys[j]]
  PROVE  LET a == desc.address[desc.keys[j]] IN
         /\ ReadCsr(desc, a) # desc.keys[j]
         /\ WriteCsr(desc, a) # desc.keys[j]
         /\ CsrName(desc, a) # desc.keys[j]
<1> DEFINE a == desc.address[desc.keys[j]]
<1>0. desc.keys[j] \in Parsed(desc)
  OBVIOUS
<1>1. \E i1 \in 1..Len(desc.keys) :
        /\ desc.keys[i1] \in Parsed(desc)
        /\ desc.address[desc.keys[i1]] = a
        /\ FirstArm(desc, Parsed(desc), a) = desc.keys[i1]
        /\ \A j2 \in 1..Len(desc.keys) :
             desc.keys[j2] \in Parsed(desc) /\ desc.address[desc.keys[j2]] = a => i1 <= j2
  BY ONLY <1>0, FirstArmLeast
<1>2. ReadCsr(desc, a) # desc.keys[j] /\ WriteCsr(desc, a) # desc.keys[j]
  BY <1>1 DEF ReadCsr, WriteCsr
<1>3. desc.keys[j] \in Emitted(desc)
  BY DEF Parsed
<1>4. \E i2 \in 1..Len(desc.keys) :
        /\ desc.keys[i2] \in Emitted(desc)
        /\ desc.address[desc.keys[i2]] = a
        /\ FirstArm(desc, Emitted(desc), a) = desc.keys[i2]
        /\ \A j2 \in 1..Len(desc.keys) :
             desc.keys[j2] \in Emitted(desc) /\ desc.address[desc.keys[j2]] = a => i2 <= j2
  BY ONLY <1>3, FirstArmLeast
<1>5. PICK i2 \in 1..Len(desc.keys) :
        /\ desc.keys[i2] \in Emitted(desc)
        /\ FirstArm(desc, Emitted(desc), a) = desc.keys[i2]
        /\ i2 <= i
  <2>1. desc.keys[i] \in Emitted(desc)
    BY DEF Parsed
  <2> QED
    BY <1>4, <2>1
<1>6. FirstArm(desc, Emitted(desc), a) # "None"
  BY <1>5
<1>7. FirstArm(desc, Emitted(desc), a) # desc.keys[j]
  BY <1>5
<1>8. CsrName(desc, a) # desc.keys[j]
  BY <1>6, <1>7 DEF CsrName
<1> QED
  BY <1>2, <1>8

(* Hazard of line 807: an accessible counter, at an address no other      *)
(* register uses, is defined by is_csr_defined for every privilege its    *)
(* mode allows, and named, but read_csr and write_csr answer None for it  *)
(* (spec 4.5 lets write signal "not handled" only for an address absent   *)
(* from the tables).                                                      *)
THEOREM CounterDefinedNotHandled ==
  ASSUME NEW desc, DistinctArms(desc, Emitted(desc)),
         NEW k \in 1..Len(desc.keys),
         desc.keys[k] \in Emitted(desc) \cap Counters,
         desc.priv[desc.keys[k]] \in {"M", "S", "U"},
         NEW p \in Privileges, Level[p] >= ModeLevel[desc.priv[desc.keys[k]]]
  PROVE  LET a == desc.address[desc.keys[k]] IN
         /\ IsCsrDefined(desc, a, p)
         /\ CsrName(desc, a) = desc.keys[k]
         /\ ReadCsr(desc, a) = "None"
         /\ WriteCsr(desc, a) = "None"
<1> DEFINE a == desc.address[desc.keys[k]]
<1>1. FirstArm(desc, Emitted(desc), a) = desc.keys[k]
  BY FirstArmIs DEF DistinctArms
<1>2. desc.keys[k] # "None"
  BY DEF Counters
<1>3. IsCsrDefined(desc, a, p)
  BY <1>1, <1>2, PrivAllowsLevel DEF IsCsrDefined
<1>4. FirstArm(desc, Parsed(desc), a) = "None"
  <2>1. \A j \in 1..Len(desc.keys) :
          ~(desc.keys[j] \in Parsed(desc) /\ desc.address[desc.keys[j]] = a)
    BY DEF DistinctArms, Parsed
  <2> QED
    BY <2>1, FirstArmNone
<1> QED
  BY <1>1, <1>2, <1>3, <1>4 DEF CsrName, ReadCsr, WriteCsr

\* Two descriptions the loop accepts: mstatus and sstatus both at 0x300,
\* and an accessible mcycle alone at 0xb00.  They meet the hypotheses of
\* the two theorems above, which therefore speak of real inputs.
TwinDesc == [keys |-> << "mstatus", "sstatus" >>,
             address |-> [r \in {"mstatus", "sstatus"} |-> 768],
             priv |-> [r \in {"mstatus", "sstatus"} |-> "M"],
             accessible |-> {"mstatus", "sstatus"}]
CounterDesc == [keys |-> << "mcycle" >>, address |-> [r \in {"mcycle"} |-> 2816],
                priv |-> [r \in {"mcycle"} |-> "U"], accessible |-> {"mcycle"}]

LEMMA TwinDescDuplicate ==
  /\ \A m, n \in 1..Len(TwinDesc.keys) : TwinDesc.keys[m] = TwinDesc.keys[n] => m = n
  /\ "None" \notin Emitted(TwinDesc)
  /\ TwinDesc.keys[1] \in Parsed(TwinDesc) /\ TwinDesc.keys[2] \in Parsed(TwinDesc)
  /\ TwinDesc.address[TwinDesc.keys[1]] = TwinDesc.address[TwinDesc.keys[2]]
<1>1. \A m, n \in 1..Len(TwinDesc.keys) : TwinDesc.keys[m] = TwinDesc.keys[n] => m = n
  BY DEF TwinDesc
<1>2. Emitted(TwinDesc) = {"mstatus", "sstatus"}
  BY DEF TwinDesc, Emitted, NonRegisterKeys
<1>3. Parsed(TwinDesc) = {"mstatus", "sstatus"}
  BY <1>2 DEF Parsed, Counters
<1>4. TwinDesc.address[TwinDesc.keys[1]] = TwinDesc.address[TwinDesc.keys[2]]
  BY DEF TwinDesc
<1> QED
  BY <1>1, <1>2, <1>3, <1>4 DEF TwinDesc

LEMMA CounterDescCounter ==
  /\ DistinctArms(CounterDesc, Emitted(CounterDesc))
  /\ CounterDesc.keys[1] \in Emitted(CounterDesc) \cap Counters
  /\ CounterDesc.priv[CounterDesc.keys[1]] \in {"M", "S", "U"}
BY DEF CounterDesc, DistinctArms, Emitted, NonRegisterKeys, Counters

-----------------------------------------------------------------------------
\* The harness: its description never changes, and every description it
\* starts from has distinct registers at distinct addresses.
DispatchInv == y \in Descriptions /\ addr \in QueryAddrs /\ priv \in Privileges

LEMMA DescriptionsWellFormed ==
  ASSUME NEW d \in Descriptions
  PROVE  /\ DistinctArms(d, Emitted(d))
         /\ "None" \notin Emitted(d)
         /\ \A r \in Emitted(d) : d.priv[r] \in {"M", "S", "U"}
<1>1. PICK ad \in [RegKeys -> AddrChoices], pv \in [RegKeys -> {"M", "S", "U"}],
           ac \in SUBSET (RegKeys \cup {"ISA"}) :
        /\ \A r, s \in RegKeys : r # s => ad[r] # ad[s]
        /\ d = [keys |-> Keys, address |-> ad, priv |-> pv, accessible |-> ac]
  BY DEF Descriptions
<1>2. Emitted(d) \subseteq RegKeys
  BY <1>1 DEF Emitted, NonRegisterKeys, RegKeys
<1>3. /\ Len(d.keys) = 4
      /\ \A i, j \in 1..4 : d.keys[i] = d.keys[j] => i = j
  BY <1>1 DEF Keys
<1>4. ASSUME NEW i \in 1..Len(d.keys), NEW j \in 1..Len(d.keys),
             d.keys[i] \in Emitted(d), d.keys[j] \in Emitted(d),
             d.address[d.keys[i]] = d.address[d.keys[j]]
      PROVE  i = j
  <2>1. d.keys[i] = d.keys[j]
    BY <1>1, <1>2, <1>4
  <2> QED
    BY <1>3, <2>1
<1>5. DistinctArms(d, Emitted(d))
  BY <1>4 DEF DistinctArms
<1> QED
  BY <1>1, <1>2, <1>5 DEF RegKeys

LEMMA DispatchInvInductive == Init /\ [][Query]_vars => []DispatchInv
<1>1. Init => DispatchInv
  BY DEF Init, DispatchInv
<1>2. DispatchInv /\ [Query]_vars => DispatchInv'
  BY DEF DispatchInv, Query, vars
<1> QED
  BY <1>1, <1>2, PTL

(* Run dispatch_tables' invariant: read_csr, write_csr,            *)
(* csr_name_map and is_csr_defined agree on the register at every address *)
(* the harness queries.                                                   *)
THEOREM TablesAgreeHolds == Spec => []TablesAgree
<1>1. DispatchInv => TablesAgree
  BY DescriptionsWellFormed, TablesAgreeAt DEF DispatchInv, TablesAgree
<1> QED
  BY <1>1, DispatchInvInductive, PTL DEF Spec
=============================================================================
