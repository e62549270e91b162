# Verification project for config2sail

`src/config2sail.py` compiles a riscv-config ISA description (YAML) into
Sail code for the CSRs of the sail-riscv model. It has two halves, and the
modules follow them.

* **The Sail core** is the string `warl_type_and_func` (lines 30-282). It is
  copied verbatim into every generated file. It holds the range types and
  the resolution algorithms: `is_value_in_range`, `WARL_range_max/min/nextup/nextdown/nearup/neardown`,
  `legalize_warl_range`, `legalize_warl_rangelist`, `legalize_warl_bitmask` and
  `legalize_warl_either`.
* **The compiler** (lines 288-822) turns each field's `legal` strings into
  range entries (`parse_values`, `parse_field_range`). It turns its
  `wr_illegal` rules into a function `legalize_<reg>_<FIELD>(o, v)`
  (`legalize_without_dependencies`, `legalize_with_dependencies`,
  `parse_dependency`). It then assembles a function `legalize_<reg>(o, v)` per
  register from one statement per field (`parse_field`, `parse_reg`). Last,
  it emits `reset_regs`, `read_csr`, `write_csr`, `is_csr_defined` and the name
  map.

The generated code runs in the single-threaded simulator. So the
concurrency here lives inside one write: the statements of `legalize_R` run
in order, and a shadow statement assigns another register's global value
before `write_csr` assigns `R`. A dependency clause reads registers through
their globals.

## Modules

| module | models | code |
|---|---|---|
| `WarlRange` | range entries and the resolution algorithms, as folds from the right over the list; `parse_values` | lines 42-189, 288-336 |
| `WarlLegalize` | `is_value_in_rangelist`, `legalize_warl_range`, `legalize_warl_rangelist` (recursive over the list; `CombineSegment` and `NearestOf` are its arms), bitmask, either; `parse_field_range` | 63-76, 191-282, 338-382 |
| `WarlField` | the body of `legalize_<reg>_<FIELD>` for fields without and with dependencies | 384-548 |
| `CsrLayout` | the shape of a register file (registers, field order, field kinds, reset values) and the dependency environment, shared by the two specifications below | 431-444, 668-671 |
| `CsrFile` | the register file: `write_csr` as StartWrite, one step per field statement, Commit; `reset_regs`; `get_R` reads | 550-719, 752-777 |
| `CsrAbstract` | what the register file promises: writes that change only writable fields and leave them legal | spec 4.5, 6 |
| `CsrDispatch` | the tables `read_csr`, `write_csr`, `is_csr_defined`, `csr_name_map` and the register loop that fills them | 704-718, 758-816 |
| `MC_WarlRange`, `MC_ParseValues`, `MC_WarlField`, `MC_CsrFile`, `MC_CsrDispatch` | TLC harnesses | - |
| `CsrFile_proofs`, `CsrRefinement_proofs` | TLAPS proofs about `CsrFile` | - |

### WarlRange and WarlLegalize

An entry is a record `[kind, lo, hi]`. `kind` names the constructor of
the Sail union `WARL_range_entry` (lines 42-45): `Value(v)` has kind
"value" and `lo = hi = v`, `Interval(l, u)` has kind "interval", also when
`l = u`. The arms of nextdown treat the two differently, so an interval of
one value is not folded into a value. The recursive Sail
functions on entry lists become folds from the right over the list. The step operators
(`NextUpStep`, `NextDownStep`, `IntervalStep`) translate the two-arm matches
case for case, including the interval arm of nextdown, which is nextup's. In
`Near`, "nextdown" calls nextup, as lines 174 and 184 do. In `legalize_warl_rangelist`, the branch where a segment's
bits are already legal calls `legalize_warl_range` again on `cur + delta`
(line 243). Under Nextup that call reads only `current_val` and returns the
same result, so `CombineSegment` never steps a segment. It fills the rest
instead. Bits are naturals below `2^W`. `to_bits` is `% 2^W`, and `^^`, `&` and `|` are the Bitwise
operators.

`ParseValues` translates `parse_values` after its checks
(`RangeClauseRejected`, `ListClauseRejected`). It keeps the double shift of
`last << lsb`.

Next to the translations sit reference definitions built from sets:
`Members`, `RefNextUp`, `RefNextDown` and `ClauseMeaning`.

### WarlField

A field description is `[deps, legal, rules]`. Its legal strings are
split into parts, and its rules are modes or literals. `Compile` runs
`parse_field_range` on each legal string once. config2sail does the same:
the generated function holds the resulting list as a literal.

* `LegalizeNoDeps` follows lines 404-426.
* `LegalizeWithDeps` follows 491-538. `Illegal` is the `illegal` flag;
  `BitmaskClauses` applies each bitmask in place when its predicate holds;
  `RunRules` runs the rules in order. The
  rules see the outer, empty `warl_range_list`: each clause binds its own list
  inside its block.
* `DepHolds` evaluates `parse_dependency`. It ignores the operator, so a
  `not in` behaves like `in`.
* `FieldLegal` is what a field's legal strings allow.

### CsrFile

The state is:

* `regs[r][n]`: the global registers, split into fields;
* `pending`: the `legalize_R` call in progress, holding the register, the
  written value `v`, the local `m` and the index of the next statement.

`Order[r]` is the statement order. `parse_reg` walks the YAML keys in
reverse (line 669), and `Order` is given already reversed. Each field
statement of `parse_field` is one action:

| action | statement | lines |
|---|---|---|
| `WarlStep` | `m = update_F(m, legalize_R_F(o.F(), m.F()))` | 608-622 |
| `ConstantStep` | `m = update_F(m, to_bits(len, const))` | 591-602 |
| `KeepStep` | `m = update_F(m, o.F())` (ro_variable and read-only shadows) | 586-590, 603-607 |
| `PlainStep` | plain fields and bits no field covers: no statement, `m` keeps `Mk_R(v)` | 623-628, 649 |
| `ShadowStep` | `T = update_G(T, legalize_T_G(T.G(), v[..]))` or the raw slice, then `m = update_F(m, T.G())` | 556-585 |
| `Commit` | `R = legalize_R(R, value)` | 691 |
| `Reset` | `reset_regs` | 684 |

The field legalizer is the constant operator `Legalize(r, n, o, v, env)`.
Its contract is stated as assumptions:

* `LegalizeType`: it returns a value of the field's width.
* `LegalizeSound`: for WARL fields without dependencies, a legal old value
  stays legal, and the reset value is legal.
* `LegalizeKeepsLegal`: for those fields a legal written value is returned
  unchanged (the `if` of line 408 keeps `v` when it is legal).

`MC_CsrFile` instantiates `Legalize` with WarlField's `LegalizeField`. TLC
evaluates the assumptions for that instance, and the proofs need only the
assumptions.

The MC register file, `MC_CsrFile`, is shaped after the RV64 ISA YAML:

* `mstatus`: SIE plain, SPP WARL, one uncovered bit, UXL WARL with fallback
  Largest;
* `sstatus`: read-write shadows of SIE and SPP, and a read-only shadow of
  UXL;
* `mtvec`: MODE WARL, and BASE WARL depending on `mtvec::mode`;
* `misa`: MXL as an ro_constant, EXT as a bitmask WARL;
* `satp` (only in run `dependency_fallback`): MODE WARL depending on
  `misa::MXL`, legal in [1:2] when MXL is 1, with fallback Largest.

### CsrAbstract and the refinement

`CsrAbstract` has the registers `regs` and `writing`, the register whose
write is in progress. `Begin(r)` starts a write. `Assign` and `Finish`
change only fields writable through `r`: its own fields and the targets
of its read-write shadows. Every register they change holds legal values
in its WARL fields without dependencies. `Finish` ends the write, and
`Reset` restores the reset values between writes. A single `write_csr`
shows as several assignments, because a shadow statement assigns its
target register before `write_csr` assigns `R`.

`CsrFile` implements it under the mapping `writing <- Writing`. `Writing`
is `{pending.reg}` while a write runs and `{}` otherwise; `regs` maps to
itself. `StartWrite` maps to `Begin` and `ShadowStep` to `Assign`. `Commit`
maps to `Finish` and `Reset` to `Reset`. The other field statements change
only `pending.m` and `pending.idx`, so they are stutters. The property
`AbstractSpec` is `Abstract!Spec`, checked by TLC and proved by TLAPS.

### CsrDispatch

The main loop (lines 804-816) visits the ISA keys in file order. It skips
the keys that are not registers and the registers that are not
accessible. It calls `parse_reg` (giving a `read_csr` and a `write_csr`
arm) for every register except the counters. Every visited register gets
an `is_csr_defined` arm by `priv_mode` and a `csr_name_map` clause. Each
table is a Sail match. The arms of a table are the keys of a set of
registers (`Emitted`, or `Parsed` for `read_csr` and `write_csr`), in
the order of the ISA keys. `FirstArm` is the match's semantics: the key
at the least position whose register is in the set and has the
address, or the wildcard. `MC_CsrDispatch` enumerates every description
over the non-register key `ISA`, two registers (`mstatus`, `sstatus`)
and the counter `mcycle`. It covers three distinct addresses, every
privilege mode and every accessible set. The query is an address and a
privilege.

## Runs

| run | expect | shows |
|---|---|---|
| `range_nextup` | pass | `WARL_range_nextup` is the nearest legal value at or above the query, else the largest. Checked for every accepted clause of a 4-bit field at lsb 0 and lists of up to 3 values (120k states). |
| `range_nextdown` | violation | nextdown is not the mirror of nextup. |
| `range_min` | violation | `WARL_range_min` is wrong when an earlier interval is wider than one value. |
| `parse_values_not_in` | violation | a `not in` list above bit 0 loses legal values. |
| `field_extremes` | pass | a two-part 4-bit field always holds a legal value with fallback Largest, Smallest or Unchanged. Checked for every accepted pair of clauses, every reset value and every sequence of writes. |
| `field_search_illegal` | violation | with fallback Nextup, a two-part field can hold an illegal value. |
| `csr_file_legal` | pass | no interleaving of writes, shadow writes and resets stores an illegal value in a WARL field without dependencies (`StoredLegal`). The commit stores each legal written WARL value unchanged, whatever statements ran before it (`LegalWritesKept`). Every behaviour is one of `CsrAbstract` (`AbstractSpec`). |
| `dependency_stale` | violation | a dependent field is checked against the old value of the field it depends on. |
| `dependency_fallback` | violation | a dependent field with fallback Largest stores 0, which is illegal: the rule sees the outer empty range list (line 538), for which the `[||]` arm of `legalize_warl_rangelist` (line 228) returns 0. |
| `parse_values_bound` | violation | `parse_values` accepts `[0:4]` on a 2-bit field (the chained comparison at line 298). |
| `dispatch_tables` | pass | with distinct addresses, the four tables agree on the register at every address, the register clauses of `csr_name_map` coming before the trigger clauses. |

Each violation run is a finding in `PROJECT.json`. Six are bugs in the
code: nextdown (line 162), min (107), the `not in` double shift (327), the
search from `current_val` (197), the chained bound check (298) and the
fallback over the empty list (538). One is a gap in the spec:
dependencies read the pre-write global (442).

The models also show the following disagreements with the spec. They
were seen in TLC runs while modelling but are not kept as runs.
`PROJECT.json` lists them as hazards:

* The search modes start from the old field value, not the written one
  (line 197). With legal values {0,1} and fallback Nextup, holding 0 and
  written 2, the field stores 0 (spec 4.3 gives 1).
* A read-only shadow keeps its own copy and does not mirror its target on
  reads (590, `KeepStep`).
* Bits no field covers take the written value, because `m` starts as
  `Mk_R(v)` (649, `PlainStep`).
* `not in [0:3]` on a 2-bit field is accepted and yields an empty list,
  where spec 6 asks for EmptyRangeError (301).
* Two registers at one address are both emitted. The match takes the
  first, so the second is never read, written or named (691; spec 6 asks
  for DuplicateAddressError).
* An accessible counter gets an `is_csr_defined` arm and a name, but no
  `read_csr` or `write_csr` arm (807).

Each property of a passing run has a mutant, a plausible bug in the code
that TLC must detect:

* a strict comparison in nextup;
* a range-list check that stops after the first segment;
* a shadow statement that writes its target unlegalized;
* a WARL statement with the old and written values swapped;
* a read-only shadow handled as a read-write one (it assigns its target
  while writing the shadowing register: not a step of `CsrAbstract`);
* trigger clauses of the name map placed before the register clauses.

### Bounds

* Widths of 4 bits give two 2-bit parts. That is the smallest layout where
  segments interact (carry from one part to the next, msmask) and where
  intervals, gaps and several values coexist.
* Value lists of up to 2 or 3 entries cover single values, adjacent values
  and gaps.
* The register file has 4 registers and 12 fields. It covers every field
  kind, a shadow whose target is WARL, a dependency within a register, and
  a bitmask. The fallback run adds `satp` with a cross-register
  dependency.
* `MC_ParseValues` takes every range and list clause with numbers up to 2
  above a 2-bit field, at lsb 0 and 1.
* `MC_CsrDispatch` has three registers and three addresses, one of them
  the trigger address 0x7a0. Every assignment of distinct addresses is
  tried, so each register lands on the trigger address in some
  description, and the counter is accessible in some. The query adds an
  address no register uses.
* Write values range over all values of each field.

All six code bugs appear at these sizes. The proofs carry the main
invariant to every size.

### Fairness

No fairness is assumed and no liveness property is checked. `legalize_R`
is straight-line Sail code with a fixed number of statements, so that a
started write completes would follow from the model's shape whatever the
code did. Writes and resets are decided by the program the simulator
runs. Deadlock is checked: a write or a reset is always enabled when idle.

## Proofs (`CsrFile_proofs`, `CsrRefinement_proofs` and `CsrDispatch_proofs`, checked by tlapm)

* `TypeCorrect`: `Spec => []TypeOK`. It holds for every register file
  meeting `OrderAssumption`, `DescAssumption`, `ResetAssumption` and
  `LegalizeType`. Each action keeps `regs` and `pending` typed. The lemma
  `UpdateRegVal` shows that updating one field with a value of its width
  keeps a register value typed.
* `StoredLegalInvariant`: `Spec => []StoredLegal`. It is the property of
  run `csr_file_legal`, proved for every configuration and every
  `Legalize` meeting `LegalizeSound`.

`StoredLegal` alone is not inductive. A `Commit` copies `pending.m` into
the register, and nothing in `StoredLegal` speaks of `m`. The strengthening
is `StoredLegalInv == TypeOK /\ StoredLegal /\ LegalizedSoFar`.
`LegalizedSoFar` says that during a write, every WARL field whose statement
has run holds a legal value in `m`. The argument has four parts:

* A `WarlStep` legalizes from a legal old value.
* A `ShadowStep` writes another register (`DescAssumption`: `treg # r`),
  either through its legalizer or into a field that is not a plain WARL
  field.
* The other steps touch no plain WARL field.
* `Commit` stores `m`, whose plain WARL fields are all legalized.

TLC checked `StoredLegalInv` as an invariant while the proof was being
built; it is not a run property, being `StoredLegal` made inductive.

`CsrRefinement_proofs` extends `CsrFile_proofs`:

* `StoredLegalInvHolds` (a lemma): `Spec => []StoredLegalInv`, the
  invariant itself.
* `Refinement`: `Spec => Abstract!Spec`. `Init` maps to the abstract
  `Init`. Each `Next` step maps to an abstract step or a stutter, under
  `StoredLegalInv`. The lemma `AssignsFromFrame` turns the frame
  conditions of a shadow step or a commit into `Assigns(r)`. `LegalRegVal`
  gives the legality of the register changed, from `LegalizedSoFar`.
  `AbstractLayout` identifies the layout operators seen through the
  `INSTANCE` with `CsrFile`'s own.
* `LegalWritesKeptHolds`: `Spec => [][KeptOnCommit]_vars`. The inductive
  invariant is `TypeOK /\ KeptSoFar`. `KeptSoFar` says that, during a write,
  every field whose statement has not run still holds the written value
  in `m`. A legal WARL field without dependencies whose statement has run
  holds it as well. `StepKeepsKept` proves the `WarlStep` case from
  `LegalizeKeepsLegal`. `NonWarlKept` covers the other statements.
  `CommitKept` reads the action property off the invariant.

`CsrRefinement_proofs` also proves:

* `KeptSoFarHolds` (a lemma): `Spec => []KeptSoFar`, from the same
  induction as `LegalWritesKeptHolds`.
* `StoredLegalThroughAbstract`: `Spec => []StoredLegal`, derived a second
  way. `AbstractKeepsLegal` proves that `CsrAbstract` keeps every register
  legal. The induction needs no strengthening:
  * `Begin` changes no register;
  * `Assign` and `Finish` leave every changed register legal;
  * `Reset` restores values that `ResetLegal` shows legal.
  
  With `Refinement`, the property of run `csr_file_legal` follows from the
  abstract specification alone. So the abstraction is strong enough to
  carry it.

`CsrDispatch_proofs` proves the dispatch invariant for every ISA
description, not only the harness's:

* `FirstArmIs`, `FirstArmNone` and `FirstArmFound` state what a match
  returns when exactly one arm, or none, has the address. They rest on
  `DistinctArms`: no two arms of the table share an address. This is the
  uniqueness spec 3 requires and riscv-config is meant to check.
* `IsCsrDefinedByLevel` (a lemma): with distinct addresses, `is_csr_defined(a, p)`
  holds exactly when `a` is the address of an emitted register whose mode
  `p` satisfies. `PrivAllowsLevel` turns the three arms of line 810-815
  into the order Machine > Supervisor > User.
* `TablesAgreeAt`: with distinct addresses, an address that `read_csr`
  handles is handled by `write_csr`, named after the same register and
  defined for Machine mode. The name map's register clause wins over the
  trigger clauses because it comes first.
* `TablesAgreeHolds` states the invariant of run `dispatch_tables`. `DescriptionsWellFormed` shows
  that every description of the harness has distinct addresses.

Without distinct addresses these results fail. The first arm can
belong to a counter, or to a register of another mode, and the later
register is unreachable (hazard 691). The proofs therefore keep the
hypothesis, and do not weaken the property.

The two dispatch hazards that no run keeps are proved as theorems about
every description:

* `NatSetHasLeast`: every non-empty set of naturals has a least element.
  It is taken from `WFMin` and `NatLessThanWellFounded` of
  WellFoundedInduction. Both are first-order, so no induction over an
  operator is needed.
* `FirstArmLeast`: when some arm of a table has the address, the match
  answers with the register of the least such position in `y.keys`.
  This is the first-match rule of a Sail `match`, with no hypothesis on
  duplicate addresses.
* `DuplicateUnreachable` (hazard 691) takes any description with distinct
  keys where two assembled registers share an address. The later one is
  answered by none of `read_csr`, `write_csr` and `csr_name_map` at that
  address. It cannot be read, written or named, and nothing in the code
  rejects the description, although spec 3 and 6 call for
  `DuplicateAddressError`.
* `CounterDefinedNotHandled` (hazard 807) takes an accessible counter
  whose address no other emitted register uses.
  * `is_csr_defined` holds for it at every privilege its mode allows.
  * `csr_name_map` names it.
  * `read_csr` and `write_csr` answer None, because parse_reg skipped it.
* `TwinDescDuplicate` and `CounterDescCounter` give two concrete
  descriptions that meet the hypotheses of these two theorems. One has
  mstatus and sstatus both at 0x300; the other has mcycle alone at 0xb00.
  So neither theorem is vacuous.

## Only model-checked

* Nothing about liveness is checked (see Fairness); TLAPS would not
  handle fairness or ENABLED either.
* Everything about the algorithms of `WarlRange`, `WarlLegalize` and
  `WarlField`. They are recursive: folds of SequencesExt and `RECURSIVE`
  definitions, over data. The provers cannot do induction over data, so
  these facts are checked by TLC over all inputs within the bounds.
* That WarlField's legalizer meets `LegalizeSound` and
  `LegalizeKeepsLegal` for the MC register file. TLC evaluates the
  assumptions.
* The invariants of the WARL algorithms, `NextUpNearestAbove` and
  `StoredLegal` of `MC_WarlField`, for the reason above.

## Not modelled

* A legal string with a bitmask part after a range part.
  `parse_field_range` reports it and returns `''` (lines 375-382). The
  caller then emits `WARL_bitmask()`, which Sail does not build.
  `ParseFieldRange` gives such a string the kind "malformed", and no
  harness uses one.
* The values read and written through the dispatch tables:
  `CsrDispatch` models which register an address reaches, and `CsrFile`
  models what a read or write of that register does. The two are not
  composed into one module, because the dispatch depends only on the
  configuration, never on register values.
* Scalar (`total`) registers with zero padding, and whole-register shadows.
  Only registers with subfields are modelled.
* `wr_illegal` rules with a `wr_val in` trigger. They crash the compiler
  (undefined name `Oxffffffffffffffff`, lines 413 and 526).
* A `wr_illegal` literal is modelled in `ApplyRule`, but no harness
  enumerates one.
* File I/O, option parsing and the other scripts (`gen_vlen.py`, `vtest.py`,
  `test/get_perf.py`, the RISCOF plugins): process orchestration and I/O.
