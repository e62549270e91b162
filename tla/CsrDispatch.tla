----------------------------- MODULE CsrDispatch -----------------------------
(***************************************************************************)
(* The address-indexed tables the main loop of config2sail.py emits after *)
(* assembling the registers: read_csr, write_csr, is_csr_defined and the  *)
(* mapping csr_name_map.  Each is a Sail match over one arm per register, *)
(* in the order the loop visits the ISA YAML keys, and a Sail match takes *)
(* the first arm whose pattern equals the address.                        *)
(*                                                                         *)
(* An ISA description y is a record: y.keys, the top-level keys of the    *)
(* hart in file order; y.address[r], y.priv[r] ("M", "S" or "U") and      *)
(* y.accessible, the keys whose rv<xlen> entry is accessible.  The loop   *)
(* appends one arm per register, so the arms of a table are the keys of   *)
(* a set of registers, in the order of y.keys.                            *)
(***************************************************************************)
EXTENDS Naturals, Sequences

\* The top-level keys of the hart that are not registers (line 805).
NonRegisterKeys ==
  {"custom_exceptions", "custom_interrupts", "ISA", "supported_xlen",
   "pmp_granularity", "User_Spec_Version", "physical_addr_sz",
   "Privilege_Spec_Version", "hw_data_misaligned_support"}

\* The counters parse_reg skips (line 807).
Counters ==
  {"mcycle", "mcycleh", "time", "timeh", "minstret", "minstreth",
   "cycle", "cycleh", "instret", "instreth"}

Privileges == {"Machine", "Supervisor", "User"}

\* The registers that get an is_csr_defined arm and a name.
Emitted(y) == y.accessible \ NonRegisterKeys

\* The registers parse_reg assembles, with a read_csr and a write_csr arm.
Parsed(y) == Emitted(y) \ Counters

\* A match over the arms of the registers in arms, laid out in the order
\* of y.keys: the register of the first arm for address a, or "None" when
\* only the wildcard arm matches.
FirstArm(y, arms, a) ==
  LET hits == {i \in 1..Len(y.keys) : y.keys[i] \in arms /\ y.address[y.keys[i]] = a}
  IN  IF hits = {} THEN "None"
      ELSE y.keys[CHOOSE i \in hits : \A j \in hits : i <= j]

\* read_csr(csr): the register read (Some(get_R(R)) or Some(R)), or None.
ReadCsr(y, a) == FirstArm(y, Parsed(y), a)

\* write_csr(csr, value): the register R = legalize_R(R, value) assigns.
WriteCsr(y, a) == FirstArm(y, Parsed(y), a)

\* The privilege test of a register's is_csr_defined arm.
PrivAllows(mode, p) ==
  CASE mode = "M" -> p = "Machine"
    [] mode = "S" -> p \in {"Machine", "Supervisor"}
    [] OTHER      -> TRUE

\* is_csr_defined(csr, p)
IsCsrDefined(y, a, p) ==
  LET r == FirstArm(y, Emitted(y), a)
  IN  r # "None" /\ PrivAllows(y.priv[r], p)

\* The trigger/debug clauses csr_map appends after the registers' ones.
TriggerNames == [a \in {1952, 1953, 1954, 1955} |->
                   CASE a = 1952 -> "tselect" [] a = 1953 -> "tdata1"
                     [] a = 1954 -> "tdata2"  [] OTHER -> "tdata3"]

CsrNameTriggersFirst(y, a) ==
  LET r == FirstArm(y, Emitted(y), a)
  IN  IF a \in DOMAIN TriggerNames THEN TriggerNames[a]
      ELSE IF r # "None" THEN r
      ELSE "hex"

\* csr_name_map(csr): the first clause for the address; hex_bits_12 last.
CsrName(y, a) ==
  LET r == FirstArm(y, Emitted(y), a)
  IN  IF r # "None" THEN r
      ELSE IF a \in DOMAIN TriggerNames THEN TriggerNames[a]
      ELSE "hex"
=============================================================================
