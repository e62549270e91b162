--------------------------- MODULE MC_CsrDispatch ---------------------------
(***************************************************************************)
(* Model-checking harness for the dispatch tables.  The state is an ISA   *)
(* description y over a few top-level keys (a non-register key, two       *)
(* registers and a counter) and a query: the address and privilege of a  *)
(* CSR access.  Init takes every description whose addresses come from   *)
(* AddrChoices, all distinct as riscv-config is meant to ensure, and     *)
(* every query; a step asks another query.                                *)
(***************************************************************************)
EXTENDS CsrDispatch

\* 0x300, 0x100 and 0x7a0 (the address of the trigger register tselect).
AddrChoices == {768, 256, 1952}
\* The addresses queried: those above and one nobody uses (0xb00).
QueryAddrs == AddrChoices \cup {2816}
Keys == << "ISA", "mstatus", "sstatus", "mcycle" >>
RegKeys == {"mstatus", "sstatus", "mcycle"}

Descriptions ==
  {[keys |-> Keys, address |-> ad, priv |-> pv, accessible |-> ac] :
     ad \in {f \in [RegKeys -> AddrChoices] :
               \A r, s \in RegKeys : r # s => f[r] # f[s]},
     pv \in [RegKeys -> {"M", "S", "U"}],
     ac \in SUBSET (RegKeys \cup {"ISA"})}

VARIABLES y, addr, priv
vars == <<y, addr, priv>>

Init == y \in Descriptions /\ addr \in QueryAddrs /\ priv \in Privileges

\* The program the tables are compiled into accesses another CSR.
Query ==
  /\ addr' \in QueryAddrs
  /\ priv' \in Privileges
  /\ UNCHANGED y

Spec == Init /\ [][Query]_vars

-----------------------------------------------------------------------------
\* The privilege levels, Machine highest.
Level == [p \in Privileges |-> CASE p = "Machine" -> 3 [] p = "Supervisor" -> 1
                                 [] OTHER -> 0]
ModeLevel == [m \in {"M", "S", "U"} |-> CASE m = "M" -> 3 [] m = "S" -> 1
                                          [] OTHER -> 0]

\* The tables name the same register: an address read_csr handles is
\* handled by write_csr, named after that register by csr_name_map, and
\* defined for Machine mode.
TablesAgree ==
  ReadCsr(y, addr) # "None" =>
    /\ WriteCsr(y, addr) = ReadCsr(y, addr)
    /\ CsrName(y, addr) = ReadCsr(y, addr)
    /\ IsCsrDefined(y, addr, "Machine")

=============================================================================
