----------------------------- MODULE CsrAbstract -----------------------------
(***************************************************************************)
(* What the generated register file promises (spec 4.5, 6), without the   *)
(* statements of legalize_R.  The registers start at their reset values.  *)
(* A write through register r begins, assigns registers, and ends with    *)
(* the assignment of r.  While it runs it changes only r's own fields and *)
(* the fields its read-write shadows target, and every register it        *)
(* changes holds a legal value in each WARL field without dependencies.   *)
(* A single write_csr shows as several assignments: the shadow statements *)
(* assign their target registers before write_csr assigns r.  reset_regs  *)
(* puts every register back to its reset value between writes.            *)
(***************************************************************************)
EXTENDS CsrLayout

VARIABLES
  regs,      \* regs[r]: the value of register r
  writing    \* {r} while a write through r runs, {} otherwise

vars == <<regs, writing>>

\* A register value whose WARL fields without dependencies are all legal.
LegalRegVal(r, g) ==
  /\ IsRegVal(r, g)
  /\ \A n \in Names(r) : <<r, n>> \in PlainWarl => g[n] \in Legal(r, n)

\* The <<register, field>> pairs a write through r may assign: r's fields
\* and the targets of r's read-write shadow fields.
Writable(r) ==
  {<<r, n>> : n \in Names(r)}
    \cup {<<Desc[r][n].treg, Desc[r][n].tfield>> :
            n \in {k \in Names(r) : Desc[r][k].kind = "shadow_rw"}}

\* regs' differs from regs only in fields writable through r, and every
\* register that changes is legal.
Assigns(r) ==
  /\ DOMAIN regs' = Regs
  /\ \A s \in Regs : regs'[s] # regs[s] => LegalRegVal(s, regs'[s])
  /\ \A s \in Regs : \A n \in Names(s) :
       regs'[s][n] # regs[s][n] => <<s, n>> \in Writable(r)

Init == regs = ResetValue /\ writing = {}

Begin(r) ==
  /\ writing = {}
  /\ writing' = {r}
  /\ UNCHANGED regs

Assign == \E r \in writing : Assigns(r) /\ UNCHANGED writing

Finish == \E r \in writing : Assigns(r) /\ writing' = {}

Reset ==
  /\ writing = {}
  /\ regs' = ResetValue
  /\ UNCHANGED writing

Next == (\E r \in Regs : Begin(r)) \/ Assign \/ Finish \/ Reset

Spec == Init /\ [][Next]_vars
=============================================================================
