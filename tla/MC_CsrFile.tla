----------------------------- MODULE MC_CsrFile -----------------------------
(***************************************************************************)
(* A small configuration of CsrFile with the field legalizer of WarlField, *)
(* shaped after a riscv-config ISA file:                                   *)
(*   mstatus: SIE plain; SPP WARL [0:0] in [0];                           *)
(*            one bit no field covers; UXL WARL [1:0] in [1:2], Largest;   *)
(*   sstatus: SIE and SPP read-write shadows of mstatus.SIE and .SPP, UXL  *)
(*            a read-only shadow of mstatus.UXL;                           *)
(*   mtvec:   MODE WARL [1:0] in [0:1]; BASE WARL depending on mtvec::mode *)
(*            (mode 0 -> base [1:0] in [0:3], mode 1 -> base [1:0] in [0]);*)
(*   misa:    MXL read-only constant 1; EXT WARL [1:0] bitmask [0x2, 0x1]; *)
(*   satp:    MODE WARL depending on misa::mxl (mxl 1 -> mode [1:0] in     *)
(*            [1:2]), fallback Largest; only in the run with misa alone.   *)
(* Illegal writes fall back to Unchanged unless said otherwise.  Order    *)
(* lists the fields reversed, as parse_reg walks them.                    *)
(***************************************************************************)
EXTENDS CsrFile, WarlField

F(kind, width) ==
  [kind |-> kind, width |-> width, value |-> 0, treg |-> "", tfield |-> "", deps |-> {}]
Sh(kind, width, t, g) == [F(kind, width) EXCEPT !.treg = t, !.tfield = g]
Dep(width, srcs) == [F("warl", width) EXCEPT !.deps = srcs]

MCRegs == {"mstatus", "sstatus", "mtvec", "misa"}

\* Every register of the configuration; the runs take subsets as Regs.
MCAllRegs == MCRegs \cup {"satp"}

\* misa with satp, whose field depends on misa.
MCFallbackRegs == {"misa", "satp"}

\* mstatus with its shadow sstatus alone.
MCStatusRegs == {"mstatus", "sstatus"}

MCOrder ==
  [r \in MCAllRegs |->
     CASE r = "mstatus" -> << "UXL", "WPRI", "SPP", "SIE" >>
       [] r = "sstatus" -> << "UXL", "SPP", "SIE" >>
       [] r = "mtvec"   -> << "BASE", "MODE" >>
       [] r = "misa"    -> << "EXT", "MXL" >>
       [] r = "satp"    -> << "MODE" >>]

MCDesc ==
  [r \in MCAllRegs |->
     CASE r = "mstatus" ->
            [n \in {"UXL", "WPRI", "SPP", "SIE"} |->
               CASE n = "SIE"  -> F("plain", 1)
                 [] n = "SPP"  -> F("warl", 1)
                 [] n = "WPRI" -> F("uncovered", 1)
                 [] n = "UXL"  -> F("warl", 2)]
       [] r = "sstatus" ->
            [n \in {"UXL", "SPP", "SIE"} |->
               CASE n = "SIE" -> Sh("shadow_rw", 1, "mstatus", "SIE")
                 [] n = "SPP" -> Sh("shadow_rw", 1, "mstatus", "SPP")
                 [] n = "UXL" -> Sh("shadow_ro", 2, "mstatus", "UXL")]
       [] r = "mtvec" ->
            [n \in {"BASE", "MODE"} |->
               IF n = "MODE" THEN F("warl", 2) ELSE Dep(2, {<<"mtvec", "MODE">>})]
       [] r = "misa" ->
            [n \in {"EXT", "MXL"} |->
               IF n = "MXL" THEN [F("ro_constant", 1) EXCEPT !.value = 1] ELSE F("warl", 2)]
       [] r = "satp" -> [n \in {"MODE"} |-> Dep(2, {<<"misa", "MXL">>})]]

\* EXTZ(reset-val) of each register, split into its fields.
MCResetValue ==
  [r \in Regs |->
     [n \in {MCOrder[r][i] : i \in 1..Len(MCOrder[r])} |->
        CASE n = "UXL" -> 2
          [] n \in {"EXT", "MXL", "MODE"} -> 1
          [] OTHER -> 0]]

-----------------------------------------------------------------------------
(* The legal strings and wr_illegal rules, as WarlField field descriptions. *)
Part(msb, lsb, clause) == [msb |-> msb, lsb |-> lsb, bitmask |-> FALSE, clause |-> clause]
InRange(b, u) == [kind |-> "range", base |-> b, bound |-> u, notIn |-> FALSE]
InList(s) == [kind |-> "list", vals |-> s, notIn |-> FALSE]
Rule(mode) == [dep |-> << >>, action |-> [kind |-> "mode", mode |-> mode]]
Simple(msb, clause, mode) ==
  [deps |-> FALSE, legal |-> << [dep |-> << >>, parts |-> << Part(msb, 0, clause) >>] >>,
   rules |-> << Rule(mode) >>]

ModeIs(v) == [src |-> <<"mtvec", "MODE">>, msb |-> 1, lsb |-> 0, clause |-> InList(<< v >>)]
MxlIs(v) == [src |-> <<"misa", "MXL">>, msb |-> 0, lsb |-> 0, clause |-> InList(<< v >>)]

WarlDesc(r, n) ==
  CASE <<r, n>> = <<"mstatus", "SPP">> ->
         Simple(0, InList(<< 0 >>), "Unchanged")
    [] <<r, n>> = <<"mstatus", "UXL">> -> Simple(1, InRange(1, 2), "Largest")
    [] <<r, n>> = <<"mtvec", "MODE">>  -> Simple(1, InRange(0, 1), "Unchanged")
    [] <<r, n>> = <<"mtvec", "BASE">>  ->
         [deps |-> TRUE,
          legal |-> << [dep |-> << ModeIs(0) >>, parts |-> << Part(1, 0, InRange(0, 3)) >>],
                       [dep |-> << ModeIs(1) >>, parts |-> << Part(1, 0, InList(<< 0 >>)) >>] >>,
          rules |-> << Rule("Unchanged") >>]
    [] <<r, n>> = <<"misa", "EXT">> ->
         [deps |-> FALSE,
          legal |-> << [dep |-> << >>,
                        parts |-> << [msb |-> 1, lsb |-> 0, bitmask |-> TRUE,
                                      mask |-> 2, default |-> 1] >>] >>,
          rules |-> << >>]
    [] <<r, n>> = <<"satp", "MODE">> ->
         [deps |-> TRUE,
          legal |-> << [dep |-> << MxlIs(1) >>, parts |-> << Part(1, 0, InRange(1, 2)) >>] >>,
          rules |-> << Rule("Largest") >>]

\* The generated legalize_R_F functions, one per WARL field.
MCWarl == {<<"mstatus", "SPP">>, <<"mstatus", "UXL">>, <<"mtvec", "MODE">>,
           <<"mtvec", "BASE">>, <<"misa", "EXT">>, <<"satp", "MODE">>}
Compiled == [f \in MCWarl |-> Compile(WarlDesc(f[1], f[2]))]

MCLegalize(r, n, o, v, e) == LegalizeField(MCDesc[r][n].width, Compiled[<<r, n>>], o, v, e)

MCLegal(r, n) ==
  {x \in 0 .. 2^MCDesc[r][n].width - 1 :
     FieldLegal(MCDesc[r][n].width, Compiled[<<r, n>>], x, << >>)}

-----------------------------------------------------------------------------
\* Every WARL field with dependencies holds a value its legal strings allow
\* for the dependency values the register file now holds.
DependentFieldLegal ==
  Idle => \A f \in WarlFields \ PlainWarl :
            FieldLegal(MCDesc[f[1]][f[2]].width, Compiled[f],
                       regs[f[1]][f[2]], Env(f[1], f[2], regs))
=============================================================================
