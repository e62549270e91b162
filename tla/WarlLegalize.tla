---------------------------- MODULE WarlLegalize ----------------------------
(***************************************************************************)
(* The Segmented Legalization Algorithm: the Sail functions                *)
(* is_value_in_rangelist, legalize_warl_range, legalize_warl_rangelist,    *)
(* legalize_warl_bitmask and legalize_warl_either that config2sail.py      *)
(* emits, and parse_field_range, which turns the legal string of a field   *)
(* into the WARL_either value they consume.                                *)
(*                                                                         *)
(* A value of type bits('n) is a natural below 2^W; to_bits('n, x) keeps   *)
(* the low W bits of x (x % 2^W, also for a negative x).  A segment is a  *)
(* record [mask, delta, values].                                           *)
(***************************************************************************)
EXTENDS WarlRange

Modes == {"Unchanged", "Nextup", "Nextdown", "Nearup", "Neardown",
          "Largest", "Smallest", "Addr"}

ToBits(W, x) == x % 2^W
NotVec(W, x) == (2^W - 1) - x

\* Variant: the recursion stops after the first segment.
IsValueInRangeListFirst(value, list) ==
  Len(list) > 0 => IsValueInRange(value & list[1].mask, list[1].values)

\* is_value_in_rangelist: every segment's masked bits lie in its values.
IsValueInRangeList(value, list) ==
  \A i \in 1..Len(list) : IsValueInRange(value & list[i].mask, list[i].values)

\* legalize_warl_range: one segment.  The search modes start from
\* current_val, the first argument, not from the written bits.
LegalizeWarlRange(W, current, written, seg, mode) ==
  CASE mode = "Unchanged" -> current & ToBits(W, seg.mask)
    [] mode = "Largest"   -> ToBits(W, RangeMax(seg.values))
    [] mode = "Smallest"  -> ToBits(W, RangeMin(seg.values))
    [] mode = "Nextup"    -> ToBits(W, RangeNextUp(current, seg.values))
    [] mode = "Nextdown"  -> ToBits(W, RangeNextDown(current, seg.values))
    [] mode = "Nearup"    -> ToBits(W, RangeNearUp(current, seg.values))
    [] mode = "Neardown"  -> ToBits(W, RangeNearDown(current, seg.values))
    [] mode = "Addr"      -> written ^^ (2^(W - 1))

\* The Nearup/Neardown arm of legalize_warl_rangelist: the closer of the
\* Nextup result up and the Nextdown result dn to cur, ties going up for
\* Nearup.
NearestOf(cur, up, dn, mode) ==
  IF up = dn THEN up
  ELSE IF \/ up - cur < cur - dn
          \/ mode = "Nearup" /\ up - cur = cur - dn
       THEN up ELSE dn

\* The Largest/Smallest/Nextup/Nextdown arm of legalize_warl_rangelist for
\* the first segment: ms its legalize_warl_range result, cur its written
\* bits, rest[m] the remaining segments legalized under mode m.  In the
\* branch where ms = cur the code calls legalize_warl_range again on
\* cur +/- delta (lines 243, 259); under Nextup and Nextdown that call
\* reads only current_val and returns ms again, so the segment is never
\* stepped and the rest is filled.
CombineSegment(W, written, msmask, mode, cur, ms, rest) ==
  LET up == mode = "Nextup"
      value == ms | rest[mode]
      beyond == IF up THEN value > written & NotVec(W, msmask)
                ELSE value < written & NotVec(W, msmask)
  IN  CASE mode \in {"Largest", "Smallest"} -> value
        [] ms > cur -> ms | rest["Smallest"]
        [] ms < cur -> ms | rest["Largest"]
        [] beyond   -> value
        [] OTHER    -> ms | rest[IF up THEN "Smallest" ELSE "Largest"]

\* legalize_warl_rangelist(current, written, list, mode, msmask)
RECURSIVE LegalizeWarlRangeList(_, _, _, _, _, _)
LegalizeWarlRangeList(W, current, written, list, mode, msmask) ==
  IF mode = "Unchanged" THEN current
  ELSE IF mode \in {"Nearup", "Neardown"}
  THEN NearestOf(written & NotVec(W, msmask),
                 LegalizeWarlRangeList(W, current, written, list, "Nextup", msmask),
                 LegalizeWarlRangeList(W, current, written, list, "Nextdown", msmask),
                 mode)
  ELSE IF mode = "Addr" THEN written ^^ (2^(W - 1))
  ELSE IF list = << >> THEN 0
  ELSE CombineSegment(W, written, msmask, mode,
         written & ToBits(W, Head(list).mask),
         LegalizeWarlRange(W, current, written & ToBits(W, Head(list).mask),
                           Head(list), mode),
         [m \in Modes |->
            LegalizeWarlRangeList(W, current, written, Tail(list), m,
                                  msmask | ToBits(W, Head(list).mask))])

\* legalize_warl_bitmask
LegalizeWarlBitmask(W, value, b) ==
  (value & ToBits(W, b.mask)) | ToBits(W, b.default)

\* legalize_warl_either
LegalizeWarlEither(W, current, written, either, mode) ==
  IF either.kind = "range_list"
  THEN LegalizeWarlRangeList(W, current, written, either.list, mode, 0)
  ELSE LegalizeWarlBitmask(W, written, either)

-----------------------------------------------------------------------------
(***************************************************************************)
(* parse_field_range: a legal string is a sequence of parts "[msb:lsb] op *)
(* [vals]".  A range part carries a WarlRange clause; a bitmask part a    *)
(* mask and a default.  A bitmask is taken only as the first part (the    *)
(* loop breaks there).  A later one is reported and skipped, and then the *)
(* function returns '' because the string mentions "bitmask"; the caller  *)
(* emits WARL_bitmask() from it, which Sail does not build: "malformed".  *)
(***************************************************************************)
PartMask(p) == 2^(p.msb + 1) - 2^p.lsb

Segment(p) ==
  [mask   |-> PartMask(p),
   delta  |-> 2^p.lsb,
   values |-> ParseValues(p.clause, PartMask(p), p.lsb)]

ParseFieldRange(parts) ==
  IF parts[1].bitmask
  THEN [kind |-> "bitmask", mask |-> parts[1].mask, default |-> parts[1].default]
  ELSE IF \E i \in 1..Len(parts) : parts[i].bitmask
  THEN [kind |-> "malformed"]
  ELSE [kind |-> "range_list",
        list |-> SortSeq([i \in 1..Len(parts) |-> Segment(parts[i])],
                         LAMBDA s, t : s.mask > t.mask)]

=============================================================================
