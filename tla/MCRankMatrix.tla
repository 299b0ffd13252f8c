---------------------------- MODULE MCRankMatrix ----------------------------
(* Three days, of which two share a week and two a month; windows of three,
   seven and, cut down, ten days; two columns. *)
EXTENDS RankMatrix, TLC

MCMonthStarts == {-40, -11, 3, 9}
MCObservedDays == {4, 8, 9}
MCRanks == {0, 3, 4}
MCPresetDays == [p \in {"L3D", "L7D", "custom"} |->
                   CASE p = "L3D" -> 3 [] p = "L7D" -> 7 [] OTHER -> 0]
MCPresets == {"L3D", "custom"}
MCCustomRanges == {<<9, -20>>}
MCIntervals == {"hourly", "weekly", "monthly"}

MCSymmetry == Permutations(Keywords)
=============================================================================
