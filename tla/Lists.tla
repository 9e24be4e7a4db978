--------------------------------- MODULE Lists ---------------------------------
(***************************************************************************)
(* A list without some of its entries: the CLSIDs of a driver's composite  *)
(* list and the names of the services that were stopped, which the         *)
(* installer edits; the lines of config.txt; the presets that are listed;  *)
(* the filters of an AutoEQ record.                                        *)
(***************************************************************************)
EXTENDS Naturals, Sequences

\* Kept(s, out)[i]: what is kept of the first i entries when those in out are left out.
Kept(s, out) ==
  LET kept[i \in 0..Len(s)] ==
        IF i = 0 THEN <<>>
        ELSE IF s[i] \in out THEN kept[i - 1] ELSE Append(kept[i - 1], s[i])
  IN kept

LeavingOut(s, out) == Kept(s, out)[Len(s)]
Without(s, a) == LeavingOut(s, {a})
=============================================================================
