---------------------------------- MODULE Merges ----------------------------------
(***************************************************************************)
(* The merge of one value into another (deep_merge of rs/src/lib.rs), by   *)
(* key and by index.  The container is the base's.                         *)
(***************************************************************************)
EXTENDS Values, FiniteSetsExt

RECURSIVE DeepMerge(_, _)

DANGEROUS == {"__proto__", "constructor", "prototype"}

\* Faulty: what the overlay has replaces what the base has.
MergeEntriesShallow(base, overlay) ==
    [key \in DOMAIN base \cup (DOMAIN overlay \ DANGEROUS) |->
        IF key \in DOMAIN overlay \ DANGEROUS THEN overlay[key] ELSE base[key]]

MergeEntries(base, overlay) ==
    [key \in DOMAIN base \cup (DOMAIN overlay \ DANGEROUS) |->
        IF key \notin DOMAIN overlay \ DANGEROUS THEN base[key]
        ELSE DeepMerge(IF key \in DOMAIN base THEN base[key] ELSE Undefined, overlay[key])]

MergeItems(base, overlay) ==
    [i \in 1 .. Max({Len(base), Len(overlay)}) |->
        IF i > Len(overlay) THEN base[i]
        ELSE IF i > Len(base) THEN overlay[i]
        ELSE DeepMerge(base[i], overlay[i])]

DeepMerge(base, overlay) ==
    CASE overlay.sort = "undefined" -> base
      [] base.sort = "map" /\ overlay.sort = "map" ->
            [base EXCEPT !.entries = MergeEntries(@, overlay.entries)]
      [] base.sort = "list" /\ overlay.sort = "list" ->
            [base EXCEPT !.items = MergeItems(@, overlay.items)]
      [] OTHER -> overlay
================================================================================
