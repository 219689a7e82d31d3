---------------------------------- MODULE Values ----------------------------------
(***************************************************************************)
(* The values a source can have and a parse is made of, and the assignment *)
(* of one into another (splice_into_parent of rs/src/lib.rs).              *)
(*                                                                         *)
(* A container is plain (Object, Array) or a reference (MapRef, ListRef)   *)
(* with metadata of its own.  The order of a map's keys is not told.       *)
(***************************************************************************)
EXTENDS Integers, Sequences

Undefined == [sort |-> "undefined"]
Scalar(is) == [sort |-> "scalar", is |-> is]
Container(ref, meta) == [ref |-> ref, meta |-> meta]
PLAIN == Container(FALSE, "")
MapOf(kind, entries) == [sort |-> "map", kind |-> kind, entries |-> entries]
ListOf(kind, items) == [sort |-> "list", kind |-> kind, items |-> items]

\* A value is made by one of these.
IsValue(value) ==
    \/ value = Undefined
    \/ value.sort = "scalar" /\ value = Scalar(value.is)
    \/ value.sort = "map" /\ value = MapOf(value.kind, value.entries)
    \/ value.sort = "list" /\ value = ListOf(value.kind, value.items)

(***************************************************************************)
(* Two of the splices by the engine's map options (splice_into_parent): an *)
(* assignment key by key, and the merge function the caller gave.          *)
(***************************************************************************)
\* Faulty: a key that is there already keeps its value.
AssignedUnder(base, value) ==
    IF base.sort # "map" \/ value.sort # "map" THEN base
    ELSE [base EXCEPT !.entries =
            [key \in DOMAIN @ \cup DOMAIN value.entries |->
                IF key \in DOMAIN @ THEN @[key] ELSE value.entries[key]]]

Assigned(base, value) ==
    IF base.sort # "map" \/ value.sort # "map" THEN base
    ELSE [base EXCEPT !.entries =
            [key \in DOMAIN @ \cup DOMAIN value.entries |->
                IF key \in DOMAIN value.entries THEN value.entries[key] ELSE @[key]]]

\* map.merge of a caller that keeps what was there first.
CallerMerge(base, value) == base
==================================================================================
