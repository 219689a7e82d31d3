--------------------------- MODULE MergesProperties ---------------------------
(***************************************************************************)
(* What is promised of the merge of map.extend.                            *)
(***************************************************************************)
EXTENDS SplicesProperties, Merges

(***************************************************************************)
(* All the elements of the document at once.  At one place, the last of    *)
(* the values there decides, with those just before it of its sort: the    *)
(* first of them gives the container, all of them the contents.  Only the  *)
(* first of them brings in keys that are reserved.                         *)
(***************************************************************************)
Defined(values) == SelectSeq(values, LAMBDA value : value # Undefined)

Run(values) ==
    LET first == CHOOSE i \in DOMAIN values :
                    /\ \A j \in i .. Len(values) : values[j].sort = values[Len(values)].sort
                    /\ i > 1 => values[i - 1].sort # values[Len(values)].sort
    IN  SubSeq(values, first, Len(values))

Holders(run, key) ==
    {i \in DOMAIN run : key \in DOMAIN run[i].entries /\ (i = 1 \/ key \notin DANGEROUS)}

\* The values of a function at some indices, in order.
Picked(of(_), indices) ==
    LET nth[n \in 1 .. Cardinality(indices)] ==
            CHOOSE i \in indices : Cardinality({j \in indices : j < i}) = n - 1
    IN  [n \in 1 .. Cardinality(indices) |-> of(nth[n])]

RECURSIVE Together(_)
Together(values) ==
    LET run == IF Defined(values) = <<>> THEN <<Undefined>> ELSE Run(Defined(values)) IN
    CASE run[1].sort = "map" ->
            MapOf(run[1].kind,
                [key \in {k \in UNION {DOMAIN run[i].entries : i \in DOMAIN run} : Holders(run, k) # {}} |->
                    Together(Picked(LAMBDA i : run[i].entries[key], Holders(run, key)))])
      [] run[1].sort = "list" ->
            ListOf(run[1].kind,
                [at1 \in 1 .. Max({Len(run[i].items) : i \in DOMAIN run}) |->
                    Together(Picked(LAMBDA i : run[i].items[at1],
                                    {i \in DOMAIN run : at1 <= Len(run[i].items)}))])
      [] OTHER -> run[Len(run)]

\* An element as a value of its own: a pair is a map of one key.
AsMap(element) ==
    IF element.key = {} THEN element.value
    ELSE MapOf(PLAIN, [key \in element.key |-> element.value])

(***************************************************************************)
(* Under map.extend the document's map is what all its elements make       *)
(* together: no order of splices and pairs loses a value, or takes one     *)
(* from the wrong element, or changes the container.                       *)
(***************************************************************************)
MergedAsTold ==
    mode = "extend" => node = Together([i \in DOMAIN told |-> AsMap(told[i])])

(***************************************************************************)
(* deep_merge is documented to skip the reserved keys of what is merged    *)
(* in: none of a source's gets into the document's map by map.extend.      *)
(***************************************************************************)
RECURSIVE HasReserved(_)
HasReserved(value) ==
    CASE value.sort = "map" ->
            \/ DOMAIN value.entries \cap DANGEROUS # {}
            \/ \E key \in DOMAIN value.entries : HasReserved(value.entries[key])
      [] value.sort = "list" -> \E i \in DOMAIN value.items : HasReserved(value.items[i])
      [] OTHER -> FALSE

ReservedSkipped ==
    (mode = "extend" /\ \A i \in DOMAIN told : told[i].key # {} => ~HasReserved(told[i].value))
        => ~HasReserved(node)
================================================================================
