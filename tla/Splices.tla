---------------------------------- MODULE Splices ----------------------------------
(***************************************************************************)
(* What becomes of the values (rs/src/lib.rs): the options are built and   *)
(* the plugin installed; then a document makes its map out of pairs of its *)
(* own and of references, each read as the name of a source, the source    *)
(* processed by its kind, and the value put under a key or spliced into    *)
(* the map.  How sources nest, and fail, is in Loads; here a source is     *)
(* what parsing it gives.                                                  *)
(***************************************************************************)
EXTENDS Values, Numbers

CONSTANTS
    Sources,        \* name -> the source: its kind, its text, its parsed value
    Bodies,         \* what directives of the document have for a reference
    Kinds,          \* kinds the caller sets a processor for
    Modes,          \* subset of {"merge", "extend", "assign"}: the engine's map options
    Containers,     \* the kinds of container the engine makes maps of
    Keys,           \* keys of the document's own pairs
    MaxTold,        \* bound: elements of the document and calls of the builder
    Merge(_, _)     \* the merge of map.extend: DeepMerge of Merges

ASSUME SplicesAssumption ==
    /\ Modes \subseteq {"merge", "extend", "assign"} /\ MaxTold \in Nat
    /\ \A name \in DOMAIN Sources : IsValue(Sources[name].value)
    /\ \A body \in Bodies :
          body.is = "object" => \A path, other \in body.path : path = other

VARIABLES
    at,         \* "options", "text", "process", "place", or "failed"
    processor,  \* kind -> its entry in the table
    set,        \* the builder calls made
    mode,       \* how the engine's options have a splice done
    node,       \* the document's map
    told,       \* what the map was made of: the empty map, then the elements
    load        \* the reference in progress

vars == <<at, processor, set, mode, node, told, load>>

(***************************************************************************)
(* The processor table: default_processors, and the builder's changes.     *)
(***************************************************************************)
NONE == ""

Call(does) == [call |-> TRUE, to |-> does]
Alias(kind) == [call |-> FALSE, to |-> kind]

DefaultProcessors ==
    [kind \in {NONE, "jsonic", "jsc"} |->
        CASE kind = NONE -> Call("raw") [] kind = "jsonic" -> Call("jsonic") [] OTHER -> Alias("jsonic")]

Room == Len(set) + Len(told) <= MaxTold

NoLoad == [body |-> {}, names |-> {}, key |-> {}, value |-> Undefined]

Init ==
    /\ at = "options" /\ processor = DefaultProcessors /\ set = <<>> /\ mode \in Modes
    /\ \E kind \in Containers : node = MapOf(kind, <<>>)
    /\ told = <<[key |-> {}, value |-> node]>> /\ load = NoLoad

\* with_processor, with_processor_alias: an entry is replaced; with_processors: all are.
SetProcessor(kind, entry) ==
    /\ at = "options" /\ Room
    /\ processor' = [k \in DOMAIN processor \cup {kind} |-> IF k = kind THEN entry ELSE processor[k]]
    /\ set' = Append(set, [all |-> FALSE, table |-> [k \in {kind} |-> entry]])
    /\ UNCHANGED <<at, mode, node, told, load>>

SetProcessors(table) ==
    /\ at = "options" /\ Room
    /\ processor' = table /\ set' = Append(set, [all |-> TRUE, table |-> table])
    /\ UNCHANGED <<at, mode, node, told, load>>

Install ==
    /\ at = "options" /\ at' = "text"
    /\ UNCHANGED <<processor, set, mode, node, told, load>>

(***************************************************************************)
(* reference_of: the name of a source, or none.  A body is a value; only   *)
(* an object's path is looked into, one level.                             *)
(***************************************************************************)
NameOf(text) == IF text.word # "" THEN <<text.word>> ELSE <<"", text>>

CoerceReference(body) ==
    CASE body.is \in {"string", "text"} -> {<<body.word>>}
      [] body.is = "number" -> {NameOf(FormatNumber(body.number))}
      [] body.is = "bool" -> {<<IF body.flag THEN "true" ELSE "false">>}
      [] OTHER -> {}

ReferenceOf(body) ==
    IF body.is = "object" THEN UNION {CoerceReference(path) : path \in body.path}
    ELSE CoerceReference(body)

(***************************************************************************)
(* A reference, as a pair's value or a pair of its own, and what it names. *)
(* Bodies that are no string are enough of a case in the first element.    *)
(***************************************************************************)
\* Keys of pairs: a key the map has already is the host grammar's to merge.
Free == {{key} : key \in IF node.sort = "map" THEN Keys \ DOMAIN node.entries ELSE {}}

Refer(body, key) ==
    /\ at = "text" /\ Room
    /\ body.is # "string" => Len(told) = 1 /\ set = <<>> /\ key = {}
    /\ key \in {{}} \cup Free
    /\ load' = [NoLoad EXCEPT !.body = {body}, !.names = ReferenceOf(body), !.key = key]
    /\ at' = IF load'.names \cap DOMAIN Sources = {} THEN "failed" ELSE "process"
    /\ UNCHANGED <<processor, set, mode, node, told>>

Source == Sources[CHOOSE name \in load.names : TRUE]

(***************************************************************************)
(* processor_for, and what the processors make of the source.              *)
(***************************************************************************)
Calls(kind) == IF kind \in DOMAIN processor THEN {e \in {processor[kind]} : e.call} ELSE {}

\* Faulty: the fallback for a kind whose alias leads nowhere is left out.
ProcessorForDirect(kind) ==
    IF kind \notin DOMAIN processor THEN Calls(NONE)
    ELSE IF processor[kind].call THEN Calls(kind) ELSE Calls(processor[kind].to)

ProcessorFor(kind) ==
    IF kind \notin DOMAIN processor THEN Calls(NONE)
    ELSE IF processor[kind].call THEN Calls(kind)
    ELSE IF Calls(processor[kind].to) # {} THEN Calls(processor[kind].to) ELSE Calls(NONE)

Made(entry, source) ==
    CASE entry.to = "raw" -> Scalar(source.text)
      [] entry.to = "jsonic" -> source.value
      [] entry.to = "caller" -> Scalar("caller")

Process ==
    /\ at = "process" /\ at' = "place"
    /\ LET made == {Made(entry, Source) : entry \in ProcessorFor(Source.kind)} IN
       load' = [load EXCEPT !.value = IF made = {} THEN Undefined ELSE CHOOSE value \in made : TRUE]
    /\ UNCHANGED <<processor, set, mode, node, told>>

(***************************************************************************)
(* The splice by the engine's map options: the merge function the caller   *)
(* gave, the deep merge of map.extend, or an assignment key by key.        *)
(***************************************************************************)
\* Faulty: a source without a value takes the place of what there is.
SplicedAnyway(how, base, value) ==
    CASE how = "merge" -> CallerMerge(base, value)
      [] how = "extend" -> IF value = Undefined THEN value ELSE Merge(base, value)
      [] how = "assign" -> Assigned(base, value)

Spliced(how, base, value) ==
    CASE how = "merge" -> CallerMerge(base, value)
      [] how = "extend" -> Merge(base, value)
      [] how = "assign" -> Assigned(base, value)

(***************************************************************************)
(* The value becomes that of the pair, or is spliced into the map.  What   *)
(* the host grammar makes of a pair without a value is not told.           *)
(***************************************************************************)
Put(key, value) ==
    [node EXCEPT !.entries = [k \in DOMAIN @ \cup {key} |-> IF k = key THEN value ELSE @[k]]]

Place ==
    /\ at = "place" /\ at' = "text"
    /\ load.key # {} => load.value # Undefined
    /\ node' = IF load.key = {} THEN Spliced(mode, node, load.value)
               ELSE Put(CHOOSE key \in load.key : TRUE, load.value)
    /\ told' = Append(told, [key |-> load.key, value |-> load.value])
    /\ load' = NoLoad
    /\ UNCHANGED <<processor, set, mode>>

\* The host grammar puts a pair of the document's own.
Pair(key, value) ==
    /\ at = "text" /\ Room /\ key \in Free
    /\ node' = Put(CHOOSE k \in key : TRUE, value)
    /\ told' = Append(told, [key |-> key, value |-> value])
    /\ UNCHANGED <<at, processor, set, mode, load>>

Next ==
    \/ \E kind \in Kinds, entry \in {Call("caller")} \cup {Alias(to) : to \in Kinds} :
          SetProcessor(kind, entry) \/ SetProcessors([k \in {kind} |-> entry])
    \/ Install
    \/ \E body \in Bodies, key \in {{}} \cup {{k} : k \in Keys} : Refer(body, key)
    \/ Process \/ Place
    \/ \E key \in Keys : Pair({key}, Scalar("own"))

Spec == Init /\ [][Next]_vars
================================================================================
