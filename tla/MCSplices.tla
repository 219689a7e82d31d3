---------------------------------- MODULE MCSplices ----------------------------------
(***************************************************************************)
(* Small instances of Splices: sources whose values share keys and places  *)
(* at one and at two levels, in plain and in reference containers; and     *)
(* every number of a small floating point as a reference.                  *)
(***************************************************************************)
EXTENDS MergesProperties, TLC

REF == Container(TRUE, "meta")
One == Scalar("one")
Two == Scalar("two")
Map(entries) == MapOf(PLAIN, entries)
List(items) == ListOf(PLAIN, items)

Parsed(kind, value) == [kind |-> kind, text |-> "text", value |-> value]

\* What a document that a source of these kinds holds is parsed to.
SmallSources ==
       <<"flat">> :> Parsed("jsonic", Map("x" :> One))
    @@ <<"deep">> :> Parsed("jsonic", Map("x" :> Map("y" :> One)))
    @@ <<"deeper">> :> Parsed("jsc", MapOf(REF, "x" :> MapOf(REF, "y" :> Map("z" :> Two) @@ "z" :> Two)))
    @@ <<"lists">> :> Parsed("jsonic", Map("x" :> ListOf(REF, <<One, Map("y" :> One)>>)))
    @@ <<"longer">> :> Parsed("jsonic", Map("x" :> List(<<Two, Map("z" :> Two), One>>)))
    @@ <<"list">> :> Parsed("jsonic", List(<<One>>))
    @@ <<"empty">> :> Parsed("jsonic", Undefined)
    @@ <<"true">> :> Parsed("txt", Undefined)

\* Keys that deep_merge skips, at two levels.
ReservedSources ==
       <<"top">> :> Parsed("jsonic", Map("__proto__" :> Map("x" :> One) @@ "x" :> One))
    @@ <<"inner">> :> Parsed("jsonic", Map("x" :> Map("__proto__" :> One @@ "y" :> Two)))

AllSources ==
    SmallSources @@ ReservedSources
    @@ <<"", Written(FALSE, 1, 0, 0, {})>> :> Parsed("txt", Undefined)

String(word) == [is |-> "string", word |-> word]
Words(sources) == {String(name[1]) : name \in {n \in DOMAIN sources : Len(n) = 1}}

Number(v) == [is |-> "number", number |-> v]
Negated(v) == [v EXCEPT !.neg = TRUE]
EveryNumber == {Number(v) : v \in Floats \cup {Negated(v) : v \in Floats}
                \cup {Special("nan", FALSE), Special("infinite", FALSE), Special("infinite", TRUE)}}

Object(path) == [is |-> "object", path |-> path]
AllBodies ==
    Words(AllSources) \cup EveryNumber
        \cup {[is |-> "bool", flag |-> TRUE], [is |-> "null"], Object({}), Object({String("deep")})}

GuardBodies == Words(ReservedSources)

LeastExp == -9
LeastPlain == -1

AllKinds == {NONE, "jsonic", "txt"}
AllModes == {"merge", "extend", "assign"}
Extend == {"extend"}
AllContainers == {PLAIN, REF}
OnePlain == {PLAIN}
================================================================================
