------------------------------ MODULE SplicesProperties ------------------------------
(***************************************************************************)
(* What is promised of the values a document is made of.                   *)
(***************************************************************************)
EXTENDS Splices

\* What the table holds for a kind.
Entry ==
    {Call(does) : does \in {"raw", "jsonic", "caller"}}
        \cup {Alias(kind) : kind \in Kinds \cup {"jsonic"}}

(***************************************************************************)
(* Each variable holds what the code's types let it hold, and a reference  *)
(* that is processed or placed names one source.                           *)
(***************************************************************************)
TypeOK ==
    /\ at \in {"options", "text", "process", "place", "failed"}
    /\ \A kind \in DOMAIN processor : processor[kind] \in Entry
    /\ \A i \in DOMAIN set : set[i].all \in BOOLEAN /\ DOMAIN set[i].table \subseteq Kinds
    /\ mode \in Modes
    /\ node.sort \in {"scalar", "map", "list"}
    /\ \A i \in DOMAIN told : told[i].key \subseteq Keys
    /\ Cardinality(load.names) <= 1 /\ load.key \subseteq Keys
    /\ at \in {"process", "place"} => load.names \subseteq DOMAIN Sources /\ load.names # {}

(***************************************************************************)
(* The elements of the document that count, and the keys each one brings.  *)
(***************************************************************************)
Counted == {i \in DOMAIN told : mode = "assign" \/ i = 1 \/ told[i].key # {}}

Brought(element) ==
    IF element.key # {} THEN [key \in element.key |-> element.value]
    ELSE IF element.value.sort = "map" THEN element.value.entries ELSE <<>>

Bringing(key) == {i \in Counted : key \in DOMAIN Brought(told[i])}

(***************************************************************************)
(* Where splices assign, and where the caller's merge keeps what there is  *)
(* and only pairs count, the document's map has for each key what the last *)
(* element with that key brings: no order of splices and pairs loses a     *)
(* key, or takes it from the wrong element, or changes the container.      *)
(***************************************************************************)
AssignedAsTold ==
    mode # "extend" =>
        node = MapOf(told[1].value.kind,
                   [key \in UNION {DOMAIN Brought(told[i]) : i \in Counted} |->
                       Brought(told[Max(Bringing(key))])[key]])

(***************************************************************************)
(* A source is read by the processor that was set last for its kind, or    *)
(* for the kind that one stands for, whenever that was set; else by the    *)
(* one set last for unknown kinds.  An alias of an alias is none.          *)
(***************************************************************************)
LastSet(kind) ==
    LET calls == <<[all |-> TRUE, table |-> DefaultProcessors]>> \o set
        last == Max({i \in DOMAIN calls : calls[i].all \/ kind \in DOMAIN calls[i].table})
    IN  {calls[last].table[k] : k \in {kind} \cap DOMAIN calls[last].table}

StandsFor(entry) == IF entry.call THEN {entry} ELSE {e \in LastSet(entry.to) : e.call}

Reader(kind) ==
    LET own == UNION {StandsFor(entry) : entry \in LastSet(kind)}
    IN  IF own # {} THEN own ELSE {e \in LastSet(NONE) : e.call}

ReadByItsProcessor ==
    at = "place" =>
        load.value \in {Made(entry, Source) : entry \in Reader(Source.kind)}
                       \cup {v \in {Undefined} : Reader(Source.kind) = {}}

(***************************************************************************)
(* What Number::toString writes, by what it has to be: it reads back as    *)
(* the number, has no more digits than it takes, is the nearest such, the  *)
(* even one of two that are as near, and has an exponent only beyond the   *)
(* plain range.                                                            *)
(***************************************************************************)
Decimal(text) ==
    <<text.whole * 10^text.places + text.frac,
      (IF text.power = {} THEN 0 ELSE CHOOSE power \in text.power : TRUE) - text.places>>

Distance(v, d, q) ==
    LET gap == d[1] * 10^(d[2] - q) * Den(v.e, q) - Num(v.m, v.e, q)
    IN  Max({gap, -gap})

Nearer(v, d, c) ==
    LET q == Min({d[2], c[2]}) IN
    \/ Distance(v, d, q) < Distance(v, c, q)
    \/ Distance(v, d, q) = Distance(v, c, q) /\ (d = c \/ d[1] % 2 = 0)

IsPlain(d) == LET n == NumDigits(d[1]) + d[2] IN PLAIN_MIN <= n /\ n <= PLAIN_MAX

NumberSpelled(v, text) ==
    LET d == Trimmed(Decimal(text)) IN
    /\ text.neg = v.neg /\ ReadsAs(v, d[1], d[2])
    /\ \A c \in Spellings(v) :
          /\ NumDigits(d[1]) <= NumDigits(c[1])
          /\ NumDigits(d[1]) = NumDigits(c[1]) => Nearer(v, d, c)
    /\ text.power = {} <=> IsPlain(d)
    /\ text.power # {} => text.whole \in 1 .. 9
    /\ text.places > 0 => text.frac % 10 # 0

NumberBodies == {body \in load.body : body.is = "number" /\ body.number.is = "finite" /\ body.number.m > 0}

SpelledNumbers(numbers) ==
    \A body \in NumberBodies : body.number \in numbers =>
        \A name \in load.names : Len(name) = 2 /\ NumberSpelled(body.number, name[2])

(***************************************************************************)
(* A number that is not a power of two names what JavaScript spells.       *)
(***************************************************************************)
NamesAsSpelled == SpelledNumbers({b.number : b \in {c \in NumberBodies : ~IsPowerOfTwo(c.number)}})

(***************************************************************************)
(* format_number is documented to be Number::toString, for every number.   *)
(***************************************************************************)
NumbersSpelled == SpelledNumbers({b.number : b \in NumberBodies})
================================================================================
