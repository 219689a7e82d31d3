----------------------------- MODULE SplicesProofs -----------------------------
(***************************************************************************)
(* Theorems about Splices, for any sources, bodies, kinds, options and     *)
(* keys, and whatever the merge of map.extend does.                        *)
(***************************************************************************)
EXTENDS SplicesProperties, SequenceFacts, FiniteSetTheorems

(***************************************************************************)
(* The greatest of some indices.                                           *)
(***************************************************************************)
LEMMA MaxIs ==
    ASSUME NEW S, S \subseteq Int, NEW x \in S, \A y \in S : x >= y
    PROVE  Max(S) = x
<1>1. \A z \in S : (\A y \in S : z >= y) => z = x
  OBVIOUS
<1>2. QED
  BY <1>1 DEF Max

LEMMA MaxOf ==
    ASSUME NEW n \in Nat, NEW S \in SUBSET (1 .. n), S # {}
    PROVE  Max(S) \in S /\ \A y \in S : Max(S) >= y
<1> DEFINE T == {n - i : i \in S}
<1>1. T \in SUBSET Nat /\ T # {}
  <2>1. \A i \in S : n - i \in Nat
    OBVIOUS
  <2>2. QED
    BY <2>1
<1>2. PICK t \in T : \A u \in T : t <= u
  BY <1>1, LeastElement
<1>3. PICK x \in S : t = n - x
  OBVIOUS
<1>4. ASSUME NEW y \in S PROVE x >= y
  <2>1. n - y \in T
    OBVIOUS
  <2>2. t <= n - y /\ x \in 1 .. n /\ y \in 1 .. n
    BY <1>2, <2>1
  <2>3. QED
    BY <1>3, <2>2
<1>5. Max(S) = x
  <2>1. S \subseteq Int
    OBVIOUS
  <2>2. QED
    BY <1>4, <2>1, MaxIs
<1>6. QED
  BY <1>4, <1>5

(***************************************************************************)
(* The table of processors: what was set last for a kind, the defaults     *)
(* first, and what a further call of the builder makes of that.            *)
(***************************************************************************)
Table == UNION {[kinds -> Entry] : kinds \in SUBSET Kinds}

BuilderCall == [all : BOOLEAN, table : Table]

CallsOf(s) == <<[all |-> TRUE, table |-> DefaultProcessors]>> \o s

Sets(call, kind) == call.all \/ kind \in DOMAIN call.table

Setting(s, kind) == {i \in DOMAIN CallsOf(s) : Sets(CallsOf(s)[i], kind)}

EntryOf(table, kind) == {table[k] : k \in {kind} \cap DOMAIN table}

LEMMA LastSetIs ==
    ASSUME NEW kind
    PROVE  /\ LastSet(kind) = EntryOf(CallsOf(set)[Max(Setting(set, kind))].table, kind)
           /\ LastSet(kind)' = EntryOf(CallsOf(set')[Max(Setting(set', kind))].table, kind)
  BY DEF LastSet, EntryOf, CallsOf, Setting, Sets

LEMMA CallsAre ==
    ASSUME NEW s \in Seq(BuilderCall)
    PROVE  /\ Len(CallsOf(s)) = Len(s) + 1 /\ DOMAIN CallsOf(s) = 1 .. Len(s) + 1
           /\ CallsOf(s)[1] = [all |-> TRUE, table |-> DefaultProcessors]
           /\ \A i \in 1 .. Len(s) : CallsOf(s)[i + 1] = s[i]
<1> DEFINE first == [all |-> TRUE, table |-> DefaultProcessors]
           V == BuilderCall \cup {first}
<1>1. <<first>> \in Seq(V) /\ Len(<<first>>) = 1 /\ <<first>>[1] = first
  OBVIOUS
<1>2. s \in Seq(V)
  BY SeqMonotonic
<1>3. CallsOf(s) = <<first>> \o s
  BY DEF CallsOf
<1> HIDE DEF first, V
<1>4. QED
  BY <1>1, <1>2, <1>3, ConcatProperties DEF first

\* The first call sets every kind, so that there is a last one.
LEMMA SettingHasMax ==
    ASSUME NEW s \in Seq(BuilderCall), NEW kind
    PROVE  /\ Setting(s, kind) \in SUBSET (1 .. Len(s) + 1)
           /\ Max(Setting(s, kind)) \in Setting(s, kind)
           /\ \A i \in Setting(s, kind) : Max(Setting(s, kind)) >= i
<1>1. Len(s) + 1 \in Nat /\ 1 \in 1 .. Len(s) + 1
  BY LenProperties
<1>2. Setting(s, kind) \in SUBSET (1 .. Len(s) + 1) /\ 1 \in Setting(s, kind)
  BY <1>1, CallsAre DEF Setting, Sets
<1>3. QED
  BY <1>1, <1>2, MaxOf

LEMMA LastSetNext ==
    ASSUME set \in Seq(BuilderCall), NEW call \in BuilderCall, set' = Append(set, call), NEW kind
    PROVE  LastSet(kind)' = IF Sets(call, kind) THEN EntryOf(call.table, kind) ELSE LastSet(kind)
<1> DEFINE s == set
           t == Append(set, call)
           n == Len(set) + 1
<1>1. t \in Seq(BuilderCall) /\ Len(t) = n /\ t[n] = call /\ n \in Nat \ {0}
      /\ \A i \in 1 .. Len(set) : t[i] = set[i]
  <2>1. Len(set) \in Nat
    BY LenProperties
  <2>2. QED
    BY <2>1, AppendTo
<1>2. LastSet(kind)' = EntryOf(CallsOf(t)[Max(Setting(t, kind))].table, kind)
      /\ LastSet(kind) = EntryOf(CallsOf(s)[Max(Setting(s, kind))].table, kind)
  BY LastSetIs
<1>3. s \in Seq(BuilderCall) /\ n = Len(s) + 1 /\ \A i \in 1 .. Len(s) : t[i] = s[i]
  BY <1>1
<1> HIDE DEF s, t, n
<1>4. /\ DOMAIN CallsOf(s) = 1 .. n /\ DOMAIN CallsOf(t) = 1 .. n + 1
      /\ CallsOf(t)[n + 1] = call
      /\ \A i \in 1 .. n : CallsOf(t)[i] = CallsOf(s)[i]
  <2>1. n \in 1 .. Len(t)
    BY <1>1
  <2>2. DOMAIN CallsOf(s) = 1 .. n /\ DOMAIN CallsOf(t) = 1 .. n + 1 /\ CallsOf(t)[n + 1] = call
    BY <1>1, <1>3, <2>1, CallsAre
  <2>3. ASSUME NEW i \in 1 .. n PROVE CallsOf(t)[i] = CallsOf(s)[i]
    <3>1. CASE i = 1
      BY <1>1, <1>3, <3>1, CallsAre
    <3>2. CASE i # 1
      <4> DEFINE j == i - 1
      <4>1. j \in 1 .. Len(s) /\ j \in 1 .. Len(t) /\ i = j + 1
        BY <1>1, <1>3, <3>2
      <4> HIDE DEF j
      <4>2. CallsOf(t)[j + 1] = t[j] /\ CallsOf(s)[j + 1] = s[j] /\ t[j] = s[j]
        BY <1>1, <1>3, <4>1, CallsAre
      <4>3. QED
        BY <4>1, <4>2
    <3>3. QED
      BY <3>1, <3>2
  <2>4. QED
    BY <2>2, <2>3
<1>5. CASE Sets(call, kind)
  <2>1. n + 1 \in Setting(t, kind) /\ \A i \in Setting(t, kind) : n + 1 >= i
    BY <1>1, <1>4, <1>5 DEF Setting
  <2>2. Setting(t, kind) \subseteq Int
    BY <1>1, <1>4 DEF Setting
  <2>3. Max(Setting(t, kind)) = n + 1
    BY <2>1, <2>2, MaxIs
  <2>4. QED
    BY <1>2, <1>4, <1>5, <2>3, <1>1
<1>6. CASE ~Sets(call, kind)
  <2>1. Setting(t, kind) = Setting(s, kind)
    <3>1. \A i \in 1 .. n + 1 : i \in 1 .. n \/ i = n + 1
      BY <1>1
    <3>2. \A i \in 1 .. n : i \in 1 .. n + 1
      BY <1>1
    <3>3. QED
      BY <1>4, <1>6, <3>1, <3>2 DEF Setting
  <2>2. Max(Setting(s, kind)) \in 1 .. n
    BY <1>3, SettingHasMax DEF Setting
  <2>3. QED
    BY <1>2, <1>4, <1>6, <2>1, <2>2
<1>7. QED
  BY <1>5, <1>6

(***************************************************************************)
(* What the table holds is what was set last for each kind.                *)
(***************************************************************************)
TableOK ==
    /\ \A kind \in DOMAIN processor : processor[kind] \in Entry
    /\ set \in Seq(BuilderCall)
    /\ \A kind : LastSet(kind) = EntryOf(processor, kind)

LEMMA TableAtFirst ==
    ASSUME processor = DefaultProcessors, set = <<>>
    PROVE  TableOK
<1>1. \A kind \in DOMAIN DefaultProcessors : DefaultProcessors[kind] \in Entry
  <2>1. Call("raw") \in Entry /\ Call("jsonic") \in Entry /\ Alias("jsonic") \in Entry
    <3>1. \A does \in {"raw", "jsonic", "caller"} : Call(does) \in Entry
      BY Zenon DEF Entry
    <3>2. \A kind \in Kinds \cup {"jsonic"} : Alias(kind) \in Entry
      BY Zenon DEF Entry
    <3>3. QED
      BY <3>1, <3>2
  <2>2. QED
    BY <2>1 DEF DefaultProcessors
<1>2. set \in Seq(BuilderCall) /\ Len(set) = 0
  OBVIOUS
<1>3. ASSUME NEW kind PROVE LastSet(kind) = EntryOf(processor, kind)
  <2>1. Max(Setting(set, kind)) \in 1 .. 0 + 1
    BY <1>2, SettingHasMax
  <2>2. Max(Setting(set, kind)) = 1
    BY <2>1
  <2>3. CallsOf(set)[1].table = DefaultProcessors
    <3>1. CallsOf(set)[1] = [all |-> TRUE, table |-> DefaultProcessors]
      BY <1>2, CallsAre
    <3>2. QED
      BY <3>1
  <2>4. QED
    BY <2>2, <2>3, LastSetIs
<1>4. QED
  BY <1>1, <1>2, <1>3 DEF TableOK

LEMMA TableStays ==
    ASSUME TableOK, UNCHANGED <<processor, set>>
    PROVE  TableOK'
<1>1. \A kind : LastSet(kind)' = LastSet(kind)
  BY LastSetIs
<1>2. QED
  BY <1>1 DEF TableOK

LEMMA TableFollowsCall ==
    ASSUME TableOK, NEW call \in BuilderCall, set' = Append(set, call),
           \A kind : EntryOf(processor', kind)
                        = IF Sets(call, kind) THEN EntryOf(call.table, kind) ELSE EntryOf(processor, kind)
    PROVE  TableOK'
<1>1. set' \in Seq(BuilderCall)
  BY AppendTo DEF TableOK
<1>2. ASSUME NEW kind PROVE LastSet(kind)' = EntryOf(processor', kind)
  BY LastSetNext DEF TableOK
<1>3. ASSUME NEW kind \in DOMAIN processor' PROVE processor'[kind] \in Entry
  <2>1. processor'[kind] \in EntryOf(processor', kind)
    BY DEF EntryOf
  <2>2. CASE Sets(call, kind)
    <3>1. PICK kinds \in SUBSET Kinds : call.table \in [kinds -> Entry]
      BY DEF BuilderCall, Table
    <3>2. EntryOf(call.table, kind) \subseteq Entry
      BY <3>1 DEF EntryOf
    <3>3. QED
      BY <2>1, <2>2, <3>2
  <2>3. CASE ~Sets(call, kind)
    <3>1. EntryOf(processor, kind) \subseteq Entry
      BY DEF EntryOf, TableOK
    <3>2. EntryOf(processor', kind) = EntryOf(processor, kind)
      BY <2>3
    <3>3. QED
      BY <2>1, <3>1, <3>2
  <2>4. QED
    BY <2>2, <2>3
<1>4. QED
  BY <1>1, <1>2, <1>3 DEF TableOK

LEMMA SetProcessorIsOK ==
    ASSUME TableOK, NEW kind \in Kinds, NEW entry \in Entry, SetProcessor(kind, entry)
    PROVE  TableOK'
<1> DEFINE table == [k \in {kind} |-> entry]
           call == [all |-> FALSE, table |-> table]
<1>1. call \in BuilderCall
  <2>1. table \in [{kind} -> Entry] /\ {kind} \in SUBSET Kinds
    OBVIOUS
  <2>2. QED
    BY <2>1 DEF BuilderCall, Table
<1>2. /\ set' = Append(set, call)
      /\ processor' = [k \in DOMAIN processor \cup {kind} |-> IF k = kind THEN entry ELSE processor[k]]
  BY DEF SetProcessor
<1>3. ASSUME NEW k
      PROVE  EntryOf(processor', k) = IF Sets(call, k) THEN EntryOf(call.table, k) ELSE EntryOf(processor, k)
  BY <1>2 DEF EntryOf, Sets
<1> HIDE DEF call
<1>4. QED
  BY <1>1, <1>2, <1>3, TableFollowsCall

LEMMA SetProcessorsIsOK ==
    ASSUME TableOK, NEW kind \in Kinds, NEW entry \in Entry,
           SetProcessors([k \in {kind} |-> entry])
    PROVE  TableOK'
<1> DEFINE table == [k \in {kind} |-> entry]
           call == [all |-> TRUE, table |-> table]
<1>1. call \in BuilderCall
  <2>1. table \in [{kind} -> Entry] /\ {kind} \in SUBSET Kinds
    OBVIOUS
  <2>2. QED
    BY <2>1 DEF BuilderCall, Table
<1>2. set' = Append(set, call) /\ processor' = table
  BY DEF SetProcessors
<1>3. ASSUME NEW k
      PROVE  EntryOf(processor', k) = IF Sets(call, k) THEN EntryOf(call.table, k) ELSE EntryOf(processor, k)
  BY <1>2 DEF Sets
<1> HIDE DEF call
<1>4. QED
  BY <1>1, <1>2, <1>3, TableFollowsCall

\* processor_for finds the processor set last.
LEMMA ReaderIsProcessor ==
    ASSUME TableOK, NEW kind
    PROVE  ProcessorFor(kind) = Reader(kind) /\ Reader(kind) \subseteq {e \in Entry : e.call}
<1>1. \A k : LastSet(k) = EntryOf(processor, k)
  BY DEF TableOK
<1>2. \A k : Calls(k) = {e \in LastSet(k) : e.call}
  BY <1>1 DEF Calls, EntryOf
<1>3. \A k : LastSet(k) \subseteq Entry
  BY <1>1 DEF EntryOf, TableOK
<1>4. CASE kind \notin DOMAIN processor
  <2>1. LastSet(kind) = {}
    BY <1>1, <1>4 DEF EntryOf
  <2>2. Reader(kind) = {e \in LastSet(NONE) : e.call}
    BY <2>1 DEF Reader
  <2>3. QED
    BY <1>2, <1>3, <1>4, <2>2 DEF ProcessorFor
<1>5. CASE kind \in DOMAIN processor
  <2> DEFINE entry == processor[kind]
  <2>1. LastSet(kind) = {entry} /\ entry \in Entry
    BY <1>1, <1>5 DEF EntryOf, TableOK
  <2>2. Reader(kind) = IF StandsFor(entry) # {} THEN StandsFor(entry) ELSE {e \in LastSet(NONE) : e.call}
    BY <2>1 DEF Reader
  <2>3. ProcessorFor(kind) = IF entry.call THEN Calls(kind)
                             ELSE IF Calls(entry.to) # {} THEN Calls(entry.to) ELSE Calls(NONE)
    BY <1>5 DEF ProcessorFor
  <2> HIDE DEF entry
  <2>4. CASE entry.call
    <3>1. StandsFor(entry) = {entry} /\ Calls(kind) = {entry}
      BY <1>2, <2>1, <2>4 DEF StandsFor
    <3>2. QED
      BY <2>1, <2>2, <2>3, <2>4, <3>1
  <2>5. CASE ~entry.call
    <3>1. StandsFor(entry) = Calls(entry.to)
      BY <1>2, <1>3, <2>5 DEF StandsFor
    <3>2. QED
      BY <1>2, <1>3, <2>2, <2>3, <2>5, <3>1
  <2>6. QED
    BY <2>4, <2>5
<1>6. QED
  BY <1>4, <1>5

(***************************************************************************)
(* The inductive invariant: the table, the elements told so far, and the   *)
(* one reference in progress.                                              *)
(***************************************************************************)
One(s) == \A x, y \in s : x = y

Element(element) ==
    /\ element = [key |-> element.key, value |-> element.value]
    /\ element.key \subseteq Keys /\ One(element.key)

ToldOK ==
    /\ \E S : told \in Seq(S)
    /\ Len(told) > 0
    /\ \A i \in 1 .. Len(told) : Element(told[i])
    /\ told[1].key = {} /\ told[1].value.sort = "map"

LoadOK ==
    /\ load = [body |-> load.body, names |-> load.names, key |-> load.key, value |-> load.value]
    /\ One(load.names) /\ One(load.key) /\ load.key \subseteq Keys
    /\ at \in {"process", "place"} => load.names \subseteq DOMAIN Sources /\ load.names # {}
    /\ at = "place" => IsValue(load.value) /\ ReadByItsProcessor

IInv ==
    /\ at \in {"options", "text", "process", "place", "failed"}
    /\ mode \in Modes
    /\ TableOK /\ ToldOK /\ LoadOK

\* A reference names one source at most.
LEMMA NamesOne ==
    ASSUME NEW body \in Bodies
    PROVE  One(ReferenceOf(body))
<1>1. ASSUME NEW b PROVE One(CoerceReference(b))
  BY DEF One, CoerceReference
<1>2. CASE body.is = "object"
  <2>1. \A path, other \in body.path : path = other
    BY <1>2, SplicesAssumption
  <2>2. ReferenceOf(body) = UNION {CoerceReference(path) : path \in body.path}
    BY <1>2 DEF ReferenceOf
  <2>3. ASSUME NEW x \in ReferenceOf(body), NEW y \in ReferenceOf(body) PROVE x = y
    <3>1. PICK path \in body.path : x \in CoerceReference(path)
      BY <2>2
    <3>2. PICK other \in body.path : y \in CoerceReference(other)
      BY <2>2
    <3>3. path = other
      BY <2>1
    <3>4. QED
      BY <1>1, <3>1, <3>2, <3>3 DEF One
  <2>4. QED
    BY <2>3 DEF One
<1>3. CASE body.is # "object"
  BY <1>1, <1>3 DEF ReferenceOf
<1>4. QED
  BY <1>2, <1>3

LEMMA NoLoadIsOK ==
    /\ NoLoad = [body |-> NoLoad.body, names |-> NoLoad.names, key |-> NoLoad.key, value |-> NoLoad.value]
    /\ NoLoad.names = {} /\ NoLoad.key = {} /\ One({})
  BY DEF NoLoad, One

LEMMA ToldStays ==
    ASSUME ToldOK, told' = told
    PROVE  ToldOK'
  BY DEF ToldOK, Element

LEMMA ToldOneMore ==
    ASSUME ToldOK, NEW element, Element(element), told' = Append(told, element)
    PROVE  /\ ToldOK'
           /\ Len(told') = Len(told) + 1 /\ Len(told) \in Nat \ {0}
           /\ told'[Len(told) + 1] = element
           /\ \A i \in 1 .. Len(told) : told'[i] = told[i]
<1>1. PICK S : told \in Seq(S)
  BY DEF ToldOK
<1> DEFINE V == S \cup {element}
<1>2. told \in Seq(V) /\ element \in V
  BY <1>1, SeqMonotonic
<1> HIDE DEF V
<1>3. /\ told' \in Seq(V) /\ Len(told') = Len(told) + 1 /\ told'[Len(told) + 1] = element
      /\ \A i \in 1 .. Len(told) : told'[i] = told[i]
  BY <1>2, AppendTo
<1>4. Len(told) \in Nat \ {0}
  BY <1>1, LenProperties DEF ToldOK
<1>5. \A i \in 1 .. Len(told') : Element(told'[i])
  <2>1. \A i \in 1 .. Len(told') : i \in 1 .. Len(told) \/ i = Len(told) + 1
    BY <1>3, <1>4
  <2>2. QED
    BY <1>3, <2>1 DEF ToldOK
<1>6. told'[1] = told[1]
  BY <1>3, <1>4
<1>7. ToldOK'
  BY <1>3, <1>4, <1>5, <1>6 DEF ToldOK, Element
<1>8. QED
  BY <1>3, <1>4, <1>7

LEMMA InvariantAtFirst ==
    ASSUME Init
    PROVE  IInv
<1>1. PICK kind \in Containers : node = MapOf(kind, <<>>)
  BY DEF Init
<1>2. TableOK
  BY TableAtFirst DEF Init
<1>3. ToldOK
  <2> DEFINE first == [key |-> {}, value |-> node]
  <2>1. Element(first) /\ first.key = {} /\ first.value.sort = "map"
    BY <1>1 DEF Element, One, MapOf
  <2>2. told = <<first>>
    BY DEF Init
  <2> HIDE DEF first
  <2>3. told \in Seq({first}) /\ Len(told) = 1 /\ told[1] = first
    BY <2>2
  <2>4. QED
    BY <2>1, <2>3 DEF ToldOK
<1>4. LoadOK
  BY NoLoadIsOK DEF Init, LoadOK
<1>5. QED
  BY <1>2, <1>3, <1>4 DEF IInv, Init

(***************************************************************************)
(* The invariant after every step.                                         *)
(***************************************************************************)
LEMMA ReaderStays ==
    ASSUME set' = set, NEW kind
    PROVE  Reader(kind)' = Reader(kind)
<1>1. \A k : LastSet(k)' = LastSet(k)
  BY LastSetIs
<1>2. ASSUME NEW entry PROVE StandsFor(entry)' = StandsFor(entry)
  BY <1>1 DEF StandsFor
<1>3. QED
  BY <1>1, <1>2 DEF Reader

LEMMA MadeIsValue ==
    ASSUME NEW entry \in Entry, entry.call, NEW name \in DOMAIN Sources
    PROVE  IsValue(Made(entry, Sources[name]))
<1>1. PICK does \in {"raw", "jsonic", "caller"} : entry = Call(does)
  BY DEF Entry, Alias
<1>2. entry.to = does
  BY <1>1 DEF Call
<1>3. IsValue(Sources[name].value)
  BY SplicesAssumption
<1>4. \A is : IsValue(Scalar(is))
  BY DEF IsValue, Scalar
<1>5. QED
  BY <1>2, <1>3, <1>4 DEF Made

LEMMA BuilderIsOK ==
    ASSUME IInv, NEW kind \in Kinds, NEW entry \in {Call("caller")} \cup {Alias(to) : to \in Kinds},
           SetProcessor(kind, entry) \/ SetProcessors([k \in {kind} |-> entry])
    PROVE  IInv'
<1>1. entry \in Entry
  BY DEF Entry
<1>2. TableOK'
  BY <1>1, SetProcessorIsOK, SetProcessorsIsOK DEF IInv
<1>3. at = "options" /\ UNCHANGED <<at, mode, node, told, load>>
  BY DEF SetProcessor, SetProcessors
<1>4. ToldOK'
  BY <1>3, ToldStays DEF IInv
<1>5. LoadOK'
  BY <1>3 DEF IInv, LoadOK
<1>6. QED
  BY <1>2, <1>3, <1>4, <1>5 DEF IInv

LEMMA InstallIsOK ==
    ASSUME IInv, Install
    PROVE  IInv'
<1>1. at' = "text" /\ UNCHANGED <<processor, set, mode, node, told, load>>
  BY DEF Install
<1>2. TableOK' /\ ToldOK'
  BY <1>1, TableStays, ToldStays DEF IInv
<1>3. LoadOK'
  BY <1>1 DEF IInv, LoadOK
<1>4. QED
  BY <1>1, <1>2, <1>3 DEF IInv

LEMMA ReferIsOK ==
    ASSUME IInv, NEW body \in Bodies, NEW key \in {{}} \cup {{k} : k \in Keys}, Refer(body, key)
    PROVE  IInv'
<1>1. /\ load' = [NoLoad EXCEPT !.body = {body}, !.names = ReferenceOf(body), !.key = key]
      /\ at' = IF load'.names \cap DOMAIN Sources = {} THEN "failed" ELSE "process"
      /\ UNCHANGED <<processor, set, mode, node, told>>
  BY DEF Refer
<1>2. TableOK' /\ ToldOK'
  BY <1>1, TableStays, ToldStays DEF IInv
<1> DEFINE names == ReferenceOf(body)
<1>3. One(names)
  BY NamesOne
<1> HIDE DEF names
<1>4. load' = [body |-> {body}, names |-> names, key |-> key, value |-> Undefined]
  BY <1>1 DEF NoLoad, names
<1>5. One(key) /\ key \subseteq Keys
  BY DEF One
<1>6. load'.names = names /\ load'.key = key
  BY <1>4
<1>7. at' \in {"failed", "process"} /\ (at' = "process" => names \cap DOMAIN Sources # {})
  BY <1>1, <1>6
<1>8. at' = "process" => names \subseteq DOMAIN Sources /\ names # {}
  BY <1>3, <1>7 DEF One
<1>9. load' = [body |-> load'.body, names |-> load'.names, key |-> load'.key, value |-> load'.value]
  BY <1>4
<1>10. One(load.names)' /\ One(load.key)'
  BY <1>3, <1>5, <1>6 DEF One
<1>11. LoadOK'
  BY <1>5, <1>6, <1>7, <1>8, <1>9, <1>10 DEF LoadOK
<1>12. QED
  BY <1>1, <1>2, <1>7, <1>11 DEF IInv

LEMMA ProcessIsOK ==
    ASSUME IInv, Process
    PROVE  IInv'
<1> DEFINE made == {Made(entry, Source) : entry \in ProcessorFor(Source.kind)}
           value == IF made = {} THEN Undefined ELSE CHOOSE v \in made : TRUE
<1>1. /\ at = "process" /\ at' = "place" /\ load' = [load EXCEPT !.value = value]
      /\ UNCHANGED <<processor, set, mode, node, told>>
  BY DEF Process
<1>2. TableOK' /\ ToldOK'
  BY <1>1, TableStays, ToldStays DEF IInv
<1>3. PICK name \in DOMAIN Sources : Source = Sources[name]
  BY <1>1 DEF IInv, LoadOK, Source
<1>4. made = {Made(entry, Source) : entry \in Reader(Source.kind)}
      /\ Reader(Source.kind) \subseteq {e \in Entry : e.call}
  BY ReaderIsProcessor DEF IInv
<1>5. \A v \in made : IsValue(v)
  BY <1>3, <1>4, MadeIsValue
<1>6. made = {} \/ value \in made
  OBVIOUS
<1> HIDE DEF made
<1>7. IsValue(value)
  BY <1>5, <1>6 DEF IsValue
<1>8. value \in made \cup {v \in {Undefined} : Reader(Source.kind) = {}}
  <2>1. CASE made = {}
    BY <1>4, <2>1
  <2>2. CASE made # {}
    BY <1>6, <2>2
  <2>3. QED
    BY <2>1, <2>2
<1> HIDE DEF value
<1>9. /\ load' = [body |-> load.body, names |-> load.names, key |-> load.key, value |-> value]
      /\ load'.value = value /\ load'.names = load.names /\ load'.key = load.key
  BY <1>1 DEF IInv, LoadOK
<1>10. Source' = Source
  BY <1>9 DEF Source
<1>11. ReadByItsProcessor'
  <2>1. \A kind : Reader(kind)' = Reader(kind)
    BY <1>1, ReaderStays
  <2>2. QED
    BY <1>4, <1>8, <1>9, <1>10, <2>1 DEF ReadByItsProcessor, Made
<1>12. LoadOK'
  BY <1>1, <1>7, <1>9, <1>11 DEF IInv, LoadOK, One
<1>13. QED
  BY <1>1, <1>2, <1>12 DEF IInv

LEMMA PlaceIsOK ==
    ASSUME IInv, Place
    PROVE  IInv'
<1> DEFINE element == [key |-> load.key, value |-> load.value]
<1>1. at' = "text" /\ told' = Append(told, element) /\ load' = NoLoad /\ UNCHANGED <<processor, set, mode>>
  BY DEF Place
<1>2. Element(element)
  BY DEF IInv, LoadOK, Element, One
<1> HIDE DEF element
<1>3. TableOK' /\ ToldOK'
  BY <1>1, <1>2, TableStays, ToldOneMore DEF IInv
<1>4. LoadOK'
  BY <1>1, NoLoadIsOK DEF LoadOK, One
<1>5. QED
  BY <1>1, <1>3, <1>4 DEF IInv

LEMMA PairIsOK ==
    ASSUME IInv, NEW k \in Keys, Pair({k}, Scalar("own"))
    PROVE  IInv'
<1> DEFINE element == [key |-> {k}, value |-> Scalar("own")]
<1>1. at = "text" /\ told' = Append(told, element) /\ UNCHANGED <<at, processor, set, mode, load>>
  BY DEF Pair
<1>2. Element(element)
  BY DEF Element, One
<1> HIDE DEF element
<1>3. TableOK' /\ ToldOK'
  BY <1>1, <1>2, TableStays, ToldOneMore DEF IInv
<1>4. LoadOK'
  BY <1>1 DEF IInv, LoadOK
<1>5. QED
  BY <1>1, <1>3, <1>4 DEF IInv

LEMMA InvariantStays ==
    ASSUME IInv, [Next]_vars
    PROVE  IInv'
<1>1. CASE Next
  BY <1>1, BuilderIsOK, InstallIsOK, ReferIsOK, ProcessIsOK, PlaceIsOK, PairIsOK DEF Next
<1>2. CASE UNCHANGED vars
  <2>1. UNCHANGED <<at, processor, set, mode, node, told, load>>
    BY <1>2 DEF vars
  <2>2. TableOK' /\ ToldOK'
    BY <2>1, TableStays, ToldStays DEF IInv
  <2>3. ReadByItsProcessor' <=> ReadByItsProcessor
    <3>1. \A kind : Reader(kind)' = Reader(kind)
      BY <2>1, ReaderStays
    <3>2. QED
      BY <2>1, <3>1 DEF ReadByItsProcessor, Made, Source
  <2>4. LoadOK'
    BY <2>1, <2>3 DEF IInv, LoadOK
  <2>5. QED
    BY <2>1, <2>2, <2>4 DEF IInv
<1>3. QED
  BY <1>1, <1>2

THEOREM SplicesInvariantHolds == Spec => []IInv
<1>1. Init => IInv
  BY InvariantAtFirst
<1>2. IInv /\ [Next]_vars => IInv'
  BY InvariantStays
<1>3. QED
  BY <1>1, <1>2, PTL DEF Spec

(***************************************************************************)
(* Whatever order the builder calls come in, and whichever of them replace *)
(* the whole table, a source is read by the processor set last for its     *)
(* kind, or for the kind that one stands for, else by the one set last for *)
(* unknown kinds (processor_for).                                          *)
(***************************************************************************)
THEOREM SourcesReadByTheirProcessor == Spec => []ReadByItsProcessor
<1>1. IInv => ReadByItsProcessor
  BY DEF IInv, LoadOK, ReadByItsProcessor
<1>2. QED
  BY <1>1, SplicesInvariantHolds, PTL

(***************************************************************************)
(* The document's map where splices assign, or the caller's merge keeps    *)
(* what there is.                                                          *)
(***************************************************************************)
Widened(map, more) ==
    MapOf(map.kind, [key \in DOMAIN map.entries \cup DOMAIN more |->
                        IF key \in DOMAIN more THEN more[key] ELSE map.entries[key]])

Counts(element) == mode = "assign" \/ element.key # {}

LEMMA CountedType ==
    ASSUME ToldOK
    PROVE  /\ Counted = {i \in 1 .. Len(told) : mode = "assign" \/ i = 1 \/ told[i].key # {}}
           /\ Len(told) \in Nat \ {0}
           /\ \A key : Bringing(key) \in SUBSET (1 .. Len(told))
<1>1. PICK S : told \in Seq(S)
  BY DEF ToldOK
<1>2. DOMAIN told = 1 .. Len(told) /\ Len(told) \in Nat
  BY <1>1, LenProperties
<1>3. QED
  BY <1>2 DEF Counted, Bringing, ToldOK

LEMMA AssignedGrows ==
    ASSUME ToldOK, mode' = mode, mode # "extend", AssignedAsTold,
           NEW element, Element(element), told' = Append(told, element),
           node' = IF Counts(element) THEN Widened(node, Brought(element)) ELSE node
    PROVE  AssignedAsTold'
<1> DEFINE n == Len(told)
           more == Brought(element)
           keys == UNION {DOMAIN Brought(told[i]) : i \in Counted}
           later == UNION {DOMAIN Brought(told'[i]) : i \in Counted'}
           of(key) == Brought(told[Max(Bringing(key))])[key]
           now(key) == Brought(told'[Max(Bringing(key)')])[key]
           kind == told[1].value.kind
<1>1. node = MapOf(kind, [key \in keys |-> of(key)])
  BY DEF AssignedAsTold
<1>2. /\ ToldOK' /\ Len(told') = n + 1 /\ n \in Nat \ {0}
      /\ told'[n + 1] = element /\ \A i \in 1 .. n : told'[i] = told[i]
  BY ToldOneMore
<1>3. /\ Counted = {i \in 1 .. n : mode = "assign" \/ i = 1 \/ told[i].key # {}}
      /\ Counted' = {i \in 1 .. n + 1 : mode = "assign" \/ i = 1 \/ told'[i].key # {}}
      /\ \A key : Bringing(key) \in SUBSET (1 .. n)
  <2>1. DOMAIN told' = 1 .. Len(told')
    BY <1>2, LenProperties DEF ToldOK
  <2>2. Counted' = {i \in 1 .. Len(told') : mode' = "assign" \/ i = 1 \/ told'[i].key # {}}
    BY <2>1 DEF Counted
  <2>3. QED
    BY <1>2, <2>2, CountedType
<1>4. Counted' = Counted \cup (IF Counts(element) THEN {n + 1} ELSE {})
  <2> HIDE DEF n
  <2>1. ASSUME NEW i PROVE i \in 1 .. n + 1 <=> i \in 1 .. n \/ i = n + 1
    BY <1>2
  <2>2. n + 1 # 1 /\ n + 1 \notin 1 .. n
    BY <1>2
  <2>3. QED
    BY <1>2, <1>3, <2>1, <2>2 DEF Counts
<1>5. ASSUME NEW key
      PROVE  Bringing(key)' = Bringing(key) \cup (IF Counts(element) /\ key \in DOMAIN more THEN {n + 1} ELSE {})
  <2>1. Bringing(key)' = {i \in Counted' : key \in DOMAIN Brought(told'[i])}
    BY DEF Bringing, Brought
  <2>2. Bringing(key) = {i \in Counted : key \in DOMAIN Brought(told[i])}
    BY DEF Bringing
  <2>3. \A i \in Counted : told'[i] = told[i]
    BY <1>2, <1>3
  <2> HIDE DEF n
  <2>4. QED
    BY <1>2, <1>4, <2>1, <2>2, <2>3
<1>6. later = keys \cup (IF Counts(element) THEN DOMAIN more ELSE {})
  <2>1. \A i \in Counted : told'[i] = told[i]
    BY <1>2, <1>3
  <2> HIDE DEF n
  <2>2. QED
    BY <1>2, <1>4, <2>1
<1>7. ASSUME NEW key, Counts(element), key \in DOMAIN more PROVE now(key) = more[key]
  <2>1. Bringing(key)' = Bringing(key) \cup {n + 1}
    BY <1>5, <1>7
  <2>2. /\ \A i \in Bringing(key)' : n + 1 >= i
        /\ Bringing(key)' \subseteq Int /\ n + 1 \in Bringing(key)'
    BY <1>2, <1>3, <2>1
  <2>3. Max(Bringing(key)') = n + 1
    BY <2>2, MaxIs
  <2> HIDE DEF n
  <2>4. QED
    BY <1>2, <2>3
<1>8. ASSUME NEW key \in keys, ~Counts(element) \/ key \notin DOMAIN more PROVE now(key) = of(key)
  <2>1. Bringing(key)' = Bringing(key)
    BY <1>5, <1>8
  <2>2. Bringing(key) # {}
    BY DEF Bringing
  <2>3. Max(Bringing(key)) \in 1 .. n
    BY <1>2, <1>3, <2>2, MaxOf
  <2>4. QED
    BY <1>2, <2>1, <2>3
<1>9. told'[1].value.kind = kind
  BY <1>2
<1> HIDE DEF n, more, keys, later, of, now, kind
<1>10. node' = MapOf(kind, [key \in later |-> now(key)])
  <2>1. CASE Counts(element)
    <3>1. node.kind = kind /\ node.entries = [key \in keys |-> of(key)]
      BY <1>1 DEF MapOf
    <3>2. node' = MapOf(kind, [key \in keys \cup DOMAIN more |->
                      IF key \in DOMAIN more THEN more[key] ELSE node.entries[key]])
      BY <2>1, <3>1 DEF Widened, more
    <3>3. ASSUME NEW key \in keys \cup DOMAIN more
          PROVE  (IF key \in DOMAIN more THEN more[key] ELSE node.entries[key]) = now(key)
      BY <1>7, <1>8, <2>1, <3>1
    <3>4. later = keys \cup DOMAIN more
      BY <1>6, <2>1
    <3>5. QED
      BY <3>2, <3>3, <3>4
  <2>2. CASE ~Counts(element)
    <3>1. later = keys /\ node' = node
      BY <1>6, <2>2
    <3>2. QED
      BY <1>1, <1>8, <2>2, <3>1
  <2>3. QED
    BY <2>1, <2>2
<1>11. AssignedAsTold' <=> (mode' # "extend" =>
            node' = MapOf(told'[1].value.kind, [key \in later |-> now(key)]))
  BY DEF AssignedAsTold, later, now, Brought
<1>12. QED
  BY <1>9, <1>10, <1>11

LEMMA AssignedAtFirst ==
    ASSUME Init
    PROVE  AssignedAsTold
<1>1. PICK kind \in Containers : node = MapOf(kind, <<>>)
  BY DEF Init
<1> DEFINE first == [key |-> {}, value |-> node]
<1>2. told = <<first>> /\ DOMAIN told = {1} /\ told[1] = first
  BY DEF Init
<1>3. Counted = {1}
  BY <1>2 DEF Counted
<1>4. Brought(told[1]) = <<>> /\ told[1].value.kind = kind
  BY <1>1, <1>2 DEF Brought, MapOf
<1> HIDE DEF first
<1>5. UNION {DOMAIN Brought(told[i]) : i \in Counted} = {}
  BY <1>3, <1>4
<1>6. \A f : f = [x \in {} |-> f[x]] => f = <<>>
  OBVIOUS
<1>7. [key \in {} |-> Brought(told[Max(Bringing(key))])[key]] = <<>>
  OBVIOUS
<1>8. QED
  BY <1>1, <1>4, <1>5, <1>7 DEF AssignedAsTold

LEMMA PutWidens ==
    ASSUME ToldOK, AssignedAsTold, mode # "extend", NEW k, NEW value
    PROVE  Put(k, value) = Widened(node, Brought([key |-> {k}, value |-> value]))
<1>1. PICK kind, entries : node = MapOf(kind, entries)
  BY DEF AssignedAsTold
<1>2. Brought([key |-> {k}, value |-> value]) = [key \in {k} |-> value]
  BY DEF Brought
<1>3. Put(k, value) = MapOf(kind, [key \in DOMAIN entries \cup {k} |-> IF key = k THEN value ELSE entries[key]])
  BY <1>1 DEF Put, MapOf
<1>4. QED
  BY <1>1, <1>2, <1>3 DEF Widened, MapOf

LEMMA SpliceWidens ==
    ASSUME AssignedAsTold, mode = "assign", NEW value, IsValue(value)
    PROVE  Assigned(node, value) = Widened(node, Brought([key |-> {}, value |-> value]))
<1> DEFINE keys == UNION {DOMAIN Brought(told[i]) : i \in Counted}
           entries == [key \in keys |-> Brought(told[Max(Bringing(key))])[key]]
           kind == told[1].value.kind
<1>1. node = MapOf(kind, entries) /\ DOMAIN entries = keys /\ entries = [key \in keys |-> entries[key]]
  BY DEF AssignedAsTold
<1> HIDE DEF keys, entries, kind
<1>2. CASE value.sort = "map"
  <2>1. Brought([key |-> {}, value |-> value]) = value.entries
    BY <1>2 DEF Brought
  <2>2. node.sort = "map" /\ node.kind = kind /\ node.entries = entries
    BY <1>1 DEF MapOf
  <2>3. Assigned(node, value) =
            [node EXCEPT !.entries = [key \in DOMAIN entries \cup DOMAIN value.entries |->
                IF key \in DOMAIN value.entries THEN value.entries[key] ELSE entries[key]]]
    BY <1>2, <2>2 DEF Assigned
  <2> DEFINE more == value.entries
             wide == [key \in DOMAIN entries \cup DOMAIN more |->
                        IF key \in DOMAIN more THEN more[key] ELSE entries[key]]
  <2>4. Widened(node, more) = MapOf(kind, wide)
    BY <2>2 DEF Widened
  <2>5. Assigned(node, value) = [node EXCEPT !.entries = wide]
    BY <2>3
  <2> HIDE DEF wide, more
  <2>6. [node EXCEPT !.entries = wide] = MapOf(kind, wide)
    BY <1>1 DEF MapOf
  <2>7. QED
    BY <2>1, <2>4, <2>5, <2>6 DEF more
<1>3. CASE value.sort # "map"
  <2>1. Brought([key |-> {}, value |-> value]) = <<>>
    BY <1>3 DEF Brought
  <2>2. Assigned(node, value) = node
    BY <1>3 DEF Assigned
  <2>3. Widened(node, <<>>) = MapOf(kind, [key \in keys |-> entries[key]])
    BY <1>1 DEF Widened, MapOf
  <2>4. QED
    BY <1>1, <2>1, <2>2, <2>3
<1>4. QED
  BY <1>2, <1>3

LEMMA AssignedStays ==
    ASSUME IInv, AssignedAsTold, [Next]_vars
    PROVE  AssignedAsTold'
<1> SUFFICES ASSUME mode' # "extend" PROVE AssignedAsTold'
  BY DEF AssignedAsTold
<1>1. ASSUME UNCHANGED <<mode, node, told>> PROVE AssignedAsTold'
  <2>1. Counted' = Counted /\ \A i : told'[i] = told[i]
    BY <1>1 DEF Counted
  <2>2. \A key : Bringing(key)' = Bringing(key)
    BY <2>1 DEF Bringing, Brought
  <2>3. AssignedAsTold' <=> (mode' # "extend" =>
            node' = MapOf(told'[1].value.kind,
                       [key \in UNION {DOMAIN Brought(told'[i]) : i \in Counted'} |->
                           Brought(told'[Max(Bringing(key)')])[key]]))
    BY DEF AssignedAsTold, Brought
  <2>4. QED
    BY <1>1, <2>1, <2>2, <2>3 DEF AssignedAsTold
<1>2. CASE Place
  <2> DEFINE element == [key |-> load.key, value |-> load.value]
  <2>1. /\ at = "place" /\ mode' = mode /\ told' = Append(told, element)
        /\ node' = IF load.key = {} THEN Spliced(mode, node, load.value)
                   ELSE Put(CHOOSE key \in load.key : TRUE, load.value)
    BY <1>2 DEF Place
  <2>2. ToldOK /\ Element(element) /\ IsValue(load.value) /\ mode \in {"merge", "assign"}
    BY <2>1, SplicesAssumption DEF IInv, LoadOK, Element, One
  <2>3. node' = IF Counts(element) THEN Widened(node, Brought(element)) ELSE node
    <3>1. CASE load.key = {} /\ mode = "assign"
      BY <2>1, <2>2, <3>1, SpliceWidens DEF Spliced, Counts
    <3>2. CASE load.key = {} /\ mode = "merge"
      BY <2>1, <3>2 DEF Spliced, CallerMerge, Counts
    <3>3. CASE load.key # {}
      <4>1. PICK k \in load.key : k = CHOOSE key \in load.key : TRUE
        BY <3>3
      <4>2. load.key = {k}
        BY <4>1 DEF IInv, LoadOK, One
      <4>3. node' = Put(k, load.value)
        BY <2>1, <3>3, <4>1
      <4>4. Put(k, load.value) = Widened(node, Brought([key |-> {k}, value |-> load.value]))
        BY <2>1, <2>2, PutWidens
      <4>5. QED
        BY <4>2, <4>3, <4>4 DEF Counts
    <3>4. QED
      BY <2>2, <3>1, <3>2, <3>3
  <2> HIDE DEF element
  <2>4. mode # "extend"
    BY <2>1
  <2>5. QED
    BY <2>1, <2>2, <2>3, <2>4, AssignedGrows
<1>3. ASSUME NEW k \in Keys, Pair({k}, Scalar("own")) PROVE AssignedAsTold'
  <2> DEFINE value == Scalar("own")
             element == [key |-> {k}, value |-> value]
  <2>1. /\ mode' = mode /\ told' = Append(told, element)
        /\ node' = Put(CHOOSE key \in {k} : TRUE, value)
    BY <1>3 DEF Pair
  <2>2. ToldOK /\ Element(element) /\ mode # "extend" /\ Counts(element)
    BY <2>1 DEF IInv, Element, One, Counts
  <2>3. (CHOOSE key \in {k} : TRUE) = k
    OBVIOUS
  <2> HIDE DEF value
  <2>4. Put(k, value) = Widened(node, Brought(element))
    BY <2>2, PutWidens
  <2> HIDE DEF element
  <2>5. node' = IF Counts(element) THEN Widened(node, Brought(element)) ELSE node
    BY <2>1, <2>2, <2>3, <2>4
  <2>6. QED
    BY <2>1, <2>2, <2>5, AssignedGrows
<1>4. QED
  BY <1>1, <1>2, <1>3 DEF Next, vars, SetProcessor, SetProcessors, Install, Refer, Process

(***************************************************************************)
(* Where splices assign, and where the caller's merge keeps what there is, *)
(* the document's map has what was written last for each key, for any      *)
(* number of splices and pairs in any order (splice_into_parent).          *)
(***************************************************************************)
THEOREM AssignedLastWins == Spec => []AssignedAsTold
<1>1. Init => IInv /\ AssignedAsTold
  BY InvariantAtFirst, AssignedAtFirst
<1>2. IInv /\ AssignedAsTold /\ [Next]_vars => (IInv /\ AssignedAsTold)'
  BY InvariantStays, AssignedStays
<1>3. QED
  BY <1>1, <1>2, PTL DEF Spec

(***************************************************************************)
(* The document's map is a value, and a map while a pair waits for its.    *)
(***************************************************************************)
NodeOK ==
    /\ IsValue(node) /\ node # Undefined
    /\ load.key # {} => node.sort = "map"

\* The cases of DeepMerge, said of the merge that is a parameter here: it is the base, the
\* base with other entries or items, or the overlay.
MergeKeepsContainer ==
    \A base, overlay : IsValue(base) /\ IsValue(overlay) =>
        CASE overlay.sort = "undefined" -> Merge(base, overlay) = base
          [] base.sort = "map" /\ overlay.sort = "map" ->
                \E entries : Merge(base, overlay) = [base EXCEPT !.entries = entries]
          [] base.sort = "list" /\ overlay.sort = "list" ->
                \E items : Merge(base, overlay) = [base EXCEPT !.items = items]
          [] OTHER -> Merge(base, overlay) = overlay

LEMMA MergeIsValue ==
    ASSUME MergeKeepsContainer, NEW base, IsValue(base), base # Undefined, NEW overlay, IsValue(overlay)
    PROVE  IsValue(Merge(base, overlay)) /\ Merge(base, overlay) # Undefined
<1>1. CASE overlay.sort = "undefined"
  BY <1>1 DEF MergeKeepsContainer
<1>2. CASE base.sort = "map" /\ overlay.sort = "map"
  <2>1. base = MapOf(base.kind, base.entries)
    BY <1>2 DEF IsValue, Undefined
  <2>2. PICK entries : Merge(base, overlay) = [base EXCEPT !.entries = entries]
    BY <1>2 DEF MergeKeepsContainer
  <2>3. Merge(base, overlay) = MapOf(base.kind, entries)
    BY <2>1, <2>2 DEF MapOf
  <2>4. QED
    BY <2>3 DEF IsValue, MapOf, Undefined
<1>3. CASE base.sort = "list" /\ overlay.sort = "list"
  <2>1. base = ListOf(base.kind, base.items)
    BY <1>3 DEF IsValue, Undefined
  <2>2. PICK items : Merge(base, overlay) = [base EXCEPT !.items = items]
    BY <1>3 DEF MergeKeepsContainer
  <2>3. Merge(base, overlay) = ListOf(base.kind, items)
    BY <2>1, <2>2 DEF ListOf
  <2>4. QED
    BY <2>3 DEF IsValue, ListOf, Undefined
<1>4. CASE /\ overlay.sort # "undefined" /\ ~(base.sort = "map" /\ overlay.sort = "map")
           /\ ~(base.sort = "list" /\ overlay.sort = "list")
  <2>1. Merge(base, overlay) = overlay
    BY <1>4 DEF MergeKeepsContainer
  <2>2. overlay # Undefined
    BY <1>4 DEF Undefined
  <2>3. QED
    BY <2>1, <2>2
<1>5. QED
  BY <1>1, <1>2, <1>3, <1>4

LEMMA NodeAtFirst ==
    ASSUME Init
    PROVE  NodeOK
  BY NoLoadIsOK DEF Init, NodeOK, IsValue, MapOf, Undefined

LEMMA PutKeepsMap ==
    ASSUME NodeOK, node.sort = "map", NEW k, NEW value
    PROVE  IsValue(Put(k, value)) /\ Put(k, value) # Undefined
<1>1. node = MapOf(node.kind, node.entries)
  BY DEF NodeOK, IsValue, Undefined
<1> DEFINE wide == [key \in DOMAIN node.entries \cup {k} |-> IF key = k THEN value ELSE node.entries[key]]
<1>2. Put(k, value) = [node EXCEPT !.entries = wide]
  BY DEF Put
<1> HIDE DEF wide
<1>3. Put(k, value) = MapOf(node.kind, wide)
  BY <1>1, <1>2 DEF MapOf
<1>4. QED
  BY <1>3 DEF IsValue, MapOf, Undefined

LEMMA SpliceKeepsValue ==
    ASSUME MergeKeepsContainer, NodeOK, mode \in {"merge", "extend", "assign"}, NEW value, IsValue(value)
    PROVE  IsValue(Spliced(mode, node, value)) /\ Spliced(mode, node, value) # Undefined
<1>1. CASE mode = "merge"
  BY <1>1 DEF Spliced, CallerMerge, NodeOK
<1>2. CASE mode = "extend"
  BY <1>2, MergeIsValue DEF Spliced, NodeOK
<1>3. CASE mode = "assign"
  <2>1. Spliced(mode, node, value) = Assigned(node, value)
    BY <1>3 DEF Spliced
  <2>2. CASE node.sort # "map" \/ value.sort # "map"
    BY <2>1, <2>2 DEF Assigned, NodeOK
  <2>3. CASE node.sort = "map" /\ value.sort = "map"
    <3>1. node = MapOf(node.kind, node.entries)
      BY <2>3 DEF NodeOK, IsValue, Undefined
    <3> DEFINE wide == [key \in DOMAIN node.entries \cup DOMAIN value.entries |->
                           IF key \in DOMAIN value.entries THEN value.entries[key] ELSE node.entries[key]]
    <3>2. Assigned(node, value) = [node EXCEPT !.entries = wide]
      BY <2>3 DEF Assigned
    <3> HIDE DEF wide
    <3>3. Assigned(node, value) = MapOf(node.kind, wide)
      BY <3>1, <3>2 DEF MapOf
    <3>4. QED
      BY <2>1, <3>3 DEF IsValue, MapOf, Undefined
  <2>4. QED
    BY <2>2, <2>3
<1>4. QED
  BY <1>1, <1>2, <1>3

LEMMA NodeStays ==
    ASSUME MergeKeepsContainer, IInv, NodeOK, [Next]_vars
    PROVE  NodeOK'
<1>1. ASSUME node' = node, load' = load \/ load'.key = load.key \/ load'.key = {} PROVE NodeOK'
  BY <1>1 DEF NodeOK, IsValue
<1>2. ASSUME NEW body \in Bodies, NEW key, Refer(body, key) PROVE NodeOK'
  <2>1. node' = node /\ key \in {{}} \cup Free /\ load'.key = key
    BY <1>2 DEF Refer, NoLoad
  <2>2. key # {} => node.sort = "map"
    BY <2>1 DEF Free
  <2>3. QED
    BY <2>1, <2>2 DEF NodeOK, IsValue
<1>3. CASE Process
  <2>1. node' = node /\ load'.key = load.key
    BY <1>3 DEF IInv, LoadOK, Process
  <2>2. QED
    BY <1>1, <2>1
<1>4. CASE Place
  <2>1. at = "place" /\ load'.key = {}
    BY <1>4 DEF Place, NoLoad
  <2>2. IsValue(node') /\ node' # Undefined
    <3>1. CASE load.key = {}
      <4>1. node' = Spliced(mode, node, load.value)
        BY <1>4, <3>1 DEF Place
      <4>2. IsValue(load.value) /\ mode \in {"merge", "extend", "assign"}
        BY <2>1, SplicesAssumption DEF IInv, LoadOK
      <4>3. QED
        BY <4>1, <4>2, SpliceKeepsValue
    <3>2. CASE load.key # {}
      <4>1. node' = Put(CHOOSE key \in load.key : TRUE, load.value) /\ node.sort = "map"
        BY <1>4, <3>2 DEF Place, NodeOK
      <4>2. QED
        BY <4>1, PutKeepsMap
    <3>3. QED
      BY <3>1, <3>2
  <2>3. QED
    BY <2>1, <2>2 DEF NodeOK, IsValue
<1>5. ASSUME NEW k \in Keys, Pair({k}, Scalar("own")) PROVE NodeOK'
  <2> DEFINE value == Scalar("own")
  <2>1. node' = Put(CHOOSE key \in {k} : TRUE, value) /\ load' = load /\ {k} \in Free
    BY <1>5 DEF Pair
  <2>2. node.sort = "map"
    BY <2>1 DEF Free
  <2> HIDE DEF value
  <2>3. IsValue(node') /\ node' # Undefined
    BY <2>1, <2>2, PutKeepsMap
  <2>4. node'.sort = "map"
    BY <2>2, <2>1 DEF Put, NodeOK, IsValue, MapOf
  <2>5. QED
    BY <2>3, <2>4 DEF NodeOK, IsValue
<1>6. QED
  BY <1>1, <1>2, <1>3, <1>4, <1>5 DEF Next, vars, SetProcessor, SetProcessors, Install

(***************************************************************************)
(* Each variable holds what the code's types let it hold, and a reference  *)
(* that is processed or placed names one source, however deep the merge    *)
(* goes.                                                                   *)
(***************************************************************************)
THEOREM SplicesTypeCorrect ==
    ASSUME MergeKeepsContainer
    PROVE  Spec => []TypeOK
<1>1. Init => IInv /\ NodeOK
  BY InvariantAtFirst, NodeAtFirst
<1>2. IInv /\ NodeOK /\ [Next]_vars => (IInv /\ NodeOK)'
  BY InvariantStays, NodeStays
<1>3. IInv /\ NodeOK => TypeOK
  <2> SUFFICES ASSUME IInv, NodeOK PROVE TypeOK
    OBVIOUS
  <2>1. node.sort \in {"scalar", "map", "list"}
    BY DEF NodeOK, IsValue
  <2>2. \A i \in DOMAIN set : set[i].all \in BOOLEAN /\ DOMAIN set[i].table \subseteq Kinds
    <3>1. set \in Seq(BuilderCall)
      BY DEF IInv, TableOK
    <3>2. \A i \in DOMAIN set : set[i] \in BuilderCall
      BY <3>1
    <3>3. \A call \in BuilderCall : call.all \in BOOLEAN /\ DOMAIN call.table \subseteq Kinds
      BY DEF BuilderCall, Table
    <3>4. QED
      BY <3>2, <3>3
  <2>3. \A i \in DOMAIN told : told[i].key \subseteq Keys
    <3>1. DOMAIN told = 1 .. Len(told)
      BY LenProperties DEF IInv, ToldOK
    <3>2. QED
      BY <3>1 DEF IInv, ToldOK, Element
  <2>4. Cardinality(load.names) <= 1
    <3>1. CASE load.names = {}
      BY <3>1, FS_EmptySet
    <3>2. CASE load.names # {}
      <4>1. PICK name \in load.names : load.names = {name}
        BY <3>2 DEF IInv, LoadOK, One
      <4>2. Cardinality({name}) = 1
        BY FS_Singleton
      <4>3. QED
        BY <4>1, <4>2
    <3>3. QED
      BY <3>1, <3>2
  <2>5. QED
    BY <2>1, <2>2, <2>3, <2>4 DEF TypeOK, IInv, TableOK, LoadOK
<1>4. QED
  BY <1>1, <1>2, <1>3, PTL DEF Spec
================================================================================
