------------------------------ MODULE ScanProofs ------------------------------
(***************************************************************************)
(* The scan of Preloads finds what it should and nothing else, for any     *)
(* folders, names, links and extensions and any files that come and go.    *)
(***************************************************************************)
EXTENDS ResolversProofs

(***************************************************************************)
(* What a path comes to, and a name below it.                              *)
(***************************************************************************)
Plain == Segment \ {Nil, Dot, DotDot}

LEMMA PlainNames ==
    /\ Plain \subseteq Name /\ Plain \subseteq Segment
    /\ Seq(Plain) \subseteq Seq(Name) /\ Seq(Plain) \subseteq Seq(Segment)
    /\ \A x \in Plain : x # Nil /\ x # Dot /\ x # DotDot
    /\ Nil # DotDot /\ Dot # DotDot
<1>1. Plain \subseteq Name /\ Plain \subseteq Segment
  BY DEF Plain, Name
<1>2. Seq(Plain) \subseteq Seq(Name) /\ Seq(Plain) \subseteq Seq(Segment)
  BY <1>1, SeqMonotonic
<1>3. QED
  BY <1>1, <1>2, SpecialSegments DEF Plain, Name

\* What ".." at the top comes to: nothing in memory, itself in a native path.
Topmost == IF Native THEN <<DotDot>> ELSE <<>>

LEMMA TopmostIsPlace ==
    /\ Topmost \in Seq(Name) /\ <<>> \in Seq(Name) /\ <<>> \in Seq(Plain) /\ Topmost \in Seq(Segment)
    /\ Topmost = <<>> \/ Topmost = <<DotDot>>
<1>1. <<DotDot>> \in Seq(Name) /\ <<>> \in Seq(Name) /\ <<>> \in Seq(Plain)
  BY SpecialSegments
<1>2. Topmost \in Seq(Name)
  BY <1>1 DEF Topmost
<1>3. QED
  BY <1>1, <1>2, NamesAreSegments DEF Topmost

LEMMA WalkedPlain ==
    ASSUME NEW path \in Seq(Segment), NEW above \in Seq(Name), NEW rest \in Seq(Plain)
    PROVE  Walked(path \o rest, above) = Walked(path, above) \o rest
<1> DEFINE at == Walked(path, above)
           T == {t \in Seq(Plain) : Walked(path \o t, above) = at \o t}
<1>1. at \in Seq(Segment)
  BY WalkedIsPlace, NamesAreSegments
<1>2. <<>> \in T
  BY <1>1, EmptySeq, ConcatEmptySeq
<1> HIDE DEF at
<1>3. ASSUME NEW t \in T, NEW x \in Plain PROVE Append(t, x) \in T
  <2>1. t \in Seq(Segment) /\ x \in Segment /\ path \o t \in Seq(Segment) /\ at \o t \in Seq(Segment)
    BY <1>1, PlainNames, ConcatProperties
  <2>2. Append(path \o t, x) = path \o Append(t, x)
    BY <2>1, SegmentsOn, Zenon
  <2>3. Append(at \o t, x) = at \o Append(t, x)
    BY <1>1, <2>1, SegmentsOn, Zenon
  <2>4. Walked(Append(path \o t, x), above) = Enter(Walked(path \o t, above), x, above)
    BY <2>1, WalkedOn
  <2>5. Enter(Walked(path \o t, above), x, above) = Append(Walked(path \o t, above), x)
    BY PlainNames DEF Enter
  <2>6. Walked(path \o t, above) = at \o t
    OBVIOUS
  <2>7. Append(t, x) \in Seq(Plain)
    BY AppendTo
  <2> HIDE DEF T
  <2>8. Walked(path \o Append(t, x), above) = at \o Append(t, x)
    BY <2>2, <2>3, <2>4, <2>5, <2>6
  <2>9. QED
    BY <2>7, <2>8 DEF T
<1>4. T = Seq(Plain)
  <2>1. T \in SUBSET Seq(Plain)
    OBVIOUS
  <2> HIDE DEF T
  <2>2. QED
    BY <1>2, <1>3, <2>1, SeqSetInduction
<1>5. QED
  BY <1>4 DEF at

\* A walk that keeps ".." at the top and one that does not come to the same but for that.
Alike(path, lead, rest) ==
    Walked(path, Topmost) = lead \o rest /\ Walked(path, <<>>) = rest

LEMMA EnterAlike ==
    ASSUME NEW lead \in {<<>>, Topmost}, NEW rest \in Seq(Plain), NEW x \in Segment
    PROVE  \E l \in {<<>>, Topmost}, r \in Seq(Plain) :
              Enter(lead \o rest, x, Topmost) = l \o r /\ Enter(rest, x, <<>>) = r
<1>1. lead \in Seq(Segment) /\ rest \in Seq(Segment) /\ lead \o rest \in Seq(Segment)
  BY TopmostIsPlace, PlainNames, EmptySeq, ConcatProperties
<1>2. CASE x \in {Nil, Dot}
  BY <1>2 DEF Enter
<1>3. CASE x = DotDot
  <2>1. Enter(lead \o rest, x, Topmost) = Climb(lead \o rest, Topmost) /\ Enter(rest, x, <<>>) = Climb(rest, <<>>)
    BY <1>3, PlainNames DEF Enter
  <2>2. CASE rest = <<>>
    <3>1. lead \o rest = lead
      BY <1>1, <2>2, ConcatEmptySeq
    <3>2. Climb(rest, <<>>) = <<>>
      BY <2>2, EmptySeq DEF Climb
    <3>3. CASE lead = <<>>
      <4>1. Climb(lead \o rest, Topmost) = Topmost
        BY <3>1, <3>3, EmptySeq DEF Climb
      <4>2. Topmost = Topmost \o <<>>
        BY TopmostIsPlace, ConcatEmptySeq
      <4>3. QED
        BY <2>1, <3>2, <4>1, <4>2, TopmostIsPlace
    <3>4. CASE lead # <<>>
      <4>1. lead = <<DotDot>>
        BY <3>4, TopmostIsPlace
      <4>2. Len(lead) = 1 /\ Front(lead) = <<>>
        <5> DEFINE one == <<DotDot>>
        <5>1. one \in Seq(Segment) /\ one # <<>> /\ Len(one) = 1
          BY SpecialSegments DEF Name
        <5> HIDE DEF one
        <5>2. Front(one) \in Seq(Segment) /\ Len(Front(one)) = 0
          BY <5>1, FrontOf
        <5>3. Front(one) = <<>>
          BY <5>2, EmptySeq
        <5>4. QED
          BY <4>1, <5>1, <5>3 DEF one
      <4>3. Climb(lead \o rest, Topmost) = <<>>
        BY <3>1, <4>2 DEF Climb
      <4>4. <<>> = <<>> \o <<>>
        OBVIOUS
      <4>5. QED
        BY <2>1, <3>2, <4>3, <4>4, TopmostIsPlace
    <3>5. QED
      BY <3>3, <3>4
  <2>3. CASE rest # <<>>
    <3> DEFINE front == Front(rest)
               y == Last(rest)
    <3>1. front \in Seq(Plain) /\ y \in Plain /\ rest = Append(front, y) /\ Len(rest) # 0
      <4>1. front \in Seq(Plain) /\ y \in Plain /\ y = rest[Len(rest)] /\ Len(front) = Len(rest) - 1
            /\ (\A i \in 1 .. Len(rest) - 1 : front[i] = rest[i]) /\ Len(rest) \in Nat \ {0}
        BY <2>3, FrontOf
      <4> HIDE DEF front, y
      <4>2. /\ Append(front, y) \in Seq(Plain) /\ Len(Append(front, y)) = Len(rest)
            /\ Append(front, y)[Len(rest)] = y
            /\ \A i \in 1 .. Len(rest) - 1 : Append(front, y)[i] = front[i]
        BY <4>1, AppendTo
      <4>3. \A i \in 1 .. Len(rest) : i \in 1 .. Len(rest) - 1 \/ i = Len(rest)
        BY <4>1
      <4>4. \A i \in 1 .. Len(rest) : Append(front, y)[i] = rest[i]
        BY <4>1, <4>2, <4>3
      <4>5. rest = Append(front, y)
        BY <4>2, <4>4, SeqEqual
      <4>6. QED
        BY <4>1, <4>5
    <3>2. Climb(rest, <<>>) = front
      BY <3>1 DEF Climb
    <3> DEFINE whole == lead \o front
    <3>3. lead \o rest = Append(whole, y) /\ whole \in Seq(Segment) /\ y \in Segment
      <4>1. front \in Seq(Segment) /\ y \in Segment
        BY <3>1, PlainNames
      <4> HIDE DEF front, y
      <4>2. Append(lead \o front, y) = lead \o Append(front, y)
        BY <1>1, <4>1, SegmentsOn, Zenon
      <4>3. lead \o front \in Seq(Segment)
        BY <1>1, <4>1, ConcatProperties
      <4>4. QED
        BY <3>1, <4>1, <4>2, <4>3
    <3> HIDE DEF whole, y
    <3>4. Front(Append(whole, y)) = whole /\ Len(Append(whole, y)) # 0
      BY <3>3, FrontOfAppend
    <3>5. Climb(lead \o rest, Topmost) = whole
      BY <3>3, <3>4 DEF Climb
    <3>6. QED
      BY <2>1, <3>1, <3>2, <3>5 DEF whole
  <2>4. QED
    BY <2>2, <2>3
<1>4. CASE x \in Plain
  <2>1. Enter(lead \o rest, x, Topmost) = Append(lead \o rest, x) /\ Enter(rest, x, <<>>) = Append(rest, x)
    BY <1>4, PlainNames DEF Enter
  <2>2. Append(rest, x) \in Seq(Plain)
    BY <1>4, AppendTo
  <2>3. Append(lead \o rest, x) = lead \o Append(rest, x)
    BY <1>1, SegmentsOn, Zenon
  <2>4. QED
    BY <2>1, <2>2, <2>3
<1>5. QED
  BY <1>2, <1>3, <1>4 DEF Plain

LEMMA WalksAlike ==
    ASSUME NEW path \in Seq(Segment)
    PROVE  \E lead \in {<<>>, Topmost}, rest \in Seq(Plain) : Alike(path, lead, rest)
<1> DEFINE T == {p \in Seq(Segment) : \E lead \in {<<>>, Topmost}, rest \in Seq(Plain) : Alike(p, lead, rest)}
<1>1. <<>> \in T
  <2> DEFINE none == <<>>
  <2>1. none \in Seq(Segment) /\ none \in Seq(Plain) /\ none \o none = none
    BY TopmostIsPlace, NamesAreSegments
  <2>2. Walked(none, Topmost) = none /\ Walked(none, <<>>) = none
    BY TopmostIsPlace, SpecialSegments, WalkedOn
  <2>3. Alike(none, none, none)
    BY <2>1, <2>2 DEF Alike
  <2>4. none \in {<<>>, Topmost}
    OBVIOUS
  <2> HIDE DEF none
  <2>5. none \in T
    BY <2>1, <2>3, <2>4
  <2>6. QED
    BY <2>5 DEF none
<1>2. ASSUME NEW p \in T, NEW x \in Segment PROVE Append(p, x) \in T
  <2>1. p \in Seq(Segment) /\ Append(p, x) \in Seq(Segment)
    BY AppendTo
  <2>2. PICK lead \in {<<>>, Topmost}, rest \in Seq(Plain) : Alike(p, lead, rest)
    OBVIOUS
  <2>3. PICK l \in {<<>>, Topmost}, r \in Seq(Plain) :
           Enter(lead \o rest, x, Topmost) = l \o r /\ Enter(rest, x, <<>>) = r
    BY EnterAlike
  <2>4. /\ Walked(Append(p, x), Topmost) = Enter(Walked(p, Topmost), x, Topmost)
        /\ Walked(Append(p, x), <<>>) = Enter(Walked(p, <<>>), x, <<>>)
    BY <2>1, TopmostIsPlace, WalkedOn
  <2>5. Alike(Append(p, x), l, r)
    BY <2>2, <2>3, <2>4, Zenon DEF Alike
  <2>6. QED
    BY <2>1, <2>5
<1>3. T \in SUBSET Seq(Segment)
  OBVIOUS
<1> HIDE DEF T
<1>4. T = Seq(Segment)
  BY <1>1, <1>2, <1>3, SeqSetInduction
<1>5. QED
  BY <1>4 DEF T

(***************************************************************************)
(* How a task of the scan is spelled: the folder it began with, cleaned,   *)
(* and the names on the way down.                                          *)
(***************************************************************************)
Full(path) == IF Native THEN Absolute(path) ELSE path

Out(path) == Walked(Full(path), Topmost)

Spelled(out) ==
    IF Native THEN IF out = <<>> THEN RootPath ELSE <<Nil>> \o out
    ELSE IF out = <<>> THEN <<Dot>> ELSE out

TaskPath(folder, below) == Spelled(Out(folder) \o below)

LEMMA FullIsThere ==
    ASSUME NEW path \in Path, setup \in Setups
    PROVE  /\ Full(path) \in Path /\ Full(path) \in Seq(Segment)
           /\ Native => IsAbsolute(Full(path))
           /\ Place(path) = Walked(Full(path), <<>>)
           /\ Canonical(path) = Spelled(Out(path))
<1>1. Absolute(path) \in Path
  BY AbsoluteIsPath
<1>2. IsAbsolute(Absolute(path))
  <2>1. CASE IsAbsolute(path)
    BY <2>1 DEF Absolute
  <2>2. CASE ~IsAbsolute(path)
    <3> DEFINE there == Cwd \o path
    <3>1. Cwd \in Seq(Segment) /\ Cwd # <<>> /\ Len(Cwd) > 1 /\ Cwd[1] = Nil
      BY PathsAssumption DEF Path, IsAbsolute
    <3>2. path \in Seq(Segment) /\ Len(path) \in Nat
      BY LenProperties DEF Path
    <3>3. /\ Len(there) = Len(Cwd) + Len(path)
          /\ \A i \in 1 .. Len(Cwd) : there[i] = Cwd[i]
      BY <3>1, <3>2, ConcatProperties
    <3>4. Len(Cwd) \in Nat /\ 1 \in 1 .. Len(Cwd)
      BY <3>1, LenProperties
    <3> HIDE DEF there
    <3>5. Len(there) > 1 /\ there[1] = Nil
      BY <3>1, <3>2, <3>3, <3>4
    <3>6. QED
      BY <2>2, <3>5 DEF Absolute, IsAbsolute, there
  <2>3. QED
    BY <2>1, <2>2
<1>3. Full(path) \in Path /\ (Native => IsAbsolute(Full(path)))
  BY <1>1, <1>2 DEF Full
<1>4. Place(path) = Walked(Full(path), <<>>)
  BY DEF Place, Full
<1>5. Canonical(path) = Spelled(Out(path))
  BY <1>2, Zenon DEF Canonical, Canon, Lexical, Clean, Spelled, Out, Full, Topmost
<1>6. QED
  BY <1>3, <1>4, <1>5 DEF Path

\* One more segment.
LEMMA OneMore ==
    \A above \in {<<>>, Topmost} : \A path \in Seq(Segment) :
        /\ \A x \in Segment : Walked(Append(path, x), above) = Enter(Walked(path, above), x, above)
        /\ Walked(Append(path, Nil), above) = Walked(path, above)
        /\ Walked(Append(path, Dot), above) = Walked(path, above)
<1> TAKE above \in {<<>>, Topmost}
<1> TAKE path \in Seq(Segment)
<1>1. \A x \in Segment : Walked(Append(path, x), above) = Enter(Walked(path, above), x, above)
  BY TopmostIsPlace, WalkedOn, Zenon
<1>2. \A walked : Enter(walked, Nil, above) = walked /\ Enter(walked, Dot, above) = walked
  BY DEF Enter
<1>3. Nil \in Segment /\ Dot \in Segment
  BY SpecialSegments
<1>4. QED
  BY <1>1, <1>2, <1>3, Zenon

\* What is spelled comes to what it was spelled from.
LEMMA SpelledWalks ==
    ASSUME NEW lead \in {<<>>, Topmost}, NEW rest \in Seq(Plain), NEW path, path = Spelled(lead \o rest)
    PROVE  /\ path \in Seq(Segment) /\ path # <<>> /\ (Native => IsAbsolute(path))
           /\ Walked(path, Topmost) = lead \o rest /\ Walked(path, <<>>) = rest
<1> DEFINE out == lead \o rest
<1>1. /\ lead \in Seq(Segment) /\ rest \in Seq(Segment) /\ out \in Seq(Segment)
      /\ <<>> \in Seq(Segment) /\ Nil \in Segment /\ Dot \in Segment /\ DotDot \in Segment
      /\ <<>> \in Seq(Name) /\ Topmost \in Seq(Name) /\ <<>> \in Seq(Plain)
  BY TopmostIsPlace, PlainNames, ConcatProperties, NamesAreSegments, SpecialSegments DEF Name
<1>2. /\ Walked(<<>>, Topmost) = <<>> /\ Walked(<<>>, <<>>) = <<>>
      /\ \A r \in Seq(Segment) : <<>> \o r = r /\ r \o <<>> = r
  BY <1>1, WalkedOn, ConcatEmptySeq
<1> DEFINE root == <<Nil>>
<1>3. root \in Seq(Segment) /\ root = Append(<<>>, Nil) /\ Len(root) = 1 /\ root[1] = Nil
  BY <1>1
<1> HIDE DEF root
<1>4. Walked(root, Topmost) = <<>> /\ Walked(root, <<>>) = <<>>
  BY <1>1, <1>2, <1>3, OneMore, Zenon
<1>5. CASE Native /\ out = <<>>
  <2>1. path = RootPath /\ RootPath = Append(root, Nil)
    BY <1>5 DEF Spelled, RootPath, root
  <2>2. Walked(path, Topmost) = <<>> /\ Walked(path, <<>>) = <<>>
    BY <1>3, <1>4, <2>1, OneMore, Zenon
  <2>3. IsAbsolute(path) /\ path \in Seq(Segment) /\ path # <<>>
    BY <1>1, <2>1 DEF IsAbsolute, RootPath
  <2>4. rest = <<>>
    <3>1. Len(out) = Len(lead) + Len(rest) /\ Len(lead) \in Nat /\ Len(rest) \in Nat
      BY <1>1, ConcatProperties, LenProperties
    <3>2. Len(rest) = 0
      BY <1>5, <3>1
    <3>3. QED
      BY <1>1, <3>2, EmptySeq
  <2>5. QED
    BY <1>5, <2>2, <2>3, <2>4
<1>6. CASE Native /\ out # <<>>
  <2>1. path = root \o out /\ path = (root \o lead) \o rest
    <3>1. path = root \o out
      BY <1>6 DEF Spelled, root
    <3>2. root \o (lead \o rest) = (root \o lead) \o rest
      BY <1>1, <1>3, SegmentsJoin, Zenon
    <3>3. QED
      BY <3>1, <3>2
  <2>2. IsAbsolute(path) /\ path \in Seq(Segment) /\ path # <<>>
    <3>1. /\ root \o out \in Seq(Segment) /\ Len(root \o out) = 1 + Len(out) /\ (root \o out)[1] = root[1]
          /\ Len(out) \in Nat \ {0}
      <4> HIDE DEF out
      <4>1. /\ root \o out \in Seq(Segment) /\ Len(root \o out) = Len(root) + Len(out)
            /\ \A i \in 1 .. Len(root) : (root \o out)[i] = root[i]
        BY <1>1, <1>3, ConcatProperties
      <4>2. Len(out) \in Nat \ {0} /\ 1 \in 1 .. Len(root)
        BY <1>1, <1>3, <1>6, EmptySeq
      <4>3. QED
        BY <1>3, <4>1, <4>2
    <3> DEFINE all == root \o out
    <3> HIDE DEF all
    <3>2. all \in Seq(Segment) /\ Len(all) > 1 /\ all[1] = Nil
      BY <1>3, <3>1 DEF all
    <3>3. all # <<>>
      BY <3>2
    <3>4. path = all
      BY <2>1 DEF all
    <3>5. QED
      BY <3>2, <3>3, <3>4 DEF IsAbsolute
  <2>3. Walked(root \o lead, Topmost) = lead /\ Walked(root \o lead, <<>>) = <<>>
    <3>1. CASE lead = <<>>
      <4>1. root \o lead = root
        BY <1>3, <3>1, ConcatEmptySeq
      <4>2. QED
        BY <1>4, <3>1, <4>1
    <3>2. CASE lead # <<>>
      <4>1. lead = <<DotDot>> /\ Topmost = <<DotDot>> /\ root \o lead = Append(root, DotDot)
        <5>1. lead = <<DotDot>> /\ Topmost = <<DotDot>>
          BY <3>2, TopmostIsPlace
        <5>2. Append(root, DotDot) = root \o <<DotDot>>
          BY <1>1, <1>3, AppendIsConcat
        <5>3. QED
          BY <5>1, <5>2
      <4>2. /\ Walked(root \o lead, Topmost) = Enter(<<>>, DotDot, Topmost)
            /\ Walked(root \o lead, <<>>) = Enter(<<>>, DotDot, <<>>)
        <5>1. /\ Walked(Append(root, DotDot), Topmost) = Enter(Walked(root, Topmost), DotDot, Topmost)
              /\ Walked(Append(root, DotDot), <<>>) = Enter(Walked(root, <<>>), DotDot, <<>>)
          BY <1>1, <1>3, OneMore, Zenon
        <5>2. QED
          BY <1>4, <4>1, <5>1
      <4>3. Enter(<<>>, DotDot, Topmost) = Topmost /\ Enter(<<>>, DotDot, <<>>) = <<>>
        <5>1. DotDot \notin {Nil, Dot} /\ Len(<<>>) = 0
          BY PlainNames
        <5>2. QED
          BY <5>1, Zenon DEF Enter, Climb
      <4>4. QED
        BY <4>1, <4>2, <4>3
    <3>3. QED
      BY <3>1, <3>2
  <2>4. root \o lead \in Seq(Segment)
    BY <1>1, <1>3, ConcatProperties
  <2>5. /\ Walked((root \o lead) \o rest, Topmost) = Walked(root \o lead, Topmost) \o rest
        /\ Walked((root \o lead) \o rest, <<>>) = Walked(root \o lead, <<>>) \o rest
    BY <1>1, <2>4, WalkedPlain
  <2>6. QED
    BY <1>1, <1>2, <2>1, <2>2, <2>3, <2>5
<1>7. CASE ~Native
  <2>1. Topmost = <<>> /\ lead = <<>> /\ out = rest
    BY <1>1, <1>2, <1>7 DEF Topmost
  <2>2. CASE rest = <<>>
    <3>1. path = <<Dot>> /\ path = Append(<<>>, Dot)
      BY <1>7, <2>1, <2>2 DEF Spelled
    <3>2. Walked(path, <<>>) = <<>>
      BY <1>1, <1>2, <3>1, OneMore, Zenon
    <3>3. path \in Seq(Segment) /\ path # <<>>
      BY <1>1, <3>1
    <3>4. QED
      BY <1>7, <2>1, <2>2, <3>2, <3>3
  <2>3. CASE rest # <<>>
    <3>1. path = rest
      BY <1>7, <2>1, <2>3 DEF Spelled
    <3>2. Walked(<<>> \o rest, <<>>) = Walked(<<>>, <<>>) \o rest
      BY <1>1, WalkedPlain
    <3>3. <<>> \o rest = rest
      BY <1>1, <1>2
    <3>4. Walked(rest, <<>>) = rest
      BY <1>2, <3>2, <3>3
    <3>5. QED
      BY <1>1, <1>7, <2>1, <2>3, <3>1, <3>4
  <2>4. QED
    BY <2>2, <2>3
<1>8. QED
  BY <1>5, <1>6, <1>7

(***************************************************************************)
(* The four laws of a task's path: it begins as the folder, leads below    *)
(* the folder, grows by joining a name, and is the path a resolver looks   *)
(* the folder and the names up by.                                         *)
(***************************************************************************)
LEMMA TaskPathIs ==
    ASSUME NEW folder \in Path, setup \in Setups, NEW below \in Seq(Plain)
    PROVE  /\ TaskPath(folder, <<>>) = Canonical(folder)
           /\ TaskPath(folder, below) \in Path
           /\ Place(folder) \in Seq(Plain)
           /\ Place(TaskPath(folder, below)) = Place(folder) \o below
           /\ \A x \in Plain : Join(TaskPath(folder, below), <<x>>) = TaskPath(folder, Append(below, x))
<1>1. Full(folder) \in Seq(Segment) /\ Place(folder) = Walked(Full(folder), <<>>)
  BY FullIsThere
<1>2. PICK lead \in {<<>>, Topmost}, rest \in Seq(Plain) : Alike(Full(folder), lead, rest)
  BY <1>1, WalksAlike
<1>3. Out(folder) = lead \o rest /\ Place(folder) = rest
  BY <1>1, <1>2 DEF Alike, Out
<1>4. /\ lead \in Seq(Segment) /\ rest \in Seq(Segment) /\ below \in Seq(Segment)
      /\ rest \o below \in Seq(Plain) /\ lead \o rest \in Seq(Segment)
  <2>1. lead \in Seq(Segment) /\ rest \in Seq(Segment) /\ below \in Seq(Segment)
    BY TopmostIsPlace, PlainNames, NamesAreSegments
  <2>2. rest \o below \in Seq(Plain)
    BY ConcatProperties
  <2>3. lead \o rest \in Seq(Segment)
    BY <2>1, ConcatProperties
  <2>4. QED
    BY <2>1, <2>2, <2>3
<1>5. TaskPath(folder, <<>>) = Canonical(folder)
  <2>1. Out(folder) \o <<>> = Out(folder)
    BY <1>3, <1>4, ConcatEmptySeq
  <2>2. QED
    BY <2>1, FullIsThere DEF TaskPath
<1> DEFINE path == TaskPath(folder, below)
           deeper == rest \o below
<1>6. path = Spelled(lead \o deeper)
  <2>1. (lead \o rest) \o below = lead \o (rest \o below)
    BY <1>4, SegmentsJoin, Zenon
  <2>2. QED
    BY <1>3, <2>1 DEF TaskPath
<1> HIDE DEF path, deeper
<1>7. deeper \in Seq(Plain) /\ deeper \in Seq(Segment)
  BY <1>4, PlainNames DEF deeper
<1>8. /\ path \in Seq(Segment) /\ path # <<>> /\ (Native => IsAbsolute(path))
      /\ Walked(path, Topmost) = lead \o deeper /\ Walked(path, <<>>) = deeper
  BY <1>6, <1>7, SpelledWalks
<1>9. Place(path) = deeper
  <2>1. CASE Native
    BY <1>8, <2>1 DEF Place, Absolute
  <2>2. CASE ~Native
    BY <1>8, <2>2 DEF Place
  <2>3. QED
    BY <2>1, <2>2
<1>10. ASSUME NEW x \in Plain
       PROVE  Join(path, <<x>>) = TaskPath(folder, Append(below, x))
  <2> DEFINE longer == Append(path, x)
             more == Append(deeper, x)
             out == lead \o more
  <2>1. x \in Segment /\ x # Nil /\ x # Dot /\ x # DotDot
    BY PlainNames
  <2>2. longer = path \o <<x>>
    BY <1>8, <2>1, AppendIsConcat
  <2>3. Walked(longer, Topmost) = out
    <3>1. Topmost \in {<<>>, Topmost}
      OBVIOUS
    <3>2. Walked(longer, Topmost) = Enter(Walked(path, Topmost), x, Topmost)
      BY <1>8, <2>1, <3>1, OneMore, Zenon
    <3>3. Enter(lead \o deeper, x, Topmost) = Append(lead \o deeper, x)
      BY <2>1, Zenon DEF Enter
    <3>4. Append(lead \o deeper, x) = lead \o Append(deeper, x)
      BY <1>4, <1>7, <2>1, SegmentsOn, Zenon
    <3>5. QED
      BY <1>8, <3>2, <3>3, <3>4
  <2>4. TaskPath(folder, Append(below, x)) = Spelled(out)
    <3>1. (lead \o rest) \o Append(below, x) = Append((lead \o rest) \o below, x)
      BY <1>4, <2>1, SegmentsOn, Zenon
    <3>2. (lead \o rest) \o below = lead \o (rest \o below)
      BY <1>4, SegmentsJoin, Zenon
    <3>3. Append(lead \o deeper, x) = lead \o Append(deeper, x)
      BY <1>4, <1>7, <2>1, SegmentsOn, Zenon
    <3>4. Out(folder) \o Append(below, x) = out
      BY <1>3, <3>1, <3>2, <3>3, Zenon DEF deeper
    <3>5. QED
      BY <3>4 DEF TaskPath
  <2>5. out # <<>>
    <3>1. more \in Seq(Segment) /\ Len(more) = Len(deeper) + 1 /\ Len(deeper) \in Nat
      BY <1>7, <2>1, AppendTo, LenProperties
    <3> HIDE DEF more
    <3>2. out \in Seq(Segment) /\ Len(out) = Len(lead) + Len(more) /\ Len(lead) \in Nat
      BY <1>4, <3>1, ConcatProperties, LenProperties
    <3> HIDE DEF out
    <3>3. Len(out) # 0
      BY <3>1, <3>2
    <3>4. QED
      BY <3>3, EmptySeq
  <2> DEFINE part == <<x>>
  <2>6. Join(path, part) = Spelled(out)
    <3>1. ~IsAbsolute(part) /\ part # <<>>
      BY DEF IsAbsolute
    <3>2. CASE Native
      <4>1. path # EmptyPath /\ IsAbsolute(longer)
        <5>1. Len(path) > 1 /\ path[1] = Nil /\ Len(path) \in Nat
          BY <1>8, <3>2, LenProperties DEF IsAbsolute
        <5>2. Len(EmptyPath) = 1
          BY DEF EmptyPath
        <5>3. Len(longer) = Len(path) + 1 /\ \A i \in 1 .. Len(path) : longer[i] = path[i]
          BY <1>8, <2>1, AppendTo
        <5> HIDE DEF longer
        <5>4. 1 \in 1 .. Len(path) /\ Len(longer) > 1
          BY <5>1, <5>3
        <5>5. QED
          BY <5>1, <5>2, <5>3, <5>4 DEF IsAbsolute
      <4>2. Push(path, part) = longer
        BY <2>2, <3>1, <4>1 DEF Push
      <4>3. Topmost = <<DotDot>>
        BY <3>2 DEF Topmost
      <4> HIDE DEF longer, out, part
      <4>4. Join(path, part) = Lexical(longer)
        BY <3>2, <4>2 DEF Join, JoinPaths
      <4>5. Lexical(longer) = <<Nil>> \o out
        BY <2>3, <2>5, <4>1, <4>3 DEF Lexical
      <4>6. QED
        BY <2>5, <3>2, <4>4, <4>5 DEF Spelled
    <3>3. CASE ~Native
      <4>1. Topmost = <<>>
        BY <3>3 DEF Topmost
      <4> HIDE DEF longer, out
      <4>2. Join(path, part) = Clean(longer)
        BY <2>2, <3>3 DEF Join, JoinPaths
      <4>3. Clean(longer) = out
        BY <2>3, <2>5, <4>1 DEF Clean
      <4>4. QED
        BY <2>5, <3>3, <4>2, <4>3 DEF Spelled
    <3>4. QED
      BY <3>2, <3>3
  <2>7. QED
    BY <2>4, <2>6
<1>11. \A x \in Plain : Join(path, <<x>>) = TaskPath(folder, Append(below, x))
  BY <1>10, Zenon
<1>12. QED
  BY <1>3, <1>4, <1>5, <1>8, <1>9, <1>11 DEF path, deeper, Path

LEMMA LookedUpBy ==
    ASSUME NEW folder \in Path, setup \in Setups, NEW below \in Seq(Plain), below # <<>>
    PROVE  Canonical(Push(folder, below)) = TaskPath(folder, below)
<1> DEFINE whole == Push(folder, below)
<1>1. /\ below \in Seq(Segment) /\ Len(below) \in Nat \ {0} /\ below[1] # Nil
      /\ folder \in Seq(Segment) /\ Len(folder) \in Nat \ {0}
      /\ Cwd \in Seq(Segment) /\ Topmost \in Seq(Name) /\ Nil \in Segment
      /\ Topmost \in {<<>>, Topmost}
  <2>1. below \in Seq(Segment) /\ Len(below) \in Nat \ {0}
    BY PlainNames, EmptySeq
  <2>2. below[1] # Nil
    <3>1. 1 \in 1 .. Len(below)
      BY <2>1
    <3>2. below[1] \in Plain
      BY <3>1, ElementOfSeq
    <3>3. QED
      BY <3>2, PlainNames
  <2>3. folder \in Seq(Segment) /\ Len(folder) \in Nat \ {0}
    BY EmptySeq DEF Path
  <2>4. QED
    BY <2>1, <2>2, <2>3, PathsAssumption, TopmostIsPlace, SpecialSegments DEF Path
<1>2. ~IsAbsolute(below)
  BY <1>1 DEF IsAbsolute
<1>3. whole \in Path /\ Walked(Full(whole), Topmost) = Walked(Full(folder), Topmost) \o below
  <2>1. CASE folder = EmptyPath
    <3>1. whole = below /\ whole \in Path
      BY <1>1, <2>1 DEF Push, Path
    <3>2. ~IsAbsolute(folder) /\ folder = <<Nil>>
      BY <2>1 DEF EmptyPath, IsAbsolute
    <3>3. CASE Native
      <4>1. Full(whole) = Cwd \o below /\ Full(folder) = Cwd \o folder
        BY <1>2, <3>1, <3>2, <3>3 DEF Full, Absolute
      <4>2. Cwd \o folder = Append(Cwd, Nil)
        BY <1>1, <3>2, AppendIsConcat
      <4>3. Walked(Append(Cwd, Nil), Topmost) = Walked(Cwd, Topmost)
        BY <1>1, OneMore, Zenon
      <4>4. Walked(Cwd \o below, Topmost) = Walked(Cwd, Topmost) \o below
        BY <1>1, WalkedPlain
      <4>5. QED
        BY <3>1, <4>1, <4>2, <4>3, <4>4, Zenon
    <3>4. CASE ~Native
      <4>1. Full(whole) = below /\ Full(folder) = Append(<<>>, Nil) /\ <<>> \in Seq(Segment)
        BY <3>1, <3>2, <3>4 DEF Full
      <4>2. Walked(Append(<<>>, Nil), Topmost) = Walked(<<>>, Topmost)
        BY <1>1, <4>1, OneMore, Zenon
      <4>3. Walked(<<>> \o below, Topmost) = Walked(<<>>, Topmost) \o below
        BY <1>1, <4>1, WalkedPlain
      <4>4. <<>> \o below = below
        BY <1>1, ConcatEmptySeq
      <4>5. QED
        BY <3>1, <4>1, <4>2, <4>3, <4>4, Zenon
    <3>5. QED
      BY <3>3, <3>4
  <2>2. CASE folder # EmptyPath
    <3> DEFINE on == folder \o below
    <3>1. whole = on
      BY <1>2, <2>2 DEF Push
    <3>2. /\ on \in Seq(Segment) /\ Len(on) = Len(folder) + Len(below)
          /\ \A i \in 1 .. Len(folder) : on[i] = folder[i]
      BY <1>1, ConcatProperties
    <3> HIDE DEF on
    <3>3. on \in Path /\ Len(on) > 1 /\ on[1] = folder[1]
      <4>1. 1 \in 1 .. Len(folder) /\ Len(on) > 1
        BY <1>1, <3>2
      <4>2. on # <<>>
        BY <3>2, <4>1
      <4>3. QED
        BY <3>2, <4>1, <4>2 DEF Path
    <3>4. IsAbsolute(on) <=> IsAbsolute(folder)
      <4>1. CASE Len(folder) > 1
        BY <3>3, <4>1 DEF IsAbsolute
      <4>2. CASE Len(folder) = 1
        <5>1. folder = <<folder[1]>>
          BY <1>1, <4>2
        <5>2. folder[1] # Nil
          BY <2>2, <5>1 DEF EmptyPath
        <5>3. QED
          BY <3>3, <4>2, <5>2 DEF IsAbsolute
      <4>3. Len(folder) > 1 \/ Len(folder) = 1
        <5>1. Len(folder) \in Nat \ {0}
          BY <1>1, Zenon
        <5>2. QED
          BY <5>1
      <4>4. QED
        BY <4>1, <4>2, <4>3, Zenon
    <3>5. Full(on) = Full(folder) \o below
      <4>1. CASE Native /\ ~IsAbsolute(folder)
        <5>1. Full(on) = Cwd \o on /\ Full(folder) = Cwd \o folder
          BY <3>4, <4>1 DEF Full, Absolute
        <5>2. Cwd \o (folder \o below) = (Cwd \o folder) \o below
          BY <1>1, SegmentsJoin, Zenon
        <5>3. QED
          BY <5>1, <5>2, Zenon DEF on
      <4>2. CASE ~Native \/ IsAbsolute(folder)
        <5>1. Full(on) = on /\ Full(folder) = folder
          BY <3>4, <4>2 DEF Full, Absolute
        <5>2. QED
          BY <5>1, Zenon DEF on
      <4>3. QED
        BY <4>1, <4>2
    <3>6. Full(folder) \in Seq(Segment)
      BY FullIsThere
    <3>7. Walked(Full(folder) \o below, Topmost) = Walked(Full(folder), Topmost) \o below
      BY <1>1, <3>6, WalkedPlain
    <3>8. QED
      BY <3>1, <3>3, <3>5, <3>7
  <2>3. QED
    BY <2>1, <2>2
<1> HIDE DEF whole
<1>4. Canonical(whole) = Spelled(Walked(Full(whole), Topmost))
  BY <1>3, FullIsThere DEF Out
<1>5. QED
  BY <1>3, <1>4 DEF TaskPath, Out, whole

(***************************************************************************)
(* The tree a scan goes through.                                           *)
(***************************************************************************)
Places == Placeable \cup Fixed \cup DOMAIN Links

LEMMA TreeIs ==
    ASSUME setup \in Setups, setup.folders # <<>>
    PROVE  /\ ToSet(Names) \subseteq Plain
           /\ Places \subseteq Seq(ToSet(Names)) /\ Places \subseteq Seq(Plain)
           /\ Places \subseteq Seq(Segment)
           /\ \A place, other \in Places : ~IsStrictPrefix(place, other)
           /\ setup.folders \in Seq(Path) /\ ToSet(setup.folders) \subseteq Path
<1>1. Names \in Seq(Segment) /\ setup.folders \in Seq(Path)
  BY PreloadSetup
<1>2. IsTree(Places, ToSet(Names))
  BY PreloadsAssumption DEF Places, Placeable, Fixed, Links, Names
<1>3. ToSet(Names) \subseteq Plain
  <2>1. ToSet(Names) \subseteq Segment
    BY <1>1, ToSetIs
  <2>2. ToSet(Names) \cap {Nil, Dot, DotDot} = {}
    BY <1>2, Zenon DEF IsTree
  <2>3. QED
    BY <2>1, <2>2 DEF Plain
<1>4. Places \subseteq Seq(Segment)
  BY SetupType DEF Places
<1>5. ASSUME NEW place \in Places PROVE place \in Seq(ToSet(Names))
  <2>1. place \in Seq(Segment)
    BY <1>4
  <2>2. place \in Seq(ToSet(place))
    BY <2>1, ToSetIs
  <2>3. ToSet(place) \subseteq ToSet(Names)
    BY <1>2, Zenon DEF IsTree
  <2>4. QED
    BY <2>2, <2>3, SeqMonotonic
<1>6. Places \subseteq Seq(ToSet(Names))
  BY <1>5
<1>7. Places \subseteq Seq(Plain)
  BY <1>3, <1>6, SeqMonotonic
<1>8. \A place, other \in Places : ~IsStrictPrefix(place, other)
  BY <1>2, Zenon DEF IsTree
<1>9. ToSet(setup.folders) \subseteq Path
  BY <1>1, ToSetIs
<1>10. QED
  BY <1>1, <1>3, <1>4, <1>6, <1>7, <1>8, <1>9

\* What has something in it is nothing itself, and no part of the way to it is a link.
LEMMA FolderClear ==
    ASSUME setup \in Setups, setup.folders # <<>>, NEW place \in Seq(Segment), NEW below \in Seq(Segment),
           place \o below \in Places, below # <<>>
    PROVE  place \notin Places /\ LinksOn(place) = {}
<1>1. IsStrictPrefix(place, place \o below)
  BY PartsOfConcat
<1>2. place \notin Places
  BY <1>1, TreeIs
<1>3. ASSUME NEW i \in LinksOn(place) PROVE FALSE
  <2> DEFINE link == SubSeq(place, 1, i)
             rest == SubSeq(place, i + 1, Len(place))
             deeper == rest \o below
  <2>1. i \in 1 .. Len(place) /\ link \in DOMAIN Links
    BY DEF LinksOn
  <2>2. link \in Seq(Segment) /\ rest \in Seq(Segment) /\ place = link \o rest
    <3>1. /\ Len(place) \in Nat /\ i \in 0 .. Len(place) /\ i \in 1 .. Len(place)
          /\ \A k \in 1 .. Len(place) : place[k] \in Segment
      BY <2>1, LenProperties, ElementOfSeq
    <3>2. link \in Seq(Segment)
      BY <3>1, PrefixOf
    <3>3. rest \in Seq(Segment)
      <4>1. i + 1 \in Int /\ Len(place) \in Int /\ \A k \in i + 1 .. Len(place) : place[k] \in Segment
        BY <3>1
      <4>2. QED
        BY <4>1, SubSeqProperties
    <3>4. link \o rest = place
      <4> DEFINE b == 1
                 n == Len(place)
      <4>1. b \in 1 .. Len(place) + 1 /\ i \in b - 1 .. Len(place) /\ n \in i .. Len(place)
        BY <3>1
      <4> HIDE DEF b, n
      <4>2. SubSeq(place, b, i) \o SubSeq(place, i + 1, n) = SubSeq(place, b, n)
        BY <4>1, ConcatAdjacentSubSeq
      <4>3. SubSeq(place, 1, Len(place)) = place
        BY SubSeqFull
      <4>4. QED
        BY <4>2, <4>3 DEF b, n
    <3>5. QED
      BY <3>2, <3>3, <3>4
  <2> HIDE DEF link, rest
  <2>3. deeper \in Seq(Segment) /\ deeper # <<>>
    <3>1. deeper \in Seq(Segment) /\ Len(deeper) = Len(rest) + Len(below)
      BY <2>2, ConcatProperties
    <3>2. Len(<<>>) = 0
      OBVIOUS
    <3>3. Len(rest) \in Nat /\ Len(below) \in Nat \ {0}
      BY <2>2, LenProperties, EmptySeq
    <3> HIDE DEF deeper
    <3>4. Len(deeper) # 0
      BY <3>1, <3>3
    <3>5. QED
      BY <3>1, <3>4, <3>2
  <2>4. link \o (rest \o below) = (link \o rest) \o below
    BY <2>2, SegmentsJoin, Zenon
  <2> HIDE DEF deeper
  <2>5. link \o deeper \in Places
    BY <2>2, <2>4 DEF deeper
  <2>6. IsStrictPrefix(link, link \o deeper)
    BY <2>2, <2>3, PartsOfConcat
  <2>7. link \in Places
    BY <2>1 DEF Places
  <2>8. QED
    BY <2>5, <2>6, <2>7, TreeIs
<1>4. QED
  BY <1>2, <1>3

LEMMA FollowDown ==
    ASSUME setup \in Setups, NEW place \in Seq(Segment), NEW below \in Seq(Segment),
           LinksOn(Follow(place) \o below) = {}
    PROVE  Follow(place \o below) = Follow(place) \o below
<1> DEFINE at == Follow(place)
           Down(t) == LinksOn(at \o t) = {} => Follow(place \o t) = at \o t
           T == {t \in Seq(Segment) : Down(t)}
<1>1. at \in Seq(Segment)
  BY FollowIsPlace
<1>2. <<>> \in T
  <2>1. place \o <<>> = place /\ at \o <<>> = at
    BY <1>1, ConcatEmptySeq
  <2>2. <<>> \in Seq(Segment)
    OBVIOUS
  <2>3. QED
    BY <2>1, <2>2
<1> HIDE DEF at
<1>3. ASSUME NEW t \in T, NEW x \in Segment PROVE Append(t, x) \in T
  <2>1. t \in Seq(Segment) /\ Append(t, x) \in Seq(Segment)
    BY AppendTo
  <2> DEFINE q == at \o t
             longer == Append(t, x)
  <2>2. q \in Seq(Segment) /\ place \o t \in Seq(Segment)
    BY <1>1, <2>1, ConcatProperties
  <2>3. at \o longer = Append(q, x) /\ place \o longer = Append(place \o t, x)
    BY <1>1, <2>1, SegmentsOn, Zenon
  <2> HIDE DEF q, longer
  <2>4. ASSUME LinksOn(Append(q, x)) = {} PROVE Follow(Append(place \o t, x)) = Append(q, x)
    <3>1. LinksOn(q) = {}
      BY <2>2, <2>4, LinksOfLonger
    <3>2. Follow(place \o t) = q
      BY <3>1 DEF T, q
    <3>3. Append(q, x) \notin DOMAIN Links
      <4>1. /\ Append(q, x) \in Seq(Segment) /\ Len(Append(q, x)) = Len(q) + 1
            /\ Len(q) + 1 \in 1 .. Len(q) + 1
        BY <2>2, AppendTo, LenProperties
      <4>2. SubSeq(Append(q, x), 1, Len(Append(q, x))) = Append(q, x)
        BY <4>1, SubSeqFull
      <4> DEFINE longest == Append(q, x)
      <4> HIDE DEF longest
      <4>3. Len(longest) \in 1 .. Len(longest) /\ SubSeq(longest, 1, Len(longest)) = longest
        BY <4>1, <4>2 DEF longest
      <4>4. longest \in DOMAIN Links => Len(longest) \in LinksOn(longest)
        BY <4>3 DEF LinksOn
      <4>5. QED
        BY <2>4, <4>4 DEF longest
    <3>4. QED
      BY <2>2, <3>1, <3>2, <3>3, FollowInFolder
  <2>5. Down(longer)
    BY <2>3, <2>4
  <2>6. QED
    BY <2>1, <2>5 DEF longer, T
<1>4. T \in SUBSET Seq(Segment)
  OBVIOUS
<1> HIDE DEF T
<1>5. T = Seq(Segment)
  BY <1>2, <1>3, <1>4, SeqSetInduction
<1>6. QED
  BY <1>5 DEF T, at

(***************************************************************************)
(* Where a folder really is, and what is scanned of it.                    *)
(***************************************************************************)
Real(folder) == Follow(Place(folder))

LEMMA RealIs ==
    ASSUME setup \in Setups, NEW folder \in Path
    PROVE  /\ Real(folder) \in Seq(Segment) /\ Place(folder) \in Seq(Segment)
           /\ \A below \in Seq(Segment) : Real(folder) \o below \in Seq(Segment)
<1>1. Place(folder) \in Seq(Segment)
  BY PlaceIsPlace
<1>2. Real(folder) \in Seq(Segment)
  BY <1>1, FollowIsPlace DEF Real
<1>3. Joins(Segment)
  BY Concats
<1>4. QED
  BY <1>1, <1>2, <1>3, Zenon DEF Joins

Reached(folder, below) ==
    /\ below \in Seq(Plain) /\ below # <<>> /\ Real(folder) \o below \in Places
    /\ Len(below) - 1 \in ScanDepths /\ Matches(Last(below))

LEMMA ScannableIs ==
    ASSUME setup \in Setups, setup.folders # <<>>, NEW folder \in Path, NEW below
    PROVE  below \in Scannable(folder) <=> Reached(folder, below)
<1> DEFINE at == Real(folder)
           inside == {place \in Places : IsStrictPrefix(at, place)}
           OK(suffix) == /\ Len(suffix) - 1 \in ScanDepths /\ Matches(Last(suffix))
                         /\ \A n \in 1 .. Len(suffix) - 1 : at \o SubSeq(suffix, 1, n) \notin DOMAIN Links
<1>1. Scannable(folder) =
        {suffix \in {SubSeq(place, Len(at) + 1, Len(place)) : place \in inside} : OK(suffix)}
  BY Zenon DEF Scannable, Real, Places
<1>2. at \in Seq(Segment) /\ \A s \in Seq(Segment) : at \o s \in Seq(Segment)
  BY RealIs
<1>3. Places \subseteq Seq(Plain) /\ Places \subseteq Seq(Segment) /\ Seq(Plain) \subseteq Seq(Segment)
  BY TreeIs, PlainNames
<1> HIDE DEF at, OK
<1>4. ASSUME below \in Scannable(folder) PROVE Reached(folder, below)
  <2>1. PICK place \in Places : IsStrictPrefix(at, place) /\ below = SubSeq(place, Len(at) + 1, Len(place))
    BY <1>1, <1>4
  <2>2. place \in Seq(Plain) /\ place \in Seq(Segment) /\ IsPrefix(at, place)
    BY <1>3, <2>1 DEF IsStrictPrefix
  <2>3. below \in Seq(Segment) /\ below # <<>> /\ place = at \o below
    <3>1. PICK t \in Seq(Segment) : /\ place = at \o t /\ t = SubSeq(place, Len(at) + 1, Len(place))
                                    /\ IsStrictPrefix(at, place) => t # <<>>
      BY <1>2, <2>2, PrefixSplits
    <3>2. QED
      BY <2>1, <3>1
  <2>4. below \in Seq(Plain)
    <3>1. Len(at) + 1 \in Int /\ Len(place) \in Int /\ \A i \in Len(at) + 1 .. Len(place) : place[i] \in Plain
      <4>1. Len(at) \in Nat /\ Len(place) \in Nat /\ \A i \in 1 .. Len(place) : place[i] \in Plain
        BY <1>2, <2>2, LenProperties, ElementOfSeq
      <4>2. QED
        BY <4>1
    <3>2. SubSeq(place, Len(at) + 1, Len(place)) \in Seq(Plain)
      BY <3>1, SubSeqProperties
    <3>3. QED
      BY <2>1, <3>2
  <2>5. OK(below)
    BY <1>1, <1>4
  <2>6. QED
    BY <2>1, <2>3, <2>4, <2>5, Zenon DEF Reached, OK, at
<1>5. ASSUME Reached(folder, below) PROVE below \in Scannable(folder)
  <2>1. /\ below \in Seq(Plain) /\ below \in Seq(Segment) /\ below # <<>> /\ at \o below \in Places
        /\ Len(below) - 1 \in ScanDepths /\ Matches(Last(below))
    BY <1>3, <1>5 DEF Reached, at
  <2> DEFINE place == at \o below
  <2>2. IsStrictPrefix(at, place) /\ SubSeq(place, Len(at) + 1, Len(place)) = below
    BY <1>2, <2>1, PartsOfConcat
  <2>3. ASSUME NEW n \in 1 .. Len(below) - 1 PROVE at \o SubSeq(below, 1, n) \notin DOMAIN Links
    <3> DEFINE first == SubSeq(below, 1, n)
               rest == SubSeq(below, n + 1, Len(below))
    <3>1. Len(below) \in Nat /\ n \in 0 .. Len(below) /\ n < Len(below) /\ n \in Int /\ n + 1 \in Int
          /\ n >= 1 /\ Len(below) \in Int
          /\ \A i \in 1 .. Len(below) : below[i] \in Segment
      BY <2>1, LenProperties, ElementOfSeq
    <3>2. first \in Seq(Segment)
      BY <2>1, <3>1, PrefixOf
    <3>3. rest \in Seq(Segment) /\ Len(rest) # 0
      <4>1. \A i \in n + 1 .. Len(below) : below[i] \in Segment
        BY <3>1
      <4>2. rest \in Seq(Segment) /\ Len(rest) = IF n + 1 <= Len(below) THEN Len(below) - (n + 1) + 1 ELSE 0
        BY <3>1, <4>1, SubSeqProperties
      <4> HIDE DEF rest
      <4>3. Len(rest) = Len(below) - n
        BY <3>1, <4>2
      <4>4. QED
        BY <3>1, <4>2, <4>3
    <3>4. first \o rest = below
      <4> DEFINE b == 1
                 m == Len(below)
      <4>1. b \in 1 .. Len(below) + 1 /\ n \in b - 1 .. Len(below) /\ m \in n .. Len(below)
        BY <3>1
      <4> HIDE DEF b, m
      <4>2. SubSeq(below, b, n) \o SubSeq(below, n + 1, m) = SubSeq(below, b, m)
        BY <2>1, <4>1, ConcatAdjacentSubSeq
      <4>3. SubSeq(below, 1, Len(below)) = below
        BY <2>1, SubSeqFull
      <4>4. QED
        BY <4>2, <4>3, Zenon DEF b, m
    <3> HIDE DEF first, rest
    <3>5. at \o (first \o rest) = (at \o first) \o rest
      BY <1>2, <3>2, <3>3, SegmentsJoin, Zenon
    <3>6. rest # <<>>
      <4>1. Len(<<>>) = 0
        OBVIOUS
      <4>2. QED
        BY <3>3, <4>1
    <3>7. (at \o first) \o rest \in Places /\ at \o first \in Seq(Segment)
      BY <1>2, <2>1, <3>2, <3>4, <3>5, Zenon
    <3>8. at \o first \notin Places
      BY <3>3, <3>6, <3>7, FolderClear
    <3>9. QED
      BY <3>8 DEF Places, first
  <2>4. OK(below)
    BY <2>1, <2>3 DEF OK
  <2>5. below \in {SubSeq(p, Len(at) + 1, Len(p)) : p \in inside}
    BY <2>1, <2>2
  <2>6. QED
    BY <1>1, <2>4, <2>5
<1>6. QED
  BY <1>4, <1>5

\* A folder task is listed where it should be.
Held(folder, below) ==
    \E left \in Seq(Plain) : left # <<>> /\ (Real(folder) \o below) \o left \in Places

LEMMA TaskPlace ==
    ASSUME setup \in Setups, setup.folders # <<>>, NEW folder \in Path, NEW below \in Seq(Plain),
           below = <<>> \/ Held(folder, below)
    PROVE  /\ Follow(Place(TaskPath(folder, below))) = Real(folder) \o below
           /\ Held(folder, below) => LinksOn(Real(folder) \o below) = {}
<1>1. /\ below \in Seq(Segment) /\ Seq(Plain) \subseteq Seq(Segment)
      /\ Real(folder) \in Seq(Segment) /\ Place(folder) \in Seq(Segment)
      /\ Real(folder) \o below \in Seq(Segment)
  BY PlainNames, RealIs
<1>2. Place(TaskPath(folder, below)) = Place(folder) \o below
  BY TaskPathIs
<1>3. ASSUME Held(folder, below) PROVE LinksOn(Real(folder) \o below) = {}
  <2>1. PICK left \in Seq(Plain) : left # <<>> /\ (Real(folder) \o below) \o left \in Places
    BY <1>3 DEF Held
  <2>2. left \in Seq(Segment)
    BY <1>1
  <2>3. QED
    BY <1>1, <2>1, <2>2, FolderClear
<1>4. CASE below = <<>>
  <2>1. Place(folder) \o below = Place(folder) /\ Real(folder) \o below = Real(folder)
    BY <1>1, <1>4, ConcatEmptySeq
  <2>2. QED
    BY <1>2, <1>3, <2>1 DEF Real
<1>5. CASE Held(folder, below)
  <2>1. Follow(Place(folder) \o below) = Follow(Place(folder)) \o below
    BY <1>1, <1>3, <1>5, FollowDown DEF Real
  <2>2. QED
    BY <1>2, <1>3, <2>1 DEF Real
<1>6. QED
  BY <1>4, <1>5

(***************************************************************************)
(* What listing a folder adds to the tasks.                                *)
(***************************************************************************)
Spawns(task, place, name, entry) ==
    LET full == Join(task.path, <<name>>) IN
    /\ IsEntry(Append(place, name))
    /\ IF IsDirEntry(Append(place, name)) THEN Recursive /\ entry = Folder(full, task.depth + 1)
       ELSE Matches(name) /\ entry = File(full, task.depth)

Listed(task) ==
    /\ ~TooDeep(task.depth) /\ Reaches(disk, Place(task.path))
    /\ IsFolder(disk, Follow(Place(task.path)))

LEMMA EnteredHas ==
    ASSUME setup \in Setups, NEW task \in ScanTask
    PROVE  /\ Entered(task) \in Seq(ScanTask)
           /\ ToSet(Entered(task)) =
                IF Listed(task)
                THEN {entry \in ScanTask : \E name \in ToSet(Names) :
                        Spawns(task, Follow(Place(task.path)), name, entry)}
                ELSE {}
<1> DEFINE place == Follow(Place(task.path))
           Entry(name) ==
               LET full == Join(task.path, <<name>>) IN
               IF ~IsEntry(Append(place, name)) THEN <<>>
               ELSE IF IsDirEntry(Append(place, name))
               THEN IF Recursive THEN <<Folder(full, task.depth + 1)>> ELSE <<>>
               ELSE IF Matches(name) THEN <<File(full, task.depth)>> ELSE <<>>
           n == Len(Names)
           each == [i \in DOMAIN Names |-> Entry(Names[i])]
           spawned == {entry \in ScanTask : \E name \in ToSet(Names) : Spawns(task, place, name, entry)}
<1>1. n \in Nat /\ DOMAIN Names = 1 .. n /\ (\A i \in 1 .. n : Names[i] \in Segment)
      /\ ToSet(Names) = {Names[i] : i \in 1 .. n}
  BY PreloadSetup, LenProperties, ElementOfSeq, ToSetIs
<1>2. Entered(task) = IF Listed(task) THEN FlattenSeq(each) ELSE <<>>
  BY Zenon DEF Entered, Listed
<1>3. CASE ~Listed(task)
  <2>1. Entered(task) = <<>>
    BY <1>2, <1>3
  <2>2. ToSet(<<>>) = {} /\ <<>> \in Seq(ScanTask)
    BY DEF ToSet
  <2>3. QED
    BY <1>3, <2>1, <2>2
<1>4. CASE Listed(task)
  <2>1. /\ task.path \in Seq(Segment)
        /\ task.depth \in 0 .. MAX_SCAN_DEPTH + 1 /\ task.depth + 1 \in 0 .. MAX_SCAN_DEPTH + 1
    BY <1>4, PreloadSetup DEF ScanTask, Path, TooDeep, Listed
  <2>2. ASSUME NEW name \in Segment
        PROVE  /\ Entry(name) \in Seq(ScanTask)
               /\ ToSet(Entry(name)) = {entry \in ScanTask : Spawns(task, place, name, entry)}
    <3> DEFINE last == <<name>>
               full == Join(task.path, last)
               folder == Folder(full, task.depth + 1)
               file == File(full, task.depth)
               IsOne == IsEntry(Append(place, name))
               IsDir == IsDirEntry(Append(place, name))
    <3>1. last \in Path
      BY SingleSegments
    <3>2. /\ ~IsOne => Entry(name) = <<>>
          /\ IsOne /\ IsDir /\ Recursive => Entry(name) = <<folder>>
          /\ IsOne /\ IsDir /\ ~Recursive => Entry(name) = <<>>
          /\ IsOne /\ ~IsDir /\ Matches(name) => Entry(name) = <<file>>
          /\ IsOne /\ ~IsDir /\ ~Matches(name) => Entry(name) = <<>>
      BY Zenon
    <3>3. \A entry : Spawns(task, place, name, entry) <=>
                        /\ IsOne
                        /\ IF IsDir THEN Recursive /\ entry = folder ELSE Matches(name) /\ entry = file
      BY Zenon DEF Spawns
    <3> HIDE DEF last, Entry
    <3>4. full \in Path
      BY <2>1, <3>1, JoinIsGiven DEF Given
    <3> HIDE DEF full, IsOne, IsDir
    <3>5. folder \in ScanTask /\ file \in ScanTask
      BY <2>1, <3>4 DEF ScanTask, Folder, File
    <3> HIDE DEF folder, file
    <3>6. /\ <<>> \in Seq(ScanTask) /\ <<folder>> \in Seq(ScanTask) /\ <<file>> \in Seq(ScanTask)
          /\ ToSet(<<>>) = {} /\ ToSet(<<folder>>) = {folder} /\ ToSet(<<file>>) = {file}
      <4>1. <<>> \in Seq(ScanTask) /\ <<folder>> \in Seq(ScanTask) /\ <<file>> \in Seq(ScanTask)
        BY <3>5
      <4>2. \A entry : ToSet(<<entry>>) = {entry}
        BY DEF ToSet
      <4>3. ToSet(<<>>) = {}
        BY DEF ToSet
      <4>4. QED
        BY <4>1, <4>2, <4>3, Zenon
    <3> DEFINE those == {entry \in ScanTask : Spawns(task, place, name, entry)}
    <3>7. /\ ~IsOne => those = {}
          /\ IsOne /\ IsDir /\ Recursive => those = {folder}
          /\ IsOne /\ IsDir /\ ~Recursive => those = {}
          /\ IsOne /\ ~IsDir /\ Matches(name) => those = {file}
          /\ IsOne /\ ~IsDir /\ ~Matches(name) => those = {}
      BY <3>3, <3>5
    <3> HIDE DEF those
    <3>8. Entry(name) \in Seq(ScanTask) /\ ToSet(Entry(name)) = those
      <4>1. CASE ~IsOne
        BY <3>2, <3>6, <3>7, <4>1
      <4>2. CASE IsOne /\ IsDir /\ Recursive
        BY <3>2, <3>6, <3>7, <4>2
      <4>3. CASE IsOne /\ IsDir /\ ~Recursive
        BY <3>2, <3>6, <3>7, <4>3
      <4>4. CASE IsOne /\ ~IsDir /\ Matches(name)
        BY <3>2, <3>6, <3>7, <4>4
      <4>5. CASE IsOne /\ ~IsDir /\ ~Matches(name)
        BY <3>2, <3>6, <3>7, <4>5
      <4>6. QED
        BY <4>1, <4>2, <4>3, <4>4, <4>5, Zenon
    <3>9. QED
      BY <3>8 DEF those
  <2> HIDE DEF n, Entry
  <2>3. each \in [1 .. n -> Seq(ScanTask)] /\ \A i \in 1 .. n : each[i] = Entry(Names[i])
    BY <1>1, <2>2
  <2> HIDE DEF each
  <2>4. /\ FlattenSeq(each) \in Seq(ScanTask)
        /\ ToSet(FlattenSeq(each)) = UNION {ToSet(each[i]) : i \in 1 .. n}
    BY <1>1, <2>3, FlattenIsSeq, FlattenHas
  <2> HIDE DEF place
  <2>5. UNION {ToSet(each[i]) : i \in 1 .. n} = spawned
    <3>1. \A i \in 1 .. n : ToSet(each[i]) = {entry \in ScanTask : Spawns(task, place, Names[i], entry)}
      BY <1>1, <2>2, <2>3
    <3>2. \A entry : entry \in spawned <=>
                        entry \in ScanTask /\ \E i \in 1 .. n : Spawns(task, place, Names[i], entry)
      BY <1>1
    <3>3. \A entry : entry \in UNION {ToSet(each[i]) : i \in 1 .. n} <=>
                        entry \in ScanTask /\ \E i \in 1 .. n : Spawns(task, place, Names[i], entry)
      BY <3>1
    <3>4. QED
      BY <3>2, <3>3
  <2>6. QED
    BY <1>2, <1>4, <2>4, <2>5, Zenon DEF place
<1>5. QED
  BY <1>3, <1>4

(***************************************************************************)
(* What is in a folder, seen from the places of the tree.                  *)
(***************************************************************************)
LEMMA PlacesBelow ==
    ASSUME setup \in Setups, setup.folders # <<>>, NEW place \in Seq(Segment), NEW other \in Places,
           IsStrictPrefix(place, other)
    PROVE  \E left \in Seq(Plain) : left # <<>> /\ place \o left = other
<1>1. other \in Seq(Plain) /\ other \in Seq(Segment) /\ IsPrefix(place, other)
  BY TreeIs DEF IsStrictPrefix
<1>2. PICK t \in Seq(Segment) : /\ other = place \o t /\ t = SubSeq(other, Len(place) + 1, Len(other))
                                /\ IsStrictPrefix(place, other) => t # <<>>
  BY <1>1, PrefixSplits
<1>3. SubSeq(other, Len(place) + 1, Len(other)) \in Seq(Plain)
  <2>1. Len(place) \in Nat /\ Len(other) \in Nat /\ \A i \in 1 .. Len(other) : other[i] \in Plain
    BY <1>1, LenProperties, ElementOfSeq
  <2>2. /\ Len(place) + 1 \in Int /\ Len(other) \in Int
        /\ \A i \in Len(place) + 1 .. Len(other) : other[i] \in Plain
    BY <2>1
  <2>3. QED
    BY <2>2, SubSeqProperties
<1>4. QED
  BY <1>2, <1>3, Zenon

LEMMA FolderHas ==
    ASSUME setup \in Setups, setup.folders # <<>>, disk \subseteq Placeable \cup Fixed,
           NEW place \in Seq(Segment), place # <<>>, IsFolder(disk, place)
    PROVE  /\ place \notin Places
           /\ \E left \in Seq(Plain) : left # <<>> /\ place \o left \in Places
<1>1. PICK other \in Places : IsStrictPrefix(place, other)
  BY DEF IsFolder, Inside, Places
<1>2. QED
  BY <1>1, PlacesBelow, TreeIs

LEMMA FolderHere ==
    ASSUME setup \in Setups, NEW place \in Seq(Segment), NEW left \in Seq(Segment), left # <<>>,
           place \o left \in disk \cup DOMAIN Links
    PROVE  IsFolder(disk, place)
<1>1. IsStrictPrefix(place, place \o left)
  BY PartsOfConcat
<1>2. QED
  BY <1>1 DEF IsFolder, Inside

LEMMA NameThere ==
    ASSUME NEW N, NEW place \in Seq(Segment), NEW x \in Segment, NEW rest \in Seq(Segment),
           Append(place, x) \o rest \in Seq(N)
    PROVE  x \in N
<1> DEFINE longer == Append(place, x)
           all == longer \o rest
           n == Len(place) + 1
<1>1. longer \in Seq(Segment) /\ Len(longer) = n /\ longer[n] = x
  BY AppendTo
<1>2. n \in 1 .. n /\ n \in Nat
  BY LenProperties
<1> HIDE DEF longer, n
<1>3. Len(all) = n + Len(rest) /\ Len(rest) \in Nat /\ all[n] = x
  <2>1. /\ Len(all) = Len(longer) + Len(rest)
        /\ \A i \in 1 .. Len(longer) + Len(rest) :
             all[i] = IF i <= Len(longer) THEN longer[i] ELSE rest[i - Len(longer)]
    BY <1>1, ConcatProperties
  <2>2. Len(rest) \in Nat
    BY LenProperties
  <2> HIDE DEF all
  <2>3. n \in 1 .. n + Len(rest) /\ n <= n
    BY <1>2, <2>2
  <2>4. QED
    BY <1>1, <2>1, <2>2, <2>3
<1>4. all \in Seq(N)
  BY DEF longer
<1> HIDE DEF all
<1>5. n \in 1 .. Len(all)
  BY <1>2, <1>3
<1>6. QED
  BY <1>3, <1>4, <1>5, ElementOfSeq

\* A file to be scanned that can be read is on the disk or is a link.
LEMMA OnDisk ==
    ASSUME setup \in Setups, setup.folders # <<>>, NEW folder \in Path, NEW below, Reached(folder, below),
           Readable(disk, Place(folder) \o below)
    PROVE  Real(folder) \o below \in disk \cup DOMAIN Links
<1>1. /\ below \in Seq(Plain) /\ below \in Seq(Segment) /\ below # <<>> /\ Real(folder) \o below \in Places
      /\ Real(folder) \in Seq(Segment) /\ Place(folder) \in Seq(Segment)
  BY RealIs, PlainNames DEF Reached
<1> SUFFICES ASSUME Real(folder) \o below \notin DOMAIN Links
             PROVE  Real(folder) \o below \in disk
  OBVIOUS
<1>2. PICK front \in Seq(Segment), x \in Segment : below = Append(front, x)
  BY <1>1, SequenceEmptyOrAppend
<1> DEFINE q == Real(folder) \o front
           last == <<x>>
<1>3. q \in Seq(Segment) /\ Real(folder) \o below = Append(q, x) /\ last \in Seq(Segment) /\ last # <<>>
  <2>1. q \in Seq(Segment)
    BY <1>1, <1>2, RealIs
  <2>2. Append(q, x) = Real(folder) \o Append(front, x)
    BY <1>1, <1>2, SegmentsOn, Zenon
  <2>3. QED
    BY <1>2, <2>1, <2>2
<1>4. Append(q, x) = q \o last
  BY <1>3, AppendIsConcat
<1> HIDE DEF q, last
<1>5. LinksOn(q) = {}
  BY <1>1, <1>3, <1>4, FolderClear
<1>6. LinksOn(Append(q, x)) = {}
  BY <1>2, <1>3, <1>5, LinksOfLonger
<1>7. LinksOn(Follow(Place(folder)) \o below) = {}
  BY <1>3, <1>6 DEF Real
<1>8. Follow(Place(folder) \o below) = Follow(Place(folder)) \o below
  BY <1>1, <1>7, FollowDown
<1>9. QED
  BY <1>8 DEF Readable, Real

(***************************************************************************)
(* A task of the scan is where it should be: a folder on the way to        *)
(* something of the tree, a file that is to be scanned.                    *)
(***************************************************************************)
TaskOK(task, folder, below) ==
    /\ task.path = TaskPath(folder, below)
    /\ IF task.folder
       THEN task.depth = Len(below) /\ (below # <<>> => Recursive /\ Held(folder, below))
       ELSE Reached(folder, below)

LEMMA NameBelow ==
    ASSUME setup \in Setups, setup.folders # <<>>, NEW folder \in Path, NEW below \in Seq(Plain),
           NEW name \in Plain
    PROVE  /\ Append(below, name) \in Seq(Plain) /\ Append(below, name) # <<>>
           /\ Len(Append(below, name)) = Len(below) + 1 /\ Last(Append(below, name)) = name
           /\ Real(folder) \o below \in Seq(Segment) /\ Len(below) \in Nat
           /\ Append(Real(folder) \o below, name) = Real(folder) \o Append(below, name)
           /\ Append(Real(folder) \o below, name) \in Seq(Segment)
           /\ Append(Real(folder) \o below, name) # <<>>
           /\ Join(TaskPath(folder, below), <<name>>) = TaskPath(folder, Append(below, name))
           /\ TaskPath(folder, Append(below, name)) \in Path
<1>1. below \in Seq(Segment) /\ name \in Segment /\ Real(folder) \in Seq(Segment)
      /\ Real(folder) \o below \in Seq(Segment)
  BY PlainNames, RealIs
<1>2. /\ Append(below, name) \in Seq(Plain) /\ Append(below, name) # <<>>
      /\ Len(Append(below, name)) = Len(below) + 1
  BY AppendTo
<1>3. Last(Append(below, name)) = name
  BY FrontOfAppend
<1>4. Append(Real(folder) \o below, name) = Real(folder) \o Append(below, name)
  BY <1>1, SegmentsOn, Zenon
<1>5. Append(Real(folder) \o below, name) \in Seq(Segment) /\ Append(Real(folder) \o below, name) # <<>>
  BY <1>1, AppendTo
<1>6. Join(TaskPath(folder, below), <<name>>) = TaskPath(folder, Append(below, name))
  BY TaskPathIs
<1>7. TaskPath(folder, Append(below, name)) \in Path
  BY <1>2, TaskPathIs
<1>8. QED
  BY <1>1, <1>2, <1>3, <1>4, <1>5, <1>6, <1>7, LenProperties

LEMMA ChildIsOK ==
    ASSUME setup \in Setups, setup.folders # <<>>, disk \subseteq Placeable \cup Fixed,
           NEW task \in ScanTask, task.folder, NEW folder \in Path, NEW below \in Seq(Plain),
           TaskOK(task, folder, below), NEW entry \in ToSet(Entered(task))
    PROVE  \E longer \in Seq(Plain) : TaskOK(entry, folder, longer)
<1> DEFINE at == Real(folder) \o below
<1>1. Follow(Place(task.path)) = at
  BY TaskPlace DEF TaskOK
<1>2. PICK name \in ToSet(Names) : Spawns(task, at, name, entry)
  BY <1>1, EnteredHas
<1>3. Listed(task)
  BY EnteredHas
<1>4. name \in Plain
  BY TreeIs
<1> DEFINE longer == Append(below, name)
           next == Append(at, name)
<1>5. /\ longer \in Seq(Plain) /\ longer # <<>> /\ Len(longer) = Len(below) + 1 /\ Last(longer) = name
      /\ next = Real(folder) \o longer /\ next \in Seq(Segment) /\ next # <<>> /\ Len(below) \in Nat
      /\ Join(task.path, <<name>>) = TaskPath(folder, longer)
  BY <1>4, NameBelow DEF TaskOK
<1> HIDE DEF longer
<1>6. Spawns(task, at, name, entry) <=>
        /\ IsEntry(next)
        /\ IF IsDirEntry(next) THEN Recursive /\ entry = Folder(TaskPath(folder, longer), task.depth + 1)
           ELSE Matches(name) /\ entry = File(TaskPath(folder, longer), task.depth)
  BY <1>5, Zenon DEF Spawns
<1> HIDE DEF next
<1>7. task.depth = Len(below) /\ (below # <<>> => Recursive)
  BY DEF TaskOK
<1>8. CASE IsDirEntry(next)
  <2>1. IsFolder(disk, next) /\ Recursive /\ entry = Folder(TaskPath(folder, longer), task.depth + 1)
    BY <1>2, <1>6, <1>8 DEF IsDirEntry
  <2>2. Held(folder, longer)
    BY <1>5, <2>1, FolderHas DEF Held
  <2>3. TaskOK(entry, folder, longer)
    BY <1>5, <1>7, <2>1, <2>2 DEF TaskOK, Folder
  <2>4. QED
    BY <1>5, <2>3
<1>9. CASE ~IsDirEntry(next)
  <2>1. IsEntry(next) /\ Matches(name) /\ entry = File(TaskPath(folder, longer), task.depth)
    BY <1>2, <1>6, <1>9
  <2>2. next \in Places
    BY <1>9, <2>1 DEF IsEntry, Places
  <2>3. Len(longer) - 1 \in ScanDepths
    <3>1. ~(Len(below) > MAX_SCAN_DEPTH) /\ MAX_SCAN_DEPTH \in Nat
      BY <1>3, <1>7, PreloadSetup DEF Listed, TooDeep
    <3>2. below = <<>> => Len(below) = 0
      OBVIOUS
    <3>3. Len(longer) - 1 = Len(below)
      BY <1>5
    <3>4. Len(below) \in 0 .. MAX_SCAN_DEPTH /\ (Recursive \/ Len(below) = 0)
      BY <1>5, <1>7, <3>1, <3>2
    <3>5. QED
      BY <3>3, <3>4 DEF ScanDepths
  <2>4. Reached(folder, longer)
    BY <1>5, <2>1, <2>2, <2>3 DEF Reached
  <2>5. TaskOK(entry, folder, longer)
    BY <2>1, <2>4 DEF TaskOK, File
  <2>6. QED
    BY <1>5, <2>5
<1>10. QED
  BY <1>8, <1>9

(***************************************************************************)
(* A task that leads to a file: the way is done so far, and what is left   *)
(* of it.  Listing a folder hands what is left to one of its entries.      *)
(***************************************************************************)
Covers(task, folder, done, left) ==
    /\ task.path = TaskPath(folder, done) /\ (task.folder <=> left # <<>>)
    /\ task.folder => task.depth = Len(done)

Covered(tasks, folder, below) ==
    \E task \in tasks, done \in Seq(Plain), left \in Seq(Plain) :
        below = done \o left /\ Covers(task, folder, done, left)

LEMMA CoverGoesOn ==
    ASSUME setup \in Setups, setup.folders # <<>>, disk \subseteq Placeable \cup Fixed,
           NEW task \in ScanTask, task.folder, NEW folder \in Path,
           NEW done \in Seq(Plain), NEW left \in Seq(Plain), Covers(task, folder, done, left),
           Reached(folder, done \o left), Readable(disk, Place(folder) \o (done \o left))
    PROVE  Covered(ToSet(Entered(task)), folder, done \o left)
<1> DEFINE at == Real(folder) \o done
           below == done \o left
           x == Head(left)
           rest == Tail(left)
           further == Append(done, x)
           next == Append(at, x)
<1>1. left # <<>> /\ task.path = TaskPath(folder, done) /\ task.depth = Len(done)
  BY DEF Covers
<1>2. x \in Plain /\ rest \in Seq(Plain) /\ below = further \o rest
  BY <1>1, HeadOn
<1>3. /\ further \in Seq(Plain) /\ Len(further) = Len(done) + 1 /\ Last(further) = x /\ Len(done) \in Nat
      /\ at \in Seq(Segment) /\ next \in Seq(Segment) /\ next # <<>>
      /\ Join(task.path, <<x>>) = TaskPath(folder, further) /\ TaskPath(folder, further) \in Path
  <2>1. x \in Plain /\ task.path = TaskPath(folder, done)
    BY <1>1, <1>2
  <2> HIDE DEF x
  <2>2. /\ Append(done, x) \in Seq(Plain) /\ Append(done, x) # <<>>
        /\ Len(Append(done, x)) = Len(done) + 1 /\ Last(Append(done, x)) = x
        /\ Real(folder) \o done \in Seq(Segment) /\ Len(done) \in Nat
        /\ Append(Real(folder) \o done, x) = Real(folder) \o Append(done, x)
        /\ Append(Real(folder) \o done, x) \in Seq(Segment)
        /\ Append(Real(folder) \o done, x) # <<>>
        /\ Join(TaskPath(folder, done), <<x>>) = TaskPath(folder, Append(done, x))
        /\ TaskPath(folder, Append(done, x)) \in Path
    BY <2>1, NameBelow, Zenon
  <2>3. QED
    BY <2>1, <2>2, Zenon
<1>4. /\ done \in Seq(Segment) /\ left \in Seq(Segment) /\ x \in Segment /\ rest \in Seq(Segment)
      /\ Real(folder) \in Seq(Segment)
  BY <1>2, PlainNames, RealIs
<1>5. /\ Real(folder) \o below \in Places /\ Len(below) - 1 \in ScanDepths /\ Matches(Last(below))
      /\ Real(folder) \o below \in disk \cup DOMAIN Links
  BY OnDisk DEF Reached
<1>6. Real(folder) \o below = at \o left
  BY <1>4, SegmentsJoin, Zenon
<1>7. at \o left = next \o rest
  <2>1. at \in Seq(Segment) /\ left \in Seq(Segment) /\ left # <<>>
    BY <1>1, <1>3, <1>4
  <2> HIDE DEF at
  <2>2. at \o left = Append(at, Head(left)) \o Tail(left)
    BY <2>1, HeadOn
  <2>3. QED
    BY <2>2
<1>8. Held(folder, done)
  BY <1>1, <1>5, <1>6 DEF Held
<1>9. Follow(Place(task.path)) = at /\ LinksOn(at) = {}
  BY <1>1, <1>8, TaskPlace
<1>10. Len(below) = Len(done) + Len(left) /\ Len(left) \in Nat \ {0} /\ Len(left) = Len(rest) + 1
       /\ Len(rest) \in Nat
  <2>1. Len(below) = Len(done) + Len(left)
    BY ConcatProperties
  <2>2. Len(left) \in Nat \ {0}
    BY <1>1, EmptySeq
  <2>3. Len(rest) = Len(left) - 1
    BY <1>1, HeadTailProperties
  <2>4. QED
    BY <2>1, <2>2, <2>3
<1> HIDE DEF at, below, x, rest, further, next
<1>11. ~TooDeep(task.depth) /\ MAX_SCAN_DEPTH \in Nat /\ (Len(rest) # 0 => Recursive)
  BY <1>1, <1>3, <1>5, <1>10, PreloadSetup DEF TooDeep, ScanDepths
<1>12. IsFolder(disk, at)
  BY <1>1, <1>3, <1>4, <1>5, <1>6, FolderHere
<1>13. Listed(task)
  BY <1>9, <1>11, <1>12 DEF Listed, Reaches
<1>14. x \in ToSet(Names)
  <2>1. Append(at, x) \o rest \in Seq(ToSet(Names))
    BY <1>5, <1>6, <1>7, TreeIs DEF next
  <2>2. QED
    BY <1>3, <1>4, <2>1, NameThere
<1> DEFINE one == <<x>>
<1> HIDE DEF one
<1>15. \A entry : Spawns(task, at, x, entry) <=>
        /\ IsEntry(next)
        /\ IF IsDirEntry(next) THEN Recursive /\ entry = Folder(TaskPath(folder, further), task.depth + 1)
           ELSE Matches(x) /\ entry = File(TaskPath(folder, further), task.depth)
  BY <1>3, Zenon DEF Spawns, next
<1>16. ASSUME NEW entry \in ScanTask, Spawns(task, at, x, entry) PROVE entry \in ToSet(Entered(task))
  BY <1>9, <1>13, <1>14, <1>16, EnteredHas
<1>17. CASE rest = <<>>
  <2>1. next = at \o left /\ below = further
    BY <1>2, <1>3, <1>7, <1>17, ConcatEmptySeq
  <2>2. next \in disk \cup DOMAIN Links /\ next \in Places
    BY <1>5, <1>6, <2>1
  <2>3. ~IsDirEntry(next) /\ IsEntry(next)
    BY <1>3, <2>2, FolderHas DEF IsDirEntry, IsEntry
  <2>4. Matches(x)
    BY <1>3, <1>5, <2>1
  <2> DEFINE entry == File(TaskPath(folder, further), task.depth)
  <2>5. entry \in ScanTask
    BY <1>3 DEF ScanTask, File
  <2>6. Covers(entry, folder, further, rest)
    BY <1>17 DEF Covers, File
  <2> HIDE DEF entry
  <2>7. Spawns(task, at, x, entry)
    BY <1>15, <2>3, <2>4 DEF entry
  <2>8. QED
    BY <1>2, <1>3, <1>16, <2>5, <2>6, <2>7 DEF below, Covered
<1>18. CASE rest # <<>>
  <2>1. Len(rest) # 0
    BY <1>2, <1>18, EmptySeq
  <2>2. IsFolder(disk, next)
    <3>1. next \o rest \in disk \cup DOMAIN Links
      BY <1>5, <1>6, <1>7
    <3>2. QED
      BY <1>3, <1>4, <1>18, <3>1, FolderHere
  <2>3. IsDirEntry(next) /\ IsEntry(next)
    BY <2>2 DEF IsDirEntry, IsEntry
  <2> DEFINE entry == Folder(TaskPath(folder, further), task.depth + 1)
  <2>4. entry \in ScanTask
    <3>1. task.depth + 1 \in 0 .. MAX_SCAN_DEPTH + 1
      BY <1>1, <1>3, <1>11 DEF TooDeep
    <3>2. QED
      BY <1>3, <3>1 DEF ScanTask, Folder
  <2>5. Covers(entry, folder, further, rest)
    BY <1>1, <1>3, <1>18 DEF Covers, Folder
  <2> HIDE DEF entry
  <2>6. Spawns(task, at, x, entry)
    BY <1>11, <1>15, <2>1, <2>3 DEF entry
  <2>7. QED
    BY <1>2, <1>3, <1>16, <2>4, <2>5, <2>6 DEF below, Covered
<1>19. QED
  BY <1>17, <1>18

(***************************************************************************)
(* The invariant of the scan: every task is where it should be, and so is  *)
(* every file in memory; and a file that is there to be found is either    *)
(* in memory or on the way of a task.                                      *)
(***************************************************************************)
TasksOK(tasks) ==
    \A task \in tasks : \E folder \in ToSet(setup.folders), below \in Seq(Plain) : TaskOK(task, folder, below)

FilesOK(files) ==
    \A path \in files \ setup.preload :
        \E folder \in ToSet(setup.folders), below \in Seq(Plain) :
            Reached(folder, below) /\ path = TaskPath(folder, below)

FoundOrCovered(there, files, tasks) ==
    \A folder \in ToSet(setup.folders), below \in Seq(Plain) :
        Reached(folder, below) /\ Readable(there, Place(folder) \o below)
            => TaskPath(folder, below) \in files \/ Covered(tasks, folder, below)

ScanConfined == TasksOK(ToSet(scan)) /\ FilesOK(filemap)

ScanCovered == scan # <<>> => FoundOrCovered(steady, filemap, ToSet(scan))

ScanInv == IInv /\ ScanConfined /\ ScanCovered

LEMMA FoldersThere ==
    ASSUME ScanInv, scan # <<>>
    PROVE  /\ setup \in Setups /\ setup.folders # <<>> /\ ToSet(setup.folders) \subseteq Path
           /\ disk \subseteq Placeable \cup Fixed /\ steady \subseteq disk
           /\ scan \in Seq(ScanTask) /\ Head(scan) \in ScanTask /\ Tail(scan) \in Seq(ScanTask)
           /\ ToSet(scan) = {Head(scan)} \cup ToSet(Tail(scan))
<1>1. /\ setup \in Setups /\ disk \subseteq Placeable \cup Fixed /\ steady \subseteq disk
      /\ scan \in Seq(ScanTask)
  BY DEF ScanInv, IInv
<1>2. Head(scan) \in ScanTask /\ Tail(scan) \in Seq(ScanTask)
  BY <1>1, HeadTailProperties
<1>3. ToSet(scan) = {Head(scan)} \cup ToSet(Tail(scan))
  BY <1>1, ToSetIs
<1>4. ToSet(setup.folders) # {}
  BY <1>3 DEF ScanInv, ScanConfined, TasksOK
<1>5. setup.folders # <<>>
  BY <1>4 DEF ToSet
<1>6. ToSet(setup.folders) \subseteq Path
  BY <1>1, <1>5, TreeIs
<1>7. QED
  BY <1>1, <1>2, <1>3, <1>5, <1>6

LEMMA ListingAdds ==
    ASSUME setup \in Setups, NEW task \in ScanTask, NEW rest \in Seq(ScanTask)
    PROVE  ToSet(Entered(task) \o rest) = ToSet(Entered(task)) \cup ToSet(rest)
<1> DEFINE entries == Entered(task)
<1>1. entries \in Seq(ScanTask)
  BY EnteredHas
<1> HIDE DEF entries
<1>2. ToSet(entries \o rest) = ToSet(entries) \cup ToSet(rest)
  BY <1>1, ToSetConcat
<1>3. QED
  BY <1>2 DEF entries

LEMMA TasksStayOK ==
    ASSUME ScanInv, ListFolder \/ ReadFile
    PROVE  TasksOK(ToSet(scan')) /\ FilesOK(filemap')
<1>1. scan # <<>>
  BY DEF ListFolder, ReadFile
<1> DEFINE task == Head(scan)
           rest == ToSet(Tail(scan))
<1>2. /\ setup \in Setups /\ setup.folders # <<>> /\ ToSet(setup.folders) \subseteq Path
      /\ disk \subseteq Placeable \cup Fixed
      /\ task \in ScanTask /\ Tail(scan) \in Seq(ScanTask) /\ ToSet(scan) = {task} \cup rest
  BY <1>1, FoldersThere
<1>3. PICK folder \in ToSet(setup.folders), below \in Seq(Plain) : TaskOK(task, folder, below)
  BY <1>2 DEF ScanInv, ScanConfined, TasksOK
<1>4. TasksOK(rest) /\ FilesOK(filemap)
  BY <1>2 DEF ScanInv, ScanConfined, TasksOK
<1>5. CASE ListFolder
  <2>1. scan' = Entered(task) \o Tail(scan) /\ filemap' = filemap /\ task.folder
    BY <1>5 DEF ListFolder, vars
  <2>2. ToSet(Entered(task) \o Tail(scan)) = ToSet(Entered(task)) \cup rest
    BY <1>2, ListingAdds
  <2>3. ToSet(scan') = ToSet(Entered(task)) \cup rest
    BY <2>1, <2>2
  <2> HIDE DEF task, rest
  <2>4. TasksOK(ToSet(Entered(task)))
    <3>1. ASSUME NEW entry \in ToSet(Entered(task))
          PROVE  \E longer \in Seq(Plain) : TaskOK(entry, folder, longer)
      BY <1>2, <1>3, <2>1, ChildIsOK
    <3>2. QED
      BY <3>1 DEF TasksOK
  <2>5. QED
    BY <1>4, <2>1, <2>3, <2>4 DEF TasksOK
<1>6. CASE ReadFile
  <2>1. /\ scan' = Tail(scan) /\ ~task.folder
        /\ filemap' = filemap \cup {path \in {task.path} : Readable(disk, Place(path))}
    BY <1>6 DEF ReadFile
  <2>2. task.path = TaskPath(folder, below) /\ Reached(folder, below)
    BY <1>3, <2>1 DEF TaskOK
  <2> HIDE DEF task
  <2>3. filemap' \subseteq filemap \cup {TaskPath(folder, below)}
    BY <2>1, <2>2
  <2>4. FilesOK(filemap')
    BY <1>4, <2>2, <2>3 DEF FilesOK
  <2>5. QED
    BY <1>4, <2>1, <2>4
<1>7. QED
  BY <1>5, <1>6

LEMMA FilesStayCovered ==
    ASSUME ScanInv, ListFolder \/ ReadFile
    PROVE  FoundOrCovered(steady, filemap', ToSet(scan'))
<1>1. scan # <<>>
  BY DEF ListFolder, ReadFile
<1> DEFINE task == Head(scan)
           rest == ToSet(Tail(scan))
<1>2. /\ setup \in Setups /\ setup.folders # <<>> /\ ToSet(setup.folders) \subseteq Path
      /\ disk \subseteq Placeable \cup Fixed /\ steady \subseteq disk
      /\ task \in ScanTask /\ Tail(scan) \in Seq(ScanTask) /\ ToSet(scan) = {task} \cup rest
  BY <1>1, FoldersThere
<1> SUFFICES ASSUME NEW folder \in ToSet(setup.folders), NEW below \in Seq(Plain), Reached(folder, below),
                    Readable(steady, Place(folder) \o below)
             PROVE  TaskPath(folder, below) \in filemap' \/ Covered(ToSet(scan'), folder, below)
  BY DEF FoundOrCovered
<1>3. folder \in Path
  BY <1>2
<1>4. Readable(disk, Place(folder) \o below)
  BY <1>2, MoreReadable
<1>5. TaskPath(folder, below) \in filemap \/ Covered(ToSet(scan), folder, below)
  BY <1>1 DEF ScanInv, ScanCovered, FoundOrCovered
<1>6. filemap \subseteq filemap' /\ rest \subseteq ToSet(scan')
  <2>1. CASE ListFolder
    <3>1. ToSet(Entered(task) \o Tail(scan)) = ToSet(Entered(task)) \cup rest
      BY <1>2, ListingAdds
    <3>2. scan' = Entered(task) \o Tail(scan) /\ filemap' = filemap
      BY <2>1 DEF ListFolder, vars
    <3>3. QED
      BY <3>1, <3>2
  <2>2. CASE ReadFile
    BY <2>2 DEF ReadFile
  <2>3. QED
    BY <2>1, <2>2
<1>7. ASSUME NEW done \in Seq(Plain), NEW left \in Seq(Plain), below = done \o left,
             Covers(task, folder, done, left)
      PROVE  TaskPath(folder, below) \in filemap' \/ Covered(ToSet(scan'), folder, below)
  <2>1. CASE ListFolder
    <3>1. scan' = Entered(task) \o Tail(scan) /\ task.folder
      BY <2>1 DEF ListFolder
    <3>2. ToSet(Entered(task) \o Tail(scan)) = ToSet(Entered(task)) \cup rest
      BY <1>2, ListingAdds
    <3>3. ToSet(Entered(task)) \subseteq ToSet(scan')
      BY <3>1, <3>2
    <3> HIDE DEF task, rest
    <3>4. Reached(folder, done \o left) /\ Readable(disk, Place(folder) \o (done \o left))
      BY <1>4, <1>7
    <3>5. Covered(ToSet(Entered(task)), folder, done \o left)
      BY <1>2, <1>3, <1>7, <3>1, <3>4, CoverGoesOn
    <3>6. QED
      BY <1>7, <3>3, <3>5 DEF Covered
  <2>2. CASE ReadFile
    <3>1. /\ ~task.folder
          /\ filemap' = filemap \cup {path \in {task.path} : Readable(disk, Place(path))}
      BY <2>2 DEF ReadFile
    <3>2. left = <<>> /\ task.path = TaskPath(folder, done)
      BY <1>7, <3>1 DEF Covers
    <3>3. below = done
      BY <1>7, <3>2, ConcatEmptySeq
    <3>4. Place(task.path) = Place(folder) \o below
      BY <1>2, <1>3, <3>2, <3>3, TaskPathIs
    <3> HIDE DEF task
    <3>5. Readable(disk, Place(task.path))
      BY <1>4, <3>4
    <3>6. QED
      BY <3>1, <3>2, <3>3, <3>5
  <2>3. QED
    BY <2>1, <2>2
<1> HIDE DEF task, rest
<1>8. QED
  <2>1. CASE TaskPath(folder, below) \in filemap
    BY <1>6, <2>1
  <2>2. CASE Covered(ToSet(scan), folder, below)
    <3>1. PICK one \in ToSet(scan), done \in Seq(Plain), left \in Seq(Plain) :
             below = done \o left /\ Covers(one, folder, done, left)
      BY <2>2 DEF Covered
    <3>2. CASE one = task
      BY <1>7, <3>1, <3>2
    <3>3. CASE one \in rest
      BY <1>6, <3>1, <3>3 DEF Covered
    <3>4. QED
      BY <1>2, <3>2, <3>3
  <2>3. QED
    BY <1>5, <2>1, <2>2

\* The tree stays where it is, and so does what is said of tasks, files and the ways to them.
LEMMA TreeStays ==
    ASSUME setup' = setup
    PROVE  /\ \A folder, below : TaskPath(folder, below)' = TaskPath(folder, below)
           /\ \A folder, below : Reached(folder, below)' <=> Reached(folder, below)
           /\ \A folder, below : Held(folder, below)' <=> Held(folder, below)
           /\ Recursive' = Recursive
<1>1. /\ Native' = Native /\ Links' = Links /\ Places' = Places /\ Recursive' = Recursive
      /\ Extensions' = Extensions
  BY DEF Native, Links, Places, Placeable, Fixed, Recursive, Extensions
<1>2. ASSUME NEW folder PROVE Out(folder)' = Out(folder)
  BY <1>1 DEF Out, Full, Topmost
<1>3. ASSUME NEW folder, NEW below PROVE TaskPath(folder, below)' = TaskPath(folder, below)
  BY <1>1, <1>2 DEF TaskPath, Spelled
<1>4. ASSUME NEW folder PROVE Real(folder)' = Real(folder)
  <2>1. \E place : place = Place(folder)
    OBVIOUS
  <2>2. PICK place : place = Place(folder)
    BY <2>1
  <2>3. Place(folder)' = place /\ Follow(place)' = Follow(place)
    BY <2>2, PlacesStay
  <2>4. QED
    BY <2>2, <2>3 DEF Real
<1>5. ASSUME NEW name PROVE Matches(name)' <=> Matches(name)
  BY <1>1 DEF Matches
<1>6. ScanDepths' = ScanDepths
  BY <1>1 DEF ScanDepths
<1>7. ASSUME NEW folder, NEW below PROVE Reached(folder, below)' <=> Reached(folder, below)
  BY <1>1, <1>4, <1>5, <1>6 DEF Reached
<1>8. ASSUME NEW folder, NEW below PROVE Held(folder, below)' <=> Held(folder, below)
  BY <1>1, <1>4 DEF Held
<1>9. QED
  BY <1>1, <1>3, <1>7, <1>8

LEMMA ScanStatesStay ==
    ASSUME setup' = setup
    PROVE  /\ TasksOK(ToSet(scan')) => TasksOK(ToSet(scan))'
           /\ FilesOK(filemap') => FilesOK(filemap)'
<1>1. ASSUME NEW task, NEW folder, NEW below PROVE TaskOK(task, folder, below)' <=> TaskOK(task, folder, below)
  BY TreeStays DEF TaskOK
<1>2. TasksOK(ToSet(scan')) => TasksOK(ToSet(scan))'
  BY <1>1 DEF TasksOK
<1>3. FilesOK(filemap') => FilesOK(filemap)'
  BY TreeStays DEF FilesOK
<1>4. QED
  BY <1>2, <1>3

LEMMA ScanStaysConfined ==
    ASSUME ScanInv, [WatchedNext]_watched
    PROVE  ScanConfined'
<1>1. setup' = setup
  BY SetupStays
<1>2. TasksOK(ToSet(scan')) /\ FilesOK(filemap')
  <2>1. CASE ListFolder \/ ReadFile
    BY <2>1, TasksStayOK
  <2>2. CASE scan' = scan /\ filemap' = filemap
    BY <2>2 DEF ScanInv, ScanConfined
  <2>3. QED
    BY <2>1, <2>2, StepCases DEF watched, preloading
<1>3. QED
  BY <1>1, <1>2, ScanStatesStay DEF ScanConfined

LEMMA ScanStaysCovered ==
    ASSUME ScanInv, [WatchedNext]_watched
    PROVE  ScanCovered'
<1>1. setup' = setup
  BY SetupStays
<1> SUFFICES ASSUME scan' # <<>>
             PROVE  FoundOrCovered(steady, filemap, ToSet(scan))'
  BY DEF ScanCovered
<1>2. scan # <<>>
  BY StepCases DEF ListFolder, ReadFile, watched, preloading
<1>3. FoundOrCovered(steady, filemap', ToSet(scan'))
  <2>1. CASE ListFolder \/ ReadFile
    BY <2>1, FilesStayCovered
  <2>2. CASE scan' = scan /\ filemap' = filemap
    BY <1>2, <2>2 DEF ScanInv, ScanCovered
  <2>3. QED
    BY <2>1, <2>2, StepCases DEF watched, preloading
<1>4. steady' \subseteq steady
  <2>1. job' = job
    BY <1>2, StepCases DEF watched, preloading
  <2>2. QED
    BY <2>1 DEF WatchedNext, watched
<1>5. ASSUME NEW folder, NEW below, Readable(steady, Place(folder) \o below)'
      PROVE  Readable(steady, Place(folder) \o below)
  <2>1. \E place : place = Place(folder)
    OBVIOUS
  <2>2. PICK place : place = Place(folder)
    BY <2>1
  <2> DEFINE full == place \o below
  <2>3. Place(folder)' = place
    BY <1>1, <2>2, PlacesStay
  <2>4. Readable(steady, full)'
    BY <1>5, <2>3
  <2> HIDE DEF full
  <2>5. Readable(steady', full)
    <3>1. \E real : real = Follow(full)
      OBVIOUS
    <3>2. PICK real : real = Follow(full)
      BY <3>1
    <3>3. Follow(full)' = real /\ Links' = Links /\ LinksOn(real)' = LinksOn(real)
      BY <1>1, <3>2, PlacesStay
    <3>4. QED
      BY <2>4, <3>2, <3>3 DEF Readable, Reaches, IsFolder, Inside
  <2>6. QED
    BY <1>4, <2>2, <2>5, MoreReadable DEF full
<1>6. \A folder, below : Covered(ToSet(scan'), folder, below) => Covered(ToSet(scan), folder, below)'
  BY <1>1, TreeStays DEF Covered, Covers
<1>7. QED
  BY <1>1, <1>3, <1>5, <1>6, TreeStays DEF FoundOrCovered

LEMMA ScanAtFirst ==
    ASSUME WatchedInit
    PROVE  ScanInv
<1>1. IInv
  BY InvariantAtFirst
<1>2. setup \in Setups /\ filemap = setup.preload /\ scan = ScanFolders
  BY DEF WatchedInit, PreloadInit, Init
<1> DEFINE folders == setup.folders
           n == Len(folders)
           tasks == ToSet(scan)
<1>3. folders \in Seq(Path) /\ n \in Nat /\ DOMAIN folders = 1 .. n /\ ToSet(folders) = {folders[i] : i \in 1 .. n}
      /\ ToSet(folders) \subseteq Path
  BY <1>2, PreloadSetup, LenProperties, ToSetIs
<1>4. tasks = {Folder(Canonical(folders[i]), 0) : i \in 1 .. n}
  BY <1>2, <1>3 DEF ScanFolders, ToSet
<1> HIDE DEF n, tasks
<1>5. ASSUME NEW folder \in ToSet(folders)
      PROVE  Folder(Canonical(folder), 0) \in tasks
  BY <1>3, <1>4
<1>6. ASSUME NEW task \in tasks
      PROVE  \E folder \in ToSet(folders) : task = Folder(Canonical(folder), 0)
  BY <1>3, <1>4
<1> DEFINE none == <<>>
<1>7. none \in Seq(Plain) /\ Len(none) = 0 /\ none = <<>>
  BY TopmostIsPlace
<1> HIDE DEF none
<1>8. ASSUME NEW folder \in ToSet(folders) PROVE Canonical(folder) = TaskPath(folder, none)
  <2>1. folder \in Path
    BY <1>3
  <2>2. QED
    BY <1>2, <1>7, <2>1, TaskPathIs
<1> HIDE DEF folders
<1>9. TasksOK(tasks)
  <2>1. ASSUME NEW task \in tasks
        PROVE  \E folder \in ToSet(folders), below \in Seq(Plain) : TaskOK(task, folder, below)
    <3>1. PICK folder \in ToSet(folders) : task = Folder(Canonical(folder), 0)
      BY <1>6
    <3>2. TaskOK(task, folder, none)
      BY <1>7, <1>8, <3>1 DEF TaskOK, Folder
    <3>3. QED
      BY <1>7, <3>2
  <2>2. QED
    BY <2>1 DEF TasksOK, folders
<1>10. FilesOK(filemap)
  BY <1>2 DEF FilesOK
<1>11. FoundOrCovered(steady, filemap, tasks)
  <2>1. ASSUME NEW folder \in ToSet(folders), NEW below \in Seq(Plain), Reached(folder, below)
        PROVE  Covered(tasks, folder, below)
    <3> DEFINE task == Folder(Canonical(folder), 0)
    <3>1. task \in tasks
      BY <1>5
    <3>2. below # <<>>
      BY <2>1 DEF Reached
    <3>3. Covers(task, folder, none, below)
      BY <1>7, <1>8, <3>2 DEF Covers, Folder
    <3>4. below = none \o below
      BY <1>7, ConcatEmptySeq
    <3> HIDE DEF task
    <3>5. QED
      BY <1>7, <3>1, <3>3, <3>4 DEF Covered
  <2>2. QED
    BY <2>1 DEF FoundOrCovered, folders
<1>12. QED
  BY <1>1, <1>9, <1>10, <1>11 DEF ScanInv, ScanConfined, ScanCovered, tasks

LEMMA ScanInvStays ==
    ASSUME ScanInv, [WatchedNext]_watched
    PROVE  ScanInv'
<1>1. IInv'
  BY InvariantStays DEF ScanInv
<1>2. QED
  BY <1>1, ScanStaysConfined, ScanStaysCovered DEF ScanInv

LEMMA ScanEnds ==
    ASSUME ScanInv, [WatchedNext]_watched, scan # <<>>, scan' = <<>>
    PROVE  /\ \A folder \in ToSet(setup.folders) : \A suffix \in Scannable(folder) :
                 Readable(steady, Place(folder) \o suffix) => Canonical(Push(folder, suffix)) \in filemap'
           /\ \A path \in filemap' \ setup.preload :
                 \E folder \in ToSet(setup.folders) : \E suffix \in Scannable(folder) :
                     path = Canonical(Push(folder, suffix))
<1>1. setup \in Setups /\ setup.folders # <<>> /\ ToSet(setup.folders) \subseteq Path
  BY FoldersThere
<1>2. ListFolder \/ ReadFile
  BY StepCases DEF watched, preloading
<1>3. ToSet(scan') = {}
  BY DEF ToSet
<1>4. FoundOrCovered(steady, filemap', {}) /\ FilesOK(filemap')
  BY <1>2, <1>3, FilesStayCovered, TasksStayOK
<1>5. ASSUME NEW folder \in ToSet(setup.folders), NEW below
      PROVE  /\ below \in Scannable(folder) <=> Reached(folder, below)
             /\ Reached(folder, below) =>
                    below \in Seq(Plain) /\ Canonical(Push(folder, below)) = TaskPath(folder, below)
  <2>1. folder \in Path
    BY <1>1
  <2>2. below \in Scannable(folder) <=> Reached(folder, below)
    BY <1>1, <2>1, ScannableIs
  <2>3. ASSUME Reached(folder, below)
        PROVE  below \in Seq(Plain) /\ Canonical(Push(folder, below)) = TaskPath(folder, below)
    <3>1. below \in Seq(Plain) /\ below # <<>>
      BY <2>3 DEF Reached
    <3>2. QED
      BY <1>1, <2>1, <3>1, LookedUpBy
  <2>4. QED
    BY <2>2, <2>3
<1>6. ASSUME NEW folder \in ToSet(setup.folders), NEW suffix \in Scannable(folder),
             Readable(steady, Place(folder) \o suffix)
      PROVE  Canonical(Push(folder, suffix)) \in filemap'
  <2>1. Reached(folder, suffix) /\ suffix \in Seq(Plain)
        /\ Canonical(Push(folder, suffix)) = TaskPath(folder, suffix)
    BY <1>5
  <2>2. ~Covered({}, folder, suffix)
    BY DEF Covered
  <2>3. QED
    BY <1>4, <1>6, <2>1, <2>2 DEF FoundOrCovered
<1>7. ASSUME NEW path \in filemap' \ setup.preload
      PROVE  \E folder \in ToSet(setup.folders) : \E suffix \in Scannable(folder) :
                 path = Canonical(Push(folder, suffix))
  <2>1. PICK folder \in ToSet(setup.folders), below \in Seq(Plain) :
           Reached(folder, below) /\ path = TaskPath(folder, below)
    BY <1>4, <1>7 DEF FilesOK
  <2>2. below \in Scannable(folder) /\ path = Canonical(Push(folder, below))
    BY <1>5, <2>1
  <2>3. QED
    BY <2>2
<1>8. QED
  BY <1>6, <1>7

(***************************************************************************)
(* preload_files_with, when its scan ends, has read every file it was to   *)
(* read that was there all along, under the path a resolver looks it up    *)
(* by, and no other file, whatever came and went meanwhile.                *)
(***************************************************************************)
THEOREM ScanFindsAll == WatchedSpec => ScanFinds
<1>1. WatchedInit => ScanInv
  BY ScanAtFirst
<1>2. ScanInv /\ [WatchedNext]_watched => ScanInv'
  BY ScanInvStays
<1>3. ScanInv /\ [WatchedNext]_watched =>
        [scan # <<>> /\ scan' = <<>> =>
            /\ \A folder \in ToSet(setup.folders) : \A suffix \in Scannable(folder) :
                  Readable(steady, Place(folder) \o suffix) => Canonical(Push(folder, suffix)) \in filemap'
            /\ \A path \in filemap' \ setup.preload :
                  \E folder \in ToSet(setup.folders) : \E suffix \in Scannable(folder) :
                      path = Canonical(Push(folder, suffix))]_watched
  BY ScanEnds
<1>4. QED
  BY <1>1, <1>2, <1>3, PTL DEF WatchedSpec, ScanFinds
================================================================================
