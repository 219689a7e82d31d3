---------------------------- MODULE ResolversProofs ----------------------------
(***************************************************************************)
(* Theorems about Resolvers, for any trees, references, roots, search      *)
(* paths and extensions.                                                   *)
(***************************************************************************)
EXTENDS ResolversProperties, SequenceFacts

(***************************************************************************)
(* What the path helpers make are paths.                                   *)
(***************************************************************************)
Name == Segment \ {Nil, Dot}

LEMMA SpecialSegments ==
    /\ Nil \in Segment /\ Dot \in Segment /\ DotDot \in Name
    /\ NODE_MODULES \in Segment /\ Manifest \in Segment
<1> DEFINE e == NONE
<1>1. e \in Parts /\ "node_modules" \in Parts /\ "package" \in Parts /\ "json" \in Parts
  BY PathsAssumption, ResolversAssumption
<1>2. Nil = <<e>> /\ Dot = <<e, e>> /\ DotDot = <<e, e, e>>
  BY Zenon DEF Nil, Dot, DotDot, NONE
<1> HIDE DEF e
<1>3. <<e>> \in Seq(Parts) /\ <<e, e>> \in Seq(Parts) /\ <<e, e, e>> \in Seq(Parts)
  BY <1>1
<1>4. /\ <<e>> # <<>> /\ <<e, e>> # <<>> /\ <<e, e, e>> # <<>>
      /\ <<e, e, e>> # <<e>> /\ <<e, e, e>> # <<e, e>>
  OBVIOUS
<1>5. NODE_MODULES \in Seq(Parts) /\ Manifest \in Seq(Parts)
  BY <1>1 DEF NODE_MODULES, Manifest
<1>6. NODE_MODULES # <<>> /\ Manifest # <<>>
  BY DEF NODE_MODULES, Manifest
<1>7. QED
  BY <1>2, <1>3, <1>4, <1>5, <1>6 DEF Name, Segment

\* Concatenation, of segments.
LEMMA SegmentsJoin ==
    \A s, t, u \in Seq(Segment) : s \o (t \o u) = (s \o t) \o u
<1>1. Joins(Segment)
  BY Concats
<1>2. QED
  BY <1>1, Zenon DEF Joins

LEMMA SegmentsOn ==
    \A s, t \in Seq(Segment) : \A x \in Segment : Append(s \o t, x) = s \o Append(t, x)
<1>1. Ends(Segment)
  BY Concats
<1>2. QED
  BY <1>1, Zenon DEF Ends

LEMMA EnterIsPlace ==
    ASSUME NEW segments \in Seq(Name), NEW segment \in Segment, NEW above \in Seq(Name)
    PROVE  Enter(segments, segment, above) \in Seq(Name)
<1>1. CASE segment \in {Nil, Dot}
  BY <1>1 DEF Enter
<1>2. CASE segment = DotDot
  <2>1. Enter(segments, segment, above) = Climb(segments, above)
    BY <1>2, SpecialSegments DEF Enter, Name
  <2>2. CASE Len(segments) = 0
    BY <2>1, <2>2 DEF Climb
  <2>3. CASE Len(segments) # 0
    <3>1. segments # <<>>
      BY <2>3, EmptySeq
    <3>2. Front(segments) \in Seq(Name)
      BY <3>1, FrontOf
    <3>3. QED
      BY <2>1, <2>3, <3>2 DEF Climb
  <2>4. QED
    BY <2>2, <2>3
<1>3. CASE segment \notin {Nil, Dot} /\ segment # DotDot
  <2>1. Enter(segments, segment, above) = Append(segments, segment) /\ segment \in Name
    BY <1>3 DEF Enter, Name
  <2>2. QED
    BY <2>1, AppendTo
<1>4. QED
  BY <1>1, <1>2, <1>3

LEMMA WalkSteps ==
    ASSUME NEW path \in Seq(Segment), NEW above \in Seq(Name)
    PROVE  \E walk : /\ Walked(path, above) = walk[Len(path)] /\ walk[0] = <<>>
                     /\ \A i \in 1 .. Len(path) : walk[i] = Enter(walk[i - 1], path[i], above)
                     /\ \A i \in 0 .. Len(path) : walk[i] \in Seq(Name)
<1> DEFINE n == Len(path)
           V == Seq(Name)
           Walk(f) == [i \in 0 .. n |-> IF i = 0 THEN <<>> ELSE Enter(f[i - 1], path[i], above)]
           walk == CHOOSE f : f = Walk(f)
           step == [i \in Nat |-> [s \in V |-> IF i \in 1 .. n THEN Enter(s, path[i], above) ELSE s]]
<1>1. Walked(path, above) = walk[n]
  BY DEF Walked
<1>2. n \in Nat /\ \A i \in 1 .. n : path[i] \in Segment
  BY LenProperties, ElementOfSeq
<1>3. <<>> \in V
  BY EmptySeq
<1> HIDE DEF n
<1>4. \A i \in 1 .. n : \A s \in V : Enter(s, path[i], above) \in V
  BY <1>2, EnterIsPlace
<1> HIDE DEF V
<1>5. step \in [Nat -> [V -> V]]
  BY <1>4
<1>6. \A i \in 1 .. n, s \in V : step[i][s] = Enter(s, path[i], above)
  BY <1>2
<1> HIDE DEF step
<1> DEFINE b == 0
           x == <<>>
<1>7. b \in Nat /\ b <= n /\ x \in V
  BY <1>2, <1>3
<1> HIDE DEF b, x
<1>8. HasRun(V, b, n, x, step)
  BY <1>2, <1>5, <1>7, RecursionExists
<1>9. PICK f \in [0 .. n -> V] : f[0] = <<>> /\ \A i \in 0 + 1 .. n : f[i] = step[i][f[i - 1]]
  BY <1>8 DEF HasRun, b, x
<1>10. \A i \in 0 .. n : f[i] = IF i = 0 THEN <<>> ELSE Enter(f[i - 1], path[i], above)
  <2> SUFFICES ASSUME NEW i \in 0 .. n, i # 0
               PROVE  f[i] = Enter(f[i - 1], path[i], above)
    BY <1>9
  <2>1. i \in 1 .. n /\ i \in 0 + 1 .. n /\ i - 1 \in 0 .. n
    BY <1>2
  <2>2. QED
    BY <1>6, <1>9, <2>1
<1>11. f = Walk(f)
  BY <1>9, <1>10
<1>12. walk = Walk(walk)
  <2> HIDE DEF Walk
  <2>1. QED
    BY <1>11
<1> HIDE DEF walk
<1>13. \A i \in 0 .. n : walk[i] = IF i = 0 THEN <<>> ELSE Enter(walk[i - 1], path[i], above)
  BY <1>12
<1>14. ASSUME NEW m \in 0 .. n PROVE walk[m] \in V
  <2>1. ASSUME NEW i \in 0 + 1 .. m, walk[i - 1] \in V PROVE walk[i] \in V
    <3>1. i \in 1 .. n /\ i \in 0 .. n /\ i # 0
      BY <1>2
    <3>2. QED
      BY <1>4, <1>13, <2>1, <3>1
  <2>2. walk[0] \in V /\ 0 <= m /\ m \in Nat
    BY <1>2, <1>3, <1>13
  <2>3. QED
    BY <2>1, <2>2, RecursionStays
<1>15. walk[0] = <<>> /\ \A i \in 1 .. n : walk[i] = Enter(walk[i - 1], path[i], above)
  <2>1. \A i \in 1 .. n : i \in 0 .. n /\ i # 0
    BY <1>2
  <2>2. 0 \in 0 .. n
    BY <1>2
  <2>3. QED
    BY <1>13, <2>1, <2>2
<1>16. QED
  BY <1>1, <1>14, <1>15 DEF n, V

LEMMA WalkedIsPlace ==
    ASSUME NEW path \in Seq(Segment), NEW above \in Seq(Name)
    PROVE  Walked(path, above) \in Seq(Name)
<1>1. PICK walk : /\ Walked(path, above) = walk[Len(path)]
                  /\ \A i \in 0 .. Len(path) : walk[i] \in Seq(Name)
  BY WalkSteps
<1>2. Len(path) \in 0 .. Len(path)
  BY LenProperties
<1>3. QED
  BY <1>1, <1>2

\* Walking on by one segment.
LEMMA WalkedOn ==
    ASSUME NEW path \in Seq(Segment), NEW segment \in Segment, NEW above \in Seq(Name)
    PROVE  /\ Walked(<<>>, above) = <<>>
           /\ Walked(Append(path, segment), above) = Enter(Walked(path, above), segment, above)
<1>1. Walked(<<>>, above) = <<>>
  <2> DEFINE none == <<>>
  <2>1. none \in Seq(Segment) /\ Len(none) = 0
    BY EmptySeq
  <2> HIDE DEF none
  <2>2. PICK walk : Walked(none, above) = walk[Len(none)] /\ walk[0] = <<>>
    BY <2>1, WalkSteps
  <2>3. QED
    BY <2>1, <2>2 DEF none
<1> DEFINE n == Len(path)
           longer == Append(path, segment)
<1>2. /\ longer \in Seq(Segment) /\ Len(longer) = n + 1 /\ longer[n + 1] = segment
      /\ \A i \in 1 .. n : longer[i] = path[i]
  BY AppendTo
<1>3. n \in Nat
  BY LenProperties
<1>4. PICK walk : /\ Walked(path, above) = walk[n] /\ walk[0] = <<>>
                  /\ \A i \in 1 .. n : walk[i] = Enter(walk[i - 1], path[i], above)
  BY WalkSteps
<1> HIDE DEF longer, n
<1>5. longer \in Seq(Segment)
  BY <1>2
<1>6. PICK on : /\ Walked(longer, above) = on[Len(longer)] /\ on[0] = <<>>
                 /\ \A i \in 1 .. Len(longer) : on[i] = Enter(on[i - 1], longer[i], above)
  BY <1>5, WalkSteps, Zenon
<1>7. /\ Walked(longer, above) = on[n + 1] /\ on[0] = <<>>
      /\ \A i \in 1 .. n + 1 : on[i] = Enter(on[i - 1], longer[i], above)
  BY <1>2, <1>6
<1>8. on[n] = walk[n]
  <2> DEFINE T == {k \in Nat : k <= n => on[k] = walk[k]}
  <2>1. 0 \in T
    BY <1>4, <1>7
  <2>2. ASSUME NEW k \in T PROVE k + 1 \in T
    <3>1. k \in Nat /\ (k + 1 <= n => k + 1 \in 1 .. n /\ k + 1 \in 1 .. n + 1 /\ k <= n)
      BY <1>3
    <3>2. (k + 1) - 1 = k
      BY <3>1
    <3> DEFINE m == k + 1
    <3>3. m - 1 = k /\ m \in Nat
      BY <3>1, <3>2
    <3> HIDE DEF m
    <3>4. m <= n => on[m] = walk[m]
      BY <1>2, <1>4, <1>7, <3>1, <3>3 DEF m
    <3>5. QED
      BY <3>3, <3>4 DEF m
  <2> HIDE DEF T
  <2>3. T = Nat
    <3>1. T \in SUBSET Nat
      BY DEF T
    <3>2. QED
      BY <2>1, <2>2, <3>1, NatSetInduction
  <2>4. QED
    BY <1>3, <2>3 DEF T
<1>9. n + 1 \in 1 .. n + 1 /\ (n + 1) - 1 = n
  BY <1>3
<1>10. on[n + 1] = Enter(on[n], segment, above)
  BY <1>2, <1>7, <1>9
<1>11. QED
  BY <1>1, <1>4, <1>7, <1>8, <1>10 DEF longer

LEMMA NamesAreSegments ==
    ASSUME NEW path \in Seq(Name)
    PROVE  path \in Seq(Segment) /\ path # EmptyPath
<1>1. path \in Seq(Segment)
  BY SeqMonotonic DEF Name
<1>2. ASSUME path = EmptyPath PROVE FALSE
  <2>1. Len(path) = 1 /\ path[1] = Nil
    BY <1>2 DEF EmptyPath
  <2>2. path[1] \in Name
    BY <2>1, ElementOfSeq
  <2>3. QED
    BY <2>1, <2>2 DEF Name
<1>3. QED
  BY <1>1, <1>2

\* A path that stands for something.
Given == Path \ {EmptyPath}

LEMMA SingleSegments ==
    /\ \A segment \in Segment : <<segment>> \in Path
    /\ <<Dot>> \in Given /\ RootPath \in Given /\ EmptyPath \in Path
<1>1. \A segment \in Segment : <<segment>> \in Path
  BY DEF Path
<1>2. Dot # Nil
  <2> DEFINE e == NONE
  <2>1. Nil = <<e>> /\ Dot = <<e, e>>
    BY Zenon DEF Nil, Dot, NONE
  <2> HIDE DEF e
  <2>2. QED
    BY <2>1
<1>3. <<Dot>> \in Given
  BY <1>1, <1>2, SpecialSegments DEF Given, EmptyPath
<1>4. RootPath \in Given
  BY SpecialSegments DEF RootPath, Given, Path, EmptyPath
<1>5. QED
  BY <1>1, <1>3, <1>4, SpecialSegments DEF EmptyPath

LEMMA JoinedIsGiven ==
    ASSUME NEW s \in Seq(Segment), s # <<>>, NEW t \in Seq(Segment), t # <<>>
    PROVE  s \o t \in Given
<1>1. s \o t \in Seq(Segment) /\ Len(s \o t) = Len(s) + Len(t)
  BY ConcatProperties
<1>2. Len(s) \in Nat \ {0} /\ Len(t) \in Nat \ {0}
  BY EmptySeq
<1>3. Len(s \o t) > 1
  BY <1>1, <1>2
<1>4. s \o t # <<>>
  BY <1>3
<1>5. ASSUME s \o t = EmptyPath PROVE FALSE
  <2>1. Len(EmptyPath) = 1
    BY DEF EmptyPath
  <2>2. QED
    BY <1>3, <1>5, <2>1
<1>6. QED
  BY <1>1, <1>4, <1>5 DEF Given, Path

LEMMA CleanIsGiven ==
    ASSUME NEW path \in Seq(Segment)
    PROVE  Clean(path) \in Given
<1>1. <<>> \in Seq(Name)
  BY EmptySeq
<1>2. Walked(path, <<>>) \in Seq(Name)
  BY <1>1, WalkedIsPlace
<1>3. CASE Walked(path, <<>>) = <<>>
  BY <1>3, SingleSegments DEF Clean
<1>4. CASE Walked(path, <<>>) # <<>>
  BY <1>2, <1>4, NamesAreSegments DEF Clean, Given, Path
<1>5. QED
  BY <1>3, <1>4

LEMMA LexicalIsGiven ==
    ASSUME NEW path \in Seq(Segment)
    PROVE  Lexical(path) \in Given
<1> DEFINE out == Walked(path, <<DotDot>>)
<1>1. out \in Seq(Name)
  <2>1. <<DotDot>> \in Seq(Name)
    BY SpecialSegments
  <2>2. QED
    BY <2>1, WalkedIsPlace
<1> HIDE DEF out
<1>2. CASE out = <<>>
  BY <1>2, SingleSegments DEF Lexical, out
<1>3. CASE out # <<>>
  <2>1. out \in Seq(Segment) /\ out \in Given
    BY <1>1, <1>3, NamesAreSegments DEF Given, Path
  <2>2. <<Nil>> \o out \in Given
    <3>1. <<Nil>> \in Seq(Segment) /\ <<Nil>> # <<>>
      BY SpecialSegments
    <3>2. QED
      BY <1>3, <2>1, <3>1, JoinedIsGiven
  <2>3. QED
    BY <1>3, <2>1, <2>2 DEF Lexical, out
<1>4. QED
  BY <1>2, <1>3

LEMMA AbsoluteIsPath ==
    ASSUME NEW path \in Path
    PROVE  Absolute(path) \in Path
<1>1. Cwd \in Path
  BY PathsAssumption
<1>2. Cwd \o path \in Path
  BY <1>1, JoinedIsGiven DEF Path, Given
<1>3. QED
  BY <1>2 DEF Absolute

LEMMA PlaceIsPlace ==
    ASSUME NEW path \in Path
    PROVE  Place(path) \in Seq(Name) /\ Place(path) \in Seq(Segment)
<1>1. <<>> \in Seq(Name)
  BY EmptySeq
<1>2. path \in Seq(Segment) /\ Absolute(path) \in Seq(Segment)
  BY AbsoluteIsPath DEF Path
<1>3. Place(path) \in Seq(Name)
  BY <1>1, <1>2, WalkedIsPlace DEF Place
<1>4. QED
  BY <1>3, NamesAreSegments

LEMMA JoinIsGiven ==
    ASSUME NEW path \in Seq(Segment), NEW part \in Path
    PROVE  Push(path, part) \in Path /\ Join(path, part) \in Given
<1>1. path \o part \in Path
  <2>1. CASE path = <<>>
    BY <2>1, ConcatEmptySeq DEF Path
  <2>2. CASE path # <<>>
    BY <2>2, JoinedIsGiven DEF Path, Given
  <2>3. QED
    BY <2>1, <2>2
<1>2. Push(path, part) \in Path
  BY <1>1 DEF Push
<1>3. Lexical(Push(path, part)) \in Given /\ Clean(path \o part) \in Given
  BY <1>1, <1>2, LexicalIsGiven, CleanIsGiven DEF Path
<1>4. QED
  BY <1>2, <1>3 DEF Join, JoinPaths

LEMMA CanonicalIsGiven ==
    ASSUME NEW path \in Path
    PROVE  Canonical(path) \in Given
<1>1. path \in Seq(Segment) /\ Absolute(path) \in Seq(Segment)
  BY AbsoluteIsPath DEF Path
<1>2. Lexical(Absolute(path)) \in Given /\ Clean(path) \in Given
  BY <1>1, LexicalIsGiven, CleanIsGiven
<1>3. QED
  BY <1>2 DEF Canonical, Canon

LEMMA ComponentsAreSegments ==
    ASSUME NEW path \in Path
    PROVE  Components(path) \in Seq(Segment)
<1> DEFINE n == Len(path)
           V == Seq(Segment)
           parts == [i \in 1 .. n |-> IF IsComponent(path, i) THEN <<path[i]>> ELSE <<>>]
<1>1. n \in Nat /\ DOMAIN path = 1 .. n
  BY LenProperties DEF Path
<1>2. ASSUME NEW i \in 1 .. n PROVE <<path[i]>> \in V /\ <<>> \in V
  <2>1. path[i] \in Segment
    BY ElementOfSeq DEF Path
  <2>2. QED
    BY <2>1
<1> HIDE DEF V, n
<1>3. parts \in [1 .. n -> V]
  BY <1>2
<1>4. Components(path) = FlattenSeq(parts)
  BY <1>1 DEF Components
<1> HIDE DEF parts
<1>5. FlattenSeq(parts) \in Seq(Segment)
  BY <1>1, <1>3, FlattenIsSeq DEF V
<1>6. QED
  BY <1>4, <1>5

LEMMA DirIsPath ==
    ASSUME NEW path \in Path
    PROVE  Dir(path) \in Path
<1>1. OsDir(path) \in Path
  <2> DEFINE all == Components(path)
             above == Front(all)
  <2>1. all \in Seq(Segment)
    BY ComponentsAreSegments
  <2> HIDE DEF all
  <2>2. CASE all = <<>>
    BY <2>2 DEF OsDir, all
  <2>3. CASE all # <<>>
    <3>1. above \in Seq(Segment)
      BY <2>1, <2>3, FrontOf
    <3>2. above # <<>> => <<Nil>> \o above \in Path
      <4>1. <<Nil>> \in Seq(Segment) /\ <<Nil>> # <<>>
        BY SpecialSegments
      <4>2. QED
        BY <3>1, <4>1, JoinedIsGiven DEF Given
    <3>3. OsDir(path) = IF IsAbsolute(path)
                        THEN IF above = <<>> THEN RootPath ELSE <<Nil>> \o above
                        ELSE IF above = <<>> THEN EmptyPath ELSE above
      BY <2>3 DEF OsDir, all
    <3> HIDE DEF above
    <3>4. above # <<>> => above \in Path
      BY <3>1 DEF Path
    <3>5. QED
      BY <3>2, <3>3, <3>4, SingleSegments DEF Given
  <2>4. QED
    BY <2>2, <2>3
<1>2. MapDir(path) \in Path
  <2> DEFINE cleaned == Clean(path)
  <2>1. cleaned \in Seq(Segment) /\ cleaned # <<>>
    BY CleanIsGiven DEF Given, Path
  <2> HIDE DEF cleaned
  <2>2. CASE Len(cleaned) = 1
    BY <2>2, SingleSegments DEF MapDir, cleaned, Given
  <2>3. CASE Len(cleaned) # 1
    <3>1. /\ Front(cleaned) \in Seq(Segment) /\ Len(Front(cleaned)) = Len(cleaned) - 1
          /\ Len(cleaned) \in Nat \ {0}
      BY <2>1, FrontOf
    <3>2. Front(cleaned) # <<>>
      BY <2>3, <3>1, EmptySeq
    <3>3. QED
      BY <2>3, <3>1, <3>2 DEF MapDir, cleaned, Path
  <2>4. QED
    BY <2>2, <2>3
<1>3. QED
  BY <1>1, <1>2 DEF Dir, DirOf

LEMMA FullIsPath ==
    ASSUME NEW reference \in Path, NEW base \in Path
    PROVE  FullOf(reference, base) \in Path
<1>1. base \o reference \in Path
  BY JoinedIsGiven DEF Path, Given
<1>2. QED
  BY <1>1 DEF FullOf

LEMMA SourceDirIsPath ==
    ASSUME NEW path \in Path
    PROVE  SourceDir(path) \in Path
<1> DEFINE n == Len(path)
           I == {i \in 1 .. n : path[i] # Nil}
           k == IF I # {} THEN Max(I) ELSE 0
           trimmed == SubSeq(path, 1, k)
<1>1. n \in Nat /\ \A i \in 1 .. n : path[i] \in Segment
  BY LenProperties, ElementOfSeq DEF Path
<1>2. k \in 0 .. n
  <2>1. CASE I = {}
    BY <1>1, <2>1
  <2>2. CASE I # {}
    <3> DEFINE T == {n - i : i \in I}
    <3>1. T \in SUBSET Nat /\ T # {}
      BY <1>1, <2>2
    <3> HIDE DEF T
    <3>2. PICK x \in T : \A y \in T : x <= y
      BY <3>1, LeastElement
    <3>3. PICK m \in I : x = n - m
      BY DEF T
    <3>4. \A i \in I : n - i \in T
      BY DEF T
    <3>5. \A i \in I : m >= i
      BY <1>1, <3>2, <3>3, <3>4
    <3> HIDE DEF I
    <3>6. Max(I) \in I
      BY <3>5 DEF Max
    <3>7. QED
      BY <1>1, <2>2, <3>6 DEF I
  <2>3. QED
    BY <2>1, <2>2
<1>3. SourceDir(path) = IF Len(trimmed) <= 1 THEN EmptyPath
                        ELSE IF Len(trimmed) = 2 /\ IsAbsolute(trimmed) THEN RootPath
                        ELSE Front(trimmed)
  BY DEF SourceDir, SelectLastInSeq
<1> HIDE DEF I, k, n
<1>4. trimmed \in Seq(Segment)
  BY <1>1, <1>2, SubSeqProperties
<1> HIDE DEF trimmed
<1>5. ASSUME ~(Len(trimmed) <= 1) PROVE Front(trimmed) \in Path
  <2>1. trimmed # <<>> /\ Len(trimmed) \in Nat
    BY <1>4, <1>5, EmptySeq, LenProperties
  <2>2. Front(trimmed) \in Seq(Segment) /\ Len(Front(trimmed)) = Len(trimmed) - 1
    BY <1>4, <2>1, FrontOf
  <2>3. Front(trimmed) # <<>>
    BY <1>5, <2>1, <2>2, EmptySeq
  <2>4. QED
    BY <2>2, <2>3 DEF Path
<1>6. QED
  BY <1>3, <1>5, SingleSegments DEF Given

(***************************************************************************)
(* What a resolution looks at is paths: Sources(PathList) is a Todo.       *)
(***************************************************************************)
PathList == Seq(Given)

LEMMA SetupType ==
    ASSUME setup \in Setups
    PROVE  /\ BasePath \in Path /\ ImplicitExt \in Seq(Parts) /\ SearchPaths \in Seq(Path)
           /\ Root \subseteq Path /\ (\A path, other \in Root : path = other)
           /\ setup.preload \subseteq Path /\ References \subseteq Path
           /\ Mains \in [DOMAIN Mains -> SUBSET Path]
           /\ DOMAIN Links \subseteq Seq(Segment) /\ Links \in [DOMAIN Links -> Seq(Segment)]
           /\ Placeable \cup Fixed \subseteq Seq(Segment)
           /\ ~Native => DOMAIN Links = {}
  BY ResolversAssumption DEF BasePath, ImplicitExt, SearchPaths, Root, References, Mains, Links,
     Placeable, Fixed, Native

LEMMA IndexSegments ==
    ASSUME NEW ext \in Parts, NEW segment \in Segment
    PROVE  /\ Append(segment, ext) \in Segment
           /\ <<"index", ext>> \in Segment
           /\ <<"index", segment[1], ext>> \in Segment
<1>1. "index" \in Parts
  BY PathsAssumption
<1>2. segment \in Seq(Parts) /\ segment # <<>>
  BY DEF Segment
<1>3. Append(segment, ext) \in Segment
  BY <1>2, AppendTo DEF Segment
<1>4. segment[1] \in Parts
  <2>1. Len(segment) \in Nat \ {0}
    BY <1>2, EmptySeq
  <2>2. 1 \in 1 .. Len(segment)
    BY <2>1
  <2>3. QED
    BY <1>2, <2>2, ElementOfSeq
<1> DEFINE d == "index"
           e == segment[1]
<1>5. d \in Parts /\ e \in Parts
  BY <1>1, <1>4
<1> HIDE DEF d, e
<1>6. <<d, ext>> \in Seq(Parts) /\ <<d, e, ext>> \in Seq(Parts)
  BY <1>5
<1>7. <<d, ext>> # <<>> /\ <<d, e, ext>> # <<>>
  OBVIOUS
<1>8. <<d, ext>> \in Segment /\ <<d, e, ext>> \in Segment
  BY <1>6, <1>7 DEF Segment
<1>9. QED
  BY <1>3, <1>8 DEF d, e

LEMMA AppendIsGiven ==
    ASSUME NEW path \in Seq(Segment), path # <<>>, NEW segment \in Segment
    PROVE  Append(path, segment) \in Given
<1>1. Append(path, segment) = path \o <<segment>>
  BY AppendIsConcat
<1>2. <<segment>> \in Seq(Segment) /\ <<segment>> # <<>>
  OBVIOUS
<1>3. QED
  BY <1>1, <1>2, JoinedIsGiven

LEMMA WithExtIsGiven ==
    ASSUME NEW path \in Path, NEW ext \in Parts
    PROVE  WithExt(path, ext) \in Given
<1> DEFINE segment == Append(Last(path), ext)
<1>1. Last(path) \in Segment /\ Front(path) \in Seq(Segment)
  BY FrontOf DEF Path
<1>2. segment \in Segment
  BY <1>1, IndexSegments
<1>3. Len(segment) > 1
  <2>1. Last(path) \in Seq(Parts) /\ Last(path) # <<>>
    BY <1>1 DEF Segment
  <2>2. Len(Last(path)) \in Nat \ {0}
    BY <2>1, EmptySeq
  <2>3. Len(segment) = Len(Last(path)) + 1
    BY <2>1, AppendTo
  <2>4. QED
    BY <2>2, <2>3
<1> HIDE DEF segment
<1>4. WithExt(path, ext) = Front(path) \o <<segment>>
  BY DEF WithExt, segment
<1>5. <<segment>> \in Path
  BY <1>2, SingleSegments
<1>6. CASE Front(path) = <<>>
  <2>1. WithExt(path, ext) = <<segment>>
    BY <1>4, <1>5, <1>6, ConcatEmptySeq DEF Path
  <2>2. ASSUME <<segment>> = EmptyPath PROVE FALSE
    <3>1. segment = Nil
      BY <2>2 DEF EmptyPath
    <3>2. Len(Nil) = 1
      BY DEF Nil
    <3>3. QED
      BY <1>3, <3>1, <3>2
  <2>3. QED
    BY <1>5, <2>1, <2>2 DEF Given
<1>7. CASE Front(path) # <<>>
  BY <1>1, <1>4, <1>5, <1>7, JoinedIsGiven DEF Path
<1>8. QED
  BY <1>6, <1>7

LEMMA PotentialsArePaths ==
    ASSUME NEW full \in Path, NEW exts \in Seq(Parts)
    PROVE  /\ BuildPotentials(full, exts) \in PathList
           /\ full # EmptyPath => BuildPotentials(full, exts) # <<>>
<1> DEFINE n == Len(exts)
           segment == Last(full)
           A == [i \in 1 .. n |-> WithExt(full, exts[i])]
           B == [i \in 1 .. n |-> Append(full, <<"index", exts[i]>>)]
           C == [i \in 1 .. n |-> Append(full, <<"index", segment[1], exts[i]>>)]
<1>1. n \in Nat /\ DOMAIN exts = 1 .. n
  BY LenProperties
<1>2. full \in Seq(Segment) /\ full # <<>> /\ segment \in Segment /\ Front(full) \in Seq(Segment)
  BY FrontOf DEF Path
<1>3. ASSUME full # EmptyPath, ~(Len(segment) > 1)
      PROVE  /\ BuildPotentials(full, exts) = <<full>> \o A \o B \o (IF segment = Nil THEN <<>> ELSE C)
  BY <1>1, <1>3 DEF BuildPotentials
<1>4. A \in [1 .. n -> Given] /\ B \in [1 .. n -> Given] /\ C \in [1 .. n -> Given]
  <2> SUFFICES ASSUME NEW i \in 1 .. n
               PROVE  /\ WithExt(full, exts[i]) \in Given
                      /\ Append(full, <<"index", exts[i]>>) \in Given
                      /\ Append(full, <<"index", segment[1], exts[i]>>) \in Given
    OBVIOUS
  <2>1. exts[i] \in Parts
    BY <1>1, ElementOfSeq
  <2>2. /\ Append(segment, exts[i]) \in Segment
        /\ <<"index", exts[i]>> \in Segment
        /\ <<"index", segment[1], exts[i]>> \in Segment
    BY <1>2, <2>1, IndexSegments
  <2>3. QED
    BY <1>2, <2>1, <2>2, AppendIsGiven, WithExtIsGiven
<1> HIDE DEF A, B, C, n
<1>5. A \in PathList /\ B \in PathList /\ C \in PathList /\ <<>> \in PathList
  BY <1>1, <1>4, FunctionIsSeq, EmptySeq DEF PathList
<1>6. CASE full = EmptyPath
  BY <1>5, <1>6 DEF BuildPotentials
<1>7. ASSUME full # EmptyPath PROVE <<full>> \in PathList /\ <<full>> # <<>>
  BY <1>7 DEF PathList, Given
<1>8. CASE full # EmptyPath /\ Len(segment) > 1
  BY <1>7, <1>8 DEF BuildPotentials
<1>9. CASE full # EmptyPath /\ ~(Len(segment) > 1)
  <2> DEFINE D == IF segment = Nil THEN <<>> ELSE C
  <2>1. D \in PathList
    BY <1>5
  <2>2. BuildPotentials(full, exts) = <<full>> \o A \o B \o D
    BY <1>3, <1>9
  <2> HIDE DEF D
  <2>3. /\ <<full>> \o A \in PathList /\ <<full>> \o A # <<>>
        /\ <<full>> \o A \o B \in PathList /\ <<full>> \o A \o B # <<>>
        /\ <<full>> \o A \o B \o D \in PathList /\ <<full>> \o A \o B \o D # <<>>
    BY <1>5, <1>7, <1>9, <2>1, ConcatProperties, ConcatEqualIffEmpty DEF PathList
  <2>4. QED
    BY <2>2, <2>3
<1>10. QED
  BY <1>6, <1>8, <1>9

\* The way up, folder by folder.
Higher(dirs, least) ==
    IF Len(dirs) >= least /\ Dir(Last(dirs)) = Last(dirs) THEN dirs ELSE Append(dirs, Dir(Last(dirs)))

Rises(up, dir, least, most) ==
    /\ Upward(dir, least, most) = up[most] /\ up[1] = <<dir>>
    /\ \A n \in 1 + 1 .. most : up[n] = Higher(up[n - 1], least)
    /\ \A n \in 1 .. most : up[n] \in Seq(Path) \ {<<>>}

LEMMA UpwardSteps ==
    ASSUME NEW dir \in Path, NEW least \in Nat, NEW most \in Nat \ {0}
    PROVE  \E up : Rises(up, dir, least, most)
<1> DEFINE V == Seq(Path) \ {<<>>}
           Climbs(f) == [n \in 1 .. most |-> IF n = 1 THEN <<dir>> ELSE Higher(f[n - 1], least)]
           up == CHOOSE f : f = Climbs(f)
           step == [n \in Nat |-> [dirs \in V |-> Higher(dirs, least)]]
           b == 1
           x == <<dir>>
<1>1. Upward(dir, least, most) = up[most]
  BY DEF Upward, Higher
<1>2. \A dirs \in V : Higher(dirs, least) \in V
  <2> SUFFICES ASSUME NEW dirs \in V PROVE Append(dirs, Dir(Last(dirs))) \in V
    BY DEF Higher
  <2>1. dirs \in Seq(Path) /\ dirs # <<>>
    OBVIOUS
  <2>2. Last(dirs) \in Path
    BY <2>1, FrontOf
  <2>3. Dir(Last(dirs)) \in Path
    BY <2>2, DirIsPath
  <2>4. QED
    BY <2>1, <2>3, AppendTo
<1>3. x \in V /\ b \in Nat /\ b <= most /\ most \in Nat
  OBVIOUS
<1> HIDE DEF V, b, x
<1>4. step \in [Nat -> [V -> V]] /\ \A n \in Nat, dirs \in V : step[n][dirs] = Higher(dirs, least)
  BY <1>2
<1> HIDE DEF step
<1>5. HasRun(V, b, most, x, step)
  BY <1>3, <1>4, RecursionExists
<1>6. PICK f \in [1 .. most -> V] : f[1] = <<dir>> /\ \A n \in 1 + 1 .. most : f[n] = step[n][f[n - 1]]
  BY <1>5 DEF HasRun, b, x
<1>7. \A n \in 1 .. most : f[n] = IF n = 1 THEN <<dir>> ELSE Higher(f[n - 1], least)
  <2> SUFFICES ASSUME NEW n \in 1 .. most, n # 1
               PROVE  f[n] = Higher(f[n - 1], least)
    BY <1>6
  <2>1. n \in 1 + 1 .. most /\ n - 1 \in 1 .. most /\ n \in Nat
    OBVIOUS
  <2>2. QED
    BY <1>4, <1>6, <2>1
<1>8. f = Climbs(f)
  BY <1>6, <1>7
<1>9. up = Climbs(up)
  <2> HIDE DEF Climbs
  <2>1. QED
    BY <1>8
<1> HIDE DEF up
<1>10. \A n \in 1 .. most : up[n] = IF n = 1 THEN <<dir>> ELSE Higher(up[n - 1], least)
  BY <1>9
<1>11. ASSUME NEW n \in b + 1 .. most, up[n - 1] \in V PROVE up[n] \in V
  <2>1. n \in 1 .. most /\ n # 1
    BY DEF b
  <2>2. QED
    BY <1>2, <1>10, <1>11, <2>1
<1>12. up[b] \in V
  BY <1>3, <1>10 DEF b, x
<1>13. ASSUME NEW n \in 1 .. most PROVE up[n] \in V
  <2>1. n \in Nat /\ b <= n /\ \A i \in b + 1 .. n : i \in b + 1 .. most
    BY DEF b
  <2>2. \A i \in b + 1 .. n : up[i - 1] \in V => up[i] \in V
    BY <1>11, <2>1
  <2>3. QED
    BY <1>3, <1>12, <2>1, <2>2, RecursionStays
<1>14. \A n \in 1 + 1 .. most : up[n] = Higher(up[n - 1], least)
  <2> SUFFICES ASSUME NEW n \in 1 + 1 .. most PROVE up[n] = Higher(up[n - 1], least)
    OBVIOUS
  <2>1. n \in 1 .. most /\ n # 1
    OBVIOUS
  <2>2. QED
    BY <1>10, <2>1, Zenon
<1>15. up[1] = <<dir>>
  BY <1>3, <1>10
<1>16. QED
  BY <1>1, <1>13, <1>14, <1>15, Zenon DEF V, Rises

LEMMA UpwardIsPaths ==
    ASSUME NEW dir \in Path, NEW least \in Nat, NEW most \in Nat \ {0}
    PROVE  Upward(dir, least, most) \in Seq(Path)
<1>1. PICK up : Rises(up, dir, least, most)
  BY UpwardSteps
<1>2. most \in 1 .. most
  OBVIOUS
<1>3. QED
  BY <1>1, <1>2 DEF Rises

LEMMA ChaseIsPaths ==
    ASSUME NEW base \in Path, NEW path \in Path
    PROVE  Chase(base, path) \in PathList
<1> DEFINE least == 2
           most == NODE_MODULES_LEVELS
           levels == Upward(base, least, most)
           modules == <<NODE_MODULES>>
<1>1. most \in Nat \ {0} /\ least \in Nat
  BY DEF NODE_MODULES_LEVELS
<1>2. modules \in Path
  BY SpecialSegments, SingleSegments
<1>3. Chase(base, path) = [i \in DOMAIN levels |-> Canonical(Join(Push(levels[i], modules), path))]
  BY DEF Chase
<1> HIDE DEF least, most, modules
<1>4. levels \in Seq(Path)
  BY <1>1, UpwardIsPaths
<1> HIDE DEF levels
<1> DEFINE n == Len(levels)
<1>5. n \in Nat /\ DOMAIN levels = 1 .. n
  BY <1>4, LenProperties
<1>6. ASSUME NEW i \in 1 .. n PROVE Canonical(Join(Push(levels[i], modules), path)) \in Given
  <2>1. levels[i] \in Seq(Segment)
    BY <1>4, ElementOfSeq DEF Path
  <2>2. Push(levels[i], modules) \in Seq(Segment)
    BY <1>2, <2>1, JoinIsGiven DEF Path
  <2>3. Join(Push(levels[i], modules), path) \in Path
    BY <2>2, JoinIsGiven DEF Given
  <2>4. QED
    BY <2>3, CanonicalIsGiven
<1> HIDE DEF n
<1>7. Chase(base, path) \in [1 .. n -> Given]
  BY <1>3, <1>5, <1>6
<1>8. QED
  BY <1>5, <1>7, FunctionIsSeq DEF PathList

LEMMA CandidatesArePaths ==
    ASSUME setup \in Setups, NEW base \in Path, NEW reference \in Path
    PROVE  /\ FileCandidates(base, reference) \in PathList
           /\ RelativeCandidates(base, reference) \in PathList
           /\ BuildPotentials(FullOf(reference, base), ImplicitExt) \in PathList
<1> DEFINE whole == FullOf(reference, base)
           full == Canonical(whole)
           potentials == BuildPotentials(full, ImplicitExt)
<1>1. whole \in Path /\ ImplicitExt \in Seq(Parts)
  BY FullIsPath, SetupType
<1>2. full \in Given
  BY <1>1, CanonicalIsGiven
<1>3. potentials \in PathList /\ potentials # <<>> /\ BuildPotentials(whole, ImplicitExt) \in PathList
  BY <1>1, <1>2, PotentialsArePaths DEF Given
<1>4. <<full>> \in PathList /\ Chase(base, reference) \in PathList /\ <<>> \in PathList
  BY <1>2, ChaseIsPaths, EmptySeq DEF PathList
<1>5. Tail(potentials) \in PathList
  BY <1>3, HeadTailProperties DEF PathList
<1> DEFINE rest == IF ExtKind(full) = NONE THEN Tail(potentials) ELSE <<>>
<1>6. rest \in PathList
  BY <1>4, <1>5
<1>7. FileCandidates(base, reference) = <<full>> \o Chase(base, reference) \o rest
  BY DEF FileCandidates
<1>8. RelativeCandidates(base, reference) = potentials
  BY DEF RelativeCandidates
<1> HIDE DEF rest, full, potentials, whole
<1>9. <<full>> \o Chase(base, reference) \in PathList
  BY <1>4, ConcatProperties DEF PathList
<1>10. <<full>> \o Chase(base, reference) \o rest \in PathList
  BY <1>6, <1>9, ConcatProperties DEF PathList
<1>11. QED
  BY <1>3, <1>7, <1>8, <1>10 DEF potentials, full, whole

LEMMA FoldersArePaths ==
    ASSUME setup \in Setups
    PROVE  Folders \in PathList
<1>1. Cwd \in Path /\ SearchPaths \in Seq(Path) /\ <<Dot>> \in Path
  BY PathsAssumption, SetupType, SingleSegments DEF Given
<1>2. Starts \in Seq(Path)
  BY <1>1 DEF Starts
<1> DEFINE n == Len(Starts)
           ways == [i \in DOMAIN Starts |-> Ancestry(Canonical(Starts[i]))]
           all == FlattenSeq(ways)
           m == Len(all)
           seen(i) == \E j \in 1 .. i - 1 : all[j] = all[i]
           modules == <<NODE_MODULES>>
           kept == [i \in DOMAIN all |-> IF seen(i) THEN <<>> ELSE <<Join(all[i], modules)>>]
<1>3. n \in Nat /\ DOMAIN Starts = 1 .. n
  BY <1>2, LenProperties
<1>4. ASSUME NEW dir \in Path PROVE Ancestry(dir) \in Seq(Path)
  <2> DEFINE least == 1
             most == MAX_ANCESTORS
  <2>1. least \in Nat /\ most \in Nat \ {0}
    BY DEF MAX_ANCESTORS
  <2>2. Ancestry(dir) = IF dir = EmptyPath THEN <<>> ELSE Upward(dir, least, most)
    BY DEF Ancestry
  <2> HIDE DEF least, most
  <2>3. Upward(dir, least, most) \in Seq(Path) /\ <<>> \in Seq(Path)
    BY <2>1, UpwardIsPaths, EmptySeq
  <2>4. QED
    BY <2>2, <2>3
<1>5. ASSUME NEW i \in 1 .. n PROVE Ancestry(Canonical(Starts[i])) \in Seq(Path)
  <2>1. Starts[i] \in Path
    BY <1>2, ElementOfSeq
  <2>2. Canonical(Starts[i]) \in Path
    BY <2>1, CanonicalIsGiven DEF Given
  <2>3. QED
    BY <1>4, <2>2
<1>6. Folders = FlattenSeq(kept)
  BY DEF Folders
<1> HIDE DEF n
<1>7. ways \in [1 .. n -> Seq(Path)]
  BY <1>3, <1>5
<1> HIDE DEF ways
<1>8. all \in Seq(Path)
  BY <1>3, <1>7, FlattenIsSeq
<1> HIDE DEF all
<1>9. m \in Nat /\ DOMAIN all = 1 .. m
  BY <1>8, LenProperties
<1>10. modules \in Path
  BY SpecialSegments, SingleSegments
<1> HIDE DEF modules
<1>11. ASSUME NEW i \in 1 .. m PROVE <<>> \in Seq(Given) /\ <<Join(all[i], modules)>> \in Seq(Given)
  <2>1. all[i] \in Seq(Segment)
    BY <1>8, ElementOfSeq DEF Path
  <2>2. Join(all[i], modules) \in Given
    BY <1>10, <2>1, JoinIsGiven
  <2>3. QED
    BY <2>2, EmptySeq
<1> HIDE DEF m, seen
<1>12. kept \in [1 .. m -> Seq(Given)]
  BY <1>9, <1>11
<1> HIDE DEF kept
<1>13. QED
  BY <1>6, <1>9, <1>12, FlattenIsSeq DEF PathList

(***************************************************************************)
(* What a resolution has left to look at.                                  *)
(***************************************************************************)
Task == [path : Given, manifest : BOOLEAN]
Todo == Seq(Task)

LEMMA SourcesAreTasks ==
    ASSUME NEW paths \in PathList
    PROVE  Sources(paths) \in Todo
<1> DEFINE n == Len(paths)
<1>1. n \in Nat /\ DOMAIN paths = 1 .. n
  BY LenProperties DEF PathList
<1>2. ASSUME NEW i \in 1 .. n PROVE Source(paths[i]) \in Task
  BY ElementOfSeq DEF PathList, Source, Task
<1> HIDE DEF n
<1>3. Sources(paths) \in [1 .. n -> Task]
  BY <1>1, <1>2 DEF Sources
<1>4. QED
  BY <1>1, <1>3, FunctionIsSeq DEF Todo

LEMMA InPackageDirIsTasks ==
    ASSUME setup \in Setups, NEW target \in Path
    PROVE  InPackageDir(target) \in Todo
<1> DEFINE forms == BuildPotentials(target, ImplicitExt)
           n == Len(forms)
           Chosen(index) == [i \in DOMAIN forms |->
                                IF IsIndexOf(forms[i], target) = index THEN <<forms[i]>> ELSE <<>>]
           modules == <<Manifest>>
           manifest == <<[path |-> Join(target, modules), manifest |-> TRUE]>>
<1>1. forms \in PathList
  BY SetupType, PotentialsArePaths
<1>2. /\ InPackageDir(target) = Sources(FlattenSeq(Chosen(FALSE))) \o manifest
                                  \o Sources(FlattenSeq(Chosen(TRUE)))
  BY DEF InPackageDir
<1> HIDE DEF forms
<1>3. n \in Nat /\ DOMAIN forms = 1 .. n /\ \A i \in 1 .. n : forms[i] \in Given
  BY <1>1, LenProperties, ElementOfSeq DEF PathList
<1> HIDE DEF n
<1>4. ASSUME NEW index \in BOOLEAN PROVE Sources(FlattenSeq(Chosen(index))) \in Todo
  <2> DEFINE chosen == Chosen(index)
  <2>1. \A i \in 1 .. n : <<forms[i]>> \in Seq(Given) /\ <<>> \in Seq(Given)
    BY <1>3, EmptySeq
  <2>2. chosen \in [1 .. n -> Seq(Given)]
    BY <1>3, <2>1
  <2> HIDE DEF chosen
  <2>3. FlattenSeq(chosen) \in PathList
    BY <1>3, <2>2, FlattenIsSeq DEF PathList
  <2>4. Sources(FlattenSeq(chosen)) \in Todo
    BY <2>3, SourcesAreTasks
  <2>5. QED
    BY <2>4 DEF chosen
<1>5. modules \in Path /\ target \in Seq(Segment)
  BY SpecialSegments, SingleSegments DEF Path
<1> HIDE DEF modules, Chosen
<1>6. Join(target, modules) \in Given
  BY <1>5, JoinIsGiven
<1>7. manifest \in Todo
  <2> DEFINE task == [path |-> Join(target, modules), manifest |-> TRUE]
  <2>1. task \in Task
    BY <1>6 DEF Task
  <2> HIDE DEF task
  <2>2. <<task>> \in Todo
    BY <2>1 DEF Todo
  <2>3. QED
    BY <2>2 DEF task
<1> HIDE DEF manifest
<1> DEFINE before == Sources(FlattenSeq(Chosen(FALSE)))
           after == Sources(FlattenSeq(Chosen(TRUE)))
<1>8. before \in Todo /\ after \in Todo
  BY <1>4
<1>9. InPackageDir(target) = before \o manifest \o after
  BY <1>2
<1> HIDE DEF before, after
<1>10. before \o manifest \in Todo
  BY <1>7, <1>8, ConcatProperties DEF Todo
<1>11. QED
  BY <1>8, <1>9, <1>10, ConcatProperties DEF Todo

LEMMA PackageTasksAreTasks ==
    ASSUME setup \in Setups, NEW reference \in Path
    PROVE  PackageTasks(reference) \in Todo
<1> DEFINE folders == Folders
           n == Len(folders)
           each == [i \in DOMAIN folders |-> InPackageDir(Join(folders[i], reference))]
<1>1. PackageTasks(reference) = FlattenSeq(each)
  BY DEF PackageTasks
<1>2. folders \in PathList
  BY FoldersArePaths
<1> HIDE DEF folders
<1>3. n \in Nat /\ DOMAIN folders = 1 .. n
  BY <1>2, LenProperties DEF PathList
<1>4. ASSUME NEW i \in 1 .. n PROVE InPackageDir(Join(folders[i], reference)) \in Seq(Task)
  <2>1. folders[i] \in Seq(Segment)
    BY <1>2, ElementOfSeq DEF PathList, Given, Path
  <2>2. Join(folders[i], reference) \in Path
    BY <2>1, JoinIsGiven DEF Given
  <2>3. QED
    BY <2>2, InPackageDirIsTasks DEF Todo
<1> HIDE DEF n
<1>5. each \in [1 .. n -> Seq(Task)]
  BY <1>3, <1>4
<1> HIDE DEF each
<1>6. QED
  BY <1>1, <1>3, <1>5, FlattenIsSeq DEF Todo

LEMMA MainTasksAreTasks ==
    ASSUME setup \in Setups, NEW manifest \in Path, NEW main \in Path
    PROVE  MainTasks(manifest, main) \in Todo
<1>1. Front(manifest) \in Seq(Segment)
  BY FrontOf DEF Path
<1>2. Join(Front(manifest), main) \in Path /\ ImplicitExt \in Seq(Parts)
  BY <1>1, JoinIsGiven, SetupType DEF Given
<1>3. BuildPotentials(Join(Front(manifest), main), ImplicitExt) \in PathList
  BY <1>2, PotentialsArePaths
<1>4. QED
  BY <1>3, SourcesAreTasks DEF MainTasks

LEMMA TasksAreTasks ==
    ASSUME setup \in Setups, NEW base \in Path, NEW reference \in Path
    PROVE  Tasks(base, reference) \in Todo
<1>1. /\ Sources(FileCandidates(base, reference)) \in Todo
      /\ Sources(RelativeCandidates(base, reference)) \in Todo
      /\ KeyTasks(base, reference) \in Todo
  BY CandidatesArePaths, SourcesAreTasks DEF KeyTasks
<1>2. PackageTasks(reference) \in Todo /\ <<>> \in Todo
  BY PackageTasksAreTasks, EmptySeq DEF Todo
<1>3. QED
  BY <1>1, <1>2 DEF Tasks

(***************************************************************************)
(* Following links.                                                        *)
(***************************************************************************)
LEMMA LinksOfLonger ==
    ASSUME setup \in Setups, NEW q \in Seq(Segment), NEW x \in Segment
    PROVE  /\ LinksOn(q) \subseteq LinksOn(Append(q, x))
           /\ \A i \in LinksOn(Append(q, x)) \ LinksOn(q) :
                 i = Len(q) + 1 /\ Append(q, x) \in DOMAIN Links
           /\ \A i \in 1 .. Len(q) : SubSeq(Append(q, x), 1, i) = SubSeq(q, 1, i)
<1> DEFINE n == Len(q)
           a == Append(q, x)
<1>1. n \in Nat /\ (\A i \in 1 .. n : q[i] \in Segment)
  BY LenProperties, ElementOfSeq
<1>2. a \in Seq(Segment) /\ Len(a) = n + 1 /\ \A i \in 1 .. n : a[i] = q[i]
  BY AppendTo
<1>3. SubSeq(a, 1, n + 1) = a
  BY <1>2, SubSeqFull
<1>4. \A i \in 1 .. n : SubSeq(a, 1, i) = SubSeq(q, 1, i)
  <2> SUFFICES ASSUME NEW i \in 1 .. n PROVE SubSeq(a, 1, i) = SubSeq(q, 1, i)
    OBVIOUS
  <2>1. a = q \o <<x>> /\ <<x>> \in Seq(Segment)
    BY AppendIsConcat
  <2>2. 1 \in 1 .. n
    BY <1>1
  <2> DEFINE t == <<x>>
  <2> HIDE DEF t, a
  <2>3. SubSeq(q \o t, 1, i) = SubSeq(q, 1, i)
    BY <2>1, <2>2, SubSeqOfConcat1 DEF t
  <2>4. QED
    BY <2>1, <2>3 DEF t
<1> HIDE DEF n, a
<1>5. LinksOn(q) = {i \in 1 .. n : SubSeq(q, 1, i) \in DOMAIN Links}
  BY DEF LinksOn, n
<1>6. LinksOn(a) = {i \in 1 .. n + 1 : SubSeq(a, 1, i) \in DOMAIN Links}
  BY <1>2 DEF LinksOn
<1>7. LinksOn(q) \subseteq LinksOn(a)
  <2> SUFFICES ASSUME NEW i \in LinksOn(q) PROVE i \in LinksOn(a)
    OBVIOUS
  <2>1. i \in 1 .. n /\ SubSeq(q, 1, i) \in DOMAIN Links
    BY <1>5
  <2>2. SubSeq(a, 1, i) = SubSeq(q, 1, i)
    BY <1>4, <2>1
  <2>3. SubSeq(a, 1, i) \in DOMAIN Links
    BY Zenon, <2>1, <2>2
  <2>4. i \in 1 .. n + 1
    BY <1>1, <2>1
  <2>5. QED
    BY <1>6, <2>3, <2>4
<1>8. ASSUME NEW i \in LinksOn(a), i \notin LinksOn(q)
      PROVE  i = n + 1 /\ a \in DOMAIN Links
  <2>1. i \in 1 .. n + 1 /\ SubSeq(a, 1, i) \in DOMAIN Links
    BY <1>6
  <2>2. i \notin 1 .. n
    BY <1>4, <1>5, <1>8, <2>1
  <2>3. i = n + 1
    BY <1>1, <2>1, <2>2
  <2>4. QED
    BY <1>3, <2>1, <2>3
<1>9. QED
  BY <1>4, <1>7, <1>8 DEF a, n

LEMMA HopIsPlace ==
    ASSUME setup \in Setups, NEW q \in Seq(Segment)
    PROVE  /\ Hop(q) \in Seq(Segment)
           /\ LinksOn(q) = {} => Hop(q) = q
           /\ LinksOn(q) # {} =>
                \E i \in LinksOn(q) :
                   /\ \A k \in LinksOn(q) : i <= k
                   /\ Hop(q) = Links[SubSeq(q, 1, i)] \o SubSeq(q, i + 1, Len(q))
                   /\ Links[SubSeq(q, 1, i)] \in Seq(Segment)
                   /\ SubSeq(q, i + 1, Len(q)) \in Seq(Segment)
<1>1. CASE LinksOn(q) = {}
  BY <1>1 DEF Hop
<1>2. CASE LinksOn(q) # {}
  <2> DEFINE K == LinksOn(q)
             i == CHOOSE j \in K : \A k \in K : j <= k
  <2>1. K \in SUBSET Nat
    BY DEF LinksOn
  <2>2. \A j \in K : SubSeq(q, 1, j) \in DOMAIN Links /\ j \in 1 .. Len(q)
    BY DEF LinksOn
  <2>3. Hop(q) = Links[SubSeq(q, 1, i)] \o SubSeq(q, i + 1, Len(q))
    BY <1>2 DEF Hop
  <2> HIDE DEF K
  <2>4. \E j \in K : \A k \in K : j <= k
    BY <1>2, <2>1, LeastElement DEF K
  <2>5. i \in K /\ \A k \in K : i <= k
    BY <2>4
  <2> HIDE DEF i
  <2>6. Links[SubSeq(q, 1, i)] \in Seq(Segment)
    BY <2>2, <2>5, SetupType
  <2>7. SubSeq(q, i + 1, Len(q)) \in Seq(Segment)
    <3>1. i + 1 \in Int /\ Len(q) \in Int /\ \A j \in i + 1 .. Len(q) : q[j] \in Segment
      BY <2>2, <2>5, LenProperties, ElementOfSeq
    <3> DEFINE m == i + 1
               n == Len(q)
    <3>2. m \in Int /\ n \in Int /\ \A j \in m .. n : q[j] \in Segment
      BY <3>1
    <3> HIDE DEF m, n
    <3>3. SubSeq(q, m, n) \in Seq(Segment)
      BY <3>2, SubSeqProperties
    <3>4. QED
      BY <3>3 DEF m, n
  <2>8. Hop(q) \in Seq(Segment)
    BY <2>3, <2>6, <2>7, ConcatProperties
  <2>9. QED
    BY <1>2, <2>3, <2>5, <2>6, <2>7, <2>8 DEF K
<1>3. QED
  BY <1>1, <1>2

\* The links on the way to a folder are followed before what is in it.
LEMMA HopInFolder ==
    ASSUME setup \in Setups, NEW q \in Seq(Segment), NEW x \in Segment, LinksOn(q) # {}
    PROVE  Hop(Append(q, x)) = Append(Hop(q), x)
<1> DEFINE n == Len(q)
           a == Append(q, x)
<1>1. n \in Nat /\ a \in Seq(Segment) /\ Len(a) = n + 1 /\ LinksOn(q) \subseteq 1 .. n
  BY LenProperties, AppendTo DEF LinksOn
<1>2. PICK i \in LinksOn(q) :
         /\ \A k \in LinksOn(q) : i <= k
         /\ Hop(q) = Links[SubSeq(q, 1, i)] \o SubSeq(q, i + 1, n)
         /\ Links[SubSeq(q, 1, i)] \in Seq(Segment)
         /\ SubSeq(q, i + 1, n) \in Seq(Segment)
  BY HopIsPlace
<1>3. LinksOn(a) # {}
  BY LinksOfLonger
<1>4. PICK j \in LinksOn(a) :
         /\ \A k \in LinksOn(a) : j <= k
         /\ Hop(a) = Links[SubSeq(a, 1, j)] \o SubSeq(a, j + 1, n + 1)
  BY <1>1, <1>3, HopIsPlace
<1>5. j = i /\ i \in 1 .. n
  <2>1. i \in LinksOn(a) /\ j <= i /\ i \in 1 .. n
    BY <1>1, <1>2, <1>4, LinksOfLonger
  <2>2. j \in LinksOn(q)
    BY <1>1, <1>4, <2>1, LinksOfLonger
  <2>3. QED
    BY <1>1, <1>2, <2>1, <2>2
<1>6. SubSeq(a, 1, i) = SubSeq(q, 1, i)
  BY <1>5, LinksOfLonger
<1>7. SubSeq(a, i + 1, n + 1) = Append(SubSeq(q, i + 1, n), x)
  <2> DEFINE m == i + 1
             l == n + 1
             r == SubSeq(q, m, n)
             u == SubSeq(a, m, l)
  <2>1. m \in Int /\ n \in Int /\ l \in Int /\ m = i + 1 /\ l = n + 1 /\ i \in 1 .. n
    BY <1>1, <1>5
  <2>2. /\ \A k \in m .. n : q[k] \in Segment
        /\ \A k \in m .. l : a[k] \in Segment
        /\ \A k \in 1 .. n : a[k] = q[k]
        /\ a[l] = x
    BY <1>1, <2>1, ElementOfSeq, AppendTo
  <2> HIDE DEF n, a, m, l
  <2>3. /\ r \in Seq(Segment) /\ Len(r) = IF m <= n THEN n - m + 1 ELSE 0
        /\ \A k \in 1 .. n - m + 1 : r[k] = q[m + k - 1]
    BY <2>1, <2>2, SubSeqProperties
  <2>4. /\ u \in Seq(Segment) /\ Len(u) = IF m <= l THEN l - m + 1 ELSE 0
        /\ \A k \in 1 .. l - m + 1 : u[k] = a[m + k - 1]
    BY <2>1, <2>2, SubSeqProperties
  <2> HIDE DEF r, u
  <2>5. Len(r) = n - i /\ Len(u) = (n - i) + 1 /\ n - m + 1 = n - i /\ l - m + 1 = (n - i) + 1
    BY <2>1, <2>3, <2>4
  <2>6. /\ Append(r, x) \in Seq(Segment) /\ Len(Append(r, x)) = (n - i) + 1
        /\ Append(r, x)[(n - i) + 1] = x
        /\ \A k \in 1 .. n - i : Append(r, x)[k] = r[k]
    BY <2>3, <2>5, AppendTo
  <2>7. ASSUME NEW k \in 1 .. (n - i) + 1 PROVE u[k] = Append(r, x)[k]
    <3>1. CASE k = (n - i) + 1
      <4>1. m + k - 1 = l
        BY <2>1, <3>1
      <4>2. u[k] = a[l]
        BY <2>4, <2>5, <4>1
      <4>3. QED
        BY <2>2, <2>6, <3>1, <4>2
    <3>2. CASE k # (n - i) + 1
      <4>1. k \in 1 .. n - i /\ m + k - 1 \in 1 .. n
        BY <2>1, <3>2
      <4>2. u[k] = a[m + k - 1] /\ r[k] = q[m + k - 1]
        BY <2>3, <2>4, <2>5, <4>1
      <4>3. QED
        BY <2>2, <2>6, <4>1, <4>2
    <3>3. QED
      BY <3>1, <3>2
  <2>8. u = Append(r, x)
    BY <2>4, <2>5, <2>6, <2>7, SeqEqual
  <2>9. QED
    BY <2>8 DEF u, r, m, l
<1> DEFINE s == Links[SubSeq(q, 1, i)]
           t == SubSeq(q, i + 1, n)
<1>8. s \in Seq(Segment) /\ t \in Seq(Segment) /\ Hop(q) = s \o t /\ Hop(a) = s \o Append(t, x)
  BY <1>2, <1>4, <1>5, <1>6, <1>7
<1> HIDE DEF s, t, n
<1>9. s \o Append(t, x) = Append(s \o t, x)
  BY <1>8, SegmentsOn, Zenon
<1>10. QED
  BY <1>8, <1>9

LEMMA FollowIsPlace ==
    ASSUME setup \in Setups, NEW q \in Seq(Segment)
    PROVE  /\ Follow(q) \in Seq(Segment)
           /\ LinksOn(q) = {} => Follow(q) = q
<1>1. Hop(q) \in Seq(Segment)
  BY HopIsPlace
<1>2. Hop(Hop(q)) \in Seq(Segment)
  BY <1>1, HopIsPlace
<1>3. Hop(Hop(Hop(q))) \in Seq(Segment)
  BY <1>2, HopIsPlace
<1>4. Hop(Hop(Hop(Hop(q)))) \in Seq(Segment)
  BY <1>3, HopIsPlace
<1>5. ASSUME LinksOn(q) = {} PROVE Follow(q) = q
  <2>1. Hop(q) = q
    BY <1>5, HopIsPlace
  <2>2. QED
    BY <2>1 DEF Follow
<1>6. QED
  BY <1>4, <1>5 DEF Follow

(***************************************************************************)
(* Where a folder really is, what is in it really is, unless that is a     *)
(* link.                                                                   *)
(***************************************************************************)
LEMMA FollowInFolder ==
    ASSUME setup \in Setups, NEW q \in Seq(Segment), NEW x \in Segment,
           LinksOn(Follow(q)) = {}, Append(Follow(q), x) \notin DOMAIN Links
    PROVE  /\ Follow(Append(q, x)) = Append(Follow(q), x)
           /\ LinksOn(Append(Follow(q), x)) = {}
<1> DEFINE h1 == Hop(q)
           h2 == Hop(h1)
           h3 == Hop(h2)
           h4 == Hop(h3)
<1>1. Follow(q) = h4 /\ Follow(Append(q, x)) = Hop(Hop(Hop(Hop(Append(q, x)))))
  BY DEF Follow
<1>2. h1 \in Seq(Segment) /\ (LinksOn(q) = {} => h1 = q)
  BY HopIsPlace
<1> HIDE DEF h1
<1>3. h2 \in Seq(Segment) /\ (LinksOn(h1) = {} => h2 = h1)
  BY <1>2, HopIsPlace
<1> HIDE DEF h2
<1>4. h3 \in Seq(Segment) /\ (LinksOn(h2) = {} => h3 = h2)
  BY <1>3, HopIsPlace
<1> HIDE DEF h3
<1>5. h4 \in Seq(Segment) /\ (LinksOn(h3) = {} => h4 = h3)
  BY <1>4, HopIsPlace
<1> HIDE DEF h4
<1>6. LinksOn(Append(h4, x)) = {}
  <2>1. LinksOn(h4) = {} /\ Append(h4, x) \notin DOMAIN Links
    BY <1>1
  <2>2. QED
    BY <1>5, <2>1, LinksOfLonger
<1>7. Append(h4, x) \in Seq(Segment)
  BY <1>5, AppendTo
<1>8. Hop(Append(h4, x)) = Append(h4, x)
  BY <1>6, <1>7, HopIsPlace
<1>9. Hop(Append(q, x)) = Append(h1, x)
  <2>1. CASE LinksOn(q) = {}
    <3>1. h1 = q
      BY <1>2, <2>1
    <3>2. h2 = h1 /\ h3 = h2 /\ h4 = h3
      BY <1>3, <1>4, <1>5, <2>1, <3>1
    <3>3. QED
      BY <1>8, <3>1, <3>2
  <2>2. CASE LinksOn(q) # {}
    BY <2>2, HopInFolder DEF h1
  <2>3. QED
    BY <2>1, <2>2
<1>10. Hop(Append(h1, x)) = Append(h2, x)
  <2>1. CASE LinksOn(h1) = {}
    <3>1. h2 = h1 /\ h3 = h2 /\ h4 = h3
      BY <1>3, <1>4, <1>5, <2>1
    <3>2. QED
      BY <1>8, <3>1
  <2>2. CASE LinksOn(h1) # {}
    BY <1>2, <2>2, HopInFolder DEF h2
  <2>3. QED
    BY <2>1, <2>2
<1>11. Hop(Append(h2, x)) = Append(h3, x)
  <2>1. CASE LinksOn(h2) = {}
    <3>1. h3 = h2 /\ h4 = h3
      BY <1>4, <1>5, <2>1
    <3>2. QED
      BY <1>8, <3>1
  <2>2. CASE LinksOn(h2) # {}
    BY <1>3, <2>2, HopInFolder DEF h3
  <2>3. QED
    BY <2>1, <2>2
<1>12. Hop(Append(h3, x)) = Append(h4, x)
  <2>1. CASE LinksOn(h3) = {}
    BY <1>5, <1>8, <2>1
  <2>2. CASE LinksOn(h3) # {}
    BY <1>4, <2>2, HopInFolder DEF h4
  <2>3. QED
    BY <2>1, <2>2
<1>13. QED
  BY <1>1, <1>6, <1>9, <1>10, <1>11, <1>12

(***************************************************************************)
(* real_path was right to put the rest of a path back as it is written:    *)
(* a prefix with no link past it.                                          *)
(***************************************************************************)
Cleared(goal, n) ==
    LET real == Follow(SubSeq(goal, 1, n - 1)) IN
    LinksOn(real) = {} => Append(real, goal[n]) \notin DOMAIN Links

LEMMA PrefixOf ==
    ASSUME NEW S, NEW s \in Seq(S), NEW n \in 0 .. Len(s)
    PROVE  /\ SubSeq(s, 1, n) \in Seq(S) /\ Len(SubSeq(s, 1, n)) = n
           /\ \A i \in 1 .. n : SubSeq(s, 1, n)[i] = s[i]
           /\ n > 0 => /\ SubSeq(s, 1, n) = Append(SubSeq(s, 1, n - 1), s[n])
                       /\ SubSeq(s, 1, n) # <<>>
                       /\ Front(SubSeq(s, 1, n)) = SubSeq(s, 1, n - 1)
                       /\ Last(SubSeq(s, 1, n)) = s[n]
                       /\ s[n] \in S
<1>1. n \in Int /\ \A i \in 1 .. Len(s) : s[i] \in S
  BY LenProperties, ElementOfSeq
<1>2. ASSUME NEW m \in 0 .. Len(s)
      PROVE  /\ SubSeq(s, 1, m) \in Seq(S) /\ Len(SubSeq(s, 1, m)) = m
             /\ \A i \in 1 .. m : SubSeq(s, 1, m)[i] = s[i]
  <2> DEFINE b == 1
             u == SubSeq(s, b, m)
  <2>1. b \in Int /\ m \in Int /\ b = 1 /\ Len(s) \in Nat /\ m \in 0 .. Len(s)
    BY LenProperties
  <2>2. \A i \in b .. m : s[i] \in S
    BY <1>1, <2>1
  <2> HIDE DEF b
  <2>3. /\ u \in Seq(S) /\ Len(u) = IF b <= m THEN m - b + 1 ELSE 0
        /\ \A i \in 1 .. m - b + 1 : u[i] = s[b + i - 1]
    BY <2>1, <2>2, SubSeqProperties
  <2> HIDE DEF u
  <2>4. Len(u) = m /\ m - b + 1 = m
    BY <2>1, <2>3
  <2>5. \A i \in 1 .. m : b + i - 1 = i
    BY <2>1
  <2>6. QED
    BY <2>3, <2>4, <2>5 DEF u, b
<1>3. ASSUME n > 0
      PROVE  /\ SubSeq(s, 1, n) = Append(SubSeq(s, 1, n - 1), s[n])
             /\ SubSeq(s, 1, n) # <<>>
             /\ Front(SubSeq(s, 1, n)) = SubSeq(s, 1, n - 1)
             /\ Last(SubSeq(s, 1, n)) = s[n]
             /\ s[n] \in S
  <2> DEFINE m == n - 1
             p == SubSeq(s, 1, n)
             r == SubSeq(s, 1, m)
             x == s[n]
  <2>1. m \in 0 .. Len(s) /\ m + 1 = n /\ x \in S /\ m \in Nat
    BY <1>1, <1>3, LenProperties
  <2>2. p \in Seq(S) /\ Len(p) = n /\ \A i \in 1 .. n : p[i] = s[i]
    BY <1>2
  <2> HIDE DEF m
  <2>3. r \in Seq(S) /\ Len(r) = m /\ \A i \in 1 .. m : r[i] = s[i]
    BY <1>2, <2>1
  <2>4. x = s[n]
    OBVIOUS
  <2> HIDE DEF p, r, x
  <2>5. /\ Append(r, x) \in Seq(S) /\ Len(Append(r, x)) = n /\ Append(r, x)[n] = x
        /\ \A i \in 1 .. m : Append(r, x)[i] = r[i]
    BY <2>1, <2>3, AppendTo
  <2>6. \A i \in 1 .. n : p[i] = Append(r, x)[i]
    <3>1. \A i \in 1 .. n : i = n \/ i \in 1 .. m
      BY <2>1
    <3>2. QED
      BY <2>2, <2>3, <2>4, <2>5, <3>1
  <2>7. p = Append(r, x)
    BY <2>2, <2>5, <2>6, SeqEqual
  <2>8. p # <<>>
    BY <2>3, <2>1, <2>7, AppendTo
  <2>9. /\ Front(p) \in Seq(S) /\ Len(Front(p)) = m
        /\ \A i \in 1 .. m : Front(p)[i] = p[i]
        /\ Last(p) = p[n]
    <3>1. Len(p) = n /\ n - 1 = m
      BY <2>1, <2>2
    <3>2. QED
      BY <2>2, <2>8, <3>1, FrontOf
  <2>10. \A i \in 1 .. m : i \in 1 .. n
    BY <2>1
  <2>11. Front(p) = r
    BY <2>2, <2>3, <2>9, <2>10, SeqEqual
  <2>12. Last(p) = x
    <3>1. n \in 1 .. n
      BY <1>3, <1>1
    <3>2. QED
      BY <2>2, <2>4, <2>9, <3>1
  <2>13. QED
    BY <2>1, <2>7, <2>8, <2>11, <2>12 DEF p, r, x, m
<1>4. QED
  BY <1>2, <1>3

LEMMA FollowSplit ==
    ASSUME setup \in Setups, NEW goal \in Seq(Segment), NEW reach \in 0 .. Len(goal),
           \A n \in reach + 1 .. Len(goal) : Cleared(goal, n),
           LinksOn(Follow(SubSeq(goal, 1, reach))) = {}
    PROVE  /\ Follow(goal) = Follow(SubSeq(goal, 1, reach)) \o SubSeq(goal, reach + 1, Len(goal))
           /\ LinksOn(Follow(goal)) = {}
<1> DEFINE len == Len(goal)
           at == Follow(SubSeq(goal, 1, reach))
           rest(n) == SubSeq(goal, reach + 1, n)
           Split(n) == /\ Follow(SubSeq(goal, 1, n)) = at \o rest(n)
                       /\ LinksOn(Follow(SubSeq(goal, 1, n))) = {}
           T == {k \in Nat : reach + k <= len => Split(reach + k)}
<1>1. len \in Nat /\ reach \in 0 .. len
  BY LenProperties
<1>2. at \in Seq(Segment)
  BY PrefixOf, FollowIsPlace
<1>3. 0 \in T
  <2>1. reach + 0 = reach /\ reach \in Int /\ reach + 1 \in Int /\ reach < reach + 1
    BY <1>1
  <2> DEFINE u == rest(reach)
             l == reach + 1
  <2>2. u = <<>>
    <3>1. l \in Int /\ reach \in Int /\ reach < l
      BY <2>1
    <3> HIDE DEF l
    <3>2. SubSeq(goal, l, reach) = <<>>
      BY <3>1, SubSeqEmpty
    <3>3. QED
      BY <3>2 DEF l
  <2> HIDE DEF u
  <2>3. at \o u = at
    BY <1>2, <2>2, ConcatEmptySeq
  <2>4. Split(reach)
    BY <2>3 DEF u
  <2> HIDE DEF Split
  <2>5. QED
    BY <2>1, <2>4
<1>4. ASSUME NEW k \in T PROVE k + 1 \in T
  <2> HIDE DEF Split
  <2> SUFFICES ASSUME reach + (k + 1) <= len PROVE Split(reach + (k + 1))
    OBVIOUS
  <2> DEFINE m == reach + k
             n == reach + (k + 1)
             before == SubSeq(goal, 1, m)
             x == goal[n]
  <2>1. Follow(before) = at \o rest(m) /\ LinksOn(Follow(before)) = {}
    <3>1. Split(m)
      BY <1>1
    <3>2. QED
      BY <3>1 DEF Split
  <2>2. /\ m \in 0 .. len /\ n \in 0 .. len /\ n > 0 /\ n - 1 = m /\ n \in reach + 1 .. len
        /\ m + 1 = n /\ reach <= m
    BY <1>1
  <2> HIDE DEF n, T
  <2>3. SubSeq(goal, 1, n) = Append(before, x) /\ x \in Segment /\ before \in Seq(Segment)
    BY <2>2, PrefixOf
  <2>4. Append(Follow(before), x) \notin DOMAIN Links
    BY <2>1, <2>2 DEF Cleared
  <2> HIDE DEF before, x
  <2>5. Follow(Append(before, x)) = Append(Follow(before), x) /\ LinksOn(Append(Follow(before), x)) = {}
    BY <2>1, <2>3, <2>4, FollowInFolder
  <2>6. /\ rest(n) = Append(rest(m), x) /\ rest(m) \in Seq(Segment)
    <3> DEFINE l == reach + 1
               u == SubSeq(goal, l, m)
               v == SubSeq(goal, l, n)
    <3>1. l \in Int /\ m \in Int /\ n \in Int /\ 1 <= l /\ l <= n /\ n <= len /\ m + 1 = n
      BY <1>1, <2>2
    <3>2. \A i \in 1 .. len : goal[i] \in Segment
      BY ElementOfSeq
    <3> HIDE DEF m, l, len
    <3>3. /\ u \in Seq(Segment) /\ Len(u) = (IF l <= m THEN m - l + 1 ELSE 0)
          /\ \A i \in 1 .. m - l + 1 : u[i] = goal[l + i - 1]
      <4>1. \A i \in l .. m : goal[i] \in Segment
        BY <1>1, <3>1, <3>2
      <4>2. QED
        BY <3>1, <4>1, SubSeqProperties
    <3>4. /\ v \in Seq(Segment) /\ Len(v) = (IF l <= n THEN n - l + 1 ELSE 0)
          /\ \A i \in 1 .. n - l + 1 : v[i] = goal[l + i - 1]
      <4>1. \A i \in l .. n : goal[i] \in Segment
        BY <1>1, <3>1, <3>2
      <4>2. QED
        BY <3>1, <4>1, SubSeqProperties
    <3> DEFINE w == m - l + 1
    <3>5. Len(u) = w /\ Len(v) = w + 1 /\ n - l + 1 = w + 1 /\ w \in Nat /\ l + (w + 1) - 1 = n
      BY <3>1, <3>3, <3>4
    <3> HIDE DEF u, v, w
    <3>6. /\ \A i \in 1 .. w : u[i] = goal[l + i - 1]
          /\ \A i \in 1 .. w + 1 : v[i] = goal[l + i - 1]
      BY <3>3, <3>4, <3>5 DEF w
    <3>7. /\ Append(u, x) \in Seq(Segment) /\ Len(Append(u, x)) = w + 1 /\ Append(u, x)[w + 1] = x
          /\ \A i \in 1 .. w : Append(u, x)[i] = u[i]
      BY <2>3, <3>3, <3>5, AppendTo
    <3>8. ASSUME NEW i \in 1 .. w + 1 PROVE v[i] = Append(u, x)[i]
      <4>1. CASE i = w + 1
        BY <3>5, <3>6, <3>7, <4>1 DEF x
      <4>2. CASE i # w + 1
        <5>1. i \in 1 .. w
          BY <3>5, <4>2
        <5>2. QED
          BY <3>6, <3>7, <5>1
      <4>3. QED
        BY <4>1, <4>2
    <3>9. v = Append(u, x)
      BY <3>4, <3>5, <3>7, <3>8, SeqEqual
    <3>10. QED
      BY <3>3, <3>9 DEF u, v, l
  <2> DEFINE r == rest(m)
  <2>7. Append(at \o r, x) = at \o Append(r, x)
    <3>1. r \in Seq(Segment)
      BY <2>6
    <3> HIDE DEF r, at
    <3> DEFINE t == <<x>>
    <3>2. t \in Seq(Segment) /\ at \o r \in Seq(Segment)
      BY <1>2, <2>3, <3>1, ConcatProperties
    <3>3. Append(at \o r, x) = (at \o r) \o t /\ Append(r, x) = r \o t
      BY <2>3, <3>1, <3>2, AppendIsConcat
    <3> HIDE DEF t
    <3>4. QED
      BY <1>2, <3>1, <3>2, <3>3, ConcatAssociative
  <2> HIDE DEF r, at
  <2>8. Follow(SubSeq(goal, 1, n)) = at \o rest(n) /\ LinksOn(Follow(SubSeq(goal, 1, n))) = {}
    <3>1. Follow(before) = at \o r /\ rest(n) = Append(r, x)
      BY <2>1, <2>6 DEF r
    <3>2. Append(Follow(before), x) = at \o rest(n)
      BY <2>7, <3>1
    <3>3. QED
      BY <2>3, <2>5, <3>2
  <2>9. Split(n)
    BY <2>8 DEF Split
  <2>10. QED
    BY <2>9 DEF n
<1>5. T = Nat
  <2>1. T \in SUBSET Nat
    OBVIOUS
  <2> HIDE DEF T
  <2>2. QED
    BY <1>3, <1>4, <2>1, NatSetInduction
<1>6. len - reach \in T /\ reach + (len - reach) = len
  <2> HIDE DEF T
  <2>1. QED
    BY <1>1, <1>5
<1>7. Split(len)
  <2> HIDE DEF Split
  <2>1. QED
    BY <1>1, <1>6
<1>8. SubSeq(goal, 1, len) = goal
  BY SubSeqFull
<1>9. QED
  BY <1>7, <1>8

LEMMA PrefixHasNoLinks ==
    ASSUME setup \in Setups, NEW s \in Seq(Segment), NEW t \in Seq(Segment),
           IsPrefix(s, t), LinksOn(t) = {}
    PROVE  LinksOn(s) = {}
<1> DEFINE m == Len(s)
           n == Len(t)
<1>1. m \in Nat /\ n \in Nat /\ m <= n /\ SubSeq(s, 1, m) = SubSeq(t, 1, m)
  BY LenProperties DEF IsPrefix
<1>2. SubSeq(s, 1, m) = s
  BY SubSeqFull
<1>3. ASSUME NEW i \in 1 .. m PROVE SubSeq(s, 1, i) = SubSeq(t, 1, i)
  <2>1. m \in 0 .. n /\ i \in 0 .. n /\ i \in 0 .. m
    BY <1>1
  <2> DEFINE u == SubSeq(s, 1, i)
             v == SubSeq(t, 1, i)
  <2>2. u \in Seq(Segment) /\ Len(u) = i /\ \A k \in 1 .. i : u[k] = s[k]
    BY <2>1, PrefixOf
  <2>3. v \in Seq(Segment) /\ Len(v) = i /\ \A k \in 1 .. i : v[k] = t[k]
    BY <2>1, PrefixOf
  <2>4. \A k \in 1 .. m : s[k] = t[k]
    <3>1. \A k \in 1 .. m : SubSeq(t, 1, m)[k] = t[k]
      BY <2>1, PrefixOf
    <3>2. QED
      BY <1>1, <1>2, <3>1
  <2> HIDE DEF u, v, m
  <2>5. \A k \in 1 .. i : u[k] = v[k]
    <3>1. \A k \in 1 .. i : k \in 1 .. m
      BY <1>1
    <3>2. QED
      BY <2>2, <2>3, <2>4, <3>1
  <2>6. u = v
    BY <2>2, <2>3, <2>5, SeqEqual
  <2>7. QED
    BY <2>6 DEF u, v
<1>4. ASSUME NEW i \in LinksOn(s) PROVE FALSE
  <2>1. i \in 1 .. m /\ SubSeq(s, 1, i) \in DOMAIN Links
    BY DEF LinksOn
  <2>2. SubSeq(s, 1, i) = SubSeq(t, 1, i)
    BY <1>3, <2>1
  <2>3. SubSeq(t, 1, i) \in DOMAIN Links
    BY Zenon, <2>1, <2>2
  <2>4. i \in 1 .. n
    BY <1>1, <2>1
  <2>5. i \in LinksOn(t)
    BY <2>3, <2>4 DEF LinksOn
  <2>6. QED
    BY <2>5
<1>5. QED
  BY <1>4

LEMMA NoLinks ==
    ASSUME setup \in Setups, ~Native, NEW q \in Seq(Segment)
    PROVE  LinksOn(q) = {} /\ Follow(q) = q
<1>1. DOMAIN Links = {}
  BY SetupType
<1>2. LinksOn(q) = {}
  BY <1>1 DEF LinksOn
<1>3. QED
  BY <1>2, FollowIsPlace

LEMMA RootReached ==
    ASSUME setup \in Setups
    PROVE  Reaches(disk, <<>>)
<1> DEFINE q == <<>>
<1>1. q \in Seq(Segment) /\ Len(q) = 0
  BY EmptySeq
<1>2. LinksOn(q) = {}
  BY <1>1 DEF LinksOn
<1>3. Follow(q) = q
  BY <1>1, <1>2, FollowIsPlace
<1>4. IsFolder(disk, q)
  BY DEF IsFolder
<1> HIDE DEF q
<1>5. Reaches(disk, q)
  BY <1>2, <1>3, <1>4 DEF Reaches
<1>6. QED
  BY <1>5 DEF q

\* What a link is in is there, whatever else is: metadata then finds the link.
LEMMA UnoccupiedIsCleared ==
    ASSUME setup \in Setups, NEW goal \in Seq(Segment), NEW n \in 1 .. Len(goal),
           ~Occupied(disk, SubSeq(goal, 1, n))
    PROVE  Cleared(goal, n)
<1> DEFINE p == SubSeq(goal, 1, n)
           before == SubSeq(goal, 1, n - 1)
           x == goal[n]
           real == Follow(before)
<1>1. n \in 0 .. Len(goal) /\ n > 0 /\ n - 1 \in 0 .. Len(goal)
  BY LenProperties
<1>2. p # <<>> /\ Front(p) = before /\ Last(p) = x /\ x \in Segment
  BY <1>1, PrefixOf
<1>3. before \in Seq(Segment)
  BY <1>1, PrefixOf
<1>4. ~Occupied(disk, p)
  OBVIOUS
<1> HIDE DEF p, before
<1>5. real \in Seq(Segment)
  BY <1>3, FollowIsPlace
<1>6. ~(Reaches(disk, before) /\ Append(real, x) \in DOMAIN Links)
  BY <1>2, <1>4 DEF Occupied
<1>7. Cleared(goal, n) <=> (LinksOn(real) = {} => Append(real, x) \notin DOMAIN Links)
  BY DEF Cleared, before
<1>8. ASSUME LinksOn(real) = {}, Append(real, x) \in DOMAIN Links PROVE Reaches(disk, before)
  <2> DEFINE link == Append(real, x)
             m == Len(real)
  <2>1. /\ link \in Seq(Segment) /\ Len(link) = m + 1 /\ m \in Nat
        /\ \A i \in 1 .. m : SubSeq(link, 1, i) = SubSeq(real, 1, i)
    BY <1>2, <1>5, AppendTo, LinksOfLonger, LenProperties
  <2>2. SubSeq(link, 1, m) = SubSeq(real, 1, m)
    <3>1. CASE m \in 1 .. m
      BY <2>1, <3>1
    <3>2. CASE m = 0
      <4> DEFINE b == 1
      <4>1. b \in Int /\ m \in Int /\ m < b
        BY <3>2
      <4> HIDE DEF b, m
      <4>2. SubSeq(link, b, m) = <<>> /\ SubSeq(real, b, m) = <<>>
        BY <4>1, SubSeqEmpty
      <4>3. QED
        BY <4>2 DEF b
    <3>3. QED
      BY <2>1, <3>1, <3>2
  <2>3. real # link
    BY <2>1
  <2>4. IsStrictPrefix(real, link)
    BY <2>1, <2>2, <2>3 DEF IsStrictPrefix, IsPrefix
  <2>5. link \in DOMAIN Links
    BY <1>8
  <2> HIDE DEF link, m
  <2>6. Inside(real) # {}
    BY <2>4, <2>5 DEF Inside
  <2>7. IsFolder(disk, real)
    BY <2>6 DEF IsFolder
  <2>8. QED
    BY <1>8, <2>7 DEF Reaches
<1>9. QED
  BY <1>6, <1>7, <1>8

(***************************************************************************)
(* The inductive invariant.                                                *)
(***************************************************************************)
Outcome == [found : BOOLEAN, full : Path, memory : BOOLEAN, real : Seq(Segment)]

Job == [at : {"done", "canonicalize", "metadata", "base", "read"},
        reference : Path, source : SUBSET Given, base : Path, root : SUBSET Seq(Segment),
        goal : Seq(Segment), reach : Nat, todo : Todo, search : Seq(Path), result : Outcome]

\* A root that has a real path is compared as that, any other as it is written.
IsRootOf(place) == \E root \in Root : place \in {Place(root), Follow(Place(root))}

NextPlace(j) == Place(Head(j.todo).path)

Rooted(j) ==
    /\ \A place \in j.root : IsRootOf(place)
    /\ Root # {} /\ j.root = {} => j.at \in {"done", "canonicalize", "metadata"}

\* What a probe is for, and that nothing it gave up on is a link.
Probed(j) ==
    j.at \in {"canonicalize", "metadata"} =>
        /\ IF j.root = {} THEN \E root \in Root : j.goal = Place(root)
           ELSE j.todo # <<>> /\ j.goal = NextPlace(j)
        /\ \A n \in j.reach + 1 .. Len(j.goal) : Cleared(j.goal, n)
        /\ j.at = "metadata" => Native /\ j.reach # 0

Confined(j) ==
    j.at = "read" => \A place \in j.root : IsPrefix(place, Follow(NextPlace(j)))

JobOK(j) ==
    /\ j \in Job
    /\ j.reach \in 0 .. Len(j.goal)
    /\ j.at = "read" => j.todo # <<>>
    /\ j.result.found => j.at = "done" /\ j.result.full \in Given
    /\ Rooted(j) /\ Probed(j) /\ Confined(j)

ScanTask == [folder : BOOLEAN, path : Path, depth : 0 .. MAX_SCAN_DEPTH + 1]

IInv ==
    /\ setup \in Setups /\ filemap \subseteq Path
    /\ disk \subseteq Placeable \cup Fixed /\ steady \subseteq disk
    /\ scan \in Seq(ScanTask)
    /\ JobOK(job)

\* Where things are does not change, and so neither does what JobOK says of a job.
LEMMA PlacesStay ==
    ASSUME setup' = setup
    PROVE  /\ \A path : Place(path)' = Place(path)
           /\ \A place : LinksOn(place)' = LinksOn(place)
           /\ \A place : Follow(place)' = Follow(place)
           /\ \A goal, n : Cleared(goal, n)' = Cleared(goal, n)
           /\ Links' = Links /\ Root' = Root /\ Native' = Native
<1>1. Links' = Links /\ Root' = Root /\ Native' = Native
  BY DEF Links, Root, Native
<1>2. ASSUME NEW path PROVE Place(path)' = Place(path)
  BY <1>1 DEF Place
<1>3. ASSUME NEW place PROVE LinksOn(place)' = LinksOn(place)
  BY <1>1 DEF LinksOn
<1>4. ASSUME NEW place PROVE Hop(place)' = Hop(place)
  BY DEF Hop, LinksOn, Links
<1>5. ASSUME NEW place PROVE Follow(place)' = Follow(place)
  BY <1>4 DEF Follow
<1>6. ASSUME NEW goal, NEW n PROVE Cleared(goal, n)' = Cleared(goal, n)
  BY <1>1, <1>3, <1>5 DEF Cleared
<1>7. QED
  BY <1>1, <1>2, <1>3, <1>5, <1>6

LEMMA JobStaysOK ==
    ASSUME setup' = setup, JobOK(job')
    PROVE  JobOK(job)'
<1>1. job' \in Job
  BY DEF JobOK
<1>2. Rooted(job)'
  <2>1. \A place \in job'.root : IsRootOf(place)
    BY DEF JobOK, Rooted
  <2>2. Root # {} /\ job'.root = {} => job'.at \in {"done", "canonicalize", "metadata"}
    BY DEF JobOK, Rooted
  <2>3. QED
    BY <2>1, <2>2, PlacesStay DEF Rooted, IsRootOf
<1>3. Probed(job)'
  BY PlacesStay DEF JobOK, Probed, NextPlace
<1>4. Confined(job)'
  BY PlacesStay DEF JobOK, Confined, NextPlace
<1>5. QED
  BY <1>1, <1>2, <1>3, <1>4 DEF JobOK

(***************************************************************************)
(* A probe, and the search of the next candidate.                          *)
(***************************************************************************)
LEMMA ProbingIsOK ==
    ASSUME setup \in Setups, NEW j \in Job, NEW path \in Path, ~j.result.found,
           \A place \in j.root : IsRootOf(place),
           IF j.root = {} THEN path \in Root
           ELSE j.todo # <<>> /\ path = Head(j.todo).path
    PROVE  JobOK(Probing(j, path))
<1> DEFINE k == Probing(j, path)
           goal == Place(path)
           n == Len(goal)
<1>1. goal \in Seq(Segment)
  BY PlaceIsPlace
<1>2. n \in Nat /\ n + 1 .. n = {}
  BY <1>1, LenProperties
<1>3. k = [j EXCEPT !.at = "canonicalize", !.goal = goal, !.reach = n]
  BY DEF Probing, Probe
<1> HIDE DEF k
<1>4. /\ k.at = "canonicalize" /\ k.goal = goal /\ k.reach = n
      /\ k.root = j.root /\ k.todo = j.todo /\ k.result = j.result
  BY <1>3 DEF Job
<1>5. k \in Job
  <2> HIDE DEF goal, n
  <2>1. QED
    BY <1>1, <1>2, <1>3 DEF Job
<1>6. Rooted(k)
  BY <1>4 DEF Rooted
<1>7. Probed(k)
  <2>1. IF k.root = {} THEN \E root \in Root : k.goal = Place(root)
        ELSE k.todo # <<>> /\ k.goal = NextPlace(k)
    BY <1>4 DEF NextPlace
  <2>2. k.reach + 1 .. Len(k.goal) = {}
    BY <1>2, <1>4
  <2>3. QED
    BY <1>4, <2>1, <2>2 DEF Probed
<1>8. Confined(k)
  BY <1>4 DEF Confined
<1>9. k.reach \in 0 .. Len(k.goal)
  BY <1>2, <1>4
<1>10. QED
  BY <1>4, <1>5, <1>6, <1>7, <1>8, <1>9 DEF JobOK, k

LEMMA SeekIsOK ==
    ASSUME setup \in Setups, NEW j \in Job, ~j.result.found,
           \A place \in j.root : IsRootOf(place), Root # {} => j.root # {},
           j.reach \in 0 .. Len(j.goal)
    PROVE  JobOK(Seek(j))
<1>1. CASE j.todo = <<>>
  <2> DEFINE k == [j EXCEPT !.at = "done"]
  <2>1. /\ k.at = "done" /\ k.root = j.root /\ k.goal = j.goal /\ k.reach = j.reach
        /\ k.result = j.result
    BY DEF Job
  <2>2. k \in Job
    BY DEF Job
  <2>3. Seek(j) = k
    BY <1>1 DEF Seek
  <2> HIDE DEF k
  <2>4. JobOK(k)
    BY <2>1, <2>2 DEF JobOK, Rooted, Probed, Confined
  <2>5. QED
    BY <2>3, <2>4
<1>2. CASE j.todo # <<>>
  <2> DEFINE path == Head(j.todo).path
             search == IF ByPackage(j.reference) THEN Append(j.search, path) ELSE j.search
             next == [j EXCEPT !.at = "read", !.search = search]
  <2>1. path \in Path
    <3>1. Head(j.todo) \in Task
      BY <1>2, HeadTailProperties DEF Job, Todo
    <3>2. QED
      BY <3>1 DEF Task, Given
  <2>2. search \in Seq(Path)
    <3>1. j.search \in Seq(Path)
      BY DEF Job
    <3> HIDE DEF path
    <3>2. QED
      BY <2>1, <3>1, AppendTo
  <2>3. Seek(j) = IF j.root = {} THEN next ELSE Probing(next, path)
    BY <1>2 DEF Seek
  <2> HIDE DEF search
  <2>4. next \in Job
    BY <2>2 DEF Job
  <2>5. /\ next.at = "read" /\ next.root = j.root /\ next.todo = j.todo /\ next.goal = j.goal
        /\ next.reach = j.reach /\ next.result = j.result
    BY DEF Job
  <2> HIDE DEF next
  <2>6. CASE j.root = {}
    <3>1. JobOK(next)
      BY <1>2, <2>4, <2>5, <2>6 DEF JobOK, Rooted, Probed, Confined
    <3>2. QED
      BY <2>3, <2>6, <3>1
  <2>7. CASE j.root # {}
    <3>1. next.root # {} /\ next.todo # <<>> /\ path = Head(next.todo).path /\ ~next.result.found
      BY <1>2, <2>5, <2>7
    <3>2. \A place \in next.root : IsRootOf(place)
      BY <2>5
    <3> HIDE DEF path
    <3>3. JobOK(Probing(next, path))
      BY <2>1, <2>4, <3>1, <3>2, ProbingIsOK
    <3>4. QED
      BY <2>3, <2>7, <3>3
  <2>8. QED
    BY <2>6, <2>7
<1>3. QED
  BY <1>1, <1>2

LEMMA PathsOfIsPaths ==
    ASSUME NEW tasks \in Todo
    PROVE  PathsOf(tasks) \in Seq(Path)
<1> DEFINE n == Len(tasks)
<1>1. n \in Nat /\ DOMAIN tasks = 1 .. n
  BY LenProperties DEF Todo
<1>2. ASSUME NEW i \in 1 .. n PROVE tasks[i].path \in Path
  <2>1. tasks[i] \in Task
    BY ElementOfSeq DEF Todo
  <2>2. QED
    BY <2>1 DEF Task, Given
<1> HIDE DEF n
<1>3. PathsOf(tasks) \in [1 .. n -> Path]
  BY <1>1, <1>2 DEF PathsOf
<1>4. QED
  BY <1>1, <1>3, FunctionIsSeq

LEMMA SkipIsOK ==
    ASSUME setup \in Setups, NEW j \in Job, j.todo # <<>>, ~j.result.found,
           \A place \in j.root : IsRootOf(place), Root # {} => j.root # {},
           j.reach \in 0 .. Len(j.goal)
    PROVE  JobOK(Skip(j))
<1> DEFINE search == IF ~Packages /\ Len(j.search) = 1 THEN PathsOf(j.todo) ELSE j.search
           todo == Tail(j.todo)
           k == [j EXCEPT !.todo = todo, !.search = search]
<1>1. Skip(j) = Seek(k)
  BY DEF Skip
<1>2. j.todo \in Todo /\ j.search \in Seq(Path)
  BY DEF Job
<1>3. todo \in Todo
  BY <1>2, HeadTailProperties DEF Todo
<1>4. search \in Seq(Path)
  BY <1>2, PathsOfIsPaths
<1> HIDE DEF todo, search
<1>5. k \in Job
  BY <1>3, <1>4 DEF Job
<1>6. k.root = j.root /\ k.goal = j.goal /\ k.reach = j.reach /\ k.result = j.result
  BY DEF Job
<1> HIDE DEF k
<1>7. JobOK(Seek(k))
  <2>1. /\ ~k.result.found /\ (\A place \in k.root : IsRootOf(place))
        /\ (Root # {} => k.root # {}) /\ k.reach \in 0 .. Len(k.goal)
    BY <1>6
  <2>2. QED
    BY <1>5, <2>1, SeekIsOK
<1>8. QED
  BY <1>1, <1>7

(***************************************************************************)
(* Every step of a resolution keeps JobOK.                                 *)
(***************************************************************************)
LEMMA FreshIsOK ==
    ASSUME NEW reference \in Path, NEW source \in SUBSET Given
    PROVE  LET fresh == Fresh(reference, source) IN
           /\ fresh \in Job /\ ~fresh.result.found
           /\ fresh.root = {} /\ fresh.reach = 0 /\ fresh.goal = <<>> /\ fresh.at = "base"
<1> DEFINE none == <<>>
           nothing == [found |-> FALSE, full |-> EmptyPath, memory |-> FALSE, real |-> none]
           fresh == [at |-> "base", reference |-> reference, source |-> source, base |-> EmptyPath,
                     root |-> {}, goal |-> none, reach |-> 0, todo |-> none, search |-> none,
                     result |-> nothing]
<1>1. Fresh(reference, source) = fresh
  BY DEF Fresh, Unfound
<1>2. EmptyPath \in Path /\ none \in Seq(Segment) /\ none \in Todo /\ none \in Seq(Path)
  BY SingleSegments, EmptySeq DEF Todo
<1> HIDE DEF none
<1>3. nothing \in Outcome /\ ~nothing.found
  BY <1>2 DEF Outcome
<1> HIDE DEF nothing
<1>4. fresh \in Job
  BY <1>2, <1>3 DEF Job
<1>5. /\ fresh.result = nothing /\ fresh.root = {} /\ fresh.reach = 0 /\ fresh.goal = none
      /\ fresh.at = "base"
  OBVIOUS
<1> HIDE DEF fresh
<1>6. QED
  BY <1>1, <1>3, <1>4, <1>5 DEF none

LEMMA BeginIsOK ==
    ASSUME setup \in Setups, JobOK(job), Begin
    PROVE  JobOK(job')
<1>1. PICK reference \in References,
           source \in {{}} \cup (IF job.result.found THEN {{job.result.full}} ELSE {}) :
         LET fresh == Fresh(reference, source) IN
         job' = IF Root = {} THEN fresh ELSE Probing(fresh, CHOOSE root \in Root : TRUE)
  BY DEF Begin
<1> DEFINE fresh == Fresh(reference, source)
           path == CHOOSE root \in Root : TRUE
<1>2. reference \in Path /\ source \in SUBSET Given
  <2>1. job.result.found => job.result.full \in Given
    BY DEF JobOK
  <2>2. QED
    BY <2>1, SetupType
<1>3. /\ fresh \in Job /\ ~fresh.result.found /\ fresh.root = {} /\ fresh.reach = 0
      /\ fresh.goal = <<>> /\ fresh.at = "base"
  BY <1>2, FreshIsOK
<1>4. job' = IF Root = {} THEN fresh ELSE Probing(fresh, path)
  BY <1>1
<1> HIDE DEF fresh
<1>5. CASE Root = {}
  <2>1. fresh.reach \in 0 .. Len(fresh.goal)
    BY <1>3
  <2>2. JobOK(fresh)
    BY <1>3, <1>5, <2>1 DEF JobOK, Rooted, Probed, Confined
  <2>3. QED
    BY <1>4, <1>5, <2>2
<1>6. CASE Root # {}
  <2>1. path \in Root
    BY <1>6
  <2> HIDE DEF path
  <2>2. path \in Path
    BY <2>1, SetupType
  <2>3. JobOK(Probing(fresh, path))
    BY <1>3, <2>1, <2>2, ProbingIsOK
  <2>4. QED
    BY <1>4, <1>6, <2>3
<1>7. QED
  BY <1>5, <1>6

LEMMA BaseIsPath ==
    ASSUME setup \in Setups, job \in Job
    PROVE  BaseFor \in Path
<1> DEFINE raw == IF job.source = {} THEN BasePath ELSE CHOOSE path \in job.source : TRUE
<1>1. raw \in Path
  BY SetupType DEF Job, Given
<1>2. BaseFor = IF raw = EmptyPath \/ ~IsFile(raw) THEN raw ELSE FolderOf(raw)
  BY DEF BaseFor
<1> HIDE DEF raw
<1>3. FolderOf(raw) \in Path
  BY <1>1, SourceDirIsPath, DirIsPath DEF FolderOf
<1>4. QED
  BY <1>1, <1>2, <1>3

LEMMA ReportedIsPaths ==
    ASSUME NEW tasks \in Todo
    PROVE  Reported(tasks) \in Seq(Path)
<1>1. PathsOf(tasks) \in Seq(Path) /\ <<>> \in Seq(Path)
  BY PathsOfIsPaths, EmptySeq
<1>2. ASSUME tasks # <<>> PROVE <<tasks[1].path>> \in Seq(Path)
  <2> DEFINE path == tasks[1].path
  <2>1. 1 \in 1 .. Len(tasks)
    BY <1>2, EmptySeq DEF Todo
  <2>2. tasks[1] \in Task
    BY <2>1, ElementOfSeq DEF Todo
  <2>3. path \in Path
    BY <2>2 DEF Task, Given
  <2> HIDE DEF path
  <2>4. <<path>> \in Seq(Path)
    BY <2>3
  <2>5. QED
    BY <2>4 DEF path
<1>3. QED
  BY <1>1, <1>2 DEF Reported

LEMMA FindBaseIsOK ==
    ASSUME setup \in Setups, JobOK(job), FindBase
    PROVE  JobOK(job')
<1> DEFINE base == BaseFor
           tasks == Tasks(base, job.reference)
           search == Reported(tasks)
           k == [job EXCEPT !.base = base, !.todo = tasks, !.search = search]
<1>1. job \in Job /\ job.at = "base" /\ job' = Seek(k)
  BY DEF FindBase, At, JobOK
<1>2. base \in Path
  BY <1>1, BaseIsPath
<1>3. job.reference \in Path
  BY <1>1 DEF Job
<1>4. tasks \in Todo
  BY <1>2, <1>3, TasksAreTasks
<1>5. search \in Seq(Path)
  BY <1>4, ReportedIsPaths
<1> HIDE DEF base, tasks, search
<1>6. k \in Job
  BY <1>1, <1>2, <1>4, <1>5 DEF Job
<1>7. k.root = job.root /\ k.goal = job.goal /\ k.reach = job.reach /\ k.result = job.result
  BY <1>1 DEF Job
<1> HIDE DEF k
<1>8. /\ ~k.result.found /\ (\A place \in k.root : IsRootOf(place))
      /\ (Root # {} => k.root # {}) /\ k.reach \in 0 .. Len(k.goal)
  BY <1>1, <1>7 DEF JobOK, Rooted
<1>9. QED
  BY <1>1, <1>6, <1>8, SeekIsOK

LEMMA JudgedIsOK ==
    ASSUME setup \in Setups, JobOK(job), job.at = "canonicalize",
           NEW real \in Seq(Segment), real = Follow(job.goal)
    PROVE  JobOK(Judged(real))
<1>1. /\ job \in Job /\ ~job.result.found /\ job.reach \in 0 .. Len(job.goal)
      /\ \A place \in job.root : IsRootOf(place)
  BY DEF JobOK, Rooted
<1>2. CASE job.root = {}
  <2> DEFINE roots == {real}
             k == [job EXCEPT !.at = "base", !.root = roots]
  <2>1. roots \in SUBSET Seq(Segment) /\ roots # {}
    OBVIOUS
  <2>2. \A place \in roots : IsRootOf(place)
    <3>1. \E root \in Root : job.goal = Place(root)
      BY <1>2 DEF JobOK, Probed
    <3>2. QED
      BY <3>1 DEF IsRootOf
  <2> HIDE DEF roots
  <2>3. k \in Job
    BY <1>1, <2>1 DEF Job
  <2>4. /\ k.at = "base" /\ k.root = roots /\ k.goal = job.goal /\ k.reach = job.reach
        /\ k.result = job.result
    BY <1>1 DEF Job
  <2>5. Judged(real) = k
    BY <1>2 DEF Judged, roots
  <2> HIDE DEF k
  <2>6. JobOK(k)
    BY <1>1, <2>1, <2>2, <2>3, <2>4 DEF JobOK, Rooted, Probed, Confined
  <2>7. QED
    BY <2>5, <2>6
<1>3. CASE job.root # {}
  <2>1. job.todo # <<>> /\ job.goal = NextPlace(job)
    BY <1>3 DEF JobOK, Probed
  <2>2. CASE \A root \in job.root : WithinRoot(real, root)
    <3> DEFINE k == [job EXCEPT !.at = "read"]
    <3>1. k \in Job
      BY <1>1 DEF Job
    <3>2. /\ k.at = "read" /\ k.root = job.root /\ k.goal = job.goal /\ k.reach = job.reach
          /\ k.result = job.result /\ k.todo = job.todo
      BY <1>1 DEF Job
    <3>3. Judged(real) = k
      BY <1>3, <2>2 DEF Judged
    <3> HIDE DEF k
    <3>4. Confined(k)
      <4>1. NextPlace(k) = job.goal
        BY <2>1, <3>2 DEF NextPlace
      <4>2. QED
        BY <2>2, <3>2, <4>1 DEF Confined, WithinRoot
    <3>5. JobOK(k)
      BY <1>1, <1>3, <2>1, <3>1, <3>2, <3>4 DEF JobOK, Rooted, Probed
    <3>6. QED
      BY <3>3, <3>5
  <2>3. CASE ~(\A root \in job.root : WithinRoot(real, root))
    <3>1. Judged(real) = Skip(job)
      BY <1>3, <2>3 DEF Judged
    <3>2. JobOK(Skip(job))
      BY <1>1, <1>3, <2>1, SkipIsOK
    <3>3. QED
      BY <3>1, <3>2
  <2>4. QED
    BY <2>2, <2>3
<1>4. QED
  BY <1>2, <1>3

LEMMA CanonicalizeIsOK ==
    ASSUME setup \in Setups, JobOK(job), Canonicalize
    PROVE  JobOK(job')
<1>1. /\ job \in Job /\ job.at = "canonicalize"
      /\ job' = IF ~Native THEN Judged(job.goal)
                ELSE IF Reaches(disk, Prefix) THEN Judged(Follow(Prefix) \o Rest)
                ELSE [job EXCEPT !.at = "metadata"]
  BY DEF Canonicalize, At, JobOK
<1>2. /\ job.goal \in Seq(Segment) /\ job.reach \in 0 .. Len(job.goal)
      /\ \A n \in job.reach + 1 .. Len(job.goal) : Cleared(job.goal, n)
  BY <1>1 DEF JobOK, Job, Probed
<1>3. CASE ~Native
  <2>1. Follow(job.goal) = job.goal
    BY <1>2, <1>3, NoLinks
  <2>2. JobOK(Judged(job.goal))
    BY <1>1, <1>2, <2>1, JudgedIsOK
  <2>3. QED
    BY <1>1, <1>3, <2>2
<1>4. CASE Native /\ Reaches(disk, Prefix)
  <2>1. LinksOn(Follow(SubSeq(job.goal, 1, job.reach))) = {}
    BY <1>4 DEF Reaches, Prefix
  <2> DEFINE goal == job.goal
             reach == job.reach
  <2>2. /\ goal \in Seq(Segment) /\ reach \in 0 .. Len(goal)
        /\ (\A n \in reach + 1 .. Len(goal) : Cleared(goal, n))
        /\ LinksOn(Follow(SubSeq(goal, 1, reach))) = {}
    BY <1>2, <2>1
  <2> HIDE DEF goal, reach
  <2>3. Follow(goal) = Follow(SubSeq(goal, 1, reach)) \o SubSeq(goal, reach + 1, Len(goal))
    BY <2>2, FollowSplit
  <2>4. Follow(Prefix) \o Rest = Follow(job.goal)
    BY <2>3 DEF Prefix, Rest, goal, reach
  <2>5. Follow(job.goal) \in Seq(Segment)
    BY <1>2, FollowIsPlace
  <2>6. JobOK(Judged(Follow(Prefix) \o Rest))
    BY <1>1, <2>4, <2>5, JudgedIsOK
  <2>7. QED
    BY <1>1, <1>4, <2>6
<1>5. CASE Native /\ ~Reaches(disk, Prefix)
  <2> DEFINE k == [job EXCEPT !.at = "metadata"]
  <2>1. k \in Job
    BY <1>1 DEF Job
  <2>2. /\ k.at = "metadata" /\ k.root = job.root /\ k.goal = job.goal /\ k.reach = job.reach
        /\ k.result = job.result /\ k.todo = job.todo
    BY <1>1 DEF Job
  <2>3. job.reach # 0
    <3>1. ASSUME job.reach = 0 PROVE FALSE
      <4>1. Prefix = <<>>
        <5> DEFINE b == 1
                   n == job.reach
        <5>1. b \in Int /\ n \in Int /\ n < b
          BY <3>1
        <5> HIDE DEF b, n
        <5>2. SubSeq(job.goal, b, n) = <<>>
          BY <5>1, SubSeqEmpty
        <5>3. QED
          BY <5>2 DEF Prefix, b, n
      <4>2. QED
        BY <1>5, <4>1, RootReached
    <3>2. QED
      BY <3>1
  <2>4. job' = k
    BY <1>1, <1>5
  <2> HIDE DEF k
  <2>5. Probed(k)
    <3>1. NextPlace(k) = NextPlace(job)
      BY <2>2 DEF NextPlace
    <3>2. Probed(job)
      BY DEF JobOK
    <3>3. QED
      BY <1>1, <1>5, <2>2, <2>3, <3>1, <3>2 DEF Probed
  <2>6. Rooted(k)
    BY <2>2 DEF JobOK, Rooted
  <2>7. JobOK(k)
    BY <1>1, <1>2, <2>1, <2>2, <2>5, <2>6 DEF JobOK, Confined
  <2>8. QED
    BY <2>4, <2>7
<1>6. QED
  BY <1>3, <1>4, <1>5

LEMMA MetadataIsOK ==
    ASSUME setup \in Setups, JobOK(job), Metadata
    PROVE  JobOK(job')
<1>1. /\ job \in Job /\ job.at = "metadata"
      /\ job' = IF Occupied(disk, Prefix) THEN Unjudged ELSE Shorten
  BY DEF Metadata, Reduce, At, JobOK
<1>2. /\ job.goal \in Seq(Segment) /\ job.reach \in 1 .. Len(job.goal)
      /\ ~job.result.found /\ Native
      /\ (\A place \in job.root : IsRootOf(place))
      /\ \A n \in job.reach + 1 .. Len(job.goal) : Cleared(job.goal, n)
  BY <1>1 DEF JobOK, Job, Probed, Rooted
<1>3. CASE Occupied(disk, Prefix) /\ job.root = {}
  <2> DEFINE roots == {job.goal}
             k == [job EXCEPT !.at = "base", !.root = roots]
  <2>1. roots \in SUBSET Seq(Segment) /\ roots # {}
    BY <1>2
  <2>2. \A place \in roots : IsRootOf(place)
    <3>1. \E root \in Root : job.goal = Place(root)
      BY <1>1, <1>3 DEF JobOK, Probed
    <3>2. QED
      BY <3>1 DEF IsRootOf
  <2>3. job' = k
    BY <1>1, <1>3 DEF Unjudged
  <2> HIDE DEF roots
  <2>4. k \in Job
    BY <1>1, <2>1 DEF Job
  <2>5. /\ k.at = "base" /\ k.root = roots /\ k.goal = job.goal /\ k.reach = job.reach
        /\ k.result = job.result
    BY <1>1 DEF Job
  <2> HIDE DEF k
  <2>6. JobOK(k)
    BY <1>2, <2>1, <2>2, <2>4, <2>5 DEF JobOK, Rooted, Probed, Confined
  <2>7. QED
    BY <2>3, <2>6
<1>4. CASE Occupied(disk, Prefix) /\ job.root # {}
  <2>1. job.todo # <<>> /\ job.reach \in 0 .. Len(job.goal)
    BY <1>1, <1>4 DEF JobOK, Probed
  <2>2. JobOK(Skip(job))
    BY <1>1, <1>2, <1>4, <2>1, SkipIsOK
  <2>3. QED
    BY <1>1, <1>4, <2>2 DEF Unjudged
<1>5. CASE ~Occupied(disk, Prefix)
  <2> DEFINE n == job.reach
             k == [job EXCEPT !.at = "canonicalize", !.reach = n - 1]
  <2>1. n - 1 \in Nat /\ n - 1 \in 0 .. Len(job.goal)
    BY <1>2, LenProperties
  <2>2. Cleared(job.goal, n)
    <3> DEFINE goal == job.goal
    <3>1. goal \in Seq(Segment) /\ n \in 1 .. Len(goal) /\ ~Occupied(disk, SubSeq(goal, 1, n))
      BY <1>2, <1>5 DEF Prefix
    <3> HIDE DEF goal, n
    <3>2. Cleared(goal, n)
      BY <3>1, UnoccupiedIsCleared
    <3>3. QED
      BY <3>2 DEF goal
  <2>3. job' = k
    BY <1>1, <1>5 DEF Shorten
  <2>4. \A i \in (n - 1) + 1 .. Len(job.goal) : i = n \/ i \in n + 1 .. Len(job.goal)
    BY <1>2, LenProperties
  <2>5. \A i \in n + 1 .. Len(job.goal) : Cleared(job.goal, i)
    BY <1>2
  <2> HIDE DEF n
  <2>6. k \in Job
    BY <1>1, <2>1 DEF Job
  <2>7. /\ k.at = "canonicalize" /\ k.root = job.root /\ k.goal = job.goal /\ k.reach = n - 1
        /\ k.result = job.result /\ k.todo = job.todo
    BY <1>1 DEF Job
  <2> HIDE DEF k
  <2>8. \A i \in k.reach + 1 .. Len(k.goal) : Cleared(k.goal, i)
    BY <2>2, <2>4, <2>5, <2>7
  <2>9. Probed(k)
    <3>1. NextPlace(k) = NextPlace(job) /\ Probed(job)
      BY <2>7 DEF NextPlace, JobOK
    <3>2. QED
      BY <1>1, <2>7, <2>8, <3>1 DEF Probed
  <2>10. Rooted(k)
    BY <2>7 DEF JobOK, Rooted
  <2>11. JobOK(k)
    BY <1>2, <2>1, <2>6, <2>7, <2>9, <2>10 DEF JobOK, Confined
  <2>12. QED
    BY <2>3, <2>11
<1>6. QED
  BY <1>3, <1>4, <1>5

\* What package.json names comes in front of the other candidates.
Widened(j, main) ==
    [j EXCEPT !.todo = <<Head(j.todo)>> \o MainTasks(Head(j.todo).path, main) \o Tail(j.todo)]

LEMMA WidenedIsJob ==
    ASSUME setup \in Setups, NEW j \in Job, j.todo # <<>>, NEW main \in Path
    PROVE  LET k == Widened(j, main) IN
           /\ k \in Job /\ k.todo # <<>>
           /\ k.root = j.root /\ k.goal = j.goal /\ k.reach = j.reach /\ k.result = j.result
           /\ k.base = j.base /\ k.source = j.source /\ k.reference = j.reference
<1> DEFINE task == Head(j.todo)
           rest == Tail(j.todo)
           more == MainTasks(task.path, main)
           todo == <<task>> \o more \o rest
           k == [j EXCEPT !.todo = todo]
<1>1. task \in Task /\ rest \in Todo
  BY HeadTailProperties DEF Job, Todo
<1>2. task.path \in Path
  BY <1>1 DEF Task, Given
<1>3. Widened(j, main) = k
  BY DEF Widened
<1> HIDE DEF task, rest
<1>4. more \in Todo
  BY <1>2, MainTasksAreTasks
<1> HIDE DEF more
<1>5. <<task>> \in Todo /\ <<task>> # <<>>
  BY <1>1 DEF Todo
<1>6. <<task>> \o more \in Todo /\ <<task>> \o more # <<>>
  BY <1>4, <1>5, ConcatProperties, ConcatEqualIffEmpty DEF Todo
<1>7. todo \in Todo /\ todo # <<>>
  BY <1>1, <1>6, ConcatProperties, ConcatEqualIffEmpty DEF Todo
<1> HIDE DEF todo
<1>8. k \in Job
  BY <1>7 DEF Job
<1>9. /\ k.todo = todo /\ k.root = j.root /\ k.goal = j.goal /\ k.reach = j.reach
      /\ k.result = j.result /\ k.base = j.base /\ k.source = j.source /\ k.reference = j.reference
  BY DEF Job
<1> HIDE DEF k
<1>10. QED
  BY <1>3, <1>7, <1>8, <1>9

\* A candidate was found.
Ended(outcome) == [job EXCEPT !.at = "done", !.result = outcome]

LEMMA ReadCases ==
    ASSUME setup \in Setups, JobOK(job), Read
    PROVE  \/ job' = Skip(job)
           \/ \E main \in Path : job' = Skip(Widened(job, main))
           \/ \E outcome \in Outcome :
                 outcome.full \in Given /\ job' = Ended(outcome)
<1> DEFINE task == Head(job.todo)
           rest == Tail(job.todo)
<1>1. /\ job \in Job /\ job.at = "read" /\ job.todo # <<>> /\ job.todo \in Todo
      /\ job' \in {Loaded(task), Skip(job)}
  BY DEF Read, At, JobOK, Job
<1>2. task \in Task
  BY <1>1, HeadTailProperties DEF Todo
<1> HIDE DEF task
<1>3. task.path \in Given /\ task.path \in Path
  BY <1>2 DEF Task, Given
<1>4. CASE ~task.manifest
  <2> DEFINE memory == task.path \in Preload
             real == IF memory THEN <<>> ELSE Follow(Place(task.path))
             outcome == [found |-> TRUE, full |-> task.path, memory |-> memory, real |-> real]
  <2>1. Loaded(task) = Ended(outcome)
    BY <1>4 DEF Loaded, Found, Ended
  <2>2. real \in Seq(Segment) /\ memory \in BOOLEAN
    BY <1>3, PlaceIsPlace, FollowIsPlace, EmptySeq
  <2> HIDE DEF memory, real
  <2>3. outcome \in Outcome /\ outcome.full \in Given
    BY <1>3, <2>2 DEF Outcome
  <2> HIDE DEF outcome
  <2>4. QED
    BY <1>1, <2>1, <2>3
<1>5. CASE task.manifest
  <2> DEFINE place == Follow(Place(task.path))
             mains == IF place \in DOMAIN Mains THEN Mains[place] ELSE {}
             main == CHOOSE path \in mains : TRUE
  <2>1. mains = {} => Loaded(task) = Skip(job)
    BY <1>5 DEF Loaded
  <2>2. mains # {} => Loaded(task) = Skip(Widened(job, main))
    BY <1>5 DEF Loaded, Widened, task
  <2>3. mains \in SUBSET Path
    BY SetupType
  <2> HIDE DEF mains
  <2>4. mains # {} => main \in Path
    BY <2>3
  <2> HIDE DEF main
  <2>5. QED
    BY <1>1, <2>1, <2>2, <2>4
<1>6. QED
  BY <1>4, <1>5

LEMMA ReadIsOK ==
    ASSUME setup \in Setups, JobOK(job), Read
    PROVE  JobOK(job')
<1>1. job \in Job /\ job.at = "read" /\ job.todo # <<>>
  BY DEF Read, At, JobOK
<1>2. /\ ~job.result.found /\ job.reach \in 0 .. Len(job.goal)
      /\ (\A place \in job.root : IsRootOf(place)) /\ (Root # {} => job.root # {})
  BY <1>1 DEF JobOK, Rooted
<1>3. CASE job' = Skip(job)
  BY <1>1, <1>2, <1>3, SkipIsOK
<1>4. CASE \E main \in Path : job' = Skip(Widened(job, main))
  <2>1. PICK main \in Path : job' = Skip(Widened(job, main))
    BY <1>4
  <2> DEFINE k == Widened(job, main)
  <2>2. /\ k \in Job /\ k.todo # <<>>
        /\ k.root = job.root /\ k.goal = job.goal /\ k.reach = job.reach /\ k.result = job.result
    BY <1>1, WidenedIsJob
  <2> HIDE DEF k
  <2>3. /\ ~k.result.found /\ (\A place \in k.root : IsRootOf(place))
        /\ (Root # {} => k.root # {}) /\ k.reach \in 0 .. Len(k.goal)
    BY <1>2, <2>2
  <2>4. JobOK(Skip(k))
    BY <2>2, <2>3, SkipIsOK
  <2>5. QED
    BY <2>1, <2>4 DEF k
<1>5. CASE \E outcome \in Outcome : outcome.full \in Given /\ job' = Ended(outcome)
  <2>1. PICK outcome \in Outcome : outcome.full \in Given /\ job' = Ended(outcome)
    BY <1>5
  <2> DEFINE k == Ended(outcome)
  <2>2. k \in Job
    BY <1>1 DEF Job, Ended
  <2>3. /\ k.at = "done" /\ k.root = job.root /\ k.goal = job.goal /\ k.reach = job.reach
        /\ k.result = outcome
    BY <1>1 DEF Job, Ended
  <2> HIDE DEF k
  <2>4. JobOK(k)
    BY <1>2, <2>1, <2>2, <2>3 DEF JobOK, Rooted, Probed, Confined
  <2>5. QED
    BY <2>1, <2>4 DEF k
<1>6. QED
  BY <1>3, <1>4, <1>5, ReadCases

(***************************************************************************)
(* The scan.                                                               *)
(***************************************************************************)
LEMMA PreloadSetup ==
    ASSUME setup \in Setups
    PROVE  /\ MAX_SCAN_DEPTH \in Nat
           /\ setup.folders \in Seq(Path) /\ Names \in Seq(Segment)
  BY PreloadsAssumption DEF Names

LEMMA ScanFoldersIsScan ==
    ASSUME setup \in Setups
    PROVE  ScanFolders \in Seq(ScanTask)
<1> DEFINE folders == setup.folders
           n == Len(folders)
<1>1. folders \in Seq(Path) /\ n \in Nat /\ DOMAIN folders = 1 .. n
  BY PreloadSetup, LenProperties
<1>2. ScanFolders = [i \in DOMAIN folders |-> Folder(Canonical(folders[i]), 0)]
  BY DEF ScanFolders
<1> HIDE DEF folders
<1>3. ASSUME NEW i \in 1 .. n PROVE Folder(Canonical(folders[i]), 0) \in ScanTask
  <2>1. folders[i] \in Path
    BY <1>1, ElementOfSeq
  <2>2. Canonical(folders[i]) \in Path
    BY <2>1, CanonicalIsGiven DEF Given
  <2>3. 0 \in 0 .. MAX_SCAN_DEPTH + 1
    BY PreloadSetup
  <2>4. QED
    BY <2>2, <2>3 DEF Folder, ScanTask
<1> HIDE DEF n
<1>4. ScanFolders \in [1 .. n -> ScanTask]
  BY <1>1, <1>2, <1>3
<1>5. QED
  BY <1>1, <1>4, FunctionIsSeq

LEMMA EnteredIsScan ==
    ASSUME setup \in Setups, NEW task \in ScanTask
    PROVE  Entered(task) \in Seq(ScanTask)
<1> DEFINE place == Follow(Place(task.path))
           Entry(name) ==
               LET full == Join(task.path, <<name>>) IN
               IF ~IsEntry(Append(place, name)) THEN <<>>
               ELSE IF IsDirEntry(Append(place, name))
               THEN IF Recursive THEN <<Folder(full, task.depth + 1)>> ELSE <<>>
               ELSE IF Matches(name) THEN <<File(full, task.depth)>> ELSE <<>>
           n == Len(Names)
           each == [i \in DOMAIN Names |-> Entry(Names[i])]
<1>1. n \in Nat /\ DOMAIN Names = 1 .. n /\ \A i \in 1 .. n : Names[i] \in Segment
  BY PreloadSetup, LenProperties, ElementOfSeq
<1>2. Entered(task) = IF \/ TooDeep(task.depth) \/ ~Reaches(disk, Place(task.path))
                         \/ ~IsFolder(disk, place)
                      THEN <<>> ELSE FlattenSeq(each)
  BY DEF Entered
<1>3. CASE TooDeep(task.depth)
  BY <1>2, <1>3, EmptySeq
<1>4. CASE ~TooDeep(task.depth)
  <2>1. /\ task.path \in Seq(Segment)
        /\ task.depth \in 0 .. MAX_SCAN_DEPTH + 1 /\ task.depth + 1 \in 0 .. MAX_SCAN_DEPTH + 1
    BY <1>4, PreloadSetup DEF ScanTask, Path, TooDeep
  <2>2. ASSUME NEW name \in Segment PROVE Entry(name) \in Seq(ScanTask)
    <3> DEFINE last == <<name>>
               full == Join(task.path, last)
               folder == Folder(full, task.depth + 1)
               file == File(full, task.depth)
    <3>1. last \in Path
      BY SingleSegments
    <3>2. Entry(name) \in {<<>>, <<folder>>, <<file>>}
      OBVIOUS
    <3> HIDE DEF last, Entry
    <3>3. full \in Path
      BY <2>1, <3>1, JoinIsGiven DEF Given
    <3> HIDE DEF full
    <3>4. folder \in ScanTask /\ file \in ScanTask
      BY <2>1, <3>3 DEF ScanTask, Folder, File
    <3> HIDE DEF folder, file
    <3>5. <<>> \in Seq(ScanTask) /\ <<folder>> \in Seq(ScanTask) /\ <<file>> \in Seq(ScanTask)
      BY <3>4
    <3>6. QED
      BY <3>2, <3>5
  <2> HIDE DEF n, Entry
  <2>3. each \in [1 .. n -> Seq(ScanTask)]
    BY <1>1, <2>2
  <2> HIDE DEF each
  <2>4. FlattenSeq(each) \in Seq(ScanTask)
    BY <1>1, <2>3, FlattenIsSeq
  <2>5. QED
    BY <1>2, <2>4, EmptySeq
<1>5. QED
  BY <1>3, <1>4

(***************************************************************************)
(* The invariant holds at first and after every step.                      *)
(***************************************************************************)
LEMMA InvariantAtFirst ==
    ASSUME WatchedInit
    PROVE  IInv
<1>1. /\ setup \in Setups /\ filemap = setup.preload /\ steady = disk /\ scan = ScanFolders
      /\ job = [Fresh(EmptyPath, {}) EXCEPT !.at = "done"]
      /\ \E there \in SUBSET Placeable : disk = Fixed \cup there
  BY DEF WatchedInit, PreloadInit, Init
<1>2. filemap \subseteq Path /\ disk \subseteq Placeable \cup Fixed
  BY <1>1, SetupType
<1>3. JobOK(job)
  <2> DEFINE source == {}
             fresh == Fresh(EmptyPath, source)
             k == [fresh EXCEPT !.at = "done"]
  <2>1. EmptyPath \in Path /\ source \in SUBSET Given
    BY SingleSegments
  <2> HIDE DEF source
  <2>2. fresh \in Job /\ ~fresh.result.found /\ fresh.root = {} /\ fresh.reach = 0 /\ fresh.goal = <<>>
    BY <2>1, FreshIsOK
  <2> HIDE DEF fresh
  <2>3. k \in Job
    BY <2>2 DEF Job
  <2>4. /\ k.at = "done" /\ k.root = {} /\ k.reach = 0 /\ k.goal = <<>>
        /\ k.result = fresh.result
    BY <2>2 DEF Job
  <2> HIDE DEF k
  <2>5. k.reach \in 0 .. Len(k.goal)
    BY <2>4
  <2>6. JobOK(k)
    BY <2>2, <2>3, <2>4, <2>5 DEF JobOK, Rooted, Probed, Confined
  <2>7. job = k
    BY <1>1 DEF k, fresh, source
  <2>8. QED
    BY <2>6, <2>7
<1>4. QED
  BY <1>1, <1>2, <1>3, ScanFoldersIsScan DEF IInv

LEMMA ScanStays ==
    ASSUME IInv, ListFolder \/ ReadFile
    PROVE  scan' \in Seq(ScanTask) /\ filemap' \subseteq Path
<1>1. /\ setup \in Setups /\ filemap \subseteq Path /\ scan \in Seq(ScanTask) /\ scan # <<>>
  BY DEF IInv, ListFolder, ReadFile
<1>2. Head(scan) \in ScanTask /\ Tail(scan) \in Seq(ScanTask)
  BY <1>1, HeadTailProperties
<1>3. CASE ListFolder
  <2>1. Entered(Head(scan)) \in Seq(ScanTask)
    BY <1>1, <1>2, EnteredIsScan
  <2>2. scan' = Entered(Head(scan)) \o Tail(scan) /\ filemap' = filemap
    BY <1>3 DEF ListFolder, vars
  <2>3. Entered(Head(scan)) \o Tail(scan) \in Seq(ScanTask)
    BY <1>2, <2>1, ConcatProperties
  <2>4. QED
    BY <1>1, <2>2, <2>3
<1>4. CASE ReadFile
  <2>1. /\ scan' = Tail(scan)
        /\ filemap' = filemap \cup {path \in {Head(scan).path} : Readable(disk, Place(path))}
    BY <1>4 DEF ReadFile
  <2>2. Head(scan).path \in Path
    BY <1>2 DEF ScanTask
  <2>3. QED
    BY <1>1, <1>2, <2>1, <2>2
<1>5. QED
  BY <1>3, <1>4

LEMMA SetupStays ==
    ASSUME [WatchedNext]_watched
    PROVE  setup' = setup
  BY DEF WatchedNext, watched, preloading, PreloadNext, Work, Resolving, Resolve, ListFolder, ReadFile,
     vars, Begin, FindBase, Canonicalize, Metadata, Read, Change

\* A step of the scan, of a resolution, or of somebody else.
LEMMA StepCases ==
    ASSUME [WatchedNext]_watched
    PROVE  \/ (ListFolder \/ ReadFile) /\ UNCHANGED <<disk, job>>
           \/ /\ (Begin \/ FindBase \/ Canonicalize \/ Metadata \/ Read)
              /\ scan = <<>> /\ UNCHANGED <<filemap, disk, scan>>
           \/ Change /\ UNCHANGED <<filemap, scan, job>>
           \/ UNCHANGED watched
  BY DEF WatchedNext, PreloadNext, Work, Resolving, Resolve, Scanned, ListFolder, ReadFile, vars, Begin,
     FindBase, Canonicalize, Metadata, Read, Change

LEMMA NextJobIsOK ==
    ASSUME IInv, [WatchedNext]_watched
    PROVE  JobOK(job')
<1>1. setup \in Setups /\ JobOK(job)
  BY DEF IInv
<1>2. CASE job' = job
  BY <1>1, <1>2
<1>3. CASE Begin \/ FindBase \/ Canonicalize \/ Metadata \/ Read
  BY <1>1, <1>3, BeginIsOK, FindBaseIsOK, CanonicalizeIsOK, MetadataIsOK, ReadIsOK
<1>4. QED
  BY <1>2, <1>3, StepCases DEF watched, preloading

LEMMA InvariantStays ==
    ASSUME IInv, [WatchedNext]_watched
    PROVE  IInv'
<1>1. /\ setup \in Setups /\ filemap \subseteq Path /\ scan \in Seq(ScanTask)
      /\ disk \subseteq Placeable \cup Fixed /\ steady \subseteq disk
  BY DEF IInv
<1>2. setup' = setup
  BY SetupStays
<1>3. Placeable' = Placeable /\ Fixed' = Fixed
  BY <1>2 DEF Placeable, Fixed
<1>4. JobOK(job)'
  BY <1>2, NextJobIsOK, JobStaysOK
<1>5. scan' \in Seq(ScanTask) /\ filemap' \subseteq Path
  BY <1>1, StepCases, ScanStays DEF watched, preloading
<1>6. /\ disk' \subseteq Placeable \cup Fixed
      /\ disk' = disk \/ UNCHANGED job
  BY <1>1, StepCases DEF Change, watched, preloading
<1>7. steady' \subseteq disk'
  <2>1. CASE WatchedNext
    BY <1>1, <1>6, <2>1 DEF WatchedNext
  <2>2. CASE UNCHANGED watched
    BY <1>1, <2>2 DEF watched, preloading
  <2>3. QED
    BY <2>1, <2>2
<1>8. QED
  BY <1>1, <1>2, <1>3, <1>4, <1>5, <1>6, <1>7 DEF IInv, ScanTask

THEOREM InvariantHolds == WatchedSpec => []IInv
<1>1. WatchedInit => IInv
  BY InvariantAtFirst
<1>2. IInv /\ [WatchedNext]_watched => IInv'
  BY InvariantStays
<1>3. QED
  BY <1>1, <1>2, PTL DEF WatchedSpec

LEMMA PathsArePaths ==
    ASSUME NEW path \in Path
    PROVE  IsPath(path)
<1>1. Len(path) > 0 /\ DOMAIN path = 1 .. Len(path)
  BY EmptySeq, LenProperties DEF Path
<1>2. ASSUME NEW i \in 1 .. Len(path) PROVE Len(path[i]) > 0
  <2>1. path[i] \in Seq(Parts) /\ path[i] # <<>>
    BY ElementOfSeq DEF Path, Segment
  <2>2. QED
    BY <2>1, EmptySeq
<1>3. QED
  BY <1>1, <1>2 DEF IsPath

(***************************************************************************)
(* What a resolver and the scan before it keep in memory are paths, the    *)
(* scan never goes deeper than one level below its cap, a read has a       *)
(* candidate to read, and what is found is only ever found at the end      *)
(* (resolve, real_path, preload_files_with).                               *)
(***************************************************************************)
THEOREM ResolversTypeCorrect == WatchedSpec => []TypeOK
<1>1. IInv => TypeOK
  <2> SUFFICES ASSUME IInv PROVE TypeOK
    OBVIOUS
  <2>1. /\ filemap \subseteq Path /\ scan \in Seq(ScanTask) /\ job \in Job
        /\ disk \subseteq Placeable \cup Fixed /\ steady \subseteq disk
        /\ job.reach \in 0 .. Len(job.goal)
        /\ job.at = "read" => job.todo # <<>>
        /\ job.result.found => job.at = "done"
    BY DEF IInv, JobOK
  <2>2. \A path \in filemap : IsPath(path)
    BY <2>1, PathsArePaths
  <2>3. ASSUME NEW i \in DOMAIN scan
        PROVE  IsPath(scan[i].path) /\ scan[i].depth \in 0 .. MAX_SCAN_DEPTH + 1
    <3>1. scan[i] \in ScanTask
      BY <2>1, LenProperties, ElementOfSeq
    <3>2. QED
      BY <3>1, PathsArePaths DEF ScanTask
  <2>4. /\ job.at \in {"done", "canonicalize", "metadata", "base", "read"}
        /\ job.base \in Path /\ job.search \in Seq(Path) /\ job.result.full \in Path
    BY <2>1 DEF Job, Outcome
  <2>5. ASSUME NEW i \in DOMAIN job.search PROVE IsPath(job.search[i])
    <3>1. job.search[i] \in Path
      BY <2>4, LenProperties, ElementOfSeq
    <3>2. QED
      BY <3>1, PathsArePaths
  <2>6. IsPath(job.base) /\ IsPath(job.result.full)
    BY <2>4, PathsArePaths
  <2>7. QED
    BY <2>1, <2>2, <2>3, <2>4, <2>5, <2>6 DEF TypeOK, At
<1>2. QED
  BY <1>1, InvariantHolds, PTL

(***************************************************************************)
(* Whatever files come and go between the steps of a resolution, however   *)
(* links lead to one another, and whether or not the root has a real path: *)
(* a resolver with a root reads from the filesystem only what really is    *)
(* inside the folder that root really is (within_root, real_path).         *)
(***************************************************************************)
THEOREM ReadsStayConfined == WatchedSpec => []ReadsConfined
<1>1. IInv => ReadsConfined
  <2> DEFINE path == Head(job.todo).path
             place == Follow(Place(path))
  <2> SUFFICES ASSUME IInv, job.at = "read", Readable(disk, Place(path)), NEW root \in Root
               PROVE  IsPrefix(Follow(Place(root)), place)
    BY DEF ReadsConfined, InRoot, At
  <2>1. /\ setup \in Setups /\ job \in Job /\ job.todo # <<>> /\ job.root # {}
        /\ (\A real \in job.root : IsRootOf(real) /\ IsPrefix(real, place))
    BY DEF IInv, JobOK, Rooted, Confined, NextPlace
  <2>2. path \in Path
    <3>1. Head(job.todo) \in Task
      BY <2>1, HeadTailProperties DEF Job, Todo
    <3>2. QED
      BY <3>1 DEF Task, Given
  <2>3. LinksOn(place) = {}
    BY DEF Readable, Reaches
  <2> HIDE DEF path
  <2>4. place \in Seq(Segment)
    BY <2>1, <2>2, PlaceIsPlace, FollowIsPlace
  <2> HIDE DEF place
  <2>5. PICK real \in job.root : IsRootOf(real) /\ IsPrefix(real, place)
    BY <2>1
  <2>6. real \in {Place(root), Follow(Place(root))}
    <3>1. PICK other \in Root : real \in {Place(other), Follow(Place(other))}
      BY <2>5 DEF IsRootOf
    <3>2. other = root
      BY <2>1, SetupType
    <3>3. QED
      BY <3>1, <3>2
  <2>7. CASE real = Follow(Place(root))
    BY <2>5, <2>7
  <2>8. CASE real = Place(root)
    <3>1. root \in Path
      BY <2>1, SetupType
    <3>2. Place(root) \in Seq(Segment)
      BY <3>1, PlaceIsPlace
    <3>3. LinksOn(Place(root)) = {}
      BY <2>1, <2>3, <2>4, <2>5, <2>8, <3>2, PrefixHasNoLinks
    <3>4. Follow(Place(root)) = Place(root)
      BY <2>1, <3>2, <3>3, FollowIsPlace
    <3>5. QED
      BY <2>5, <2>8, <3>4
  <2>9. QED
    BY <2>6, <2>7, <2>8
<1>2. QED
  BY <1>1, InvariantHolds, PTL

(***************************************************************************)
(* The base of a reference inside a source.                                *)
(***************************************************************************)
\* Every key names something, below a folder or in none: "/a" and "a/" do not.
KeysInFolders ==
    \A s \in Setups : s.resolver = "map" =>
        \A path \in s.preload : Last(path) # Nil /\ ~(Len(path) = 2 /\ IsAbsolute(path))

IsBeside(base, path) == IF InMemory THEN Beside(base, path) ELSE base = Dir(path)

\* The base has been found.
Settled(j) == j.at \in {"read", "done"} \/ (j.root # {} /\ j.at # "base")

BesideInv ==
    /\ IInv
    /\ InMemory => scan = <<>> /\ filemap = setup.preload
    /\ scan # <<>> => job.source = {}
    /\ \A path, other \in job.source : path = other
    /\ Settled(job) =>
          \A path \in job.source :
              path \in filemap \/ Readable(steady, Place(path)) => IsBeside(job.base, path)

LEMMA MoreReadable ==
    ASSUME NEW fewer, NEW more, fewer \subseteq more, NEW place, Readable(fewer, place)
    PROVE  Readable(more, place)
  BY DEF Readable, Reaches, IsFolder

LEMMA ReadableBefore ==
    ASSUME setup' = setup, steady' \subseteq steady, NEW path, Readable(steady, Place(path))'
    PROVE  Readable(steady, Place(path))
<1>1. \E place : place = Place(path)
  OBVIOUS
<1>2. PICK place : place = Place(path)
  BY <1>1
<1>3. /\ Follow(place)' = Follow(place) /\ Links' = Links /\ Place(path)' = place
      /\ LinksOn(Follow(place))' = LinksOn(Follow(place))
  BY <1>2, PlacesStay
<1>4. Readable(steady', place)
  BY <1>2, <1>3, PlacesStay DEF Readable, Reaches, IsFolder, Inside
<1>5. QED
  BY <1>2, <1>4, MoreReadable

LEMMA SourceDirIsBeside ==
    ASSUME NEW path \in Path, Last(path) # Nil, ~(Len(path) = 2 /\ IsAbsolute(path))
    PROVE  Beside(SourceDir(path), path)
<1> DEFINE n == Len(path)
           I == {i \in 1 .. n : path[i] # Nil}
           k == IF I # {} THEN Max(I) ELSE 0
           trimmed == SubSeq(path, 1, k)
<1>1. path \in Seq(Segment) /\ path # <<>> /\ n \in Nat /\ n # 0
  BY EmptySeq DEF Path
<1>2. Last(path) = path[n] /\ Front(path) \in Seq(Segment) /\ Len(Front(path)) = n - 1
  BY <1>1, FrontOf
<1>3. SourceDir(path) = IF Len(trimmed) <= 1 THEN EmptyPath
                        ELSE IF Len(trimmed) = 2 /\ IsAbsolute(trimmed) THEN RootPath
                        ELSE Front(trimmed)
  BY DEF SourceDir, SelectLastInSeq
<1>4. k = n
  <2>1. n \in I /\ \A i \in I : n >= i
    BY <1>1, <1>2
  <2> HIDE DEF I
  <2>2. Max(I) \in I /\ Max(I) >= n
    BY <2>1 DEF Max
  <2>3. Max(I) <= n /\ Max(I) \in Nat
    BY <2>1, <2>2 DEF I
  <2>4. Max(I) = n
    BY <1>1, <2>2, <2>3
  <2>5. QED
    BY <2>1, <2>4
<1>5. trimmed = path
  BY <1>1, <1>4, SubSeqFull
<1> HIDE DEF trimmed, k, I
<1>6. path = Append(Front(path), Last(path)) /\ Last(path) \in Segment
  <2>1. n \in 0 .. Len(path) /\ n > 0
    BY <1>1
  <2>2. SubSeq(path, 1, n) = path
    BY <1>1, SubSeqFull
  <2>3. path = Append(SubSeq(path, 1, n - 1), path[n]) /\ Front(path) = SubSeq(path, 1, n - 1)
        /\ path[n] \in Segment
    BY <1>1, <2>1, <2>2, PrefixOf
  <2>4. QED
    BY <1>2, <2>3
<1> DEFINE front == Front(path)
           last == Last(path)
<1>7. path = front \o <<last>>
  BY <1>2, <1>6, AppendIsConcat
<1>8. CASE n = 1
  <2>1. SourceDir(path) = EmptyPath
    BY <1>3, <1>5, <1>8
  <2>2. front = <<>>
    BY <1>2, <1>8, EmptySeq
  <2>3. path = <<>> \o <<last>>
    BY <1>7, <2>2
  <2>4. QED
    BY <2>1, <2>3 DEF Beside
<1>9. CASE n # 1
  <2>1. SourceDir(path) = front
    <3>1. ~(n <= 1)
      <4> HIDE DEF n
      <4>1. QED
        BY <1>1, <1>9
    <3>2. QED
      BY <1>3, <1>5, <3>1
  <2>2. ASSUME front = EmptyPath PROVE FALSE
    <3>1. Len(front) = 1 /\ front[1] = Nil
      BY <2>2 DEF EmptyPath
    <3>2. n = 2
      <4>1. n - 1 = 1 /\ n \in Nat
        BY <1>1, <1>2, <3>1
      <4> HIDE DEF n
      <4>2. QED
        BY <4>1
    <3>3. path[1] = front[1]
      <4>1. 1 \in 1 .. n - 1
        BY <3>2
      <4>2. QED
        BY <1>1, <4>1, FrontOf
    <3>4. QED
      BY <3>1, <3>2, <3>3 DEF IsAbsolute
  <2>3. QED
    BY <1>7, <2>1, <2>2 DEF Beside
<1>10. QED
  BY <1>8, <1>9

LEMMA SeekKeepsBase ==
    ASSUME NEW j \in Job
    PROVE  Seek(j).base = j.base /\ Seek(j).source = j.source
  BY DEF Seek, Probing, Probe, Job

LEMMA SkipKeepsBase ==
    ASSUME NEW j \in Job, j.todo # <<>>
    PROVE  Skip(j).base = j.base /\ Skip(j).source = j.source
<1> DEFINE search == IF ~Packages /\ Len(j.search) = 1 THEN PathsOf(j.todo) ELSE j.search
           todo == Tail(j.todo)
           k == [j EXCEPT !.todo = todo, !.search = search]
<1>1. Skip(j) = Seek(k)
  BY DEF Skip
<1>2. j.todo \in Todo /\ j.search \in Seq(Path)
  BY DEF Job
<1>3. todo \in Todo /\ search \in Seq(Path)
  BY <1>2, HeadTailProperties, PathsOfIsPaths DEF Todo
<1> HIDE DEF todo, search
<1>4. k \in Job /\ k.base = j.base /\ k.source = j.source
  BY <1>3 DEF Job
<1>5. QED
  BY <1>1, <1>4, SeekKeepsBase

\* Only FindBase settles the base.
LEMMA BaseStays ==
    ASSUME setup \in Setups, JobOK(job), Canonicalize \/ Metadata \/ Read
    PROVE  /\ job'.source = job.source /\ job'.base = job.base
           /\ Settled(job') => Settled(job)
<1>1. job \in Job
  BY DEF JobOK
<1> DEFINE Keeps(j) == j.source = job.source /\ j.base = job.base
<1>2. job.root # {} /\ job.at \in {"canonicalize", "metadata"} => job.todo # <<>>
  BY DEF JobOK, Probed
<1>3. ASSUME NEW real, job.at = "canonicalize"
      PROVE  /\ Keeps(Judged(real))
             /\ job.root = {} => ~Settled(Judged(real))
  <2>1. CASE job.root = {}
    BY <1>1, <2>1 DEF Judged, Job, Settled
  <2>2. CASE job.root # {}
    BY <1>1, <1>2, <1>3, <2>2, SkipKeepsBase DEF Judged, Job
  <2>3. QED
    BY <2>1, <2>2
<1>4. CASE Canonicalize
  <2>1. /\ job.at = "canonicalize"
        /\ \/ \E real : job' = Judged(real)
           \/ job' = [job EXCEPT !.at = "metadata"]
    BY <1>4 DEF Canonicalize, At
  <2>2. Keeps(job') /\ (job.root = {} => ~Settled(job'))
    <3>1. CASE job' = [job EXCEPT !.at = "metadata"]
      BY <1>1, <3>1 DEF Job, Settled
    <3>2. QED
      BY <1>3, <2>1, <3>1
  <2>3. job.root # {} => Settled(job)
    BY <2>1 DEF Settled
  <2>4. QED
    BY <2>2, <2>3
<1>5. CASE Metadata
  <2>1. job.at = "metadata" /\ job' \in {Unjudged, Shorten}
    BY <1>5 DEF Metadata, Reduce, At
  <2>2. CASE job.root = {}
    BY <1>1, <2>1, <2>2 DEF Unjudged, Shorten, Job, Settled
  <2>3. CASE job.root # {}
    <3>1. Settled(job)
      BY <2>1, <2>3 DEF Settled
    <3>2. Keeps(Shorten)
      BY <1>1 DEF Shorten, Job
    <3>3. Keeps(Unjudged)
      BY <1>1, <1>2, <2>1, <2>3, SkipKeepsBase DEF Unjudged
    <3>4. QED
      BY <2>1, <3>1, <3>2, <3>3
  <2>4. QED
    BY <2>2, <2>3
<1>6. CASE Read
  <2>1. job.at = "read" /\ job.todo # <<>>
    BY <1>6 DEF Read, At, JobOK
  <2>2. Settled(job)
    BY <2>1 DEF Settled
  <2>3. Keeps(job')
    <3>1. CASE job' = Skip(job)
      BY <1>1, <2>1, <3>1, SkipKeepsBase
    <3>2. ASSUME NEW main \in Path, job' = Skip(Widened(job, main)) PROVE Keeps(job')
      <4> DEFINE k == Widened(job, main)
      <4>1. k \in Job /\ k.todo # <<>> /\ k.base = job.base /\ k.source = job.source
        BY <1>1, <2>1, WidenedIsJob
      <4> HIDE DEF k
      <4>2. Skip(k).base = job.base /\ Skip(k).source = job.source
        BY <4>1, SkipKeepsBase
      <4>3. QED
        BY <3>2, <4>2 DEF k
    <3>3. ASSUME NEW outcome, job' = Ended(outcome) PROVE Keeps(job')
      BY <1>1, <3>3 DEF Job, Ended
    <3>4. QED
      BY <1>6, <3>1, <3>2, <3>3, ReadCases
  <2>4. QED
    BY <2>2, <2>3
<1>7. QED
  BY <1>4, <1>5, <1>6

LEMMA BesideAtFirst ==
    ASSUME WatchedInit
    PROVE  BesideInv
<1>1. IInv
  BY InvariantAtFirst
<1>2. setup \in Setups /\ filemap = setup.preload /\ scan = ScanFolders
  BY DEF WatchedInit, PreloadInit, Init
<1>3. job.source = {}
  BY DEF WatchedInit, PreloadInit, Init, Fresh
<1>4. ASSUME InMemory PROVE scan = <<>>
  <2> DEFINE folders == setup.folders
             n == 0
  <2>1. folders = <<>>
    BY <1>2, <1>4, PreloadsAssumption DEF InMemory
  <2>2. DOMAIN folders = 1 .. n /\ n \in Nat
    BY <2>1
  <2>3. ScanFolders = [i \in DOMAIN folders |-> Folder(Canonical(folders[i]), 0)]
    BY DEF ScanFolders
  <2> HIDE DEF folders, n
  <2>4. ScanFolders \in Seq(ScanTask)
    BY <1>2, ScanFoldersIsScan
  <2>5. DOMAIN ScanFolders = 1 .. n
    BY <2>2, <2>3
  <2>6. Len(ScanFolders) = n
    BY <2>2, <2>4, <2>5, LenProperties
  <2>7. ScanFolders = <<>>
    BY <2>4, <2>6, EmptySeq DEF n
  <2>8. QED
    BY <1>2, <2>7
<1>5. QED
  BY <1>1, <1>2, <1>3, <1>4 DEF BesideInv

LEMMA FindBaseFinds ==
    ASSUME setup \in Setups, JobOK(job), FindBase
    PROVE  job'.base = BaseFor /\ job'.source = job.source
<1> DEFINE base == BaseFor
           tasks == Tasks(base, job.reference)
           search == Reported(tasks)
           k == [job EXCEPT !.base = base, !.todo = tasks, !.search = search]
<1>1. job \in Job /\ job' = Seek(k)
  BY DEF FindBase, JobOK
<1>2. base \in Path /\ job.reference \in Path
  BY <1>1, BaseIsPath DEF Job
<1>3. tasks \in Todo
  BY <1>2, TasksAreTasks
<1>4. search \in Seq(Path)
  BY <1>3, ReportedIsPaths
<1> HIDE DEF base, tasks, search
<1>5. k \in Job /\ k.base = base /\ k.source = job.source
  BY <1>1, <1>2, <1>3, <1>4 DEF Job
<1> HIDE DEF k
<1>6. QED
  BY <1>1, <1>5, SeekKeepsBase DEF base

LEMMA FindBaseIsBeside ==
    ASSUME KeysInFolders, BesideInv, FindBase, NEW path \in job.source,
           path \in filemap \/ Readable(disk, Place(path))
    PROVE  IsBeside(job'.base, path)
<1>1. setup \in Setups /\ JobOK(job) /\ job \in Job /\ disk \subseteq Placeable \cup Fixed
  BY DEF BesideInv, IInv, JobOK
<1>2. path \in Given /\ \A other \in job.source : other = path
  BY <1>1 DEF BesideInv, Job
<1>3. BaseFor = FolderOf(path)
  <2> DEFINE raw == IF job.source = {} THEN BasePath ELSE CHOOSE other \in job.source : TRUE
  <2>1. raw = path
    BY <1>2
  <2>2. BaseFor = IF raw = EmptyPath \/ ~IsFile(raw) THEN raw ELSE FolderOf(raw)
    BY DEF BaseFor
  <2> HIDE DEF raw
  <2>3. IsFile(path) /\ path # EmptyPath
    BY <1>2 DEF IsFile, Preload, Given
  <2>4. QED
    BY <2>1, <2>2, <2>3
<1>4. job'.base = FolderOf(path)
  BY <1>1, <1>3, FindBaseFinds
<1>5. CASE ~InMemory
  BY <1>4, <1>5 DEF FolderOf, IsBeside
<1>6. CASE InMemory
  <2>1. Placeable \cup Fixed = {} /\ filemap = setup.preload
    BY <1>1, <1>6, ResolversAssumption DEF InMemory, Placeable, Fixed, BesideInv
  <2>2. path \in setup.preload
    BY <1>1, <2>1 DEF Readable
  <2>3. Last(path) # Nil /\ ~(Len(path) = 2 /\ IsAbsolute(path))
    BY <1>1, <1>6, <2>2 DEF InMemory, KeysInFolders
  <2>4. Beside(SourceDir(path), path)
    BY <1>2, <2>3, SourceDirIsBeside DEF Given
  <2>5. QED
    BY <1>4, <1>6, <2>4 DEF FolderOf, IsBeside
<1>7. QED
  BY <1>5, <1>6

LEMMA BesideStays ==
    ASSUME KeysInFolders, BesideInv, [WatchedNext]_watched
    PROVE  BesideInv'
<1> DEFINE There(path) == path \in filemap \/ Readable(steady, Place(path))
<1>1. IInv /\ IInv'
  BY InvariantStays DEF BesideInv
<1>2. setup \in Setups /\ JobOK(job) /\ steady \subseteq disk /\ setup' = setup
  BY <1>1, SetupStays DEF IInv
<1>3. /\ InMemory => scan = <<>> /\ filemap = setup.preload
      /\ scan # <<>> => job.source = {}
      /\ \A path, other \in job.source : path = other
      /\ \A path \in job.source : Settled(job) /\ There(path) => IsBeside(job.base, path)
  BY DEF BesideInv
<1>4. /\ scan = <<>> => scan' = <<>> /\ filemap' = filemap
      /\ scan # <<>> => UNCHANGED job
      /\ Begin \/ steady' \subseteq steady
  <2>1. scan = <<>> => scan' = <<>> /\ filemap' = filemap
    BY StepCases DEF ListFolder, ReadFile, Change, watched, preloading
  <2>2. scan # <<>> => UNCHANGED job
    BY StepCases DEF Change, watched, preloading
  <2>3. job' = job \/ Begin \/ ~At("done")
    BY StepCases DEF watched, preloading, At, FindBase, Canonicalize, Metadata, Read
  <2>4. Begin \/ steady' \subseteq steady
    BY <2>3 DEF WatchedNext, watched
  <2>5. QED
    BY <2>1, <2>2, <2>4
<1>5. InMemory' = InMemory /\ (InMemory => scan' = <<>> /\ filemap' = setup'.preload)
  BY <1>2, <1>3, <1>4 DEF InMemory
<1>6. CASE Begin
  <2>1. PICK reference \in References,
             source \in {{}} \cup (IF job.result.found THEN {{job.result.full}} ELSE {}) :
           LET fresh == Fresh(reference, source) IN
           job' = IF Root = {} THEN fresh ELSE Probing(fresh, CHOOSE root \in Root : TRUE)
    BY <1>6 DEF Begin
  <2>2. reference \in Path /\ source \in SUBSET Given /\ \A path, other \in source : path = other
    <3>1. job.result.found => job.result.full \in Given
      BY <1>2 DEF JobOK
    <3>2. QED
      BY <1>2, <3>1, SetupType
  <2> DEFINE fresh == Fresh(reference, source)
             path == CHOOSE root \in Root : TRUE
  <2>3. job' = IF Root = {} THEN fresh ELSE Probing(fresh, path)
    BY <2>1
  <2>4. fresh.source = source
    BY DEF Fresh
  <2>5. fresh \in Job /\ fresh.root = {} /\ fresh.at = "base"
    BY <2>2, FreshIsOK
  <2> HIDE DEF fresh, path
  <2>6. job'.source = source /\ ~Settled(job')
    BY <2>3, <2>4, <2>5 DEF Probing, Probe, Job, Settled
  <2>7. scan # <<>> => source = {}
    BY <1>3, <1>4, <2>6
  <2>8. scan' # <<>> => job'.source = {}
    BY <1>4, <2>6, <2>7
  <2>9. ~Settled(job)'
    BY <2>6 DEF Settled
  <2>10. QED
    BY <1>1, <1>5, <2>2, <2>6, <2>8, <2>9 DEF BesideInv
<1>7. CASE ~Begin
  <2>1. steady' \subseteq steady
    BY <1>4, <1>7
  <2>2. job'.source = job.source
    BY <1>2, <1>7, StepCases, FindBaseFinds, BaseStays DEF watched, preloading
  <2>3. ASSUME NEW path \in job.source, Settled(job'), There(path)
        PROVE  IsBeside(job'.base, path)
    <3>1. CASE FindBase
      <4>1. path \in filemap \/ Readable(disk, Place(path))
        BY <1>2, <2>3, MoreReadable
      <4>2. QED
        BY <3>1, <4>1, FindBaseIsBeside
    <3>2. CASE Canonicalize \/ Metadata \/ Read
      BY <1>2, <1>3, <2>3, <3>2, BaseStays
    <3>3. CASE job' = job
      BY <1>3, <2>3, <3>3
    <3>4. QED
      BY <1>7, <3>1, <3>2, <3>3, StepCases DEF watched, preloading
  <2>4. ASSUME NEW path \in job'.source, Settled(job'),
               path \in filemap' \/ Readable(steady, Place(path))'
        PROVE  IsBeside(job.base, path)'
    <3>1. scan = <<>>
      BY <1>3, <2>2, <2>4
    <3>2. There(path)
      BY <1>2, <1>4, <2>1, <2>4, <3>1, ReadableBefore
    <3>3. IsBeside(job'.base, path)
      BY <2>2, <2>3, <2>4, <3>2
    <3>4. QED
      BY <1>2, <1>5, <3>3 DEF IsBeside, Dir, Native
  <2>5. /\ scan' # <<>> => job'.source = {}
        /\ \A path, other \in job'.source : path = other
    BY <1>3, <1>4, <2>2
  <2>6. QED
    BY <1>1, <1>5, <2>4, <2>5 DEF BesideInv, Settled
<1>8. QED
  BY <1>6, <1>7

(***************************************************************************)
(* For as long as a source is to be had, on the disk or in memory alone,   *)
(* the references in it are looked for in its folder: base_for takes it    *)
(* for a file whatever becomes of the rest of the filesystem.  A key of a  *)
(* MapResolver has to name something, below a folder or in none:           *)
(* source_dir cuts "/a" to "/", and what is joined to that has two         *)
(* separators.                                                             *)
(***************************************************************************)
THEOREM ReferencesStayBeside ==
    ASSUME KeysInFolders
    PROVE  WatchedSpec => []BesideItsSource
<1>1. WatchedInit => BesideInv
  BY BesideAtFirst
<1>2. BesideInv /\ [WatchedNext]_watched => BesideInv'
  BY BesideStays
<1>3. BesideInv => BesideItsSource
  BY DEF BesideInv, BesideItsSource, Settled, IsBeside, Preload
<1>4. QED
  BY <1>1, <1>2, <1>3, PTL DEF WatchedSpec
================================================================================
