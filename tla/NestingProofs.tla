----------------------------- MODULE NestingProofs -----------------------------
(***************************************************************************)
(* How deep the parses of Loads nest, which threads they run on, and what  *)
(* they find shared: theorems for any documents, sources, callers,         *)
(* instances, depth cap and number of threads.                             *)
(***************************************************************************)
EXTENDS LoadsProofs, FiniteSetTheorems

\* The height of a frame: the chain its references are checked against.
Height(c, i) == Len(Ancestors(stack[c][i]))

LEMMA HeightType ==
    ASSUME IInv, NEW c \in Callers, NEW i \in 1 .. Len(stack[c])
    PROVE  Height(c, i) \in Nat /\ Height(c, i) <= MaxDepth
<1>1. stack[c][i] \in GoodFrame /\ stack[c][i] \in Frame
  BY StackType
<1>2. Ancestors(stack[c][i]) \in Seq(Sources)
  BY <1>1, ChainIsSeq
<1>3. QED
  BY <1>1, <1>2, LenProperties DEF Height, GoodFrame

LEMMA HeightGrows ==
    ASSUME FullPaths, IInv, LinksInv, NEW c \in Callers, NEW i \in 1 .. Len(stack[c]) - 1
    PROVE  Height(c, i + 1) = Height(c, i) + 1
  BY LinkedFrames, LinkedChain DEF Height

LEMMA HeightsFromBottom ==
    ASSUME FullPaths, IInv, LinksInv, NEW c \in Callers
    PROVE  \A i \in 1 .. Len(stack[c]) : Height(c, i) = Height(c, 1) + i - 1
<1> DEFINE n == Len(stack[c])
           T == {k \in Nat : k + 1 <= n => Height(c, k + 1) = Height(c, 1) + k}
<1>1. n \in Nat /\ \A i \in 1 .. n : Height(c, i) \in Nat
  BY StackType, HeightType
<1>2. \A i \in 1 .. n - 1 : Height(c, i + 1) = Height(c, i) + 1
  BY HeightGrows
<1> HIDE DEF n
<1>3. 0 \in T
  BY <1>1
<1>4. ASSUME NEW k \in T PROVE k + 1 \in T
  <2>1. k \in Nat /\ k + 1 \in Nat
    OBVIOUS
  <2>2. CASE (k + 1) + 1 <= n
    <3>1. k + 1 \in 1 .. n - 1 /\ k + 1 <= n
      BY <1>1, <2>1, <2>2
    <3>2. Height(c, k + 1) = Height(c, 1) + k
      BY <3>1
    <3>3. Height(c, (k + 1) + 1) = Height(c, k + 1) + 1
      BY <1>2, <3>1
    <3>4. Height(c, 1) \in Nat
      BY <1>1, <2>1, <2>2
    <3>5. QED
      BY <2>1, <3>2, <3>3, <3>4
  <2>3. CASE ~((k + 1) + 1 <= n)
    BY <2>1, <2>3
  <2>4. QED
    BY <2>2, <2>3
<1>5. T = Nat
  <2>1. T \in SUBSET Nat
    OBVIOUS
  <2> HIDE DEF T
  <2>2. QED
    BY <1>3, <1>4, <2>1, NatSetInduction
<1>6. ASSUME NEW i \in 1 .. n PROVE Height(c, i) = Height(c, 1) + i - 1
  <2>1. i - 1 \in Nat /\ (i - 1) + 1 = i /\ i <= n
    BY <1>1
  <2>2. i - 1 \in T
    BY <1>5, <2>1
  <2>3. Height(c, i) = Height(c, 1) + (i - 1)
    BY <2>1, <2>2
  <2>4. Height(c, 1) \in Nat
    BY <1>1, <2>1
  <2>5. QED
    BY <2>1, <2>3, <2>4
<1>7. QED
  BY <1>6 DEF n

LEMMA StacksCapped ==
    ASSUME FullPaths, IInv, LinksInv
    PROVE  NestingBounded
<1> SUFFICES ASSUME NEW c \in Callers PROVE Len(stack[c]) <= MaxDepth + 1
  BY DEF NestingBounded
<1> DEFINE n == Len(stack[c])
<1>1. n \in Nat /\ MaxDepth \in Nat
  BY StackType, GraphAssumption
<1>2. n \in 1 .. n /\ 1 \in 1 .. n =>
        /\ Height(c, n) = Height(c, 1) + n - 1
        /\ Height(c, n) \in Nat /\ Height(c, n) <= MaxDepth
        /\ Height(c, 1) \in Nat
  BY HeightsFromBottom, HeightType
<1> HIDE DEF n
<1>3. n <= MaxDepth + 1
  BY <1>1, <1>2
<1>4. QED
  BY <1>3 DEF n

(***************************************************************************)
(* Whatever the documents include, a caller never has more than            *)
(* max_depth + 1 parses on one another: a nested parse is as deep as its   *)
(* chain is long, and the depth check caps the chain.                      *)
(***************************************************************************)
THEOREM NestingIsBounded ==
    ASSUME FullPaths
    PROVE  Spec => []NestingBounded
<1>1. IInv /\ LinksInv => NestingBounded
  BY StacksCapped
<1>2. QED
  BY <1>1, Invariance, ParsesLinked, PTL

(***************************************************************************)
(* The threads.                                                            *)
(***************************************************************************)
LEMMA OneOfTwoNeedsThread ==
    ASSUME NEW n \in Nat
    PROVE  NeedsThread(n) \/ NeedsThread(n + 1)
  BY DEF NeedsThread, SEGMENT

LEMMA SegmentsAlternate ==
    ASSUME FullPaths, IInv, LinksInv
    PROVE  ThreadStackBounded
<1> SUFFICES ASSUME NEW c \in Callers, NEW i \in 1 .. Len(stack[c]) - SEGMENT
             PROVE  \E j \in i + 1 .. i + SEGMENT : stack[c][j].segment
  BY DEF ThreadStackBounded
<1>1. i \in 1 .. Len(stack[c]) - 1 /\ i + 1 \in 1 .. Len(stack[c]) - 1 /\ i \in Nat
  <2> DEFINE n == Len(stack[c])
  <2>1. n \in Nat /\ i \in 1 .. n - 2
    BY StackType DEF SEGMENT
  <2> HIDE DEF n
  <2>2. i \in 1 .. n - 1 /\ i + 1 \in 1 .. n - 1 /\ i \in Nat
    BY <2>1
  <2>3. QED
    BY <2>2 DEF n
<1>2. /\ stack[c][i + 1].segment = NeedsThread(Height(c, i))
      /\ stack[c][(i + 1) + 1].segment = NeedsThread(Height(c, i + 1))
  BY <1>1 DEF LinksInv, LinksOf, Link, Height
<1>3. Height(c, i + 1) = Height(c, i) + 1
  BY <1>1, HeightGrows
<1>4. Height(c, i) \in Nat
  BY <1>1, LinkedFrames, HeightType
<1>5. stack[c][i + 1].segment \/ stack[c][(i + 1) + 1].segment
  BY <1>2, <1>3, <1>4, OneOfTwoNeedsThread
<1>6. i + 1 \in i + 1 .. i + SEGMENT /\ (i + 1) + 1 \in i + 1 .. i + SEGMENT
  BY <1>1 DEF SEGMENT
<1>7. QED
  BY <1>5, <1>6

(***************************************************************************)
(* No thread has more than SEGMENT parses on its stack, however deep the   *)
(* documents nest (parse_nested).                                          *)
(***************************************************************************)
THEOREM ThreadStacksAreBounded ==
    ASSUME FullPaths
    PROVE  Spec => []ThreadStackBounded
<1>1. IInv /\ LinksInv => ThreadStackBounded
  BY SegmentsAlternate
<1>2. QED
  BY <1>1, Invariance, ParsesLinked, PTL

(***************************************************************************)
(* The segment threads alive, counted: every step that starts or ends a    *)
(* parse on a thread of its own counts it.                                 *)
(***************************************************************************)
Levels == 1 .. MaxDepth + 1

SegmentFrames ==
    {p \in Callers \X Levels : p[2] \in DOMAIN stack[p[1]] /\ stack[p[1]][p[2]].segment}

ThreadsInv == IsFiniteSet(SegmentFrames) /\ threads = Cardinality(SegmentFrames)

\* Is the frame of caller c at height i one that runs on its own thread?
OnThread(c, i) == <<c, i>> \in SegmentFrames

LEMMA OnThreadType ==
    ASSUME IInv, NEW c \in Callers, NEW i
    PROVE  OnThread(c, i) <=>
               i \in Levels /\ i \in 1 .. Len(stack[c]) /\ stack[c][i].segment
<1>1. DOMAIN stack[c] = 1 .. Len(stack[c])
  BY StackType
<1>2. QED
  BY <1>1 DEF OnThread, SegmentFrames

LEMMA NextStackType ==
    ASSUME IInv', NEW c \in Callers
    PROVE  /\ Len(stack'[c]) \in Nat
           /\ DOMAIN stack'[c] = 1 .. Len(stack'[c])
<1>1. stack'[c] \in Seq(GoodFrame)
  BY DEF IInv, StackInv
<1>2. QED
  BY <1>1, LenProperties

LEMMA NextOnThreadType ==
    ASSUME IInv', NEW c \in Callers, NEW i
    PROVE  <<c, i>> \in SegmentFrames' <=>
               i \in Levels /\ i \in 1 .. Len(stack'[c]) /\ stack'[c][i].segment
<1>1. DOMAIN stack'[c] = 1 .. Len(stack'[c])
  BY NextStackType
<1>2. QED
  BY <1>1 DEF SegmentFrames, Levels

\* The other callers' frames stay, so the frames of c decide.
LEMMA SegmentFramesOfOthers ==
    ASSUME IInv, IInv', NEW c \in Callers, Others(c)
    PROVE  \A d \in Callers, i \in Levels :
              d # c => (<<d, i>> \in SegmentFrames' <=> <<d, i>> \in SegmentFrames)
<1> SUFFICES ASSUME NEW d \in Callers, NEW i \in Levels, d # c
             PROVE  <<d, i>> \in SegmentFrames' <=> OnThread(d, i)
  BY DEF OnThread
<1>1. stack'[d] = stack[d]
  BY DEF Others
<1>2. QED
  BY <1>1, OnThreadType, NextOnThreadType

LEMMA SamePairs ==
    ASSUME NEW A, NEW B, NEW C \in SUBSET (A \X B), NEW D \in SUBSET (A \X B),
           \A x \in A, y \in B : <<x, y>> \in C <=> <<x, y>> \in D
    PROVE  C = D
<1>1. ASSUME NEW p \in A \X B PROVE p \in C <=> p \in D
  <2>1. PICK x \in A, y \in B : p = <<x, y>>
    OBVIOUS
  <2>2. QED
    BY <2>1
<1>2. QED
  BY <1>1

LEMMA SegmentFramesType ==
    /\ SegmentFrames \in SUBSET (Callers \X Levels)
    /\ SegmentFrames' \in SUBSET (Callers \X Levels)
  BY DEF SegmentFrames, Levels

LEMMA NoFrameMore ==
    ASSUME IInv, IInv', NEW c \in Callers, Others(c),
           \A i \in Levels : <<c, i>> \in SegmentFrames' <=> OnThread(c, i)
    PROVE  SegmentFrames' = SegmentFrames
<1>1. \A d \in Callers, i \in Levels :
         <<d, i>> \in SegmentFrames' <=> <<d, i>> \in SegmentFrames
  BY SegmentFramesOfOthers DEF OnThread
<1>2. QED
  BY <1>1, SamePairs, SegmentFramesType

LEMMA OneFrameMore ==
    ASSUME IInv, IInv', NEW c \in Callers, Others(c), NEW j \in Levels,
           \A i \in Levels : <<c, i>> \in SegmentFrames' <=> OnThread(c, i) \/ i = j
    PROVE  SegmentFrames' = SegmentFrames \cup {<<c, j>>}
<1> DEFINE S == SegmentFrames \cup {<<c, j>>}
<1>1. \A d \in Callers, i \in Levels : <<d, i>> \in SegmentFrames' <=> <<d, i>> \in S
  BY SegmentFramesOfOthers DEF OnThread
<1>2. S \in SUBSET (Callers \X Levels)
  BY SegmentFramesType
<1> HIDE DEF S
<1>3. SegmentFrames' = S
  BY <1>1, <1>2, SamePairs, SegmentFramesType
<1>4. QED
  BY <1>3 DEF S

LEMMA OneFrameLess ==
    ASSUME IInv, IInv', NEW c \in Callers, Others(c), NEW j \in Levels,
           \A i \in Levels : <<c, i>> \in SegmentFrames' <=> OnThread(c, i) /\ i # j
    PROVE  SegmentFrames' = SegmentFrames \ {<<c, j>>}
<1> DEFINE S == SegmentFrames \ {<<c, j>>}
<1>1. \A d \in Callers, i \in Levels : <<d, i>> \in SegmentFrames' <=> <<d, i>> \in S
  BY SegmentFramesOfOthers DEF OnThread
<1>2. S \in SUBSET (Callers \X Levels)
  BY SegmentFramesType
<1> HIDE DEF S
<1>3. SegmentFrames' = S
  BY <1>1, <1>2, SamePairs, SegmentFramesType
<1>4. QED
  BY <1>3 DEF S

LEMMA ThreadsSame ==
    ASSUME ThreadsInv, SegmentFrames' = SegmentFrames, threads' = threads
    PROVE  ThreadsInv'
  BY DEF ThreadsInv

LEMMA ThreadsAdvance ==
    ASSUME IInv, IInv', NEW c \in Callers, ThreadsInv, Advances(c)
    PROVE  ThreadsInv'
<1>1. PICK g : Replaces(c, g) /\ Same(g, Running(c)) /\ threads' = threads
  BY DEF Advances
<1> DEFINE n == Len(stack[c])
<1>2. n \in Nat /\ n > 0 /\ Running(c) = stack[c][n]
  BY <1>1, StackType, TopOf DEF Replaces, Idle
<1>3. Len(stack'[c]) = n /\ stack'[c][n] = g /\ \A i \in 1 .. n - 1 : stack'[c][i] = stack[c][i]
  BY <1>1 DEF Replaces, SameBelow
<1>4. g.segment = stack[c][n].segment
  BY <1>1, <1>2 DEF Same
<1>5. \A i : OnThread(c, i) <=> i \in Levels /\ i \in 1 .. n /\ stack[c][i].segment
  BY OnThreadType
<1>6. \A i : <<c, i>> \in SegmentFrames' <=> i \in Levels /\ i \in 1 .. n /\ stack'[c][i].segment
  BY <1>3, NextOnThreadType
<1> HIDE DEF n
<1>7. \A i \in 1 .. n : stack'[c][i].segment <=> stack[c][i].segment
  BY <1>2, <1>3, <1>4
<1>8. \A i \in Levels : <<c, i>> \in SegmentFrames' <=> OnThread(c, i)
  BY <1>5, <1>6, <1>7
<1>9. SegmentFrames' = SegmentFrames
  BY <1>1, <1>8, NoFrameMore DEF Replaces
<1>10. QED
  BY <1>1, <1>9, ThreadsSame

LEMMA ThreadsOpen ==
    ASSUME IInv, IInv', NEW c \in Callers, ThreadsInv, Opens(c)
    PROVE  ThreadsInv'
<1>1. PICK h : Begins(c, h) /\ Bottom(h) /\ threads' = threads
  BY DEF Opens
<1>2. Len(stack[c]) = 0 /\ Len(stack'[c]) = 1 /\ stack'[c][1].segment = FALSE
  BY <1>1, StackType DEF Begins, Bottom
<1>3. \A i : ~OnThread(c, i) /\ <<c, i>> \notin SegmentFrames'
  BY <1>2, OnThreadType, NextOnThreadType
<1>4. SegmentFrames' = SegmentFrames
  BY <1>1, <1>3, NoFrameMore DEF Begins
<1>5. QED
  BY <1>1, <1>4, ThreadsSame

LEMMA ThreadsClose ==
    ASSUME IInv, IInv', LinksInv, NEW c \in Callers, ThreadsInv, Closes(c)
    PROVE  ThreadsInv'
<1>1. Clears(c) /\ Joined(Running(c))
  BY DEF Closes
<1>2. Len(stack[c]) = 1 /\ Len(stack'[c]) = 0
  BY <1>1, EmptySeq DEF Clears
<1>3. Running(c) = stack[c][1] /\ stack[c][1].segment = FALSE
  BY <1>2, StackType, TopOf DEF LinksInv, LinksOf, Bottom, Idle
<1>4. \A i : ~OnThread(c, i) /\ <<c, i>> \notin SegmentFrames'
  BY <1>2, <1>3, OnThreadType, NextOnThreadType
<1>5. SegmentFrames' = SegmentFrames
  BY <1>1, <1>4, NoFrameMore DEF Clears
<1>6. QED
  BY <1>1, <1>3, <1>5, ThreadsSame DEF Joined

LEMMA ThreadsDescend ==
    ASSUME IInv, IInv', NestingBounded', NEW c \in Callers, ThreadsInv, Descends(c)
    PROVE  ThreadsInv'
<1>1. PICK g, h : /\ Pushes(c, g, h) /\ Same(g, Running(c))
                  /\ threads' = IF h.segment THEN threads + 1 ELSE threads
  BY DEF Descends
<1> DEFINE n == Len(stack[c])
           p == <<c, n + 1>>
<1>2. n \in Nat /\ n > 0 /\ Running(c) = stack[c][n]
  BY <1>1, StackType, TopOf DEF Pushes, Idle
<1>3. /\ Len(stack'[c]) = n + 1 /\ stack'[c][n] = g /\ stack'[c][n + 1] = h
      /\ \A i \in 1 .. n - 1 : stack'[c][i] = stack[c][i]
  BY <1>1 DEF Pushes, SameBelow
<1>4. g.segment = stack[c][n].segment
  BY <1>1, <1>2 DEF Same
<1>5. \A i : OnThread(c, i) <=> i \in Levels /\ i \in 1 .. n /\ stack[c][i].segment
  BY OnThreadType
<1>6. \A i : <<c, i>> \in SegmentFrames' <=>
                 i \in Levels /\ i \in 1 .. n + 1 /\ stack'[c][i].segment
  BY <1>3, NextOnThreadType
<1>7. n + 1 \in Levels
  BY <1>2, <1>3, GraphAssumption DEF NestingBounded, Levels
<1> HIDE DEF n
<1>8. \A i \in 1 .. n : stack'[c][i].segment <=> stack[c][i].segment
  BY <1>2, <1>3, <1>4
<1>9. \A i \in 1 .. n + 1 : i \in 1 .. n \/ i = n + 1
  BY <1>2
<1>10. n + 1 \notin 1 .. n /\ n + 1 \in 1 .. n + 1 /\ \A i \in 1 .. n : i \in 1 .. n + 1
  BY <1>2
<1>11. p \notin SegmentFrames /\ p \in Callers \X Levels
  BY <1>5, <1>7, <1>10 DEF OnThread
<1>12. CASE h.segment
  <2>1. \A i \in Levels : <<c, i>> \in SegmentFrames' <=> OnThread(c, i) \/ i = n + 1
    BY <1>3, <1>5, <1>6, <1>8, <1>9, <1>10, <1>12
  <2>2. SegmentFrames' = SegmentFrames \cup {p}
    BY <1>1, <1>7, <2>1, OneFrameMore DEF Pushes
  <2> HIDE DEF p
  <2>3. threads' = threads + 1
    BY <1>1, <1>12
  <2>4. QED
    BY <1>11, <2>2, <2>3, FS_AddElement DEF ThreadsInv
<1>13. CASE ~h.segment
  <2>1. \A i \in Levels : <<c, i>> \in SegmentFrames' <=> OnThread(c, i)
    BY <1>3, <1>5, <1>6, <1>8, <1>9, <1>10, <1>13
  <2>2. SegmentFrames' = SegmentFrames
    BY <1>1, <2>1, NoFrameMore DEF Pushes
  <2>3. QED
    BY <1>1, <1>13, <2>2, ThreadsSame
<1>14. QED
  BY <1>12, <1>13

LEMMA ThreadsResume ==
    ASSUME IInv, IInv', NestingBounded, NEW c \in Callers, ThreadsInv, Resumes(c)
    PROVE  ThreadsInv'
<1>1. PICK g : /\ Pops(c, g) /\ Same(g, stack[c][Len(stack[c]) - 1])
               /\ Joined(Running(c))
  BY DEF Resumes
<1> DEFINE n == Len(stack[c])
           p == <<c, n>>
<1>2. n \in Nat /\ n > 1 /\ Running(c) = stack[c][n]
  BY <1>1, StackType, TopOf DEF Pops, Idle
<1>3. /\ Len(stack'[c]) = n - 1 /\ stack'[c][n - 1] = g
      /\ \A i \in 1 .. (n - 1) - 1 : stack'[c][i] = stack[c][i]
  BY <1>1 DEF Pops, SameBelow
<1>4. g.segment = stack[c][n - 1].segment
  BY <1>1, <1>2 DEF Same
<1>5. \A i : OnThread(c, i) <=> i \in Levels /\ i \in 1 .. n /\ stack[c][i].segment
  BY OnThreadType
<1>6. \A i : <<c, i>> \in SegmentFrames' <=>
                 i \in Levels /\ i \in 1 .. n - 1 /\ stack'[c][i].segment
  BY <1>3, NextOnThreadType
<1>7. n \in Levels
  BY <1>2, GraphAssumption DEF NestingBounded, Levels
<1> HIDE DEF n
<1>8. \A i \in 1 .. n - 1 : stack'[c][i].segment <=> stack[c][i].segment
  BY <1>2, <1>3, <1>4
<1>9. \A i \in 1 .. n : i \in 1 .. n - 1 \/ i = n
  BY <1>2
<1>10. n \notin 1 .. n - 1 /\ n \in 1 .. n /\ \A i \in 1 .. n - 1 : i \in 1 .. n
  BY <1>2
<1>11. CASE stack[c][n].segment
  <2>1. \A i \in Levels : <<c, i>> \in SegmentFrames' <=> OnThread(c, i) /\ i # n
    BY <1>5, <1>6, <1>8, <1>9, <1>10
  <2>2. SegmentFrames' = SegmentFrames \ {p}
    BY <1>1, <1>7, <2>1, OneFrameLess DEF Pops
  <2>3. p \in SegmentFrames
    BY <1>5, <1>7, <1>10, <1>11 DEF OnThread
  <2> HIDE DEF p
  <2>4. threads' = threads - 1
    BY <1>1, <1>2, <1>11 DEF Joined
  <2>5. QED
    BY <2>2, <2>3, <2>4, FS_RemoveElement DEF ThreadsInv
<1>12. CASE ~stack[c][n].segment
  <2>1. \A i \in Levels : <<c, i>> \in SegmentFrames' <=> OnThread(c, i)
    BY <1>5, <1>6, <1>8, <1>9, <1>10, <1>12
  <2>2. SegmentFrames' = SegmentFrames
    BY <1>1, <2>1, NoFrameMore DEF Pops
  <2>3. threads' = threads
    BY <1>1, <1>2, <1>12 DEF Joined
  <2>4. QED
    BY <2>2, <2>3, ThreadsSame
<1>13. QED
  BY <1>11, <1>12

LEMMA ThreadsKept ==
    ASSUME IInv, IInv', LinksInv, NestingBounded, NestingBounded', ThreadsInv, [Next]_vars
    PROVE  ThreadsInv'
<1>1. CASE UNCHANGED <<stack, published, threads>>
  <2>1. SegmentFrames' = SegmentFrames
    BY <1>1 DEF SegmentFrames, Levels
  <2>2. QED
    BY <1>1, <2>1, ThreadsSame
<1>2. QED
  BY <1>1, StepShapes, ThreadsOpen, ThreadsAdvance, ThreadsDescend, ThreadsResume, ThreadsClose

LEMMA NoThreadsAtFirst == Init => ThreadsInv
<1> SUFFICES ASSUME Init PROVE ThreadsInv
  OBVIOUS
<1>1. IInv
  BY InitEstablishes
<1>2. \A c \in Callers : Len(stack[c]) = 0
  BY EmptySeq DEF Init
<1>3. \A c \in Callers : \A i \in Levels : ~OnThread(c, i)
  BY <1>1, <1>2, OnThreadType
<1>4. SegmentFrames = {}
  BY <1>3 DEF OnThread, SegmentFrames
<1>5. QED
  BY <1>4, FS_EmptySet DEF Init, ThreadsInv

(***************************************************************************)
(* No segment thread outlives the parse it was started for: the threads    *)
(* alive are at every moment exactly the segment frames on the stacks.     *)
(***************************************************************************)
THEOREM ThreadsAreJoined ==
    ASSUME FullPaths
    PROVE  Spec => []ThreadsJoined
<1>1. IInv /\ IInv' /\ LinksInv /\ NestingBounded /\ NestingBounded' /\ ThreadsInv
          /\ [Next]_vars => ThreadsInv'
  BY ThreadsKept
<1>2. ThreadsInv => ThreadsJoined
  BY DEF ThreadsInv, ThreadsJoined, SegmentFrames, Levels
<1>3. QED
  BY <1>1, <1>2, NoThreadsAtFirst, Invariance, ParsesLinked, NestingIsBounded, PTL DEF Spec

(***************************************************************************)
(* A text with references publishes its parser before it reads the first   *)
(* one, and the slot is never emptied again: as long as it is empty, every *)
(* parse in progress is of a text without references.                      *)
(***************************************************************************)
PublishedFrames ==
    {f \in GoodFrame : /\ f.pc # "unpublished"
                       /\ published = NoInstance => Refs[f.name] = <<>>}

PublishedInv == FramesIn(PublishedFrames)

LEMMA ReferencesNotEmpty ==
    ASSUME NEW f \in Frame, HasReference(f)
    PROVE  Refs[f.name] # <<>>
<1>1. f.at \in Nat \ {0} /\ f.at <= Len(Refs[f.name])
  BY DEF Frame, HasReference
<1>2. Len(<<>>) = 0
  BY EmptySeq
<1>3. QED
  BY <1>1, <1>2

LEMMA PublishedKept ==
    ASSUME IInv, IInv', PublishedInv, [Next]_vars
    PROVE  PublishedInv'
<1> DEFINE S == PublishedFrames
<1>1. ASSUME UNCHANGED published, NextFramesIn(S)
      PROVE  PublishedInv'
  <2>1. PublishedFrames' = S
    BY <1>1 DEF PublishedFrames
  <2>2. QED
    BY <1>1, <2>1 DEF PublishedInv, FramesIn, NextFramesIn
<1>2. CASE UNCHANGED <<stack, published, threads>>
  BY <1>2 DEF PublishedInv, FramesIn, PublishedFrames
<1>3. ASSUME NEW c \in Callers, ~Idle(c)
      PROVE  Running(c) \in S /\ Running(c) \in Frame
  BY <1>3, TopOf DEF PublishedInv, FramesIn
<1>4. ASSUME NEW c \in Callers, Opens(c)
      PROVE  PublishedInv'
  <2>1. PICK h : /\ Begins(c, h) /\ h.pc = "scan"
                 /\ published' = NoInstance => published = NoInstance /\ Refs[h.name] = <<>>
    BY <1>4 DEF Opens
  <2>2. h \in GoodFrame
    BY <2>1, NewFramesType
  <2> DEFINE U == {f \in GoodFrame : /\ f.pc # "unpublished"
                                     /\ published' = NoInstance => Refs[f.name] = <<>>}
  <2>3. FramesIn(U) /\ h \in U
    BY <2>1, <2>2 DEF PublishedInv, FramesIn, PublishedFrames
  <2> HIDE DEF U
  <2>4. NextFramesIn(U)
    BY <2>1, <2>3, FramesBegun
  <2>5. QED
    BY <2>4 DEF U, PublishedInv, FramesIn, NextFramesIn, PublishedFrames
<1>5. ASSUME NEW c \in Callers, Advances(c)
      PROVE  PublishedInv'
  <2>1. PICK g : /\ Replaces(c, g) /\ Same(g, Running(c))
                 /\ g.pc = "unpublished" => published = NoInstance /\ HasReference(Running(c))
                 /\ UNCHANGED published
    BY <1>5 DEF Advances
  <2>2. Running(c) \in S /\ Running(c) \in Frame
    BY <1>3, <2>1, StackType DEF Idle, Replaces
  <2>3. g \in GoodFrame
    BY <2>1, NewFramesType
  <2>4. g \in S
    BY <2>1, <2>2, <2>3, ReferencesNotEmpty DEF PublishedFrames, Same
  <2> HIDE DEF S
  <2>5. NextFramesIn(S)
    BY <2>1, <2>4, FramesReplaced DEF PublishedInv, S
  <2>6. QED
    BY <1>1, <2>1, <2>5
<1>6. ASSUME NEW c \in Callers, Descends(c)
      PROVE  PublishedInv'
  <2>1. PICK g, h : /\ Pushes(c, g, h) /\ Same(g, Running(c))
                    /\ HasReference(Running(c)) /\ g.pc = "await" /\ h.pc = "scan"
                    /\ UNCHANGED published
    BY <1>6 DEF Descends
  <2>2. Running(c) \in S /\ Running(c) \in Frame
    BY <1>3, <2>1, StackType DEF Idle, Pushes
  <2>3. g \in GoodFrame /\ h \in GoodFrame
    BY <2>1, NewFramesType
  <2>4. published # NoInstance
    BY <2>1, <2>2, ReferencesNotEmpty DEF PublishedFrames
  <2>5. g \in S /\ h \in S
    BY <2>1, <2>3, <2>4 DEF PublishedFrames
  <2> HIDE DEF S
  <2>6. NextFramesIn(S)
    BY <2>1, <2>5, FramesPushed DEF PublishedInv, S
  <2>7. QED
    BY <1>1, <2>1, <2>6
<1>7. ASSUME NEW c \in Callers, Resumes(c)
      PROVE  PublishedInv'
  <2>1. PICK g : /\ Pops(c, g) /\ Same(g, stack[c][Len(stack[c]) - 1])
                 /\ g.pc # "unpublished" /\ UNCHANGED published
    BY <1>7 DEF Resumes
  <2>2. stack[c][Len(stack[c]) - 1] \in S
    <3> DEFINE n == Len(stack[c])
    <3>1. n \in Nat /\ n > 1
      BY <2>1, StackType DEF Pops
    <3> HIDE DEF n
    <3>2. n - 1 \in 1 .. n
      BY <3>1
    <3>3. QED
      BY <3>2 DEF n, PublishedInv, FramesIn
  <2>3. g \in GoodFrame
    BY <2>1, NewFramesType
  <2>4. g \in S
    BY <2>1, <2>2, <2>3 DEF PublishedFrames, Same
  <2> HIDE DEF S
  <2>5. NextFramesIn(S)
    BY <2>1, <2>4, FramesPopped DEF PublishedInv, S
  <2>6. QED
    BY <1>1, <2>1, <2>5
<1>8. ASSUME NEW c \in Callers, Closes(c)
      PROVE  PublishedInv'
  <2>1. Clears(c) /\ UNCHANGED published
    BY <1>8 DEF Closes
  <2> HIDE DEF S
  <2>2. NextFramesIn(S)
    BY <2>1, FramesCleared DEF PublishedInv, S
  <2>3. QED
    BY <1>1, <2>1, <2>2
<1>9. QED
  BY <1>2, <1>4, <1>5, <1>6, <1>7, <1>8, StepShapes

(***************************************************************************)
(* No load ever fails for want of a published parser: the internal error   *)
(* of directive_action cannot be raised.                                   *)
(***************************************************************************)
THEOREM ParserIsPublished == Spec => []AlwaysPublished
<1>1. Init => PublishedInv
  BY EmptySeq DEF Init, PublishedInv, FramesIn
<1>2. IInv /\ IInv' /\ PublishedInv /\ [Next]_vars => PublishedInv'
  BY PublishedKept
<1>3. IInv /\ PublishedInv => AlwaysPublished
  <2> SUFFICES ASSUME IInv, PublishedInv, NEW c \in Callers, ~Idle(c)
               PROVE  Running(c).pc # "unpublished"
    BY DEF AlwaysPublished, At
  <2>1. Running(c) \in PublishedFrames
    BY TopOf DEF PublishedInv, FramesIn
  <2>2. QED
    BY <2>1 DEF PublishedFrames
<1>4. QED
  BY <1>1, <1>2, <1>3, Invariance, PTL DEF Spec

(***************************************************************************)
(* The dependencies.                                                       *)
(***************************************************************************)
LEMMA DepsChange ==
    ASSUME [Next]_vars
    PROVE  UNCHANGED deps \/ \E c \in Callers : Admit(c)
<1>1. CASE UNCHANGED vars \/ Finished
  BY <1>1 DEF vars, Finished
<1>2. ASSUME NEW c \in Callers, NEW d \in Documents, NEW base \in Bases,
             NEW i \in Instances, Start(c, d, base, i)
      PROVE  UNCHANGED deps
  BY <1>2 DEF Start
<1>3. ASSUME NEW c \in Callers, Step(c)
      PROVE  UNCHANGED deps \/ Admit(c)
  BY <1>3 DEF Step, NotFound, Cycle, Depth, MintTicket, GetParser, ProcessText, ParseHere,
              ParseOnThread, Descend, NoThread, Finish, TakeReport, DiscardReport, Fail,
              Abort, Return
<1>4. QED
  BY <1>1, <1>2, <1>3 DEF Next

\* What the target of a text's references is: the text itself, or what stands
\* for a document.
LEMMA TargetStandsForText ==
    ASSUME FullPaths, IInv, LinksInv, NEW c \in Callers, NEW i \in 1 .. Len(stack[c])
    PROVE  LET f == stack[c][i] IN
           \/ f.name \in Documents /\ Target(Ancestors(f)) \in Bases \cup {TOP}
           \/ f.name \in Sources /\ Target(Ancestors(f)) = f.name
<1> DEFINE n == Len(stack[c])
<1>1. n \in Nat /\ i \in 1 .. n
  BY StackType
<1>2. CASE i = 1
  <2> DEFINE f == stack[c][1]
  <2>1. Bottom(f)
    <3>1. n > 0
      <4> HIDE DEF n
      <4>1. QED
        BY <1>1
    <3>2. QED
      BY <3>1 DEF LinksInv, LinksOf
  <2> HIDE DEF f
  <2>2. f.name \in Documents /\ f.path \in Bases /\ f.parents = <<>>
    BY <2>1 DEF Bottom
  <2>3. CASE f.path = NoPath
    <3>1. Ancestors(f) = <<>>
      BY <2>2, <2>3 DEF Ancestors, Chain
    <3>2. QED
      BY <1>2, <2>2, <3>1 DEF Target, f
  <2>4. CASE f.path # NoPath
    <3>1. Ancestors(f) = <<f.path>>
      BY <2>2, <2>4 DEF Ancestors, Chain
    <3>2. Target(Ancestors(f)) = f.path
      BY <3>1 DEF Target, Last
    <3>3. QED
      BY <1>2, <2>2, <3>2 DEF f
  <2>5. QED
    BY <2>3, <2>4
<1>3. CASE i # 1
  <2> DEFINE f == stack[c][i - 1]
             h == stack[c][i]
  <2>1. i - 1 \in 1 .. n - 1 /\ (i - 1) + 1 = i
    <3> HIDE DEF n
    <3>1. QED
      BY <1>1, <1>3
  <2>2. f \in Frame /\ h \in Frame /\ HasReference(f) /\ Link(f, h)
    BY <2>1, LinkedFrames
  <2> HIDE DEF f, h
  <2>3. /\ h.name \in Sources /\ Ancestors(h) = Append(Ancestors(f), h.name)
        /\ Ancestors(f) \in Seq(Sources)
    BY <2>2, LinkedChain
  <2>4. Target(Append(Ancestors(f), h.name)) = h.name
    BY <2>3, AppendTo DEF Target, Last
  <2>5. QED
    BY <2>3, <2>4 DEF h
<1>4. QED
  BY <1>2, <1>3

LEMMA AdmittedIsReference ==
    ASSUME FullPaths, IInv, LinksInv, DepsAreReferences, NEW c \in Callers, Admit(c)
    PROVE  DepsAreReferences'
<1> DEFINE f == Running(c)
           n == Len(stack[c])
           t == Target(Ancestors(f))
           r == Reference(f)
<1>1. ~Idle(c) /\ HasReference(f) /\ deps' = deps \cup {<<t, r>>}
  BY DEF Admit, At, RecordDependency
<1>2. f \in Frame /\ f = stack[c][n] /\ n \in 1 .. n
  BY <1>1, TopOf
<1>3. r \in ToSet(Refs[f.name]) /\ f.name \in Texts
  <2>1. f.name \in Texts /\ f.at \in Nat \ {0} /\ Refs[f.name] \in Seq(Sources)
    BY <1>2, GraphAssumption DEF Frame
  <2>2. f.at \in DOMAIN Refs[f.name]
    BY <1>1, <2>1, LenProperties DEF HasReference
  <2>3. QED
    BY <2>1, <2>2 DEF ToSet, Reference
<1>4. \/ f.name \in Documents /\ t \in Bases \cup {TOP}
      \/ f.name \in Sources /\ t = f.name
  BY <1>2, TargetStandsForText
<1> HIDE DEF f, t, r
<1>5. \/ HoldsReference(t, r)
      \/ t \in Bases \cup {TOP} /\ \E d \in Documents : HoldsReference(d, r)
  BY <1>3, <1>4 DEF HoldsReference
<1>6. ASSUME NEW e \in deps'
      PROVE  \/ HoldsReference(e[1], e[2])
             \/ e[1] \in Bases \cup {TOP} /\ \E d \in Documents : HoldsReference(d, e[2])
  <2>1. CASE e \in deps
    BY <2>1 DEF DepsAreReferences
  <2>2. CASE e = <<t, r>>
    BY <1>5, <2>2
  <2>3. QED
    BY <1>1, <2>1, <2>2
<1>7. QED
  BY <1>6 DEF DepsAreReferences, HoldsReference

(***************************************************************************)
(* Whatever the callers parse at once, each recorded dependency is a       *)
(* reference the text it is recorded for really holds.                     *)
(***************************************************************************)
THEOREM DependenciesAreReferences ==
    ASSUME FullPaths
    PROVE  Spec => []DepsAreReferences
<1>1. Init => DepsAreReferences
  BY DEF Init, DepsAreReferences
<1>2. IInv /\ LinksInv /\ DepsAreReferences /\ [Next]_vars => DepsAreReferences'
  <2> SUFFICES ASSUME IInv, LinksInv, DepsAreReferences, [Next]_vars
               PROVE  DepsAreReferences'
    OBVIOUS
  <2>1. CASE UNCHANGED deps
    BY <2>1 DEF DepsAreReferences, HoldsReference
  <2>2. QED
    BY <2>1, DepsChange, AdmittedIsReference
<1>3. QED
  BY <1>1, <1>2, Invariance, ParsesLinked, PTL DEF Spec

(***************************************************************************)
(* Provenance.  For any set of sources that follows the dependencies, what *)
(* the frames are made of so far is in it, and so is the target each frame *)
(* records under, unless it stands for a document; a frame with a load in  *)
(* progress has recorded it.                                               *)
(***************************************************************************)
Loading == {"mint", "get", "process", "await", "take", "discard", "panic", "unpublished"}

Dependency(f) == <<Target(Ancestors(f)), Reference(f)>>

Roots(R) == R \cup Bases \cup {TOP}

Closed(R, D) == \A e \in D : e[1] \in Roots(R) => e[2] \in R

TracedFrames(R, D) ==
    {f \in GoodFrame : /\ ToSet(f.value) \subseteq R
                       /\ Target(Ancestors(f)) \in Roots(R)
                       /\ f.pc \in Loading => Dependency(f) \in D}

TracedInv ==
    \A R \in SUBSET Sources :
        Closed(R, deps) =>
            /\ FramesIn(TracedFrames(R, deps))
            /\ \A c \in Callers : ToSet(outcome[c].value) \subseteq R

LEMMA ToSetOfConcat ==
    ASSUME NEW S, NEW s \in Seq(S), NEW t \in Seq(S), NEW R,
           ToSet(s) \subseteq R, ToSet(t) \subseteq R
    PROVE  ToSet(s \o t) \subseteq R
<1>1. /\ DOMAIN s = 1 .. Len(s) /\ DOMAIN t = 1 .. Len(t)
      /\ Len(s) \in Nat /\ Len(t) \in Nat
  BY LenProperties
<1>2. /\ s \o t \in Seq(S) /\ Len(s \o t) = Len(s) + Len(t)
      /\ \A i \in 1 .. Len(s) + Len(t) :
            (s \o t)[i] = IF i <= Len(s) THEN s[i] ELSE t[i - Len(s)]
  BY ConcatProperties
<1>3. DOMAIN (s \o t) = 1 .. Len(s) + Len(t)
  BY <1>2, LenProperties
<1>4. ASSUME NEW i \in 1 .. Len(s) + Len(t) PROVE (s \o t)[i] \in R
  <2>1. CASE i <= Len(s)
    <3>1. i \in DOMAIN s /\ (s \o t)[i] = s[i]
      BY <1>1, <1>2, <2>1
    <3>2. QED
      BY <3>1 DEF ToSet
  <2>2. CASE ~(i <= Len(s))
    <3>1. i - Len(s) \in DOMAIN t /\ (s \o t)[i] = t[i - Len(s)]
      BY <1>1, <1>2, <2>2
    <3>2. QED
      BY <3>1 DEF ToSet
  <2>3. QED
    BY <2>1, <2>2
<1>5. QED
  BY <1>3, <1>4 DEF ToSet

LEMMA ToSetOfFew ==
    /\ ToSet(<<>>) = {}
    /\ \A r : ToSet(<<r>>) = {r}
  BY DEF ToSet

LEMMA TracedStill ==
    ASSUME NEW R, NEW D, NEW f \in TracedFrames(R, D), NEW g \in GoodFrame,
           g.path = f.path, g.parents = f.parents, g.value = f.value,
           g.pc \in Loading => Dependency(g) \in D
    PROVE  g \in TracedFrames(R, D)
<1>1. Ancestors(g) = Ancestors(f)
  BY DEF Ancestors
<1>2. QED
  BY <1>1 DEF TracedFrames

LEMMA LoadingIsTraced ==
    ASSUME NEW R, NEW D, Closed(R, D), NEW f \in TracedFrames(R, D), f.pc \in Loading
    PROVE  Reference(f) \in R
<1>1. Dependency(f) \in D /\ Dependency(f)[1] \in Roots(R)
  BY DEF TracedFrames, Dependency
<1>2. Dependency(f)[2] \in R
  BY <1>1 DEF Closed
<1>3. QED
  BY <1>2 DEF Dependency

LEMMA ProcessedIsTraced ==
    ASSUME NEW R \in SUBSET Sources, NEW D, Closed(R, D), NEW f \in TracedFrames(R, D),
           f.pc \in Loading, NEW e, NEW v \in Seq(Sources), ToSet(v) \subseteq R,
           Processed(f, e, v) \in GoodFrame
    PROVE  Processed(f, e, v) \in TracedFrames(R, D)
<1> DEFINE r == Reference(f)
           g == Processed(f, e, v)
<1>1. f \in Frame /\ f \in GoodFrame /\ f.value \in Seq(Sources) /\ ToSet(f.value) \subseteq R
  BY DEF TracedFrames, GoodFrame, Frame
<1>2. r \in R /\ r \in Sources
  BY LoadingIsTraced
<1>3. /\ g.name = f.name /\ g.at = f.at /\ g.path = f.path /\ g.parents = f.parents
  BY <1>1, ProcessedIsSame DEF Same
<1>4. Ancestors(g) = Ancestors(f) /\ Dependency(g) = Dependency(f)
  BY <1>3 DEF Ancestors, Dependency, Reference
<1>5. \/ g.value = f.value
      \/ g.value = (f.value \o <<r>>) \o v
      \/ g.value = (f.value \o <<r>>) \o <<>>
  BY <1>1 DEF Processed, Frame
<1>6. \A w \in Seq(Sources) : ToSet(w) \subseteq R => ToSet((f.value \o <<r>>) \o w) \subseteq R
  <2>1. <<r>> \in Seq(Sources) /\ ToSet(<<r>>) \subseteq R
    BY <1>2, SequencesOfSources, ToSetOfFew
  <2>2. f.value \o <<r>> \in Seq(Sources) /\ ToSet(f.value \o <<r>>) \subseteq R
    BY <1>1, <2>1, ToSetOfConcat, ConcatProperties
  <2> DEFINE x == f.value \o <<r>>
  <2>3. x \in Seq(Sources) /\ ToSet(x) \subseteq R
    BY <2>2
  <2> HIDE DEF x
  <2>4. \A w \in Seq(Sources) : ToSet(w) \subseteq R => ToSet(x \o w) \subseteq R
    BY <2>3, ToSetOfConcat
  <2>5. QED
    BY <2>4 DEF x
<1>7. <<>> \in Seq(Sources) /\ ToSet(<<>>) \subseteq R
  BY ToSetOfFew, EmptySeq
<1>8. ToSet(g.value) \subseteq R
  BY <1>1, <1>5, <1>6, <1>7
<1> HIDE DEF g
<1>9. g \in GoodFrame
  BY DEF g
<1>10. g \in TracedFrames(R, D)
  BY <1>4, <1>8, <1>9 DEF TracedFrames
<1>11. QED
  BY <1>10 DEF g

LEMMA ChildIsTraced ==
    ASSUME NEW R \in SUBSET Sources, NEW D, Closed(R, D), NEW f \in TracedFrames(R, D),
           f.pc \in Loading, Child(f) \in GoodFrame
    PROVE  Child(f) \in TracedFrames(R, D)
<1> DEFINE r == Reference(f)
           h == Child(f)
<1>1. f \in Frame /\ Ancestors(f) \in Seq(Sources) /\ Target(Ancestors(f)) \in Roots(R)
  BY ChainIsSeq DEF TracedFrames, GoodFrame
<1>2. r \in R /\ r \in Sources
  BY LoadingIsTraced
<1>3. /\ h.value = <<>> /\ h.pc = "scan"
      /\ h.path = ChildPath(r) /\ h.parents = Ancestors(f)
  BY DEF Child, NewFrame
<1>4. Target(Ancestors(h)) \in Roots(R)
  <2>1. CASE r \in Named
    <3>1. Ancestors(h) = Append(Ancestors(f), r)
      BY <1>2, <1>3, <2>1, GraphAssumption DEF Ancestors, Chain, ChildPath
    <3>2. Target(Append(Ancestors(f), r)) = r
      BY <1>1, <1>2, AppendTo DEF Target, Last
    <3>3. QED
      BY <1>2, <3>1, <3>2 DEF Roots
  <2>2. CASE r \notin Named
    <3>1. Ancestors(h) = Ancestors(f)
      BY <1>3, <2>2 DEF Ancestors, Chain, ChildPath
    <3>2. QED
      BY <1>1, <3>1
  <2>3. QED
    BY <2>1, <2>2
<1>5. ToSet(h.value) \subseteq R
  BY <1>3, ToSetOfFew
<1> HIDE DEF h
<1>6. h \in GoodFrame
  BY DEF h
<1>7. h \in TracedFrames(R, D)
  BY <1>3, <1>4, <1>5, <1>6 DEF TracedFrames, Loading
<1>8. QED
  BY <1>7 DEF h

\* What the caller gets is traced too.
TracedOutcomes(R) == \A c \in Callers : ToSet(outcome'[c].value) \subseteq R

LEMMA TracedAdvance ==
    ASSUME IInv, IInv', NEW R \in SUBSET Sources, Closed(R, deps'), NEW c \in Callers,
           FramesIn(TracedFrames(R, deps')),
           \/ NotFound(c) \/ Cycle(c) \/ Depth(c) \/ Admit(c) \/ MintTicket(c) \/ GetParser(c)
           \/ ProcessText(c) \/ NoThread(c) \/ TakeReport(c) \/ DiscardReport(c)
    PROVE  NextFramesIn(TracedFrames(R, deps'))
<1> DEFINE S == TracedFrames(R, deps')
           f == Running(c)
<1>1. ~Idle(c)
  BY DEF NotFound, Cycle, Depth, Admit, MintTicket, GetParser, ProcessText, NoThread,
         TakeReport, DiscardReport, At
<1>2. f \in Frame /\ f \in GoodFrame /\ f \in S
  BY <1>1, TopOf DEF FramesIn
<1>3. \A g : Become(c, g) => Replaces(c, g) /\ g \in GoodFrame
  BY <1>1, Replacing, NewFramesType
<1>4. \A g \in S : Become(c, g) => NextFramesIn(S)
  BY <1>3, FramesReplaced
<1>5. ASSUME NEW g, Become(c, g), g.pc \notin Loading,
             g.path = f.path, g.parents = f.parents, g.value = f.value
      PROVE  NextFramesIn(S)
  <2>1. g \in GoodFrame
    BY <1>3, <1>5
  <2>2. g \in S
    BY <1>2, <1>5, <2>1, TracedStill
  <2>3. QED
    BY <1>4, <1>5, <2>2
<1>6. ASSUME NEW g, Become(c, g), Dependency(f) \in deps', g.name = f.name, g.at = f.at,
             g.path = f.path, g.parents = f.parents, g.value = f.value
      PROVE  NextFramesIn(S)
  <2>1. g \in GoodFrame
    BY <1>3, <1>6
  <2>2. Dependency(g) = Dependency(f)
    BY <1>6 DEF Dependency, Ancestors, Reference
  <2>3. g \in S
    BY <1>2, <1>6, <2>1, <2>2, TracedStill
  <2>4. QED
    BY <1>4, <1>6, <2>3
<1>7. f.pc \in Loading => Dependency(f) \in deps'
  BY <1>2 DEF TracedFrames
<1>8. CASE NotFound(c) \/ Cycle(c) \/ Depth(c) \/ TakeReport(c)
  <2>1. PICK code, about : Become(c, Failing(f, code, about))
    BY <1>8 DEF NotFound, Cycle, Depth, TakeReport
  <2> DEFINE g == Failing(f, code, about)
  <2>2. g.pc \notin Loading /\ g.path = f.path /\ g.parents = f.parents /\ g.value = f.value
    BY <1>2 DEF Failing, Frame, Loading
  <2> HIDE DEF g
  <2>3. QED
    BY <1>5, <2>1, <2>2 DEF g
<1>9. CASE DiscardReport(c)
  <2> DEFINE g == [f EXCEPT !.pc = "scan", !.at = @ + 1, !.minted = NoTicket,
                            !.parser = NoInstance]
  <2>1. Become(c, g)
    BY <1>9 DEF DiscardReport
  <2>2. g.pc \notin Loading /\ g.path = f.path /\ g.parents = f.parents /\ g.value = f.value
    BY <1>2 DEF Frame, Loading
  <2> HIDE DEF g
  <2>3. QED
    BY <1>5, <2>1, <2>2
<1>10. CASE Admit(c)
  <2> DEFINE g == [f EXCEPT !.pc = "mint"]
  <2>1. Become(c, g) /\ Dependency(f) \in deps'
    BY <1>10 DEF Admit, RecordDependency, Dependency
  <2>2. /\ g.name = f.name /\ g.at = f.at /\ g.path = f.path /\ g.parents = f.parents
        /\ g.value = f.value
    BY <1>2 DEF Frame
  <2> HIDE DEF g
  <2>3. QED
    BY <1>6, <2>1, <2>2
<1>11. CASE MintTicket(c)
  <2> DEFINE g == [f EXCEPT !.pc = "get", !.minted = Ticket]
  <2>1. Become(c, g) /\ Dependency(f) \in deps'
    BY <1>7, <1>11 DEF MintTicket, At, Loading
  <2>2. /\ g.name = f.name /\ g.at = f.at /\ g.path = f.path /\ g.parents = f.parents
        /\ g.value = f.value
    BY <1>2 DEF Frame
  <2> HIDE DEF g
  <2>3. QED
    BY <1>6, <2>1, <2>2
<1>12. CASE GetParser(c)
  <2> DEFINE g == [f EXCEPT !.pc = IF published = NoInstance THEN "unpublished" ELSE "process",
                            !.parser = published]
  <2>1. Become(c, g) /\ Dependency(f) \in deps'
    BY <1>7, <1>12 DEF GetParser, At, Loading
  <2>2. /\ g.name = f.name /\ g.at = f.at /\ g.path = f.path /\ g.parents = f.parents
        /\ g.value = f.value
    BY <1>2 DEF Frame
  <2> HIDE DEF g
  <2>3. QED
    BY <1>6, <2>1, <2>2
<1>13. CASE ProcessText(c)
  <2> DEFINE r == Reference(f)
             v == f.value \o Unparsed(r)
             g == [f EXCEPT !.pc = "discard", !.value = @ \o Unparsed(r)]
  <2>1. Become(c, g) /\ f.pc = "process"
    BY <1>13 DEF ProcessText, At
  <2>2. /\ g.name = f.name /\ g.at = f.at /\ g.path = f.path /\ g.parents = f.parents
        /\ g.value = v
    BY <1>2 DEF Frame
  <2>3. r \in R /\ r \in Sources
    BY <1>2, <2>1, LoadingIsTraced DEF Loading
  <2>4. /\ f.value \in Seq(Sources) /\ ToSet(f.value) \subseteq R
        /\ Unparsed(r) \in Seq(Sources) /\ ToSet(Unparsed(r)) \subseteq R
    BY <1>2, <2>3, SequencesOfSources, ToSetOfFew, EmptySeq
       DEF TracedFrames, Frame, Unparsed
  <2>5. ToSet(v) \subseteq R
    BY <2>4, ToSetOfConcat
  <2>6. g \in GoodFrame
    BY <1>3, <2>1
  <2> HIDE DEF g, v
  <2>7. Ancestors(g) = Ancestors(f) /\ Dependency(g) = Dependency(f)
    BY <2>2 DEF Ancestors, Dependency, Reference
  <2>8. g \in S
    BY <1>2, <1>7, <2>1, <2>2, <2>5, <2>6, <2>7 DEF TracedFrames, Loading
  <2>9. QED
    BY <1>4, <2>1, <2>8
<1>14. CASE NoThread(c)
  <2>1. PICK e : Become(c, Processed(f, e, <<>>)) /\ f.pc = "process"
    BY <1>14 DEF NoThread, At
  <2> DEFINE g == Processed(f, e, <<>>)
  <2>2. g \in GoodFrame
    BY <1>3, <2>1
  <2>3. <<>> \in Seq(Sources) /\ ToSet(<<>>) \subseteq R
    BY ToSetOfFew, EmptySeq
  <2>4. g \in S
    BY <1>2, <2>1, <2>2, <2>3, ProcessedIsTraced DEF Loading
  <2> HIDE DEF g
  <2>5. QED
    BY <1>4, <2>1, <2>4 DEF g
<1>15. QED
  BY <1>8, <1>9, <1>10, <1>11, <1>12, <1>13, <1>14

LEMMA TracedDescend ==
    ASSUME IInv, IInv', NEW R \in SUBSET Sources, Closed(R, deps'), NEW c \in Callers,
           FramesIn(TracedFrames(R, deps')), ParseHere(c) \/ ParseOnThread(c)
    PROVE  NextFramesIn(TracedFrames(R, deps'))
<1> DEFINE S == TracedFrames(R, deps')
           f == Running(c)
           g == [f EXCEPT !.pc = "await"]
           h == Child(f)
<1>1. ~Idle(c) /\ f.pc = "process" /\ Descend(c)
  BY DEF ParseHere, ParseOnThread, At
<1>2. f \in Frame /\ f \in S
  BY <1>1, TopOf DEF FramesIn
<1>3. Pushes(c, g, h)
  BY <1>1, Pushing
<1>4. g \in GoodFrame /\ h \in GoodFrame
  BY <1>3, NewFramesType
<1>5. h \in S
  BY <1>1, <1>2, <1>4, ChildIsTraced DEF Loading
<1>6. /\ g.name = f.name /\ g.at = f.at /\ g.path = f.path /\ g.parents = f.parents
      /\ g.value = f.value
  BY <1>2 DEF Frame
<1> HIDE DEF g, h
<1>7. Dependency(g) = Dependency(f) /\ Dependency(f) \in deps'
  BY <1>1, <1>2, <1>6 DEF Dependency, Ancestors, Reference, TracedFrames, Loading
<1>8. g \in S
  BY <1>2, <1>4, <1>6, <1>7, TracedStill
<1>9. QED
  BY <1>3, <1>5, <1>8, FramesPushed

LEMMA TracedEnd ==
    ASSUME IInv, IInv', NEW R \in SUBSET Sources, Closed(R, deps'), NEW c \in Callers,
           FramesIn(TracedFrames(R, deps')), \A d \in Callers : ToSet(outcome[d].value) \subseteq R,
           Finish(c) \/ Fail(c) \/ Abort(c)
    PROVE  NextFramesIn(TracedFrames(R, deps')) /\ TracedOutcomes(R)
<1> DEFINE S == TracedFrames(R, deps')
           f == Running(c)
           n == Len(stack[c])
<1>1. ~Idle(c)
  BY DEF Finish, Fail, Abort, At
<1>2. f \in Frame /\ f \in S
  BY <1>1, TopOf DEF FramesIn
<1>3. PICK e : Return(c, e)
  BY DEF Finish, Fail, Abort
<1> DEFINE v == IF e = NoError THEN f.value ELSE <<>>
<1>4. v \in Seq(Sources) /\ ToSet(v) \subseteq R
  BY <1>2, ToSetOfFew, EmptySeq DEF TracedFrames, Frame
<1>5. TracedOutcomes(R)
  <2>1. \/ UNCHANGED outcome
        \/ outcome' = [outcome EXCEPT ![c] =
              [name |-> f.name, base |-> f.path, error |-> e, value |-> v]]
    BY <1>3 DEF Return
  <2> HIDE DEF v
  <2>2. ASSUME NEW d \in Callers PROVE ToSet(outcome'[d].value) \subseteq R
    <3>1. outcome'[d] = outcome[d] \/ outcome'[d].value = v
      BY <2>1 DEF IInv, SharedInv
    <3>2. QED
      BY <1>4, <3>1
  <2>3. QED
    BY <2>2 DEF TracedOutcomes
<1>6. CASE Clears(c)
  BY <1>5, <1>6, FramesCleared
<1>7. CASE Pops(c, Resumed(c, e))
  <2> DEFINE p == stack[c][n - 1]
  <2>1. n - 1 \in 1 .. n /\ n - 1 \in 1 .. n - 1
    <3>1. n \in Nat /\ n > 1
      BY <1>7, StackType DEF Pops
    <3> HIDE DEF n
    <3>2. QED
      BY <3>1
  <2>2. p \in S /\ p.pc = "await"
    BY <2>1 DEF FramesIn, IInv, StackInv
  <2>3. Resumed(c, e) = Processed(p, e, v)
    BY DEF Resumed
  <2>4. Processed(p, e, v) \in GoodFrame
    BY <1>7, <2>3, NewFramesType
  <2> HIDE DEF v, p
  <2>5. Processed(p, e, v) \in S
    BY <1>4, <2>2, <2>4, ProcessedIsTraced DEF Loading
  <2>6. QED
    BY <1>5, <1>7, <2>3, <2>5, FramesPopped
<1>8. QED
  BY <1>1, <1>3, <1>6, <1>7, Returning

LEMMA TracedStart ==
    ASSUME IInv, IInv', NEW R \in SUBSET Sources, NEW c \in Callers, NEW d \in Documents,
           NEW base \in Bases, NEW i \in Instances, Start(c, d, base, i),
           FramesIn(TracedFrames(R, deps')), \A b \in Callers : ToSet(outcome[b].value) \subseteq R
    PROVE  NextFramesIn(TracedFrames(R, deps')) /\ TracedOutcomes(R)
<1> DEFINE h == NewFrame(d, i, base, <<>>, NoTicket, FALSE)
<1>1. Begins(c, h)
  BY Starting
<1>2. h \in GoodFrame
  BY <1>1, NewFramesType
<1>3. h.value = <<>> /\ h.pc = "scan" /\ h.path = base /\ h.parents = <<>>
  BY DEF NewFrame
<1> HIDE DEF h
<1>4. Target(Ancestors(h)) \in Roots(R)
  <2>1. CASE base = NoPath
    <3>1. Ancestors(h) = <<>>
      BY <1>3, <2>1 DEF Ancestors, Chain
    <3>2. QED
      BY <3>1 DEF Target, Roots
  <2>2. CASE base # NoPath
    <3>1. Ancestors(h) = <<base>>
      BY <1>3, <2>2 DEF Ancestors, Chain
    <3>2. Target(Ancestors(h)) = base
      BY <3>1 DEF Target, Last
    <3>3. QED
      BY <3>2 DEF Roots
  <2>3. QED
    BY <2>1, <2>2
<1>5. h \in TracedFrames(R, deps')
  BY <1>2, <1>3, <1>4, ToSetOfFew DEF TracedFrames, Loading
<1>6. NextFramesIn(TracedFrames(R, deps'))
  BY <1>1, <1>5, FramesBegun
<1>7. ASSUME NEW b \in Callers PROVE ToSet(outcome'[b].value) \subseteq R
  <2>1. outcome' = [outcome EXCEPT ![c] = NoOutcome] /\ NoOutcome.value = <<>>
    BY DEF Start, NoOutcome
  <2>2. outcome'[b] = outcome[b] \/ outcome'[b].value = <<>>
    BY <2>1 DEF IInv, SharedInv
  <2>3. QED
    BY <2>2, ToSetOfFew
<1>8. QED
  BY <1>6, <1>7 DEF TracedOutcomes

LEMMA TracedKept ==
    ASSUME IInv, IInv', TracedInv, [Next]_vars
    PROVE  TracedInv'
<1>1. deps \subseteq deps'
  BY DepsChange DEF Admit, RecordDependency
<1>2. ASSUME NEW R \in SUBSET Sources, Closed(R, deps')
      PROVE  NextFramesIn(TracedFrames(R, deps')) /\ TracedOutcomes(R)
  <2> DEFINE S == TracedFrames(R, deps')
  <2>1. Closed(R, deps)
    BY <1>1, <1>2 DEF Closed
  <2>2. FramesIn(TracedFrames(R, deps)) /\ \A c \in Callers : ToSet(outcome[c].value) \subseteq R
    BY <2>1 DEF TracedInv
  <2>3. TracedFrames(R, deps) \subseteq S
    BY <1>1 DEF TracedFrames
  <2>4. FramesIn(S)
    BY <2>2, <2>3 DEF FramesIn
  <2>5. UNCHANGED outcome => TracedOutcomes(R)
    BY <2>2 DEF TracedOutcomes
  <2> HIDE DEF S
  <2>6. CASE UNCHANGED <<stack, outcome>>
    <3>1. NextFramesIn(S)
      BY <2>4, <2>6 DEF FramesIn, NextFramesIn
    <3>2. QED
      BY <2>5, <2>6, <3>1 DEF S
  <2>7. ASSUME NEW c \in Callers, NEW d \in Documents, NEW base \in Bases,
               NEW i \in Instances, Start(c, d, base, i)
        PROVE  NextFramesIn(S) /\ TracedOutcomes(R)
    BY <2>2, <2>4, <2>7, TracedStart DEF S
  <2>8. ASSUME NEW c \in Callers, Step(c)
        PROVE  NextFramesIn(S) /\ TracedOutcomes(R)
    <3>1. CASE \/ NotFound(c) \/ Cycle(c) \/ Depth(c) \/ Admit(c) \/ MintTicket(c)
               \/ GetParser(c) \/ ProcessText(c) \/ NoThread(c) \/ TakeReport(c)
               \/ DiscardReport(c)
      <4>1. UNCHANGED outcome
        BY <3>1 DEF NotFound, Cycle, Depth, Admit, MintTicket, GetParser, ProcessText,
                    NoThread, TakeReport, DiscardReport
      <4>2. QED
        BY <1>2, <2>4, <2>5, <3>1, <4>1, TracedAdvance DEF S
    <3>2. CASE ParseHere(c) \/ ParseOnThread(c)
      <4>1. UNCHANGED outcome
        BY <3>2 DEF ParseHere, ParseOnThread, Descend
      <4>2. QED
        BY <1>2, <2>4, <2>5, <3>2, <4>1, TracedDescend DEF S
    <3>3. CASE Finish(c) \/ Fail(c) \/ Abort(c)
      BY <1>2, <2>2, <2>4, <3>3, TracedEnd DEF S
    <3>4. QED
      BY <2>8, <3>1, <3>2, <3>3 DEF Step
  <2>9. QED
    BY <2>6, <2>7, <2>8 DEF Next, vars, Finished, S
<1>3. QED
  BY <1>2 DEF TracedInv, NextFramesIn, FramesIn, TracedOutcomes, TracedFrames

(***************************************************************************)
(* Every source in a value a parse returned is reached along the recorded  *)
(* dependencies, whatever the other callers of the instance record into    *)
(* the same sink meanwhile.                                                *)
(***************************************************************************)
THEOREM ValuesAreTraced == Spec => []Provenance
<1>1. Init => TracedInv
  <2>1. Init => FramesIn({})
    BY EmptySeq DEF Init, FramesIn
  <2>2. QED
    BY <2>1, ToSetOfFew DEF Init, TracedInv, FramesIn, NoOutcome
<1>2. IInv /\ IInv' /\ TracedInv /\ [Next]_vars => TracedInv'
  BY TracedKept
<1>3. IInv /\ TracedInv => Provenance
  <2> SUFFICES ASSUME IInv, TracedInv, NEW c \in Callers, NEW s \in ToSet(outcome[c].value),
                      NEW R \in SUBSET {e[2] : e \in deps}, Follows(R)
               PROVE  s \in R
    BY DEF Provenance
  <2>1. R \in SUBSET Sources
    BY DEF IInv, SharedInv
  <2>2. Closed(R, deps)
    BY DEF Follows, Closed, Roots
  <2>3. QED
    BY <2>1, <2>2 DEF TracedInv
<1>4. QED
  BY <1>1, <1>2, <1>3, Invariance, PTL DEF Spec
================================================================================
