----------------------------- MODULE SequenceFacts -----------------------------
(***************************************************************************)
(* Induction over the natural numbers, and facts about sequences.          *)
(***************************************************************************)
EXTENDS Integers, SequencesExt, SequenceTheorems, WellFoundedInduction, TLAPS

(***************************************************************************)
(* Induction for a set of numbers: a set that holds 0, and with a number   *)
(* the next one, holds them all.  A statement about every number is proved *)
(* for {n \in Nat : ...}.                                                  *)
(***************************************************************************)
LEMMA LeastElement ==
    ASSUME NEW T \in SUBSET Nat, T # {}
    PROVE  \E x \in T : \A y \in T : x <= y
<1> DEFINE R == {ss \in Nat \X Nat : ss[1] < ss[2]}
<1>1. IsWellFoundedOn(R, Nat)
  BY NatLessThanWellFounded DEF OpToRel
<1>2. \A a, b \in Nat : a < b => <<a, b>> \in R
  OBVIOUS
<1> HIDE DEF R
<1>3. PICK x \in T : \A y \in T : ~ (<<y, x>> \in R)
  BY <1>1, WFMin
<1>4. ASSUME NEW y \in T PROVE x <= y
  <2>1. x \in Nat /\ y \in Nat /\ <<y, x>> \notin R
    BY <1>3
  <2>2. ~(y < x)
    BY <1>2, <2>1
  <2>3. QED
    BY <2>1, <2>2
<1>5. QED
  BY <1>4

LEMMA NatSetInduction ==
    ASSUME NEW T \in SUBSET Nat, 0 \in T, \A n \in T : n + 1 \in T
    PROVE  T = Nat
<1> DEFINE U == Nat \ T
<1> SUFFICES ASSUME U # {} PROVE FALSE
  OBVIOUS
<1>1. U \in SUBSET Nat
  OBVIOUS
<1> HIDE DEF U
<1>2. PICK x \in U : \A y \in U : x <= y
  BY <1>1, LeastElement
<1>3. x \in Nat /\ x \notin T /\ x # 0
  BY DEF U
<1>4. x - 1 \in Nat /\ (x - 1) + 1 = x
  BY <1>3
<1>5. x - 1 \notin U
  BY <1>2, <1>4
<1>6. x - 1 \in T
  BY <1>4, <1>5 DEF U
<1>7. QED
  BY <1>3, <1>4, <1>6

(***************************************************************************)
(* A sequence without its last element, and with another last element.     *)
(***************************************************************************)
LEMMA FrontOf ==
    ASSUME NEW S, NEW s \in Seq(S), s # <<>>
    PROVE  /\ Front(s) \in Seq(S)
           /\ Len(Front(s)) = Len(s) - 1
           /\ \A i \in 1 .. Len(s) - 1 : Front(s)[i] = s[i]
           /\ Len(s) \in Nat \ {0}
           /\ Last(s) \in S
           /\ Last(s) = s[Len(s)]
<1> DEFINE n == Len(s) - 1
           u == SubSeq(s, 1, n)
<1>1. Len(s) \in Nat \ {0} /\ \A i \in 1 .. Len(s) : s[i] \in S
  BY EmptySeq, ElementOfSeq
<1>2. n \in Nat /\ Len(s) = n + 1 /\ \A i \in 1 .. n : s[i] \in S
  BY <1>1
<1> HIDE DEF n
<1>3. /\ u \in Seq(S)
      /\ Len(u) = IF 1 <= n THEN n - 1 + 1 ELSE 0
      /\ \A i \in 1 .. n - 1 + 1 : u[i] = s[1 + i - 1]
  BY <1>2, SubSeqProperties
<1> HIDE DEF u
<1>4. Len(u) = n /\ \A i \in 1 .. n : u[i] = s[i]
  <2>1. n - 1 + 1 = n /\ \A i \in 1 .. n : 1 + i - 1 = i
    BY <1>2
  <2>2. Len(u) = n
    BY <1>2, <1>3, <2>1
  <2>3. ASSUME NEW i \in 1 .. n PROVE u[i] = s[i]
    BY <1>2, <1>3, <2>1
  <2>4. QED
    BY <2>2, <2>3
<1>5. Front(s) = u
  BY DEF Front, u, n
<1>6. n = Len(s) - 1
  BY DEF n
<1>7. QED
  BY <1>1, <1>3, <1>4, <1>5, <1>6 DEF Last

LEMMA AppendTo ==
    ASSUME NEW S, NEW s \in Seq(S), NEW x \in S
    PROVE  /\ Append(s, x) \in Seq(S)
           /\ Len(Append(s, x)) = Len(s) + 1
           /\ Append(s, x)[Len(s) + 1] = x
           /\ \A i \in 1 .. Len(s) : Append(s, x)[i] = s[i]
           /\ Append(s, x) # <<>>
  OBVIOUS

LEMMA FrontOfAppend ==
    ASSUME NEW S, NEW s \in Seq(S), NEW x \in S
    PROVE  Front(Append(s, x)) = s /\ Last(Append(s, x)) = x /\ Len(Append(s, x)) # 0
<1> DEFINE longer == Append(s, x)
           n == Len(s)
<1>1. /\ longer \in Seq(S) /\ Len(longer) = n + 1 /\ longer # <<>> /\ longer[n + 1] = x
      /\ \A i \in 1 .. n : longer[i] = s[i]
  BY AppendTo
<1>2. n \in Nat
  BY LenProperties
<1> HIDE DEF longer, n
<1>3. /\ Front(longer) \in Seq(S) /\ Len(Front(longer)) = n /\ Last(longer) = x
      /\ \A i \in 1 .. n : Front(longer)[i] = s[i]
  <2>1. (n + 1) - 1 = n
    BY <1>2
  <2>2. QED
    <3>1. /\ Front(longer) \in Seq(S) /\ Len(Front(longer)) = Len(longer) - 1
          /\ \A i \in 1 .. Len(longer) - 1 : Front(longer)[i] = longer[i]
          /\ Last(longer) = longer[Len(longer)]
      BY <1>1, FrontOf
    <3>2. Len(longer) - 1 = n /\ \A i \in 1 .. n : longer[i] = s[i]
      BY <1>1, <2>1
    <3>3. QED
      BY <1>1, <3>1, <3>2
<1>4. Front(longer) = s
  BY <1>3, SeqEqual DEF n
<1>5. QED
  BY <1>1, <1>2, <1>3, <1>4 DEF longer, n

\* Concatenation, in a form the provers find their way through.
Joins(S) ==
    /\ \A s, t \in Seq(S) : s \o t \in Seq(S)
    /\ \A s, t, u \in Seq(S) : (s \o t) \o u = s \o (t \o u)

Ends(S) == \A s, t \in Seq(S) : \A x \in S : Append(s \o t, x) = s \o Append(t, x)

LEMMA Concats ==
    ASSUME NEW S
    PROVE  Joins(S) /\ Ends(S)
<1>1. Joins(S)
  <2>1. \A s, t \in Seq(S) : s \o t \in Seq(S)
    BY ConcatProperties
  <2>2. \A s, t, u \in Seq(S) : (s \o t) \o u = s \o (t \o u)
    BY ConcatAssociative
  <2>3. QED
    BY <2>1, <2>2, Zenon DEF Joins
<1>2. ASSUME NEW s \in Seq(S), NEW t \in Seq(S), NEW x \in S
      PROVE  Append(s \o t, x) = s \o Append(t, x)
  <2> DEFINE last == <<x>>
             all == s \o t
  <2>1. last \in Seq(S)
    OBVIOUS
  <2>2. all \in Seq(S)
    BY ConcatProperties
  <2> HIDE DEF last, all
  <2>3. Append(all, x) = all \o last /\ Append(t, x) = t \o last
    BY <2>2, AppendIsConcat DEF last
  <2>4. (s \o t) \o last = s \o (t \o last)
    BY <1>1, <2>1, Zenon DEF Joins
  <2>5. QED
    BY <2>3, <2>4, Zenon DEF all
<1>3. Ends(S)
  BY <1>2, Zenon DEF Ends
<1>4. QED
  BY <1>1, <1>3

LEMMA NewTop ==
    ASSUME NEW S, NEW s \in Seq(S), s # <<>>, NEW x \in S
    PROVE  /\ Append(Front(s), x) \in Seq(S)
           /\ Len(Append(Front(s), x)) = Len(s)
           /\ Append(Front(s), x)[Len(s)] = x
           /\ \A i \in 1 .. Len(s) - 1 : Append(Front(s), x)[i] = s[i]
  BY FrontOf, AppendTo

(***************************************************************************)
(* Recursion: from x, step by step, up to n.                               *)
(***************************************************************************)
HasRun(V, b, n, x, step) ==
    \E f \in [b .. n -> V] : f[b] = x /\ \A i \in b + 1 .. n : f[i] = step[i][f[i - 1]]

LEMMA RecursionExists ==
    ASSUME NEW V, NEW b \in Nat, NEW n \in Nat, b <= n, NEW x \in V,
           NEW step \in [Nat -> [V -> V]]
    PROVE  HasRun(V, b, n, x, step)
<1> DEFINE Solves(m, f) == f[b] = x /\ \A i \in b + 1 .. m : f[i] = step[i][f[i - 1]]
           T == {k \in Nat : b + k <= n => \E f \in [b .. b + k -> V] : Solves(b + k, f)}
<1>1. 0 \in T
  <2> DEFINE g == [i \in b .. b |-> x]
  <2>1. g \in [b .. b -> V] /\ g[b] = x /\ b + 1 .. b = {} /\ b + 0 = b
    OBVIOUS
  <2> HIDE DEF g
  <2>2. Solves(b, g)
    BY <2>1
  <2>3. \E f \in [b .. b + 0 -> V] : Solves(b + 0, f)
    BY <2>1, <2>2
  <2> HIDE DEF Solves
  <2>4. QED
    BY <2>3
<1>2. ASSUME NEW k \in T PROVE k + 1 \in T
  <2> DEFINE m == b + k
  <2>1. k \in Nat /\ m \in Nat /\ b + (k + 1) = m + 1 /\ b <= m
    OBVIOUS
  <2>2. ASSUME m + 1 <= n
        PROVE  \E f \in [b .. m + 1 -> V] : Solves(m + 1, f)
    <3>1. m <= n
      BY <2>1, <2>2
    <3> HIDE DEF Solves
    <3>2. PICK f \in [b .. m -> V] : Solves(m, f)
      BY <3>1
    <3> HIDE DEF T, m
    <3>3. f[m] \in V /\ m + 1 \in Nat
      BY <2>1, <2>2
    <3> DEFINE y == step[m + 1][f[m]]
               g == [i \in b .. m + 1 |-> IF i = m + 1 THEN y ELSE f[i]]
    <3>4. y \in V
      BY <3>3
    <3>5. g \in [b .. m + 1 -> V] /\ g[m + 1] = y /\ \A i \in b .. m : g[i] = f[i]
      BY <2>1, <3>4
    <3> HIDE DEF g
    <3>6. ASSUME NEW i \in b + 1 .. m + 1 PROVE g[i] = step[i][g[i - 1]]
      <4>1. CASE i = m + 1
        <5>1. i - 1 = m /\ m \in b .. m
          BY <2>1, <4>1
        <5>2. QED
          BY <3>5, <4>1, <5>1
      <4>2. CASE i # m + 1
        <5>1. i \in b + 1 .. m /\ i \in b .. m /\ i - 1 \in b .. m
          BY <2>1, <4>2
        <5>2. QED
          BY <3>2, <3>5, <5>1 DEF Solves
      <4>3. QED
        BY <4>1, <4>2
    <3>7. g[b] = x
      BY <2>1, <3>2, <3>5 DEF Solves
    <3>8. Solves(m + 1, g)
      BY <3>6, <3>7 DEF Solves
    <3>9. QED
      BY <3>5, <3>8
  <2> HIDE DEF Solves, m, T
  <2>3. ASSUME b + (k + 1) <= n
        PROVE  \E f \in [b .. b + (k + 1) -> V] : Solves(b + (k + 1), f)
    BY <2>1, <2>2, <2>3
  <2>4. QED
    BY <2>1, <2>3 DEF T
<1> HIDE DEF T
<1>3. T \subseteq Nat
  BY DEF T
<1>4. T = Nat
  BY <1>1, <1>2, <1>3, NatSetInduction
<1> DEFINE k == n - b
<1>5. k \in Nat /\ b + k = n
  OBVIOUS
<1> HIDE DEF k, Solves
<1>6. \E f \in [b .. b + k -> V] : Solves(b + k, f)
  <2>1. k \in T
    BY <1>4, <1>5
  <2>2. b + k <= n
    BY <1>5
  <2>3. QED
    BY <2>1, <2>2 DEF T
<1>7. QED
  BY <1>5, <1>6 DEF Solves, HasRun

\* Whatever each step keeps is kept.
LEMMA RecursionStays ==
    ASSUME NEW V, NEW b \in Nat, NEW n \in Nat, b <= n, NEW f, f[b] \in V,
           \A i \in b + 1 .. n : f[i - 1] \in V => f[i] \in V
    PROVE  f[n] \in V
<1> DEFINE T == {k \in Nat : b + k <= n => f[b + k] \in V}
<1>1. 0 \in T
  OBVIOUS
<1>2. ASSUME NEW k \in T PROVE k + 1 \in T
  <2>1. CASE b + (k + 1) <= n
    <3>1. b + (k + 1) \in b + 1 .. n /\ (b + (k + 1)) - 1 = b + k /\ f[b + k] \in V
      BY <2>1
    <3>2. f[b + (k + 1)] \in V
      BY <3>1
    <3>3. QED
      BY <3>2
  <2>2. QED
    BY <2>1
<1> HIDE DEF T
<1>3. T \subseteq Nat
  BY DEF T
<1>4. T = Nat
  BY <1>1, <1>2, <1>3, NatSetInduction
<1>5. n - b \in Nat /\ b + (n - b) = n
  OBVIOUS
<1>6. n - b \in T
  BY <1>4, <1>5
<1>7. QED
  BY <1>5, <1>6 DEF T

(***************************************************************************)
(* A function on 1 .. n is a sequence.                                     *)
(***************************************************************************)
LEMMA FunctionIsSeq ==
    ASSUME NEW S, NEW n \in Nat, NEW f \in [1 .. n -> S]
    PROVE  f \in Seq(S) /\ Len(f) = n
<1>1. f \in Seq(S)
  BY SeqDef
<1>2. DOMAIN f = 1 .. n /\ DOMAIN f = 1 .. Len(f) /\ Len(f) \in Nat
  BY <1>1, LenProperties
<1>3. QED
  BY <1>1, <1>2

(***************************************************************************)
(* Induction for a set of sequences: one that holds the empty sequence,    *)
(* and with a sequence every longer one by an element, holds them all.     *)
(***************************************************************************)
LEMMA SeqSetInduction ==
    ASSUME NEW S, NEW T \in SUBSET Seq(S), <<>> \in T,
           \A s \in T, x \in S : Append(s, x) \in T
    PROVE  T = Seq(S)
<1> DEFINE U == {n \in Nat : \A s \in Seq(S) : Len(s) = n => s \in T}
<1>1. 0 \in U
  BY EmptySeq
<1>2. ASSUME NEW n \in U PROVE n + 1 \in U
  <2> SUFFICES ASSUME NEW s \in Seq(S), Len(s) = n + 1 PROVE s \in T
    OBVIOUS
  <2>1. s # <<>>
    BY EmptySeq
  <2>2. PICK front \in Seq(S), x \in S : s = Append(front, x)
    BY <2>1, SequenceEmptyOrAppend
  <2>3. Len(front) \in Nat /\ Len(s) = Len(front) + 1 /\ n \in Nat
    BY <2>2, AppendProperties, LenProperties
  <2>4. Len(front) = n
    BY <2>3
  <2>5. front \in T
    BY <2>4
  <2>6. QED
    BY <2>2, <2>5
<1> HIDE DEF U
<1>3. U \in SUBSET Nat
  BY DEF U
<1>4. U = Nat
  BY <1>1, <1>2, <1>3, NatSetInduction
<1>5. ASSUME NEW s \in Seq(S) PROVE s \in T
  BY <1>4, LenProperties DEF U
<1>6. QED
  BY <1>5

(***************************************************************************)
(* What a sequence is made of.                                             *)
(***************************************************************************)
LEMMA ToSetIs ==
    ASSUME NEW S, NEW s \in Seq(S)
    PROVE  /\ ToSet(s) = {s[i] : i \in 1 .. Len(s)}
           /\ ToSet(s) \subseteq S
           /\ s \in Seq(ToSet(s))
           /\ s # <<>> => ToSet(s) = {Head(s)} \cup ToSet(Tail(s)) /\ Head(s) = s[1]
<1>1. Len(s) \in Nat /\ DOMAIN s = 1 .. Len(s) /\ \A i \in 1 .. Len(s) : s[i] \in S
  BY LenProperties, ElementOfSeq
<1>2. ToSet(s) = {s[i] : i \in 1 .. Len(s)}
  BY <1>1 DEF ToSet
<1>3. s \in Seq(ToSet(s))
  BY <1>1, <1>2
<1>4. ASSUME s # <<>> PROVE ToSet(s) = {Head(s)} \cup ToSet(Tail(s)) /\ Head(s) = s[1]
  <2> DEFINE t == Tail(s)
  <2>1. /\ t \in Seq(S) /\ Len(t) = Len(s) - 1 /\ Head(s) = s[1] /\ Len(s) >= 1
        /\ \A i \in 1 .. Len(t) : t[i] = s[i + 1]
    BY <1>1, <1>4
  <2>2. ToSet(t) = {t[i] : i \in 1 .. Len(t)}
    BY <2>1, LenProperties DEF ToSet
  <2> HIDE DEF t
  <2>3. ASSUME NEW x \in ToSet(s) PROVE x = s[1] \/ x \in ToSet(t)
    <3>1. PICK i \in 1 .. Len(s) : x = s[i]
      BY <1>2
    <3>2. CASE i = 1
      BY <3>1, <3>2
    <3>3. CASE i # 1
      <4>1. i - 1 \in 1 .. Len(t) /\ (i - 1) + 1 = i
        BY <1>1, <2>1, <3>3
      <4>2. QED
        BY <2>1, <2>2, <3>1, <4>1
    <3>4. QED
      BY <3>2, <3>3
  <2>4. ASSUME NEW x \in ToSet(t) PROVE x \in ToSet(s)
    <3>1. PICK i \in 1 .. Len(t) : x = t[i]
      BY <2>2
    <3>2. i + 1 \in 1 .. Len(s)
      BY <1>1, <2>1
    <3>3. QED
      BY <1>2, <2>1, <3>1, <3>2
  <2>5. s[1] \in ToSet(s)
    BY <1>1, <1>2, <2>1
  <2>6. QED
    BY <2>1, <2>3, <2>4, <2>5 DEF t
<1>5. QED
  BY <1>1, <1>2, <1>3, <1>4

LEMMA ToSetConcat ==
    ASSUME NEW S, NEW s \in Seq(S), NEW t \in Seq(S)
    PROVE  ToSet(s \o t) = ToSet(s) \cup ToSet(t)
<1> DEFINE u == s \o t
           m == Len(s)
           n == Len(t)
<1>1. /\ u \in Seq(S) /\ Len(u) = m + n
      /\ \A i \in 1 .. m : u[i] = s[i]
      /\ \A i \in 1 .. n : u[m + i] = t[i]
      /\ m \in Nat /\ n \in Nat
  BY LenProperties, ConcatProperties
<1>2. ToSet(u) = {u[i] : i \in 1 .. m + n} /\ ToSet(s) = {s[i] : i \in 1 .. m}
      /\ ToSet(t) = {t[i] : i \in 1 .. n}
  BY <1>1, ToSetIs
<1> HIDE DEF u, m, n
<1>3. ASSUME NEW x \in ToSet(u) PROVE x \in ToSet(s) \cup ToSet(t)
  <2>1. PICK i \in 1 .. m + n : x = u[i]
    BY <1>2
  <2>2. CASE i <= m
    <3>1. i \in 1 .. m
      BY <1>1, <2>2
    <3>2. QED
      BY <1>1, <1>2, <2>1, <3>1
  <2>3. CASE ~(i <= m)
    <3>1. i - m \in 1 .. n /\ m + (i - m) = i
      BY <1>1, <2>3
    <3>2. QED
      BY <1>1, <1>2, <2>1, <3>1
  <2>4. QED
    BY <2>2, <2>3
<1>4. \A i \in 1 .. m : i \in 1 .. m + n
  BY <1>1
<1>5. \A i \in 1 .. n : m + i \in 1 .. m + n
  BY <1>1
<1>6. ToSet(s) \subseteq ToSet(u) /\ ToSet(t) \subseteq ToSet(u)
  BY <1>1, <1>2, <1>4, <1>5
<1>7. QED
  BY <1>3, <1>6 DEF u

(***************************************************************************)
(* Sequences one after another are a sequence.                             *)
(***************************************************************************)
FlattenRun(S, n, seqs) ==
    /\ n = 0 => FlattenSeq(seqs) = <<>>
    /\ n # 0 =>
         \E flat : /\ FlattenSeq(seqs) = flat[n] /\ flat[1] = seqs[1]
                   /\ \A i \in 1 + 1 .. n : /\ flat[i] = flat[i - 1] \o seqs[i]
                                            /\ seqs[i] \in Seq(S)

LEMMA FlattenSteps ==
    ASSUME NEW S, NEW n \in Nat, NEW seqs \in [1 .. n -> Seq(S)]
    PROVE  FlattenRun(S, n, seqs)
<1> DEFINE Flat(f) == [i \in 1 .. n |-> IF i = 1 THEN seqs[i] ELSE f[i - 1] \o seqs[i]]
           flatten == CHOOSE f : f = Flat(f)
<1>1. seqs \in Seq(Seq(S)) /\ Len(seqs) = n
  BY FunctionIsSeq
<1>2. FlattenSeq(seqs) = IF n = 0 THEN seqs ELSE flatten[n]
  BY <1>1 DEF FlattenSeq
<1>3. CASE n = 0
  <2>1. seqs = <<>>
    BY <1>1, <1>3, EmptySeq
  <2>2. FlattenSeq(seqs) = <<>>
    BY <1>2, <1>3, <2>1
  <2>3. QED
    BY <1>3, <2>2, Zenon DEF FlattenRun
<1>4. CASE n # 0
  <2> DEFINE step == [i \in Nat |-> [s \in Seq(S) |-> IF i \in 1 .. n THEN s \o seqs[i] ELSE s]]
  <2>1. ASSUME NEW i \in Nat
        PROVE  /\ step[i] \in [Seq(S) -> Seq(S)]
               /\ i \in 1 .. n => \A s \in Seq(S) : step[i][s] = s \o seqs[i]
    <3>1. CASE i \in 1 .. n
      <4>1. seqs[i] \in Seq(S)
        BY <3>1
      <4>2. \A s \in Seq(S) : s \o seqs[i] \in Seq(S)
        BY <4>1, ConcatProperties
      <4>3. QED
        BY <3>1, <4>2
    <3>2. QED
      BY <3>1
  <2>2. step \in [Nat -> [Seq(S) -> Seq(S)]]
    BY <2>1
  <2>3. seqs[1] \in Seq(S) /\ 1 <= n
    BY <1>4
  <2> HIDE DEF step
  <2>4. PICK f \in [1 .. n -> Seq(S)] :
           f[1] = seqs[1] /\ \A i \in 1 + 1 .. n : f[i] = step[i][f[i - 1]]
    <3> DEFINE V == Seq(S)
               x == seqs[1]
               b == 1
    <3>1. b \in Nat /\ b <= n /\ x \in V /\ step \in [Nat -> [V -> V]]
      BY <2>2, <2>3
    <3> HIDE DEF V, x, b
    <3>2. HasRun(V, b, n, x, step)
      BY <3>1, RecursionExists
    <3>3. QED
      BY <3>2 DEF HasRun, V, x, b
  <2>5. \A i \in 1 .. n : f[i] = IF i = 1 THEN seqs[i] ELSE f[i - 1] \o seqs[i]
    <3>1. ASSUME NEW i \in 1 + 1 .. n PROVE f[i] = f[i - 1] \o seqs[i]
      <4>1. i - 1 \in 1 .. n /\ i \in 1 .. n /\ i \in Nat
        OBVIOUS
      <4>2. f[i - 1] \in Seq(S)
        BY <4>1
      <4>3. QED
        BY <2>1, <2>4, <4>1, <4>2
    <3>2. \A i \in 1 .. n : i = 1 \/ i \in 1 + 1 .. n
      OBVIOUS
    <3>3. QED
      BY <2>4, <3>1, <3>2
  <2>6. f = Flat(f)
    BY <2>5
  <2>7. flatten = Flat(flatten)
    <3> HIDE DEF Flat
    <3>1. QED
      BY <2>6
  <2> HIDE DEF flatten
  <2>8. \A i \in 1 .. n : flatten[i] = IF i = 1 THEN seqs[i] ELSE flatten[i - 1] \o seqs[i]
    BY <2>7
  <2>9. ASSUME NEW i \in 1 + 1 .. n PROVE flatten[i] = flatten[i - 1] \o seqs[i] /\ seqs[i] \in Seq(S)
    <3>1. i \in 1 .. n /\ i # 1
      OBVIOUS
    <3>2. QED
      BY <2>8, <3>1
  <2>10. flatten[1] = seqs[1]
    BY <1>4, <2>8
  <2>11. FlattenSeq(seqs) = flatten[n]
    BY <1>2, <1>4
  <2>12. QED
    BY <1>4, <2>9, <2>10, <2>11, Zenon DEF FlattenRun
<1>5. QED
  BY <1>3, <1>4

LEMMA FlattenIsSeq ==
    ASSUME NEW S, NEW n \in Nat, NEW seqs \in [1 .. n -> Seq(S)]
    PROVE  FlattenSeq(seqs) \in Seq(S)
<1> FlattenRun(S, n, seqs)
  BY FlattenSteps
<1>1. CASE n = 0
  <2>1. FlattenSeq(seqs) = <<>>
    BY <1>1, Zenon DEF FlattenRun
  <2>2. QED
    BY <2>1
<1>2. CASE n # 0
  <2>1. PICK flat :
           /\ FlattenSeq(seqs) = flat[n] /\ flat[1] = seqs[1]
           /\ \A i \in 1 + 1 .. n : /\ flat[i] = flat[i - 1] \o seqs[i]
                                    /\ seqs[i] \in Seq(S)
    BY <1>2, Zenon DEF FlattenRun
  <2>2. ASSUME NEW i \in 1 + 1 .. n, flat[i - 1] \in Seq(S) PROVE flat[i] \in Seq(S)
    <3>1. Joins(S)
      BY Concats
    <3>2. flat[i - 1] \o seqs[i] \in Seq(S)
      BY <2>1, <2>2, <3>1, Zenon DEF Joins
    <3>3. QED
      BY <2>1, <3>2, Zenon
  <2>3. flat[1] \in Seq(S) /\ 1 <= n
    BY <1>2, <2>1
  <2>4. flat[n] \in Seq(S)
    BY <2>2, <2>3, RecursionStays
  <2>5. QED
    BY <2>1, <2>4
<1>3. QED
  BY <1>1, <1>2

LEMMA FlattenHas ==
    ASSUME NEW S, NEW n \in Nat, NEW seqs \in [1 .. n -> Seq(S)]
    PROVE  ToSet(FlattenSeq(seqs)) = UNION {ToSet(seqs[i]) : i \in 1 .. n}
<1> FlattenRun(S, n, seqs)
  BY FlattenSteps
<1>1. CASE n = 0
  <2>1. FlattenSeq(seqs) = <<>>
    BY <1>1, Zenon DEF FlattenRun
  <2>2. ToSet(<<>>) = {} /\ 1 .. n = {}
    BY <1>1 DEF ToSet
  <2>3. QED
    BY <2>1, <2>2
<1>2. CASE n # 0
  <2>1. PICK flat :
           /\ FlattenSeq(seqs) = flat[n] /\ flat[1] = seqs[1]
           /\ \A i \in 1 + 1 .. n : /\ flat[i] = flat[i - 1] \o seqs[i]
                                    /\ seqs[i] \in Seq(S)
    BY <1>2, Zenon DEF FlattenRun
  <2> DEFINE has(m) == UNION {ToSet(seqs[i]) : i \in 1 .. m}
             T == {m \in Nat : m + 1 <= n => flat[m + 1] \in Seq(S) /\ ToSet(flat[m + 1]) = has(m + 1)}
  <2>2. 0 \in T
    <3>1. 0 + 1 = 1 /\ 1 .. 1 = {1} /\ seqs[1] \in Seq(S)
      BY <1>2
    <3>2. has(1) = ToSet(seqs[1])
      BY <3>1
    <3> HIDE DEF has
    <3>3. QED
      BY <2>1, <3>1, <3>2
  <2>3. ASSUME NEW m \in T PROVE m + 1 \in T
    <3> SUFFICES ASSUME (m + 1) + 1 <= n
                 PROVE  flat[(m + 1) + 1] \in Seq(S) /\ ToSet(flat[(m + 1) + 1]) = has((m + 1) + 1)
      OBVIOUS
    <3> DEFINE k == m + 1
    <3>1. k \in Nat /\ k + 1 \in 1 + 1 .. n /\ (k + 1) - 1 = k /\ k \in 1 .. n
      OBVIOUS
    <3>2. flat[k] \in Seq(S) /\ ToSet(flat[k]) = has(k)
      OBVIOUS
    <3> HIDE DEF k, T
    <3>3. flat[k + 1] = flat[k] \o seqs[k + 1] /\ seqs[k + 1] \in Seq(S)
      BY <2>1, <3>1
    <3>4. flat[k + 1] \in Seq(S) /\ ToSet(flat[k + 1]) = ToSet(flat[k]) \cup ToSet(seqs[k + 1])
      BY <3>2, <3>3, ToSetConcat, ConcatProperties
    <3>5. has(k + 1) = has(k) \cup ToSet(seqs[k + 1])
      <4>1. \A i : i \in 1 .. k + 1 <=> i \in 1 .. k \/ i = k + 1
        BY <3>1
      <4>2. QED
        BY <4>1
    <3> HIDE DEF has
    <3>6. flat[k + 1] \in Seq(S) /\ ToSet(flat[k + 1]) = has(k + 1)
      BY <3>2, <3>4, <3>5
    <3>7. QED
      BY <3>6 DEF k
  <2> HIDE DEF T
  <2>4. T = Nat
    <3>1. T \in SUBSET Nat
      BY DEF T
    <3>2. QED
      BY <2>2, <2>3, <3>1, NatSetInduction
  <2>5. n - 1 \in T /\ (n - 1) + 1 = n
    BY <1>2, <2>4
  <2> HIDE DEF has
  <2>6. ToSet(flat[n]) = has(n)
    BY <2>5 DEF T
  <2>7. QED
    BY <2>1, <2>6 DEF has
<1>3. QED
  BY <1>1, <1>2

(***************************************************************************)
(* A sequence taken apart.                                                 *)
(***************************************************************************)
LEMMA PartsOfConcat ==
    ASSUME NEW S, NEW s \in Seq(S), NEW t \in Seq(S)
    PROVE  /\ s \o t \in Seq(S)
           /\ SubSeq(s \o t, 1, Len(s)) = s /\ SubSeq(s \o t, Len(s) + 1, Len(s \o t)) = t
           /\ IsPrefix(s, s \o t) /\ (t # <<>> => IsStrictPrefix(s, s \o t))
<1> DEFINE all == s \o t
           m == Len(s)
           n == Len(t)
<1>1. m \in Nat /\ n \in Nat /\ (\A i \in 1 .. m : s[i] \in S) /\ (\A i \in 1 .. n : t[i] \in S)
      /\ (t # <<>> => n # 0)
  BY LenProperties, ElementOfSeq, EmptySeq
<1>2. /\ all \in Seq(S) /\ Len(all) = m + n
      /\ \A i \in 1 .. m + n : all[i] = IF i <= m THEN s[i] ELSE t[i - m]
  BY ConcatProperties
<1> HIDE DEF all, m, n
<1>3. \A i \in 1 .. m + n : all[i] \in S
  BY <1>2, ElementOfSeq
<1> DEFINE first == SubSeq(all, 1, m)
           rest == SubSeq(all, m + 1, m + n)
<1>4. first \in Seq(S) /\ Len(first) = m /\ \A i \in 1 .. m : first[i] = all[i]
  <2> DEFINE b == 1
             part == SubSeq(all, b, m)
  <2>1. b \in Int /\ m \in Int /\ b = 1 /\ \A i \in b .. m : all[i] \in S
    BY <1>1, <1>3
  <2> HIDE DEF b
  <2>2. /\ part \in Seq(S) /\ Len(part) = IF b <= m THEN m - b + 1 ELSE 0
        /\ \A i \in 1 .. m - b + 1 : part[i] = all[b + i - 1]
    BY <2>1, SubSeqProperties
  <2> HIDE DEF part
  <2>3. Len(part) = m /\ m - b + 1 = m /\ \A i \in 1 .. m : b + i - 1 = i
    BY <1>1, <2>1, <2>2
  <2>4. QED
    BY <2>2, <2>3 DEF part, b
<1>5. rest \in Seq(S) /\ Len(rest) = n /\ \A i \in 1 .. n : rest[i] = all[m + i]
  <2> DEFINE b == m + 1
             e == m + n
             part == SubSeq(all, b, e)
  <2>1. b \in Int /\ e \in Int /\ b = m + 1 /\ e = m + n /\ \A i \in b .. e : all[i] \in S
    BY <1>1, <1>3
  <2> HIDE DEF b, e
  <2>2. /\ part \in Seq(S) /\ Len(part) = IF b <= e THEN e - b + 1 ELSE 0
        /\ \A i \in 1 .. e - b + 1 : part[i] = all[b + i - 1]
    BY <2>1, SubSeqProperties
  <2> HIDE DEF part
  <2>3. Len(part) = n /\ e - b + 1 = n /\ \A i \in 1 .. n : b + i - 1 = m + i
    BY <1>1, <2>1, <2>2
  <2>4. QED
    BY <2>2, <2>3 DEF part, b, e
<1>6. first = s
  <2> HIDE DEF first
  <2>1. \A i \in 1 .. m : i \in 1 .. m + n /\ i <= m
    BY <1>1
  <2>2. \A i \in 1 .. m : first[i] = s[i]
    BY <1>2, <1>4, <2>1
  <2>3. QED
    BY <1>4, <2>2, SeqEqual DEF m
<1>7. rest = t
  <2> HIDE DEF rest
  <2>1. \A i \in 1 .. n : m + i \in 1 .. m + n /\ ~(m + i <= m) /\ (m + i) - m = i
    BY <1>1
  <2>2. \A i \in 1 .. n : rest[i] = t[i]
    BY <1>2, <1>5, <2>1
  <2>3. QED
    BY <1>5, <2>2, SeqEqual DEF n
<1>8. SubSeq(s, 1, m) = s
  BY SubSeqFull DEF m
<1>9. IsPrefix(s, all)
  <2>1. m <= m + n
    BY <1>1
  <2>2. QED
    BY <1>2, <1>6, <1>8, <2>1 DEF IsPrefix, m
<1>10. t # <<>> => s # all
  BY <1>1, <1>2 DEF m
<1>11. QED
  BY <1>2, <1>6, <1>7, <1>9, <1>10, Zenon DEF all, m, n, first, rest, IsStrictPrefix

LEMMA PrefixSplits ==
    ASSUME NEW S, NEW s \in Seq(S), NEW p \in Seq(S), IsPrefix(s, p)
    PROVE  \E t \in Seq(S) : /\ p = s \o t /\ t = SubSeq(p, Len(s) + 1, Len(p))
                             /\ IsStrictPrefix(s, p) => t # <<>>
<1> DEFINE m == Len(s)
           n == Len(p)
           t == SubSeq(p, m + 1, n)
           first == SubSeq(p, 1, m)
<1>1. m \in Nat /\ n \in Nat /\ m <= n /\ \A i \in 1 .. n : p[i] \in S
  BY LenProperties, ElementOfSeq DEF IsPrefix
<1>2. SubSeq(s, 1, m) = first /\ SubSeq(s, 1, m) = s
  BY SubSeqFull DEF IsPrefix
<1>3. t \in Seq(S)
  <2>1. m + 1 \in Int /\ n \in Int /\ \A i \in m + 1 .. n : p[i] \in S
    BY <1>1
  <2>2. QED
    BY <2>1, SubSeqProperties
<1>4. first \o t = SubSeq(p, 1, n)
  <2> DEFINE b == 1
  <2>1. b \in 1 .. Len(p) + 1 /\ m \in b - 1 .. Len(p) /\ n \in m .. Len(p)
    BY <1>1
  <2> HIDE DEF b, m, n
  <2>2. SubSeq(p, b, m) \o SubSeq(p, m + 1, n) = SubSeq(p, b, n)
    BY <2>1, ConcatAdjacentSubSeq
  <2>3. QED
    BY <2>2, Zenon DEF b, first, t
<1>5. SubSeq(p, 1, n) = p
  BY SubSeqFull
<1>6. p = s \o t
  BY <1>2, <1>4, <1>5, Zenon
<1>7. IsStrictPrefix(s, p) => t # <<>>
  <2>1. ASSUME t = <<>> PROVE s = p
    <3>1. s \o t = s
      BY <2>1, ConcatEmptySeq
    <3>2. QED
      BY <1>6, <3>1
  <2>2. QED
    BY <2>1 DEF IsStrictPrefix
<1> HIDE DEF t
<1>8. QED
  BY <1>3, <1>6, <1>7 DEF t

LEMMA HeadOn ==
    ASSUME NEW S, NEW s \in Seq(S), NEW t \in Seq(S), t # <<>>
    PROVE  Head(t) \in S /\ Tail(t) \in Seq(S) /\ s \o t = Append(s, Head(t)) \o Tail(t)
<1> DEFINE x == Head(t)
           r == Tail(t)
           one == <<x>>
<1>1. x \in S /\ r \in Seq(S)
  BY HeadTailProperties
<1>2. one \in Seq(S)
  BY <1>1
<1>3. t = one \o r
  <2>1. one \o r \in Seq(S) /\ Len(one \o r) = Len(t) /\ \A i \in 1 .. Len(t) : (one \o r)[i] = t[i]
    OBVIOUS
  <2> DEFINE u == one \o r
  <2> HIDE DEF u
  <2>2. u \in Seq(S) /\ Len(u) = Len(t) /\ \A i \in 1 .. Len(t) : u[i] = t[i]
    BY <2>1 DEF u
  <2>3. u = t
    BY <2>2, SeqEqual
  <2>4. QED
    BY <2>3 DEF u
<1> HIDE DEF x, r
<1>4. Append(s, x) = s \o one
  BY <1>1, AppendIsConcat
<1> HIDE DEF one
<1>5. (s \o one) \o r = s \o (one \o r)
  <2>1. Joins(S)
    BY Concats
  <2>2. QED
    BY <1>1, <1>2, <2>1, Zenon DEF Joins
<1>6. QED
  BY <1>1, <1>3, <1>4, <1>5, Zenon DEF x, r
================================================================================
