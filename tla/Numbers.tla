---------------------------------- MODULE Numbers ----------------------------------
(***************************************************************************)
(* How a number names a source (format_number of rs/src/lib.rs), for       *)
(* binary floating point of a few bits.  A finite number is                *)
(* [neg, m, e], of value m * 2^e, with 2^(Precision-1) <= m < 2^Precision  *)
(* unless e = MinExp.  A decimal is a pair of digits s and an exponent q,  *)
(* of value s * 10^q.                                                      *)
(***************************************************************************)
EXTENDS Integers, FiniteSetsExt

CONSTANTS
    Precision, MinExp, MaxExp,  \* 53, -1074 and 971 for an f64
    PLAIN_MAX,                  \* 21 in the code: the most digits before the point
    PLAIN_MIN                   \* -5 in the code: zeros after the point, negated

ASSUME NumbersAssumption ==
    Precision \in Nat \ {0} /\ MinExp <= MaxExp /\ PLAIN_MIN <= 0 /\ PLAIN_MAX > 0

MaxDigits == 3      \* bound: digits any of the numbers needs

Finite(neg, m, e) == [is |-> "finite", neg |-> neg, m |-> m, e |-> e]
Special(is, neg) == [is |-> is, neg |-> neg, m |-> 0, e |-> 0]

Floats ==
    {Finite(FALSE, m, e) : m \in 2^(Precision - 1) .. 2^Precision - 1, e \in MinExp .. MaxExp}
        \cup {Finite(FALSE, m, MinExp) : m \in 0 .. 2^(Precision - 1) - 1}

(***************************************************************************)
(* M * 2^f / 10^q as a fraction, and the decimals that read as a number:   *)
(* those nearer to it than to its neighbours, the midpoints included when  *)
(* m is even.  Below a power of two the neighbour is half as far.          *)
(***************************************************************************)
Above(n) == Max({n, 0})
Num(M, f, q) == M * 2^Above(f) * 10^Above(-q)
Den(f, q) == 2^Above(-f) * 10^Above(q)

IsPowerOfTwo(v) == v.m = 2^(Precision - 1) /\ v.e > MinExp

Low(v) == IF IsPowerOfTwo(v) THEN 4 * v.m - 1 ELSE 4 * v.m - 2
High(v) == 4 * v.m + 2

ReadsAs(v, s, q) ==
    LET at == s * Den(v.e - 2, q)
        low == Num(Low(v), v.e - 2, q)
        high == Num(High(v), v.e - 2, q)
    IN  \/ low < at /\ at < high
        \/ v.m % 2 = 0 /\ at \in {low, high}

Exponents == -6 .. 3        \* bound: exponents of the decimals

NumDigits(s) == CHOOSE k \in 1 .. 7 : 10^(k - 1) <= s /\ s < 10^k

Spellings(v) ==
    UNION {{<<s, q>> : s \in {t \in Num(Low(v), v.e - 2, q) \div Den(v.e - 2, q)
                                 .. Min({10^MaxDigits - 1, 1 + Num(High(v), v.e - 2, q) \div Den(v.e - 2, q)}) :
                              t > 0 /\ ReadsAs(v, t, q)}} : q \in Exponents}

(***************************************************************************)
(* Rust's {:e} and {:.*e}: the fewest digits that read back as the number, *)
(* and the number rounded to so many digits, ties to even.                 *)
(***************************************************************************)
ShortestLength(v) == Min({NumDigits(d[1]) : d \in Spellings(v)})

\* Faulty: a tie goes up.
RoundTiesUp(num, den) == IF 2 * (num % den) >= den THEN num \div den + 1 ELSE num \div den

Round(num, den) ==
    IF 2 * (num % den) + ((num \div den) % 2) > den
    THEN num \div den + 1 ELSE num \div den

RoundedTo(v, k) ==
    LET q == CHOOSE q \in Exponents :
                /\ 10^(k - 1) * Den(v.e, q) <= Num(v.m, v.e, q)
                /\ Num(v.m, v.e, q) < 10^k * Den(v.e, q)
    IN  <<Round(Num(v.m, v.e, q), Den(v.e, q)), q>>

Trimmed(d) ==
    LET zeros == Max({t \in 0 .. NumDigits(d[1]) - 1 : d[1] % 10^t = 0})
    IN  <<d[1] \div 10^zeros, d[2] + zeros>>

(***************************************************************************)
(* What is written: a word, or a sign, the digits before the point, those  *)
(* after it as a number of so many places, and the power of ten if there   *)
(* is one.                                                                 *)
(***************************************************************************)
Word(word) ==
    [word |-> word, neg |-> FALSE, whole |-> 0, frac |-> 0, places |-> 0, power |-> {}]
Written(neg, whole, frac, places, power) ==
    [word |-> "", neg |-> neg, whole |-> whole, frac |-> frac, places |-> places, power |-> power]

Layout(neg, s, k, n) ==
    CASE k <= n /\ n <= PLAIN_MAX -> Written(neg, s * 10^(n - k), 0, 0, {})
      [] n < k /\ 1 <= n /\ n <= PLAIN_MAX ->
            Written(neg, s \div 10^(k - n), s % 10^(k - n), k - n, {})
      [] PLAIN_MIN <= n /\ n <= 0 -> Written(neg, 0, s, k - n, {})
      [] OTHER -> Written(neg, s \div 10^(k - 1), s % 10^(k - 1), k - 1, {n - 1})

FormatNumber(v) ==
    LET d == Trimmed(RoundedTo(v, ShortestLength(v)))
        k == NumDigits(d[1])
    IN  CASE v.is = "nan" -> Word("NaN")
          [] v.is = "infinite" -> Word(IF v.neg THEN "-Infinity" ELSE "Infinity")
          [] v.is = "finite" /\ v.m = 0 -> Written(FALSE, 0, 0, 0, {})
          [] OTHER -> Layout(v.neg, d[1], k, d[2] + k)
================================================================================
