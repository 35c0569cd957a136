------------------------- MODULE RetryBackoffProofs -------------------------
(***************************************************************************)
(* The delay between two attempts, for every attempt, every configuration  *)
(* that NewWorker accepts and Durations of every width: the loop of        *)
(* retryDelay computes the capped doubling and never overflows.            *)
(*                                                                         *)
(* The argument is an induction over the attempt.  The library's induction *)
(* theorems are about predicates, which the provers cannot instantiate;    *)
(* it is derived here for sets, from the least element of a set.           *)
(***************************************************************************)
EXTENDS RetryBackoff, WellFoundedInduction, TLAPS

(* Induction over the natural numbers, for a set instead of a predicate. *)
LEMMA LeastElement ==
    ASSUME NEW T \in SUBSET Nat, T # {}
    PROVE  \E x \in T : \A y \in T : x <= y
  <1> DEFINE R == {p \in Nat \X Nat : p[1] < p[2]}
  <1>1. IsWellFoundedOn(R, Nat)
    BY NatLessThanWellFounded DEF OpToRel
  <1>2. PICK x \in T : \A y \in T : ~(<<y, x>> \in R)
    <2> HIDE DEF R
    <2> QED
      BY <1>1, WFMin, Zenon
  <1>3. ASSUME NEW y \in T PROVE x <= y
    <2>1. x \in Nat /\ y \in Nat /\ <<y, x>> \in Nat \X Nat
      OBVIOUS
    <2>2. ~(y < x)
      BY <1>2, <2>1
    <2>3. QED
      BY <2>1, <2>2
  <1>4. QED
    BY <1>3

(* What holds of 0, and of n + 1 when it holds of n, holds of every         *)
(* number.                                                                  *)
LEMMA Induction ==
    ASSUME NEW S, 0 \in S, \A n \in Nat : n \in S => n + 1 \in S
    PROVE  Nat \subseteq S
  <1> SUFFICES ASSUME NEW m \in Nat, m \notin S PROVE FALSE
    OBVIOUS
  <1> DEFINE T == {n \in Nat : n \notin S}
  <1>1. PICK x \in T : \A y \in T : x <= y
    BY LeastElement, Zenon
  <1>2. x - 1 \in Nat /\ x - 1 \notin T
    BY <1>1
  <1>3. x - 1 \in S /\ (x - 1) + 1 = x
    BY <1>2
  <1>4. QED
    BY <1>2, <1>3

-----------------------------------------------------------------------------
(* The powers of two.  That the recursive definition defines a function is  *)
(* shown by its approximations: the functions on 0..n that satisfy it.      *)

Approximates(f, n) ==
    /\ f \in [0..n -> Nat \ {0}] /\ f[0] = 1
    /\ \A k \in 1..n : f[k] = 2 * f[k - 1]

(* The recursion reaches every number. *)
LEMMA ApproximationsExist == \A n \in Nat : \E f : Approximates(f, n)
  <1> DEFINE S == {n \in Nat : \E f : Approximates(f, n)}
  <1>1. 0 \in S
    <2>1. Approximates([k \in 0..0 |-> 1], 0)
      BY DEF Approximates
    <2>2. QED
      BY <2>1
  <1>2. ASSUME NEW n \in Nat, n \in S PROVE n + 1 \in S
    <2>1. PICK f : Approximates(f, n)
      BY <1>2
    <2> DEFINE g == [k \in 0..(n + 1) |-> IF k = n + 1 THEN 2 * f[n] ELSE f[k]]
    <2>2. f[n] \in Nat \ {0} /\ \A k \in 0..n : f[k] \in Nat \ {0}
      BY <2>1 DEF Approximates
    <2>3. g \in [0..(n + 1) -> Nat \ {0}]
      BY <2>2
    <2>4. g[0] = 1
      BY <2>1 DEF Approximates
    <2>5. ASSUME NEW k \in 1..(n + 1) PROVE g[k] = 2 * g[k - 1]
      <3>1. CASE k = n + 1
        BY <3>1
      <3>2. CASE k # n + 1
        <4>1. k \in 1..n /\ k - 1 \in 0..n
          BY <3>2
        <4>2. QED
          BY <2>1, <3>2, <4>1 DEF Approximates
      <3>3. QED
        BY <3>1, <3>2
    <2> HIDE DEF g
    <2>6. Approximates(g, n + 1)
      BY <2>3, <2>4, <2>5 DEF Approximates
    <2>7. QED
      BY <2>6
  <1>3. Nat \subseteq S
    <2> HIDE DEF S
    <2> QED
      BY <1>1, <1>2, Induction
  <1>4. QED
    BY <1>3

(* Two approximations agree where both are defined. *)
LEMMA ApproximationsAgree ==
    ASSUME NEW n \in Nat, NEW m \in Nat, NEW f, NEW g, Approximates(f, n), Approximates(g, m),
           NEW k \in Nat, k <= n, k <= m
    PROVE  f[k] = g[k]
  <1> DEFINE S == {i \in Nat : i <= n /\ i <= m => f[i] = g[i]}
  <1>1. 0 \in S
    BY DEF Approximates
  <1>2. ASSUME NEW i \in Nat, i \in S PROVE i + 1 \in S
    <2> SUFFICES ASSUME i + 1 <= n, i + 1 <= m PROVE f[i + 1] = g[i + 1]
      OBVIOUS
    <2>1. f[i] = g[i] /\ i + 1 \in 1..n /\ i + 1 \in 1..m /\ (i + 1) - 1 = i
      BY <1>2
    <2>2. f[i + 1] = 2 * f[i] /\ g[i + 1] = 2 * g[i]
      BY <2>1, SMTT(60) DEF Approximates
    <2>3. QED
      BY <2>1, <2>2
  <1>3. Nat \subseteq S
    <2> HIDE DEF S
    <2> QED
      BY <1>1, <1>2, Induction
  <1>4. QED
    BY <1>3

(* TwoTo satisfies its recursion, and is positive. *)
LEMMA PowersOfTwo ==
    /\ TwoTo[0] = 1
    /\ \A n \in Nat : TwoTo[n] \in Nat \ {0} /\ TwoTo[n + 1] = 2 * TwoTo[n]
  <1> DEFINE P(n) == CHOOSE f : Approximates(f, n)
             G == [n \in Nat |-> P(n)[n]]
             Powers(f) == f = [n \in Nat |-> IF n = 0 THEN 1 ELSE 2 * f[n - 1]]
  <1>1. ASSUME NEW n \in Nat PROVE Approximates(P(n), n)
    BY ApproximationsExist, Zenon
  <1> HIDE DEF P
  <1>2. ASSUME NEW n \in Nat
        PROVE  G[n] \in Nat \ {0} /\ G[n] = IF n = 0 THEN 1 ELSE 2 * G[n - 1]
    <2>1. G[n] = P(n)[n] /\ n \in 0..n
      OBVIOUS
    <2>2. G[n] \in Nat \ {0}
      BY <1>1, <2>1 DEF Approximates
    <2>3. CASE n = 0
      BY <1>1, <2>1, <2>2, <2>3 DEF Approximates
    <2>4. CASE n # 0
      <3>1. n \in 1..n /\ n - 1 \in Nat /\ n - 1 <= n /\ n - 1 <= n - 1
        BY <2>4
      <3>2. P(n)[n - 1] = P(n - 1)[n - 1]
        BY <1>1, <3>1, ApproximationsAgree
      <3>3. P(n)[n] = 2 * P(n)[n - 1]
        BY <1>1, <3>1 DEF Approximates
      <3>4. QED
        BY <2>1, <2>2, <2>4, <3>1, <3>2, <3>3, SMTT(60)
    <2>5. QED
      BY <2>3, <2>4
  <1>3. Powers(G)
    BY <1>2
  <1>4. TwoTo = CHOOSE f : Powers(f)
    BY Zenon DEF TwoTo
  <1>5. Powers(TwoTo)
    <2> HIDE DEF Powers, G
    <2> QED
      BY <1>3, <1>4, Zenon
  <1>6. TwoTo = [n \in Nat |-> IF n = 0 THEN 1 ELSE 2 * TwoTo[n - 1]]
    BY <1>5
  <1>7. TwoTo[0] = 1 /\ \A n \in Nat : TwoTo[n + 1] = 2 * TwoTo[n]
    BY <1>6
  <1>8. \A n \in Nat : TwoTo[n] \in Nat \ {0}
    <2> DEFINE S == {n \in Nat : TwoTo[n] \in Nat \ {0}}
    <2>1. 0 \in S
      BY <1>7
    <2>2. ASSUME NEW n \in Nat, n \in S PROVE n + 1 \in S
      BY <1>7, <2>2
    <2>3. Nat \subseteq S
      <3> HIDE DEF S
      <3> QED
        BY <2>1, <2>2, Induction
    <2>4. QED
      BY <2>3
  <1>9. QED
    BY <1>7, <1>8

(* The library's Min and Max of two and of three numbers. *)
LEMMA LeastOfTwo ==
    ASSUME NEW a \in Int, NEW b \in Int
    PROVE  Min({a, b}) = IF a <= b THEN a ELSE b
  <1> DEFINE m == IF a <= b THEN a ELSE b
  <1>1. m \in {a, b} /\ \A y \in {a, b} : m <= y
    OBVIOUS
  <1>2. \A x \in {a, b} : (\A y \in {a, b} : x <= y) => x = m
    OBVIOUS
  <1> HIDE DEF m
  <1>3. Min({a, b}) = m
    BY <1>1, <1>2, Zenon DEF Min
  <1>4. QED
    BY <1>3 DEF m

(* The greatest of two numbers. *)
LEMMA GreatestOfTwo ==
    ASSUME NEW a \in Int, NEW b \in Int
    PROVE  Max({a, b}) = IF a >= b THEN a ELSE b
  <1> DEFINE m == IF a >= b THEN a ELSE b
  <1>1. m \in {a, b} /\ \A y \in {a, b} : m >= y
    OBVIOUS
  <1>2. \A x \in {a, b} : (\A y \in {a, b} : x >= y) => x = m
    OBVIOUS
  <1> HIDE DEF m
  <1>3. Max({a, b}) = m
    BY <1>1, <1>2, Zenon DEF Max
  <1>4. QED
    BY <1>3 DEF m

(* The least of three numbers, as process caps a delay. *)
LEMMA LeastOfThree ==
    ASSUME NEW a \in Int, NEW b \in Int, NEW c \in Int
    PROVE  Min({a, b, c}) = IF a <= b /\ a <= c THEN a ELSE IF b <= c THEN b ELSE c
  <1> DEFINE m == IF a <= b /\ a <= c THEN a ELSE IF b <= c THEN b ELSE c
  <1>1. m \in {a, b, c} /\ \A y \in {a, b, c} : m <= y
    OBVIOUS
  <1>2. \A x \in {a, b, c} : (\A y \in {a, b, c} : x <= y) => x = m
    OBVIOUS
  <1> HIDE DEF m
  <1>3. Min({a, b, c}) = m
    BY <1>1, <1>2, Zenon DEF Min
  <1>4. QED
    BY <1>3 DEF m

(* A Duration that fits does not wrap around. *)
LEMMA DurationsFit ==
    /\ Half \in Nat \ {0} /\ MaxDuration \in Nat
    /\ \A x \in 0..MaxDuration : Wrap(x) = x
  <1>1. Half \in Nat \ {0}
    <2>1. DurationBits - 1 \in Nat
      BY BackoffConstants
    <2>2. QED
      BY <2>1, PowersOfTwo DEF Half
  <1>2. ASSUME NEW z \in Nat, NEW q \in Nat, z < q PROVE z % q = z
    BY <1>2
  <1>3. ASSUME NEW x \in 0..MaxDuration PROVE Wrap(x) = x
    <2>1. x + Half \in Nat /\ 2 * Half \in Nat /\ x + Half < 2 * Half
      BY <1>1 DEF MaxDuration
    <2>2. (x + Half) % (2 * Half) = x + Half
      BY <1>2, <2>1
    <2>3. QED
      BY <1>1, <2>2 DEF Wrap, MaxDuration
  <1>4. QED
    BY <1>1, <1>3 DEF MaxDuration

(* What the loop of retryDelay has when it has counted to c. *)
Capped(c, minimum, maximum) ==
    IF minimum * TwoTo[c - 1] <= maximum THEN minimum * TwoTo[c - 1] ELSE maximum

LoopBody(before, maximum) ==
    IF before >= maximum THEN before
    ELSE IF before > maximum \div 2 THEN maximum
    ELSE Wrap(2 * before)

(* The loop of retryDelay starts with the minimum. *)
LEMMA CappedStarts ==
    ASSUME NEW minimum \in Durations, NEW maximum \in minimum..MaxDuration
    PROVE  Capped(1, minimum, maximum) = minimum
  BY PowersOfTwo, DurationsFit DEF Capped, Durations

(* The loop stays within the minimum and the maximum of the configuration. *)
LEMMA CappedRange ==
    ASSUME NEW minimum \in Durations, NEW maximum \in minimum..MaxDuration,
           NEW c \in Nat \ {0}
    PROVE  Capped(c, minimum, maximum) \in 1..maximum
  <1>1. c - 1 \in Nat /\ TwoTo[c - 1] \in Nat \ {0} /\ minimum \in Nat \ {0} /\ maximum \in Nat
        /\ minimum <= maximum
    BY PowersOfTwo, DurationsFit DEF Durations
  <1>2. minimum * TwoTo[c - 1] \in Nat \ {0}
    BY <1>1
  <1>3. QED
    BY <1>1, <1>2 DEF Capped

(* One round of the loop doubles or caps: the comparison with maximum/2     *)
(* comes before the multiplication, which therefore does not overflow.      *)
LEMMA CappedDoubles ==
    ASSUME NEW minimum \in Durations, NEW maximum \in minimum..MaxDuration,
           NEW c \in Nat \ {0}
    PROVE  Capped(c + 1, minimum, maximum) = LoopBody(Capped(c, minimum, maximum), maximum)
  <1>1. c - 1 \in Nat /\ TwoTo[c - 1] \in Nat \ {0} /\ minimum \in Nat \ {0} /\ maximum \in Nat
        /\ maximum <= MaxDuration /\ MaxDuration \in Nat
    BY PowersOfTwo, DurationsFit DEF Durations
  <1>2. TwoTo[(c + 1) - 1] = 2 * TwoTo[c - 1]
    <2>1. (c + 1) - 1 = (c - 1) + 1
      OBVIOUS
    <2>2. QED
      BY <1>1, <2>1, PowersOfTwo
  <1> DEFINE p == minimum * TwoTo[c - 1]
  <1>3. p \in Nat \ {0}
    BY <1>1
  <1>4. minimum * TwoTo[(c + 1) - 1] = 2 * p
    BY <1>1, <1>2
  <1>5. Capped(c + 1, minimum, maximum) = IF 2 * p <= maximum THEN 2 * p ELSE maximum
    BY <1>4 DEF Capped
  <1>6. Capped(c, minimum, maximum) = IF p <= maximum THEN p ELSE maximum
    BY DEF Capped
  <1> HIDE DEF p
  <1>7. 2 * p <= maximum => Wrap(2 * p) = 2 * p
    BY <1>1, <1>3, DurationsFit
  <1>8. QED
    BY <1>1, <1>3, <1>5, <1>6, <1>7, SMTT(60) DEF LoopBody

(* retryDelay is the capped doubling in unbounded arithmetic. *)
LEMMA DelayIsDoubled ==
    ASSUME NEW n \in Nat \ {0}, NEW minimum \in Durations, NEW maximum \in minimum..MaxDuration
    PROVE  /\ retryDelay(n, minimum, maximum) = Capped(n, minimum, maximum)
           /\ Doubled(n, minimum, maximum) = Capped(n, minimum, maximum)
  <1>1. minimum \in Nat \ {0} /\ maximum \in Nat \ {0}
    BY DurationsFit DEF Durations
  <1> DEFINE Loop(f) == f = [current \in 1..n |->
                IF current = 1 THEN minimum
                ELSE IF f[current - 1] >= maximum THEN f[current - 1]
                ELSE IF f[current - 1] > maximum \div 2 THEN maximum
                ELSE Wrap(2 * f[current - 1])]
             d == CHOOSE f : Loop(f)
             G == [c \in 1..n |-> Capped(c, minimum, maximum)]
  <1>2. retryDelay(n, minimum, maximum) = Min({d[n], maximum})
    <2>1. retryDelay(n, minimum, maximum) =
            IF minimum <= 0 \/ maximum <= 0 THEN 0 ELSE Min({d[n], maximum})
      BY Zenon DEF retryDelay
    <2> HIDE DEF d
    <2>2. QED
      BY <1>1, <2>1
  <1>3. Loop(G)
    <2>1. ASSUME NEW c \in 1..n
          PROVE  G[c] = IF c = 1 THEN minimum ELSE LoopBody(G[c - 1], maximum)
      <3>1. CASE c = 1
        BY <3>1, CappedStarts
      <3>2. CASE c # 1
        <4>1. c - 1 \in Nat \ {0} /\ c - 1 \in 1..n /\ (c - 1) + 1 = c
          BY <3>2
        <4>2. G[c] = Capped((c - 1) + 1, minimum, maximum)
              /\ G[c - 1] = Capped(c - 1, minimum, maximum)
          BY <4>1
        <4> HIDE DEF G
        <4>3. QED
          BY <3>2, <4>1, <4>2, CappedDoubles
      <3>3. QED
        BY <3>1, <3>2
    <2>2. G = [c \in 1..n |-> IF c = 1 THEN minimum ELSE LoopBody(G[c - 1], maximum)]
      BY <2>1
    <2> HIDE DEF G
    <2>3. QED
      BY <2>2, Zenon DEF LoopBody
  <1>4. Loop(d)
    <2> HIDE DEF Loop, G
    <2> QED
      BY <1>3, Zenon
  <1>5. \A c \in 1..n : d[c] = IF c = 1 THEN minimum ELSE LoopBody(d[c - 1], maximum)
    <2> HIDE DEF d
    <2> QED
      BY <1>4 DEF LoopBody
  <1> HIDE DEF d, G, Loop
  <1>6. d[n] = Capped(n, minimum, maximum)
    <2> DEFINE S == {c \in Nat : c + 1 \in 1..n => d[c + 1] = Capped(c + 1, minimum, maximum)}
    <2>1. 0 \in S
      BY <1>5, CappedStarts
    <2>2. ASSUME NEW c \in Nat, c \in S PROVE c + 1 \in S
      <3> SUFFICES ASSUME (c + 1) + 1 \in 1..n
                   PROVE  d[(c + 1) + 1] = Capped((c + 1) + 1, minimum, maximum)
        OBVIOUS
      <3>1. c + 1 \in 1..n /\ c + 1 \in Nat \ {0} /\ (c + 1) + 1 # 1 /\ ((c + 1) + 1) - 1 = c + 1
        OBVIOUS
      <3>2. d[c + 1] = Capped(c + 1, minimum, maximum)
        BY <2>2, <3>1
      <3>3. d[(c + 1) + 1] = LoopBody(d[c + 1], maximum)
        BY <1>5, <3>1
      <3>4. QED
        BY <3>1, <3>2, <3>3, CappedDoubles, SMTT(60)
    <2>3. Nat \subseteq S
      <3> HIDE DEF S
      <3> QED
        BY <2>1, <2>2, Induction
    <2>4. n - 1 \in S /\ (n - 1) + 1 = n /\ n \in 1..n
      BY <2>3
    <2>5. QED
      BY <2>4
  <1>7. Capped(n, minimum, maximum) \in 1..maximum
    BY CappedRange
  <1>8. Min({Capped(n, minimum, maximum), maximum}) = Capped(n, minimum, maximum)
    BY <1>1, <1>7, LeastOfTwo
  <1>9. Doubled(n, minimum, maximum) = Capped(n, minimum, maximum)
    <2>1. TwoTo[n - 1] \in Nat
      BY PowersOfTwo
    <2>2. minimum * TwoTo[n - 1] \in Int
      BY <1>1, <2>1
    <2>3. QED
      BY <1>1, <2>2, LeastOfTwo DEF Doubled, Capped
  <1>10. QED
    BY <1>2, <1>6, <1>8, <1>9

(* The delay a worker waits, for every attempt and every configuration that *)
(* NewWorker accepts, and for Durations of every width.                     *)
THEOREM DelaysExact ==
    ASSUME NEW n \in Nat \ {0}, NEW minimum \in Durations, NEW maximum \in minimum..MaxDuration
    PROVE  ExactDelay(n, minimum, maximum)
  <1> DEFINE upper == Capped(n, minimum, maximum)
  <1>1. retryDelay(n, minimum, maximum) = upper /\ Doubled(n, minimum, maximum) = upper
    BY DelayIsDoubled
  <1>2. upper \in 1..maximum /\ maximum \in Nat \ {0} /\ MaxDuration \in Nat
    BY CappedRange, DurationsFit DEF Durations
  <1> HIDE DEF upper
  <1>3. ASSUME NEW retryAfter \in {0, maximum, MaxDuration}, NEW remainingAge \in {1, maximum},
               NEW delay \in RetryDelays(n, minimum, maximum, retryAfter, remainingAge)
        PROVE  /\ delay <= maximum /\ delay <= remainingAge
               /\ delay >= Min({retryAfter, maximum, remainingAge})
               /\ delay >= Min({upper \div 2, remainingAge})
    <2>1. retryAfter \in Int /\ remainingAge \in Int
      BY <1>2
    <2>2. PICK drawn \in jitteredRetryDelay(n, minimum, maximum) :
             delay = Min({Max({drawn, retryAfter}), maximum, remainingAge})
      BY DEF RetryDelays
    <2>3. drawn \in Int /\ drawn >= upper \div 2
      BY <1>1, <1>2, <2>2 DEF jitteredRetryDelay
    <2>4. PICK m \in Int : m = Max({drawn, retryAfter}) /\ m >= drawn /\ m >= retryAfter
      BY <2>1, <2>3, GreatestOfTwo
    <2>5. delay = IF m <= maximum /\ m <= remainingAge THEN m
                  ELSE IF maximum <= remainingAge THEN maximum ELSE remainingAge
      BY <1>2, <2>1, <2>2, <2>4, LeastOfThree, SMTT(60)
    <2>6. Min({retryAfter, maximum, remainingAge}) =
            IF retryAfter <= maximum /\ retryAfter <= remainingAge THEN retryAfter
            ELSE IF maximum <= remainingAge THEN maximum ELSE remainingAge
      BY <1>2, <2>1, LeastOfThree
    <2>7. upper \div 2 \in Int /\ upper \div 2 <= maximum
      BY <1>2
    <2>8. Min({upper \div 2, remainingAge}) =
            IF upper \div 2 <= remainingAge THEN upper \div 2 ELSE remainingAge
      BY <2>1, <2>7, LeastOfTwo
    <2>9. QED
      BY <1>2, <2>1, <2>3, <2>4, <2>5, <2>6, <2>7, <2>8
  <1>4. QED
    BY <1>1, <1>3, ZenonT(60) DEF ExactDelay
=============================================================================
