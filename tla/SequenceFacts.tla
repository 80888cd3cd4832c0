---------------------------- MODULE SequenceFacts ----------------------------
(***************************************************************************)
(* What the operators of SequenceTools do, for every sequence: induction   *)
(* from the well-foundedness of the natural numbers, with a set for the    *)
(* property (a lemma cannot be cited of an operator), then folds from the  *)
(* left, what a sequence holds, sums and maxima, joining and sorting.      *)
(***************************************************************************)
EXTENDS SequenceTools, FiniteSetTheorems, SequenceTheorems, WellFoundedInduction, TLAPS

-----------------------------------------------------------------------------
(* Induction *)

Below == {pair \in Nat \X Nat : pair[1] < pair[2]}

\* Among some natural numbers one is the least.
LEMMA LeastNumber ==
    ASSUME NEW T \in SUBSET Nat, T # {}
    PROVE  \E x \in T : \A y \in T : x <= y
PROOF
<1>1. IsWellFoundedOn(Below, Nat)
    BY NatLessThanWellFounded DEF OpToRel, Below
<1>2. PICK x \in T : \A y \in T : ~(<<y, x>> \in Below)
    BY <1>1, WFMin
<1>3. \A y \in T : ~(y < x)
    BY <1>2 DEF Below
<1> QED
    BY <1>3

\* What holds of 0, and of n + 1 if it holds of n, holds of every number.  A property
\* is the set of those that have it, so that the lemma can be cited of any.
LEMMA Induction ==
    ASSUME NEW T, 0 \in T, \A n \in Nat : n \in T => n + 1 \in T
    PROVE  \A n \in Nat : n \in T
PROOF
<1> SUFFICES ASSUME NEW m \in Nat, m \notin T PROVE FALSE
    OBVIOUS
<1>1. PICK x \in Nat \ T : \A y \in Nat \ T : x <= y
  <2>1. Nat \ T \in SUBSET Nat /\ Nat \ T # {}
      OBVIOUS
  <2> QED
      BY <2>1, LeastNumber
<1>2. x # 0 /\ x - 1 \in Nat /\ x = (x - 1) + 1 /\ ~(x <= x - 1)
    BY <1>1
<1>3. x - 1 \in T
    BY <1>1, <1>2
<1> QED
    BY <1>1, <1>2, <1>3

\* What holds at the start, and of n + 1 if it holds of n, holds up to a limit.
LEMMA InductionUpTo ==
    ASSUME NEW N \in Nat, NEW T, 0 \in T, \A n \in 0..(N - 1) : n \in T => n + 1 \in T
    PROVE  \A n \in 0..N : n \in T
PROOF
<1> DEFINE U == {n \in Nat : n <= N => n \in T}
<1>1. 0 \in U
    OBVIOUS
<1>2. \A n \in Nat : n \in U => n + 1 \in U
    OBVIOUS
<1> HIDE DEF U
<1>3. \A n \in Nat : n \in U
    BY <1>1, <1>2, Induction
<1> QED
    BY <1>3 DEF U

-----------------------------------------------------------------------------
(* Recursion *)

\* The sequences of values each of which is made of the one before it.
Iterations(V, base, step) ==
    {f \in [Nat -> V] : f[0] = base /\ \A n \in Nat : f[n + 1] = step[f[n]]}

\* There is one.
LEMMA IterationExists ==
    ASSUME NEW V, NEW base \in V, NEW step \in [V -> V]
    PROVE  Iterations(V, base, step) # {}
PROOF
<1> DEFINE Runs(n) == {g \in [0..n -> V] :
               g[0] = base /\ \A k \in 0..(n - 1) : g[k + 1] = step[g[k]]}
           T == {n \in Nat : Runs(n) # {}}
<1>1. 0 \in T
  <2>1. [k \in 0..0 |-> base] \in Runs(0)
      OBVIOUS
  <2> QED
      BY <2>1
<1>2. ASSUME NEW n \in Nat, n \in T PROVE n + 1 \in T
  <2>1. PICK g : g \in Runs(n)
      BY <1>2
  <2>2. n \in 0..n /\ \A k \in 0..n : k \in 0..(n + 1) /\ k # n + 1
      OBVIOUS
  <2>3. g[n] \in V
      BY <2>1, <2>2
  <2>4. step[g[n]] \in V
      BY <2>3
  <2> DEFINE h == [k \in 0..(n + 1) |-> IF k = n + 1 THEN step[g[n]] ELSE g[k]]
  <2>5. h \in [0..(n + 1) -> V]
    <3>1. ASSUME NEW k \in 0..(n + 1), k # n + 1 PROVE k \in 0..n
        BY <3>1
    <3>2. ASSUME NEW k \in 0..n PROVE g[k] \in V
        BY <2>1
    <3> QED
        BY <2>4, <3>1, <3>2
  <2>6. h[0] = base
      BY <2>1
  <2>7. ASSUME NEW k \in 0..n PROVE h[k + 1] = step[h[k]]
    <3>1. k + 1 \in 0..(n + 1) /\ k \in 0..(n + 1) /\ k # n + 1
        OBVIOUS
    <3>2. CASE k = n
        BY <3>1, <3>2
    <3>3. CASE k # n
      <4>1. k \in 0..(n - 1) /\ k + 1 # n + 1
          BY <3>3
      <4> QED
          BY <2>1, <3>1, <4>1
    <3> QED
        BY <3>2, <3>3
  <2>8. 0..((n + 1) - 1) = 0..n
      OBVIOUS
  <2> HIDE DEF h
  <2>9. h \in Runs(n + 1)
      BY <2>5, <2>6, <2>7, <2>8
  <2> QED
      BY <2>9
<1>3. \A n \in Nat : n \in T
  <2> HIDE DEF T
  <2> QED
      BY <1>1, <1>2, Induction
<1> DEFINE run(n) == CHOOSE g : g \in Runs(n)
<1>4. \A n \in Nat : run(n) \in Runs(n)
    BY <1>3
<1>5. ASSUME NEW n \in Nat, NEW m \in Nat, n <= m PROVE run(n)[n] = run(m)[n]
  <2> DEFINE A == {k \in 0..n : run(n)[k] = run(m)[k]}
  <2> HIDE DEF run
  <2>1. 0 \in A
      BY <1>4
  <2>2. ASSUME NEW k \in 0..(n - 1), k \in A PROVE k + 1 \in A
    <3>1. k \in 0..(m - 1) /\ k + 1 \in 0..n
        BY <1>5
    <3>2. run(n)[k + 1] = step[run(n)[k]] /\ run(m)[k + 1] = step[run(m)[k]]
        BY <1>4, <3>1
    <3> QED
        BY <2>2, <3>1, <3>2
  <2> HIDE DEF A
  <2>3. n \in A
    <3>1. \A k \in 0..n : k \in A
        BY <2>1, <2>2, InductionUpTo
    <3> QED
        BY <3>1
  <2> QED
      BY <2>3 DEF A
<1> DEFINE f == [n \in Nat |-> run(n)[n]]
<1>6. f \in [Nat -> V]
  <2> HIDE DEF run
  <2>1. \A n \in Nat : run(n) \in [0..n -> V] /\ n \in 0..n
      BY <1>4
  <2> QED
      BY <2>1
<1>7. f[0] = base
  <2> HIDE DEF run
  <2> QED
      BY <1>4
<1>8. ASSUME NEW n \in Nat PROVE f[n + 1] = step[f[n]]
  <2> HIDE DEF run
  <2>1. run(n + 1)[n + 1] = step[run(n + 1)[n]]
    <3>1. n \in 0..((n + 1) - 1)
        OBVIOUS
    <3> QED
        BY <1>4, <3>1
  <2>2. run(n)[n] = run(n + 1)[n]
      BY <1>5
  <2> QED
      BY <2>1, <2>2
<1> HIDE DEF f
<1> QED
    BY <1>6, <1>7, <1>8 DEF Iterations

\* The values of the subsets of a set each of which is made of one element and of the
\* value of the others: what the folds of the libraries are defined by.
Foldings(S, V, base, step, choice) ==
    {iter \in [SUBSET S -> V] : \A s \in SUBSET S :
        iter[s] = IF s = {} THEN base ELSE step[choice[s]][iter[s \ {choice[s]}]]}

\* If the set is finite, there are such values.
LEMMA FoldingExists ==
    ASSUME NEW S, IsFiniteSet(S), NEW V, NEW base \in V, NEW step \in [S -> [V -> V]],
           NEW choice, \A s \in SUBSET S : s # {} => choice[s] \in s
    PROVE  Foldings(S, V, base, step, choice) # {}
PROOF
<1> DEFINE W == [SUBSET S -> V]
           Next1(g) == [s \in SUBSET S |-> IF s = {} THEN base
                                          ELSE step[choice[s]][g[s \ {choice[s]}]]]
           F == [g \in W |-> Next1(g)]
           First == [s \in SUBSET S |-> base]
<1>1. ASSUME NEW g \in W PROVE Next1(g) \in W
  <2>1. ASSUME NEW s \in SUBSET S, s # {} PROVE step[choice[s]][g[s \ {choice[s]}]] \in V
    <3>1. choice[s] \in S /\ s \ {choice[s]} \in SUBSET S
        BY <2>1
    <3> QED
        BY <3>1
  <2> QED
      BY <2>1
<1>2. F \in [W -> W] /\ First \in W
    BY <1>1
<1>3. \A g \in W : F[g] = Next1(g)
    OBVIOUS
<1> HIDE DEF F
<1>4. PICK h \in [Nat -> W] : h[0] = First /\ \A n \in Nat : h[n + 1] = F[h[n]]
  <2> HIDE DEF W, First
  <2>1. Iterations(W, First, F) # {}
      BY <1>2, IterationExists
  <2> QED
      BY <2>1 DEF Iterations
<1>5. ASSUME NEW n \in Nat, NEW s \in SUBSET S
      PROVE  h[n + 1][s] = IF s = {} THEN base ELSE step[choice[s]][h[n][s \ {choice[s]}]]
  <2>1. h[n] \in W
      BY <1>4
  <2>2. h[n + 1] = Next1(h[n])
      BY <1>3, <1>4, <2>1
  <2> QED
      BY <2>2
<1> DEFINE Settled == {n \in Nat : \A s \in SUBSET S :
                          Cardinality(s) <= n => h[n + 1][s] = h[n][s]}
<1>6. 0 \in Settled
  <2>1. ASSUME NEW s \in SUBSET S, Cardinality(s) <= 0 PROVE h[0 + 1][s] = h[0][s]
    <3>1. IsFiniteSet(s) /\ Cardinality(s) \in Nat
        BY FS_Subset, FS_CardinalityType
    <3>2. s = {}
        BY <2>1, <3>1, FS_EmptySet
    <3>3. h[0 + 1][s] = base
        BY <1>5, <3>2
    <3>4. h[0][s] = base
        BY <1>4
    <3> QED
        BY <3>3, <3>4
  <2> QED
      BY <2>1
<1>7. ASSUME NEW n \in Nat, n \in Settled PROVE n + 1 \in Settled
  <2>1. ASSUME NEW s \in SUBSET S, Cardinality(s) <= n + 1, s # {}
        PROVE  h[(n + 1) + 1][s] = h[n + 1][s]
    <3>1. IsFiniteSet(s) /\ Cardinality(s) \in Nat /\ choice[s] \in s
        BY <2>1, FS_Subset, FS_CardinalityType
    <3>2. Cardinality(s \ {choice[s]}) = Cardinality(s) - 1
        BY <3>1, FS_RemoveElement
    <3>3. Cardinality(s \ {choice[s]}) <= n
        BY <2>1, <3>1, <3>2
    <3>4. s \ {choice[s]} \in SUBSET S
        OBVIOUS
    <3>5. h[n + 1][s \ {choice[s]}] = h[n][s \ {choice[s]}]
        BY <1>7, <3>3, <3>4
    <3>6. h[(n + 1) + 1][s] = step[choice[s]][h[n + 1][s \ {choice[s]}]]
        BY <1>5, <2>1, n + 1 \in Nat
    <3>7. h[n + 1][s] = step[choice[s]][h[n][s \ {choice[s]}]]
        BY <1>5, <2>1
    <3> QED
        BY <3>5, <3>6, <3>7
  <2>2. ASSUME NEW s \in SUBSET S, s = {} PROVE h[(n + 1) + 1][s] = h[n + 1][s]
      BY <1>5, <2>2, n + 1 \in Nat
  <2> QED
      BY <2>1, <2>2
<1> HIDE DEF Settled
<1>8. \A n \in Nat : n \in Settled
    BY <1>6, <1>7, Induction
<1>9. PICK size \in Nat : size = Cardinality(S)
    BY FS_CardinalityType
<1>10. \A s \in SUBSET S : h[size + 1][s] = h[size][s]
  <2>1. \A s \in SUBSET S : Cardinality(s) <= size
      BY <1>9, FS_Subset
  <2> QED
      BY <1>8, <2>1 DEF Settled
<1>11. h[size] \in W /\ h[size + 1] \in W
    BY <1>4
<1>12. \A s \in SUBSET S : h[size][s] = IF s = {} THEN base
                                        ELSE step[choice[s]][h[size][s \ {choice[s]}]]
    BY <1>5, <1>10
<1> QED
    BY <1>11, <1>12 DEF Foldings

-----------------------------------------------------------------------------
(* Folds from the left *)

\* The indices before the last of some, and the last of them.
LEMMA LastIndex ==
    ASSUME NEW n \in Nat
    PROVE  /\ 1..(n + 1) # {}
           /\ Max(1..(n + 1)) = n + 1
           /\ (1..(n + 1)) \ {n + 1} = 1..n
PROOF
<1>1. n + 1 \in 1..(n + 1) /\ \A k \in 1..(n + 1) : n + 1 >= k
    OBVIOUS
<1>2. \A m \in 1..(n + 1) : (\A k \in 1..(n + 1) : m >= k) => m = n + 1
    OBVIOUS
<1>3. Max(1..(n + 1)) = n + 1
    BY <1>1, <1>2 DEF Max
<1>4. (1..(n + 1)) \ {n + 1} = 1..n
    OBVIOUS
<1> QED
    BY <1>1, <1>3, <1>4

\* The last of some indices is one of them.
LEMMA MaxOfIndices ==
    ASSUME NEW N \in Nat, NEW s \in SUBSET (1..N), s # {}
    PROVE  Max(s) \in s
PROOF
<1> DEFINE T == {N - k : k \in s}
<1>1. T \in SUBSET Nat /\ T # {}
  <2>1. \A k \in s : N - k \in Nat
      OBVIOUS
  <2> QED
      BY <2>1
<1> HIDE DEF T
<1>2. PICK x \in T : \A y \in T : x <= y
    BY <1>1, LeastNumber
<1>3. PICK m \in s : x = N - m
    BY DEF T
<1>4. \A k \in s : m >= k
  <2> TAKE k \in s
  <2>1. N - m <= N - k
      BY <1>2, <1>3 DEF T
  <2> QED
      BY <2>1
<1> QED
    BY <1>4 DEF Max

LastOf(N) == [s \in SUBSET (1..N) |-> Max(s)]

\* What FoldLeft is defined by.
LEMMA LeftFoldingExists ==
    ASSUME NEW N \in Nat, NEW V, NEW base \in V, NEW step \in [1..N -> [V -> V]]
    PROVE  Foldings(1..N, V, base, step, LastOf(N)) # {}
PROOF
<1> DEFINE D == 1..N
           choice == LastOf(N)
<1>1. IsFiniteSet(D)
    BY FS_Interval
<1>2. \A s \in SUBSET D : s # {} => choice[s] \in s
    BY MaxOfIndices DEF LastOf
<1>3. step \in [D -> [V -> V]]
    OBVIOUS
<1> HIDE DEF choice, D
<1>4. Foldings(D, V, base, step, choice) # {}
    BY <1>1, <1>2, <1>3, FoldingExists
<1> QED
    BY <1>4 DEF choice, D

\* The values of the prefixes of a sequence, each made of the one before it.
PrefixValues(N, V, base, step) ==
    {part \in [0..N -> V] :
        part[0] = base /\ \A n \in 0..(N - 1) : part[n + 1] = step[n + 1][part[n]]}

\* The last of them.
Folded(N, V, base, step) == {part[N] : part \in PrefixValues(N, V, base, step)}

\* What FoldLeft is defined by goes from prefix to prefix.
LEMMA FoldedPrefixes ==
    ASSUME NEW N \in Nat, NEW V, NEW base \in V, NEW step \in [1..N -> [V -> V]],
           NEW iter, iter[{}] = base,
           \A s \in SUBSET (1..N) : s # {} /\ iter[s \ {Max(s)}] \in V
                => iter[s] = step[Max(s)][iter[s \ {Max(s)}]]
    PROVE  iter[1..N] \in Folded(N, V, base, step)
PROOF
<1> DEFINE part == [n \in 0..N |-> iter[1..n]]
           A == {n \in Nat : iter[1..n] \in V}
<1>1. iter[1..0] = base
  <2>1. 1..0 = {}
      OBVIOUS
  <2> QED
      BY <2>1
<1>2. ASSUME NEW n \in 0..(N - 1), n \in A
      PROVE  iter[1..(n + 1)] = step[n + 1][iter[1..n]] /\ n + 1 \in A
  <2>1. 1..(n + 1) \in SUBSET (1..N) /\ n \in Nat /\ n + 1 \in 1..N
      OBVIOUS
  <2>2. /\ 1..(n + 1) # {} /\ Max(1..(n + 1)) = n + 1
        /\ (1..(n + 1)) \ {n + 1} = 1..n
      BY <2>1, LastIndex
  <2>3. iter[1..n] \in V
      BY <1>2
  <2>4. iter[1..(n + 1)] = step[n + 1][iter[1..n]]
      BY <2>1, <2>2, <2>3
  <2>5. step[n + 1][iter[1..n]] \in V
    <3>1. step[n + 1] \in [V -> V]
        BY <2>1
    <3> QED
        BY <2>3, <3>1
  <2> QED
      BY <2>1, <2>4, <2>5
<1>3. 0 \in A
  <2>1. iter[1..0] \in V
      BY <1>1
  <2> QED
      BY <2>1
<1>4. \A n \in 0..N : n \in A
  <2> HIDE DEF A
  <2> QED
      BY <1>2, <1>3, InductionUpTo
<1>5. /\ part \in [0..N -> V] /\ part[0] = base /\ part[N] = iter[1..N]
      /\ \A n \in 0..N : part[n] = iter[1..n]
    BY <1>1, <1>4
<1>6. \A n \in 0..(N - 1) : part[n + 1] = step[n + 1][part[n]]
  <2> TAKE n \in 0..(N - 1)
  <2>1. n \in 0..N /\ n + 1 \in 0..N
      OBVIOUS
  <2> HIDE DEF part, A
  <2> QED
      BY <1>2, <1>4, <1>5, <2>1
<1> HIDE DEF part
<1>7. part \in PrefixValues(N, V, base, step)
    BY <1>5, <1>6 DEF PrefixValues
<1> QED
    BY <1>5, <1>7 DEF Folded

-----------------------------------------------------------------------------
(* What is in a sequence *)

\* Nothing is listed by an empty sequence.
LEMMA ToSetEmpty == ToSet(<<>>) = {}
PROOF
    BY DEF ToSet

\* A sequence to which one element is appended has that one more.
LEMMA ToSetAppend ==
    ASSUME NEW S, NEW s \in Seq(S), NEW x
    PROVE  ToSet(Append(s, x)) = ToSet(s) \union {x}
PROOF
<1>1. /\ Len(s) \in Nat /\ DOMAIN s = 1..Len(s)
      /\ DOMAIN Append(s, x) = 1..(Len(s) + 1)
      /\ Append(s, x)[Len(s) + 1] = x
      /\ \A i \in 1..Len(s) : Append(s, x)[i] = s[i]
    OBVIOUS
<1>2. 1..(Len(s) + 1) = (1..Len(s)) \union {Len(s) + 1}
    BY <1>1
<1> HIDE DEF ToSet
<1>3. ToSet(Append(s, x)) = {Append(s, x)[i] : i \in 1..(Len(s) + 1)}
    BY <1>1 DEF ToSet
<1>4. ToSet(s) = {s[i] : i \in 1..Len(s)}
    BY <1>1 DEF ToSet
<1> QED
    BY <1>1, <1>2, <1>3, <1>4

\* A sequence has its head and what is in its tail.
LEMMA ToSetTail ==
    ASSUME NEW S, NEW s \in Seq(S), s # <<>>
    PROVE  /\ Head(s) \in S /\ Tail(s) \in Seq(S)
           /\ ToSet(s) = {Head(s)} \union ToSet(Tail(s))
PROOF
<1>1. /\ Len(s) \in Nat /\ DOMAIN s = 1..Len(s) /\ Len(s) > 0
      /\ Head(s) \in S /\ Tail(s) \in Seq(S)
      /\ Len(Tail(s)) = Len(s) - 1 /\ DOMAIN Tail(s) = 1..(Len(s) - 1)
      /\ Head(s) = s[1]
      /\ \A i \in 1..(Len(s) - 1) : Tail(s)[i] = s[i + 1]
    OBVIOUS
<1>2. ASSUME NEW x \in ToSet(s) PROVE x = Head(s) \/ x \in ToSet(Tail(s))
  <2>1. PICK i \in 1..Len(s) : x = s[i]
      BY <1>1, <1>2 DEF ToSet
  <2>2. CASE i = 1
      BY <2>1, <2>2, <1>1
  <2>3. CASE i # 1
    <3>1. i - 1 \in 1..(Len(s) - 1) /\ (i - 1) + 1 = i
        BY <2>1, <2>3, <1>1
    <3>2. x = Tail(s)[i - 1]
        BY <3>1, <2>1, <1>1
    <3> QED
        BY <3>1, <3>2, <1>1 DEF ToSet
  <2> QED
      BY <2>2, <2>3
<1>3. ASSUME NEW x \in ToSet(Tail(s)) PROVE x \in ToSet(s)
  <2>1. PICK i \in 1..(Len(s) - 1) : x = Tail(s)[i]
      BY <1>1, <1>3 DEF ToSet
  <2>2. i + 1 \in 1..Len(s) /\ x = s[i + 1]
      BY <2>1, <1>1
  <2> QED
      BY <2>2, <1>1 DEF ToSet
<1>4. Head(s) \in ToSet(s)
    BY <1>1 DEF ToSet
<1> QED
    BY <1>1, <1>2, <1>3, <1>4

\* Two sequences have together what one after the other has.
LEMMA ToSetConcat ==
    ASSUME NEW S, NEW s \in Seq(S), NEW t \in Seq(S)
    PROVE  ToSet(s \o t) = ToSet(s) \union ToSet(t)
PROOF
<1>1. /\ Len(s) \in Nat /\ DOMAIN s = 1..Len(s)
      /\ Len(t) \in Nat /\ DOMAIN t = 1..Len(t)
      /\ DOMAIN (s \o t) = 1..(Len(s) + Len(t))
      /\ \A i \in 1..Len(s) : (s \o t)[i] = s[i]
      /\ \A i \in 1..Len(t) : (s \o t)[Len(s) + i] = t[i]
    OBVIOUS
<1>2. ASSUME NEW x \in ToSet(s \o t) PROVE x \in ToSet(s) \/ x \in ToSet(t)
  <2>1. PICK i \in 1..(Len(s) + Len(t)) : x = (s \o t)[i]
      BY <1>1, <1>2 DEF ToSet
  <2>2. CASE i <= Len(s)
    <3>1. i \in 1..Len(s)
        BY <2>1, <2>2, <1>1
    <3> QED
        BY <3>1, <2>1, <1>1 DEF ToSet
  <2>3. CASE i > Len(s)
    <3>1. i - Len(s) \in 1..Len(t) /\ Len(s) + (i - Len(s)) = i
        BY <2>1, <2>3, <1>1
    <3>2. x = t[i - Len(s)]
        BY <3>1, <2>1, <1>1
    <3> QED
        BY <3>1, <3>2, <1>1 DEF ToSet
  <2> QED
      BY <2>1, <2>2, <2>3, <1>1
<1>3. ASSUME NEW x \in ToSet(s) PROVE x \in ToSet(s \o t)
  <2>1. PICK i \in 1..Len(s) : x = s[i]
      BY <1>1, <1>3 DEF ToSet
  <2>2. i \in 1..(Len(s) + Len(t)) /\ x = (s \o t)[i]
      BY <2>1, <1>1
  <2> QED
      BY <2>2, <1>1 DEF ToSet
<1>4. ASSUME NEW x \in ToSet(t) PROVE x \in ToSet(s \o t)
  <2>1. PICK i \in 1..Len(t) : x = t[i]
      BY <1>1, <1>4 DEF ToSet
  <2>2. Len(s) + i \in 1..(Len(s) + Len(t)) /\ x = (s \o t)[Len(s) + i]
      BY <2>1, <1>1
  <2> QED
      BY <2>2, <1>1 DEF ToSet
<1> QED
    BY <1>2, <1>3, <1>4

-----------------------------------------------------------------------------
(* Subsequences *)

\* The subsequences of the prefixes of a sequence, up to that of the whole sequence.
Growing(T, seq, S) ==
    {part \in [0..Len(seq) -> Seq(T)] :
        /\ part[0] = <<>> /\ Only(seq, S) = part[Len(seq)]
        /\ \A n \in 0..(Len(seq) - 1) :
              part[n + 1] = IF seq[n + 1] \in S THEN Append(part[n], seq[n + 1]) ELSE part[n]}

\* A subsequence grows along the sequence by the elements that lie in the set.
LEMMA OnlyGrows ==
    ASSUME NEW T, NEW seq \in Seq(T), NEW S
    PROVE  Growing(T, seq, S) # {}
PROOF
<1> DEFINE N == Len(seq)
           Value(i, v) == IF seq[i] \in S THEN Append(v, seq[i]) ELSE v
           Body(f, s) == IF s = {} THEN <<>> ELSE Value(Max(s), f[s \ {Max(s)}])
           Iter == CHOOSE f : f = [s \in SUBSET (1..N) |-> Body(f, s)]
           step == [i \in 1..N |-> [v \in Seq(T) |-> Value(i, v)]]
<1>1. N \in Nat /\ DOMAIN seq = 1..N /\ \A i \in 1..N : seq[i] \in T
    OBVIOUS
<1>2. Only(seq, S) = Iter[1..N]
    BY <1>1 DEF Only, FoldLeft, MapThenFoldSet
<1> HIDE DEF N
<1>3. step \in [1..N -> [Seq(T) -> Seq(T)]] /\ <<>> \in Seq(T)
  <2>1. \A i \in 1..N, v \in Seq(T) : Append(v, seq[i]) \in Seq(T)
      BY <1>1
  <2> QED
      BY <2>1
<1>4. \A i \in 1..N, v \in Seq(T) : step[i][v] = Value(i, v)
    OBVIOUS
<1> HIDE DEF step, Value
<1>5. PICK f : f \in Foldings(1..N, Seq(T), <<>>, step, LastOf(N))
  <2>1. Foldings(1..N, Seq(T), <<>>, step, LastOf(N)) # {}
      BY <1>1, <1>3, LeftFoldingExists
  <2> QED
      BY <2>1
<1>6. f = [s \in SUBSET (1..N) |-> Body(f, s)]
  <2>1. /\ f \in [SUBSET (1..N) -> Seq(T)]
        /\ \A s \in SUBSET (1..N) :
              f[s] = IF s = {} THEN <<>> ELSE step[Max(s)][f[s \ {Max(s)}]]
      BY <1>5 DEF Foldings, LastOf
  <2>2. ASSUME NEW s \in SUBSET (1..N), s # {} PROVE f[s] = Value(Max(s), f[s \ {Max(s)}])
    <3>1. Max(s) \in 1..N /\ s \ {Max(s)} \in SUBSET (1..N)
        BY <1>1, <2>2, MaxOfIndices
    <3> QED
        BY <1>4, <2>1, <2>2, <3>1
  <2> QED
      BY <2>1, <2>2
<1>7. Iter = [s \in SUBSET (1..N) |-> Body(Iter, s)]
  <2> HIDE DEF Body
  <2> QED
      BY <1>6
<1> HIDE DEF Iter
<1>8. Iter[{}] = <<>>
  <2>1. Iter[{}] = Body(Iter, {})
    <3> HIDE DEF Body
    <3> QED
        BY <1>7
  <2> QED
      BY <2>1
<1>9. ASSUME NEW s \in SUBSET (1..N), s # {}, Iter[s \ {Max(s)}] \in Seq(T)
      PROVE  Iter[s] = step[Max(s)][Iter[s \ {Max(s)}]]
  <2>1. Max(s) \in 1..N
      BY <1>1, <1>9, MaxOfIndices
  <2>2. Iter[s] = Body(Iter, s)
    <3> HIDE DEF Body
    <3> QED
        BY <1>7
  <2> QED
      BY <1>4, <1>9, <2>1, <2>2
<1>10. PICK part \in PrefixValues(N, Seq(T), <<>>, step) : Iter[1..N] = part[N]
  <2>1. Iter[1..N] \in Folded(N, Seq(T), <<>>, step)
      BY <1>1, <1>3, <1>8, <1>9, FoldedPrefixes
  <2> QED
      BY <2>1 DEF Folded
<1>11. /\ part \in [0..N -> Seq(T)] /\ part[0] = <<>>
       /\ \A n \in 0..(N - 1) : part[n + 1] = step[n + 1][part[n]]
    BY <1>10 DEF PrefixValues
<1>12. \A n \in 0..(N - 1) : part[n + 1] = Value(n + 1, part[n])
  <2> TAKE n \in 0..(N - 1)
  <2>1. n + 1 \in 1..N /\ n \in 0..N
      BY <1>1
  <2> QED
      BY <1>4, <1>11, <2>1
<1>13. part \in Growing(T, seq, S)
    BY <1>2, <1>10, <1>11, <1>12 DEF N, Value, Growing
<1> QED
    BY <1>13

\* A subsequence has those elements of the sequence that lie in the set; and it is the
\* whole sequence if they all do.
LEMMA OnlyElements ==
    ASSUME NEW T, NEW seq \in Seq(T), NEW S
    PROVE  /\ Only(seq, S) \in Seq(T)
           /\ ToSet(Only(seq, S)) = ToSet(seq) \cap S
           /\ ToSet(seq) \subseteq S => Only(seq, S) = seq
PROOF
<1> DEFINE N == Len(seq)
           Upto(n) == {seq[i] : i \in 1..n}
<1>1. N \in Nat /\ DOMAIN seq = 1..N /\ \A i \in 1..N : seq[i] \in T
    OBVIOUS
<1>2. PICK part \in [0..N -> Seq(T)] :
        /\ part[0] = <<>> /\ Only(seq, S) = part[N]
        /\ \A n \in 0..(N - 1) : part[n + 1] = IF seq[n + 1] \in S
                                                THEN Append(part[n], seq[n + 1]) ELSE part[n]
    BY OnlyGrows DEF Growing
<1>3. ToSet(seq) = Upto(N)
    BY <1>1 DEF ToSet
<1> HIDE DEF N
<1>4. \A n \in 0..(N - 1) : Upto(n + 1) = Upto(n) \union {seq[n + 1]}
  <2> TAKE n \in 0..(N - 1)
  <2>1. 1..(n + 1) = (1..n) \union {n + 1}
      OBVIOUS
  <2> QED
      BY <2>1
<1>5. Upto(0) = {}
    OBVIOUS
<1> DEFINE A == {n \in 0..N : ToSet(part[n]) = Upto(n) \cap S}
           B == {n \in 0..N : Upto(N) \subseteq S =>
                    Len(part[n]) = n /\ \A i \in 1..n : part[n][i] = seq[i]}
<1> HIDE DEF Upto
<1>6. 0 \in A /\ 0 \in B
  <2>1. 0 \in 0..N
      BY <1>1
  <2> QED
      BY <1>2, <1>5, <2>1, ToSetEmpty
<1>7. ASSUME NEW n \in 0..(N - 1), n \in A PROVE n + 1 \in A
  <2>1. n + 1 \in 0..N /\ n + 1 \in 1..N /\ part[n] \in Seq(T)
      BY <1>1, <1>2
  <2>2. ToSet(Append(part[n], seq[n + 1])) = ToSet(part[n]) \union {seq[n + 1]}
      BY <2>1, ToSetAppend
  <2> QED
      BY <1>2, <1>4, <1>7, <2>1, <2>2
<1>8. ASSUME NEW n \in 0..(N - 1), n \in B PROVE n + 1 \in B
  <2>1. n + 1 \in 0..N /\ n + 1 \in 1..N /\ part[n] \in Seq(T)
      BY <1>1, <1>2
  <2> SUFFICES ASSUME Upto(N) \subseteq S
               PROVE  /\ Len(part[n + 1]) = n + 1
                      /\ \A i \in 1..(n + 1) : part[n + 1][i] = seq[i]
      BY <2>1
  <2>2. seq[n + 1] \in S
      BY <1>1, <2>1 DEF Upto
  <2>3. Len(part[n]) = n /\ \A i \in 1..n : part[n][i] = seq[i]
      BY <1>8
  <2>4. part[n + 1] = Append(part[n], seq[n + 1])
      BY <1>2, <2>2
  <2>5. seq[n + 1] \in T
      BY <1>1, <2>1
  <2>6. /\ Len(part[n + 1]) = n + 1 /\ part[n + 1][n + 1] = seq[n + 1]
        /\ \A i \in 1..n : part[n + 1][i] = part[n][i]
      BY <2>1, <2>3, <2>4, <2>5, AppendProperties
  <2> QED
      BY <2>3, <2>6
<1> HIDE DEF A, B
<1>9. N \in A /\ N \in B
  <2>1. (\A n \in 0..N : n \in A) /\ (\A n \in 0..N : n \in B)
      BY <1>1, <1>6, <1>7, <1>8, InductionUpTo
  <2> QED
      BY <1>1, <2>1
<1>10. N \in 0..N /\ part[N] \in Seq(T)
    BY <1>1, <1>2
<1>11. ASSUME Upto(N) \subseteq S PROVE part[N] = seq
  <2>1. Len(part[N]) = N /\ \A i \in 1..N : part[N][i] = seq[i]
      BY <1>9, <1>11 DEF B
  <2> QED
      BY <1>10, <2>1, SeqEqual DEF N
<1> QED
    BY <1>2, <1>3, <1>9, <1>10, <1>11 DEF A

-----------------------------------------------------------------------------
(* Sums *)

\* A sum grows along the numbers.
LEMMA SumGrows ==
    ASSUME NEW numbers \in Seq(Nat)
    PROVE  \E part \in [0..Len(numbers) -> Nat] :
              /\ part[0] = 0 /\ SumOf(numbers) = part[Len(numbers)]
              /\ \A n \in 0..(Len(numbers) - 1) : part[n + 1] = part[n] + numbers[n + 1]
PROOF
<1> DEFINE N == Len(numbers)
           Value(i, v) == v + numbers[i]
           Body(f, s) == IF s = {} THEN 0 ELSE Value(Max(s), f[s \ {Max(s)}])
           Iter == CHOOSE f : f = [s \in SUBSET (1..N) |-> Body(f, s)]
           step == [i \in 1..N |-> [v \in Nat |-> Value(i, v)]]
<1>1. N \in Nat /\ DOMAIN numbers = 1..N /\ \A i \in 1..N : numbers[i] \in Nat
    OBVIOUS
<1>2. SumOf(numbers) = Iter[1..N]
    BY <1>1 DEF SumOf, FoldLeft, MapThenFoldSet
<1> HIDE DEF N
<1>3. step \in [1..N -> [Nat -> Nat]] /\ 0 \in Nat
  <2>1. \A i \in 1..N, v \in Nat : v + numbers[i] \in Nat
      BY <1>1
  <2> QED
      BY <2>1
<1>4. \A i \in 1..N, v \in Nat : step[i][v] = Value(i, v)
    OBVIOUS
<1> HIDE DEF step, Value
<1>5. PICK f : f \in Foldings(1..N, Nat, 0, step, LastOf(N))
  <2>1. Foldings(1..N, Nat, 0, step, LastOf(N)) # {}
      BY <1>1, <1>3, LeftFoldingExists
  <2> QED
      BY <2>1
<1>6. f = [s \in SUBSET (1..N) |-> Body(f, s)]
  <2>1. /\ f \in [SUBSET (1..N) -> Nat]
        /\ \A s \in SUBSET (1..N) :
              f[s] = IF s = {} THEN 0 ELSE step[Max(s)][f[s \ {Max(s)}]]
      BY <1>5 DEF Foldings, LastOf
  <2>2. ASSUME NEW s \in SUBSET (1..N), s # {} PROVE f[s] = Value(Max(s), f[s \ {Max(s)}])
    <3>1. Max(s) \in 1..N /\ s \ {Max(s)} \in SUBSET (1..N)
        BY <1>1, <2>2, MaxOfIndices
    <3> QED
        BY <1>4, <2>1, <2>2, <3>1
  <2> QED
      BY <2>1, <2>2
<1>7. Iter = [s \in SUBSET (1..N) |-> Body(Iter, s)]
  <2> HIDE DEF Body
  <2> QED
      BY <1>6
<1> HIDE DEF Iter
<1>8. Iter[{}] = 0
  <2>1. Iter[{}] = Body(Iter, {})
    <3> HIDE DEF Body
    <3> QED
        BY <1>7
  <2> QED
      BY <2>1
<1>9. ASSUME NEW s \in SUBSET (1..N), s # {}, Iter[s \ {Max(s)}] \in Nat
      PROVE  Iter[s] = step[Max(s)][Iter[s \ {Max(s)}]]
  <2>1. Max(s) \in 1..N
      BY <1>1, <1>9, MaxOfIndices
  <2>2. Iter[s] = Body(Iter, s)
    <3> HIDE DEF Body
    <3> QED
        BY <1>7
  <2> QED
      BY <1>4, <1>9, <2>1, <2>2
<1>10. PICK part \in PrefixValues(N, Nat, 0, step) : Iter[1..N] = part[N]
  <2>1. Iter[1..N] \in Folded(N, Nat, 0, step)
      BY <1>1, <1>3, <1>8, <1>9, FoldedPrefixes
  <2> QED
      BY <2>1 DEF Folded
<1>11. /\ part \in [0..N -> Nat] /\ part[0] = 0
       /\ \A n \in 0..(N - 1) : part[n + 1] = step[n + 1][part[n]]
    BY <1>10 DEF PrefixValues
<1>12. \A n \in 0..(N - 1) : part[n + 1] = Value(n + 1, part[n])
  <2> TAKE n \in 0..(N - 1)
  <2>1. n + 1 \in 1..N /\ n \in 0..N
      BY <1>1
  <2> QED
      BY <1>4, <1>11, <2>1
<1> QED
    BY <1>2, <1>10, <1>11, <1>12 DEF N, Value

\* The sum of numbers is a number, that of no numbers is 0, and one number more makes
\* it larger by that number.
LEMMA SumOfNumbers ==
    /\ SumOf(<<>>) = 0
    /\ \A numbers \in Seq(Nat) : SumOf(numbers) \in Nat
    /\ \A numbers \in Seq(Nat), x \in Nat : SumOf(Append(numbers, x)) = SumOf(numbers) + x
PROOF
<1>1. ASSUME NEW numbers \in Seq(Nat) PROVE SumOf(numbers) \in Nat
  <2>1. Len(numbers) \in 0..Len(numbers)
      OBVIOUS
  <2> QED
      BY <2>1, SumGrows
<1>2. SumOf(<<>>) = 0
  <2>1. <<>> \in Seq(Nat) /\ Len(<<>>) = 0
      OBVIOUS
  <2> QED
      BY <2>1, SumGrows
<1>3. ASSUME NEW numbers \in Seq(Nat), NEW x \in Nat
      PROVE  SumOf(Append(numbers, x)) = SumOf(numbers) + x
  <2> DEFINE more == Append(numbers, x)
             N == Len(numbers)
  <2>1. /\ N \in Nat /\ more \in Seq(Nat) /\ Len(more) = N + 1 /\ more[N + 1] = x
        /\ \A n \in 1..N : more[n] = numbers[n]
      OBVIOUS
  <2> HIDE DEF more
  <2>2. PICK part \in [0..N -> Nat] :
          /\ part[0] = 0 /\ SumOf(numbers) = part[N]
          /\ \A n \in 0..(N - 1) : part[n + 1] = part[n] + numbers[n + 1]
      BY SumGrows
  <2>3. PICK full \in [0..(N + 1) -> Nat] :
          /\ full[0] = 0 /\ SumOf(more) = full[N + 1]
          /\ \A n \in 0..((N + 1) - 1) : full[n + 1] = full[n] + more[n + 1]
      BY <2>1, SumGrows
  <2> HIDE DEF N
  <2> DEFINE A == {n \in Nat : full[n] = part[n]}
  <2>4. 0 \in A
      BY <2>2, <2>3
  <2>5. ASSUME NEW n \in 0..(N - 1), n \in A PROVE n + 1 \in A
    <3>1. n \in 0..((N + 1) - 1) /\ n + 1 \in 1..N /\ n + 1 \in Nat
        BY <2>1
    <3> QED
        BY <2>1, <2>2, <2>3, <2>5, <3>1
  <2> HIDE DEF A
  <2>6. N \in A
    <3>1. \A n \in 0..N : n \in A
        BY <2>1, <2>4, <2>5, InductionUpTo
    <3> QED
        BY <2>1, <3>1
  <2>7. full[N + 1] = full[N] + more[N + 1]
    <3>1. N \in 0..((N + 1) - 1)
        BY <2>1
    <3> QED
        BY <2>3, <3>1
  <2> QED
      BY <2>1, <2>2, <2>3, <2>6, <2>7 DEF A, more
<1> QED
    BY <1>1, <1>2, <1>3

-----------------------------------------------------------------------------
(* The best of some numbers *)

Ranked == [place: Nat, number: Nat]

\* The best number so far, along the numbers.
LEMMA FirstBestGrows ==
    ASSUME NEW numbers \in Seq(Nat)
    PROVE  \E part \in [0..Len(numbers) -> Ranked] :
              /\ part[0] = [place |-> 0, number |-> 0]
              /\ FirstBest(numbers) = part[Len(numbers)].place
              /\ \A n \in 0..(Len(numbers) - 1) :
                    part[n + 1] = IF numbers[n + 1] > part[n].number
                                  THEN [place |-> n + 1, number |-> numbers[n + 1]]
                                  ELSE part[n]
PROOF
<1> DEFINE N == Len(numbers)
           places == [i \in 1..N |-> i]
           Value(i, v) == IF numbers[places[i]] > v.number
                          THEN [place |-> places[i], number |-> numbers[places[i]]] ELSE v
           none == [place |-> 0, number |-> 0]
           Body(f, s) == IF s = {} THEN none ELSE Value(Max(s), f[s \ {Max(s)}])
           Iter == CHOOSE f : f = [s \in SUBSET (1..N) |-> Body(f, s)]
           step == [i \in 1..N |-> [v \in Ranked |-> Value(i, v)]]
<1>1. N \in Nat /\ DOMAIN numbers = 1..N /\ \A i \in 1..N : numbers[i] \in Nat
    OBVIOUS
<1>2. FirstBest(numbers) = Iter[1..N].place
    BY <1>1 DEF FirstBest, FoldLeft, MapThenFoldSet
<1> HIDE DEF N
<1>0. \A i \in 1..N, v \in Ranked :
        Value(i, v) = IF numbers[i] > v.number THEN [place |-> i, number |-> numbers[i]] ELSE v
    OBVIOUS
<1> HIDE DEF places
<1>3. step \in [1..N -> [Ranked -> Ranked]] /\ none \in Ranked
  <2>1. \A i \in 1..N, v \in Ranked : Value(i, v) \in Ranked
    <3>1. \A i \in 1..N : i \in Nat /\ numbers[i] \in Nat
        BY <1>1
    <3> HIDE DEF Value
    <3> QED
        BY <1>0, <3>1 DEF Ranked
  <2>2. none \in Ranked
      BY DEF Ranked
  <2> HIDE DEF Value, none
  <2> QED
      BY <2>1, <2>2
<1>4. \A i \in 1..N, v \in Ranked : step[i][v] = Value(i, v)
    OBVIOUS
<1> HIDE DEF step, Value, none
<1>5. PICK f : f \in Foldings(1..N, Ranked, none, step, LastOf(N))
  <2>1. Foldings(1..N, Ranked, none, step, LastOf(N)) # {}
      BY <1>1, <1>3, LeftFoldingExists
  <2> QED
      BY <2>1
<1>6. f = [s \in SUBSET (1..N) |-> Body(f, s)]
  <2>1. /\ f \in [SUBSET (1..N) -> Ranked]
        /\ \A s \in SUBSET (1..N) :
              f[s] = IF s = {} THEN none ELSE step[Max(s)][f[s \ {Max(s)}]]
      BY <1>5 DEF Foldings, LastOf
  <2>2. ASSUME NEW s \in SUBSET (1..N), s # {} PROVE f[s] = Value(Max(s), f[s \ {Max(s)}])
    <3>1. Max(s) \in 1..N /\ s \ {Max(s)} \in SUBSET (1..N)
        BY <1>1, <2>2, MaxOfIndices
    <3> QED
        BY <1>4, <2>1, <2>2, <3>1
  <2> QED
      BY <2>1, <2>2
<1>7. Iter = [s \in SUBSET (1..N) |-> Body(Iter, s)]
  <2> HIDE DEF Body
  <2> QED
      BY <1>6
<1> HIDE DEF Iter
<1>8. Iter[{}] = none
  <2>1. Iter[{}] = Body(Iter, {})
    <3> HIDE DEF Body
    <3> QED
        BY <1>7
  <2> QED
      BY <2>1
<1>9. ASSUME NEW s \in SUBSET (1..N), s # {}, Iter[s \ {Max(s)}] \in Ranked
      PROVE  Iter[s] = step[Max(s)][Iter[s \ {Max(s)}]]
  <2>1. Max(s) \in 1..N
      BY <1>1, <1>9, MaxOfIndices
  <2>2. Iter[s] = Body(Iter, s)
    <3> HIDE DEF Body
    <3> QED
        BY <1>7
  <2> QED
      BY <1>4, <1>9, <2>1, <2>2
<1>10. PICK part \in PrefixValues(N, Ranked, none, step) : Iter[1..N] = part[N]
  <2>1. Iter[1..N] \in Folded(N, Ranked, none, step)
      BY <1>1, <1>3, <1>8, <1>9, FoldedPrefixes
  <2> QED
      BY <2>1 DEF Folded
<1>11. /\ part \in [0..N -> Ranked] /\ part[0] = none
       /\ \A n \in 0..(N - 1) : part[n + 1] = step[n + 1][part[n]]
    BY <1>10 DEF PrefixValues
<1>12. \A n \in 0..(N - 1) : part[n + 1] = Value(n + 1, part[n])
  <2> TAKE n \in 0..(N - 1)
  <2>1. n + 1 \in 1..N /\ n \in 0..N
      BY <1>1
  <2> QED
      BY <1>4, <1>11, <2>1
<1>13. \A n \in 0..(N - 1) :
         part[n + 1] = IF numbers[n + 1] > part[n].number
                       THEN [place |-> n + 1, number |-> numbers[n + 1]] ELSE part[n]
  <2> TAKE n \in 0..(N - 1)
  <2>1. n + 1 \in 1..N /\ part[n] \in Ranked
      BY <1>1, <1>11
  <2> QED
      BY <1>0, <1>12, <2>1
<1>14. FirstBest(numbers) = part[N].place
    BY <1>2, <1>10
<1> QED
    BY <1>11, <1>13, <1>14 DEF N, none

\* The first best number is positive, no number is larger and none before it as large;
\* and if there is none, no number is positive.
LEMMA FirstBestIsBest ==
    ASSUME NEW numbers \in Seq(Nat)
    PROVE  LET best == FirstBest(numbers)
           IN  \/ best = 0 /\ \A i \in DOMAIN numbers : numbers[i] = 0
               \/ /\ best \in DOMAIN numbers /\ numbers[best] > 0
                  /\ \A i \in DOMAIN numbers : numbers[i] <= numbers[best]
                  /\ \A i \in 1..(best - 1) : numbers[i] < numbers[best]
PROOF
<1> DEFINE N == Len(numbers)
           Best(n, b) ==
              \/ b.place = 0 /\ b.number = 0 /\ \A i \in 1..n : numbers[i] = 0
              \/ /\ b.place \in 1..n /\ b.number = numbers[b.place] /\ b.number > 0
                 /\ \A i \in 1..n : numbers[i] <= b.number
                 /\ \A i \in 1..(b.place - 1) : numbers[i] < b.number
<1>1. N \in Nat /\ DOMAIN numbers = 1..N /\ \A i \in 1..N : numbers[i] \in Nat
    OBVIOUS
<1>2. PICK part \in [0..N -> Ranked] :
        /\ part[0] = [place |-> 0, number |-> 0] /\ FirstBest(numbers) = part[N].place
        /\ \A n \in 0..(N - 1) : part[n + 1] = IF numbers[n + 1] > part[n].number
                                                THEN [place |-> n + 1, number |-> numbers[n + 1]]
                                                ELSE part[n]
    BY FirstBestGrows
<1> HIDE DEF N
<1> DEFINE A == {n \in 0..N : Best(n, part[n])}
<1>3. 0 \in A
    BY <1>1, <1>2
<1>4. ASSUME NEW n \in 0..(N - 1), n \in A PROVE n + 1 \in A
  <2>1. n + 1 \in 1..N /\ n + 1 \in 0..N /\ n \in 0..N /\ n \in Nat
      BY <1>1
  <2>2. part[n] \in Ranked /\ numbers[n + 1] \in Nat /\ Best(n, part[n])
      BY <1>1, <1>2, <1>4, <2>1
  <2>3. \A i \in 1..(n + 1) : i \in 1..n \/ i = n + 1
      BY <2>1
  <2>4. \A i \in 1..n : i \in 1..N /\ numbers[i] \in Nat
      BY <1>1, <2>1
  <2>5. CASE numbers[n + 1] > part[n].number
    <3>1. part[n + 1].place = n + 1 /\ part[n + 1].number = numbers[n + 1]
      <4>1. part[n + 1] = [place |-> n + 1, number |-> numbers[n + 1]]
          BY <1>2, <2>5
      <4> QED
          BY <4>1
    <3>2. part[n].number \in Nat /\ \A i \in 1..n : numbers[i] <= part[n].number
        BY <2>2 DEF Ranked
    <3>3. \A i \in 1..n : numbers[i] < numbers[n + 1]
        BY <2>2, <2>4, <2>5, <3>2
    <3>4. (n + 1) - 1 = n
        BY <2>1
    <3>5. numbers[n + 1] > 0 /\ n + 1 \in 1..(n + 1)
        BY <2>1, <2>2, <2>5, <3>2
    <3>6. \A i \in 1..(n + 1) : numbers[i] <= numbers[n + 1]
        BY <2>2, <2>3, <2>4, <3>3
    <3>7. Best(n + 1, part[n + 1])
        BY <3>1, <3>3, <3>4, <3>5, <3>6
    <3> QED
        BY <2>1, <3>7
  <2>6. CASE ~(numbers[n + 1] > part[n].number)
    <3>1. part[n + 1] = part[n]
        BY <1>2, <2>6
    <3>2. part[n].number \in Nat /\ numbers[n + 1] <= part[n].number
        BY <2>2, <2>6 DEF Ranked
    <3>3. part[n].place \in 1..n => part[n].place \in 1..(n + 1)
        BY <2>1
    <3>4. Best(n + 1, part[n])
        BY <2>2, <2>3, <3>2, <3>3
    <3> QED
        BY <2>1, <3>1, <3>4
  <2> QED
      BY <2>5, <2>6
<1>5. N \in A
  <2> HIDE DEF A
  <2>1. \A n \in 0..N : n \in A
      BY <1>1, <1>3, <1>4, InductionUpTo
  <2> QED
      BY <1>1, <2>1
<1> QED
    BY <1>1, <1>2, <1>5

-----------------------------------------------------------------------------
(* Sequences of sequences *)

\* Joined sequences grow sequence by sequence.
LEMMA JoinedGrows ==
    ASSUME NEW T, NEW seqs \in Seq(Seq(T))
    PROVE  \E part \in [0..Len(seqs) -> Seq(T)] :
              /\ part[0] = <<>> /\ Joined(seqs) = part[Len(seqs)]
              /\ \A n \in 0..(Len(seqs) - 1) : part[n + 1] = part[n] \o seqs[n + 1]
PROOF
<1> DEFINE N == Len(seqs)
           Value(i, v) == v \o seqs[i]
           Body(f, s) == IF s = {} THEN <<>> ELSE Value(Max(s), f[s \ {Max(s)}])
           Iter == CHOOSE f : f = [s \in SUBSET (1..N) |-> Body(f, s)]
           step == [i \in 1..N |-> [v \in Seq(T) |-> Value(i, v)]]
<1>1. N \in Nat /\ DOMAIN seqs = 1..N /\ \A i \in 1..N : seqs[i] \in Seq(T)
    OBVIOUS
<1>2. Joined(seqs) = Iter[1..N]
    BY <1>1 DEF Joined, FoldLeft, MapThenFoldSet
<1> HIDE DEF N
<1>3. step \in [1..N -> [Seq(T) -> Seq(T)]] /\ <<>> \in Seq(T)
  <2>1. \A i \in 1..N, v \in Seq(T) : v \o seqs[i] \in Seq(T)
      BY <1>1
  <2> QED
      BY <2>1
<1>4. \A i \in 1..N, v \in Seq(T) : step[i][v] = Value(i, v)
    OBVIOUS
<1> HIDE DEF step, Value
<1>5. PICK f : f \in Foldings(1..N, Seq(T), <<>>, step, LastOf(N))
  <2>1. Foldings(1..N, Seq(T), <<>>, step, LastOf(N)) # {}
      BY <1>1, <1>3, LeftFoldingExists
  <2> QED
      BY <2>1
<1>6. f = [s \in SUBSET (1..N) |-> Body(f, s)]
  <2>1. /\ f \in [SUBSET (1..N) -> Seq(T)]
        /\ \A s \in SUBSET (1..N) :
              f[s] = IF s = {} THEN <<>> ELSE step[Max(s)][f[s \ {Max(s)}]]
      BY <1>5 DEF Foldings, LastOf
  <2>2. ASSUME NEW s \in SUBSET (1..N), s # {} PROVE f[s] = Value(Max(s), f[s \ {Max(s)}])
    <3>1. Max(s) \in 1..N /\ s \ {Max(s)} \in SUBSET (1..N)
        BY <1>1, <2>2, MaxOfIndices
    <3> QED
        BY <1>4, <2>1, <2>2, <3>1
  <2> QED
      BY <2>1, <2>2
<1>7. Iter = [s \in SUBSET (1..N) |-> Body(Iter, s)]
  <2> HIDE DEF Body
  <2> QED
      BY <1>6
<1> HIDE DEF Iter
<1>8. Iter[{}] = <<>>
  <2>1. Iter[{}] = Body(Iter, {})
    <3> HIDE DEF Body
    <3> QED
        BY <1>7
  <2> QED
      BY <2>1
<1>9. ASSUME NEW s \in SUBSET (1..N), s # {}, Iter[s \ {Max(s)}] \in Seq(T)
      PROVE  Iter[s] = step[Max(s)][Iter[s \ {Max(s)}]]
  <2>1. Max(s) \in 1..N
      BY <1>1, <1>9, MaxOfIndices
  <2>2. Iter[s] = Body(Iter, s)
    <3> HIDE DEF Body
    <3> QED
        BY <1>7
  <2> QED
      BY <1>4, <1>9, <2>1, <2>2
<1>10. PICK part \in PrefixValues(N, Seq(T), <<>>, step) : Iter[1..N] = part[N]
  <2>1. Iter[1..N] \in Folded(N, Seq(T), <<>>, step)
      BY <1>1, <1>3, <1>8, <1>9, FoldedPrefixes
  <2> QED
      BY <2>1 DEF Folded
<1>11. /\ part \in [0..N -> Seq(T)] /\ part[0] = <<>>
       /\ \A n \in 0..(N - 1) : part[n + 1] = step[n + 1][part[n]]
    BY <1>10 DEF PrefixValues
<1>12. \A n \in 0..(N - 1) : part[n + 1] = Value(n + 1, part[n])
  <2> TAKE n \in 0..(N - 1)
  <2>1. n + 1 \in 1..N /\ n \in 0..N
      BY <1>1
  <2> QED
      BY <1>4, <1>11, <2>1
<1> QED
    BY <1>2, <1>10, <1>11, <1>12 DEF N, Value

\* What is in some sequences is in them joined.
LEMMA JoinedElements ==
    ASSUME NEW T, NEW seqs \in Seq(Seq(T))
    PROVE  /\ Joined(seqs) \in Seq(T)
           /\ ToSet(Joined(seqs)) = UNION {ToSet(seqs[i]) : i \in DOMAIN seqs}
PROOF
<1> DEFINE N == Len(seqs)
           Upto(n) == UNION {ToSet(seqs[i]) : i \in 1..n}
<1>1. N \in Nat /\ DOMAIN seqs = 1..N /\ \A i \in 1..N : seqs[i] \in Seq(T)
    OBVIOUS
<1>2. PICK part \in [0..N -> Seq(T)] :
        /\ part[0] = <<>> /\ Joined(seqs) = part[N]
        /\ \A n \in 0..(N - 1) : part[n + 1] = part[n] \o seqs[n + 1]
    BY JoinedGrows
<1> HIDE DEF N
<1> DEFINE A == {n \in 0..N : ToSet(part[n]) = Upto(n)}
<1>3. 0 \in A
  <2>1. 0 \in 0..N /\ Upto(0) = {}
      BY <1>1
  <2> HIDE DEF Upto
  <2> QED
      BY <1>2, <2>1, ToSetEmpty
<1>4. ASSUME NEW n \in 0..(N - 1), n \in A PROVE n + 1 \in A
  <2>1. n + 1 \in 1..N /\ n + 1 \in 0..N /\ n \in 0..N /\ 1..(n + 1) = (1..n) \union {n + 1}
      BY <1>1
  <2>2. Upto(n + 1) = Upto(n) \union ToSet(seqs[n + 1])
      BY <2>1
  <2> HIDE DEF Upto
  <2>3. part[n] \in Seq(T) /\ seqs[n + 1] \in Seq(T)
      BY <1>1, <1>2, <2>1
  <2>4. ToSet(part[n] \o seqs[n + 1]) = ToSet(part[n]) \union ToSet(seqs[n + 1])
      BY <2>3, ToSetConcat
  <2> QED
      BY <1>2, <1>4, <2>1, <2>2, <2>4
<1>5. N \in A
  <2> HIDE DEF A
  <2>1. \A n \in 0..N : n \in A
      BY <1>1, <1>3, <1>4, InductionUpTo
  <2> QED
      BY <1>1, <2>1
<1> QED
    BY <1>1, <1>2, <1>5

-----------------------------------------------------------------------------
(* Sorting *)

StrictOrder(R, T) ==
    /\ \A x \in T : <<x, x>> \notin R
    /\ \A x, y, z \in T : <<x, y>> \in R /\ <<y, z>> \in R => <<x, z>> \in R
    /\ \A x, y \in T : x = y \/ <<x, y>> \in R \/ <<y, x>> \in R

\* What stands before what.
InOrderAt(seq, R, i, j) == <<seq[i], seq[j]>> \in R \/ seq[i] = seq[j]

Sorted(seq, R) == \A i, j \in 1..Len(seq) : i < j => InOrderAt(seq, R, i, j)

\* The permutations by which SortBy sorts.
Sortings(seq, R) ==
    {p \in Bijection(1..Len(seq), 1..Len(seq)) :
        /\ SortBy(seq, R) = [n \in 1..Len(seq) |-> seq[p[n]]]
        /\ \A i, j \in 1..Len(seq) : i < j => InOrderAt(seq, R, p[i], p[j])}

\* No more indices go one to one into fewer.
LEMMA FewerIndices ==
    ASSUME NEW m \in Nat, NEW n \in Nat, NEW f \in [1..m -> 1..n],
           \A i, j \in 1..m : f[i] = f[j] => i = j
    PROVE  m <= n
PROOF
<1>1. IsFiniteSet(1..m) /\ Cardinality(1..m) = m /\ IsFiniteSet(1..n) /\ Cardinality(1..n) = n
    BY FS_Interval
<1>2. ASSUME n < m PROVE FALSE
  <2>1. \E i, j \in 1..m : i # j /\ f[i] = f[j]
      BY <1>1, <1>2, FS_PigeonHole
  <2> QED
      BY <2>1
<1> QED
    BY <1>2

\* Of what is sorted no permutation is sorted that is not the same.
LEMMA SortedOneWay ==
    ASSUME NEW T, NEW R, StrictOrder(R, T), NEW seq \in Seq(T), Sorted(seq, R),
           NEW p \in Bijection(1..Len(seq), 1..Len(seq)),
           \A i, j \in 1..Len(seq) : i < j => InOrderAt(seq, R, p[i], p[j])
    PROVE  \A i \in 1..Len(seq) : seq[p[i]] = seq[i]
PROOF
<1> DEFINE N == Len(seq)
<1>1. N \in Nat /\ \A i \in 1..N : seq[i] \in T
    OBVIOUS
<1>2. /\ p \in [1..N -> 1..N]
      /\ \A i, j \in 1..N : p[i] = p[j] => i = j
    BY <1>1 DEF Bijection, Injection, IsInjective
<1>3. /\ \A i, j \in 1..N : i < j => <<seq[i], seq[j]>> \in R \/ seq[i] = seq[j]
      /\ \A i, j \in 1..N : i < j => <<seq[p[i]], seq[p[j]]>> \in R \/ seq[p[i]] = seq[p[j]]
    BY DEF Sorted, InOrderAt
<1> HIDE DEF N
<1> SUFFICES ASSUME NEW i \in 1..N, seq[p[i]] # seq[i] PROVE FALSE
    BY DEF N
<1>4. p[i] \in 1..N /\ seq[p[i]] \in T /\ seq[i] \in T
    BY <1>1, <1>2
<1>5. CASE <<seq[p[i]], seq[i]>> \in R
  <2>1. ASSUME NEW j \in 1..i PROVE j \in 1..N /\ p[j] \in 1..(i - 1)
    <3>1. j \in 1..N /\ p[j] \in 1..N /\ seq[p[j]] \in T
        BY <1>1, <1>2
    <3>2. <<seq[p[j]], seq[i]>> \in R
      <4>1. j = i \/ <<seq[p[j]], seq[p[i]]>> \in R \/ seq[p[j]] = seq[p[i]]
          BY <1>1, <1>3, <3>1
      <4> QED
          BY <1>4, <1>5, <3>1, <4>1 DEF StrictOrder
    <3>3. ASSUME p[j] >= i PROVE FALSE
      <4>1. p[j] = i \/ <<seq[i], seq[p[j]]>> \in R \/ seq[i] = seq[p[j]]
          BY <1>1, <1>3, <3>1, <3>3
      <4> QED
          BY <1>4, <3>1, <3>2, <4>1 DEF StrictOrder
    <3> QED
        BY <1>1, <3>1, <3>3
  <2> DEFINE f == [j \in 1..i |-> p[j]]
  <2>2. /\ i \in Nat /\ i - 1 \in Nat /\ f \in [1..i -> 1..(i - 1)]
        /\ \A j, k \in 1..i : f[j] = f[k] => j = k
    <3>1. i \in Nat /\ i - 1 \in Nat
        BY <1>1
    <3>2. f \in [1..i -> 1..(i - 1)]
        BY <2>1
    <3>3. \A j \in 1..i : f[j] = p[j] /\ j \in 1..N
        BY <2>1
    <3> HIDE DEF f
    <3> QED
        BY <1>2, <3>1, <3>2, <3>3
  <2> HIDE DEF f
  <2>3. i <= i - 1
      BY <2>2, FewerIndices
  <2> QED
      BY <2>2, <2>3
<1>6. CASE <<seq[i], seq[p[i]]>> \in R
  <2>1. ASSUME NEW j \in i..N PROVE j \in 1..N /\ p[j] \in (i + 1)..N
    <3>1. j \in 1..N /\ p[j] \in 1..N /\ seq[p[j]] \in T
        BY <1>1, <1>2
    <3>2. <<seq[i], seq[p[j]]>> \in R
      <4>1. j = i \/ <<seq[p[i]], seq[p[j]]>> \in R \/ seq[p[i]] = seq[p[j]]
          BY <1>1, <1>3, <3>1
      <4> QED
          BY <1>4, <1>6, <3>1, <4>1 DEF StrictOrder
    <3>3. ASSUME p[j] <= i PROVE FALSE
      <4>1. p[j] = i \/ <<seq[p[j]], seq[i]>> \in R \/ seq[i] = seq[p[j]]
          BY <1>1, <1>3, <3>1, <3>3
      <4> QED
          BY <1>4, <3>1, <3>2, <4>1 DEF StrictOrder
    <3> QED
        BY <1>1, <3>1, <3>3
  <2> DEFINE m == N - i + 1
             f == [j \in 1..m |-> p[j + i - 1] - i]
  <2>2. m \in Nat /\ m - 1 \in Nat /\ \A j \in 1..m : j + i - 1 \in i..N
      BY <1>1
  <2>3. \A j \in 1..m : p[j + i - 1] - i \in 1..(m - 1)
    <3> TAKE j \in 1..m
    <3>1. p[j + i - 1] \in (i + 1)..N
        BY <2>1, <2>2
    <3> QED
        BY <1>1, <3>1
  <2>4. \A j, k \in 1..m : f[j] = f[k] => j = k
    <3> TAKE j, k \in 1..m
    <3>1. j + i - 1 \in 1..N /\ k + i - 1 \in 1..N
        BY <1>1
    <3>2. p[j + i - 1] \in 1..N /\ p[k + i - 1] \in 1..N
        BY <1>2, <3>1
    <3>3. f[j] = f[k] => p[j + i - 1] = p[k + i - 1]
        BY <1>1, <3>2
    <3>4. p[j + i - 1] = p[k + i - 1] => j + i - 1 = k + i - 1
        BY <1>2, <3>1
    <3> QED
        BY <1>1, <3>3, <3>4
  <2>5. f \in [1..m -> 1..(m - 1)]
      BY <2>3
  <2> HIDE DEF f, m
  <2>6. m <= m - 1
      BY <2>2, <2>4, <2>5, FewerIndices
  <2> QED
      BY <2>2, <2>6
<1> QED
    BY <1>4, <1>5, <1>6 DEF StrictOrder

\* Every sequence can be sorted.
LEMMA SortingExists ==
    ASSUME NEW T, NEW R, StrictOrder(R, T), NEW seq \in Seq(T)
    PROVE  Sortings(seq, R) # {}
PROOF
<1> DEFINE N == Len(seq)
           before(i, j) == <<seq[i], seq[j]>> \in R \/ (seq[i] = seq[j] /\ i < j)
           upto(i) == {j \in 1..N : j = i \/ before(j, i)}
           place(i) == Cardinality({j \in DOMAIN seq :
               <<seq[j], seq[i]>> \in R \/ (<<seq[i], seq[j]>> \notin R /\ j <= i)})
           rank == [i \in 1..N |-> Cardinality(upto(i))]
<1>1. N \in Nat /\ DOMAIN seq = 1..N /\ \A i \in 1..N : seq[i] \in T
    OBVIOUS
<1> HIDE DEF N
<1>0. \A i \in 1..N : place(i) = Cardinality(upto(i))
  <2> TAKE i \in 1..N
  <2>1. \A j \in 1..N :
          (<<seq[j], seq[i]>> \in R \/ (<<seq[i], seq[j]>> \notin R /\ j <= i))
             <=> (j = i \/ before(j, i))
      BY <1>1 DEF StrictOrder
  <2>2. {j \in DOMAIN seq :
            <<seq[j], seq[i]>> \in R \/ (<<seq[i], seq[j]>> \notin R /\ j <= i)} = upto(i)
      BY <1>1, <2>1
  <2> QED
      BY <2>2
<1>2. \A i, j, k \in 1..N : before(i, j) /\ before(j, k) => before(i, k)
    BY <1>1 DEF StrictOrder
<1>3. \A i, j \in 1..N : i = j \/ before(i, j) \/ before(j, i)
    BY <1>1 DEF StrictOrder
<1>4. \A i \in 1..N : ~before(i, i)
    BY <1>1 DEF StrictOrder
<1>5. \A i, j \in 1..N : before(i, j) => InOrderAt(seq, R, i, j)
    BY DEF InOrderAt
<1> HIDE DEF before
<1>6. IsFiniteSet(1..N) /\ Cardinality(1..N) = N
    BY <1>1, FS_Interval
<1>7. \A i \in 1..N : /\ IsFiniteSet(upto(i)) /\ Cardinality(upto(i)) \in 1..N
  <2> TAKE i \in 1..N
  <2>1. upto(i) \subseteq 1..N /\ i \in upto(i)
      OBVIOUS
  <2> HIDE DEF upto
  <2>2. IsFiniteSet(upto(i)) /\ Cardinality(upto(i)) \in Nat /\ Cardinality(upto(i)) <= N
      BY <1>6, <2>1, FS_Subset, FS_CardinalityType
  <2>3. Cardinality(upto(i)) # 0
      BY <2>1, <2>2, FS_EmptySet
  <2> QED
      BY <1>1, <2>2, <2>3
<1>8. ASSUME NEW i \in 1..N, NEW j \in 1..N, before(i, j) PROVE rank[i] < rank[j]
  <2>1. upto(i) \subseteq upto(j) /\ j \in upto(j) /\ j \notin upto(i)
      BY <1>2, <1>4, <1>8
  <2> HIDE DEF upto
  <2>2. Cardinality(upto(i)) <= Cardinality(upto(j)) /\ upto(i) # upto(j)
      BY <1>7, <2>1, FS_Subset
  <2>3. Cardinality(upto(i)) # Cardinality(upto(j))
      BY <1>7, <2>1, FS_Subset
  <2> QED
      BY <1>7, <2>2, <2>3
<1>9. rank \in [1..N -> 1..N]
  <2> HIDE DEF upto
  <2> QED
      BY <1>7
<1> HIDE DEF rank
<1>10. \A i, j \in 1..N : rank[i] \in Int /\ (rank[i] = rank[j] => i = j)
    BY <1>3, <1>8, <1>9
<1>11. rank \in Injection(1..N, 1..N)
    BY <1>9, <1>10 DEF Injection, IsInjective
<1>12. rank \in Surjection(1..N, 1..N)
    BY <1>6, <1>11, FS_Injection
<1>13. \A r \in 1..N : \E i \in 1..N : rank[i] = r
    BY <1>12 DEF Surjection
<1> DEFINE p == [r \in 1..N |-> CHOOSE i \in 1..N : rank[i] = r]
<1>14. \A r \in 1..N : p[r] \in 1..N /\ rank[p[r]] = r
    BY <1>13
<1>15. p \in [1..N -> 1..N]
    BY <1>14
<1> HIDE DEF p
<1>16. \A i \in 1..N : p[rank[i]] = i
    BY <1>9, <1>10, <1>14
<1>17. p \in Bijection(1..N, 1..N)
    BY <1>9, <1>14, <1>15, <1>16 DEF Bijection, Injection, Surjection, IsInjective
<1>18. \A i, j \in 1..N : i < j => InOrderAt(seq, R, p[i], p[j])
  <2> TAKE i, j \in 1..N
  <2>1. p[i] \in 1..N /\ p[j] \in 1..N /\ rank[p[i]] = i /\ rank[p[j]] = j
      BY <1>14
  <2>2. i < j => ~before(p[j], p[i]) /\ p[i] # p[j]
      BY <1>1, <1>8, <2>1
  <2> QED
      BY <1>3, <1>5, <2>1, <2>2
<1>19. SortBy(seq, R) = [n \in 1..N |-> seq[p[n]]]
  <2>1. \A n \in 1..N : (CHOOSE i \in 1..N : place(i) = n) = p[n]
    <3> TAKE n \in 1..N
    <3>1. \A i \in 1..N : place(i) = rank[i]
        BY <1>0 DEF rank
    <3>2. place(p[n]) = n /\ \A i \in 1..N : place(i) = n => i = p[n]
        BY <1>14, <1>16, <3>1
    <3> HIDE DEF place
    <3> QED
        BY <1>14, <3>2
  <2>2. SortBy(seq, R) = [n \in 1..N |-> seq[CHOOSE i \in 1..N : place(i) = n]]
      BY <1>1 DEF SortBy
  <2> HIDE DEF place
  <2> QED
      BY <2>1, <2>2
<1> HIDE DEF place
<1> QED
    BY <1>17, <1>18, <1>19 DEF Sortings, N

\* A sorted sequence has the same elements, in order.
LEMMA SortByElements ==
    ASSUME NEW T, NEW R, StrictOrder(R, T), NEW seq \in Seq(T)
    PROVE  /\ SortBy(seq, R) \in Seq(T) /\ Len(SortBy(seq, R)) = Len(seq)
           /\ ToSet(SortBy(seq, R)) = ToSet(seq)
           /\ Sorted(SortBy(seq, R), R)
PROOF
<1> DEFINE N == Len(seq)
           sorted == SortBy(seq, R)
<1>1. N \in Nat /\ DOMAIN seq = 1..N /\ \A i \in 1..N : seq[i] \in T
    OBVIOUS
<1>2. PICK p : p \in Sortings(seq, R)
    BY SortingExists
<1>3. /\ p \in [1..N -> 1..N] /\ \A i \in 1..N : \E j \in 1..N : p[j] = i
      /\ sorted = [n \in 1..N |-> seq[p[n]]]
      /\ \A i, j \in 1..N : i < j => InOrderAt(seq, R, p[i], p[j])
    BY <1>2 DEF Sortings, Bijection, Injection, Surjection
<1> HIDE DEF N, sorted
<1>4. \A i \in 1..N : p[i] \in 1..N
    BY <1>3
<1>5. sorted \in [1..N -> T]
    BY <1>1, <1>3, <1>4
<1>6. sorted \in Seq(T) /\ DOMAIN sorted = 1..N /\ Len(sorted) = N
    BY <1>1, <1>5
<1>7. \A i \in 1..N : sorted[i] = seq[p[i]]
    BY <1>3
<1>8. ToSet(sorted) = ToSet(seq)
  <2>1. \A i \in 1..N : sorted[i] \in ToSet(seq)
      BY <1>1, <1>4, <1>7 DEF ToSet
  <2>2. \A i \in 1..N : seq[i] \in ToSet(sorted)
      BY <1>3, <1>6, <1>7 DEF ToSet
  <2> QED
      BY <1>1, <1>6, <2>1, <2>2 DEF ToSet
<1>9. Sorted(sorted, R)
    BY <1>3, <1>6, <1>7 DEF Sorted, InOrderAt
<1> QED
    BY <1>6, <1>8, <1>9 DEF N, sorted

\* What is sorted stays as it is.
LEMMA SortByIsStable ==
    ASSUME NEW T, NEW R, StrictOrder(R, T), NEW seq \in Seq(T), Sorted(seq, R)
    PROVE  SortBy(seq, R) = seq
PROOF
<1>1. PICK p : p \in Sortings(seq, R)
    BY SortingExists
<1>2. \A i \in 1..Len(seq) : seq[p[i]] = seq[i]
  <2>1. /\ p \in Bijection(1..Len(seq), 1..Len(seq))
        /\ \A i, j \in 1..Len(seq) : i < j => InOrderAt(seq, R, p[i], p[j])
      BY <1>1 DEF Sortings
  <2> QED
      BY <2>1, SortedOneWay
<1>3. SortBy(seq, R) = [n \in 1..Len(seq) |-> seq[p[n]]]
    BY <1>1 DEF Sortings
<1>4. [n \in 1..Len(seq) |-> seq[p[n]]] = [n \in 1..Len(seq) |-> seq[n]]
    BY <1>2
<1>5. seq = [n \in 1..Len(seq) |-> seq[n]]
    OBVIOUS
<1> QED
    BY <1>3, <1>4, <1>5

\* The bijections that match what two sequences list.
Matchings(s, t) ==
    {p \in Bijection(1..Len(s), 1..Len(t)) : \A i \in 1..Len(s) : s[i] = t[p[i]]}

\* If every element is as often in one sequence as in another, they can be matched.
LEMMA MatchingExists ==
    ASSUME NEW T, NEW s \in Seq(T), NEW t \in Seq(T), ToBag(s) = ToBag(t)
    PROVE  Matchings(s, t) # {} /\ Len(s) = Len(t)
PROOF
<1> DEFINE M == Len(s)
           N == Len(t)
           At(x) == {i \in DOMAIN s : s[i] = x}
           In(x) == {i \in DOMAIN t : t[i] = x}
           pairing(x) == CHOOSE f : f \in Bijection(At(x), In(x))
           p == [i \in 1..M |-> pairing(s[i])[i]]
<1>1. /\ M \in Nat /\ DOMAIN s = 1..M /\ N \in Nat /\ DOMAIN t = 1..N
    OBVIOUS
<1>2. /\ Range(s) = Range(t)
      /\ \A x \in Range(s) : Cardinality(At(x)) = Cardinality(In(x))
  <2>1. /\ DOMAIN ToBag(s) = Range(s) /\ DOMAIN ToBag(t) = Range(t)
        /\ \A x \in Range(s) : ToBag(s)[x] = Cardinality(At(x))
        /\ \A x \in Range(t) : ToBag(t)[x] = Cardinality(In(x))
      BY DEF ToBag
  <2> HIDE DEF At, In
  <2> QED
      BY <2>1
<1>3. \A i \in 1..M : s[i] \in Range(s)
    BY <1>1 DEF Range
<1>4. \A i \in 1..N : t[i] \in Range(s)
    BY <1>1, <1>2 DEF Range
<1>5. \A x : At(x) \in SUBSET (1..M) /\ In(x) \in SUBSET (1..N)
    BY <1>1
<1>6. /\ \A x, i : i \in At(x) <=> i \in 1..M /\ s[i] = x
      /\ \A x, i : i \in In(x) <=> i \in 1..N /\ t[i] = x
    BY <1>1
<1> HIDE DEF M, N, At, In
<1>7. \A x \in Range(s) : pairing(x) \in Bijection(At(x), In(x))
  <2> TAKE x \in Range(s)
  <2>1. IsFiniteSet(1..M) /\ IsFiniteSet(1..N)
      BY <1>1, FS_Interval
  <2>2. IsFiniteSet(At(x)) /\ IsFiniteSet(In(x))
      BY <1>5, <2>1, FS_Subset
  <2>3. ExistsBijection(At(x), In(x))
      BY <1>2, <2>2, FS_SameCardinalityBij
  <2> QED
      BY <2>3 DEF ExistsBijection
<1> HIDE DEF pairing
<1>8. \A x \in Range(s) :
        /\ \A i \in At(x) : pairing(x)[i] \in In(x)
        /\ \A i, j \in At(x) : pairing(x)[i] = pairing(x)[j] => i = j
        /\ \A k \in In(x) : \E i \in At(x) : pairing(x)[i] = k
    BY <1>7 DEF Bijection, Injection, Surjection, IsInjective
<1>9. \A i \in 1..M : p[i] = pairing(s[i])[i] /\ i \in At(s[i])
    BY <1>6
<1>10. ASSUME NEW i \in 1..M PROVE p[i] \in 1..N /\ t[p[i]] = s[i]
  <2>1. pairing(s[i])[i] \in In(s[i])
      BY <1>3, <1>8, <1>9
  <2> QED
      BY <1>6, <1>9, <2>1
<1>11. p \in [1..M -> 1..N]
    BY <1>10
<1> HIDE DEF p
<1>12. ASSUME NEW i \in 1..M, NEW j \in 1..M, p[i] = p[j] PROVE i = j
  <2>1. s[i] = s[j]
      BY <1>10, <1>12
  <2> QED
      BY <1>3, <1>8, <1>9, <1>12, <2>1
<1>13. ASSUME NEW k \in 1..N PROVE \E i \in 1..M : p[i] = k
  <2>1. k \in In(t[k]) /\ t[k] \in Range(s)
      BY <1>4, <1>6
  <2>2. PICK i \in At(t[k]) : pairing(t[k])[i] = k
      BY <1>8, <2>1
  <2> QED
      BY <1>6, <1>9, <2>2
<1>14. p \in Bijection(1..M, 1..N)
    BY <1>11, <1>12, <1>13 DEF Bijection, Injection, Surjection, IsInjective
<1>15. M = N
  <2>1. IsFiniteSet(1..M) /\ Cardinality(1..M) = M /\ Cardinality(1..N) = N
      BY <1>1, FS_Interval
  <2>2. ExistsBijection(1..M, 1..N)
      BY <1>14 DEF ExistsBijection
  <2> QED
      BY <2>1, <2>2, FS_Bijection
<1> QED
    BY <1>10, <1>14, <1>15 DEF Matchings, M, N

\* Sequences that can be matched have the same bag.
LEMMA MatchingBags ==
    ASSUME NEW T, NEW s \in Seq(T), NEW t \in Seq(T), Matchings(s, t) # {}
    PROVE  ToBag(s) = ToBag(t)
PROOF
<1> DEFINE M == Len(s)
           N == Len(t)
           At(x) == {i \in DOMAIN s : s[i] = x}
           In(x) == {i \in DOMAIN t : t[i] = x}
<1>1. M \in Nat /\ DOMAIN s = 1..M /\ N \in Nat /\ DOMAIN t = 1..N
    OBVIOUS
<1>2. PICK p : p \in Matchings(s, t)
    OBVIOUS
<1>3. /\ \A i \in 1..M : p[i] \in 1..N /\ s[i] = t[p[i]]
      /\ \A i, j \in 1..M : p[i] = p[j] => i = j
      /\ \A k \in 1..N : \E i \in 1..M : p[i] = k
    BY <1>1, <1>2 DEF Matchings, Bijection, Injection, Surjection, IsInjective
<1>4. /\ \A x, i : i \in At(x) <=> i \in 1..M /\ s[i] = x
      /\ \A x, i : i \in In(x) <=> i \in 1..N /\ t[i] = x
    BY <1>1
<1>5. Range(s) = Range(t)
  <2>1. Range(s) = {s[i] : i \in 1..M} /\ Range(t) = {t[i] : i \in 1..N}
      BY <1>1 DEF Range
  <2> HIDE DEF M, N
  <2>2. \A i \in 1..M : s[i] \in {t[k] : k \in 1..N}
      BY <1>3
  <2>3. \A k \in 1..N : t[k] \in {s[i] : i \in 1..M}
      BY <1>3
  <2> QED
      BY <2>1, <2>2, <2>3
<1>6. /\ ToBag(s) = [x \in Range(s) |-> Cardinality(At(x))]
      /\ ToBag(t) = [x \in Range(t) |-> Cardinality(In(x))]
    BY DEF ToBag
<1>7. \A x : At(x) \in SUBSET (1..M)
    BY <1>4
<1> HIDE DEF M, N, At, In
<1>8. ASSUME NEW x PROVE Cardinality(At(x)) = Cardinality(In(x))
  <2> DEFINE f == [i \in At(x) |-> p[i]]
  <2>1. f \in [At(x) -> In(x)]
      BY <1>3, <1>4
  <2>2. \A i \in At(x) : f[i] = p[i] /\ i \in 1..M
      BY <1>4
  <2>3. \A i, j \in At(x) : f[i] = f[j] => i = j
      BY <1>3, <2>2
  <2>4. \A k \in In(x) : \E i \in At(x) : f[i] = k
      BY <1>3, <1>4, <2>2
  <2> HIDE DEF f
  <2>5. f \in Bijection(At(x), In(x))
      BY <2>1, <2>3, <2>4 DEF Bijection, Injection, Surjection, IsInjective
  <2>6. IsFiniteSet(At(x))
      BY <1>1, <1>7, FS_Interval, FS_Subset
  <2>7. ExistsBijection(At(x), In(x))
      BY <2>5 DEF ExistsBijection
  <2> QED
      BY <2>6, <2>7, FS_Bijection
<1> QED
    BY <1>5, <1>6, <1>8

\* Sorting makes the same of two sequences if each element is as often in both, and
\* only then.
LEMMA SameBagSorted ==
    ASSUME NEW T, NEW R, StrictOrder(R, T), NEW s \in Seq(T), NEW t \in Seq(T)
    PROVE  SortBy(s, R) = SortBy(t, R) <=> ToBag(s) = ToBag(t)
PROOF
<1> DEFINE a == SortBy(s, R)
           b == SortBy(t, R)
<1>1. /\ a \in Seq(T) /\ Len(a) = Len(s) /\ Sorted(a, R)
      /\ b \in Seq(T) /\ Len(b) = Len(t) /\ Sorted(b, R)
    BY SortByElements
<1>2. ToBag(a) = ToBag(s) /\ ToBag(b) = ToBag(t)
  <2>1. ASSUME NEW seq \in Seq(T) PROVE ToBag(SortBy(seq, R)) = ToBag(seq)
    <3> DEFINE c == SortBy(seq, R)
    <3>1. PICK p : p \in Sortings(seq, R)
        BY SortingExists
    <3>2. c \in Seq(T) /\ Len(c) = Len(seq)
        BY SortByElements
    <3>3. /\ p \in Bijection(1..Len(seq), 1..Len(seq))
          /\ c = [n \in 1..Len(seq) |-> seq[p[n]]]
        BY <3>1 DEF Sortings
    <3> HIDE DEF c
    <3>4. p \in Matchings(c, seq)
        BY <3>2, <3>3 DEF Matchings
    <3>5. ToBag(c) = ToBag(seq)
        BY <3>2, <3>4, MatchingBags
    <3> QED
        BY <3>5 DEF c
  <2> QED
      BY <2>1
<1> HIDE DEF a, b
<1>3. ASSUME ToBag(a) = ToBag(b) PROVE a = b
  <2>1. PICK p : p \in Matchings(a, b)
      BY <1>1, <1>3, MatchingExists
  <2>2. Len(a) = Len(b)
      BY <1>1, <1>3, MatchingExists
  <2>3. /\ p \in Bijection(1..Len(b), 1..Len(b))
        /\ \A i \in 1..Len(b) : a[i] = b[p[i]]
      BY <2>1, <2>2 DEF Matchings
  <2>4. \A i, j \in 1..Len(b) : i < j => InOrderAt(b, R, p[i], p[j])
      BY <1>1, <2>2, <2>3 DEF Sorted, InOrderAt
  <2>5. \A i \in 1..Len(b) : b[p[i]] = b[i]
      BY <1>1, <2>3, <2>4, SortedOneWay
  <2> QED
      BY <1>1, <2>2, <2>3, <2>5, SeqEqual
<1>4. a = b <=> ToBag(a) = ToBag(b)
    BY <1>3
<1> QED
    BY <1>2, <1>4 DEF a, b

-----------------------------------------------------------------------------
(* Places in a sequence *)

Increasing(s) == \A i, j \in 1..Len(s) : i < j => s[i] < s[j]

\* The places listed in order, with what stands there.
ListingsOf(seq, places, result) ==
    {list \in Seq(1..Len(seq)) :
        /\ Increasing(list) /\ ToSet(list) = places /\ Len(list) = Len(result)
        /\ \A m \in 1..Len(result) : result[m] = seq[list[m]]}

\* Places are listed in order in one way.
LEMMA OneListing ==
    ASSUME NEW s \in Seq(Nat), NEW t \in Seq(Nat), Increasing(s), Increasing(t),
           ToSet(s) = ToSet(t)
    PROVE  s = t
PROOF
<1> DEFINE M == Len(s)
           N == Len(t)
           p == [i \in 1..M |-> CHOOSE k \in 1..N : t[k] = s[i]]
<1>1. /\ M \in Nat /\ DOMAIN s = 1..M /\ N \in Nat /\ DOMAIN t = 1..N
      /\ \A i \in 1..M : s[i] \in Nat
      /\ \A i \in 1..N : t[i] \in Nat
    OBVIOUS
<1>2. ToSet(s) = {s[i] : i \in 1..M} /\ ToSet(t) = {t[k] : k \in 1..N}
    BY <1>1 DEF ToSet
<1>3. StrictOrder(Below, Nat)
    BY DEF StrictOrder, Below
<1>4. Sorted(s, Below) /\ Sorted(t, Below)
    BY <1>1 DEF Sorted, InOrderAt, Increasing, Below
<1>5. ASSUME NEW i \in 1..M, NEW j \in 1..M, s[i] = s[j] PROVE i = j
  <2>1. s[i] \in Nat /\ ~(s[i] < s[j]) /\ ~(s[j] < s[i])
      BY <1>1, <1>5
  <2>2. ~(i < j) /\ ~(j < i)
      BY <2>1 DEF Increasing
  <2> QED
      BY <1>1, <2>2
<1>6. ASSUME NEW i \in 1..N, NEW j \in 1..N, t[i] = t[j] PROVE i = j
  <2>1. t[i] \in Nat /\ ~(t[i] < t[j]) /\ ~(t[j] < t[i])
      BY <1>1, <1>6
  <2>2. ~(i < j) /\ ~(j < i)
      BY <2>1 DEF Increasing
  <2> QED
      BY <1>1, <2>2
<1> HIDE DEF M, N
<1>7. ASSUME NEW i \in 1..M PROVE p[i] \in 1..N /\ t[p[i]] = s[i]
  <2>1. \E k \in 1..N : t[k] = s[i]
      BY <1>2
  <2> QED
      BY <2>1
<1>8. p \in [1..M -> 1..N]
    BY <1>7
<1> HIDE DEF p
<1>9. ASSUME NEW k \in 1..N PROVE \E i \in 1..M : p[i] = k
  <2>1. PICK i \in 1..M : s[i] = t[k]
      BY <1>2
  <2> QED
      BY <1>6, <1>7, <2>1
<1>10. \A i, j \in 1..M : p[i] = p[j] => i = j
  <2> TAKE i, j \in 1..M
  <2> HAVE p[i] = p[j]
  <2>1. s[i] = s[j]
      BY <1>7
  <2> QED
      BY <1>5, <2>1
<1>11. p \in Bijection(1..M, 1..N)
    BY <1>8, <1>9, <1>10 DEF Bijection, Injection, Surjection, IsInjective
<1>12. ToBag(s) = ToBag(t)
  <2>1. p \in Matchings(s, t)
      BY <1>7, <1>11 DEF Matchings, M, N
  <2> QED
      BY <2>1, MatchingBags
<1>13. SortBy(s, Below) = SortBy(t, Below)
    BY <1>3, <1>12, SameBagSorted
<1> QED
    BY <1>3, <1>4, <1>13, SortByIsStable

\* The last of the places listed gets one more.
LEMMA ListingAppend ==
    ASSUME NEW T, NEW seq \in Seq(T), NEW n \in Nat, n + 1 \in 1..Len(seq),
           NEW places \in SUBSET (1..n),
           NEW result \in Seq(T), NEW list \in ListingsOf(seq, places, result)
    PROVE  Append(list, n + 1)
              \in ListingsOf(seq, places \union {n + 1}, Append(result, seq[n + 1]))
PROOF
<1> DEFINE more == Append(list, n + 1)
           longer == Append(result, seq[n + 1])
<1>1. /\ Len(seq) \in Nat /\ seq[n + 1] \in T /\ 1..n \subseteq 1..Len(seq)
    OBVIOUS
<1>2. /\ list \in Seq(1..Len(seq)) /\ Increasing(list) /\ ToSet(list) = places
      /\ Len(list) = Len(result)
      /\ \A m \in 1..Len(result) : result[m] = seq[list[m]]
    BY DEF ListingsOf
<1>3. Len(list) \in Nat /\ Len(result) \in Nat
    BY <1>2
<1>4. /\ more \in Seq(1..Len(seq)) /\ Len(more) = Len(list) + 1
      /\ more[Len(list) + 1] = n + 1
      /\ \A m \in 1..Len(list) : more[m] = list[m]
    BY <1>2, AppendProperties
<1>5. /\ Len(longer) = Len(result) + 1 /\ longer[Len(result) + 1] = seq[n + 1]
      /\ \A m \in 1..Len(result) : longer[m] = result[m]
    BY <1>1, AppendProperties
<1>6. ToSet(more) = places \union {n + 1}
    BY <1>2, ToSetAppend
<1>7. \A m \in 1..Len(list) : list[m] \in places
  <2>1. DOMAIN list = 1..Len(list)
      BY <1>2
  <2> QED
      BY <1>2, <2>1 DEF ToSet
<1> HIDE DEF more, longer
<1>8. Increasing(more)
  <2> SUFFICES ASSUME NEW i \in 1..Len(more), NEW j \in 1..Len(more), i < j
               PROVE  more[i] < more[j]
      BY DEF Increasing
  <2>1. i \in 1..Len(list) /\ list[i] \in 1..n /\ more[i] = list[i]
      BY <1>3, <1>4, <1>7
  <2>2. CASE j = Len(list) + 1
      BY <1>4, <2>1, <2>2
  <2>3. CASE j # Len(list) + 1
    <3>1. j \in 1..Len(list)
      <4>1. PICK length \in Nat : length = Len(list) /\ Len(more) = length + 1
          BY <1>3, <1>4
      <4> QED
          BY <2>3, <4>1
    <3> QED
        BY <1>2, <1>4, <2>1, <3>1 DEF Increasing
  <2> QED
      BY <2>2, <2>3
<1>9. ASSUME NEW m \in 1..Len(longer) PROVE longer[m] = seq[more[m]]
  <2>1. CASE m = Len(result) + 1
      BY <1>2, <1>4, <1>5, <2>1
  <2>2. CASE m # Len(result) + 1
    <3>1. m \in 1..Len(result)
        BY <1>3, <1>5, <2>2
    <3> QED
        BY <1>2, <1>4, <1>5, <3>1
  <2> QED
      BY <2>1, <2>2
<1> QED
    BY <1>2, <1>4, <1>5, <1>6, <1>8, <1>9 DEF ListingsOf, more, longer

\* Without the last of the places listed.
LEMMA ListingFront ==
    ASSUME NEW T, NEW seq \in Seq(T), NEW places, NEW result \in Seq(T), result # <<>>,
           NEW list \in ListingsOf(seq, places, result)
    PROVE  /\ Front(list) \in ListingsOf(seq, places \ {list[Len(list)]}, Front(result))
           /\ Len(Front(list)) = Len(list) - 1
           /\ \A m \in 1..(Len(list) - 1) : Front(list)[m] = list[m]
           /\ Len(list) \in Nat \ {0}
PROOF
<1> DEFINE less == Front(list)
           shorter == Front(result)
<1>1. /\ list \in Seq(1..Len(seq)) /\ Increasing(list) /\ ToSet(list) = places
      /\ Len(list) = Len(result)
      /\ \A m \in 1..Len(result) : result[m] = seq[list[m]]
    BY DEF ListingsOf
<1>2. PICK n \in Nat \ {0} : n = Len(list) /\ n = Len(result)
    BY <1>1
<1>3. /\ less \in Seq(1..Len(seq)) /\ Len(less) = n - 1
      /\ \A m \in 1..(n - 1) : less[m] = list[m]
    BY <1>1, <1>2 DEF Front
<1>4. /\ Len(shorter) = n - 1
      /\ \A m \in 1..(n - 1) : shorter[m] = result[m]
    BY <1>2 DEF Front
<1>5. DOMAIN list = 1..n /\ DOMAIN less = 1..(n - 1)
    BY <1>1, <1>2, <1>3
<1> HIDE DEF less, shorter
<1>6. Increasing(less)
  <2>1. \A i, j \in 1..(n - 1) : i \in 1..n /\ j \in 1..n
      BY <1>2
  <2> QED
      BY <1>1, <1>2, <1>3, <2>1 DEF Increasing
<1>7. \A i, j \in 1..n : list[i] = list[j] => i = j
  <2> TAKE i, j \in 1..n
  <2> HAVE list[i] = list[j]
  <2>1. list[i] \in Nat /\ ~(list[i] < list[j]) /\ ~(list[j] < list[i])
    <3>1. list[i] \in 1..Len(seq)
        BY <1>1, <1>2
    <3> QED
        BY <3>1
  <2>2. ~(i < j) /\ ~(j < i)
      BY <1>1, <1>2, <2>1 DEF Increasing
  <2> QED
      BY <1>2, <2>2
<1>8. ToSet(less) = places \ {list[n]}
  <2>1. places = {list[m] : m \in 1..n} /\ ToSet(less) = {less[m] : m \in 1..(n - 1)}
      BY <1>1, <1>5 DEF ToSet
  <2>2. \A m \in 1..n : m \in 1..(n - 1) \/ m = n
      BY <1>2
  <2>3. \A m \in 1..(n - 1) : m \in 1..n /\ m # n
      BY <1>2
  <2>4. \A m \in 1..(n - 1) : list[m] # list[n]
      BY <1>2, <1>7, <2>3
  <2> QED
      BY <1>3, <2>1, <2>2, <2>3, <2>4
<1>9. \A m \in 1..(n - 1) : shorter[m] = seq[less[m]]
  <2>1. \A m \in 1..(n - 1) : m \in 1..n
      BY <1>2
  <2> QED
      BY <1>1, <1>2, <1>3, <1>4, <2>1
<1>10. less \in ListingsOf(seq, places \ {list[n]}, shorter)
    BY <1>3, <1>4, <1>6, <1>8, <1>9 DEF ListingsOf
<1> QED
    BY <1>2, <1>3, <1>10 DEF less, shorter

\* A subsequence lists what stands at the places of the elements in the set.
LEMMA OnlyPlaces ==
    ASSUME NEW T, NEW seq \in Seq(T), NEW S
    PROVE  ListingsOf(seq, {i \in 1..Len(seq) : seq[i] \in S}, Only(seq, S)) # {}
PROOF
<1> DEFINE N == Len(seq)
           Upto(n) == {i \in 1..n : seq[i] \in S}
<1>1. N \in Nat /\ DOMAIN seq = 1..N /\ \A i \in 1..N : seq[i] \in T
    OBVIOUS
<1>2. PICK part \in [0..N -> Seq(T)] :
        /\ part[0] = <<>> /\ Only(seq, S) = part[N]
        /\ \A n \in 0..(N - 1) : part[n + 1] = IF seq[n + 1] \in S
                                                THEN Append(part[n], seq[n + 1]) ELSE part[n]
    BY OnlyGrows DEF Growing
<1> HIDE DEF N
<1> DEFINE A == {n \in 0..N : ListingsOf(seq, Upto(n), part[n]) # {}}
<1>3. 0 \in A
  <2>1. 0 \in 0..N /\ Upto(0) = {}
      BY <1>1
  <2>2. <<>> \in ListingsOf(seq, {}, <<>>)
    <3>1. <<>> \in Seq(1..Len(seq)) /\ Len(<<>>) = 0
        OBVIOUS
    <3> QED
        BY <3>1, ToSetEmpty DEF ListingsOf, Increasing
  <2> HIDE DEF Upto
  <2> QED
      BY <1>2, <2>1, <2>2
<1>4. ASSUME NEW n \in 0..(N - 1), n \in A PROVE n + 1 \in A
  <2>1. /\ n \in Nat /\ n \in 0..N /\ n + 1 \in 0..N /\ n + 1 \in 1..Len(seq)
        /\ 1..(n + 1) = (1..n) \union {n + 1}
      BY <1>1 DEF N
  <2>2. part[n] \in Seq(T)
      BY <1>2, <2>1
  <2>3. PICK list : list \in ListingsOf(seq, Upto(n), part[n])
      BY <1>4
  <2>4. CASE seq[n + 1] \in S
    <3>1. Upto(n + 1) = Upto(n) \union {n + 1} /\ Upto(n) \in SUBSET (1..n)
        BY <2>1, <2>4
    <3>2. part[n + 1] = Append(part[n], seq[n + 1])
        BY <1>2, <2>4
    <3> HIDE DEF Upto
    <3>3. Append(list, n + 1) \in ListingsOf(seq, Upto(n + 1), part[n + 1])
        BY <2>1, <2>2, <2>3, <3>1, <3>2, ListingAppend
    <3> QED
        BY <2>1, <3>3
  <2>5. CASE seq[n + 1] \notin S
    <3>1. Upto(n + 1) = Upto(n)
        BY <2>1, <2>5
    <3>2. part[n + 1] = part[n]
        BY <1>2, <2>5
    <3> HIDE DEF Upto
    <3> QED
        BY <2>1, <2>3, <3>1, <3>2
  <2> QED
      BY <2>4, <2>5
<1>5. N \in A
  <2> HIDE DEF A
  <2>1. \A n \in 0..N : n \in A
      BY <1>1, <1>3, <1>4, InductionUpTo
  <2> QED
      BY <1>1, <2>1
<1> QED
    BY <1>2, <1>5 DEF N
=============================================================================
