--------------------------- MODULE SequenceProofs ---------------------------
(***************************************************************************)
(* Induction over numbers and over sequences, and what folds, selections,  *)
(* maps and concatenations of sequences give; then what the operators of   *)
(* Requests and Replies make of the blocks of a message: the facts about   *)
(* data that the proofs about the models rest on.                          *)
(***************************************************************************)
EXTENDS Replies, SequenceTheorems, FiniteSetTheorems, WellFoundedInduction, TLAPS

\* A set of numbers that is not empty has a least element, and Min is it.
LEMMA LeastOfSome ==
  ASSUME NEW S \in SUBSET Nat, S # {}
  PROVE  Min(S) \in S /\ \A n \in S : Min(S) <= n
<1> DEFINE less == {p \in Nat \X Nat : p[1] < p[2]}
<1>1. IsWellFoundedOn(less, Nat)
  BY NatLessThanWellFounded DEF OpToRel
<1>2. PICK x \in S : \A y \in S : ~(<<y, x>> \in less)
  BY <1>1, WFMin
<1>3. \A y \in Nat : y < x => <<y, x>> \in less
  OBVIOUS
<1> HIDE DEF less
<1>4. \A y \in S : x <= y
  <2>1. TAKE y \in S
  <2>2. x \in Nat /\ y \in Nat
    OBVIOUS
  <2>3. ~(y < x)
    BY <1>2, <1>3, <2>2
  <2> QED BY <2>2, <2>3
<1> QED BY <1>4 DEF Min

---------------------------------------------------------------------------
(* Induction over numbers and sequences, stated with sets: what holds of   *)
(* the members of a set that has the first and each next is true of all.   *)

\* A set of numbers that has 0 and with each number the next has them all.
LEMMA NatInd ==
  ASSUME NEW S \in SUBSET Nat, 0 \in S, \A n \in S : n + 1 \in S
  PROVE  S = Nat
<1> DEFINE less == {p \in Nat \X Nat : p[1] < p[2]}
<1>1. IsWellFoundedOn(less, Nat)
  BY NatLessThanWellFounded DEF OpToRel
<1>2. SUFFICES ASSUME Nat \ S # {} PROVE FALSE
  OBVIOUS
<1>3. PICK x \in Nat \ S : \A y \in Nat \ S : ~(<<y, x>> \in less)
  BY <1>1, <1>2, WFMin
<1>4. \A y \in Nat : y < x => <<y, x>> \in less
  OBVIOUS
<1> HIDE DEF less
<1>5. x # 0 /\ x - 1 \in Nat /\ x - 1 < x
  OBVIOUS
<1>6. x - 1 \in S
  BY <1>3, <1>4, <1>5
<1>7. x - 1 + 1 \in S
  BY <1>6
<1> QED BY <1>7, <1>3

\* A set of sequences that has the empty one and with each those one longer has them all.
LEMMA SeqInd ==
  ASSUME NEW D, NEW S \in SUBSET Seq(D), <<>> \in S, \A s \in S, x \in D : Append(s, x) \in S
  PROVE  S = Seq(D)
<1> DEFINE N == {n \in Nat : \A s \in Seq(D) : Len(s) = n => s \in S}
<1>1. 0 \in N
  OBVIOUS
<1>2. ASSUME NEW n \in N PROVE n + 1 \in N
  <2>1. n + 1 \in Nat
    OBVIOUS
  <2> SUFFICES ASSUME NEW s \in Seq(D), Len(s) = n + 1 PROVE s \in S
    BY <2>1
  <2>2. s # <<>>
    OBVIOUS
  <2>3. PICK t \in Seq(D), x \in D : s = Append(t, x)
    BY <2>2, SequenceEmptyOrAppend
  <2>4. Len(t) = n
    BY <2>3
  <2> QED BY <2>3, <2>4
<1>3. N = Nat
  <2> HIDE DEF N
  <2>1. N \in SUBSET Nat
    BY DEF N
  <2> QED BY <1>1, <1>2, <2>1, NatInd
<1>4. \A s \in Seq(D) : Len(s) \in N
  BY <1>3
<1> QED BY <1>4

---------------------------------------------------------------------------
(* Folds.  The steps of a fold are functions, one for each place.          *)

\* f is a fold of n steps, as far as its values are in A.
Within(A, f, n, step) == \A i \in 1..n : f[i - 1] \in A => f[i] = step[i][f[i - 1]]

\* v is the value of a fold of n steps.
Folded(A, v, n, base, step) == \E f : f[0] = base /\ Within(A, f, n, step) /\ v = f[n]

\* f folds n places, one by one.
Steps(f, n, base, step) == f[0] = base /\ \A i \in 1..n : f[i] = step[i][f[i - 1]]

\* Steps can be taken one after the other.
LEMMA CanBeFolded ==
  ASSUME NEW A, NEW n \in Nat, NEW base \in A, NEW step \in [1..n -> [A -> A]]
  PROVE  \E f \in [0..n -> A] : Steps(f, n, base, step)
<1> DEFINE Is(f, m) == Steps(f, m, base, step)
           Can(m) == \E f \in [0..m -> A] : Is(f, m)
           S == {m \in Nat : m <= n => Can(m)}
<1>1. 0 \in S
  <2> DEFINE f == [i \in 0..0 |-> base]
  <2>1. f \in [0..0 -> A] /\ Is(f, 0)
    BY DEF Steps
  <2> HIDE DEF Is, f
  <2> QED BY <2>1
<1>2. ASSUME NEW m \in S PROVE m + 1 \in S
  <2> SUFFICES ASSUME m + 1 <= n PROVE Can(m + 1)
    <3> HIDE DEF Can
    <3> QED OBVIOUS
  <2>0. Can(m) /\ m \in Nat
    <3> HIDE DEF Can
    <3> QED OBVIOUS
  <2>1. PICK f \in [0..m -> A] : Is(f, m)
    BY <2>0
  <2> DEFINE g == [i \in 0..(m + 1) |-> IF i <= m THEN f[i] ELSE step[i][f[m]]]
  <2>2. f[m] \in A /\ step[m + 1][f[m]] \in A
    BY <2>0
  <2>3. g \in [0..(m + 1) -> A]
    BY <2>0, <2>2
  <2>4. ASSUME NEW i \in 1..(m + 1) PROVE g[i] = step[i][g[i - 1]]
    BY <2>0, <2>1 DEF Steps
  <2>5. Is(g, m + 1)
    BY <2>0, <2>1, <2>4 DEF Steps
  <2> HIDE DEF Is, g
  <2> QED BY <2>3, <2>5
<1>3. S = Nat
  <2> HIDE DEF S
  <2>1. S \in SUBSET Nat
    BY DEF S
  <2> QED BY <1>1, <1>2, <2>1, NatInd
<1>4. n \in S /\ n <= n
  BY <1>3
<1>5. Can(n)
  <2> HIDE DEF Can
  <2> QED BY <1>4
<1> QED BY <1>5

\* The same steps from the same base have the same value.
LEMMA SameFold ==
  ASSUME NEW A, NEW n \in Nat, NEW base \in A, NEW step \in [1..n -> [A -> A]],
         NEW f, NEW g, f[0] = base, g[0] = base, Within(A, f, n, step), Within(A, g, n, step)
  PROVE  f[n] \in A /\ f[n] = g[n]
<1> DEFINE S == {m \in Nat : m <= n => f[m] \in A /\ f[m] = g[m]}
<1>1. 0 \in S
  OBVIOUS
<1>2. ASSUME NEW m \in S PROVE m + 1 \in S
  <2> SUFFICES ASSUME m + 1 <= n PROVE f[m + 1] \in A /\ f[m + 1] = g[m + 1]
    OBVIOUS
  <2>1. m + 1 \in 1..n /\ (m + 1) - 1 = m /\ f[m] \in A /\ f[m] = g[m]
    OBVIOUS
  <2>2. f[m + 1] = step[m + 1][f[m]] /\ g[m + 1] = step[m + 1][g[m]]
    BY <2>1 DEF Within
  <2> QED BY <2>1, <2>2
<1>3. S = Nat
  <2> HIDE DEF S
  <2>1. S \in SUBSET Nat
    BY DEF S
  <2> QED BY <1>1, <1>2, <2>1, NatInd
<1>4. n \in S /\ n <= n
  BY <1>3
<1> QED BY <1>4

\* The value of a fold, and of one that goes a step further.
LEMMA FoldSteps ==
  ASSUME NEW A, NEW n \in Nat, NEW base \in A, NEW step \in [1..n -> [A -> A]],
         NEW v, Folded(A, v, n, base, step)
  PROVE  v \in A /\ (n = 0 => v = base)
BY SameFold DEF Folded

\* The longer list of steps begins with the shorter one.
Further(step, more, n) == \A i \in 1..n : more[i] = step[i]

\* One more step is taken from where the others led.
LEMMA FoldNext ==
  ASSUME NEW A, NEW n \in Nat, NEW base \in A,
         NEW step \in [1..n -> [A -> A]], NEW v, Folded(A, v, n, base, step),
         NEW more \in [1..(n + 1) -> [A -> A]], NEW w, Folded(A, w, n + 1, base, more),
         Further(step, more, n)
  PROVE  w = more[n + 1][v]
<1>1. PICK f : f[0] = base /\ Within(A, f, n, step) /\ v = f[n]
  BY DEF Folded
<1>2. v \in A
  BY FoldSteps
<1>3. PICK g : g[0] = base /\ Within(A, g, n + 1, more) /\ w = g[n + 1]
  BY DEF Folded
<1>4. Within(A, g, n, step)
  BY <1>3 DEF Within, Further
<1>5. g[n] = v
  BY <1>1, <1>3, <1>4, SameFold, SMTT(30)
<1>6. n + 1 \in 1..(n + 1) /\ (n + 1) - 1 = n
  OBVIOUS
<1> QED BY <1>2, <1>3, <1>5, <1>6 DEF Within

\* A set of places that is not empty has a last one, and Max is it.
LEMMA LastOfSome ==
  ASSUME NEW n \in Nat, NEW T \in SUBSET (1..n), T # {}
  PROVE  Max(T) \in T /\ \A i \in T : i <= Max(T)
<1> DEFINE S == {m \in Nat : \A U \in SUBSET (1..m) : U # {} => \E x \in U : \A y \in U : x >= y}
<1>1. 0 \in S
  <2>1. 1..0 = {}
    OBVIOUS
  <2> QED BY <2>1
<1>2. ASSUME NEW m \in S PROVE m + 1 \in S
  <2> SUFFICES ASSUME NEW U \in SUBSET (1..(m + 1)), U # {} PROVE \E x \in U : \A y \in U : x >= y
    OBVIOUS
  <2>1. CASE m + 1 \in U
    BY <2>1
  <2>2. CASE m + 1 \notin U
    <3>1. U \in SUBSET (1..m)
      BY <2>2
    <3> QED BY <3>1
  <2> QED BY <2>1, <2>2
<1>3. n \in S
  <2>1. S = Nat
    <3> HIDE DEF S
    <3>1. S \in SUBSET Nat
      BY DEF S
    <3> QED BY <1>1, <1>2, <3>1, NatInd
  <2> QED BY <2>1
<1>4. PICK x \in T : \A y \in T : x >= y
  BY <1>3
<1>5. Max(T) \in T /\ \A y \in T : Max(T) >= y
  BY <1>4 DEF Max
<1> QED BY <1>5

\* The last of the first places, and what is before it.
LEMMA LastOfFirst ==
  ASSUME NEW n \in Nat, NEW i \in 1..n
  PROVE  /\ 1..i \in SUBSET (1..n) /\ 1..i # {}
         /\ Max(1..i) = i /\ (1..i) \ {i} = 1..(i - 1)
<1>1. 1..i \in SUBSET (1..i) /\ 1..i # {} /\ i \in Nat /\ 1..i \in SUBSET (1..n)
  OBVIOUS
<1> DEFINE T == 1..i
<1>2. Max(T) \in T /\ \A j \in T : j <= Max(T)
  <2> HIDE DEF T
  <2> QED BY <1>1, LastOfSome DEF T
<1>3. Max(1..i) = i
  BY <1>2
<1>4. (1..i) \ {i} = 1..(i - 1)
  OBVIOUS
<1> QED BY <1>1, <1>3, <1>4

\* FoldLeft is defined over sets of places: g folds each, its last place at last.
OverSets(g, n, base, step) ==
  /\ g[{}] = base
  /\ \A T \in SUBSET (1..n) : T # {} => g[T] = step[Max(T)][g[T \ {Max(T)}]]

\* Each set of places is folded from the set without its greatest.
WithinSets(A, g, n, step) ==
  \A T \in SUBSET (1..n) :
    (T # {} /\ g[T \ {Max(T)}] \in A) => g[T] = step[Max(T)][g[T \ {Max(T)}]]

\* The fold over sets of places, the library's way of folding a sequence, exists.
LEMMA SetsCanBeFolded ==
  ASSUME NEW A, NEW n \in Nat, NEW base \in A, NEW step \in [1..n -> [A -> A]]
  PROVE  \E g \in [SUBSET (1..n) -> A] : OverSets(g, n, base, step)
<1> DEFINE Can(m) == \E g \in [SUBSET (1..m) -> A] : OverSets(g, m, base, step)
           S == {m \in Nat : m <= n => Can(m)}
<1>1. 0 \in S
  <2> DEFINE g == [T \in SUBSET (1..0) |-> base]
  <2>1. g \in [SUBSET (1..0) -> A]
    OBVIOUS
  <2>2. OverSets(g, 0, base, step)
    <3>1. 1..0 = {}
      OBVIOUS
    <3>2. \A T \in SUBSET (1..0) : T = {}
      BY <3>1
    <3> QED BY <3>2 DEF OverSets
  <2> HIDE DEF g
  <2>3. Can(0)
    BY <2>1, <2>2
  <2> HIDE DEF Can
  <2> QED BY <2>3
<1>2. ASSUME NEW m \in S PROVE m + 1 \in S
  <2> SUFFICES ASSUME m + 1 <= n PROVE Can(m + 1)
    <3> HIDE DEF Can
    <3> QED OBVIOUS
  <2>0. Can(m) /\ m \in Nat /\ m + 1 \in Nat
    <3> HIDE DEF Can
    <3> QED OBVIOUS
  <2>1. PICK g \in [SUBSET (1..m) -> A] : OverSets(g, m, base, step)
    BY <2>0
  <2> DEFINE h == [T \in SUBSET (1..(m + 1)) |->
                     IF m + 1 \in T THEN step[m + 1][g[T \ {m + 1}]] ELSE g[T]]
  <2>3. ASSUME NEW T \in SUBSET (1..(m + 1)) PROVE T \ {m + 1} \in SUBSET (1..m)
    BY <2>0
  <2>4. h \in [SUBSET (1..(m + 1)) -> A]
    <3> SUFFICES ASSUME NEW T \in SUBSET (1..(m + 1))
                 PROVE  (IF m + 1 \in T THEN step[m + 1][g[T \ {m + 1}]] ELSE g[T]) \in A
      OBVIOUS
    <3>1. CASE m + 1 \in T
      <4>1. m + 1 \in 1..n /\ g[T \ {m + 1}] \in A
        BY <2>0, <2>3
      <4> QED BY <3>1, <4>1
    <3>2. CASE m + 1 \notin T
      <4>1. T \in SUBSET (1..m)
        BY <3>2, <2>3
      <4> QED BY <4>1, <3>2
    <3> QED BY <3>1, <3>2
  <2>5. ASSUME NEW T \in SUBSET (1..(m + 1)), T # {}
        PROVE  h[T] = step[Max(T)][h[T \ {Max(T)}]]
    <3>1. Max(T) \in T /\ \A i \in T : i <= Max(T)
      <4> DEFINE k == m + 1
      <4> k \in Nat /\ T \in SUBSET (1..k)
        BY <2>0
      <4> HIDE DEF k
      <4> QED BY <2>5, LastOfSome
    <3>2. CASE m + 1 \in T
      <4>1. Max(T) = m + 1
        <5> HIDE DEF h
        <5>1. Max(T) \in 1..(m + 1) /\ m + 1 <= Max(T)
          BY <3>1, <3>2
        <5> QED BY <2>0, <5>1
      <4>2. h[T \ {m + 1}] = g[T \ {m + 1}]
        BY <2>3
      <4> QED BY <3>2, <4>1, <4>2
    <3>3. CASE m + 1 \notin T
      <4>1. T \in SUBSET (1..m) /\ T \ {Max(T)} \in SUBSET (1..(m + 1)) /\ m + 1 \notin T \ {Max(T)}
        BY <2>3, <3>3
      <4>2. h[T] = g[T] /\ h[T \ {Max(T)}] = g[T \ {Max(T)}]
        BY <4>1, <3>3
      <4> QED BY <4>1, <4>2, <2>1, <2>5 DEF OverSets
    <3> QED BY <3>2, <3>3
  <2>6. h[{}] = base
    BY <2>1 DEF OverSets
  <2>7. OverSets(h, m + 1, base, step)
    <3> HIDE DEF h
    <3> QED BY <2>5, <2>6 DEF OverSets
  <2> HIDE DEF h
  <2> QED BY <2>4, <2>7
<1>3. S = Nat
  <2> HIDE DEF S
  <2>1. S \in SUBSET Nat
    BY DEF S
  <2> QED BY <1>1, <1>2, <2>1, NatInd
<1>4. n \in S /\ n <= n
  <2> HIDE DEF S
  <2> QED BY <1>3
<1>5. Can(n)
  <2> HIDE DEF Can
  <2> QED BY <1>4
<1> QED BY <1>5

\* What is folded over the sets of places is what the steps lead to.
LEMMA SetsAreFolded ==
  ASSUME NEW A, NEW n \in Nat, NEW base \in A, NEW step \in [1..n -> [A -> A]], NEW g,
         g[{}] = base, WithinSets(A, g, n, step)
  PROVE  Folded(A, g[1..n], n, base, step)
<1> DEFINE f == [i \in 0..n |-> g[1..i]]
<1>1. f[0] = base
  <2>1. 1..0 = {}
    OBVIOUS
  <2> QED BY <2>1
<1>2. ASSUME NEW i \in 1..n, f[i - 1] \in A PROVE f[i] = step[i][f[i - 1]]
  <2>1. i \in 0..n /\ i - 1 \in 0..n
    OBVIOUS
  <2>2. f[i] = g[1..i] /\ f[i - 1] = g[1..(i - 1)]
    BY <2>1
  <2> DEFINE T == 1..i
  <2>3. T \in SUBSET (1..n) /\ T # {} /\ Max(T) = i /\ T \ {i} = 1..(i - 1)
    BY LastOfFirst
  <2> HIDE DEF f, T
  <2>4. g[T \ {Max(T)}] \in A /\ f[i] = g[T]
    BY <1>2, <2>2, <2>3 DEF T
  <2>5. g[T] = step[Max(T)][g[T \ {Max(T)}]]
    BY <2>3, <2>4 DEF WithinSets
  <2> QED BY <2>2, <2>3, <2>4, <2>5
<1>3. f[n] = g[1..n]
  OBVIOUS
<1> HIDE DEF f
<1> QED BY <1>1, <1>2, <1>3 DEF Folded, Within

---------------------------------------------------------------------------
(* Sequences.                                                              *)

\* The elements at some places: there are none in nothing, and one more place adds
\* its element at the end or nothing.
LEMMA AtSteps ==
  ASSUME NEW D, NEW P
  PROVE  /\ At(<<>>, P) = <<>>
         /\ \A s \in Seq(D) : At(s, P) \in Seq(D)
         /\ \A s \in Seq(D), x \in D :
              At(Append(s, x), P) = IF Len(s) + 1 \in P THEN Append(At(s, P), x) ELSE At(s, P)
<1> DEFINE A == Seq(D)
           base == <<>>
           step(s) == [i \in 1..Len(s) |-> [k \in A |-> IF i \in P THEN Append(k, s[i]) ELSE k]]
           Is(f, s) == f = [n \in 0..Len(s) |->
                          IF n = 0 THEN <<>> ELSE IF n \in P THEN Append(f[n - 1], s[n]) ELSE f[n - 1]]
           kept(s) == CHOOSE f : Is(f, s)
<1>1. ASSUME NEW s \in Seq(D) PROVE step(s) \in [1..Len(s) -> [A -> A]]
  OBVIOUS
<1>2. ASSUME NEW s \in Seq(D) PROVE Folded(A, At(s, P), Len(s), base, step(s))
  <2> DEFINE n == Len(s)
  <2>1. n \in Nat /\ base \in A
    OBVIOUS
  <2>2. PICK f \in [0..n -> A] : Steps(f, n, base, step(s))
    <3>1. step(s) \in [1..n -> [A -> A]]
      BY <1>1
    <3> HIDE DEF step, n, A, base
    <3> QED BY <2>1, <3>1, CanBeFolded
  <2>3. ASSUME NEW i \in 0..n
        PROVE  f[i] = IF i = 0 THEN <<>> ELSE IF i \in P THEN Append(f[i - 1], s[i]) ELSE f[i - 1]
    <3>1. CASE i = 0
      BY <2>2, <3>1 DEF Steps
    <3>2. CASE i # 0
      <4>1. i \in 1..n /\ i - 1 \in 0..n
        BY <2>1, <3>2
      <4>2. f[i - 1] \in A
        BY <4>1
      <4> QED BY <2>2, <3>2, <4>1, <4>2 DEF Steps
    <3> QED BY <3>1, <3>2
  <2>4. Is(f, s)
    <3> HIDE DEF A
    <3> QED BY <2>3
  <2>5. Is(kept(s), s)
    BY <2>4
  <2> DEFINE g == kept(s)
  <2>6. g[0] = base /\ \A i \in 1..n : g[i] = IF i \in P THEN Append(g[i - 1], s[i]) ELSE g[i - 1]
    <3> HIDE DEF g
    <3>1. Is(g, s)
      BY <2>5 DEF g
    <3>2. 0 \in 0..n /\ \A i \in 1..n : i \in 0..n /\ i # 0
      BY <2>1
    <3>3. \A i \in 0..n :
            g[i] = IF i = 0 THEN <<>> ELSE IF i \in P THEN Append(g[i - 1], s[i]) ELSE g[i - 1]
      BY <3>1
    <3> HIDE DEF n, Is, A
    <3> QED BY <3>2, <3>3
  <2>7. At(s, P) = g[n]
    BY DEF At
  <2> HIDE DEF g
  <2>8. Within(A, g, n, step(s))
    BY <2>6 DEF Within
  <2> QED BY <2>6, <2>7, <2>8 DEF Folded
<1>3. ASSUME NEW s \in Seq(D) PROVE At(s, P) \in A
  <2>1. Len(s) \in Nat /\ base \in A
    OBVIOUS
  <2> HIDE DEF A, base, step
  <2> QED BY <1>1, <1>2, <2>1, FoldSteps
<1>4. At(<<>>, P) = <<>>
  <2> DEFINE none == <<>>
  <2>1. none \in Seq(D) /\ Len(none) = 0 /\ base \in A
    OBVIOUS
  <2>2. At(none, P) = base
    <3> DEFINE n == Len(none)
    <3>1. n \in Nat /\ n = 0
      BY <2>1
    <3>2. step(none) \in [1..n -> [A -> A]] /\ Folded(A, At(none, P), n, base, step(none))
      <4> HIDE DEF A, base, step, none
      <4> QED BY <1>1, <1>2, <2>1
    <3> HIDE DEF A, base, step, none, n
    <3> QED BY <2>1, <3>1, <3>2, FoldSteps
  <2> QED BY <2>2
<1>5. ASSUME NEW s \in Seq(D), NEW x \in D
      PROVE  At(Append(s, x), P) = IF Len(s) + 1 \in P THEN Append(At(s, P), x) ELSE At(s, P)
  <2> DEFINE t == Append(s, x)
             n == Len(s)
  <2>1. t \in Seq(D) /\ Len(t) = n + 1 /\ n \in Nat /\ t[n + 1] = x /\ base \in A
    OBVIOUS
  <2>2. \A i \in 1..n : step(t)[i] = step(s)[i]
    <3> TAKE i \in 1..n
    <3>1. i \in 1..Len(t) /\ t[i] = s[i]
      OBVIOUS
    <3> HIDE DEF t
    <3> QED BY <3>1
  <2>3. At(t, P) = step(t)[n + 1][At(s, P)]
    <3>1. step(s) \in [1..n -> [A -> A]] /\ Folded(A, At(s, P), n, base, step(s))
      BY <1>1, <1>2
    <3>2. step(t) \in [1..(n + 1) -> [A -> A]] /\ Folded(A, At(t, P), n + 1, base, step(t))
      <4> HIDE DEF t, step
      <4> QED BY <1>1, <1>2, <2>1
    <3> HIDE DEF A, base, step, n, t
    <3>3. Further(step(s), step(t), n)
      BY <2>2 DEF Further
    <3> QED BY <2>1, <3>1, <3>2, <3>3, FoldNext
  <2>4. step(t)[n + 1][At(s, P)] = IF n + 1 \in P THEN Append(At(s, P), x) ELSE At(s, P)
    <3>1. n + 1 \in 1..Len(t) /\ At(s, P) \in A
      BY <1>3, <2>1
    <3> HIDE DEF t
    <3> QED BY <2>1, <3>1
  <2> QED BY <2>3, <2>4
<1> QED BY <1>3, <1>4, <1>5

\* Of no elements none is kept.
LEMMA AtNone ==
  ASSUME NEW P
  PROVE  At(<<>>, P) = <<>>
<1> DEFINE D == {}
<1> HIDE DEF D
<1> QED BY AtSteps

\* What is kept are elements of the same set.
LEMMA AtType ==
  ASSUME NEW D, NEW P, NEW s \in Seq(D)
  PROVE  At(s, P) \in Seq(D)
BY AtSteps

\* An element more is kept or not by its place.
LEMMA AtAppend ==
  ASSUME NEW D, NEW P, NEW s \in Seq(D), NEW x \in D
  PROVE  At(Append(s, x), P) = IF Len(s) + 1 \in P THEN Append(At(s, P), x) ELSE At(s, P)
<1>1. \A t \in Seq(D), y \in D :
        At(Append(t, y), P) = IF Len(t) + 1 \in P THEN Append(At(t, P), y) ELSE At(t, P)
  BY AtSteps, ZenonT(60)
<1> QED BY <1>1

\* Sequences that end: places and elements of s with one more.
LEMMA AppendAt ==
  ASSUME NEW D, NEW s \in Seq(D), NEW x \in D
  PROVE  /\ Append(s, x) \in Seq(D) /\ Len(s) \in Nat
         /\ DOMAIN s = 1..Len(s) /\ DOMAIN Append(s, x) = 1..(Len(s) + 1)
         /\ Len(Append(s, x)) = Len(s) + 1
         /\ \A i \in DOMAIN s : i \in DOMAIN Append(s, x) /\ Append(s, x)[i] = s[i]
         /\ Len(s) + 1 \in DOMAIN Append(s, x) /\ Append(s, x)[Len(s) + 1] = x
         /\ Len(s) + 1 \notin DOMAIN s
OBVIOUS

\* Append adds one element.
LEMMA AppendSet ==
  ASSUME NEW D, NEW s \in Seq(D), NEW x \in D
  PROVE  ToSet(Append(s, x)) = ToSet(s) \cup {x}
<1> DEFINE t == Append(s, x)
<1>1. /\ Len(s) \in Nat /\ DOMAIN s = 1..Len(s) /\ DOMAIN t = 1..(Len(s) + 1)
      /\ t[Len(s) + 1] = x /\ \A i \in 1..Len(s) : t[i] = s[i]
  BY AppendAt
<1> HIDE DEF t
<1>2. ToSet(t) = ToSet(s) \cup {x}
  BY <1>1 DEF ToSet
<1> QED BY <1>2 DEF t

\* Two selections at places that are the same in the sequence.
LEMMA AtOf ==
  ASSUME NEW D, NEW s \in Seq(D), NEW P, NEW Q, \A i \in DOMAIN s : i \in P <=> i \in Q
  PROVE  At(s, P) = At(s, Q)
<1> DEFINE S == {t \in Seq(D) : (\A i \in DOMAIN t : i \in P <=> i \in Q) => At(t, P) = At(t, Q)}
<1>1. <<>> \in S
  BY AtNone
<1>2. ASSUME NEW t \in S, NEW x \in D PROVE Append(t, x) \in S
  <2>1. t \in Seq(D) /\ Append(t, x) \in Seq(D)
    OBVIOUS
  <2> SUFFICES ASSUME \A i \in DOMAIN Append(t, x) : i \in P <=> i \in Q
               PROVE  At(Append(t, x), P) = At(Append(t, x), Q)
    BY <2>1
  <2>2. (\A i \in DOMAIN t : i \in P <=> i \in Q) /\ (Len(t) + 1 \in P <=> Len(t) + 1 \in Q)
    BY <2>1, AppendAt
  <2>3. At(t, P) = At(t, Q)
    BY <2>2
  <2>4. /\ At(Append(t, x), P) = IF Len(t) + 1 \in P THEN Append(At(t, P), x) ELSE At(t, P)
        /\ At(Append(t, x), Q) = IF Len(t) + 1 \in Q THEN Append(At(t, Q), x) ELSE At(t, Q)
    <3> HIDE DEF S
    <3> QED BY <2>1, AtAppend
  <2> HIDE DEF S
  <2> QED BY <2>2, <2>3, <2>4
<1>3. S = Seq(D)
  <2> HIDE DEF S
  <2>1. S \in SUBSET Seq(D)
    BY DEF S
  <2> QED BY <1>1, <1>2, <2>1, SeqInd
<1> QED BY <1>3

(***************************************************************************)
(* The elements of s that are in S, in their order: what a selection by a  *)
(* test on the elements is.                                                *)
(***************************************************************************)
Only(s, S) == At(s, {i \in DOMAIN s : s[i] \in S})

\* Of no elements none is selected.
LEMMA OnlyNone ==
  ASSUME NEW S
  PROVE  Only(<<>>, S) = <<>>
BY AtNone DEF Only

\* What is selected are elements of the same set.
LEMMA OnlyType ==
  ASSUME NEW D, NEW s \in Seq(D), NEW S
  PROVE  Only(s, S) \in Seq(D)
BY AtType DEF Only

\* An element more is selected or not.
LEMMA OnlyAppend ==
  ASSUME NEW D, NEW s \in Seq(D), NEW x \in D, NEW S
  PROVE  Only(Append(s, x), S) = IF x \in S THEN Append(Only(s, S), x) ELSE Only(s, S)
<1> DEFINE t == Append(s, x)
           P == {i \in DOMAIN t : t[i] \in S}
           Q == {i \in DOMAIN s : s[i] \in S}
<1>1. /\ Len(s) \in Nat /\ DOMAIN s = 1..Len(s) /\ DOMAIN t = 1..(Len(s) + 1)
      /\ t[Len(s) + 1] = x /\ \A i \in DOMAIN s : t[i] = s[i]
  BY AppendAt
<1>2. Len(s) + 1 \in P <=> x \in S
  <2> HIDE DEF t
  <2> QED BY <1>1
<1>3. \A i \in DOMAIN s : i \in P <=> i \in Q
  <2> HIDE DEF t
  <2> QED BY <1>1
<1>4. Only(t, S) = At(t, P) /\ Only(s, S) = At(s, Q)
  BY DEF Only
<1> HIDE DEF P, Q
<1>5. At(s, P) = At(s, Q)
  BY <1>3, AtOf
<1>6. At(Append(s, x), P) = IF Len(s) + 1 \in P THEN Append(At(s, P), x) ELSE At(s, P)
  BY AtAppend
<1> QED BY <1>2, <1>4, <1>5, <1>6

\* A selection by any test that agrees on the elements is the same.
LEMMA OnlyIs ==
  ASSUME NEW D, NEW s \in Seq(D), NEW S, NEW P, \A i \in DOMAIN s : i \in P <=> s[i] \in S
  PROVE  At(s, P) = Only(s, S)
<1> DEFINE Q == {i \in DOMAIN s : s[i] \in S}
<1>1. \A i \in DOMAIN s : i \in P <=> i \in Q
  OBVIOUS
<1>2. Only(s, S) = At(s, Q)
  BY DEF Only
<1> HIDE DEF Q
<1> QED BY <1>1, <1>2, AtOf

\* What is selected: the elements of s in S and no others.
LEMMA OnlySet ==
  ASSUME NEW D, NEW s \in Seq(D), NEW S
  PROVE  ToSet(Only(s, S)) = ToSet(s) \cap S
<1> DEFINE T == {t \in Seq(D) : ToSet(Only(t, S)) = ToSet(t) \cap S}
<1>1. <<>> \in T
  BY OnlyNone DEF ToSet
<1>2. ASSUME NEW t \in T, NEW x \in D PROVE Append(t, x) \in T
  <2>1. t \in Seq(D) /\ Append(t, x) \in Seq(D) /\ ToSet(Only(t, S)) = ToSet(t) \cap S
    OBVIOUS
  <2> HIDE DEF T
  <2>2. Only(t, S) \in Seq(D)
    BY <2>1, OnlyType
  <2>3. ToSet(Append(t, x)) = ToSet(t) \cup {x} /\ ToSet(Append(Only(t, S), x)) = ToSet(Only(t, S)) \cup {x}
    BY <2>1, <2>2, AppendSet
  <2>4. Only(Append(t, x), S) = IF x \in S THEN Append(Only(t, S), x) ELSE Only(t, S)
    BY <2>1, OnlyAppend
  <2>5. ToSet(Only(Append(t, x), S)) = ToSet(Append(t, x)) \cap S
    <3>1. CASE x \in S
      BY <2>1, <2>3, <2>4, <3>1
    <3>2. CASE x \notin S
      BY <2>1, <2>3, <2>4, <3>2
    <3> QED BY <3>1, <3>2
  <2> QED BY <2>1, <2>5 DEF T
<1>3. T = Seq(D)
  <2> HIDE DEF T
  <2>1. T \in SUBSET Seq(D)
    BY DEF T
  <2> QED BY <1>1, <1>2, <2>1, SeqInd
<1> QED BY <1>3

---------------------------------------------------------------------------
(* Concatenations, maps and what is selected from them.                    *)

\* Concatenation with an element more.
LEMMA ConcatAppend ==
  ASSUME NEW D, NEW s \in Seq(D), NEW t \in Seq(D), NEW x \in D
  PROVE  /\ s \o Append(t, x) = Append(s \o t, x)
         /\ s \o t \in Seq(D) /\ s \o <<>> = s /\ <<>> \o s = s
         /\ Append(s, x) = s \o <<x>>
OBVIOUS

\* Concatenation with nothing.
LEMMA ConcatNone ==
  ASSUME NEW D, NEW s \in Seq(D)
  PROVE  s \o <<>> = s /\ <<>> \o s = s
OBVIOUS

\* A concatenation is a sequence of the same set, as long as its parts.
LEMMA ConcatType ==
  ASSUME NEW D, NEW s \in Seq(D), NEW t \in Seq(D)
  PROVE  s \o t \in Seq(D) /\ Len(s \o t) = Len(s) + Len(t) /\ Len(s) \in Nat /\ Len(t) \in Nat
OBVIOUS

\* Concatenation is associative.
LEMMA ConcatConcat ==
  ASSUME NEW D, NEW s \in Seq(D), NEW t \in Seq(D), NEW u \in Seq(D)
  PROVE  (s \o t) \o u = s \o (t \o u)
OBVIOUS

\* A concatenation has the elements of both.
LEMMA ConcatSet ==
  ASSUME NEW D, NEW s \in Seq(D), NEW t \in Seq(D)
  PROVE  ToSet(s \o t) = ToSet(s) \cup ToSet(t)
<1> DEFINE S == {u \in Seq(D) : ToSet(s \o u) = ToSet(s) \cup ToSet(u)}
<1>0. \A u \in Seq(D), x \in D : ToSet(Append(u, x)) = ToSet(u) \cup {x}
  BY AppendSet
<1>1. <<>> \in S
  BY ConcatNone DEF ToSet
<1>2. ASSUME NEW u \in S, NEW x \in D PROVE Append(u, x) \in S
  <2>1. u \in Seq(D) /\ Append(u, x) \in Seq(D) /\ ToSet(s \o u) = ToSet(s) \cup ToSet(u)
    OBVIOUS
  <2> HIDE DEF S
  <2>2. s \o Append(u, x) = Append(s \o u, x) /\ s \o u \in Seq(D)
    BY <2>1, ConcatAppend
  <2>3. ToSet(Append(s \o u, x)) = ToSet(s \o u) \cup {x} /\ ToSet(Append(u, x)) = ToSet(u) \cup {x}
    BY <1>0, <2>1, <2>2
  <2>4. ToSet(s \o Append(u, x)) = ToSet(s) \cup ToSet(Append(u, x))
    BY <2>1, <2>2, <2>3
  <2> QED BY <2>1, <2>4 DEF S
<1>3. S = Seq(D)
  <2> HIDE DEF S
  <2>1. S \in SUBSET Seq(D)
    BY DEF S
  <2> QED BY <1>1, <1>2, <2>1, SeqInd
<1> QED BY <1>3

\* What is selected of a concatenation is what is selected of its parts.
LEMMA OnlyConcat ==
  ASSUME NEW D, NEW s \in Seq(D), NEW t \in Seq(D), NEW S
  PROVE  Only(s \o t, S) = Only(s, S) \o Only(t, S)
<1> DEFINE T == {u \in Seq(D) : Only(s \o u, S) = Only(s, S) \o Only(u, S)}
<1>0. Only(s, S) \in Seq(D)
  BY OnlyType
<1>a. \A u \in Seq(D), x \in D :
        Only(Append(u, x), S) = IF x \in S THEN Append(Only(u, S), x) ELSE Only(u, S)
  BY OnlyAppend
<1>1. <<>> \in T
  BY <1>0, ConcatNone, OnlyNone
<1>2. ASSUME NEW u \in T, NEW x \in D PROVE Append(u, x) \in T
  <2>1. /\ u \in Seq(D) /\ Append(u, x) \in Seq(D) /\ s \o u \in Seq(D)
        /\ Only(s \o u, S) = Only(s, S) \o Only(u, S)
    OBVIOUS
  <2> HIDE DEF T
  <2>2. Only(u, S) \in Seq(D)
    BY <2>1, OnlyType
  <2>3. s \o Append(u, x) = Append(s \o u, x)
    BY <2>1, ConcatAppend
  <2>4. /\ Only(Append(s \o u, x), S) = IF x \in S THEN Append(Only(s \o u, S), x) ELSE Only(s \o u, S)
        /\ Only(Append(u, x), S) = IF x \in S THEN Append(Only(u, S), x) ELSE Only(u, S)
    BY <2>1, <1>a
  <2>5. Only(s, S) \o Append(Only(u, S), x) = Append(Only(s, S) \o Only(u, S), x)
    BY <1>0, <2>2, ConcatAppend
  <2>6. Only(s \o Append(u, x), S) = Only(s, S) \o Only(Append(u, x), S)
    BY <2>1, <2>3, <2>4, <2>5
  <2> QED BY <2>1, <2>6 DEF T
<1>3. T = Seq(D)
  <2> HIDE DEF T
  <2>1. T \in SUBSET Seq(D)
    BY DEF T
  <2> QED BY <1>1, <1>2, <2>1, SeqInd
<1> QED BY <1>3

\* Nothing is left out if every element is wanted.
LEMMA OnlyAll ==
  ASSUME NEW D, NEW S, NEW s \in Seq(D), ToSet(s) \subseteq S
  PROVE  Only(s, S) = s
<1> DEFINE T == {t \in Seq(D) : ToSet(t) \subseteq S => Only(t, S) = t}
<1>1. <<>> \in T
  BY OnlyNone
<1>2. ASSUME NEW t \in T, NEW x \in D PROVE Append(t, x) \in T
  <2>1. t \in Seq(D) /\ Append(t, x) \in Seq(D) /\ (ToSet(t) \subseteq S => Only(t, S) = t)
    OBVIOUS
  <2> HIDE DEF T
  <2>2. ToSet(Append(t, x)) = ToSet(t) \cup {x}
    BY <2>1, AppendSet
  <2>3. Only(Append(t, x), S) = IF x \in S THEN Append(Only(t, S), x) ELSE Only(t, S)
    BY <2>1, OnlyAppend
  <2> QED BY <2>1, <2>2, <2>3 DEF T
<1>3. T = Seq(D)
  <2> HIDE DEF T
  <2>1. T \in SUBSET Seq(D)
    BY DEF T
  <2> QED BY <1>1, <1>2, <2>1, SeqInd
<1> QED BY <1>3

\* Only the empty sequence has no elements.
LEMMA SetOfNone ==
  ASSUME NEW D, NEW s \in Seq(D)
  PROVE  ToSet(s) = {} <=> s = <<>>
<1>1. DOMAIN s = 1..Len(s) /\ Len(s) \in Nat /\ (Len(s) = 0 => s = <<>>)
  OBVIOUS
<1>2. CASE s = <<>>
  BY <1>2 DEF ToSet
<1>3. CASE s # <<>>
  <2>1. 1 \in DOMAIN s
    BY <1>1, <1>3
  <2>2. s[1] \in ToSet(s)
    BY <2>1 DEF ToSet
  <2> QED BY <1>3, <2>2
<1> QED BY <1>2, <1>3

\* Nothing is selected exactly if no element is wanted.
LEMMA OnlyNothing ==
  ASSUME NEW D, NEW S, NEW s \in Seq(D)
  PROVE  Only(s, S) = <<>> <=> ToSet(s) \cap S = {}
<1>1. Only(s, S) \in Seq(D) /\ ToSet(Only(s, S)) = ToSet(s) \cap S
  BY OnlyType, OnlySet
<1> QED BY <1>1, SetOfNone

\* Two selections are one.
LEMMA OnlyTwice ==
  ASSUME NEW D, NEW s \in Seq(D), NEW S, NEW R
  PROVE  Only(Only(s, S), R) = Only(s, S \cap R)
<1> DEFINE T == {t \in Seq(D) : Only(Only(t, S), R) = Only(t, S \cap R)}
<1>1. <<>> \in T
  BY OnlyNone
<1>2. ASSUME NEW t \in T, NEW x \in D PROVE Append(t, x) \in T
  <2>1. t \in Seq(D) /\ Append(t, x) \in Seq(D) /\ Only(Only(t, S), R) = Only(t, S \cap R)
    OBVIOUS
  <2> HIDE DEF T
  <2>2. Only(t, S) \in Seq(D)
    BY <2>1, OnlyType
  <2>3. Only(Append(t, x), S) = IF x \in S THEN Append(Only(t, S), x) ELSE Only(t, S)
    BY <2>1, OnlyAppend
  <2>4. Only(Append(t, x), S \cap R) =
          IF x \in S \cap R THEN Append(Only(t, S \cap R), x) ELSE Only(t, S \cap R)
    BY <2>1, OnlyAppend
  <2>5. Only(Append(Only(t, S), x), R) =
          IF x \in R THEN Append(Only(Only(t, S), R), x) ELSE Only(Only(t, S), R)
    BY <2>2, OnlyAppend
  <2>6. Only(Only(Append(t, x), S), R) = Only(Append(t, x), S \cap R)
    <3>1. CASE x \in S /\ x \in R
      BY <2>1, <2>3, <2>4, <2>5, <3>1
    <3>2. CASE x \in S /\ x \notin R
      BY <2>1, <2>3, <2>4, <2>5, <3>2
    <3>3. CASE x \notin S
      BY <2>1, <2>3, <2>4, <2>5, <3>3
    <3> QED BY <3>1, <3>2, <3>3
  <2> QED BY <2>1, <2>6 DEF T
<1>3. T = Seq(D)
  <2> HIDE DEF T
  <2>1. T \in SUBSET Seq(D)
    BY DEF T
  <2> QED BY <1>1, <1>2, <2>1, SeqInd
<1> QED BY <1>3

\* A function applied to each element.
Maps(f, D, E) == f \in [D -> E]
\* A function of the elements, element by element.
Each(f, s) == [i \in DOMAIN s |-> f[s[i]]]

\* What a map over a sequence is, and is at each place.
LEMMA EachType ==
  ASSUME NEW D, NEW E, NEW f, Maps(f, D, E), NEW s \in Seq(D)
  PROVE  /\ Each(f, s) \in Seq(E) /\ Len(Each(f, s)) = Len(s) /\ DOMAIN Each(f, s) = DOMAIN s
         /\ \A i \in DOMAIN s : s[i] \in D /\ Each(f, s)[i] = f[s[i]]
<1>1. DOMAIN s = 1..Len(s) /\ Len(s) \in Nat /\ \A i \in DOMAIN s : s[i] \in D
  OBVIOUS
<1> QED BY <1>1 DEF Each, Maps

\* A map over no elements.
LEMMA EachNone ==
  ASSUME NEW f
  PROVE  Each(f, <<>>) = <<>>
BY DEF Each

\* A map over an element more.
LEMMA EachAppend ==
  ASSUME NEW D, NEW E, NEW f, Maps(f, D, E), NEW s \in Seq(D), NEW x \in D
  PROVE  Each(f, Append(s, x)) = Append(Each(f, s), f[x])
<1> DEFINE t == Append(s, x)
           u == Each(f, s)
<1>1. /\ t \in Seq(D) /\ Len(s) \in Nat /\ Len(t) = Len(s) + 1 /\ DOMAIN t = 1..(Len(s) + 1)
      /\ t[Len(s) + 1] = x /\ \A i \in 1..Len(s) : t[i] = s[i]
  OBVIOUS
<1>0. \A v \in Seq(D) : /\ Each(f, v) \in Seq(E) /\ Len(Each(f, v)) = Len(v)
                         /\ \A i \in DOMAIN v : Each(f, v)[i] = f[v[i]]
  BY EachType
<1>2. u \in Seq(E) /\ Len(u) = Len(s) /\ \A i \in 1..Len(s) : u[i] = f[s[i]]
  BY <1>0
<1>3. f[x] \in E
  BY DEF Maps
<1> HIDE DEF u, t
<1>4. /\ Append(u, f[x]) \in Seq(E) /\ Len(Append(u, f[x])) = Len(s) + 1
      /\ Append(u, f[x])[Len(s) + 1] = f[x] /\ \A i \in 1..Len(s) : Append(u, f[x])[i] = u[i]
  BY <1>1, <1>2, <1>3
<1>5. Each(f, t) = Append(u, f[x])
  <2>1. Each(f, t) \in Seq(E) /\ Len(Each(f, t)) = Len(s) + 1
    BY <1>1, <1>0
  <2>2. ASSUME NEW i \in 1..(Len(s) + 1) PROVE Each(f, t)[i] = Append(u, f[x])[i]
    <3>1. Each(f, t)[i] = f[t[i]]
      BY <1>1, <1>0
    <3>2. i = Len(s) + 1 \/ i \in 1..Len(s)
      BY <1>1
    <3> QED BY <1>1, <1>2, <1>4, <3>1, <3>2
  <2> DEFINE v == Each(f, t)
             w == Append(u, f[x])
  <2> HIDE DEF v, w
  <2> QED BY <1>4, <2>1, <2>2 DEF v, w
<1> QED BY <1>5 DEF t, u

\* A map over a concatenation.
LEMMA EachConcat ==
  ASSUME NEW D, NEW E, NEW f, Maps(f, D, E), NEW s \in Seq(D), NEW t \in Seq(D)
  PROVE  Each(f, s \o t) = Each(f, s) \o Each(f, t)
<1> DEFINE S == {u \in Seq(D) : Each(f, s \o u) = Each(f, s) \o Each(f, u)}
<1>0. Each(f, s) \in Seq(E)
  BY EachType
<1>a. \A u \in Seq(D), x \in D : Each(f, Append(u, x)) = Append(Each(f, u), f[x])
  BY EachAppend
<1>1. <<>> \in S
  BY <1>0, ConcatNone, EachNone
<1>2. ASSUME NEW u \in S, NEW x \in D PROVE Append(u, x) \in S
  <2>1. /\ u \in Seq(D) /\ Append(u, x) \in Seq(D) /\ s \o u \in Seq(D)
        /\ Each(f, s \o u) = Each(f, s) \o Each(f, u) /\ f[x] \in E
    BY DEF Maps
  <2> HIDE DEF S
  <2>2. Each(f, u) \in Seq(E)
    BY <2>1, EachType
  <2>3. s \o Append(u, x) = Append(s \o u, x)
    BY <2>1, ConcatAppend
  <2>4. /\ Each(f, Append(s \o u, x)) = Append(Each(f, s \o u), f[x])
        /\ Each(f, Append(u, x)) = Append(Each(f, u), f[x])
    BY <2>1, <1>a
  <2>5. Each(f, s) \o Append(Each(f, u), f[x]) = Append(Each(f, s) \o Each(f, u), f[x])
    BY <1>0, <2>1, <2>2, ConcatAppend
  <2> QED BY <2>1, <2>3, <2>4, <2>5 DEF S
<1>3. S = Seq(D)
  <2> HIDE DEF S
  <2>1. S \in SUBSET Seq(D)
    BY DEF S
  <2> QED BY <1>1, <1>2, <2>1, SeqInd
<1> QED BY <1>3

\* The elements of a map.
LEMMA EachSet ==
  ASSUME NEW D, NEW E, NEW f, Maps(f, D, E), NEW s \in Seq(D)
  PROVE  ToSet(Each(f, s)) = {f[x] : x \in ToSet(s)}
<1>1. DOMAIN Each(f, s) = DOMAIN s /\ \A i \in DOMAIN s : Each(f, s)[i] = f[s[i]]
  BY EachType
<1> QED BY <1>1 DEF ToSet

\* What is selected of a map is the map of what is selected.
LEMMA OnlyEach ==
  ASSUME NEW D, NEW E, NEW f, Maps(f, D, E), NEW s \in Seq(D), NEW S, NEW R,
         \A x \in D : f[x] \in S <=> x \in R
  PROVE  Only(Each(f, s), S) = Each(f, Only(s, R))
<1> DEFINE T == {t \in Seq(D) : Only(Each(f, t), S) = Each(f, Only(t, R))}
<1>a. \A u \in Seq(D), x \in D : Each(f, Append(u, x)) = Append(Each(f, u), f[x])
  BY EachAppend
<1>b. \A u \in Seq(E), y \in E :
        Only(Append(u, y), S) = IF y \in S THEN Append(Only(u, S), y) ELSE Only(u, S)
  BY OnlyAppend
<1>1. <<>> \in T
  BY EachNone, OnlyNone
<1>2. ASSUME NEW t \in T, NEW x \in D PROVE Append(t, x) \in T
  <2>1. /\ t \in Seq(D) /\ Append(t, x) \in Seq(D) /\ f[x] \in E
        /\ Only(Each(f, t), S) = Each(f, Only(t, R))
    BY DEF Maps
  <2> HIDE DEF T
  <2>2. Only(t, R) \in Seq(D) /\ Each(f, t) \in Seq(E)
    BY <2>1, OnlyType, EachType
  <2>3. /\ Each(f, Append(t, x)) = Append(Each(f, t), f[x])
        /\ Each(f, Append(Only(t, R), x)) = Append(Each(f, Only(t, R)), f[x])
    BY <1>a, <2>1, <2>2
  <2>4. Only(Append(t, x), R) = IF x \in R THEN Append(Only(t, R), x) ELSE Only(t, R)
    BY <2>1, OnlyAppend
  <2>5. Only(Append(Each(f, t), f[x]), S) =
          IF f[x] \in S THEN Append(Only(Each(f, t), S), f[x]) ELSE Only(Each(f, t), S)
    BY <1>b, <2>1, <2>2
  <2>6. Only(Each(f, Append(t, x)), S) = Each(f, Only(Append(t, x), R))
    BY <2>1, <2>3, <2>4, <2>5
  <2> QED BY <2>1, <2>6 DEF T
<1>3. T = Seq(D)
  <2> HIDE DEF T
  <2>1. T \in SUBSET Seq(D)
    BY DEF T
  <2> QED BY <1>1, <1>2, <2>1, SeqInd
<1> QED BY <1>3

---------------------------------------------------------------------------
(* Sequences of sequences, one behind the other.                           *)

\* No sequences make none.
LEMMA FlattenNone == FlattenSeq(<<>>) = <<>>
BY DEF FlattenSeq

\* The steps of FlattenSeq, as a fold.
LEMMA FlattenFolds ==
  ASSUME NEW D, NEW ss \in Seq(Seq(D))
  PROVE  Folded(Seq(D), FlattenSeq(ss), Len(ss), <<>>, [i \in 1..Len(ss) |-> [k \in Seq(D) |-> k \o ss[i]]])
<1> DEFINE A == Seq(D)
           n == Len(ss)
           base == <<>>
           step == [i \in 1..n |-> [k \in A |-> k \o ss[i]]]
           Is(f) == f = [i \in 1..n |-> IF i = 1 THEN ss[i] ELSE f[i - 1] \o ss[i]]
           flatten == CHOOSE f : Is(f)
<1>1. n \in Nat /\ base \in A /\ \A i \in 1..n : ss[i] \in A
  OBVIOUS
<1>2. step \in [1..n -> [A -> A]]
  <2> HIDE DEF n
  <2> QED BY <1>1
<1>3. CASE n = 0
  <2>1. FlattenSeq(ss) = base
    BY <1>3 DEF FlattenSeq
  <2> DEFINE f == [i \in 0..0 |-> base]
  <2>2. f[0] = base /\ f[n] = base /\ Within(A, f, n, step)
    BY <1>3 DEF Within
  <2> HIDE DEF f, n, step, A, base
  <2>3. Folded(A, FlattenSeq(ss), n, base, step)
    BY <2>1, <2>2 DEF Folded
  <2> QED BY <2>3 DEF A, n, step, base
<1>4. CASE n # 0
  <2>1. FlattenSeq(ss) = flatten[n]
    BY <1>4 DEF FlattenSeq
  <2>2. PICK g \in [0..n -> A] : Steps(g, n, base, step)
    <3> HIDE DEF step, n, A, base
    <3> QED BY <1>1, <1>2, CanBeFolded
  <2>3. \A i \in 1..n : g[i] = IF i = 1 THEN ss[i] ELSE g[i - 1] \o ss[i]
    <3> TAKE i \in 1..n
    <3>1. i - 1 \in 0..n /\ g[i - 1] \in A /\ ss[i] \in A
      <4> HIDE DEF n, A
      <4> QED BY <1>1
    <3>2. g[i] = g[i - 1] \o ss[i] /\ g[0] = <<>>
      <4> HIDE DEF n
      <4> QED BY <2>2, <3>1 DEF Steps
    <3>3. <<>> \o ss[i] = ss[i]
      BY <3>1
    <3>4. CASE i = 1
      <4>1. i - 1 = 0
        BY <3>4
      <4> QED BY <3>2, <3>3, <3>4, <4>1
    <3> QED BY <3>2, <3>4
  <2>4. Is([i \in 1..n |-> g[i]])
    <3> DEFINE h == [i \in 1..n |-> g[i]]
    <3>1. \A i \in 1..n : h[i] = IF i = 1 THEN ss[i] ELSE h[i - 1] \o ss[i]
      <4> TAKE i \in 1..n
      <4>1. i # 1 => i - 1 \in 1..n
        BY <1>1
      <4> QED BY <2>3, <4>1
    <3> QED BY <3>1
  <2>5. Is(flatten)
    BY <2>4
  <2> DEFINE f == [i \in 0..n |-> IF i = 0 THEN base ELSE flatten[i]]
  <2>6. Within(A, f, n, step)
    <3>1. \A i \in 1..n : flatten[i] = IF i = 1 THEN ss[i] ELSE flatten[i - 1] \o ss[i]
      <4> DEFINE h == flatten
      <4>1. Is(h)
        BY <2>5
      <4> HIDE DEF h
      <4>2. \A i \in 1..n : h[i] = IF i = 1 THEN ss[i] ELSE h[i - 1] \o ss[i]
        BY <4>1
      <4> QED BY <4>2 DEF h
    <3> SUFFICES ASSUME NEW i \in 1..n, f[i - 1] \in A PROVE f[i] = step[i][f[i - 1]]
      BY DEF Within
    <3> HIDE DEF flatten
    <3>2. step[i][f[i - 1]] = f[i - 1] \o ss[i] /\ ss[i] \in A
      <4> HIDE DEF f
      <4> QED BY <1>1
    <3>3. i \in 0..n /\ i - 1 \in 0..n /\ i # 0
      BY <1>1
    <3>4. CASE i = 1
      <4>1. f[i] = ss[i] /\ f[i - 1] = <<>>
        BY <3>1, <3>3, <3>4
      <4>2. <<>> \o ss[i] = ss[i]
        BY <3>2
      <4> HIDE DEF f, step
      <4> QED BY <3>2, <4>1, <4>2
    <3>5. CASE i # 1
      <4>1. f[i] = flatten[i] /\ f[i - 1] = flatten[i - 1]
        BY <3>3, <3>5
      <4> QED BY <3>1, <3>2, <3>5, <4>1
    <3> QED BY <3>4, <3>5
  <2>7. f[0] = base /\ f[n] = flatten[n]
    BY <1>1, <1>4
  <2> HIDE DEF f, n, step, A, base, flatten
  <2>8. Folded(A, FlattenSeq(ss), n, base, step)
    BY <2>1, <2>6, <2>7 DEF Folded
  <2> QED BY <2>8 DEF A, n, step, base
<1> QED BY <1>3, <1>4

\* Sequences laid end to end are a sequence of the same set.
LEMMA FlattenType ==
  ASSUME NEW D, NEW ss \in Seq(Seq(D))
  PROVE  FlattenSeq(ss) \in Seq(D)
<1> DEFINE A == Seq(D)
           n == Len(ss)
           base == <<>>
           step == [i \in 1..n |-> [k \in A |-> k \o ss[i]]]
<1>1. n \in Nat /\ base \in A /\ \A i \in 1..n : ss[i] \in A
  OBVIOUS
<1>2. step \in [1..n -> [A -> A]]
  <2> HIDE DEF n
  <2> QED BY <1>1
<1>3. Folded(A, FlattenSeq(ss), n, base, step)
  BY FlattenFolds
<1> HIDE DEF n, step, base, A
<1> QED BY <1>1, <1>2, <1>3, FoldSteps DEF A

\* One sequence more goes to the end.
LEMMA FlattenAppend ==
  ASSUME NEW D, NEW ss \in Seq(Seq(D)), NEW s \in Seq(D)
  PROVE  FlattenSeq(Append(ss, s)) = FlattenSeq(ss) \o s
<1> DEFINE A == Seq(D)
           n == Len(ss)
           tt == Append(ss, s)
           base == <<>>
           step == [i \in 1..n |-> [k \in A |-> k \o ss[i]]]
           more == [i \in 1..(n + 1) |-> [k \in A |-> k \o tt[i]]]
<1>1. /\ n \in Nat /\ base \in A /\ \A i \in 1..n : ss[i] \in A /\ tt[i] = ss[i]
      /\ tt[n + 1] = s /\ Len(tt) = n + 1 /\ tt \in Seq(A) /\ \A i \in 1..(n + 1) : tt[i] \in A
  OBVIOUS
<1>2. step \in [1..n -> [A -> A]] /\ more \in [1..(n + 1) -> [A -> A]]
  <2> HIDE DEF n, tt
  <2> QED BY <1>1
<1>3. Folded(A, FlattenSeq(ss), n, base, step)
  BY FlattenFolds
<1>4. Folded(A, FlattenSeq(tt), n + 1, base, more)
  <2>1. Folded(Seq(D), FlattenSeq(tt), Len(tt), <<>>, [i \in 1..Len(tt) |-> [k \in Seq(D) |-> k \o tt[i]]])
    <3> HIDE DEF tt, n
    <3> QED BY <1>1, FlattenFolds
  <2>2. Len(tt) = n + 1
    BY <1>1
  <2> HIDE DEF tt, n
  <2> QED BY <2>1, <2>2
<1>5. Further(step, more, n)
  <2> SUFFICES ASSUME NEW i \in 1..n PROVE more[i] = step[i]
    BY DEF Further
  <2> HIDE DEF tt, n
  <2>1. i \in 1..(n + 1) /\ tt[i] = ss[i]
    BY <1>1
  <2> QED BY <2>1
<1>6. FlattenSeq(ss) \in A
  BY FlattenType
<1>7. more[n + 1][FlattenSeq(ss)] = FlattenSeq(ss) \o s
  <2> HIDE DEF tt, n
  <2>1. n + 1 \in 1..(n + 1)
    BY <1>1
  <2> QED BY <1>1, <1>6, <2>1
<1> HIDE DEF n, step, base, A, more, tt
<1>8. FlattenSeq(tt) = more[n + 1][FlattenSeq(ss)]
  BY <1>1, <1>2, <1>3, <1>4, <1>5, FoldNext
<1> QED BY <1>7, <1>8 DEF tt

\* Each element turned into some, in their order.
Flat(f, s) == FlattenSeq(Each(f, s))

\* A map to sequences over no elements.
LEMMA FlatNone ==
  ASSUME NEW f
  PROVE  Flat(f, <<>>) = <<>>
BY EachNone, FlattenNone DEF Flat

\* What a map to sequences gives, laid end to end.
LEMMA FlatType ==
  ASSUME NEW D, NEW E, NEW f, Maps(f, D, Seq(E)), NEW s \in Seq(D)
  PROVE  Flat(f, s) \in Seq(E)
<1>1. Each(f, s) \in Seq(Seq(E))
  BY EachType
<1> QED BY <1>1, FlattenType DEF Flat

\* An element more adds its sequence at the end.
LEMMA FlatAppend ==
  ASSUME NEW D, NEW E, NEW f, Maps(f, D, Seq(E)), NEW s \in Seq(D), NEW x \in D
  PROVE  Flat(f, Append(s, x)) = Flat(f, s) \o f[x]
<1>1. Each(f, s) \in Seq(Seq(E))
  BY EachType
<1>2. f[x] \in Seq(E)
  BY DEF Maps
<1>3. Each(f, Append(s, x)) = Append(Each(f, s), f[x])
  BY EachAppend
<1>4. \A tt \in Seq(Seq(E)), t \in Seq(E) : FlattenSeq(Append(tt, t)) = FlattenSeq(tt) \o t
  BY FlattenAppend
<1> QED BY <1>1, <1>2, <1>3, <1>4 DEF Flat

\* One element gives its own sequence.
LEMMA FlatOne ==
  ASSUME NEW D, NEW E, NEW f, Maps(f, D, Seq(E)), NEW x \in D
  PROVE  Flat(f, <<x>>) = f[x]
<1>1. <<>> \in Seq(D) /\ Append(<<>>, x) = <<x>> /\ f[x] \in Seq(E)
  BY DEF Maps
<1>2. Flat(f, Append(<<>>, x)) = Flat(f, <<>>) \o f[x]
  BY <1>1, FlatAppend, ZenonT(30)
<1> QED BY <1>1, <1>2, FlatNone, ConcatNone, SMTT(30)

\* A concatenation gives the sequences of both.
LEMMA FlatConcat ==
  ASSUME NEW D, NEW E, NEW f, Maps(f, D, Seq(E)), NEW s \in Seq(D), NEW t \in Seq(D)
  PROVE  Flat(f, s \o t) = Flat(f, s) \o Flat(f, t)
<1> DEFINE S == {u \in Seq(D) : Flat(f, s \o u) = Flat(f, s) \o Flat(f, u)}
<1>0. \A u \in Seq(D) : Flat(f, u) \in Seq(E)
  BY FlatType
<1>a. \A u \in Seq(D), x \in D : Flat(f, Append(u, x)) = Flat(f, u) \o f[x]
  BY FlatAppend
<1>b. \A u, v, w \in Seq(E) : (u \o v) \o w = u \o (v \o w)
  BY ConcatConcat
<1>1. <<>> \in S
  BY <1>0, ConcatNone, FlatNone
<1>2. ASSUME NEW u \in S, NEW x \in D PROVE Append(u, x) \in S
  <2>1. /\ u \in Seq(D) /\ Append(u, x) \in Seq(D) /\ s \o u \in Seq(D)
        /\ Flat(f, s \o u) = Flat(f, s) \o Flat(f, u) /\ f[x] \in Seq(E)
    BY DEF Maps
  <2> HIDE DEF S
  <2>2. s \o Append(u, x) = Append(s \o u, x)
    BY <2>1, ConcatAppend
  <2>3. /\ Flat(f, Append(s \o u, x)) = Flat(f, s \o u) \o f[x]
        /\ Flat(f, Append(u, x)) = Flat(f, u) \o f[x]
    BY <2>1, <1>a
  <2>4. (Flat(f, s) \o Flat(f, u)) \o f[x] = Flat(f, s) \o (Flat(f, u) \o f[x])
    BY <1>0, <1>b, <2>1, ZenonT(30)
  <2> QED BY <2>1, <2>2, <2>3, <2>4 DEF S
<1>3. S = Seq(D)
  <2> HIDE DEF S
  <2>1. S \in SUBSET Seq(D)
    BY DEF S
  <2> QED BY <1>1, <1>2, <2>1, SeqInd
<1> QED BY <1>3

\* The elements of all the sequences.
LEMMA FlatSet ==
  ASSUME NEW D, NEW E, NEW f, Maps(f, D, Seq(E)), NEW s \in Seq(D)
  PROVE  ToSet(Flat(f, s)) = UNION {ToSet(f[x]) : x \in ToSet(s)}
<1> DEFINE S == {u \in Seq(D) : ToSet(Flat(f, u)) = UNION {ToSet(f[x]) : x \in ToSet(u)}}
<1>0. \A u \in Seq(D) : Flat(f, u) \in Seq(E)
  BY FlatType
<1>a. \A u \in Seq(D), x \in D : Flat(f, Append(u, x)) = Flat(f, u) \o f[x]
  BY FlatAppend
<1>b. \A u, v \in Seq(E) : ToSet(u \o v) = ToSet(u) \cup ToSet(v)
  BY ConcatSet
<1>1. <<>> \in S
  BY FlatNone DEF ToSet
<1>2. ASSUME NEW u \in S, NEW x \in D PROVE Append(u, x) \in S
  <2>1. /\ u \in Seq(D) /\ Append(u, x) \in Seq(D) /\ f[x] \in Seq(E)
        /\ ToSet(Flat(f, u)) = UNION {ToSet(f[y]) : y \in ToSet(u)}
    BY DEF Maps
  <2> HIDE DEF S
  <2>2. ToSet(Append(u, x)) = ToSet(u) \cup {x}
    BY <2>1, AppendSet
  <2>3. ToSet(Flat(f, Append(u, x))) = ToSet(Flat(f, u)) \cup ToSet(f[x])
    BY <1>0, <1>a, <1>b, <2>1, ZenonT(30)
  <2>4. UNION {ToSet(f[y]) : y \in ToSet(u) \cup {x}}
        = (UNION {ToSet(f[y]) : y \in ToSet(u)}) \cup ToSet(f[x])
    OBVIOUS
  <2> QED BY <2>1, <2>2, <2>3, <2>4 DEF S
<1>3. S = Seq(D)
  <2> HIDE DEF S
  <2>1. S \in SUBSET Seq(D)
    BY DEF S
  <2> QED BY <1>1, <1>2, <2>1, SeqInd
<1> QED BY <1>3

\* What is selected from each is what is selected from all.
LEMMA OnlyFlat ==
  ASSUME NEW D, NEW E, NEW f, Maps(f, D, Seq(E)), NEW s \in Seq(D), NEW R,
         NEW g, Maps(g, D, Seq(E)), \A x \in D : g[x] = Only(f[x], R)
  PROVE  Only(Flat(f, s), R) = Flat(g, s)
<1> DEFINE S == {u \in Seq(D) : Only(Flat(f, u), R) = Flat(g, u)}
<1>0. \A u \in Seq(D) : Flat(f, u) \in Seq(E)
  BY FlatType
<1>a. \A u \in Seq(D), x \in D : Flat(f, Append(u, x)) = Flat(f, u) \o f[x]
  BY FlatAppend
<1>b. \A u \in Seq(D), x \in D : Flat(g, Append(u, x)) = Flat(g, u) \o g[x]
  BY FlatAppend
<1>c. \A u, v \in Seq(E) : Only(u \o v, R) = Only(u, R) \o Only(v, R)
  BY OnlyConcat
<1>1. <<>> \in S
  BY FlatNone, OnlyNone
<1>2. ASSUME NEW u \in S, NEW x \in D PROVE Append(u, x) \in S
  <2>1. /\ u \in Seq(D) /\ Append(u, x) \in Seq(D) /\ f[x] \in Seq(E)
        /\ Only(Flat(f, u), R) = Flat(g, u)
    BY DEF Maps
  <2> HIDE DEF S
  <2>2. Only(Flat(f, u) \o f[x], R) = Only(Flat(f, u), R) \o Only(f[x], R)
    BY <1>0, <1>c, <2>1
  <2>3. Only(Flat(f, Append(u, x)), R) = Flat(g, Append(u, x))
    BY <1>a, <1>b, <2>1, <2>2
  <2> QED BY <2>1, <2>3 DEF S
<1>3. S = Seq(D)
  <2> HIDE DEF S
  <2>1. S \in SUBSET Seq(D)
    BY DEF S
  <2> QED BY <1>1, <1>2, <2>1, SeqInd
<1> QED BY <1>3

---------------------------------------------------------------------------
(* Folds of a sequence.  The step is a function of an element and of what  *)
(* the elements before it came to.                                         *)

\* The steps of a fold: a function of A for each element.
Step(f, D, A) == f \in [D -> [A -> A]]

\* Where the steps of the elements lead from the base.
FoldOf(A, f, base, s) == CHOOSE v : Folded(A, v, Len(s), base, Each(f, s))

\* The steps of a sequence.
LEMMA StepsOfEach ==
  ASSUME NEW D, NEW A, NEW f, Step(f, D, A), NEW s \in Seq(D)
  PROVE  /\ Each(f, s) \in [1..Len(s) -> [A -> A]] /\ Len(s) \in Nat
         /\ \A i \in 1..Len(s) : s[i] \in D /\ Each(f, s)[i] = f[s[i]]
<1>1. Len(s) \in Nat /\ DOMAIN s = 1..Len(s) /\ \A i \in 1..Len(s) : s[i] \in D
  OBVIOUS
<1> QED BY <1>1 DEF Each, Step

\* FoldOf is where the steps lead.
LEMMA FoldOfFolds ==
  ASSUME NEW D, NEW A, NEW f, Step(f, D, A), NEW base \in A, NEW s \in Seq(D)
  PROVE  Folded(A, FoldOf(A, f, base, s), Len(s), base, Each(f, s))
<1> DEFINE n == Len(s)
           step == Each(f, s)
<1>1. n \in Nat /\ step \in [1..n -> [A -> A]]
  BY StepsOfEach
<1>2. \E v : Folded(A, v, n, base, step)
  <2> HIDE DEF n, step
  <2>1. PICK g \in [0..n -> A] : Steps(g, n, base, step)
    BY <1>1, CanBeFolded
  <2>2. Folded(A, g[n], n, base, step)
    BY <2>1 DEF Steps, Within, Folded
  <2> QED BY <2>2
<1>3. FoldOf(A, f, base, s) = CHOOSE v : Folded(A, v, n, base, step)
  BY DEF FoldOf
<1> HIDE DEF n, step
<1>4. Folded(A, FoldOf(A, f, base, s), n, base, step)
  BY <1>2, <1>3
<1> QED BY <1>4 DEF n, step

\* A fold stays in its set.
LEMMA FoldOfType ==
  ASSUME NEW D, NEW A, NEW f, Step(f, D, A), NEW base \in A, NEW s \in Seq(D)
  PROVE  FoldOf(A, f, base, s) \in A
<1> DEFINE n == Len(s)
           step == Each(f, s)
<1>1. n \in Nat /\ step \in [1..n -> [A -> A]]
  BY StepsOfEach
<1>2. Folded(A, FoldOf(A, f, base, s), n, base, step)
  BY FoldOfFolds
<1> HIDE DEF n, step
<1> QED BY <1>1, <1>2, FoldSteps

\* A fold over nothing is its base.
LEMMA FoldOfNone ==
  ASSUME NEW D, NEW A, NEW f, Step(f, D, A), NEW base \in A
  PROVE  FoldOf(A, f, base, <<>>) = base
<1> DEFINE none == <<>>
           step == Each(f, none)
           n == Len(none)
<1>1. none \in Seq(D) /\ n \in Nat /\ n = 0
  OBVIOUS
<1>2. step \in [1..n -> [A -> A]]
  <2> HIDE DEF none
  <2> QED BY <1>1, StepsOfEach
<1>3. Folded(A, FoldOf(A, f, base, none), n, base, step)
  <2> HIDE DEF none
  <2> QED BY <1>1, FoldOfFolds
<1> HIDE DEF none, step, n
<1>4. FoldOf(A, f, base, none) = base
  BY <1>1, <1>2, <1>3, FoldSteps
<1> QED BY <1>4 DEF none

\* A fold over an element more takes its step last.
LEMMA FoldOfAppend ==
  ASSUME NEW D, NEW A, NEW f, Step(f, D, A), NEW base \in A, NEW s \in Seq(D), NEW x \in D
  PROVE  FoldOf(A, f, base, Append(s, x)) = f[x][FoldOf(A, f, base, s)]
<1> DEFINE t == Append(s, x)
           n == Len(s)
           step == Each(f, s)
           more == Each(f, t)
           v == FoldOf(A, f, base, s)
           w == FoldOf(A, f, base, t)
<1>1. t \in Seq(D) /\ n \in Nat /\ Len(t) = n + 1 /\ t[n + 1] = x /\ \A i \in 1..n : t[i] = s[i]
  OBVIOUS
<1>2. step \in [1..n -> [A -> A]] /\ Folded(A, v, n, base, step) /\ \A i \in 1..n : step[i] = f[s[i]]
  BY StepsOfEach, FoldOfFolds
<1>3. /\ more \in [1..(n + 1) -> [A -> A]] /\ Folded(A, w, n + 1, base, more)
      /\ \A i \in 1..(n + 1) : more[i] = f[t[i]]
  <2>1. \A u \in Seq(D) :
          /\ Each(f, u) \in [1..Len(u) -> [A -> A]] /\ \A i \in 1..Len(u) : Each(f, u)[i] = f[u[i]]
          /\ Folded(A, FoldOf(A, f, base, u), Len(u), base, Each(f, u))
    BY StepsOfEach, FoldOfFolds
  <2> HIDE DEF t, n
  <2> QED BY <1>1, <2>1
<1>4. Further(step, more, n)
  <2> SUFFICES ASSUME NEW i \in 1..n PROVE more[i] = step[i]
    BY DEF Further
  <2> HIDE DEF t, n, step, more
  <2>1. i \in 1..(n + 1) /\ t[i] = s[i]
    BY <1>1
  <2> QED BY <1>2, <1>3, <2>1
<1> HIDE DEF t, n, step, more, v, w
<1>5. w = more[n + 1][v]
  BY <1>1, <1>2, <1>3, <1>4, FoldNext
<1>6. more[n + 1] = f[x]
  BY <1>1, <1>3
<1> QED BY <1>5, <1>6 DEF v, w, t

\* Steps lead to one place only.
LEMMA FoldOnce ==
  ASSUME NEW A, NEW n \in Nat, NEW base \in A, NEW step \in [1..n -> [A -> A]],
         NEW v, NEW w, Folded(A, v, n, base, step), Folded(A, w, n, base, step)
  PROVE  v = w
<1>1. PICK g : g[0] = base /\ Within(A, g, n, step) /\ v = g[n]
  BY DEF Folded
<1>2. PICK h : h[0] = base /\ Within(A, h, n, step) /\ w = h[n]
  BY DEF Folded
<1> QED BY <1>1, <1>2, SameFold

\* Whatever goes through the steps is the fold: over places, and over sets of places.
LEMMA FoldOfIs ==
  ASSUME NEW D, NEW A, NEW f, Step(f, D, A), NEW base \in A, NEW s \in Seq(D),
         NEW v, Folded(A, v, Len(s), base, Each(f, s))
  PROVE  v = FoldOf(A, f, base, s)
<1> DEFINE n == Len(s)
           step == Each(f, s)
           w == FoldOf(A, f, base, s)
<1>1. n \in Nat /\ step \in [1..n -> [A -> A]] /\ Folded(A, v, n, base, step)
  BY StepsOfEach
<1>2. Folded(A, w, n, base, step)
  BY FoldOfFolds
<1> HIDE DEF n, step, w
<1>3. v = w
  BY <1>1, <1>2, FoldOnce
<1> QED BY <1>3 DEF w

\* The library's fold of a sequence, over the sets of its places.
SetSteps(g, A, f, base, s) ==
  /\ g[{}] = base
  /\ \A T \in SUBSET (1..Len(s)) :
       (T # {} /\ g[T \ {Max(T)}] \in A) => g[T] = f[s[Max(T)]][g[T \ {Max(T)}]]

\* The library's fold is the fold step by step.
LEMMA FoldOfSets ==
  ASSUME NEW D, NEW A, NEW f, Step(f, D, A), NEW base \in A, NEW s \in Seq(D),
         NEW g, SetSteps(g, A, f, base, s)
  PROVE  g[1..Len(s)] = FoldOf(A, f, base, s)
<1> DEFINE n == Len(s)
           step == Each(f, s)
<1>1. n \in Nat /\ step \in [1..n -> [A -> A]] /\ \A i \in 1..n : step[i] = f[s[i]]
  BY StepsOfEach
<1>2. g[{}] = base /\ WithinSets(A, g, n, step)
  <2> SUFFICES ASSUME NEW T \in SUBSET (1..n), T # {}, g[T \ {Max(T)}] \in A
               PROVE  g[T] = step[Max(T)][g[T \ {Max(T)}]]
    BY DEF SetSteps, WithinSets
  <2>1. g[T] = f[s[Max(T)]][g[T \ {Max(T)}]]
    BY DEF SetSteps
  <2> HIDE DEF n, step
  <2>2. Max(T) \in 1..n
    BY <1>1, LastOfSome
  <2> QED BY <1>1, <2>1, <2>2
<1>3. Folded(A, g[1..n], n, base, step)
  <2> HIDE DEF n, step
  <2> QED BY <1>1, <1>2, SetsAreFolded
<1> QED BY <1>3, FoldOfIs

\* The same, with what the greatest place and the others are.
SetsOf(g, f, base, s) ==
  /\ g[{}] = base
  /\ \A T \in SUBSET (1..Len(s)) : T # {} =>
       /\ Max(T) \in 1..Len(s) /\ T \ {Max(T)} \in SUBSET (1..Len(s))
       /\ g[T] = f[s[Max(T)]][g[T \ {Max(T)}]]

\* The library's fold can be taken.
LEMMA SetsOfFold ==
  ASSUME NEW D, NEW A, NEW f, Step(f, D, A), NEW base \in A, NEW s \in Seq(D)
  PROVE  \E g \in [SUBSET (1..Len(s)) -> A] : SetsOf(g, f, base, s)
<1> DEFINE n == Len(s)
           step == Each(f, s)
<1>1. n \in Nat /\ step \in [1..n -> [A -> A]] /\ \A i \in 1..n : step[i] = f[s[i]]
  BY StepsOfEach
<1> HIDE DEF n, step
<1>2. PICK g \in [SUBSET (1..n) -> A] : OverSets(g, n, base, step)
  BY <1>1, SetsCanBeFolded
<1>3. ASSUME NEW T \in SUBSET (1..n), T # {}
      PROVE  /\ Max(T) \in 1..n /\ T \ {Max(T)} \in SUBSET (1..n)
             /\ g[T] = f[s[Max(T)]][g[T \ {Max(T)}]]
  <2>1. Max(T) \in 1..n
    BY <1>1, <1>3, LastOfSome
  <2>2. g[T] = step[Max(T)][g[T \ {Max(T)}]]
    BY <1>2, <1>3 DEF OverSets
  <2> QED BY <1>1, <2>1, <2>2
<1>4. g[{}] = base
  BY <1>2 DEF OverSets
<1>5. SetsOf(g, f, base, s)
  BY <1>3, <1>4 DEF n, SetsOf
<1> QED BY <1>2, <1>5 DEF n

---------------------------------------------------------------------------
(* The places selected: At takes them in their order, each once.           *)

\* The places p keeps of s, in their order and all of those in P.
Places(p, n, s, P) ==
  /\ p \in [1..n -> 1..Len(s)]
  /\ \A j \in 1..n : p[j] \in P
  /\ \A j, k \in 1..n : j < k => p[j] < p[k]
  /\ \A i \in 1..Len(s) : i \in P => \E j \in 1..n : p[j] = i

\* What is kept are the elements at some places, in their order.
LEMMA AtPlaces ==
  ASSUME NEW D, NEW s \in Seq(D), NEW P
  PROVE  \E p : /\ Places(p, Len(At(s, P)), s, P)
                /\ \A j \in 1..Len(At(s, P)) : At(s, P)[j] = s[p[j]]
<1> DEFINE Taken(t, p) == /\ Places(p, Len(At(t, P)), t, P)
                          /\ \A j \in 1..Len(At(t, P)) : At(t, P)[j] = t[p[j]]
           S == {t \in Seq(D) : \E p : Taken(t, p)}
<1>1. <<>> \in S
  <2> DEFINE p == [i \in 1..0 |-> 0]
  <2>1. At(<<>>, P) = <<>>
    BY AtNone
  <2>2. Taken(<<>>, p)
    BY <2>1 DEF Places
  <2> QED BY <2>2
<1>2. ASSUME NEW t \in S, NEW x \in D PROVE Append(t, x) \in S
  <2>1. t \in Seq(D) /\ \E p : Taken(t, p)
    OBVIOUS
  <2> HIDE DEF S
  <2>2. PICK p : Taken(t, p)
    BY <2>1
  <2> DEFINE u == Append(t, x)
             a == At(t, P)
             b == At(u, P)
             n == Len(t)
             l == Len(a)
  <2>3. a \in Seq(D)
    BY <2>1, AtType
  <2>4. /\ u \in Seq(D) /\ Len(u) = n + 1 /\ n \in Nat /\ u[n + 1] = x /\ l \in Nat
        /\ \A i \in 1..n : u[i] = t[i]
    BY <2>1, <2>3
  <2>5. b = IF n + 1 \in P THEN Append(a, x) ELSE a
    BY <2>1, AtAppend
  <2>6. /\ p \in [1..l -> 1..n] /\ \A j \in 1..l : p[j] \in P
        /\ \A j, k \in 1..l : j < k => p[j] < p[k]
        /\ \A i \in 1..n : i \in P => \E j \in 1..l : p[j] = i
        /\ \A j \in 1..l : a[j] = t[p[j]]
    BY <2>2 DEF Places
  <2>7. CASE n + 1 \in P
    <3> DEFINE q == [j \in 1..(l + 1) |-> IF j <= l THEN p[j] ELSE n + 1]
    <3>1. Len(b) = l + 1 /\ b[l + 1] = x /\ \A j \in 1..l : b[j] = a[j]
      <4>1. Append(a, x)[l + 1] = x /\ Len(Append(a, x)) = l + 1 /\ \A j \in 1..l : Append(a, x)[j] = a[j]
        BY <2>1, <2>3
      <4> HIDE DEF a, b, l
      <4> QED BY <4>1, <2>5, <2>7
    <3> HIDE DEF a, b, l, n, u, Taken
    <3>2. q \in [1..(l + 1) -> 1..(n + 1)] /\ \A j \in 1..(l + 1) : q[j] \in P
      BY <2>4, <2>6, <2>7
    <3>3. \A j, k \in 1..(l + 1) : j < k => q[j] < q[k]
      <4> SUFFICES ASSUME NEW j \in 1..(l + 1), NEW k \in 1..(l + 1), j < k PROVE q[j] < q[k]
        OBVIOUS
      <4>1. j \in 1..l /\ q[j] = p[j] /\ p[j] \in 1..n
        BY <2>4, <2>6
      <4>2. CASE k \in 1..l
        BY <2>6, <4>1, <4>2
      <4>3. CASE k = l + 1
        BY <2>4, <4>1, <4>3
      <4> QED BY <2>4, <4>2, <4>3
    <3>4. \A i \in 1..(n + 1) : i \in P => \E j \in 1..(l + 1) : q[j] = i
      <4> SUFFICES ASSUME NEW i \in 1..(n + 1), i \in P PROVE \E j \in 1..(l + 1) : q[j] = i
        OBVIOUS
      <4>1. CASE i = n + 1
        <5>1. l + 1 \in 1..(l + 1) /\ q[l + 1] = n + 1
          BY <2>4
        <5> QED BY <4>1, <5>1
      <4>2. CASE i \in 1..n
        <5>1. PICK j \in 1..l : p[j] = i
          BY <2>6, <4>2
        <5>2. j \in 1..(l + 1) /\ q[j] = i
          BY <2>4, <5>1
        <5> QED BY <5>2
      <4> QED BY <2>4, <4>1, <4>2
    <3>5. \A j \in 1..(l + 1) : b[j] = u[q[j]]
      <4> TAKE j \in 1..(l + 1)
      <4>1. CASE j \in 1..l
        BY <2>4, <2>6, <3>1, <4>1
      <4>2. CASE j = l + 1
        BY <2>4, <3>1, <4>2
      <4> QED BY <2>4, <4>1, <4>2
    <3> HIDE DEF q
    <3>6. Places(q, Len(b), u, P)
      BY <2>4, <3>1, <3>2, <3>3, <3>4 DEF Places
    <3>7. Taken(u, q)
      BY <3>1, <3>5, <3>6 DEF Taken, b
    <3> QED BY <2>4, <3>7 DEF S, u
  <2>8. CASE n + 1 \notin P
    <3>1. b = a
      BY <2>5, <2>8
    <3> HIDE DEF a, b, l, n, u, Taken
    <3>2. p \in [1..l -> 1..(n + 1)]
      BY <2>4, <2>6
    <3>3. \A i \in 1..(n + 1) : i \in P => \E j \in 1..l : p[j] = i
      <4> SUFFICES ASSUME NEW i \in 1..(n + 1), i \in P PROVE \E j \in 1..l : p[j] = i
        OBVIOUS
      <4>1. i \in 1..n
        BY <2>4, <2>8
      <4> QED BY <2>6, <4>1
    <3>4. \A j \in 1..l : b[j] = u[p[j]]
      BY <2>4, <2>6, <3>1
    <3>5. Places(p, Len(b), u, P)
      BY <2>4, <2>6, <3>1, <3>2, <3>3 DEF Places, l
    <3>6. Taken(u, p)
      BY <3>1, <3>4, <3>5 DEF Taken, b, l
    <3> QED BY <2>4, <3>6 DEF S, u
  <2> QED BY <2>7, <2>8
<1>3. S = Seq(D)
  <2> HIDE DEF S
  <2>1. S \in SUBSET Seq(D)
    BY DEF S
  <2> QED BY <1>1, <1>2, <2>1, SeqInd
<1> QED BY <1>3

---------------------------------------------------------------------------
(* Places, neighbours, and sequences laid out one behind the other.        *)

\* The places of a sequence.
LEMMA PlacesOf ==
  ASSUME NEW D, NEW s \in Seq(D)
  PROVE  DOMAIN s = 1..Len(s) /\ Len(s) \in Nat /\ \A i \in DOMAIN s : s[i] \in D
OBVIOUS

\* A sequence is one of the set its elements are in.
LEMMA ElementsIn ==
  ASSUME NEW D, NEW S, NEW s \in Seq(D), ToSet(s) \subseteq S
  PROVE  s \in Seq(S)
<1>1. DOMAIN s = 1..Len(s) /\ Len(s) \in Nat
  OBVIOUS
<1>2. \A i \in 1..Len(s) : s[i] \in S
  BY <1>1 DEF ToSet
<1>3. s = [i \in 1..Len(s) |-> s[i]]
  OBVIOUS
<1> QED BY <1>1, <1>2, <1>3

\* The elements of a sequence are in its set.
LEMMA ElementsOf ==
  ASSUME NEW S, NEW s \in Seq(S)
  PROVE  ToSet(s) \subseteq S /\ \A i \in DOMAIN s : s[i] \in ToSet(s)
BY PlacesOf DEF ToSet

\* A sequence of a set is one of a wider set.
LEMMA WiderSeq ==
  ASSUME NEW S, NEW D, S \subseteq D, NEW s \in Seq(S)
  PROVE  s \in Seq(D)
<1>1. ToSet(s) \subseteq D
  BY ElementsOf
<1> QED BY <1>1, ElementsIn

\* Functions that agree on a set map its sequences alike.
LEMMA EachSame ==
  ASSUME NEW D, NEW s \in Seq(D), NEW f, NEW g, \A x \in D : f[x] = g[x]
  PROVE  Each(f, s) = Each(g, s)
<1>1. \A i \in DOMAIN s : s[i] \in D
  BY PlacesOf
<1> QED BY <1>1 DEF Each

\* Two maps are one.
LEMMA EachEach ==
  ASSUME NEW D, NEW E, NEW g, Maps(g, D, E), NEW f, NEW s \in Seq(D)
  PROVE  Each(f, Each(g, s)) = Each([x \in D |-> f[g[x]]], s)
<1>1. DOMAIN Each(g, s) = DOMAIN s /\ \A i \in DOMAIN s : s[i] \in D /\ Each(g, s)[i] = g[s[i]]
  BY EachType
<1> DEFINE t == Each(g, s)
<1>2. Each(f, t) = [i \in DOMAIN t |-> f[t[i]]]
  BY DEF Each
<1> HIDE DEF t
<1>3. Each(f, t) = [i \in DOMAIN s |-> f[g[s[i]]]]
  BY <1>1, <1>2 DEF t
<1>4. Each([x \in D |-> f[g[x]]], s) = [i \in DOMAIN s |-> f[g[s[i]]]]
  BY <1>1 DEF Each
<1> QED BY <1>3, <1>4 DEF t

\* Elements that are kept or dropped one by one.
LEMMA FlatOnly ==
  ASSUME NEW D, NEW S, NEW f, \A x \in D : f[x] = IF x \in S THEN <<x>> ELSE <<>>, NEW s \in Seq(D)
  PROVE  Flat(f, s) = Only(s, S)
<1> DEFINE g == [x \in D |-> IF x \in S THEN <<x>> ELSE <<>>]
<1>1. \A x \in D : <<x>> \in Seq(D) /\ <<>> \in Seq(D)
  OBVIOUS
<1>2. Maps(g, D, Seq(D)) /\ \A x \in D : g[x] = IF x \in S THEN <<x>> ELSE <<>>
  BY <1>1 DEF Maps
<1>3. Each(f, s) = Each(g, s)
  <2> HIDE DEF g
  <2>1. \A x \in D : f[x] = g[x]
    BY <1>2
  <2> QED BY <2>1, EachSame
<1> HIDE DEF g
<1> DEFINE T == {t \in Seq(D) : Flat(g, t) = Only(t, S)}
<1>4. <<>> \in T
  BY FlatNone, OnlyNone
<1>5. ASSUME NEW t \in T, NEW x \in D PROVE Append(t, x) \in T
  <2>1. t \in Seq(D) /\ Append(t, x) \in Seq(D) /\ Flat(g, t) = Only(t, S)
    OBVIOUS
  <2> HIDE DEF T
  <2>2. Flat(g, Append(t, x)) = Flat(g, t) \o g[x]
    BY <1>2, <2>1, FlatAppend
  <2>3. Only(Append(t, x), S) = IF x \in S THEN Append(Only(t, S), x) ELSE Only(t, S)
    BY <2>1, OnlyAppend
  <2> DEFINE o == Only(t, S)
  <2>4. o \in Seq(D)
    BY <2>1, OnlyType
  <2> HIDE DEF o
  <2>5. o \o <<x>> = Append(o, x) /\ o \o <<>> = o
    BY <2>4
  <2>6. Flat(g, Append(t, x)) = Only(Append(t, x), S)
    BY <1>2, <2>1, <2>2, <2>3, <2>5 DEF o
  <2> QED BY <2>1, <2>6 DEF T
<1>6. T = Seq(D)
  <2> HIDE DEF T
  <2>1. T \in SUBSET Seq(D)
    BY DEF T
  <2> QED BY <1>4, <1>5, <2>1, SeqInd
<1> QED BY <1>3, <1>6 DEF Flat

\* An event more.
LEMMA OneMore ==
  ASSUME NEW D, NEW s \in Seq(D), NEW a \in D
  PROVE  s \o <<a>> = Append(s, a) /\ Append(s, a) \in Seq(D) /\ <<a>> \in Seq(D)
OBVIOUS

\* Two events more.
LEMMA TwoMore ==
  ASSUME NEW D, NEW s \in Seq(D), NEW a \in D, NEW b \in D
  PROVE  s \o (<<a>> \o <<>> \o <<b>>) = Append(Append(s, a), b) /\ <<a>> \o <<>> \o <<b>> \in Seq(D)
<1>1. <<a>> \o <<>> = <<a>>
  OBVIOUS
<1>2. <<a>> \o <<b>> = Append(<<a>>, b) /\ Append(<<a>>, b) \in Seq(D) /\ <<a>> \in Seq(D)
  OBVIOUS
<1>3. s \o Append(<<a>>, b) = Append(s \o <<a>>, b)
  BY <1>2, ConcatAppend
<1> QED BY <1>1, <1>2, <1>3, OneMore

\* Three events more.
LEMMA ThreeMore ==
  ASSUME NEW D, NEW s \in Seq(D), NEW a \in D, NEW b \in D, NEW c \in D
  PROVE  /\ s \o (<<a>> \o <<b>> \o <<c>>) = Append(Append(Append(s, a), b), c)
         /\ <<a>> \o <<b>> \o <<c>> \in Seq(D)
<1>1. <<a>> \o <<b>> = Append(<<a>>, b) /\ Append(<<a>>, b) \in Seq(D) /\ <<a>> \in Seq(D)
  OBVIOUS
<1>2. \A t \in Seq(D), x \in D : Append(t, x) \in Seq(D) /\ s \o Append(t, x) = Append(s \o t, x)
                                 /\ t \o <<x>> = Append(t, x)
  BY ConcatAppend
<1> DEFINE t1 == <<a>>
           t2 == Append(t1, b)
<1>3. t1 \in Seq(D) /\ s \o t1 = Append(s, a)
  BY OneMore
<1>4. t1 \o <<b>> = t2
  OBVIOUS
<1> HIDE DEF t1
<1>5. t2 \in Seq(D) /\ s \o t2 = Append(s \o t1, b)
  BY <1>2, <1>3
<1> HIDE DEF t2
<1>6. Append(t2, c) \in Seq(D) /\ s \o Append(t2, c) = Append(s \o t2, c) /\ t2 \o <<c>> = Append(t2, c)
  BY <1>2, <1>5
<1>7. t1 \o <<b>> \o <<c>> = Append(t2, c) /\ s \o Append(t2, c) = Append(Append(Append(s, a), b), c)
  BY <1>3, <1>4, <1>5, <1>6 DEF t2
<1> QED BY <1>6, <1>7 DEF t1

\* Six events more.
LEMMA SixMore ==
  ASSUME NEW D, NEW s \in Seq(D), NEW a \in D, NEW b \in D, NEW c \in D, NEW d \in D, NEW e \in D, NEW f \in D
  PROVE  /\ s \o (<<a>> \o <<b, c, d, e>> \o <<f>>)
              = Append(Append(Append(Append(Append(Append(s, a), b), c), d), e), f)
         /\ <<a>> \o <<b, c, d, e>> \o <<f>> \in Seq(D)
<1> DEFINE t1 == <<a>>
           t2 == Append(t1, b)
           t3 == Append(t2, c)
           t4 == Append(t3, d)
           t5 == Append(t4, e)
           t6 == Append(t5, f)
<1>1. <<a>> \o <<b, c, d, e>> = t5
  OBVIOUS
<1>2. \A t \in Seq(D), x \in D : Append(t, x) \in Seq(D) /\ s \o Append(t, x) = Append(s \o t, x)
                                 /\ t \o <<x>> = Append(t, x)
  BY ConcatAppend
<1>3. t1 \in Seq(D) /\ s \o t1 = Append(s, a)
  BY OneMore
<1> HIDE DEF t1
<1>4. t2 \in Seq(D) /\ s \o t2 = Append(s \o t1, b)
  BY <1>2, <1>3
<1> HIDE DEF t2
<1>5. t3 \in Seq(D) /\ s \o t3 = Append(s \o t2, c)
  BY <1>2, <1>4
<1> HIDE DEF t3
<1>6. t4 \in Seq(D) /\ s \o t4 = Append(s \o t3, d)
  BY <1>2, <1>5
<1> HIDE DEF t4
<1>7. t5 \in Seq(D) /\ s \o t5 = Append(s \o t4, e)
  BY <1>2, <1>6
<1> HIDE DEF t5
<1>8. t6 \in Seq(D) /\ s \o t6 = Append(s \o t5, f) /\ t5 \o <<f>> = t6
  BY <1>2, <1>7
<1> QED BY <1>1, <1>3, <1>4, <1>5, <1>6, <1>7, <1>8

\* The elements at some places.
LEMMA AtSet ==
  ASSUME NEW D, NEW s \in Seq(D), NEW P
  PROVE  ToSet(At(s, P)) = {s[i] : i \in P \cap DOMAIN s}
<1> DEFINE t == At(s, P)
           n == Len(t)
<1>1. t \in Seq(D)
  BY AtType
<1>2. PICK p : Places(p, n, s, P) /\ \A j \in 1..n : t[j] = s[p[j]]
  BY AtPlaces
<1> HIDE DEF t
<1>3. DOMAIN t = 1..n /\ DOMAIN s = 1..Len(s)
  BY <1>1
<1> HIDE DEF n
<1>4. \A j \in 1..n : p[j] \in DOMAIN s /\ p[j] \in P
  BY <1>2, <1>3 DEF Places
<1>5. \A i \in DOMAIN s : i \in P => \E j \in 1..n : p[j] = i
  BY <1>2, <1>3 DEF Places
<1>6. ToSet(t) = {t[j] : j \in 1..n}
  BY <1>3 DEF ToSet
<1> QED BY <1>2, <1>4, <1>5, <1>6 DEF t

\* What is kept of elements that differ differs.
LEMMA AtInjective ==
  ASSUME NEW D, NEW s \in Seq(D), NEW P, IsInjective(s)
  PROVE  IsInjective(At(s, P))
<1> DEFINE t == At(s, P)
           n == Len(t)
<1>1. t \in Seq(D)
  BY AtType
<1>2. PICK p : Places(p, n, s, P) /\ \A j \in 1..n : t[j] = s[p[j]]
  BY AtPlaces
<1> HIDE DEF t
<1>3. DOMAIN t = 1..n /\ DOMAIN s = 1..Len(s) /\ n \in Nat
  BY <1>1
<1> HIDE DEF n
<1>4. \A j \in 1..n : p[j] \in DOMAIN s
  BY <1>2, <1>3 DEF Places
<1>5. \A j, k \in 1..n : j < k => p[j] < p[k]
  BY <1>2 DEF Places
<1>6. ASSUME NEW j \in 1..n, NEW k \in 1..n, t[j] = t[k] PROVE j = k
  <2>1. s[p[j]] = s[p[k]] /\ p[j] \in DOMAIN s /\ p[k] \in DOMAIN s
    BY <1>2, <1>4, <1>6
  <2>2. p[j] = p[k]
    BY <2>1 DEF IsInjective
  <2>3. p[j] \in Int
    BY <1>3, <2>1
  <2> QED BY <1>3, <1>5, <2>2, <2>3
<1> QED BY <1>3, <1>6 DEF IsInjective, t

\* What is kept of elements that are mapped to different things is mapped to
\* different ones of those things.
LEMMA OnlyInjective ==
  ASSUME NEW D, NEW E, NEW f, Maps(f, D, E), NEW s \in Seq(D), IsInjective(Each(f, s)), NEW S
  PROVE  IsInjective(Each(f, Only(s, S))) /\ ToSet(Each(f, Only(s, S))) \subseteq ToSet(Each(f, s))
<1> DEFINE A == ToSet(s)
           q == [x \in A |-> f[x]]
           R == {f[x] : x \in A \cap S}
<1>1. A \subseteq D /\ s \in Seq(A) /\ (\A i \in DOMAIN s : s[i] \in A) /\ \A x \in A : \E i \in DOMAIN s : x = s[i]
  BY ElementsOf, ElementsIn DEF ToSet
<1> HIDE DEF A
<1>2. Maps(q, A, E) /\ \A x \in A : q[x] = f[x]
  BY <1>1 DEF Maps
<1> HIDE DEF q
<1>3. DOMAIN Each(f, s) = DOMAIN s /\ \A i \in DOMAIN s : Each(f, s)[i] = f[s[i]]
  BY EachType
<1>4. \A x, y \in A : f[x] = f[y] => x = y
  BY <1>1, <1>3 DEF IsInjective
<1>5. \A x \in A : q[x] \in R <=> x \in S
  BY <1>2, <1>4
<1> HIDE DEF R
<1>6. Only(Each(q, s), R) = Each(q, Only(s, S))
  BY <1>1, <1>2, <1>5, OnlyEach
<1>7. Only(s, S) \in Seq(A)
  BY <1>1, OnlyType
<1>8. Each(q, s) = Each(f, s) /\ Each(q, Only(s, S)) = Each(f, Only(s, S))
  BY <1>1, <1>2, <1>7, EachSame
<1> DEFINE t == Each(f, s)
<1>9. t \in Seq(E) /\ Only(t, R) = Each(f, Only(s, S))
  BY <1>6, <1>8, EachType
<1> HIDE DEF t
<1>10. IsInjective(Only(t, R)) /\ ToSet(Only(t, R)) \subseteq ToSet(t)
  <2>1. IsInjective(t)
    BY DEF t
  <2>2. IsInjective(At(t, {i \in DOMAIN t : t[i] \in R}))
    BY <1>9, <2>1, AtInjective
  <2>3. IsInjective(Only(t, R))
    BY <2>2 DEF Only
  <2>4. ToSet(Only(t, R)) \subseteq ToSet(t)
    BY <1>9, OnlySet
  <2> QED BY <2>3, <2>4
<1> QED BY <1>9, <1>10 DEF t

\* A sequence that is not empty, without its last element.
LEMMA FrontAndLast ==
  ASSUME NEW D, NEW s \in Seq(D), s # <<>>
  PROVE  Front(s) \in Seq(D) /\ Last(s) \in D /\ s = Append(Front(s), Last(s)) /\ Len(Front(s)) = Len(s) - 1
BY DEF Front, Last

\* What is kept of the neighbours of a place are its neighbours.
Neighbours(p, n, s, P, j) ==
  /\ (p[j] + 1 \in P /\ p[j] < Len(s)) => j < n /\ p[j + 1] = p[j] + 1
  /\ (p[j] - 1 \in P /\ p[j] # 1) => j # 1 /\ p[j - 1] = p[j] - 1

\* Neighbours that are both kept stay neighbours.
LEMMA NextPlace ==
  ASSUME NEW s, Len(s) \in Nat, NEW P, NEW n \in Nat, NEW p, Places(p, n, s, P), NEW j \in 1..n
  PROVE  Neighbours(p, n, s, P, j)
<1>1. Len(s) \in Nat /\ \A i \in 1..n : p[i] \in 1..Len(s)
  BY DEF Places
<1>2. \A i, k \in 1..n : i < k => p[i] < p[k]
  BY DEF Places
<1>3. \A i \in 1..Len(s) : i \in P => \E k \in 1..n : p[k] = i
  BY DEF Places
<1>4. ASSUME p[j] + 1 \in P, p[j] < Len(s) PROVE j < n /\ p[j + 1] = p[j] + 1
  <2>1. p[j] + 1 \in 1..Len(s)
    BY <1>1, <1>4
  <2>2. PICK k \in 1..n : p[k] = p[j] + 1
    BY <1>3, <1>4, <2>1
  <2>3. ~(k < j) /\ k # j
    BY <1>1, <1>2, <2>2
  <2>4. ASSUME k > j + 1 PROVE FALSE
    <3>1. j + 1 \in 1..n
      BY <2>4
    <3>2. p[j] < p[j + 1] /\ p[j + 1] < p[k]
      BY <1>2, <2>4, <3>1
    <3> QED BY <1>1, <2>2, <3>1, <3>2
  <2>5. k = j + 1
    BY <2>3, <2>4
  <2> QED BY <2>2, <2>5
<1>5. ASSUME p[j] - 1 \in P, p[j] # 1 PROVE j # 1 /\ p[j - 1] = p[j] - 1
  <2>1. p[j] - 1 \in 1..Len(s)
    BY <1>1, <1>5
  <2>2. PICK k \in 1..n : p[k] = p[j] - 1
    BY <1>3, <1>5, <2>1
  <2>3. ~(j < k) /\ k # j
    BY <1>1, <1>2, <2>2
  <2>4. ASSUME k < j - 1 PROVE FALSE
    <3>1. j - 1 \in 1..n
      BY <2>4
    <3>2. p[j - 1] < p[j] /\ p[k] < p[j - 1]
      BY <1>2, <2>4, <3>1
    <3> QED BY <1>1, <2>2, <3>1, <3>2
  <2>5. k = j - 1
    BY <2>3, <2>4
  <2> QED BY <2>2, <2>5
<1> QED BY <1>4, <1>5 DEF Neighbours

\* The sequence of element i starts behind place at[i].
Laid(at, f, s) ==
  LET n == Len(s)
      t == Flat(f, s)
  IN /\ at \in [1..(n + 1) -> Nat] /\ at[1] = 0 /\ Len(t) = at[n + 1]
     /\ \A i \in 1..n : at[i + 1] = at[i] + Len(f[s[i]])
     /\ \A i \in 1..(n + 1) : at[i] <= Len(t)
     /\ \A i \in 1..n : \A j \in 1..Len(f[s[i]]) : t[at[i] + j] = f[s[i]][j]
     /\ \A k \in 1..Len(t) : \E i \in 1..n : \E j \in 1..Len(f[s[i]]) : k = at[i] + j

\* One element more is laid behind the others.
LEMMA LaidMore ==
  ASSUME NEW D, NEW E, NEW f, Maps(f, D, Seq(E)), NEW s \in Seq(D), NEW x \in D,
         NEW at, Laid(at, f, s)
  PROVE  \E more : Laid(more, f, Append(s, x))
<1> DEFINE n == Len(s)
           t == Flat(f, s)
           u == Append(s, x)
           v == Flat(f, u)
           y == f[x]
           more == [i \in 1..(n + 2) |-> IF i <= n + 1 THEN at[i] ELSE at[n + 1] + Len(y)]
<1>1. /\ at \in [1..(n + 1) -> Nat] /\ at[1] = 0 /\ Len(t) = at[n + 1]
      /\ \A i \in 1..n : at[i + 1] = at[i] + Len(f[s[i]])
      /\ \A i \in 1..(n + 1) : at[i] <= Len(t)
      /\ \A i \in 1..n : \A j \in 1..Len(f[s[i]]) : t[at[i] + j] = f[s[i]][j]
      /\ \A k \in 1..Len(t) : \E i \in 1..n : \E j \in 1..Len(f[s[i]]) : k = at[i] + j
  BY DEF Laid
<1>2. n \in Nat /\ u \in Seq(D) /\ Len(u) = n + 1 /\ u[n + 1] = x /\ \A i \in 1..n : u[i] = s[i] /\ s[i] \in D
  OBVIOUS
<1>3. y \in Seq(E) /\ t \in Seq(E) /\ v = t \o y /\ \A i \in 1..n : f[s[i]] \in Seq(E)
  <2>1. y \in Seq(E) /\ \A z \in D : f[z] \in Seq(E)
    BY DEF Maps
  <2>2. t \in Seq(E)
    BY FlatType
  <2>3. v = t \o y
    BY FlatAppend
  <2> QED BY <1>2, <2>1, <2>2, <2>3
<1>4. /\ Len(y) \in Nat /\ Len(t) \in Nat /\ Len(v) = Len(t) + Len(y)
      /\ \A k \in 1..Len(t) : v[k] = t[k]
      /\ \A j \in 1..Len(y) : v[Len(t) + j] = y[j]
  BY <1>3
<1>5. \A i \in 1..n : Len(f[s[i]]) \in Nat
  BY <1>3
<1> HIDE DEF t, u, v, y, n
<1>6. /\ more \in [1..(n + 2) -> Nat] /\ more[n + 2] = at[n + 1] + Len(y)
      /\ \A i \in 1..(n + 1) : more[i] = at[i]
  BY <1>1, <1>2, <1>4
<1> HIDE DEF more
<1>7. more[1] = 0 /\ Len(v) = more[n + 2] /\ \A i \in 1..(n + 1) : more[i + 1] = more[i] + Len(f[u[i]])
  <2>1. more[1] = 0 /\ Len(v) = more[n + 2]
    BY <1>1, <1>2, <1>4, <1>6
  <2>2. ASSUME NEW i \in 1..n PROVE more[i + 1] = more[i] + Len(f[u[i]])
    <3>1. i \in 1..(n + 1) /\ i + 1 \in 1..(n + 1)
      BY <1>2, <2>2
    <3> QED BY <1>1, <1>2, <1>6, <3>1
  <2>3. more[(n + 1) + 1] = more[n + 1] + Len(f[u[n + 1]])
    BY <1>2, <1>6 DEF y
  <2>4. \A i \in 1..(n + 1) : i \in 1..n \/ i = n + 1
    BY <1>2
  <2> QED BY <2>1, <2>2, <2>3, <2>4
<1>8. ASSUME NEW i \in 1..(n + 1), NEW j \in 1..Len(f[u[i]])
      PROVE  v[more[i] + j] = f[u[i]][j]
  <2>1. CASE i \in 1..n
    <3>1. u[i] = s[i] /\ more[i] = at[i] /\ at[i] \in Nat /\ Len(f[s[i]]) \in Nat
      BY <1>1, <1>2, <1>5, <1>6, <2>1
    <3>2. t[at[i] + j] = f[s[i]][j] /\ j \in Nat /\ j > 0 /\ j <= Len(f[s[i]])
      BY <1>1, <1>8, <2>1, <3>1
    <3>3. at[i] + j \in 1..Len(t)
      <4> DEFINE a == at[i]
                 l == Len(f[s[i]])
                 b == at[i + 1]
                 g == Len(t)
      <4>1. b = a + l
        BY <1>1, <2>1
      <4>2. b <= g
        <5>1. i + 1 \in 1..(n + 1)
          BY <1>2, <2>1
        <5> QED BY <1>1, <5>1
      <4>3. a \in Nat /\ l \in Nat /\ g \in Nat /\ j \in Nat /\ j > 0 /\ j <= l
        BY <1>4, <3>1, <3>2
      <4> HIDE DEF a, l, b, g
      <4>4. a + j \in 1..g
        BY <4>1, <4>2, <4>3
      <4> QED BY <4>4 DEF a, g
    <3> QED BY <1>4, <3>1, <3>2, <3>3
  <2>2. CASE i = n + 1
    <3>1. u[i] = x /\ more[i] = Len(t)
      BY <1>1, <1>2, <1>6, <2>2
    <3>2. f[u[i]] = y
      BY <3>1 DEF y
    <3> QED BY <1>4, <1>8, <3>1, <3>2
  <2> QED BY <1>2, <2>1, <2>2
<1>9. ASSUME NEW k \in 1..Len(v)
      PROVE  \E i \in 1..(n + 1) : \E j \in 1..Len(f[u[i]]) : k = more[i] + j
  <2>1. CASE k <= Len(t)
    <3>1. k \in 1..Len(t)
      BY <1>4, <2>1
    <3>2. PICK i \in 1..n : \E j \in 1..Len(f[s[i]]) : k = at[i] + j
      BY <1>1, <3>1
    <3>3. i \in 1..(n + 1) /\ u[i] = s[i] /\ more[i] = at[i]
      BY <1>2, <1>6
    <3> QED BY <3>2, <3>3
  <2>2. CASE k > Len(t)
    <3> DEFINE j == k - Len(t)
    <3>1. j \in 1..Len(y) /\ k = Len(t) + j
      BY <1>4, <2>2
    <3>2. n + 1 \in 1..(n + 1) /\ f[u[n + 1]] = y /\ more[n + 1] = Len(t)
      BY <1>1, <1>2, <1>6 DEF y
    <3> HIDE DEF j
    <3> QED BY <3>1, <3>2
  <2>3. k <= Len(t) \/ k > Len(t)
    BY <1>4
  <2> QED BY <2>1, <2>2, <2>3
<1>11. \A i \in 1..(n + 2) : more[i] <= Len(v)
  <2> TAKE i \in 1..(n + 2)
  <2>1. CASE i \in 1..(n + 1)
    <3>1. more[i] = at[i] /\ at[i] <= Len(t) /\ at[i] \in Nat
      BY <1>1, <1>6, <2>1
    <3> QED BY <1>4, <3>1
  <2>2. CASE i = n + 2
    BY <1>4, <1>7, <2>2
  <2> QED BY <1>2, <2>1, <2>2
<1>10. Laid(more, f, u)
  <2>1. Len(u) = n + 1 /\ (n + 1) + 1 = n + 2
    BY <1>2
  <2> QED BY <1>6, <1>7, <1>8, <1>9, <1>11, <2>1 DEF Laid, v
<1> QED BY <1>10 DEF u

\* The places of a map to sequences.
LEMMA Layout ==
  ASSUME NEW D, NEW E, NEW f, Maps(f, D, Seq(E)), NEW s \in Seq(D)
  PROVE  \E at : Laid(at, f, s)
<1> DEFINE S == {u \in Seq(D) : \E at : Laid(at, f, u)}
<1>1. <<>> \in S
  <2> DEFINE at == [i \in 1..1 |-> 0]
             none == <<>>
  <2>1. Flat(f, none) = <<>>
    BY FlatNone
  <2>2. none \in Seq(D) /\ Len(none) = 0
    OBVIOUS
  <2>3. at \in [1..(0 + 1) -> Nat] /\ at[1] = 0 /\ at[0 + 1] = 0
    OBVIOUS
  <2>4. Laid(at, f, none)
    <3> HIDE DEF at, none
    <3>1. Len(Flat(f, none)) = 0
      BY <2>1
    <3>2. \A i \in 1..(0 + 1) : i = 1
      OBVIOUS
    <3> QED BY <2>2, <2>3, <3>1, <3>2 DEF Laid
  <2> HIDE DEF at
  <2> QED BY <2>2, <2>4
<1>2. ASSUME NEW u \in S, NEW x \in D PROVE Append(u, x) \in S
  <2>1. u \in Seq(D) /\ Append(u, x) \in Seq(D)
    OBVIOUS
  <2>2. PICK at : Laid(at, f, u)
    OBVIOUS
  <2>3. \E more : Laid(more, f, Append(u, x))
    BY <2>1, <2>2, LaidMore
  <2> QED BY <2>1, <2>3
<1>3. S \in SUBSET Seq(D)
  OBVIOUS
<1> HIDE DEF S
<1>4. S = Seq(D)
  BY <1>1, <1>2, <1>3, SeqInd
<1> QED BY <1>4 DEF S

\* The last element of a sequence.
LEMMA LastOf ==
  ASSUME NEW D, NEW s \in Seq(D), s # <<>>
  PROVE  Len(s) \in Nat \ {0} /\ Len(s) \in DOMAIN s /\ Last(s) = s[Len(s)] /\ Last(s) \in D
BY DEF Last

\* A sequence is what it is at its places.
LEMMA SameSeq ==
  ASSUME NEW D, NEW s \in Seq(D)
  PROVE  s = [i \in 1..Len(s) |-> s[i]]
OBVIOUS

\* A place of a sequence that is followed by another.
LEMMA ConcatPlaces ==
  ASSUME NEW D, NEW s \in Seq(D), NEW t \in Seq(D)
  PROVE  /\ s \o t \in Seq(D) /\ Len(s \o t) = Len(s) + Len(t) /\ Len(s) \in Nat /\ Len(t) \in Nat
         /\ DOMAIN (s \o t) = 1..(Len(s) + Len(t))
         /\ \A i \in 1..Len(s) : (s \o t)[i] = s[i]
         /\ \A i \in 1..Len(t) : (s \o t)[Len(s) + i] = t[i]
         /\ SubSeq(s \o t, Len(s) + 1, Len(s \o t)) = t
         /\ SubSeq(s \o t, Len(s \o t) + 1, Len(s \o t)) = <<>>
<1>1. /\ s \o t \in Seq(D) /\ Len(s \o t) = Len(s) + Len(t) /\ Len(s) \in Nat /\ Len(t) \in Nat
      /\ DOMAIN (s \o t) = 1..(Len(s) + Len(t))
      /\ \A i \in 1..Len(s) : (s \o t)[i] = s[i]
      /\ \A i \in 1..Len(t) : (s \o t)[Len(s) + i] = t[i]
  OBVIOUS
<1> DEFINE u == s \o t
           v == SubSeq(u, Len(s) + 1, Len(u))
<1>2. v \in Seq(D) /\ Len(v) = Len(t) /\ \A i \in 1..Len(t) : v[i] = u[Len(s) + i]
  <2>1. u \in Seq(D) /\ Len(u) = Len(s) + Len(t) /\ Len(s) \in Nat /\ Len(t) \in Nat
    BY <1>1
  <2> HIDE DEF u
  <2> QED BY <2>1
<1>3. v = t
  <2>1. \A i \in 1..Len(t) : v[i] = t[i]
    BY <1>1, <1>2
  <2> HIDE DEF v
  <2> QED BY <1>2, <2>1
<1>4. SubSeq(u, Len(u) + 1, Len(u)) = <<>>
  <2>1. u \in Seq(D) /\ Len(u) \in Nat
    BY <1>1
  <2> HIDE DEF u
  <2> QED BY <2>1
<1> QED BY <1>1, <1>3, <1>4

\* An unbroken run of l tool messages behind place k.
RunBehind(body, k, l) ==
  /\ Len(body) \in Nat /\ k \in Nat /\ l \in Nat /\ k + l <= Len(body)
  /\ \A j \in 1..l : body[k + j].role = "tool"
  /\ k + l < Len(body) => body[k + l + 1].role # "tool"

\* The part of a history that is sent.
LEMMA Suffix ==
  ASSUME NEW D, NEW s \in Seq(D), NEW from \in 1..Len(s)
  PROVE  LET t == SubSeq(s, from, Len(s))
         IN t \in Seq(D) /\ ToSet(t) \subseteq ToSet(s) /\ Last(s) \in ToSet(t)
<1> DEFINE t == SubSeq(s, from, Len(s))
           n == Len(s)
<1>1. n \in Nat /\ DOMAIN s = 1..n /\ \A i \in 1..n : s[i] \in D /\ s[i] \in ToSet(s)
  BY ElementsOf
<1>2. t \in Seq(D) /\ Len(t) = n + 1 - from /\ \A i \in 1..(n + 1 - from) : t[i] = s[from + i - 1]
  BY <1>1
<1>3. DOMAIN t = 1..(n + 1 - from)
  BY <1>2
<1>4. \A i \in 1..(n + 1 - from) : from + i - 1 \in 1..n
  BY <1>1
<1> HIDE DEF t
<1>5. \A i \in DOMAIN t : t[i] \in ToSet(s)
  BY <1>1, <1>2, <1>3, <1>4
<1>6. ToSet(t) \subseteq ToSet(s)
  BY <1>5 DEF ToSet
<1>7. Last(s) \in ToSet(t)
  <2>1. n + 1 - from \in 1..(n + 1 - from) /\ from + (n + 1 - from) - 1 = n
    BY <1>1
  <2>2. t[n + 1 - from] = s[n] /\ n + 1 - from \in DOMAIN t
    BY <1>2, <1>3, <2>1
  <2>3. Last(s) = s[n]
    BY DEF Last
  <2> QED BY <2>2, <2>3, ElementsOf, <1>2
<1> QED BY <1>2, <1>6, <1>7 DEF t

\* What a map to sequences begins with.
LEMMA FlatFirst ==
  ASSUME NEW D, NEW E, NEW f, Maps(f, D, Seq(E)), NEW s \in Seq(D), s # <<>>, f[s[1]] # <<>>
  PROVE  Flat(f, s) # <<>> /\ Flat(f, s)[1] = f[s[1]][1]
<1> DEFINE S == {u \in Seq(D) : u # <<>> /\ f[u[1]] # <<>> => Flat(f, u) # <<>> /\ Flat(f, u)[1] = f[u[1]][1]}
<1>1. <<>> \in S
  OBVIOUS
<1>2. ASSUME NEW u \in S, NEW x \in D PROVE Append(u, x) \in S
  <2> DEFINE v == Append(u, x)
  <2>1. u \in Seq(D) /\ v \in Seq(D) /\ f[x] \in Seq(E)
    BY DEF Maps
  <2>2. Flat(f, v) = Flat(f, u) \o f[x] /\ Flat(f, u) \in Seq(E)
    BY <2>1, FlatAppend, FlatType
  <2>3. Flat(f, v) = Flat(f, u) \o f[x]
    BY <2>2
  <2> DEFINE p == Flat(f, u)
             q == f[x]
             w == Flat(f, v)
             z == f[v[1]]
  <2>4. p \in Seq(E) /\ q \in Seq(E) /\ w = p \o q
    BY <2>1, <2>2
  <2>5. CASE u = <<>>
    <3>1. z = q /\ p = <<>>
      BY <2>5, FlatNone
    <3> HIDE DEF p, q, w, z, v
    <3>2. w = q
      BY <2>4, <3>1, ConcatNone
    <3>3. z # <<>> => w # <<>> /\ w[1] = z[1]
      BY <3>1, <3>2
    <3> QED BY <2>1, <3>3 DEF w, z, v
  <2>6. CASE u # <<>>
    <3>1. z = f[u[1]]
      BY <2>1, <2>6
    <3>2. f[u[1]] # <<>> => p # <<>> /\ p[1] = f[u[1]][1]
      BY <2>6
    <3> HIDE DEF p, q, w, z, v
    <3>3. p # <<>> => p \o q # <<>> /\ (p \o q)[1] = p[1]
      BY <2>4
    <3>4. z # <<>> => w # <<>> /\ w[1] = z[1]
      BY <2>4, <3>1, <3>2, <3>3
    <3> QED BY <2>1, <3>4 DEF w, z, v
  <2> QED BY <2>5, <2>6
<1>3. S \in SUBSET Seq(D)
  OBVIOUS
<1> HIDE DEF S
<1>4. S = Seq(D)
  BY <1>1, <1>2, <1>3, SeqInd
<1>5. s \in S
  BY <1>4
<1> QED BY <1>5 DEF S
---------------------------------------------------------------------------
(* Blocks and messages.                                                    *)

\* What texts say, the forms of results and the arguments of calls.
Says == {"words", "blank", "empty"}
Forms == {"long", "rich", "crushed", "texts", "repr", "digest"}
Args == {"given", "none", "free", "void"}

\* The blocks of a message, and those that can be seen.
TextBlocks == [type : {"text"}, text : Says]
UseBlocks == [type : {"tool_use"}, id : STRING, args : Args]
ResultBlocks == [type : {"tool_result"}, id : STRING, form : Forms]
Blocks == TextBlocks \cup {Thinking} \cup UseBlocks \cup ResultBlocks
Seen == {b \in Blocks : b.type # "text" \/ b.text = "words"}

\* The messages of a conversation.
Messages == [role : {"user", "assistant"}, content : Seq(Blocks)]

\* A block is known by its type.
LEMMA BlockTypes ==
  ASSUME NEW b \in Blocks
  PROVE  /\ b.type = "text" <=> b \in TextBlocks
         /\ b.type = "tool_use" <=> b \in UseBlocks
         /\ b.type = "tool_result" <=> b \in ResultBlocks
         /\ b.type = "thinking" <=> b = Thinking
BY DEF Blocks, TextBlocks, UseBlocks, ResultBlocks, Thinking

\* A block is made of its parts.
LEMMA BlockShapes ==
  ASSUME NEW b
  PROVE  /\ b \in TextBlocks => b = Text(b.text) /\ b.text \in Says
         /\ b \in UseBlocks => b = Use(b.id, b.args) /\ b.id \in STRING /\ b.args \in Args
         /\ b \in ResultBlocks => b = Result(b.id, b.form) /\ b.id \in STRING /\ b.form \in Forms
BY DEF TextBlocks, UseBlocks, ResultBlocks, Text, Use, Result

\* The constructors make blocks.
LEMMA BlockForms ==
  /\ \A t \in Says : Text(t) \in TextBlocks /\ Text(t).type = "text" /\ Text(t).text = t
  /\ \A c \in STRING, a \in Args : Use(c, a) \in UseBlocks /\ Use(c, a).id = c /\ Use(c, a).args = a
  /\ \A c \in STRING, form \in Forms :
       Result(c, form) \in ResultBlocks /\ Result(c, form).id = c /\ Result(c, form).form = form
BY DEF TextBlocks, UseBlocks, ResultBlocks, Text, Use, Result

\* A message and its parts.
LEMMA MessageParts ==
  ASSUME NEW role \in {"user", "assistant"}, NEW content \in Seq(Blocks)
  PROVE  /\ Message(role, content) \in Messages
         /\ Message(role, content).role = role /\ Message(role, content).content = content
BY DEF Message, Messages

\* A message is made of its parts.
LEMMA MessageShape ==
  ASSUME NEW m \in Messages
  PROVE  m.role \in {"user", "assistant"} /\ m.content \in Seq(Blocks) /\ m = Message(m.role, m.content)
BY DEF Message, Messages

\* The selections of the model by type, as selections by set.
LEMMA OfTypeIs ==
  ASSUME NEW s \in Seq(Blocks)
  PROVE  /\ Texts(s) = Only(s, TextBlocks) /\ Uses(s) = Only(s, UseBlocks)
         /\ Results(s) = Only(s, ResultBlocks) /\ Others(s) = Only(s, Blocks \ ResultBlocks)
         /\ StripBlank(s) = Only(s, Seen)
<1>1. \A i \in DOMAIN s : s[i] \in Blocks
  BY PlacesOf
<1>2. \A P, S : (\A i \in DOMAIN s : i \in P <=> s[i] \in S) => At(s, P) = Only(s, S)
  BY OnlyIs
<1>3. Texts(s) = Only(s, TextBlocks)
  <2> DEFINE P == {i \in DOMAIN s : s[i].type = "text"}
  <2>1. \A i \in DOMAIN s : i \in P <=> s[i] \in TextBlocks
    BY <1>1, BlockTypes
  <2>2. Texts(s) = At(s, P)
    BY DEF Texts, OfType
  <2> HIDE DEF P
  <2> QED BY <1>2, <2>1, <2>2
<1>4. Uses(s) = Only(s, UseBlocks)
  <2> DEFINE P == {i \in DOMAIN s : s[i].type = "tool_use"}
  <2>1. \A i \in DOMAIN s : i \in P <=> s[i] \in UseBlocks
    BY <1>1, BlockTypes
  <2>2. Uses(s) = At(s, P)
    BY DEF Uses, OfType
  <2> HIDE DEF P
  <2> QED BY <1>2, <2>1, <2>2
<1>5. Results(s) = Only(s, ResultBlocks)
  <2> DEFINE P == {i \in DOMAIN s : s[i].type = "tool_result"}
  <2>1. \A i \in DOMAIN s : i \in P <=> s[i] \in ResultBlocks
    BY <1>1, BlockTypes
  <2>2. Results(s) = At(s, P)
    BY DEF Results, OfType
  <2> HIDE DEF P
  <2> QED BY <1>2, <2>1, <2>2
<1>6. Others(s) = Only(s, Blocks \ ResultBlocks)
  <2> DEFINE P == {i \in DOMAIN s : s[i].type # "tool_result"}
  <2>1. \A i \in DOMAIN s : i \in P <=> s[i] \in Blocks \ ResultBlocks
    BY <1>1, BlockTypes
  <2>2. Others(s) = At(s, P)
    BY DEF Others
  <2> HIDE DEF P
  <2> QED BY <1>2, <2>1, <2>2
<1>7. StripBlank(s) = Only(s, Seen)
  <2> DEFINE P == {i \in DOMAIN s : s[i].type # "text" \/ s[i].text = "words"}
  <2>1. \A i \in DOMAIN s : i \in P <=> s[i] \in Seen
    BY <1>1 DEF Seen
  <2>2. StripBlank(s) = At(s, P)
    BY DEF StripBlank
  <2> HIDE DEF P
  <2> QED BY <1>2, <2>1, <2>2
<1> QED BY <1>3, <1>4, <1>5, <1>6, <1>7

\* Calls, results and texts of a content, with their kind of block.
LEMMA OfTypeTypes ==
  ASSUME NEW s \in Seq(Blocks)
  PROVE  /\ Texts(s) \in Seq(Blocks) /\ ToSet(Texts(s)) = ToSet(s) \cap TextBlocks
         /\ Uses(s) \in Seq(Blocks) /\ ToSet(Uses(s)) = ToSet(s) \cap UseBlocks
         /\ Results(s) \in Seq(Blocks) /\ ToSet(Results(s)) = ToSet(s) \cap ResultBlocks
         /\ Others(s) \in Seq(Blocks) /\ ToSet(Others(s)) = ToSet(s) \cap (Blocks \ ResultBlocks)
         /\ StripBlank(s) \in Seq(Blocks) /\ ToSet(StripBlank(s)) = ToSet(s) \cap Seen
<1>1. \A S : Only(s, S) \in Seq(Blocks) /\ ToSet(Only(s, S)) = ToSet(s) \cap S
  BY OnlyType, OnlySet
<1> QED BY <1>1, OfTypeIs

---------------------------------------------------------------------------
(* The repair of blank texts.                                              *)

\* Cleaning keeps the message, without its blank texts unless it has nothing else.
LEMMA CleanedMessage ==
  ASSUME NEW m \in Messages
  PROVE  /\ CleanMessage(m) \in Messages /\ CleanMessage(m).role = m.role
         /\ \/ /\ CleanMessage(m).content = Only(m.content, Seen)
               /\ CleanMessage(m).content # <<>>
            \/ CleanMessage(m) = m /\ ToSet(m.content) \cap Seen = {}
<1>1. m.role \in {"user", "assistant"} /\ m.content \in Seq(Blocks) /\ m = Message(m.role, m.content)
  BY MessageShape
<1>2. StripBlank(m.content) = Only(m.content, Seen) /\ StripBlank(m.content) \in Seq(Blocks)
  BY <1>1, OfTypeIs, OfTypeTypes
<1>3. CASE StripBlank(m.content) = <<>>
  <2>1. CleanMessage(m) = m
    BY <1>3 DEF CleanMessage
  <2>2. ToSet(m.content) \cap Seen = {}
    BY <1>1, <1>2, <1>3, OnlyNothing
  <2> QED BY <2>1, <2>2
<1>4. CASE StripBlank(m.content) # <<>>
  <2>1. CleanMessage(m) = Message(m.role, StripBlank(m.content))
    BY <1>4 DEF CleanMessage
  <2> QED BY <1>1, <1>2, <1>4, <2>1, MessageParts
<1> QED BY <1>3, <1>4

---------------------------------------------------------------------------
(* Texts joined, and content turned into items.                            *)

\* Joined texts have words exactly if one of them has.
LEMMA JoinedIs ==
  ASSUME NEW s \in Seq(Blocks)
  PROVE  /\ Joined(s) \in Says
         /\ Joined(s) = "words" <=> Text("words") \in ToSet(s)
         /\ ToSet(s) \cap TextBlocks = {} => Joined(s) = "empty"
<1> DEFINE texts == Texts(s)
<1>1. texts \in Seq(Blocks) /\ ToSet(texts) = ToSet(s) \cap TextBlocks
  BY OfTypeTypes
<1>2. /\ DOMAIN texts = 1..Len(texts) /\ Len(texts) \in Nat
      /\ \A i \in DOMAIN texts : texts[i] \in TextBlocks
  <2> HIDE DEF texts
  <2> QED BY <1>1, PlacesOf, ElementsOf
<1>3. Text("words") \in TextBlocks /\ Text("words").text = "words" /\ "words" \in Says
  BY BlockForms DEF Says
<1>4. Joined(s) = IF texts = <<>> THEN "empty"
                  ELSE IF Len(texts) = 1 THEN texts[1].text
                  ELSE IF Text("words") \in ToSet(texts) THEN "words" ELSE "blank"
  BY DEF Joined
<1> HIDE DEF texts
<1>5. CASE texts = <<>>
  BY <1>1, <1>3, <1>4, <1>5 DEF Says, ToSet
<1>6. CASE texts # <<>> /\ Len(texts) = 1
  <2>1. ToSet(texts) = {texts[1]} /\ texts[1] \in TextBlocks
    BY <1>2, <1>6 DEF ToSet
  <2>2. texts[1] = Text(texts[1].text) /\ texts[1].text \in Says
    BY <2>1, BlockShapes
  <2>3. texts[1] = Text("words") <=> texts[1].text = "words"
    BY <1>3, <2>2
  <2> QED BY <1>1, <1>3, <1>4, <1>6, <2>1, <2>2, <2>3
<1>7. CASE texts # <<>> /\ Len(texts) # 1
  <2>1. ToSet(texts) # {}
    BY <1>1, <1>7, SetOfNone
  <2> QED BY <1>1, <1>3, <1>4, <1>7, <2>1 DEF Says
<1> QED BY <1>5, <1>6, <1>7

\* The items of a Responses body.
MessageItems == [type : {"message"}, role : {"user", "assistant"}, text : Says]
CallItems == [type : {"function_call"}, id : STRING, args : Args]
OutputItems == [type : {"function_call_output"}, id : STRING, form : Forms]
Items == MessageItems \cup CallItems \cup OutputItems \cup {ReasoningItem}

\* An item is known by its type.
LEMMA ItemTypes ==
  ASSUME NEW i \in Items
  PROVE  /\ i.type = "message" <=> i \in MessageItems
         /\ i.type = "function_call" <=> i \in CallItems
         /\ i.type = "function_call_output" <=> i \in OutputItems
         /\ i.type = "reasoning" <=> i = ReasoningItem
BY DEF Items, MessageItems, CallItems, OutputItems, ReasoningItem

\* An item is made of its parts.
LEMMA ItemShapes ==
  ASSUME NEW i
  PROVE  /\ i \in MessageItems => /\ i = MessageItem(i.role, i.text)
                                  /\ i.role \in {"user", "assistant"} /\ i.text \in Says
         /\ i \in CallItems => i = CallItem(i.id, i.args) /\ i.id \in STRING /\ i.args \in Args
         /\ i \in OutputItems => i = OutputItem(i.id, i.form) /\ i.id \in STRING /\ i.form \in Forms
BY DEF MessageItems, CallItems, OutputItems, MessageItem, CallItem, OutputItem

\* The constructors make items.
LEMMA ItemForms ==
  /\ \A r \in {"user", "assistant"}, t \in Says :
       /\ MessageItem(r, t) \in MessageItems
       /\ MessageItem(r, t).role = r /\ MessageItem(r, t).text = t
  /\ \A c \in STRING, a \in Args :
       CallItem(c, a) \in CallItems /\ CallItem(c, a).id = c /\ CallItem(c, a).args = a
  /\ \A c \in STRING, f \in Forms :
       OutputItem(c, f) \in OutputItems /\ OutputItem(c, f).id = c /\ OutputItem(c, f).form = f
BY DEF MessageItems, CallItems, OutputItems, MessageItem, CallItem, OutputItem

\* What ContentToItems holds: items, and texts that are not items yet.
Holding == [items : Seq(Items), texts : Seq(Blocks)]
\* The items made so far, and the texts held back (ContentToItems).
Held(items, texts) == [items |-> items, texts |-> texts]
Flushed(role, acc) ==
  IF acc.texts = <<>> THEN acc.items ELSE Append(acc.items, MessageItem(role, Joined(acc.texts)))
ItemsOf(b) ==
  CASE b.type = "tool_use" -> <<CallItem(b.id, b.args)>>
    [] b.type = "tool_result" -> <<OutputItem(b.id, Flattened(b.form))>>
    [] OTHER -> <<>>
Hold(role) ==
  [b \in Blocks |-> [acc \in Holding |->
     IF b.type = "text" THEN Held(acc.items, Append(acc.texts, b))
     ELSE Held(Flushed(role, acc) \o ItemsOf(b), <<>>)]]

\* What is held, and its parts.
LEMMA HeldParts ==
  ASSUME NEW items, NEW texts
  PROVE  /\ Held(items, texts).items = items /\ Held(items, texts).texts = texts
         /\ items \in Seq(Items) /\ texts \in Seq(Blocks) => Held(items, texts) \in Holding
BY DEF Held, Holding

\* The parts of what is held.
LEMMA HoldingParts ==
  ASSUME NEW acc \in Holding
  PROVE  acc.items \in Seq(Items) /\ acc.texts \in Seq(Blocks)
BY DEF Holding

\* Conversion makes forms of forms.
LEMMA FlattenedForm ==
  ASSUME NEW form \in Forms
  PROVE  Flattened(form) \in Forms /\ Printed(form) \in Forms
BY DEF Flattened, Printed, Forms

\* What a block that is no text becomes.
LEMMA ItemsOfBlock ==
  ASSUME NEW b \in Blocks
  PROVE  /\ ItemsOf(b) \in Seq(Items)
         /\ b \in UseBlocks => ItemsOf(b) = <<CallItem(b.id, b.args)>> /\ CallItem(b.id, b.args) \in CallItems
         /\ b \in ResultBlocks =>
              /\ ItemsOf(b) = <<OutputItem(b.id, Flattened(b.form))>>
              /\ OutputItem(b.id, Flattened(b.form)) \in OutputItems
         /\ b \notin UseBlocks \cup ResultBlocks => ItemsOf(b) = <<>>
<1>1. CASE b \in UseBlocks
  <2>1. b.type = "tool_use" /\ b.id \in STRING /\ b.args \in Args
    BY <1>1, BlockShapes, BlockTypes
  <2>2. ItemsOf(b) = <<CallItem(b.id, b.args)>>
    BY <2>1 DEF ItemsOf
  <2>3. CallItem(b.id, b.args) \in CallItems /\ b \notin ResultBlocks
    BY <2>1, ItemForms DEF ResultBlocks
  <2> QED BY <1>1, <2>2, <2>3 DEF Items
<1>2. CASE b \in ResultBlocks
  <2>1. b.type = "tool_result" /\ b.id \in STRING /\ b.form \in Forms
    BY <1>2, BlockShapes, BlockTypes
  <2>2. ItemsOf(b) = <<OutputItem(b.id, Flattened(b.form))>>
    BY <2>1 DEF ItemsOf
  <2>3. OutputItem(b.id, Flattened(b.form)) \in OutputItems /\ b \notin UseBlocks
    BY <2>1, ItemForms, FlattenedForm DEF UseBlocks
  <2> QED BY <1>2, <2>2, <2>3 DEF Items
<1>3. CASE b \notin UseBlocks \cup ResultBlocks
  <2>1. b.type # "tool_use" /\ b.type # "tool_result"
    BY <1>3, BlockTypes
  <2>2. ItemsOf(b) = <<>>
    BY <2>1 DEF ItemsOf
  <2> QED BY <1>3, <2>2
<1> QED BY <1>1, <1>2, <1>3

\* Texts let go make one item more.
LEMMA FlushedType ==
  ASSUME NEW role \in {"user", "assistant"}, NEW acc \in Holding
  PROVE  Flushed(role, acc) \in Seq(Items)
<1>1. acc.items \in Seq(Items) /\ acc.texts \in Seq(Blocks)
  BY HoldingParts
<1>2. MessageItem(role, Joined(acc.texts)) \in Items
  BY <1>1, JoinedIs, ItemForms DEF Items
<1> QED BY <1>1, <1>2 DEF Flushed

\* A text is held back, any other block lets the texts go first.
LEMMA HoldStep ==
  ASSUME NEW role \in {"user", "assistant"}
  PROVE  /\ Step(Hold(role), Blocks, Holding) /\ Held(<<>>, <<>>) \in Holding
         /\ \A b \in Blocks, acc \in Holding :
              Hold(role)[b][acc] = IF b.type = "text" THEN Held(acc.items, Append(acc.texts, b))
                                   ELSE Held(Flushed(role, acc) \o ItemsOf(b), <<>>)
<1>1. ASSUME NEW b \in Blocks, NEW acc \in Holding
      PROVE  /\ Held(acc.items, Append(acc.texts, b)) \in Holding
             /\ Held(Flushed(role, acc) \o ItemsOf(b), <<>>) \in Holding
  <2>1. acc.items \in Seq(Items) /\ acc.texts \in Seq(Blocks) /\ Append(acc.texts, b) \in Seq(Blocks)
    BY HoldingParts
  <2>2. Flushed(role, acc) \o ItemsOf(b) \in Seq(Items) /\ <<>> \in Seq(Blocks)
    BY FlushedType, ItemsOfBlock
  <2> QED BY <2>1, <2>2, HeldParts
<1>2. Held(<<>>, <<>>) \in Holding
  <2>1. <<>> \in Seq(Items) /\ <<>> \in Seq(Blocks)
    OBVIOUS
  <2> QED BY <2>1, HeldParts
<1> QED BY <1>1, <1>2 DEF Hold, Step

\* What is held after some blocks.
Holds(role, s) == FoldOf(Holding, Hold(role), Held(<<>>, <<>>), s)

\* The items of a message are folded from its blocks one by one.
LEMMA ContentToItemsFold ==
  ASSUME NEW m \in Messages
  PROVE  ContentToItems(m) = Flushed(m.role, Holds(m.role, m.content))
<1> DEFINE role == m.role
           s == m.content
           n == Len(s)
           base == Held(<<>>, <<>>)
           f == Hold(role)
           After(acc, b) == IF b.type = "text"
                            THEN [items |-> acc.items, texts |-> Append(acc.texts, b)]
                            ELSE [items |-> (IF acc.texts = <<>> THEN acc.items
                                             ELSE Append(acc.items, MessageItem(m.role, Joined(acc.texts))))
                                            \o (CASE b.type = "tool_use" -> <<CallItem(b.id, b.args)>>
                                                  [] b.type = "tool_result" -> <<OutputItem(b.id, Flattened(b.form))>>
                                                  [] OTHER -> <<>>),
                                  texts |-> <<>>]
           Is(h) == h = [T \in SUBSET DOMAIN s |->
                           IF T = {} THEN [items |-> <<>>, texts |-> <<>>]
                           ELSE After(h[T \ {Max(T)}], s[Max(T)])]
           iter == CHOOSE h : Is(h)
<1>1. role \in {"user", "assistant"} /\ s \in Seq(Blocks)
  BY MessageShape
<1>2. n \in Nat /\ DOMAIN s = 1..n /\ \A i \in 1..n : s[i] \in Blocks
  <2> HIDE DEF s
  <2> QED BY <1>1, PlacesOf
<1>3. /\ Step(f, Blocks, Holding) /\ base \in Holding
      /\ \A b \in Blocks, acc \in Holding :
           f[b][acc] = IF b.type = "text" THEN Held(acc.items, Append(acc.texts, b))
                       ELSE Held(Flushed(role, acc) \o ItemsOf(b), <<>>)
  <2> HIDE DEF role
  <2> QED BY <1>1, HoldStep
<1>4. \A b, acc : After(acc, b) = IF b.type = "text" THEN Held(acc.items, Append(acc.texts, b))
                                 ELSE Held(Flushed(role, acc) \o ItemsOf(b), <<>>)
  BY DEF Held, Flushed, ItemsOf
<1>5. ContentToItems(m) =
        IF iter[DOMAIN s].texts = <<>> THEN iter[DOMAIN s].items
        ELSE Append(iter[DOMAIN s].items, MessageItem(m.role, Joined(iter[DOMAIN s].texts)))
  BY DEF ContentToItems, FoldLeft, MapThenFoldSet
<1> HIDE DEF After
<1>6. PICK h \in [SUBSET (1..Len(s)) -> Holding] : SetsOf(h, f, base, s)
  <2> HIDE DEF base, f, Is, iter, s
  <2> QED BY <1>1, <1>3, SetsOfFold
<1>7. \A b \in Blocks, acc \in Holding : After(acc, b) = f[b][acc]
  <2> HIDE DEF f, role
  <2> QED BY <1>3, <1>4
<1>8. base = [items |-> <<>>, texts |-> <<>>]
  BY DEF Held
<1>9. Is(h)
  <2> HIDE DEF f, base, s
  <2> SUFFICES ASSUME NEW T \in SUBSET (1..n)
               PROVE  h[T] = IF T = {} THEN base ELSE After(h[T \ {Max(T)}], s[Max(T)])
    BY <1>2, <1>8
  <2>1. CASE T = {}
    BY <1>6, <2>1 DEF SetsOf
  <2>2. CASE T # {}
    <3>1. Max(T) \in 1..n /\ h[T \ {Max(T)}] \in Holding /\ h[T] = f[s[Max(T)]][h[T \ {Max(T)}]]
      BY <1>6, <2>2 DEF SetsOf
    <3>2. s[Max(T)] \in Blocks
      BY <1>2, <3>1
    <3> QED BY <1>7, <2>2, <3>1, <3>2
  <2> QED BY <2>1, <2>2
<1>10. Is(iter)
  BY <1>9
<1>11. SetSteps(iter, Holding, f, base, s)
  <2> DEFINE k == iter
  <2>1. Is(k)
    BY <1>10
  <2> HIDE DEF k, f, base, s
  <2>2. k[{}] = base
    BY <1>8, <2>1
  <2>3. ASSUME NEW T \in SUBSET (1..n), T # {}, k[T \ {Max(T)}] \in Holding
        PROVE  k[T] = f[s[Max(T)]][k[T \ {Max(T)}]]
    <3>1. k[T] = After(k[T \ {Max(T)}], s[Max(T)])
      BY <1>2, <2>1, <2>3
    <3>2. Max(T) \in 1..n
      BY <1>2, <2>3, LastOfSome
    <3>3. s[Max(T)] \in Blocks
      BY <1>2, <3>2
    <3> HIDE DEF Is
    <3> QED BY <1>7, <2>3, <3>1, <3>3
  <2>4. SetSteps(k, Holding, f, base, s)
    BY <2>2, <2>3 DEF SetSteps
  <2> QED BY <2>4 DEF k
<1> HIDE DEF base, f, iter, s
<1>12. iter[1..Len(s)] = FoldOf(Holding, f, base, s)
  BY <1>1, <1>3, <1>11, FoldOfSets
<1>13. iter[DOMAIN s] = Holds(role, s)
  BY <1>2, <1>12 DEF Holds, f, base
<1> QED BY <1>5, <1>13 DEF Flushed, s

\* An item more for each block that is no text; texts wait for such a block.
LEMMA HoldsSteps ==
  ASSUME NEW role \in {"user", "assistant"}
  PROVE  /\ Holds(role, <<>>) = Held(<<>>, <<>>)
         /\ \A s \in Seq(Blocks) : Holds(role, s) \in Holding
         /\ \A s \in Seq(Blocks), b \in Blocks :
              Holds(role, Append(s, b)) =
                IF b.type = "text" THEN Held(Holds(role, s).items, Append(Holds(role, s).texts, b))
                ELSE Held(Flushed(role, Holds(role, s)) \o ItemsOf(b), <<>>)
<1> DEFINE f == Hold(role)
           base == Held(<<>>, <<>>)
<1>1. /\ Step(f, Blocks, Holding) /\ base \in Holding
      /\ \A b \in Blocks, acc \in Holding :
           f[b][acc] = IF b.type = "text" THEN Held(acc.items, Append(acc.texts, b))
                       ELSE Held(Flushed(role, acc) \o ItemsOf(b), <<>>)
  BY HoldStep
<1> HIDE DEF f, base
<1>2. FoldOf(Holding, f, base, <<>>) = base
  BY <1>1, FoldOfNone
<1>3. \A s \in Seq(Blocks) : FoldOf(Holding, f, base, s) \in Holding
  BY <1>1, FoldOfType
<1>4. \A s \in Seq(Blocks), b \in Blocks :
        FoldOf(Holding, f, base, Append(s, b)) = f[b][FoldOf(Holding, f, base, s)]
  BY <1>1, FoldOfAppend
<1>5. \A s : Holds(role, s) = FoldOf(Holding, f, base, s)
  BY DEF Holds, f, base
<1> QED BY <1>1, <1>2, <1>3, <1>4, <1>5 DEF base

---------------------------------------------------------------------------
(* A reply: texts and thinking, then calls.  Every stage on its way back   *)
(* keeps that shape, the calls and whether there are words.                *)

\* The blocks that are no calls and no results.
Quiet == TextBlocks \cup {Thinking}

\* Something is said among the blocks.
QuietWords(s) == Text("words") \in ToSet(s)

\* How the kinds of blocks relate.
LEMMA QuietBlocks ==
  /\ Quiet \subseteq Blocks /\ TextBlocks \subseteq Quiet /\ UseBlocks \subseteq Blocks
  /\ Quiet \cap UseBlocks = {} /\ Quiet \cap ResultBlocks = {} /\ UseBlocks \cap ResultBlocks = {}
  /\ TextBlocks \cap UseBlocks = {} /\ Thinking \notin TextBlocks /\ Thinking \notin UseBlocks
  /\ UseBlocks \subseteq Seen /\ Thinking \in Seen /\ Thinking \in Quiet /\ Thinking \in Blocks
  /\ \A b \in Quiet : b \in Seen <=> b = Thinking \/ b = Text("words")
BY DEF Quiet, Blocks, TextBlocks, UseBlocks, ResultBlocks, Thinking, Text, Seen, Says

\* A reply is some quiet blocks, then calls.
LEMMA ReplyParts ==
  ASSUME NEW pre \in Seq(Quiet), NEW us \in Seq(UseBlocks)
  PROVE  /\ pre \in Seq(Blocks) /\ us \in Seq(Blocks) /\ pre \o us \in Seq(Blocks)
         /\ ToSet(pre) \subseteq Quiet /\ ToSet(us) \subseteq UseBlocks
         /\ ToSet(pre \o us) = ToSet(pre) \cup ToSet(us)
         /\ Uses(pre \o us) = us
<1>1. pre \in Seq(Blocks) /\ us \in Seq(Blocks)
  BY QuietBlocks, WiderSeq
<1>2. pre \o us \in Seq(Blocks) /\ ToSet(pre \o us) = ToSet(pre) \cup ToSet(us)
  BY <1>1, ConcatType, ConcatSet
<1>3. ToSet(pre) \subseteq Quiet /\ ToSet(us) \subseteq UseBlocks
  BY ElementsOf
<1>4. Uses(pre \o us) = us
  <2>1. Uses(pre \o us) = Only(pre \o us, UseBlocks)
    BY <1>2, OfTypeIs
  <2>2. Only(pre \o us, UseBlocks) = Only(pre, UseBlocks) \o Only(us, UseBlocks)
    BY <1>1, OnlyConcat
  <2>3. Only(pre, UseBlocks) = <<>>
    BY <1>1, <1>3, QuietBlocks, OnlyNothing
  <2>4. Only(us, UseBlocks) = us
    BY <1>1, <1>3, OnlyAll
  <2> QED BY <1>1, <2>1, <2>2, <2>3, <2>4, ConcatNone
<1> QED BY <1>1, <1>2, <1>3, <1>4

\* The repair of a reply leaves the calls and what can be seen.
LEMMA StripBlankReply ==
  ASSUME NEW pre \in Seq(Quiet), NEW us \in Seq(UseBlocks)
  PROVE  /\ StripBlank(pre \o us) = Only(pre, Seen) \o us
         /\ Only(pre, Seen) \in Seq(Quiet) /\ ToSet(Only(pre, Seen)) = ToSet(pre) \cap Seen
<1>1. pre \in Seq(Blocks) /\ us \in Seq(Blocks) /\ pre \o us \in Seq(Blocks) /\ ToSet(us) \subseteq Seen
  BY ReplyParts, QuietBlocks
<1>2. StripBlank(pre \o us) = Only(pre \o us, Seen)
  BY <1>1, OfTypeIs
<1>3. Only(pre \o us, Seen) = Only(pre, Seen) \o Only(us, Seen)
  BY <1>1, OnlyConcat
<1>4. Only(us, Seen) = us
  BY <1>1, OnlyAll
<1> QED BY <1>2, <1>3, <1>4, OnlyType, OnlySet

\* What a stream made up for the client tells.
LEMMA SynthesizedReply ==
  ASSUME NEW pre \in Seq(Quiet), NEW us \in Seq(UseBlocks)
  PROVE  \E t \in Seq(TextBlocks) :
           /\ Synthesized(pre \o us) = t \o us
           /\ QuietWords(t) <=> QuietWords(pre)
           /\ DOMAIN t = DOMAIN pre /\ \A j \in DOMAIN t : t[j] = pre[j] \/ pre[j] = Thinking
<1> DEFINE told == [b \in Quiet \cup UseBlocks |-> CASE b.type = "tool_use" -> b
                                                    [] b.type = "text" -> b
                                                    [] OTHER -> Text("empty")]
           E == Quiet \cup UseBlocks
           s == pre \o us
<1>1. \A b \in E : told[b] = IF b = Thinking THEN Text("empty") ELSE b
  <2> SUFFICES ASSUME NEW b \in E PROVE told[b] = IF b = Thinking THEN Text("empty") ELSE b
    OBVIOUS
  <2>1. b \in Blocks
    BY QuietBlocks
  <2>2. CASE b = Thinking
    BY <2>2 DEF Thinking
  <2>3. CASE b # Thinking
    <3>1. b.type = "tool_use" \/ b.type = "text"
      BY <2>1, <2>3, BlockTypes, QuietBlocks DEF Quiet
    <3>2. told[b] = b
      BY <3>1
    <3> QED BY <2>3, <3>2
  <2> QED BY <2>2, <2>3
<1>2. Text("empty") \in TextBlocks /\ Text("empty") # Text("words") /\ Text("words") # Thinking
  BY BlockForms DEF Says, Text, Thinking
<1>3. Maps(told, E, E) /\ Maps([b \in Quiet |-> told[b]], Quiet, TextBlocks)
  <2>1. \A b \in E : told[b] \in E
    BY <1>1, <1>2, QuietBlocks
  <2>2. \A b \in Quiet : told[b] \in TextBlocks
    BY <1>1, <1>2, QuietBlocks DEF Quiet
  <2>3. told = [b \in E |-> told[b]]
    OBVIOUS
  <2> HIDE DEF told
  <2> QED BY <2>1, <2>2, <2>3 DEF Maps
<1>4. pre \in Seq(E) /\ us \in Seq(E) /\ s \in Seq(E)
  <2>1. pre \in Seq(E) /\ us \in Seq(E)
    BY WiderSeq
  <2> HIDE DEF E
  <2> QED BY <2>1
<1>5. Synthesized(s) = Each(told, s)
  <2>1. \A i \in DOMAIN s : s[i] \in E
    <3> HIDE DEF s, E
    <3> QED BY <1>4, PlacesOf
  <2> HIDE DEF s
  <2> QED BY <2>1 DEF Synthesized, Each
<1> HIDE DEF told
<1>6. Each(told, s) = Each(told, pre) \o Each(told, us)
  <2> HIDE DEF E
  <2> QED BY <1>3, <1>4, EachConcat
<1>7. Each(told, us) = us
  <2>1. DOMAIN us = 1..Len(us) /\ \A i \in DOMAIN us : us[i] \in UseBlocks
    BY PlacesOf
  <2>2. \A i \in DOMAIN us : told[us[i]] = us[i]
    BY <1>1, <2>1, QuietBlocks
  <2> QED BY <2>1, <2>2 DEF Each
<1> DEFINE t == Each(told, pre)
           q == [b \in Quiet |-> told[b]]
<1>8. t = Each(q, pre)
  <2>1. \A i \in DOMAIN pre : pre[i] \in Quiet
    BY PlacesOf
  <2> QED BY <2>1 DEF Each
<1> HIDE DEF q, t
<1>9. t \in Seq(TextBlocks) /\ ToSet(t) = {q[b] : b \in ToSet(pre)}
  <2>1. Maps(q, Quiet, TextBlocks)
    BY <1>3 DEF q
  <2> QED BY <1>8, <2>1, EachType, EachSet
<1>10. ToSet(pre) \subseteq Quiet
  BY ElementsOf
<1>11. \A b \in Quiet : q[b] = IF b = Thinking THEN Text("empty") ELSE b
  BY <1>1 DEF q
<1>12. QuietWords(t) <=> QuietWords(pre)
  BY <1>2, <1>9, <1>10, <1>11 DEF QuietWords
<1>13. DOMAIN t = DOMAIN pre /\ \A j \in DOMAIN t : t[j] = pre[j] \/ pre[j] = Thinking
  <2>1. \A j \in DOMAIN pre : pre[j] \in Quiet
    BY PlacesOf
  <2> QED BY <1>8, <1>11, <2>1 DEF Each
<1> QED BY <1>5, <1>6, <1>7, <1>9, <1>12, <1>13 DEF t

\* A text that is joined from all the texts, and the calls: Chat and LiteLLM.
LEMMA JoinedReply ==
  ASSUME NEW pre \in Seq(Quiet), NEW us \in Seq(UseBlocks)
  PROVE  \E t \in Seq(TextBlocks) :
           /\ (IF Joined(pre \o us) = "empty" THEN <<>> ELSE <<Text(Joined(pre \o us))>>) \o Uses(pre \o us)
                = t \o us
           /\ QuietWords(t) <=> QuietWords(pre)
<1> DEFINE s == pre \o us
           t == IF Joined(s) = "empty" THEN <<>> ELSE <<Text(Joined(s))>>
<1>1. s \in Seq(Blocks) /\ Uses(s) = us /\ ToSet(s) = ToSet(pre) \cup ToSet(us) /\ ToSet(us) \subseteq UseBlocks
  BY ReplyParts
<1>2. Joined(s) \in Says /\ (Joined(s) = "words" <=> Text("words") \in ToSet(s))
  <2> HIDE DEF s
  <2> QED BY <1>1, JoinedIs
<1>3. Text("words") \in TextBlocks /\ \A x \in Says : Text(x) \in TextBlocks /\ (Text(x) = Text("words") => x = "words")
  BY BlockForms DEF Says
<1>4. Text("words") \in ToSet(s) <=> QuietWords(pre)
  BY <1>1, <1>3, QuietBlocks DEF QuietWords
<1> HIDE DEF s
<1>5. t \in Seq(TextBlocks)
  BY <1>2, <1>3
<1>6. QuietWords(t) <=> Joined(s) = "words"
  <2>1. CASE Joined(s) = "empty"
    BY <2>1 DEF QuietWords, ToSet
  <2>2. CASE Joined(s) # "empty"
    <3>1. ToSet(t) = {Text(Joined(s))}
      BY <2>2 DEF ToSet
    <3> QED BY <1>2, <1>3, <3>1 DEF QuietWords
  <2> QED BY <2>1, <2>2
<1>7. t \o Uses(s) = t \o us /\ (QuietWords(t) <=> QuietWords(pre))
  BY <1>1, <1>2, <1>4, <1>6
<1> QED BY <1>5, <1>7 DEF t, s

---------------------------------------------------------------------------
(* A reply as items, and items read.                                       *)

\* A block that is no text adds its own item at the end.
LEMMA ItemsNext ==
  ASSUME NEW role \in {"user", "assistant"}, NEW s \in Seq(Blocks), NEW b \in Blocks, b \notin TextBlocks
  PROVE  Flushed(role, Holds(role, Append(s, b))) = Flushed(role, Holds(role, s)) \o ItemsOf(b)
<1>1. b.type # "text"
  BY BlockTypes
<1> DEFINE X == Flushed(role, Holds(role, s)) \o ItemsOf(b)
<1>2. Holds(role, Append(s, b)) = Held(X, <<>>)
  BY <1>1, HoldsSteps
<1> HIDE DEF X
<1>3. Held(X, <<>>).texts = <<>> /\ Held(X, <<>>).items = X
  BY HeldParts
<1> QED BY <1>2, <1>3 DEF Flushed, X

\* The item of a call.
CallOf == [b \in UseBlocks |-> CallItem(b.id, b.args)]

\* A call becomes one item.
LEMMA CallOfUse ==
  Maps(CallOf, UseBlocks, CallItems) /\ \A b \in UseBlocks : CallOf[b] = CallItem(b.id, b.args)
<1>1. \A b \in UseBlocks : CallItem(b.id, b.args) \in CallItems
  BY BlockShapes, ItemForms
<1> QED BY <1>1 DEF CallOf, Maps

\* Calls become items one by one.
LEMMA ItemsOfCalls ==
  ASSUME NEW role \in {"user", "assistant"}, NEW s \in Seq(Blocks), NEW us \in Seq(UseBlocks)
  PROVE  Flushed(role, Holds(role, s \o us)) = Flushed(role, Holds(role, s)) \o Each(CallOf, us)
<1> DEFINE I(x) == Flushed(role, Holds(role, x))
           S == {t \in Seq(UseBlocks) : I(s \o t) = I(s) \o Each(CallOf, t)}
<1>0. \A t \in Seq(Blocks) : I(t) \in Seq(Items)
  BY HoldsSteps, FlushedType
<1>1. <<>> \in S
  <2>1. s \o <<>> = s /\ I(s) \o <<>> = I(s)
    BY <1>0, ConcatNone
  <2>2. <<>> \in Seq(UseBlocks) /\ Each(CallOf, <<>>) = <<>>
    BY EachNone
  <2> HIDE DEF I
  <2> QED BY <2>1, <2>2
<1>2. ASSUME NEW t \in S, NEW b \in UseBlocks PROVE Append(t, b) \in S
  <2>1. t \in Seq(UseBlocks) /\ Append(t, b) \in Seq(UseBlocks) /\ I(s \o t) = I(s) \o Each(CallOf, t)
    OBVIOUS
  <2> HIDE DEF S
  <2>2. t \in Seq(Blocks) /\ b \in Blocks /\ b \notin TextBlocks
    BY <2>1, QuietBlocks, WiderSeq
  <2>3. s \o Append(t, b) = Append(s \o t, b) /\ s \o t \in Seq(Blocks)
    BY <2>2, ConcatAppend
  <2>4. I(Append(s \o t, b)) = I(s \o t) \o ItemsOf(b)
    <3> DEFINE u == s \o t
    <3>1. u \in Seq(Blocks)
      BY <2>3
    <3> HIDE DEF u
    <3>2. I(Append(u, b)) = I(u) \o ItemsOf(b)
      BY <2>2, <3>1, ItemsNext
    <3> QED BY <3>2 DEF u
  <2>5. ItemsOf(b) = <<CallOf[b]>>
    BY <2>2, ItemsOfBlock, CallOfUse
  <2>6. /\ Each(CallOf, Append(t, b)) = Append(Each(CallOf, t), CallOf[b])
        /\ Each(CallOf, t) \in Seq(CallItems)
    BY <2>1, CallOfUse, EachAppend, EachType
  <2>7. Each(CallOf, t) \in Seq(Items) /\ I(s) \in Seq(Items) /\ CallOf[b] \in Items
    <3>1. CallItems \subseteq Items
      BY DEF Items
    <3>2. CallOf[b] \in CallItems
      BY CallOfUse DEF Maps
    <3> QED BY <1>0, <2>6, <3>1, <3>2, WiderSeq
  <2> DEFINE x == I(s)
             e == Each(CallOf, t)
             c == CallOf[b]
  <2>8. (x \o e) \o <<c>> = x \o Append(e, c)
    <3> HIDE DEF x, e, c, I
    <3>1. x \in Seq(Items) /\ e \in Seq(Items) /\ c \in Items
      BY <2>7 DEF x, e, c
    <3>2. x \o Append(e, c) = Append(x \o e, c) /\ x \o e \in Seq(Items)
      BY <3>1, ConcatAppend
    <3>3. \A v \in Seq(Items) : Append(v, c) = v \o <<c>>
      BY <3>1
    <3> QED BY <3>2, <3>3
  <2> HIDE DEF I, x, e, c
  <2>9. I(s \o Append(t, b)) = I(s) \o Each(CallOf, Append(t, b))
    BY <2>1, <2>3, <2>4, <2>5, <2>6, <2>8 DEF x, e, c
  <2> QED BY <2>1, <2>9 DEF S
<1>3. S = Seq(UseBlocks)
  <2> HIDE DEF S
  <2>1. S \in SUBSET Seq(UseBlocks)
    BY DEF S
  <2> QED BY <1>1, <1>2, <2>1, SeqInd
<1> QED BY <1>3

\* Something is said among the items.
HasWords(items) == \E i \in ToSet(items) : i.text = "words"

\* Texts and thinking become messages, with words if there were words.
LEMMA ItemsOfQuiet ==
  ASSUME NEW role \in {"user", "assistant"}, NEW s \in Seq(Quiet)
  PROVE  /\ Flushed(role, Holds(role, s)) \in Seq(MessageItems)
         /\ HasWords(Flushed(role, Holds(role, s))) <=> QuietWords(s)
<1> DEFINE Ok(t, acc) == /\ acc.items \in Seq(MessageItems) /\ acc.texts \in Seq(Blocks)
                         /\ HasWords(acc.items) \/ QuietWords(acc.texts) <=> QuietWords(t)
           S == {t \in Seq(Quiet) : Ok(t, Holds(role, t))}
<1>0. \A acc : \A t : Ok(t, acc) =>
         /\ Flushed(role, acc) \in Seq(MessageItems)
         /\ HasWords(Flushed(role, acc)) <=> QuietWords(t)
  <2> SUFFICES ASSUME NEW acc, NEW t, Ok(t, acc)
               PROVE  /\ Flushed(role, acc) \in Seq(MessageItems)
                      /\ HasWords(Flushed(role, acc)) <=> QuietWords(t)
    OBVIOUS
  <2>1. CASE acc.texts = <<>>
    <3>1. ~QuietWords(acc.texts)
      BY <2>1 DEF QuietWords, ToSet
    <3> QED BY <2>1, <3>1 DEF Flushed
  <2>2. CASE acc.texts # <<>>
    <3> DEFINE i == MessageItem(role, Joined(acc.texts))
    <3>1. i \in MessageItems /\ i.text = Joined(acc.texts)
      BY JoinedIs, ItemForms
    <3>2. i.text = "words" <=> QuietWords(acc.texts)
      BY <3>1, JoinedIs DEF QuietWords
    <3> HIDE DEF i
    <3>3. Append(acc.items, i) \in Seq(MessageItems) /\ ToSet(Append(acc.items, i)) = ToSet(acc.items) \cup {i}
      BY <3>1, AppendSet
    <3>4. HasWords(Append(acc.items, i)) <=> HasWords(acc.items) \/ i.text = "words"
      BY <3>3 DEF HasWords
    <3>5. Flushed(role, acc) = Append(acc.items, i)
      BY <2>2 DEF Flushed, i
    <3> QED BY <3>2, <3>3, <3>4, <3>5
  <2> QED BY <2>1, <2>2
<1>1. <<>> \in S
  <2>1. Held(<<>>, <<>>).items = <<>> /\ Held(<<>>, <<>>).texts = <<>>
    BY HeldParts
  <2>2. ~HasWords(<<>>) /\ ~QuietWords(<<>>)
    BY DEF HasWords, QuietWords, ToSet
  <2>3. <<>> \in Seq(MessageItems) /\ <<>> \in Seq(Blocks) /\ <<>> \in Seq(Quiet)
    OBVIOUS
  <2> QED BY <2>1, <2>2, <2>3, HoldsSteps
<1>2. ASSUME NEW t \in S, NEW b \in Quiet PROVE Append(t, b) \in S
  <2> DEFINE acc == Holds(role, t)
             new == Holds(role, Append(t, b))
  <2>1. t \in Seq(Quiet) /\ Append(t, b) \in Seq(Quiet) /\ Ok(t, acc)
    OBVIOUS
  <2> HIDE DEF S
  <2>2. t \in Seq(Blocks) /\ b \in Blocks
    BY <2>1, QuietBlocks, WiderSeq
  <2>3. new = IF b.type = "text" THEN Held(acc.items, Append(acc.texts, b))
              ELSE Held(Flushed(role, acc) \o ItemsOf(b), <<>>)
    BY <2>2, HoldsSteps
  <2>4. QuietWords(Append(t, b)) <=> QuietWords(t) \/ b = Text("words")
    BY <2>1, AppendSet DEF QuietWords
  <2> HIDE DEF acc, new
  <2>5. CASE b \in TextBlocks
    <3>1. new = Held(acc.items, Append(acc.texts, b))
      BY <2>2, <2>3, <2>5, BlockTypes
    <3>2. Append(acc.texts, b) \in Seq(Blocks) /\ (QuietWords(Append(acc.texts, b)) <=> QuietWords(acc.texts) \/ b = Text("words"))
      BY <2>1, <2>2, AppendSet DEF QuietWords
    <3>3. new.items = acc.items /\ new.texts = Append(acc.texts, b)
      BY <3>1, HeldParts
    <3>4. Ok(Append(t, b), new)
      BY <2>1, <2>4, <3>2, <3>3
    <3> QED BY <2>1, <3>4 DEF S, new
  <2>6. CASE b \notin TextBlocks
    <3>1. b = Thinking /\ b \notin UseBlocks \cup ResultBlocks /\ b # Text("words")
      BY <2>6, QuietBlocks, BlockForms DEF Quiet, Says
    <3>2. ItemsOf(b) = <<>> /\ b.type # "text"
      BY <2>2, <2>6, <3>1, ItemsOfBlock, BlockTypes
    <3>3. Flushed(role, acc) \in Seq(MessageItems) /\ (HasWords(Flushed(role, acc)) <=> QuietWords(t))
      BY <1>0, <2>1
    <3>4. new = Held(Flushed(role, acc), <<>>)
      BY <2>3, <3>2, <3>3, ConcatNone
    <3>5. new.items = Flushed(role, acc) /\ new.texts = <<>>
      BY <3>4, HeldParts
    <3>6. ~QuietWords(<<>>) /\ <<>> \in Seq(Blocks)
      BY DEF QuietWords, ToSet
    <3>7. Ok(Append(t, b), new)
      BY <2>4, <3>1, <3>3, <3>5, <3>6
    <3> QED BY <2>1, <3>7 DEF S, new
  <2> QED BY <2>5, <2>6
<1>3. S = Seq(Quiet)
  <2> HIDE DEF S
  <2>1. S \in SUBSET Seq(Quiet)
    BY DEF S
  <2> QED BY <1>1, <1>2, <2>1, SeqInd
<1>4. Ok(s, Holds(role, s))
  <2> HIDE DEF Ok
  <2> QED BY <1>3
<1> QED BY <1>0, <1>4

\* What a client of the Responses wire, and a provider of it, makes of a block.
RespItem(role) ==
  [b \in Blocks |-> CASE b.type = "text" -> MessageItem(role, b.text)
                      [] b.type = "thinking" -> ReasoningItem
                      [] b.type = "tool_use" -> CallItem(b.id, b.args)
                      [] b.type = "tool_result" -> OutputItem(b.id, b.form)]

\* What each block becomes in a Responses body.
LEMMA RespItems ==
  ASSUME NEW role \in {"user", "assistant"}
  PROVE  /\ Maps(RespItem(role), Blocks, Items)
         /\ \A b \in TextBlocks : /\ RespItem(role)[b] = MessageItem(role, b.text)
                                  /\ RespItem(role)[b] \in MessageItems
         /\ RespItem(role)[Thinking] = ReasoningItem
         /\ \A b \in UseBlocks : /\ RespItem(role)[b] = CallItem(b.id, b.args)
                                 /\ RespItem(role)[b] \in CallItems
         /\ \A b \in ResultBlocks : /\ RespItem(role)[b] = OutputItem(b.id, b.form)
                                    /\ RespItem(role)[b] \in OutputItems
<1>1. ASSUME NEW b \in TextBlocks
      PROVE  RespItem(role)[b] = MessageItem(role, b.text) /\ RespItem(role)[b] \in MessageItems
  <2>1. b \in Blocks /\ b.type = "text" /\ b.text \in Says
    BY BlockTypes, BlockShapes DEF Blocks
  <2>2. RespItem(role)[b] = MessageItem(role, b.text)
    BY <2>1 DEF RespItem
  <2> QED BY <2>1, <2>2, ItemForms
<1>2. RespItem(role)[Thinking] = ReasoningItem
  <2>1. Thinking \in Blocks /\ Thinking.type = "thinking"
    BY DEF Blocks, Thinking
  <2> QED BY <2>1 DEF RespItem
<1>3. ASSUME NEW b \in UseBlocks
      PROVE  RespItem(role)[b] = CallItem(b.id, b.args) /\ RespItem(role)[b] \in CallItems
  <2>1. b \in Blocks /\ b.type = "tool_use" /\ b.id \in STRING /\ b.args \in Args
    BY BlockTypes, BlockShapes DEF Blocks
  <2>2. RespItem(role)[b] = CallItem(b.id, b.args)
    BY <2>1 DEF RespItem
  <2>3. CallItem(b.id, b.args) \in CallItems
    BY <2>1, ItemForms
  <2> QED BY <2>2, <2>3
<1>4. ASSUME NEW b \in ResultBlocks
      PROVE  RespItem(role)[b] = OutputItem(b.id, b.form) /\ RespItem(role)[b] \in OutputItems
  <2>1. b \in Blocks /\ b.type = "tool_result" /\ b.id \in STRING /\ b.form \in Forms
    BY BlockTypes, BlockShapes DEF Blocks
  <2>2. RespItem(role)[b] = OutputItem(b.id, b.form)
    BY <2>1 DEF RespItem
  <2>3. OutputItem(b.id, b.form) \in OutputItems
    BY <2>1, ItemForms
  <2> QED BY <2>2, <2>3
<1>5. \A b \in Blocks : RespItem(role)[b] \in Items
  BY <1>1, <1>2, <1>3, <1>4 DEF Blocks, Items
<1>6. Maps(RespItem(role), Blocks, Items)
  BY <1>5 DEF Maps, RespItem
<1> QED BY <1>1, <1>2, <1>3, <1>4, <1>6

\* A message becomes one item for each block.
LEMMA ToResponsesIs ==
  ASSUME NEW m \in Messages
  PROVE  ToResponses(m) = Each(RespItem(m.role), m.content)
<1> DEFINE s == m.content
<1>1. \A i \in DOMAIN s : s[i] \in Blocks
  <2>1. s \in Seq(Blocks)
    BY MessageShape
  <2> HIDE DEF s
  <2> QED BY <2>1, PlacesOf
<1>2. ToResponses(m) = [i \in DOMAIN s |->
         CASE s[i].type = "text" -> MessageItem(m.role, s[i].text)
           [] s[i].type = "thinking" -> ReasoningItem
           [] s[i].type = "tool_use" -> CallItem(s[i].id, s[i].args)
           [] s[i].type = "tool_result" -> OutputItem(s[i].id, s[i].form)]
  BY DEF ToResponses
<1> HIDE DEF s
<1>3. \A i \in DOMAIN s : RespItem(m.role)[s[i]] =
         CASE s[i].type = "text" -> MessageItem(m.role, s[i].text)
           [] s[i].type = "thinking" -> ReasoningItem
           [] s[i].type = "tool_use" -> CallItem(s[i].id, s[i].args)
           [] s[i].type = "tool_result" -> OutputItem(s[i].id, s[i].form)
  BY <1>1 DEF RespItem
<1>4. ToResponses(m) = Each(RespItem(m.role), s)
  BY <1>2, <1>3 DEF Each
<1> QED BY <1>4 DEF s

\* A Responses output has one item for each block of the reply.
LEMMA OutputOfIs ==
  ASSUME NEW said \in Seq(Blocks)
  PROVE  OutputOf(said) = Each(RespItem("assistant"), said)
BY MessageParts, ToResponsesIs DEF OutputOf

\* What is read from an item, by the client and by the adapters.
ReadItem ==
  [i \in Items |-> CASE i.type = "message" -> <<Text(i.text)>>
                     [] i.type = "function_call" -> <<Use(i.id, i.args)>>
                     [] OTHER -> <<Thinking>>]
\* What the proxy makes of an item: thinking and custom calls are left out
\* (responses_message_blocks).
TakeItem ==
  [i \in Items |-> CASE i.type = "message" -> <<Text(i.text)>>
                     [] i.type = "function_call" /\ ~Custom(i) -> <<Use(i.id, i.args)>>
                     [] OTHER -> <<>>]

\* What each item is read as.
LEMMA ItemsRead ==
  /\ \A i \in MessageItems : ReadItem[i] = <<Text(i.text)>> /\ TakeItem[i] = <<Text(i.text)>> /\ Text(i.text) \in TextBlocks
  /\ \A i \in CallItems : /\ ReadItem[i] = <<Use(i.id, i.args)>> /\ Use(i.id, i.args) \in UseBlocks
                          /\ TakeItem[i] = IF Custom(i) THEN <<>> ELSE <<Use(i.id, i.args)>>
  /\ ReadItem[ReasoningItem] = <<Thinking>> /\ TakeItem[ReasoningItem] = <<>>
  /\ Maps(ReadItem, Items, Seq(Blocks)) /\ Maps(TakeItem, Items, Seq(Blocks))
<1>1. ASSUME NEW i \in MessageItems
      PROVE  ReadItem[i] = <<Text(i.text)>> /\ TakeItem[i] = <<Text(i.text)>> /\ Text(i.text) \in TextBlocks
  <2>1. i \in Items /\ i.type = "message" /\ i.text \in Says
    BY ItemTypes, ItemShapes DEF Items
  <2> QED BY <2>1, BlockForms DEF ReadItem, TakeItem
<1>2. ASSUME NEW i \in CallItems
      PROVE  /\ ReadItem[i] = <<Use(i.id, i.args)>> /\ Use(i.id, i.args) \in UseBlocks
             /\ TakeItem[i] = IF Custom(i) THEN <<>> ELSE <<Use(i.id, i.args)>>
  <2>1. i \in Items /\ i.type = "function_call" /\ i.id \in STRING /\ i.args \in Args
    BY ItemTypes, ItemShapes DEF Items
  <2> QED BY <2>1, BlockForms DEF ReadItem, TakeItem
<1>3. ASSUME NEW i \in Items, i \notin MessageItems, i \notin CallItems
      PROVE  ReadItem[i] = <<Thinking>> /\ TakeItem[i] = <<>>
  <2>1. i.type # "message" /\ i.type # "function_call"
    BY <1>3, ItemTypes
  <2> QED BY <2>1 DEF ReadItem, TakeItem
<1>4. ReasoningItem \in Items /\ ReasoningItem \notin MessageItems /\ ReasoningItem \notin CallItems
  BY DEF Items, ReasoningItem, MessageItems, CallItems
<1>5. \A i \in Items : ReadItem[i] \in Seq(Blocks) /\ TakeItem[i] \in Seq(Blocks)
  <2> TAKE i \in Items
  <2>1. \A b \in Blocks : <<b>> \in Seq(Blocks)
    OBVIOUS
  <2>2. <<>> \in Seq(Blocks) /\ Thinking \in Blocks /\ TextBlocks \subseteq Blocks /\ UseBlocks \subseteq Blocks
    BY DEF Blocks
  <2> QED BY <1>1, <1>2, <1>3, <2>1, <2>2
<1>6. Maps(ReadItem, Items, Seq(Blocks)) /\ Maps(TakeItem, Items, Seq(Blocks))
  BY <1>5 DEF Maps, ReadItem, TakeItem
<1> QED BY <1>1, <1>2, <1>3, <1>4, <1>6

\* An output is read item by item.
LEMMA ReadOutputIs ==
  ASSUME NEW output \in Seq(Items)
  PROVE  ReadOutput(output) = Flat(ReadItem, output) /\ FromOutput(output) = Flat(TakeItem, output)
<1>1. \A i \in DOMAIN output : output[i] \in Items
  BY PlacesOf
<1>2. ReadOutput(output) = FlattenSeq([i \in DOMAIN output |->
         CASE output[i].type = "message" -> <<Text(output[i].text)>>
           [] output[i].type = "function_call" -> <<Use(output[i].id, output[i].args)>>
           [] OTHER -> <<Thinking>>])
  BY DEF ReadOutput, Spread
<1>3. FromOutput(output) = FlattenSeq([i \in DOMAIN output |->
         CASE output[i].type = "message" -> <<Text(output[i].text)>>
           [] output[i].type = "function_call" /\ ~Custom(output[i]) -> <<Use(output[i].id, output[i].args)>>
           [] OTHER -> <<>>])
  BY DEF FromOutput, Spread
<1>4. Each(ReadItem, output) = [i \in DOMAIN output |->
         CASE output[i].type = "message" -> <<Text(output[i].text)>>
           [] output[i].type = "function_call" -> <<Use(output[i].id, output[i].args)>>
           [] OTHER -> <<Thinking>>]
  BY <1>1 DEF Each, ReadItem
<1>5. Each(TakeItem, output) = [i \in DOMAIN output |->
         CASE output[i].type = "message" -> <<Text(output[i].text)>>
           [] output[i].type = "function_call" /\ ~Custom(output[i]) -> <<Use(output[i].id, output[i].args)>>
           [] OTHER -> <<>>]
  BY <1>1 DEF Each, TakeItem
<1> QED BY <1>2, <1>3, <1>4, <1>5 DEF Flat

\* The blocks of a reply.
SaidBlocks == Quiet \cup UseBlocks

\* The blocks of a reply but thinking; those of them that are no custom calls.
Told == TextBlocks \cup UseBlocks
PlainUses == {b \in UseBlocks : ~Custom(b)}
Shown == TextBlocks \cup PlainUses

\* A block that became an item is read back.
LEMMA ReadBack ==
  LET g == RespItem("assistant")
  IN /\ \A b \in Told : ReadItem[g[b]] = <<b>> /\ TakeItem[g[b]] = IF b \in Shown THEN <<b>> ELSE <<>>
     /\ ReadItem[g[Thinking]] = <<Thinking>> /\ TakeItem[g[Thinking]] = <<>>
<1> DEFINE g == RespItem("assistant")
<1>1. /\ \A b \in TextBlocks : g[b] = MessageItem("assistant", b.text) /\ g[b] \in MessageItems
      /\ g[Thinking] = ReasoningItem
      /\ \A b \in UseBlocks : g[b] = CallItem(b.id, b.args) /\ g[b] \in CallItems
  BY RespItems
<1> HIDE DEF g
<1>2. ASSUME NEW b \in TextBlocks PROVE ReadItem[g[b]] = <<b>> /\ TakeItem[g[b]] = <<b>>
  <2>1. b = Text(b.text) /\ b.text \in Says
    BY BlockShapes
  <2>2. g[b].text = b.text
    BY <1>1, <2>1, ItemForms
  <2> QED BY <1>1, <2>1, <2>2, ItemsRead
<1>3. ASSUME NEW b \in UseBlocks
      PROVE  ReadItem[g[b]] = <<b>> /\ TakeItem[g[b]] = IF Custom(b) THEN <<>> ELSE <<b>>
  <2>1. b = Use(b.id, b.args) /\ b.id \in STRING /\ b.args \in Args
    BY BlockShapes
  <2>2. g[b].id = b.id /\ g[b].args = b.args
    <3>1. g[b] = CallItem(b.id, b.args)
      BY <1>1
    <3> QED BY <3>1 DEF CallItem
  <2>3. Custom(g[b]) <=> Custom(b)
    BY <2>2 DEF Custom
  <2> QED BY <1>1, <2>1, <2>2, <2>3, ItemsRead
<1>4. ReadItem[g[Thinking]] = <<Thinking>> /\ TakeItem[g[Thinking]] = <<>>
  BY <1>1, ItemsRead
<1>5. \A b \in TextBlocks : b \in Shown
  BY DEF Shown
<1>6. \A b \in UseBlocks : b \in Shown <=> ~Custom(b)
  BY QuietBlocks DEF Shown, PlainUses
<1> QED BY <1>2, <1>3, <1>4, <1>5, <1>6 DEF g, Told

\* A reply that went through items is the reply, without thinking and custom
\* calls if the items are those of a stream or taken by an adapter.
LEMMA ReplyAsItems ==
  ASSUME NEW said \in Seq(SaidBlocks)
  PROVE  /\ OutputOf(said) \in Seq(Items)
         /\ ReadOutput(OutputOf(said)) = said
         /\ FromOutput(OutputOf(said)) = Only(said, Shown)
         /\ ReadOutput(Streamed(OutputOf(said))) = Only(said, Shown)
<1> DEFINE g == RespItem("assistant")
           out == Each(g, said)
<1>0. SaidBlocks \subseteq Blocks /\ Told \subseteq SaidBlocks /\ Thinking \notin Shown
      /\ SaidBlocks = Told \cup {Thinking} /\ Shown \subseteq Told
  BY QuietBlocks DEF SaidBlocks, Told, Quiet, Shown, PlainUses
<1>1. said \in Seq(Blocks)
  BY <1>0, WiderSeq
<1>2. OutputOf(said) = out
  BY <1>1, OutputOfIs
<1>3. Maps(g, Blocks, Items)
  BY RespItems
<1>4. /\ \A b \in Told : ReadItem[g[b]] = <<b>> /\ TakeItem[g[b]] = IF b \in Shown THEN <<b>> ELSE <<>>
      /\ ReadItem[g[Thinking]] = <<Thinking>> /\ TakeItem[g[Thinking]] = <<>>
      /\ \A b \in Told : g[b] \in MessageItems \cup CallItems
      /\ g[Thinking] = ReasoningItem
  BY ReadBack, RespItems DEF Told
<1> HIDE DEF g
<1>5. \A s \in Seq(Blocks) : Each(g, s) \in Seq(Items)
  BY <1>3, EachType
<1>7. \A s \in Seq(SaidBlocks) : \A f : Each(f, Each(g, s)) = Each([x \in SaidBlocks |-> f[g[x]]], s)
  <2> SUFFICES ASSUME NEW s \in Seq(SaidBlocks), NEW f
               PROVE  Each(f, Each(g, s)) = Each([x \in SaidBlocks |-> f[g[x]]], s)
    OBVIOUS
  <2>1. s \in Seq(Blocks)
    BY <1>0, WiderSeq
  <2>2. Each(f, Each(g, s)) = Each([x \in Blocks |-> f[g[x]]], s)
    BY <1>3, <2>1, EachEach
  <2> DEFINE p == [x \in Blocks |-> f[g[x]]]
             q == [x \in SaidBlocks |-> f[g[x]]]
  <2>3. \A x \in SaidBlocks : p[x] = q[x]
    BY <1>0
  <2> HIDE DEF p, q
  <2>4. Each(p, s) = Each(q, s)
    BY <2>3, EachSame
  <2> QED BY <2>2, <2>4 DEF p, q
<1>8. \A s \in Seq(SaidBlocks) : Flat(ReadItem, Each(g, s)) = s
  <2> SUFFICES ASSUME NEW s \in Seq(SaidBlocks) PROVE Flat(ReadItem, Each(g, s)) = s
    OBVIOUS
  <2> DEFINE q == [x \in SaidBlocks |-> ReadItem[g[x]]]
  <2>1. \A x \in SaidBlocks : q[x] = IF x \in SaidBlocks THEN <<x>> ELSE <<>>
    BY <1>0, <1>4
  <2>2. Flat(ReadItem, Each(g, s)) = Flat(q, s)
    BY <1>7 DEF Flat
  <2> HIDE DEF q
  <2>3. Flat(q, s) = Only(s, SaidBlocks)
    BY <2>1, FlatOnly
  <2>4. Only(s, SaidBlocks) = s
    BY ElementsOf, OnlyAll
  <2> QED BY <2>2, <2>3, <2>4
<1>9. Flat(TakeItem, out) = Only(said, Shown)
  <2> DEFINE q == [x \in SaidBlocks |-> TakeItem[g[x]]]
  <2>1. \A x \in SaidBlocks : q[x] = IF x \in Shown THEN <<x>> ELSE <<>>
    BY <1>0, <1>4
  <2>2. Flat(TakeItem, out) = Flat(q, said)
    BY <1>7 DEF Flat
  <2> HIDE DEF q
  <2>3. Flat(q, said) = Only(said, Shown)
    BY <2>1, FlatOnly
  <2> QED BY <2>2, <2>3
<1>10. out \in Seq(Items)
  BY <1>1, <1>5
<1> DEFINE kept == Only(said, Shown)
<1>11. kept \in Seq(SaidBlocks)
  BY OnlyType
<1>12. Streamed(out) = Each(g, kept)
  <2> DEFINE P == {i \in DOMAIN out :
                     out[i].type = "message" \/ (out[i].type = "function_call" /\ ~Custom(out[i]))}
             S == MessageItems \cup {c \in CallItems : ~Custom(c)}
  <2>1. Streamed(out) = At(out, P)
    BY DEF Streamed
  <2>2. \A i \in DOMAIN out : i \in P <=> out[i] \in S
    <3> HIDE DEF out
    <3>1. \A i \in DOMAIN out : out[i] \in Items
      BY <1>10, PlacesOf
    <3> QED BY <3>1, ItemTypes
  <2>3. At(out, P) = Only(out, S)
    <3> HIDE DEF out, P, S
    <3> QED BY <1>10, <2>2, OnlyIs
  <2>4. Maps([b \in SaidBlocks |-> g[b]], SaidBlocks, Items)
    BY <1>0, <1>3 DEF Maps
  <2>5. \A b \in SaidBlocks : g[b] \in S <=> b \in Shown
    <3> SUFFICES ASSUME NEW b \in SaidBlocks PROVE g[b] \in S <=> b \in Shown
      OBVIOUS
    <3>1. CASE b = Thinking
      <4>1. ReasoningItem \notin S
        BY DEF ReasoningItem, MessageItems, CallItems
      <4> QED BY <1>0, <1>4, <3>1, <4>1
    <3>2. CASE b \in TextBlocks
      BY <3>2, RespItems DEF Shown, g
    <3>3. CASE b \in UseBlocks
      <4>1. g[b] = CallItem(b.id, b.args) /\ g[b] \in CallItems /\ b.id \in STRING /\ b.args \in Args
        BY <3>3, RespItems, BlockShapes DEF g
      <4>2. g[b].args = b.args /\ g[b] \notin MessageItems
        BY <4>1 DEF CallItem, MessageItems
      <4>3. Custom(g[b]) <=> Custom(b)
        BY <4>2 DEF Custom
      <4>4. b \notin TextBlocks
        BY <3>3, QuietBlocks
      <4> QED BY <3>3, <4>1, <4>2, <4>3, <4>4 DEF Shown, PlainUses
    <3> QED BY <1>0, <3>1, <3>2, <3>3 DEF Told
  <2> DEFINE q == [b \in SaidBlocks |-> g[b]]
  <2>6. Each(g, said) = Each(q, said) /\ Each(g, kept) = Each(q, kept)
    <3>1. \A b \in SaidBlocks : g[b] = q[b]
      OBVIOUS
    <3> HIDE DEF q, kept
    <3> QED BY <1>11, <3>1, EachSame
  <2>7. \A b \in SaidBlocks : q[b] \in S <=> b \in Shown
    BY <2>5
  <2> HIDE DEF q, S
  <2>8. Only(Each(q, said), S) = Each(q, kept)
    <3>1. Maps(q, SaidBlocks, Items)
      BY <2>4 DEF q
    <3> QED BY <2>7, <3>1, OnlyEach
  <2> QED BY <2>1, <2>3, <2>6, <2>8
<1>13. Streamed(out) \in Seq(Items)
  <2>1. kept \in Seq(Blocks)
    BY <1>0, <1>11, WiderSeq
  <2> QED BY <1>5, <1>12, <2>1
<1> HIDE DEF out, kept
<1>14. ReadOutput(out) = Flat(ReadItem, out) /\ FromOutput(out) = Flat(TakeItem, out)
  BY <1>10, ReadOutputIs
<1>15. ReadOutput(Streamed(out)) = Flat(ReadItem, Streamed(out))
  BY <1>13, ReadOutputIs
<1>16. Flat(ReadItem, out) = said /\ Flat(ReadItem, Streamed(out)) = kept
  BY <1>8, <1>11, <1>12 DEF out
<1> QED BY <1>2, <1>9, <1>10, <1>14, <1>15, <1>16 DEF kept

\* Messages are read as texts, with words if there were words.
LEMMA MessagesRead ==
  ASSUME NEW items \in Seq(MessageItems)
  PROVE  /\ items \in Seq(Items) /\ Flat(ReadItem, items) \in Seq(TextBlocks)
         /\ QuietWords(Flat(ReadItem, items)) <=> HasWords(items)
<1> DEFINE t == Flat(ReadItem, items)
<1>1. items \in Seq(Items) /\ ToSet(items) \subseteq MessageItems
  BY ElementsOf, WiderSeq DEF Items
<1>2. t \in Seq(Blocks) /\ ToSet(t) = UNION {ToSet(ReadItem[i]) : i \in ToSet(items)}
  BY <1>1, ItemsRead, FlatType, FlatSet
<1>3. \A i \in ToSet(items) : ToSet(ReadItem[i]) = {Text(i.text)} /\ Text(i.text) \in TextBlocks /\ i.text \in Says
  <2> TAKE i \in ToSet(items)
  <2>1. ReadItem[i] = <<Text(i.text)>> /\ Text(i.text) \in TextBlocks /\ i.text \in Says
    BY <1>1, ItemsRead, ItemShapes
  <2>2. \A x : ToSet(<<x>>) = {x}
    BY DEF ToSet
  <2> QED BY <2>1, <2>2
<1> HIDE DEF t
<1>4. \A b \in ToSet(t) : \E i \in ToSet(items) : b = Text(i.text)
  BY <1>2, <1>3
<1>5. \A i \in ToSet(items) : Text(i.text) \in ToSet(t)
  BY <1>2, <1>3
<1>6. t \in Seq(TextBlocks)
  <2>1. ToSet(t) \subseteq TextBlocks
    BY <1>3, <1>4
  <2> QED BY <1>2, <2>1, ElementsIn
<1>7. \A i \in ToSet(items) : Text(i.text) = Text("words") <=> i.text = "words"
  BY <1>3, BlockForms DEF Says
<1>8. QuietWords(t) <=> HasWords(items)
  BY <1>4, <1>5, <1>7 DEF QuietWords, HasWords
<1> QED BY <1>1, <1>6, <1>8 DEF t

\* Calls that became items are read back.
LEMMA CallsRead ==
  ASSUME NEW us \in Seq(UseBlocks)
  PROVE  Each(CallOf, us) \in Seq(Items) /\ Flat(ReadItem, Each(CallOf, us)) = us
         /\ ToSet(Each(CallOf, us)) \subseteq CallItems
<1> DEFINE q == [b \in UseBlocks |-> ReadItem[CallOf[b]]]
<1>1. \A b \in UseBlocks : q[b] = IF b \in UseBlocks THEN <<b>> ELSE <<>>
  <2> TAKE b \in UseBlocks
  <2>1. b = Use(b.id, b.args) /\ b.id \in STRING /\ b.args \in Args
    BY BlockShapes
  <2>2. CallOf[b] = CallItem(b.id, b.args)
    BY CallOfUse
  <2> DEFINE c == CallItem(b.id, b.args)
  <2>3. c \in CallItems /\ c.id = b.id /\ c.args = b.args
    <3>1. b.id \in STRING /\ b.args \in Args
      BY <2>1
    <3> QED BY <3>1 DEF CallItem, CallItems
  <2> HIDE DEF c
  <2>5. CallOf[b] = c
    BY <2>2 DEF c
  <2>4. ReadItem[CallOf[b]] = <<b>>
    BY <2>1, <2>3, <2>5, ItemsRead
  <2> QED BY <2>4
<1>2. Each(CallOf, us) \in Seq(CallItems)
  BY CallOfUse, EachType
<1>3. Each(CallOf, us) \in Seq(Items) /\ ToSet(Each(CallOf, us)) \subseteq CallItems
  BY <1>2, ElementsOf, WiderSeq DEF Items
<1>4. Flat(ReadItem, Each(CallOf, us)) = Flat(q, us)
  BY CallOfUse, EachEach DEF Flat
<1> HIDE DEF q
<1>5. Flat(q, us) = Only(us, UseBlocks)
  BY <1>1, FlatOnly
<1>6. Only(us, UseBlocks) = us
  BY ElementsOf, OnlyAll
<1> QED BY <1>3, <1>4, <1>5, <1>6

\* Through an adapter and back: the texts joined, the calls as they were.
LEMMA OutputReply ==
  ASSUME NEW pre \in Seq(Quiet), NEW us \in Seq(UseBlocks)
  PROVE  \E t \in Seq(TextBlocks) : /\ ReadOutput(ToOutput(pre \o us)) = t \o us
                                    /\ QuietWords(t) <=> QuietWords(pre)
<1> DEFINE s == pre \o us
           items == ContentToItems(Message("assistant", s))
           M == Flushed("assistant", Holds("assistant", pre))
           C == Each(CallOf, us)
<1>1. pre \in Seq(Blocks) /\ s \in Seq(Blocks)
  BY ReplyParts
<1>2. M \in Seq(MessageItems) /\ (HasWords(M) <=> QuietWords(pre))
  BY ItemsOfQuiet
<1>3. items = M \o C
  <2>1. items = Flushed("assistant", Holds("assistant", s))
    <3> HIDE DEF s
    <3>1. Message("assistant", s) \in Messages /\ Message("assistant", s).role = "assistant"
          /\ Message("assistant", s).content = s
      BY <1>1, MessageParts
    <3> QED BY <3>1, ContentToItemsFold
  <2>2. Flushed("assistant", Holds("assistant", s)) = M \o C
    BY <1>1, ItemsOfCalls
  <2> QED BY <2>1, <2>2
<1>4. C \in Seq(Items) /\ Flat(ReadItem, C) = us /\ ToSet(C) \subseteq CallItems
  BY CallsRead
<1> HIDE DEF M, C, s
<1>5. M \in Seq(Items) /\ Flat(ReadItem, M) \in Seq(TextBlocks) /\ (QuietWords(Flat(ReadItem, M)) <=> HasWords(M))
      /\ ToSet(M) \subseteq MessageItems
  BY <1>2, MessagesRead, ElementsOf
<1>6. items \in Seq(Items) /\ ToSet(items) \subseteq MessageItems \cup CallItems
  <2> HIDE DEF items
  <2>1. M \o C \in Seq(Items) /\ ToSet(M \o C) = ToSet(M) \cup ToSet(C)
    BY <1>4, <1>5, ConcatType, ConcatSet
  <2> QED BY <1>3, <1>4, <1>5, <2>1
<1>7. ToOutput(s) = items
  <2> DEFINE P == {i \in DOMAIN items : items[i].type # "reasoning"}
             S == MessageItems \cup CallItems
  <2>1. ToOutput(s) = At(items, P)
    BY DEF ToOutput
  <2> HIDE DEF items
  <2>2. \A i \in DOMAIN items : i \in P <=> items[i] \in S
    <3>1. \A i \in DOMAIN items : items[i] \in Items /\ items[i] \in S
      BY <1>6, PlacesOf, ElementsOf
    <3>2. \A i \in DOMAIN items : items[i].type # "reasoning"
      BY <3>1, ItemTypes DEF MessageItems, CallItems
    <3> QED BY <3>1, <3>2
  <2> HIDE DEF P, S
  <2>3. At(items, P) = Only(items, S)
    BY <1>6, <2>2, OnlyIs
  <2>4. Only(items, S) = items
    BY <1>6, OnlyAll DEF S
  <2> QED BY <2>1, <2>3, <2>4
<1> HIDE DEF items
<1>8. ReadOutput(items) = Flat(ReadItem, items)
  BY <1>6, ReadOutputIs
<1>9. Flat(ReadItem, items) = Flat(ReadItem, M) \o us
  <2>0. \A x, y \in Seq(Items) : Flat(ReadItem, x \o y) = Flat(ReadItem, x) \o Flat(ReadItem, y)
    BY ItemsRead, FlatConcat
  <2>1. Flat(ReadItem, M \o C) = Flat(ReadItem, M) \o Flat(ReadItem, C)
    BY <1>4, <1>5, <2>0
  <2> QED BY <1>3, <1>4, <2>1
<1> DEFINE t == Flat(ReadItem, M)
<1>10. t \in Seq(TextBlocks) /\ ReadOutput(ToOutput(s)) = t \o us /\ (QuietWords(t) <=> QuietWords(pre))
  BY <1>2, <1>5, <1>7, <1>8, <1>9
<1> QED BY <1>10 DEF s

---------------------------------------------------------------------------
(* A reply put together from a stream.                                     *)

\* What a stream is put together from.
Things == Items \cup {NoItem}
EventTypes == {"output_item.added", "content_part.added", "output_text.delta", "output_text.done",
               "content_part.done", "arguments.done", "output_item.done"}
StreamEvents == [type : EventTypes, index : Nat, item : Things, text : Says]
Outs == UNION {[S -> Things] : S \in SUBSET Nat}

\* What has been put together so far.
LEMMA OutsAre ==
  /\ <<>> \in Outs /\ DOMAIN <<>> = {}
  /\ \A out \in Outs : DOMAIN out \in SUBSET Nat /\ out \in [DOMAIN out -> Things]
  /\ \A S \in SUBSET Nat : \A out \in [S -> Things] : out \in Outs /\ DOMAIN out = S
<1>1. \A S \in SUBSET Nat : \A out \in [S -> Things] : out \in Outs /\ DOMAIN out = S
  BY DEF Outs
<1>2. \A out \in Outs : DOMAIN out \in SUBSET Nat /\ out \in [DOMAIN out -> Things]
  BY DEF Outs
<1>3. <<>> \in [1..0 -> Things] /\ 1..0 \in SUBSET Nat /\ 1..0 = {}
  OBVIOUS
<1> QED BY <1>1, <1>2, <1>3

\* An item is put at its index.
LEMMA PutIs ==
  ASSUME NEW out \in Outs, NEW i \in Nat, NEW x \in Things
  PROVE  /\ Put(out, i, x) \in Outs
         /\ Put(out, i, x) = [j \in DOMAIN out \cup {i} |-> IF j = i THEN x ELSE out[j]]
<1>1. Put(out, i, x) = [j \in DOMAIN out \cup {i} |-> IF j = i THEN x ELSE out[j]]
  BY DEF Put
<1>2. DOMAIN out \in SUBSET Nat /\ out \in [DOMAIN out -> Things]
  BY OutsAre
<1>3. [j \in DOMAIN out \cup {i} |-> IF j = i THEN x ELSE out[j]] \in [DOMAIN out \cup {i} -> Things]
  BY <1>2
<1> QED BY <1>1, <1>2, <1>3, OutsAre

\* What is put last at an index counts.
LEMMA PutTwice ==
  ASSUME NEW out \in Outs, NEW i \in Nat, NEW x \in Things, NEW y \in Things
  PROVE  /\ Put(Put(out, i, x), i, y) = Put(out, i, y)
         /\ i \in DOMAIN Put(out, i, x) /\ Put(out, i, x)[i] = x
<1> DEFINE p == Put(out, i, x)
<1>1. p \in Outs /\ p = [j \in DOMAIN out \cup {i} |-> IF j = i THEN x ELSE out[j]]
  BY PutIs
<1>2. DOMAIN p = DOMAIN out \cup {i} /\ p[i] = x /\ \A j \in DOMAIN out : j # i => p[j] = out[j]
  BY <1>1
<1> HIDE DEF p
<1>3. Put(p, i, y) = [j \in DOMAIN p \cup {i} |-> IF j = i THEN y ELSE p[j]]
  BY <1>1, PutIs
<1>4. Put(out, i, y) = [j \in DOMAIN out \cup {i} |-> IF j = i THEN y ELSE out[j]]
  BY PutIs
<1>5. Put(p, i, y) = Put(out, i, y)
  BY <1>2, <1>3, <1>4
<1> QED BY <1>2, <1>5 DEF p

\* A thing of type message says something.
LEMMA ThingTypes ==
  ASSUME NEW x \in Things
  PROVE  x.type = "message" => x \in MessageItems /\ x.text \in Says
<1>1. CASE x \in Items
  BY <1>1, ItemTypes, ItemShapes
<1>2. CASE x = NoItem
  BY <1>2 DEF NoItem
<1> QED BY <1>1, <1>2 DEF Things

\* The event handler as the step of a fold.
ApplyOne == [e \in StreamEvents |-> [out \in Outs |-> ApplyEvent(out, e)]]

\* What the four kinds of events do to the output.
LEMMA ApplyIs ==
  ASSUME NEW e \in StreamEvents, NEW out \in Outs
  PROVE  /\ ApplyOne[e][out] \in Outs
         /\ e.type = "output_item.added" => ApplyOne[e][out] = Put(out, e.index, e.item)
         /\ e.type \in {"content_part.added", "content_part.done", "output_text.done"} =>
              ApplyOne[e][out] = Put(out, e.index, MessageItem("assistant", e.text))
         /\ e.type = "output_text.delta" =>
              ApplyOne[e][out] = Put(out, e.index, MessageItem("assistant", Appended(TextAt(out, e.index), e.text)))
         /\ e.type \in {"arguments.done", "output_item.done"} => ApplyOne[e][out] = out
<1>1. ApplyOne[e][out] = ApplyEvent(out, e)
  BY DEF ApplyOne
<1>2. e.index \in Nat /\ e.item \in Things /\ e.text \in Says
  BY DEF StreamEvents
<1>3. TextAt(out, e.index) \in Says
  <2>1. \A j \in DOMAIN out : out[j] \in Things
    BY OutsAre
  <2> QED BY <2>1, ThingTypes DEF TextAt, Says
<1>4. Appended(TextAt(out, e.index), e.text) \in Says
  BY <1>2, <1>3 DEF Appended, Says
<1>5. \A t \in Says : MessageItem("assistant", t) \in Things
  BY ItemForms DEF Things, Items
<1>6. \A x \in Things : Put(out, e.index, x) \in Outs
  BY <1>2, PutIs
<1>7. e.type = "output_item.added" => ApplyEvent(out, e) = Put(out, e.index, e.item)
  BY DEF ApplyEvent
<1>8. e.type \in {"content_part.added", "content_part.done", "output_text.done"} =>
        ApplyEvent(out, e) = Put(out, e.index, MessageItem("assistant", e.text))
  BY DEF ApplyEvent, PutText
<1>9. e.type = "output_text.delta" =>
        ApplyEvent(out, e) = Put(out, e.index, MessageItem("assistant", Appended(TextAt(out, e.index), e.text)))
  BY DEF ApplyEvent, PutText
<1>10. e.type \notin {"output_item.added", "content_part.added", "content_part.done", "output_text.done", "output_text.delta"} =>
         ApplyEvent(out, e) = out
  BY DEF ApplyEvent
<1>11. ApplyEvent(out, e) \in Outs
  <2>1. CASE e.type = "output_item.added"
    BY <1>2, <1>6, <1>7, <2>1
  <2>2. CASE e.type \in {"content_part.added", "content_part.done", "output_text.done"}
    <3>1. MessageItem("assistant", e.text) \in Things
      BY <1>2, <1>5
    <3> QED BY <1>6, <1>8, <2>2, <3>1
  <2>3. CASE e.type = "output_text.delta"
    <3>1. MessageItem("assistant", Appended(TextAt(out, e.index), e.text)) \in Things
      BY <1>4, <1>5
    <3> QED BY <1>6, <1>9, <2>3, <3>1
  <2>4. CASE e.type \notin {"output_item.added", "content_part.added", "content_part.done", "output_text.done", "output_text.delta"}
    BY <1>10, <2>4
  <2> QED BY <2>1, <2>2, <2>3, <2>4
<1> QED BY <1>1, <1>7, <1>8, <1>9, <1>10, <1>11

\* Every event of every state is handled.
LEMMA ApplyOneStep == Step(ApplyOne, StreamEvents, Outs)
<1>1. \A e \in StreamEvents, out \in Outs : ApplyOne[e][out] \in Outs
  BY ApplyIs
<1>2. \A e \in StreamEvents, out \in Outs : ApplyEvent(out, e) \in Outs
  BY <1>1 DEF ApplyOne
<1> QED BY <1>2 DEF Step, ApplyOne

\* What some events put together.
Built(events) == FoldOf(Outs, ApplyOne, <<>>, events)

\* Events are handled one by one.
LEMMA BuiltNext ==
  /\ Built(<<>>) = <<>>
  /\ \A s \in Seq(StreamEvents) : Built(s) \in Outs
  /\ \A s \in Seq(StreamEvents), e \in StreamEvents : Built(Append(s, e)) = ApplyOne[e][Built(s)]
BY ApplyOneStep, OutsAre, FoldOfNone, FoldOfType, FoldOfAppend DEF Built

\* An event and its parts.
LEMMA EventForms ==
  ASSUME NEW type \in EventTypes, NEW i \in Nat, NEW x \in Things, NEW t \in Says
  PROVE  /\ Event(type, i, x, t) \in StreamEvents
         /\ Event(type, i, x, t).type = type /\ Event(type, i, x, t).index = i
         /\ Event(type, i, x, t).item = x /\ Event(type, i, x, t).text = t
BY DEF Event, StreamEvents

\* The events of a message put the message together.
LEMMA MessageBuilt ==
  ASSUME NEW s \in Seq(StreamEvents), NEW i \in Nat, NEW t \in Says
  PROVE  LET item == MessageItem("assistant", t)
         IN /\ ItemEvents(i, item) \in Seq(StreamEvents)
            /\ Built(s \o ItemEvents(i, item)) = Put(Built(s), i, item)
<1> DEFINE item == MessageItem("assistant", t)
           blank == MessageItem("assistant", "empty")
           e1 == Event("output_item.added", i, blank, "empty")
           e2 == Event("content_part.added", i, NoItem, "empty")
           e3 == Event("output_text.delta", i, NoItem, t)
           e4 == Event("output_text.done", i, NoItem, t)
           e5 == Event("content_part.done", i, NoItem, t)
           e6 == Event("output_item.done", i, item, "empty")
           out == Built(s)
<1>1. item \in Things /\ blank \in Things /\ NoItem \in Things /\ "empty" \in Says
      /\ item.type = "message" /\ item.role = "assistant" /\ item.text = t
      /\ blank.type = "message" /\ blank.text = "empty"
  BY DEF Things, Items, MessageItems, MessageItem, Says
<1>2. ItemEvents(i, item) = <<e1>> \o <<e2, e3, e4, e5>> \o <<e6>>
  <2>1. Announced(item) = blank
    BY <1>1 DEF Announced
  <2> HIDE DEF item, blank
  <2> QED BY <1>1, <2>1 DEF ItemEvents
<1>3. /\ e1 \in StreamEvents /\ e1.type = "output_item.added" /\ e1.index = i /\ e1.item = blank
      /\ e2 \in StreamEvents /\ e2.type = "content_part.added" /\ e2.index = i /\ e2.text = "empty"
      /\ e3 \in StreamEvents /\ e3.type = "output_text.delta" /\ e3.index = i /\ e3.text = t
      /\ e4 \in StreamEvents /\ e4.type = "output_text.done" /\ e4.index = i /\ e4.text = t
      /\ e5 \in StreamEvents /\ e5.type = "content_part.done" /\ e5.index = i /\ e5.text = t
      /\ e6 \in StreamEvents /\ e6.type = "output_item.done"
  <2> HIDE DEF item, blank
  <2> QED BY <1>1, EventForms DEF EventTypes
<1>4. Put(out, i, item) \in Outs /\ out \in Outs /\ Put(out, i, blank) \in Outs
      /\ TextAt(Put(out, i, blank), i) = "empty" /\ Appended("empty", t) = t
  <2>1. out \in Outs
    BY BuiltNext
  <2> HIDE DEF out
  <2>2. i \in DOMAIN Put(out, i, blank) /\ Put(out, i, blank)[i] = blank
    <3> HIDE DEF blank
    <3> QED BY <1>1, <2>1, PutTwice
  <2>3. TextAt(Put(out, i, blank), i) = "empty"
    <3> HIDE DEF blank
    <3> QED BY <1>1, <2>2 DEF TextAt
  <2>4. Appended("empty", t) = t
    BY DEF Appended, Says
  <2>5. Put(out, i, item) \in Outs /\ Put(out, i, blank) \in Outs
    <3> HIDE DEF item, blank
    <3> QED BY <1>1, <2>1, PutIs
  <2> QED BY <2>1, <2>3, <2>4, <2>5
<1>5. \A x, y \in Things : Put(Put(out, i, x), i, y) = Put(out, i, y)
  <2> HIDE DEF out
  <2> QED BY <1>4, PutTwice
<1> HIDE DEF e1, e2, e3, e4, e5, e6
<1> DEFINE s1 == Append(s, e1)
           s2 == Append(s1, e2)
           s3 == Append(s2, e3)
           s4 == Append(s3, e4)
           s5 == Append(s4, e5)
           s6 == Append(s5, e6)
<1>6. s \o ItemEvents(i, item) = s6 /\ ItemEvents(i, item) \in Seq(StreamEvents)
  <2>1. e1 \in StreamEvents /\ e2 \in StreamEvents /\ e3 \in StreamEvents /\ e4 \in StreamEvents /\ e5 \in StreamEvents /\ e6 \in StreamEvents
    BY <1>3
  <2>2. s \o (<<e1>> \o <<e2, e3, e4, e5>> \o <<e6>>) = s6 /\ (<<e1>> \o <<e2, e3, e4, e5>> \o <<e6>>) \in Seq(StreamEvents)
    BY <2>1, SixMore
  <2> QED BY <1>2, <2>2
<1>7. \A u \in Seq(StreamEvents), e \in StreamEvents : Append(u, e) \in Seq(StreamEvents) /\ Built(Append(u, e)) = ApplyOne[e][Built(u)]
  BY BuiltNext
<1>8. s1 \in Seq(StreamEvents) /\ Built(s1) = Put(out, i, blank)
  <2>1. s1 \in Seq(StreamEvents) /\ Built(s1) = ApplyOne[e1][out]
    BY <1>3, <1>7
  <2> HIDE DEF out, blank
  <2>2. ApplyOne[e1][out] = Put(out, i, blank)
    BY <1>3, <1>4, ApplyIs
  <2> QED BY <2>1, <2>2
<1> HIDE DEF s1
<1>9. s2 \in Seq(StreamEvents) /\ Built(s2) = Put(out, i, blank)
  <2> HIDE DEF out
  <2>1. s2 \in Seq(StreamEvents) /\ Built(s2) = ApplyOne[e2][Put(out, i, blank)]
    BY <1>3, <1>7, <1>8
  <2>2. ApplyOne[e2][Put(out, i, blank)] = Put(Put(out, i, blank), i, MessageItem("assistant", e2.text))
    <3> HIDE DEF blank
    <3> QED BY <1>3, <1>4, ApplyIs
  <2>3. MessageItem("assistant", e2.text) = blank
    BY <1>3
  <2> HIDE DEF blank
  <2> QED BY <1>1, <1>5, <2>1, <2>2, <2>3
<1> HIDE DEF s2
<1>10. s3 \in Seq(StreamEvents) /\ Built(s3) = Put(out, i, item)
  <2> HIDE DEF out
  <2>1. s3 \in Seq(StreamEvents) /\ Built(s3) = ApplyOne[e3][Put(out, i, blank)]
    BY <1>3, <1>7, <1>9
  <2>2. ApplyOne[e3][Put(out, i, blank)]
          = Put(Put(out, i, blank), i, MessageItem("assistant", Appended(TextAt(Put(out, i, blank), i), t)))
    <3> HIDE DEF blank
    <3> QED BY <1>3, <1>4, ApplyIs
  <2>3. MessageItem("assistant", Appended(TextAt(Put(out, i, blank), i), t)) = item
    BY <1>4
  <2> HIDE DEF blank, item
  <2> QED BY <1>1, <1>5, <2>1, <2>2, <2>3
<1> HIDE DEF s3
<1>11. s4 \in Seq(StreamEvents) /\ Built(s4) = Put(out, i, item)
  <2> HIDE DEF out
  <2>1. s4 \in Seq(StreamEvents) /\ Built(s4) = ApplyOne[e4][Put(out, i, item)]
    BY <1>3, <1>7, <1>10
  <2>2. ApplyOne[e4][Put(out, i, item)] = Put(Put(out, i, item), i, MessageItem("assistant", e4.text))
    <3> HIDE DEF item
    <3> QED BY <1>3, <1>4, ApplyIs
  <2>3. MessageItem("assistant", e4.text) = item
    BY <1>3
  <2> HIDE DEF item
  <2> QED BY <1>1, <1>5, <2>1, <2>2, <2>3
<1> HIDE DEF s4
<1>12. s5 \in Seq(StreamEvents) /\ Built(s5) = Put(out, i, item)
  <2> HIDE DEF out
  <2>1. s5 \in Seq(StreamEvents) /\ Built(s5) = ApplyOne[e5][Put(out, i, item)]
    BY <1>3, <1>7, <1>11
  <2>2. ApplyOne[e5][Put(out, i, item)] = Put(Put(out, i, item), i, MessageItem("assistant", e5.text))
    <3> HIDE DEF item
    <3> QED BY <1>3, <1>4, ApplyIs
  <2>3. MessageItem("assistant", e5.text) = item
    BY <1>3
  <2> HIDE DEF item
  <2> QED BY <1>1, <1>5, <2>1, <2>2, <2>3
<1> HIDE DEF s5
<1>13. Built(s6) = Put(out, i, item)
  <2> HIDE DEF out, item
  <2>1. Built(s6) = ApplyOne[e6][Put(out, i, item)]
    BY <1>3, <1>7, <1>12
  <2> QED BY <1>3, <1>4, <2>1, ApplyIs
<1> QED BY <1>6, <1>13

\* A call whose arguments were never told.
Bare(args) == IF args \in {"free", "void"} THEN "void" ELSE "none"

\* The events of a call put the call together, without its arguments.
LEMMA CallBuilt ==
  ASSUME NEW s \in Seq(StreamEvents), NEW i \in Nat, NEW c \in STRING, NEW a \in Args
  PROVE  LET item == CallItem(c, a)
         IN /\ ItemEvents(i, item) \in Seq(StreamEvents)
            /\ Built(s \o ItemEvents(i, item)) = Put(Built(s), i, CallItem(c, Bare(a)))
<1> DEFINE item == CallItem(c, a)
           bare == CallItem(c, Bare(a))
           e1 == Event("output_item.added", i, bare, "empty")
           e2 == Event("arguments.done", i, item, "empty")
           e3 == Event("output_item.done", i, item, "empty")
           out == Built(s)
<1>1. item \in Things /\ bare \in Things /\ "empty" \in Says
      /\ item.type = "function_call" /\ item.id = c /\ item.args = a
  BY DEF Things, Items, CallItems, CallItem, Says, Args, Bare
<1>2. ItemEvents(i, item) = <<e1>> \o <<e2>> \o <<e3>>
  <2>1. Announced(item) = bare
    BY <1>1 DEF Announced, Custom, Bare
  <2> HIDE DEF item, bare
  <2> QED BY <1>1, <2>1 DEF ItemEvents
<1>3. /\ e1 \in StreamEvents /\ e1.type = "output_item.added" /\ e1.index = i /\ e1.item = bare
      /\ e2 \in StreamEvents /\ e2.type = "arguments.done"
      /\ e3 \in StreamEvents /\ e3.type = "output_item.done"
  <2> HIDE DEF item, bare
  <2>1. e1 \in StreamEvents /\ e1.type = "output_item.added" /\ e1.index = i /\ e1.item = bare
    BY <1>1, EventForms DEF EventTypes
  <2>2. e2 \in StreamEvents /\ e2.type = "arguments.done"
    BY <1>1, EventForms DEF EventTypes
  <2>3. e3 \in StreamEvents /\ e3.type = "output_item.done"
    BY <1>1, EventForms DEF EventTypes
  <2> QED BY <2>1, <2>2, <2>3
<1>4. out \in Outs /\ Put(out, i, bare) \in Outs
  <2>1. out \in Outs
    BY BuiltNext
  <2> HIDE DEF out, bare
  <2> QED BY <1>1, <2>1, PutIs
<1> HIDE DEF e1, e2, e3
<1> DEFINE s1 == Append(s, e1)
           s2 == Append(s1, e2)
           s3 == Append(s2, e3)
<1>5. s \o ItemEvents(i, item) = s3 /\ ItemEvents(i, item) \in Seq(StreamEvents)
  <2>1. e1 \in StreamEvents /\ e2 \in StreamEvents /\ e3 \in StreamEvents
    BY <1>3
  <2>2. s \o (<<e1>> \o <<e2>> \o <<e3>>) = s3 /\ (<<e1>> \o <<e2>> \o <<e3>>) \in Seq(StreamEvents)
    BY <2>1, ThreeMore
  <2> QED BY <1>2, <2>2
<1>6. \A u \in Seq(StreamEvents), e \in StreamEvents : Append(u, e) \in Seq(StreamEvents) /\ Built(Append(u, e)) = ApplyOne[e][Built(u)]
  BY BuiltNext
<1>7. s1 \in Seq(StreamEvents) /\ Built(s1) = Put(out, i, bare)
  <2>1. s1 \in Seq(StreamEvents) /\ Built(s1) = ApplyOne[e1][out]
    BY <1>3, <1>6
  <2> HIDE DEF out, bare
  <2>2. ApplyOne[e1][out] = Put(out, i, bare)
    BY <1>3, <1>4, ApplyIs
  <2> QED BY <2>1, <2>2
<1> HIDE DEF s1, out, bare
<1>8. s2 \in Seq(StreamEvents) /\ Built(s2) = Put(out, i, bare)
  BY <1>3, <1>4, <1>6, <1>7, ApplyIs
<1> HIDE DEF s2
<1>9. Built(s3) = Put(out, i, bare)
  BY <1>3, <1>4, <1>6, <1>8, ApplyIs
<1> QED BY <1>5, <1>9 DEF out, bare

\* The events of thinking put it together.
LEMMA ThoughtBuilt ==
  ASSUME NEW s \in Seq(StreamEvents), NEW i \in Nat
  PROVE  /\ ItemEvents(i, ReasoningItem) \in Seq(StreamEvents)
         /\ Built(s \o ItemEvents(i, ReasoningItem)) = Put(Built(s), i, ReasoningItem)
<1> DEFINE e1 == Event("output_item.added", i, ReasoningItem, "empty")
           e2 == Event("output_item.done", i, ReasoningItem, "empty")
           out == Built(s)
<1>1. ReasoningItem \in Things /\ "empty" \in Says /\ ReasoningItem.type = "reasoning"
  BY DEF Things, Items, ReasoningItem, Says
<1>2. ItemEvents(i, ReasoningItem) = <<e1>> \o <<>> \o <<e2>>
  <2>1. Announced(ReasoningItem) = ReasoningItem
    BY <1>1 DEF Announced
  <2> QED BY <1>1, <2>1 DEF ItemEvents
<1>3. /\ e1 \in StreamEvents /\ e1.type = "output_item.added" /\ e1.index = i /\ e1.item = ReasoningItem
      /\ e2 \in StreamEvents /\ e2.type = "output_item.done"
  BY <1>1, EventForms DEF EventTypes
<1>4. out \in Outs /\ Put(out, i, ReasoningItem) \in Outs
  <2>1. out \in Outs
    BY BuiltNext
  <2> HIDE DEF out
  <2> QED BY <1>1, <2>1, PutIs
<1> HIDE DEF e1, e2
<1> DEFINE s1 == Append(s, e1)
           s2 == Append(s1, e2)
<1>5. s \o ItemEvents(i, ReasoningItem) = s2 /\ ItemEvents(i, ReasoningItem) \in Seq(StreamEvents)
  <2>1. e1 \in StreamEvents /\ e2 \in StreamEvents
    BY <1>3
  <2>2. s \o (<<e1>> \o <<>> \o <<e2>>) = s2 /\ (<<e1>> \o <<>> \o <<e2>>) \in Seq(StreamEvents)
    BY <2>1, TwoMore
  <2> QED BY <1>2, <2>2
<1>6. \A u \in Seq(StreamEvents), e \in StreamEvents : Append(u, e) \in Seq(StreamEvents) /\ Built(Append(u, e)) = ApplyOne[e][Built(u)]
  BY BuiltNext
<1>7. s1 \in Seq(StreamEvents) /\ Built(s1) = Put(out, i, ReasoningItem)
  <2>1. s1 \in Seq(StreamEvents) /\ Built(s1) = ApplyOne[e1][out]
    BY <1>3, <1>6
  <2> HIDE DEF out
  <2>2. ApplyOne[e1][out] = Put(out, i, ReasoningItem)
    BY <1>3, <1>4, ApplyIs
  <2> QED BY <2>1, <2>2
<1> HIDE DEF s1, out
<1>8. Built(s2) = Put(out, i, ReasoningItem)
  BY <1>3, <1>4, <1>6, <1>7, ApplyIs
<1> QED BY <1>5, <1>8 DEF out

\* The reply put together from the events is what the events come to, one by one.
LEMMA FromStreamIs ==
  ASSUME NEW stream, stream.events \in Seq(StreamEvents)
  PROVE  FromStream(stream) =
           LET built == Built(stream.events)
               rebuilt == [i \in 1..Cardinality(DOMAIN built) |-> built[i]]
           IN IF ~stream.completed THEN NoOutput
              ELSE IF stream.output # <<>> THEN stream.output
              ELSE IF rebuilt = <<>> THEN NoOutput
              ELSE rebuilt
<1> DEFINE s == stream.events
           n == Len(s)
           base == <<>>
           step == Each(ApplyOne, s)
           Is(f) == f = [k \in 0..n |-> IF k = 0 THEN <<>> ELSE ApplyEvent(f[k - 1], s[k])]
           outputs == CHOOSE f : Is(f)
<1>1. n \in Nat /\ base \in Outs /\ step \in [1..n -> [Outs -> Outs]]
      /\ \A i \in 1..n : s[i] \in StreamEvents /\ step[i] = ApplyOne[s[i]]
  <2>1. s \in Seq(StreamEvents)
    OBVIOUS
  <2> HIDE DEF s
  <2> QED BY <2>1, ApplyOneStep, StepsOfEach, OutsAre
<1>2. \A i \in 1..n : \A out \in Outs : step[i][out] = ApplyEvent(out, s[i])
  <2>1. \A e \in StreamEvents, out \in Outs : ApplyOne[e][out] = ApplyEvent(out, e)
    BY DEF ApplyOne
  <2> HIDE DEF s, step
  <2> QED BY <1>1, <2>1
<1>3. PICK f \in [0..n -> Outs] : Steps(f, n, base, step)
  <2> HIDE DEF n, base, step
  <2> QED BY <1>1, CanBeFolded
<1> HIDE DEF s, step
<1>4. ASSUME NEW k \in 0..n
      PROVE  f[k] = IF k = 0 THEN <<>> ELSE ApplyEvent(f[k - 1], s[k])
  <2>1. CASE k = 0
    BY <1>3, <2>1 DEF Steps
  <2>2. CASE k # 0
    <3>1. k \in 1..n /\ k - 1 \in 0..n
      BY <1>1, <2>2
    <3>2. f[k - 1] \in Outs
      BY <3>1
    <3> QED BY <1>2, <1>3, <2>2, <3>1, <3>2 DEF Steps
  <2> QED BY <2>1, <2>2
<1>5. Is(f)
  BY <1>4
<1>6. Is(outputs)
  BY <1>5
<1> DEFINE g == outputs
<1>7. g[0] = base /\ \A k \in 1..n : g[k] = ApplyEvent(g[k - 1], s[k])
  <2> HIDE DEF g
  <2>1. Is(g)
    BY <1>6 DEF g
  <2>2. 0 \in 0..n /\ \A k \in 1..n : k \in 0..n /\ k # 0
    BY <1>1
  <2>3. \A k \in 0..n : g[k] = IF k = 0 THEN <<>> ELSE ApplyEvent(g[k - 1], s[k])
    BY <2>1
  <2> HIDE DEF n, Is
  <2> QED BY <2>2, <2>3
<1>8. FromStream(stream) =
        LET built == g[n]
            rebuilt == [i \in 1..Cardinality(DOMAIN built) |-> built[i]]
        IN IF ~stream.completed THEN NoOutput
           ELSE IF stream.output # <<>> THEN stream.output
           ELSE IF rebuilt = <<>> THEN NoOutput
           ELSE rebuilt
  BY DEF FromStream, s
<1> HIDE DEF g
<1>9. g[n] = Built(s)
  <2>1. Within(Outs, g, n, step)
    BY <1>2, <1>7 DEF Within
  <2>2. Folded(Outs, g[n], n, base, step)
    <3> HIDE DEF n, base
    <3> QED BY <1>7, <2>1 DEF Folded
  <2>3. s \in Seq(StreamEvents)
    BY DEF s
  <2> QED BY <1>1, <2>2, <2>3, ApplyOneStep, FoldOfIs DEF Built, step
<1> QED BY <1>8, <1>9 DEF s

\* The items of a reply, and what of an item its events announce.
SaidItems == {MessageItem("assistant", t) : t \in Says} \cup CallItems \cup {ReasoningItem}
BareItem == [i \in SaidItems |-> IF i \in CallItems THEN CallItem(i.id, Bare(i.args)) ELSE i]

\* The events of an item put together what they announce of it.
LEMMA ItemBuilt ==
  ASSUME NEW s \in Seq(StreamEvents), NEW i \in Nat, NEW x \in SaidItems
  PROVE  /\ ItemEvents(i, x) \in Seq(StreamEvents)
         /\ Built(s \o ItemEvents(i, x)) = Put(Built(s), i, BareItem[x])
<1>1. CASE x \in CallItems
  <2>1. x = CallItem(x.id, x.args) /\ x.id \in STRING /\ x.args \in Args
    BY <1>1, ItemShapes
  <2>2. PICK c \in STRING, a \in Args : x = CallItem(c, a) /\ c = x.id /\ a = x.args
    BY <2>1
  <2>3. BareItem[x] = CallItem(c, Bare(a))
    BY <1>1, <2>2 DEF BareItem
  <2> QED BY <2>2, <2>3, CallBuilt
<1>2. CASE x \notin CallItems
  <2>1. BareItem[x] = x
    BY <1>2 DEF BareItem
  <2>2. x = ReasoningItem \/ \E t \in Says : x = MessageItem("assistant", t)
    BY <1>2 DEF SaidItems
  <2> QED BY <2>1, <2>2, MessageBuilt, ThoughtBuilt
<1> QED BY <1>1, <1>2

\* The items of a reply are items.
LEMMA SaidItemsAre ==
  /\ SaidItems \subseteq Items /\ Items \subseteq Things
  /\ Maps(BareItem, SaidItems, SaidItems)
<1>1. SaidItems \subseteq Items /\ Items \subseteq Things
  BY ItemForms DEF SaidItems, Items, Things
<1>2. \A x \in SaidItems : BareItem[x] \in SaidItems
  <2> TAKE x \in SaidItems
  <2>1. CASE x \in CallItems
    <3>1. x.id \in STRING /\ Bare(x.args) \in Args
      BY <2>1, ItemShapes DEF Args, Bare
    <3>2. CallItem(x.id, Bare(x.args)) \in CallItems
      BY <3>1, ItemForms
    <3> QED BY <2>1, <3>2 DEF BareItem, SaidItems
  <2>2. CASE x \notin CallItems
    BY <2>2 DEF BareItem
  <2> QED BY <2>1, <2>2
<1> QED BY <1>1, <1>2 DEF Maps, BareItem

\* An item put behind the last.
LEMMA PutLast ==
  ASSUME NEW s \in Seq(SaidItems), NEW x \in SaidItems
  PROVE  Put(s, Len(s) + 1, x) = Append(s, x)
<1>1. DOMAIN s = 1..Len(s) /\ Len(s) \in Nat
  OBVIOUS
<1>2. 1..Len(s) \cup {Len(s) + 1} = 1..(Len(s) + 1)
  BY <1>1
<1>3. Put(s, Len(s) + 1, x) = [j \in 1..(Len(s) + 1) |-> IF j = Len(s) + 1 THEN x ELSE s[j]]
  BY <1>1, <1>2 DEF Put
<1>4. Append(s, x) = [j \in 1..(Len(s) + 1) |-> IF j = Len(s) + 1 THEN x ELSE s[j]]
  <2> DEFINE t == Append(s, x)
  <2>1. /\ t \in Seq(SaidItems) /\ DOMAIN t = 1..(Len(s) + 1) /\ t[Len(s) + 1] = x
        /\ \A j \in 1..Len(s) : t[j] = s[j]
    BY <1>1, AppendAt
  <2> HIDE DEF t
  <2>2. \A j \in 1..(Len(s) + 1) : t[j] = IF j = Len(s) + 1 THEN x ELSE s[j]
    BY <1>1, <2>1
  <2>3. t = [j \in 1..(Len(s) + 1) |-> t[j]]
    BY <2>1
  <2> QED BY <2>2, <2>3 DEF t
<1> QED BY <1>3, <1>4

\* The events of an output, item by item.
EventsOfItem(output) == FlattenSeq([i \in DOMAIN output |-> ItemEvents(i, output[i])])

\* The events of an output put together all its items, calls without arguments.
LEMMA StreamBuilt ==
  ASSUME NEW output \in Seq(SaidItems)
  PROVE  EventsOfItem(output) \in Seq(StreamEvents) /\ Built(EventsOfItem(output)) = Each(BareItem, output)
<1> DEFINE each(o) == [i \in DOMAIN o |-> ItemEvents(i, o[i])]
           S == {o \in Seq(SaidItems) : /\ each(o) \in Seq(Seq(StreamEvents))
                                        /\ EventsOfItem(o) \in Seq(StreamEvents)
                                        /\ Built(EventsOfItem(o)) = Each(BareItem, o)}
<1>1. <<>> \in S
  <2>1. each(<<>>) = <<>>
    OBVIOUS
  <2>2. EventsOfItem(<<>>) = <<>>
    BY <2>1, FlattenNone DEF EventsOfItem
  <2>3. Each(BareItem, <<>>) = <<>> /\ Built(<<>>) = <<>>
    BY EachNone, BuiltNext
  <2>4. <<>> \in Seq(SaidItems) /\ <<>> \in Seq(StreamEvents) /\ <<>> \in Seq(Seq(StreamEvents))
    OBVIOUS
  <2> HIDE DEF each
  <2> QED BY <2>1, <2>2, <2>3, <2>4
<1>2. ASSUME NEW o \in S, NEW x \in SaidItems PROVE Append(o, x) \in S
  <2>1. o \in Seq(SaidItems) /\ each(o) \in Seq(Seq(StreamEvents)) /\ EventsOfItem(o) \in Seq(StreamEvents)
        /\ Built(EventsOfItem(o)) = Each(BareItem, o) /\ Append(o, x) \in Seq(SaidItems)
    OBVIOUS
  <2> HIDE DEF S
  <2> DEFINE k == Len(o) + 1
             new == ItemEvents(k, x)
  <2>2. k \in Nat
    BY <2>1
  <2> HIDE DEF k
  <2>3. new \in Seq(StreamEvents) /\ \A s \in Seq(StreamEvents) : Built(s \o new) = Put(Built(s), k, BareItem[x])
    <3>1. \A s \in Seq(StreamEvents) : new \in Seq(StreamEvents) /\ Built(s \o new) = Put(Built(s), k, BareItem[x])
      BY <2>2, ItemBuilt
    <3>2. <<>> \in Seq(StreamEvents)
      OBVIOUS
    <3> HIDE DEF new
    <3> QED BY <3>1, <3>2
  <2>4. each(Append(o, x)) = Append(each(o), new)
    <3>1. /\ DOMAIN o = 1..Len(o) /\ DOMAIN Append(o, x) = 1..(Len(o) + 1) /\ Len(o) \in Nat
          /\ \A i \in 1..Len(o) : Append(o, x)[i] = o[i]
          /\ Append(o, x)[Len(o) + 1] = x
      BY <2>1
    <3> HIDE DEF new
    <3>2. each(o) \in Seq(Seq(StreamEvents)) /\ Len(each(o)) = Len(o) /\ \A i \in 1..Len(o) : each(o)[i] = ItemEvents(i, o[i])
      BY <2>1, <3>1
    <3> DEFINE e == each(o)
    <3>3. Append(e, new) = [i \in 1..(Len(o) + 1) |-> IF i = Len(o) + 1 THEN new ELSE e[i]]
      <4> HIDE DEF e
      <4> QED BY <2>3, <3>2 DEF e
    <3>4. each(Append(o, x)) = [i \in 1..(Len(o) + 1) |-> ItemEvents(i, Append(o, x)[i])]
      BY <3>1
    <3>5. \A i \in 1..(Len(o) + 1) : ItemEvents(i, Append(o, x)[i]) = IF i = Len(o) + 1 THEN new ELSE e[i]
      <4> TAKE i \in 1..(Len(o) + 1)
      <4>1. CASE i = Len(o) + 1
        BY <3>1, <4>1 DEF new, k
      <4>2. CASE i # Len(o) + 1
        <5>1. i \in 1..Len(o)
          BY <3>1, <4>2
        <5> QED BY <3>1, <3>2, <4>2, <5>1
      <4> QED BY <4>1, <4>2
    <3> HIDE DEF e, each
    <3> QED BY <3>3, <3>4, <3>5 DEF e
  <2> HIDE DEF new, each
  <2>5. EventsOfItem(Append(o, x)) = EventsOfItem(o) \o new /\ EventsOfItem(o) \o new \in Seq(StreamEvents)
    <3>1. FlattenSeq(Append(each(o), new)) = FlattenSeq(each(o)) \o new
      BY <2>1, <2>3, FlattenAppend
    <3>2. EventsOfItem(o) = FlattenSeq(each(o)) /\ EventsOfItem(Append(o, x)) = FlattenSeq(each(Append(o, x)))
      BY DEF EventsOfItem, each
    <3> QED BY <2>1, <2>3, <2>4, <3>1, <3>2, ConcatType
  <2>6. Built(EventsOfItem(Append(o, x))) = Put(Each(BareItem, o), k, BareItem[x])
    BY <2>1, <2>3, <2>5
  <2>7. Each(BareItem, Append(o, x)) = Append(Each(BareItem, o), BareItem[x])
        /\ Each(BareItem, o) \in Seq(SaidItems) /\ Len(Each(BareItem, o)) = Len(o)
    BY <2>1, SaidItemsAre, EachAppend, EachType
  <2>8. BareItem[x] \in SaidItems
    BY SaidItemsAre DEF Maps
  <2>9. Put(Each(BareItem, o), k, BareItem[x]) = Append(Each(BareItem, o), BareItem[x])
    <3> DEFINE u == Each(BareItem, o)
               y == BareItem[x]
    <3>1. u \in Seq(SaidItems) /\ y \in SaidItems /\ k = Len(u) + 1
      BY <2>7, <2>8 DEF k
    <3> HIDE DEF u, y
    <3>2. Put(u, Len(u) + 1, y) = Append(u, y)
      BY <3>1, PutLast
    <3> QED BY <3>1, <3>2 DEF u, y
  <2>10. each(Append(o, x)) \in Seq(Seq(StreamEvents))
    BY <2>1, <2>3, <2>4
  <2> QED BY <2>1, <2>5, <2>6, <2>7, <2>9, <2>10 DEF S
<1>3. S = Seq(SaidItems)
  <2> HIDE DEF S
  <2>1. S \in SUBSET Seq(SaidItems)
    BY DEF S
  <2> QED BY <1>1, <1>2, <2>1, SeqInd
<1> QED BY <1>3

\* What a block becomes if arguments are never told.
BareBlock == [b \in Blocks |-> IF b \in UseBlocks THEN Use(b.id, Bare(b.args)) ELSE b]

\* A call without its arguments is the same call.
LEMMA BareBlocks ==
  /\ Maps(BareBlock, Blocks, Blocks)
  /\ \A b \in UseBlocks : /\ BareBlock[b] = Use(b.id, Bare(b.args)) /\ BareBlock[b] \in UseBlocks
                          /\ BareBlock[b].id = b.id /\ (Custom(BareBlock[b]) <=> Custom(b))
  /\ \A b \in Quiet : BareBlock[b] = b
<1>1. \A b \in UseBlocks : /\ Use(b.id, Bare(b.args)) \in UseBlocks /\ Use(b.id, Bare(b.args)).id = b.id
                           /\ Custom(Use(b.id, Bare(b.args))) <=> Custom(b)
  BY DEF UseBlocks, Use, Args, Bare, Custom
<1>2. \A b \in UseBlocks : BareBlock[b] = Use(b.id, Bare(b.args))
  BY QuietBlocks DEF BareBlock
<1>3. \A b \in Quiet : BareBlock[b] = b
  BY QuietBlocks DEF BareBlock
<1>4. \A b \in Blocks : BareBlock[b] \in Blocks
  <2> TAKE b \in Blocks
  <2>1. CASE b \in UseBlocks
    BY <1>1, <1>2, <2>1, QuietBlocks
  <2>2. CASE b \notin UseBlocks
    BY <2>2 DEF BareBlock
  <2> QED BY <2>1, <2>2
<1>5. Maps(BareBlock, Blocks, Blocks)
  BY <1>4 DEF Maps, BareBlock
<1> QED BY <1>1, <1>2, <1>3, <1>5

\* Calls without their arguments are the same calls.
LEMMA BareCalls ==
  ASSUME NEW us \in Seq(UseBlocks)
  PROVE  /\ Each(BareBlock, us) \in Seq(UseBlocks)
         /\ Ids(Each(BareBlock, us)) = Ids(us)
         /\ Ids(Only(Each(BareBlock, us), PlainUses)) = Ids(Only(us, PlainUses))
<1> DEFINE q == [b \in UseBlocks |-> BareBlock[b]]
           u == Each(BareBlock, us)
<1>1. /\ Maps(q, UseBlocks, UseBlocks)
      /\ \A b \in UseBlocks : BareBlock[b] = q[b] /\ q[b].id = b.id
      /\ \A b \in UseBlocks : q[b] \in PlainUses <=> b \in PlainUses
  BY BareBlocks DEF Maps, PlainUses
<1> HIDE DEF q
<1>2. u = Each(q, us)
  BY <1>1, EachSame
<1> HIDE DEF u
<1>3. ASSUME NEW s \in Seq(UseBlocks)
      PROVE  Each(q, s) \in Seq(UseBlocks) /\ Ids(Each(q, s)) = Ids(s)
  <2>1. /\ Each(q, s) \in Seq(UseBlocks) /\ DOMAIN Each(q, s) = DOMAIN s
        /\ \A i \in DOMAIN s : s[i] \in UseBlocks /\ Each(q, s)[i] = q[s[i]]
    BY <1>1, EachType
  <2>2. \A i \in DOMAIN s : Each(q, s)[i].id = s[i].id
    BY <1>1, <2>1
  <2> QED BY <2>1, <2>2 DEF Ids
<1>4. Only(u, PlainUses) = Each(q, Only(us, PlainUses))
  BY <1>1, <1>2, OnlyEach
<1>5. Only(us, PlainUses) \in Seq(UseBlocks)
  BY OnlyType
<1> QED BY <1>2, <1>3, <1>4, <1>5 DEF u

\* A reply with bare calls.
LEMMA BareReply ==
  ASSUME NEW pre \in Seq(Quiet), NEW us \in Seq(UseBlocks)
  PROVE  Each(BareBlock, pre \o us) = pre \o Each(BareBlock, us)
<1>1. pre \in Seq(Blocks) /\ us \in Seq(Blocks)
  BY ReplyParts
<1>2. Each(BareBlock, pre \o us) = Each(BareBlock, pre) \o Each(BareBlock, us)
  BY <1>1, BareBlocks, EachConcat
<1>3. Each(BareBlock, pre) = pre
  <2>1. DOMAIN pre = 1..Len(pre) /\ \A i \in DOMAIN pre : pre[i] \in Quiet
    BY PlacesOf
  <2>2. \A i \in DOMAIN pre : BareBlock[pre[i]] = pre[i]
    BY <2>1, BareBlocks
  <2> QED BY <2>1, <2>2 DEF Each
<1> QED BY <1>2, <1>3

\* What the proxy has of a reply that came as a stream.
LEMMA CodexReply ==
  ASSUME NEW said \in Seq(SaidBlocks), said # <<>>
  PROVE  /\ FromStream(CodexStream(said, "full")) = OutputOf(said)
         /\ FromStream(CodexStream(said, "hollow")) = OutputOf(Each(BareBlock, said))
         /\ FromStream(CodexStream(said, "cut")) = NoOutput
<1> DEFINE g == RespItem("assistant")
           p == [b \in SaidBlocks |-> g[b]]
           output == OutputOf(said)
<1>0. SaidBlocks \subseteq Blocks /\ SaidBlocks = TextBlocks \cup {Thinking} \cup UseBlocks
  BY QuietBlocks DEF SaidBlocks, Quiet
<1>1. said \in Seq(Blocks)
  BY <1>0, WiderSeq
<1>2. output = Each(g, said)
  BY <1>1, OutputOfIs
<1>3. /\ \A b \in TextBlocks : g[b] = MessageItem("assistant", b.text) /\ b.text \in Says
      /\ g[Thinking] = ReasoningItem
      /\ \A b \in UseBlocks : g[b] = CallItem(b.id, b.args) /\ g[b] \in CallItems /\ b.id \in STRING /\ b.args \in Args
  BY RespItems, BlockShapes
<1> HIDE DEF g
<1>4. \A b \in SaidBlocks : g[b] \in SaidItems
  BY <1>0, <1>3 DEF SaidItems
<1>5. Maps(p, SaidBlocks, SaidItems) /\ \A b \in SaidBlocks : g[b] = p[b]
  BY <1>4 DEF Maps
<1> HIDE DEF p
<1>6. output = Each(p, said) /\ output \in Seq(SaidItems) /\ Len(output) = Len(said)
  BY <1>2, <1>5, EachSame, EachType
<1>7. output # <<>>
  <2>1. Len(said) # 0
    BY <1>1
  <2> HIDE DEF output
  <2> QED BY <1>6, <2>1
<1> DEFINE events == EventsOfItem(output)
           bare == Each(BareItem, output)
           rebuilt == [i \in 1..Cardinality(DOMAIN bare) |-> bare[i]]
           stream(e) == CodexStream(said, e)
<1>8. events \in Seq(StreamEvents) /\ Built(events) = bare
  <2> HIDE DEF output
  <2> QED BY <1>6, StreamBuilt
<1>9. /\ \A e : stream(e).events = events
      /\ stream("full").completed /\ stream("hollow").completed /\ ~stream("cut").completed
      /\ stream("full").output = output /\ stream("hollow").output = <<>>
  BY DEF CodexStream, EventsOfItem
<1> HIDE DEF stream
<1>10. \A e : FromStream(stream(e)) =
           IF ~stream(e).completed THEN NoOutput
           ELSE IF stream(e).output # <<>> THEN stream(e).output
           ELSE IF rebuilt = <<>> THEN NoOutput
           ELSE rebuilt
  <2> HIDE DEF events, bare
  <2> TAKE e
  <2>1. stream(e).events \in Seq(StreamEvents) /\ Built(stream(e).events) = bare
    BY <1>8, <1>9
  <2> QED BY <2>1, FromStreamIs
<1> HIDE DEF events
<1>11. FromStream(stream("full")) = output /\ FromStream(stream("cut")) = NoOutput
  <2> HIDE DEF bare, output, rebuilt
  <2> QED BY <1>7, <1>9, <1>10
<1>12. bare \in Seq(SaidItems) /\ bare # <<>> /\ rebuilt = bare
  <2> HIDE DEF output
  <2>1. bare \in Seq(SaidItems) /\ Len(bare) = Len(output)
    BY <1>6, SaidItemsAre, EachType
  <2> HIDE DEF bare
  <2>2. DOMAIN bare = 1..Len(bare) /\ Len(bare) \in Nat /\ Len(bare) # 0
    BY <1>6, <1>7, <2>1
  <2>3. Cardinality(1..Len(bare)) = Len(bare)
    BY <2>2, FS_Interval
  <2>4. bare = [i \in 1..Len(bare) |-> bare[i]]
    BY <2>1, <2>2
  <2> QED BY <2>1, <2>2, <2>3, <2>4
<1>13. FromStream(stream("hollow")) = bare
  <2> HIDE DEF bare, output, rebuilt
  <2> QED BY <1>9, <1>10, <1>12
<1>14. bare = OutputOf(Each(BareBlock, said))
  <2>1. bare = Each([b \in SaidBlocks |-> BareItem[p[b]]], said)
    BY <1>5, <1>6, EachEach
  <2>2. Each(BareBlock, said) \in Seq(Blocks)
    BY <1>1, BareBlocks, EachType
  <2>3. OutputOf(Each(BareBlock, said)) = Each(g, Each(BareBlock, said))
    BY <2>2, OutputOfIs DEF g
  <2>4. Each(g, Each(BareBlock, said)) = Each([b \in Blocks |-> g[BareBlock[b]]], said)
    BY <1>1, BareBlocks, EachEach
  <2> DEFINE x == [b \in SaidBlocks |-> BareItem[p[b]]]
             y == [b \in Blocks |-> g[BareBlock[b]]]
  <2>5. \A b \in SaidBlocks : x[b] = y[b]
    <3> TAKE b \in SaidBlocks
    <3>1. x[b] = BareItem[g[b]] /\ y[b] = g[BareBlock[b]]
      BY <1>0, <1>5
    <3>2. CASE b \in UseBlocks
      <4>1. BareBlock[b] = Use(b.id, Bare(b.args)) /\ BareBlock[b] \in UseBlocks
        BY <3>2, BareBlocks
      <4>2. Use(b.id, Bare(b.args)).id = b.id /\ Use(b.id, Bare(b.args)).args = Bare(b.args)
        BY DEF Use
      <4>3. g[BareBlock[b]] = CallItem(b.id, Bare(b.args))
        BY <1>3, <4>1, <4>2
      <4>4. g[b] \in CallItems /\ g[b] = CallItem(b.id, b.args) /\ g[b] \in SaidItems
        BY <1>3, <1>4, <3>2
      <4>5. g[b].id = b.id /\ g[b].args = b.args
        BY <4>4 DEF CallItem
      <4>6. BareItem[g[b]] = CallItem(b.id, Bare(b.args))
        BY <4>4, <4>5 DEF BareItem
      <4> QED BY <3>1, <4>3, <4>6
    <3>3. CASE b \in Quiet
      <4>1. BareBlock[b] = b
        BY <3>3, BareBlocks
      <4>2. g[b] \in SaidItems /\ g[b] \notin CallItems
        <5>1. (\A t : MessageItem("assistant", t) \notin CallItems) /\ ReasoningItem \notin CallItems
          BY DEF MessageItem, ReasoningItem, CallItems
        <5>2. g[b] \in SaidItems
          BY <1>4
        <5>3. g[b] = ReasoningItem \/ g[b] = MessageItem("assistant", b.text)
          BY <1>3, <3>3 DEF Quiet
        <5> QED BY <5>1, <5>2, <5>3
      <4>3. BareItem[g[b]] = g[b]
        BY <4>2 DEF BareItem
      <4> QED BY <3>1, <4>1, <4>3
    <3> QED BY <3>2, <3>3 DEF SaidBlocks
  <2> HIDE DEF x, y
  <2>6. Each(x, said) = Each(y, said)
    BY <2>5, EachSame
  <2> QED BY <2>1, <2>3, <2>4, <2>6 DEF x, y
<1> QED BY <1>11, <1>13, <1>14 DEF stream

---------------------------------------------------------------------------
(* What the client reads of a reply.                                       *)

\* A reply that became t: words if there were words, thinking only if there was any.
Heard(t, pre) == /\ QuietWords(t) <=> QuietWords(pre)
                 /\ Thinking \in ToSet(t) => Thinking \in ToSet(pre)

\* Texts are no thinking.
LEMMA TextsHeard ==
  ASSUME NEW t \in Seq(TextBlocks)
  PROVE  t \in Seq(Quiet) /\ Thinking \notin ToSet(t)
BY QuietBlocks, WiderSeq, ElementsOf

\* Without its thinking and its custom calls.
LEMMA ToldReply ==
  ASSUME NEW pre \in Seq(Quiet), NEW us \in Seq(UseBlocks)
  PROVE  /\ Only(pre \o us, Shown) = Only(pre, Shown) \o Only(us, PlainUses)
         /\ Only(pre, Shown) \in Seq(TextBlocks) /\ Heard(Only(pre, Shown), pre)
         /\ Only(us, PlainUses) \in Seq(UseBlocks)
         /\ pre \o us \in Seq(SaidBlocks)
<1> DEFINE t == Only(pre, Shown)
<1>1. /\ pre \in Seq(Blocks) /\ us \in Seq(Blocks) /\ ToSet(us) \subseteq UseBlocks /\ pre \o us \in Seq(Blocks)
      /\ ToSet(pre) \subseteq Quiet /\ ToSet(pre \o us) = ToSet(pre) \cup ToSet(us)
  BY ReplyParts
<1>2. Only(pre \o us, Shown) = Only(pre, Shown) \o Only(us, Shown)
  BY <1>1, OnlyConcat
<1>3. Only(us, Shown) = Only(us, PlainUses)
  <2> DEFINE P == {i \in DOMAIN us : us[i] \in Shown}
  <2>1. \A i \in DOMAIN us : us[i] \in UseBlocks
    BY PlacesOf
  <2>2. \A i \in DOMAIN us : i \in P <=> us[i] \in Shown
    OBVIOUS
  <2>3. \A i \in DOMAIN us : i \in P <=> us[i] \in PlainUses
    BY <2>1, QuietBlocks DEF Shown, PlainUses
  <2> HIDE DEF P
  <2>4. At(us, P) = Only(us, Shown) /\ At(us, P) = Only(us, PlainUses)
    BY <1>1, <2>2, <2>3, OnlyIs
  <2> QED BY <2>4
<1>4. t \in Seq(Quiet) /\ ToSet(t) = ToSet(pre) \cap Shown
  BY OnlyType, OnlySet
<1> HIDE DEF t
<1>5. Thinking \notin Shown /\ Text("words") \in Shown /\ Quiet \cap Shown \subseteq TextBlocks
  BY QuietBlocks, BlockForms DEF Shown, PlainUses, Says, Quiet
<1>6. Heard(t, pre) /\ t \in Seq(TextBlocks)
  <2>1. ToSet(t) \subseteq TextBlocks
    BY <1>1, <1>4, <1>5
  <2> QED BY <1>4, <1>5, <2>1, ElementsIn DEF Heard, QuietWords
<1>7. pre \o us \in Seq(SaidBlocks)
  <2>1. ToSet(pre \o us) \subseteq SaidBlocks
    BY <1>1 DEF SaidBlocks
  <2> QED BY <1>1, <2>1, ElementsIn
<1> QED BY <1>2, <1>3, <1>6, <1>7, OnlyType DEF t

\* Some thinking first or none, then texts.
Opens(pre) == \E th \in {<<>>, <<Thinking>>}, tx \in Seq(TextBlocks) : pre = th \o tx

\* What can be seen of such an opening opens too, and starts as it did.
LEMMA SeenOpens ==
  ASSUME NEW pre \in Seq(Quiet), Opens(pre)
  PROVE  LET p == Only(pre, Seen)
         IN /\ DOMAIN p = 1..Len(p) /\ \A j \in DOMAIN p : p[j] \in Seen
            /\ \A j \in DOMAIN p : p[j] = Thinking => j = 1 /\ pre # <<>> /\ pre[1] = Thinking
<1>1. PICK th \in {<<>>, <<Thinking>>}, tx \in Seq(TextBlocks) : pre = th \o tx
  BY DEF Opens
<1> DEFINE p == Only(pre, Seen)
           q == Only(tx, Seen)
<1>2. th \in Seq(Quiet) /\ tx \in Seq(Quiet) /\ ToSet(th) \subseteq Seen
  <2>1. <<>> \in Seq(Quiet) /\ <<Thinking>> \in Seq(Quiet) /\ tx \in Seq(Quiet)
    BY QuietBlocks, WiderSeq
  <2>2. ToSet(<<>>) = {} /\ ToSet(<<Thinking>>) = {Thinking}
    BY DEF ToSet
  <2> QED BY <2>1, <2>2, QuietBlocks
<1>3. Only(th \o tx, Seen) = Only(th, Seen) \o Only(tx, Seen) /\ Only(th, Seen) = th
  BY <1>2, OnlyConcat, OnlyAll
<1>4. p = th \o q
  BY <1>1, <1>3
<1>5. q \in Seq(TextBlocks) /\ p \in Seq(Quiet) /\ ToSet(p) \subseteq Seen
  BY OnlyType, OnlySet
<1> HIDE DEF p, q
<1>6. DOMAIN p = 1..Len(p) /\ \A j \in DOMAIN p : p[j] \in Seen
  BY <1>5 DEF ToSet
<1>7. \A j \in DOMAIN q : q[j] # Thinking
  BY <1>5, PlacesOf, QuietBlocks
<1>8. CASE th = <<>>
  <2>1. p = q
    BY <1>4, <1>5, <1>8, ConcatNone
  <2> QED BY <1>6, <1>7, <2>1 DEF p
<1>9. CASE th = <<Thinking>>
  <2>1. pre[1] = Thinking /\ pre # <<>>
    BY <1>1, <1>9
  <2>2. \A j \in DOMAIN p : j # 1 => p[j] # Thinking
    BY <1>4, <1>5, <1>7, <1>9
  <2> QED BY <1>6, <2>1, <2>2 DEF p
<1> QED BY <1>8, <1>9

\* What is read of a reply on wire w: its calls, behind what was heard of the rest;
\* shown says whether a stream was made up of thinking that is not passed on.
Reads(w, shown, got, pre, us) ==
  \E t \in Seq(Quiet) :
    /\ got = t \o us
    /\ Heard(t, pre)
    /\ w = "anthropic" =>
         \A j \in DOMAIN t : t[j] \in Seen \/ (shown /\ j = 1 /\ pre # <<>> /\ pre[1] = Thinking)

\* What a client of any wire reads of a reply, streamed or whole: its words and its calls.
LEMMA AdaptedReply ==
  ASSUME NEW w \in {"anthropic", "chat", "responses"}, NEW streaming,
         NEW pre \in Seq(Quiet), Opens(pre), NEW us \in Seq(UseBlocks)
  PROVE  Reads(w, streaming, Adapted(w, streaming, pre \o us), pre, us)
<1> DEFINE p == Only(pre, Seen)
<1>1. StripBlank(pre \o us) = p \o us /\ p \in Seq(Quiet) /\ ToSet(p) = ToSet(pre) \cap Seen
  BY StripBlankReply
<1>2. Thinking \in Seen /\ Text("words") \in Seen
  BY QuietBlocks, BlockForms DEF Says, Quiet
<1>9. /\ DOMAIN p = 1..Len(p) /\ \A j \in DOMAIN p : p[j] \in Seen
      /\ \A j \in DOMAIN p : p[j] = Thinking => j = 1 /\ pre # <<>> /\ pre[1] = Thinking
  BY SeenOpens
<1> HIDE DEF p
<1>3. Heard(p, pre)
  BY <1>1, <1>2 DEF Heard, QuietWords
<1>4. \A t \in Seq(TextBlocks) : (QuietWords(t) <=> QuietWords(p)) => t \in Seq(Quiet) /\ Heard(t, pre)
  BY <1>3, TextsHeard DEF Heard
<1>5. CASE w = "anthropic" /\ streaming
  <2>1. Adapted(w, streaming, pre \o us) = Synthesized(p \o us)
    BY <1>1, <1>5 DEF Adapted
  <2>2. PICK t \in Seq(TextBlocks) :
           /\ Synthesized(p \o us) = t \o us
           /\ QuietWords(t) <=> QuietWords(p)
           /\ DOMAIN t = DOMAIN p /\ \A j \in DOMAIN t : t[j] = p[j] \/ p[j] = Thinking
    BY <1>1, SynthesizedReply
  <2>3. \A j \in DOMAIN t : t[j] \in Seen \/ (streaming /\ j = 1 /\ pre # <<>> /\ pre[1] = Thinking)
    BY <1>5, <1>9, <2>2
  <2> QED BY <1>4, <2>1, <2>2, <2>3 DEF Reads
<1>6. CASE w = "anthropic" /\ ~streaming
  <2>1. Adapted(w, streaming, pre \o us) = p \o us
    BY <1>1, <1>6 DEF Adapted
  <2> QED BY <1>1, <1>3, <1>9, <2>1 DEF Reads
<1>7. CASE w = "chat"
  <2>1. Adapted(w, streaming, pre \o us) = ReadChat(ToChatReply(p \o us))
    BY <1>1, <1>7 DEF Adapted
  <2>2. PICK t \in Seq(TextBlocks) :
           /\ (IF Joined(p \o us) = "empty" THEN <<>> ELSE <<Text(Joined(p \o us))>>) \o Uses(p \o us) = t \o us
           /\ QuietWords(t) <=> QuietWords(p)
    BY <1>1, JoinedReply
  <2>3. ReadChat(ToChatReply(p \o us)) = t \o us
    BY <2>2 DEF ReadChat, ToChatReply, ChatMessage
  <2>4. t \in Seq(Quiet) /\ Heard(t, pre) /\ w # "anthropic"
    BY <1>4, <1>7, <2>2
  <2> QED BY <2>1, <2>3, <2>4 DEF Reads
<1>8. CASE w = "responses"
  <2>1. Adapted(w, streaming, pre \o us) = ReadOutput(ToOutput(p \o us))
    BY <1>1, <1>8 DEF Adapted
  <2>2. PICK t \in Seq(TextBlocks) :
           /\ ReadOutput(ToOutput(p \o us)) = t \o us
           /\ QuietWords(t) <=> QuietWords(p)
    BY <1>1, OutputReply
  <2>3. t \in Seq(Quiet) /\ Heard(t, pre) /\ w # "anthropic"
    BY <1>4, <1>8, <2>2
  <2>4. Adapted(w, streaming, pre \o us) = t \o us
    BY <2>1, <2>2
  <2> QED BY <2>3, <2>4 DEF Reads
<1> QED BY <1>5, <1>6, <1>7, <1>8
=============================================================================
