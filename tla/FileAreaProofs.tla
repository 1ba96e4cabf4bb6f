---------------------------- MODULE FileAreaProofs ---------------------------
(***************************************************************************)
(* What TLAPS proves about FileArea: for any names, images and size of the  *)
(* area, and for any bits that failed bytes leave, the entries lie one      *)
(* behind the other with erased bytes above them (AreaInv, the inductive    *)
(* invariant), from which the properties of FileArea follow, and the bytes  *)
(* implement the log of FileLog.                                            *)
(*                                                                          *)
(* The order: least elements, sums over sets, the walk of Trail along a     *)
(* chain, what is read back of an entry, the space sums, what one blown     *)
(* byte changes, the steps, the theorems, and last the log.                 *)
(***************************************************************************)
EXTENDS FileArea, Integers, FiniteSetTheorems, SequenceTheorems, WellFoundedInduction, TLAPS

----------------------------------------------------------------------------
(* Numbers and recursion *)

Before == {ss \in Nat \X Nat : ss[1] < ss[2]}

LEMMA BeforeWellFounded == IsWellFoundedOn(Before, Nat)
  BY NatLessThanWellFounded DEF OpToRel, Before

LEMMA LeastElement ==
    ASSUME NEW T, T \subseteq Nat, T # {}
    PROVE  \E x \in T : \A y \in T : x <= y
<1>1. PICK x \in T : \A y \in T : ~ (<<y, x>> \in Before)
  BY BeforeWellFounded, WFMin
<1>2. \A y \in T : y < x => <<y, x>> \in Before
  BY DEF Before
<1>3. \A y \in T : ~ (y < x)
  BY <1>1, <1>2
<1> QED  BY <1>3

\* Induction, as the backends can use it: the least number for which it fails.
LEMMA LeastBad ==
    ASSUME NEW Bad, Bad \subseteq Nat, Bad # {}
    PROVE  \E n \in Bad : n \in Nat /\ \A k \in Nat : k < n => k \notin Bad
<1>1. PICK n \in Bad : \A k \in Bad : n <= k
  BY LeastElement
<1> QED  BY <1>1

\* Functions that begin at a and go on by N, up to n.
Runs(S, a, N, n) ==
    {g \in [0..n -> S] : g[0] = a /\ \A i \in 0..(n - 1) : g[i + 1] = N[g[i]]}

LEMMA RunsExist ==
    ASSUME NEW S, NEW a \in S, NEW N \in [S -> S]
    PROVE  \A n \in Nat : Runs(S, a, N, n) # {}
<1> DEFINE Bad == {n \in Nat : Runs(S, a, N, n) = {}}
<1> SUFFICES ASSUME Bad # {} PROVE FALSE
  OBVIOUS
<1>1. PICK n \in Bad : \A k \in Bad : n <= k
  BY LeastElement
<1>2. CASE n = 0
  <2>1. [i \in 0..0 |-> a] \in Runs(S, a, N, 0)
    BY DEF Runs
  <2> QED  BY <1>2, <2>1
<1>3. CASE n # 0
  <2>1. n - 1 \in Nat /\ n - 1 \notin Bad
    BY <1>1, <1>3
  <2>2. PICK g \in Runs(S, a, N, n - 1) : TRUE
    BY <2>1
  <2> DEFINE h == [i \in 0..n |-> IF i = n THEN N[g[n - 1]] ELSE g[i]]
  <2>3. g \in [0..(n - 1) -> S] /\ g[0] = a /\ \A i \in 0..(n - 2) : g[i + 1] = N[g[i]]
    BY <2>1, <2>2 DEF Runs
  <2>4. h \in [0..n -> S] /\ h[0] = a
    BY <2>1, <2>3
  <2>5. ASSUME NEW i \in 0..(n - 1) PROVE h[i + 1] = N[h[i]]
    <3>1. CASE i = n - 1
      BY <2>1, <3>1
    <3>2. CASE i # n - 1
      <4>1. i \in 0..(n - 2) /\ i + 1 # n /\ i # n /\ i \in 0..n /\ i + 1 \in 0..n
        BY <2>1, <3>2
      <4> QED  BY <2>3, <4>1
    <3> QED  BY <3>1, <3>2
  <2>6. h \in Runs(S, a, N, n)
    BY <2>4, <2>5 DEF Runs
  <2> QED  BY <2>6
<1> QED  BY <1>2, <1>3

LEMMA RunsAgree ==
    ASSUME NEW S, NEW a \in S, NEW N \in [S -> S], NEW m \in Nat, NEW n \in Nat,
           NEW g \in Runs(S, a, N, m), NEW h \in Runs(S, a, N, n)
    PROVE  \A i \in Nat : i <= m /\ i <= n => g[i] = h[i]
<1> DEFINE Bad == {i \in Nat : i <= m /\ i <= n /\ g[i] # h[i]}
<1> SUFFICES ASSUME Bad # {} PROVE FALSE
  OBVIOUS
<1>1. PICK i \in Bad : \A k \in Bad : i <= k
  BY LeastElement
<1>2. i # 0
  BY DEF Runs
<1>3. i - 1 \in Nat /\ i - 1 \notin Bad
  BY <1>1, <1>2
<1>4. g[i - 1] = h[i - 1]
  BY <1>3
<1>5. g[(i - 1) + 1] = N[g[i - 1]] /\ h[(i - 1) + 1] = N[h[i - 1]]
  BY <1>3 DEF Runs
<1> QED  BY <1>4, <1>5

Iterates(f, S, a, N) == f \in [Nat -> S] /\ f[0] = a /\ \A i \in Nat : f[i + 1] = N[f[i]]

\* A function on the numbers may be defined by its first value and its steps.
LEMMA NatRecursion ==
    ASSUME NEW S, NEW a \in S, NEW N \in [S -> S]
    PROVE  \E f : Iterates(f, S, a, N)
<1> DEFINE g(n) == CHOOSE h \in Runs(S, a, N, n) : TRUE
           f == [n \in Nat |-> g(n)[n]]
<1>1. \A n \in Nat : g(n) \in Runs(S, a, N, n)
  BY RunsExist
<1> HIDE DEF g
<1>2. f \in [Nat -> S]
  BY <1>1 DEF Runs
<1>3. f[0] = a
  BY <1>1 DEF Runs
<1>4. ASSUME NEW i \in Nat PROVE f[i + 1] = N[f[i]]
  <2>1. g(i) \in Runs(S, a, N, i) /\ g(i + 1) \in Runs(S, a, N, i + 1)
    BY <1>1
  <2>2. g(i)[i] = g(i + 1)[i]
    BY <2>1, RunsAgree
  <2>3. g(i + 1)[i + 1] = N[g(i + 1)[i]]
    BY <2>1 DEF Runs
  <2> QED  BY <2>2, <2>3
<1> HIDE DEF f
<1> QED  BY <1>2, <1>3, <1>4 DEF Iterates

----------------------------------------------------------------------------
(* Sums over sets *)

Some(s) == CHOOSE x \in s : TRUE

\* F gives the sum of w over each subset of U, as a fold defines it.
SumsUp(F, w, U) ==
    /\ F \in [SUBSET U -> Nat]
    /\ F[{}] = 0
    /\ \A s \in SUBSET U : s # {} => F[s] = w[Some(s)] + F[s \ {Some(s)}]

LEMMA SomeIn == ASSUME NEW s, s # {} PROVE Some(s) \in s
  BY DEF Some

LEMMA SizeIs ==
    ASSUME NEW U, IsFiniteSet(U), NEW s \in SUBSET U
    PROVE  /\ IsFiniteSet(s) /\ Cardinality(s) \in Nat /\ Cardinality(s) <= Cardinality(U)
           /\ Cardinality(U) \in Nat
           /\ Cardinality(s) = 0 <=> s = {}
           /\ \A x \in s : Cardinality(s \ {x}) = Cardinality(s) - 1
  BY FS_Subset, FS_CardinalityType, FS_EmptySet, FS_RemoveElement

LEMMA SumsExist ==
    ASSUME NEW U, IsFiniteSet(U), NEW w \in [U -> Nat]
    PROVE  \E F : SumsUp(F, w, U)
<1> DEFINE S == [SUBSET U -> Nat]
           a == [s \in SUBSET U |-> 0]
           N == [R \in S |-> [s \in SUBSET U |-> IF s = {} THEN 0 ELSE w[Some(s)] + R[s \ {Some(s)}]]]
<1>1. a \in S
  OBVIOUS
<1>2. N \in [S -> S]
  <2> SUFFICES ASSUME NEW R \in S, NEW s \in SUBSET U, s # {} PROVE w[Some(s)] + R[s \ {Some(s)}] \in Nat
    OBVIOUS
  <2>1. Some(s) \in U /\ s \ {Some(s)} \in SUBSET U
    BY SomeIn
  <2> QED  BY <2>1
<1>x. PICK R : Iterates(R, S, a, N)
  <2> HIDE DEF S, a, N
  <2> QED  BY <1>1, <1>2, NatRecursion
<1>3. R \in [Nat -> S] /\ R[0] = a /\ \A i \in Nat : R[i + 1] = N[R[i]]
  BY <1>x DEF Iterates
<1>4. ASSUME NEW i \in Nat, NEW s \in SUBSET U
      PROVE  R[i + 1][s] = IF s = {} THEN 0 ELSE w[Some(s)] + R[i][s \ {Some(s)}]
  <2>1. R[i] \in S /\ R[i + 1] = N[R[i]]
    BY <1>3
  <2> QED  BY <2>1
<1> DEFINE Bad == {i \in Nat : \E s \in SUBSET U : Cardinality(s) <= i /\ R[i + 1][s] # R[i][s]}
<1>5. Bad = {}
  <2> SUFFICES ASSUME Bad # {} PROVE FALSE
    OBVIOUS
  <2>1. PICK i \in Bad : i \in Nat /\ \A k \in Nat : k < i => k \notin Bad
    BY LeastBad
  <2>2. PICK s \in SUBSET U : Cardinality(s) <= i /\ R[i + 1][s] # R[i][s]
    BY <2>1
  <2>3. CASE s = {}
    <3>1. R[0][s] = 0 /\ \A k \in Nat : R[k + 1][s] = 0
      BY <1>3, <1>4, <2>3
    <3>2. R[i][s] = 0
      <4>1. CASE i = 0
        BY <3>1, <4>1
      <4>2. CASE i # 0
        <5>1. i - 1 \in Nat /\ (i - 1) + 1 = i
          BY <2>1, <4>2
        <5> QED  BY <3>1, <5>1
      <4> QED  BY <4>1, <4>2
    <3> QED  BY <2>1, <2>2, <3>1, <3>2
  <2>4. CASE s # {}
    <3> DEFINE t == s \ {Some(s)}
    <3>1. Some(s) \in s /\ t \in SUBSET U /\ Cardinality(t) = Cardinality(s) - 1 /\ Cardinality(s) \in Nat \ {0}
      BY <2>4, SomeIn, SizeIs
    <3>2. i - 1 \in Nat /\ i - 1 \notin Bad /\ (i - 1) + 1 = i /\ Cardinality(t) <= i - 1
      BY <2>1, <2>2, <3>1
    <3>3. R[i][t] = R[i - 1][t]
      BY <3>1, <3>2
    <3>4. R[i + 1][s] = w[Some(s)] + R[i][t] /\ R[(i - 1) + 1][s] = w[Some(s)] + R[i - 1][t]
      BY <1>4, <2>1, <2>4, <3>2
    <3> QED  BY <2>2, <3>2, <3>3, <3>4
  <2> QED  BY <2>3, <2>4
<1> DEFINE n == Cardinality(U)
           F == R[n]
<1>6. n \in Nat /\ \A s \in SUBSET U : Cardinality(s) <= n /\ Cardinality(s) \in Nat
  BY SizeIs
<1>7. \A s \in SUBSET U : R[n + 1][s] = R[n][s]
  BY <1>5, <1>6
<1>8. F \in S
  BY <1>3, <1>6
<1>9. \A s \in SUBSET U : F[s] = IF s = {} THEN 0 ELSE w[Some(s)] + F[s \ {Some(s)}]
  <2> HIDE DEF n
  <2>1. ASSUME NEW s \in SUBSET U PROVE F[s] = IF s = {} THEN 0 ELSE w[Some(s)] + F[s \ {Some(s)}]
    BY <1>4, <1>6, <1>7
  <2> QED  BY <2>1
<1>10. SumsUp(F, w, U)
  <2> HIDE DEF F
  <2>1. {} \in SUBSET U
    OBVIOUS
  <2> QED  BY <1>8, <1>9, <2>1 DEF SumsUp
<1> QED  BY <1>10

\* The order of the fold does not matter.
LEMMA SumOfOneMore ==
    ASSUME NEW U, IsFiniteSet(U), NEW w \in [U -> Nat], NEW F, SumsUp(F, w, U),
           NEW s \in SUBSET U, NEW y \in U \ s
    PROVE  F[s \union {y}] = F[s] + w[y]
<1> DEFINE Bad == {n \in Nat : \E r \in SUBSET U : \E z \in U :
                      z \notin r /\ Cardinality(r) = n /\ F[r \union {z}] # F[r] + w[z]}
<1>1. Bad = {}
  <2> SUFFICES ASSUME Bad # {} PROVE FALSE
    OBVIOUS
  <2>1. PICK n \in Bad : n \in Nat /\ \A k \in Nat : k < n => k \notin Bad
    BY LeastBad
  <2>2. PICK r \in SUBSET U, z \in U : z \notin r /\ Cardinality(r) = n /\ F[r \union {z}] # F[r] + w[z]
    BY <2>1
  <2> DEFINE t == r \union {z}
             x == Some(t)
  <2>3. x \in t /\ t \in SUBSET U /\ F[t] = w[x] + F[t \ {x}]
    <3>1. t # {} /\ t \in SUBSET U
      OBVIOUS
    <3>2. x \in t
      BY <3>1, SomeIn
    <3> HIDE DEF t
    <3>3. F[t] = w[Some(t)] + F[t \ {Some(t)}]
      BY <3>1 DEF SumsUp
    <3> QED  BY <3>1, <3>2, <3>3
  <2>4. \A q \in SUBSET U : F[q] \in Nat
    BY DEF SumsUp
  <2>5. CASE x = z
    <3>1. t \ {x} = r
      BY <2>2, <2>5
    <3>2. F[t] = w[z] + F[r] /\ F[r] \in Nat /\ w[z] \in Nat
      BY <2>3, <2>4, <2>5, <3>1
    <3> HIDE DEF t
    <3>3. F[r \union {z}] = F[r] + w[z]
      BY <3>2 DEF t
    <3> QED  BY <2>2, <3>3
  <2>6. CASE x # z
    <3> DEFINE q == r \ {x}
    <3>1. x \in r /\ q \in SUBSET U /\ t \ {x} = q \union {z} /\ z \in U \ q /\ x \in U \ q /\ q \union {x} = r
      BY <2>2, <2>3, <2>6
    <3>2. Cardinality(q) = n - 1 /\ Cardinality(q) \in Nat /\ n - 1 < n
      <4>1. Cardinality(q) = Cardinality(r) - 1
        BY <2>2, <3>1, SizeIs
      <4>2. Cardinality(q) \in Nat
        BY <3>1, SizeIs
      <4> QED  BY <2>1, <2>2, <4>1, <4>2
    <3>3. Cardinality(q) \notin Bad
      BY <2>1, <3>2
    <3>4. F[q \union {z}] = F[q] + w[z] /\ F[q \union {x}] = F[q] + w[x]
      BY <3>1, <3>2, <3>3
    <3>5. w[x] \in Nat /\ w[z] \in Nat /\ F[q] \in Nat
      BY <2>4, <3>1
    <3>6. F[t] = w[x] + (F[q] + w[z]) /\ F[r] = F[q] + w[x]
      BY <2>3, <3>1, <3>4
    <3> QED  BY <2>2, <3>5, <3>6
  <2> QED  BY <2>5, <2>6
<1>2. Cardinality(s) \in Nat
  BY SizeIs
<1> QED  BY <1>1, <1>2

\* The function a fold over C is made from, which knows of no other elements.
Folds(iter, w, C) ==
    iter = [s \in SUBSET C |-> IF s = {} THEN 0 ELSE w[Some(s)] + iter[s \ {Some(s)}]]

LEMMA FoldIsSum ==
    ASSUME NEW U, IsFiniteSet(U), NEW w \in [U -> Nat], NEW F, SumsUp(F, w, U),
           NEW C \in SUBSET U,
           NEW iter, Folds(iter, w, C)
    PROVE  iter[C] = F[C]
<1> DEFINE Bad == {n \in Nat : \E s \in SUBSET C : Cardinality(s) = n /\ iter[s] # F[s]}
<1>1. Bad = {}
  <2> SUFFICES ASSUME Bad # {} PROVE FALSE
    OBVIOUS
  <2>1. PICK n \in Bad : n \in Nat /\ \A k \in Nat : k < n => k \notin Bad
    BY LeastBad
  <2>2. PICK s \in SUBSET C : Cardinality(s) = n /\ iter[s] # F[s]
    BY <2>1
  <2>3. iter[s] = IF s = {} THEN 0 ELSE w[Some(s)] + iter[s \ {Some(s)}]
    BY DEF Folds
  <2>4. s # {} /\ s \in SUBSET U /\ F[s] = w[Some(s)] + F[s \ {Some(s)}]
    BY <2>2, <2>3 DEF SumsUp
  <2>5. Some(s) \in s /\ s \ {Some(s)} \in SUBSET C
    BY <2>4, SomeIn
  <2>6. Cardinality(s \ {Some(s)}) = n - 1 /\ Cardinality(s \ {Some(s)}) \in Nat
    BY <2>2, <2>4, <2>5, SizeIs
  <2>7. n - 1 \notin Bad
    BY <2>1, <2>6, n - 1 < n
  <2>8. iter[s \ {Some(s)}] = F[s \ {Some(s)}]
    BY <2>5, <2>6, <2>7
  <2> QED  BY <2>2, <2>3, <2>4, <2>8
<1>2. Cardinality(C) \in Nat /\ C \in SUBSET C
  BY SizeIs
<1> QED  BY <1>1, <1>2

----------------------------------------------------------------------------
(* Reading a chain *)

Memory == [0..(Cap - 1) -> Byte]
Cells == 0..(CardSpan - 1)

LEMMA Numbers ==
    /\ FF \in Nat /\ FF > 1 /\ Digit \in Nat /\ Digit = FF + 1 /\ 0 \in Byte /\ FF \in Byte
    /\ Cap \in Nat /\ Cap > 0 /\ CardSpan \in Nat /\ Cap < CardSpan
    /\ 0 \in Cells /\ Cells \subseteq Nat
  BY ChainAssumption DEF Digit, Byte, Cells

LEMMA InCells == ASSUME NEW a \in Nat PROVE a % CardSpan \in Cells
  BY Numbers DEF Cells

LEMMA Products == ASSUME NEW a \in Nat, NEW b \in Nat PROVE a * b \in Nat
  OBVIOUS

LEMMA ReadTyped ==
    ASSUME NEW m \in Memory, NEW p \in Nat
    PROVE  /\ ReadByte(m, p) \in Byte /\ ReadByte(m, p) \in Nat
           /\ NameLength(m, p) \in Nat /\ FileSize(m, p) \in Nat
           /\ FileImage(m, p) \in Cells /\ NextEntry(m, p) \in Cells
           /\ EntrySpace(m, p) \in Nat
<1>1. \A q \in Nat : ReadByte(m, q) \in Byte
  BY Numbers DEF ReadByte, Memory
<1>2. \A q \in Nat : ReadByte(m, q) \in Nat
  BY <1>1, Numbers DEF Byte
<1>3. NameLength(m, p) \in Nat
  BY <1>2 DEF NameLength
<1>4. \A k \in Nat : AddPointerDistance(p, k) \in Cells /\ AddPointerDistance(p, k) \in Nat
  BY InCells, Numbers DEF AddPointerDistance
<1> DEFINE at(k) == ReadByte(m, AddPointerDistance(p, 1 + NameLength(m, p) + k))
<1>5. \A k \in 0..2 : at(k) \in Nat
  BY <1>2, <1>3, <1>4
<1>6. FileSize(m, p) = at(0) + Digit * at(1) + Digit * Digit * at(2)
  BY DEF FileSize
<1>7. FileSize(m, p) \in Nat
  <2> HIDE DEF at
  <2>1. at(0) \in Nat /\ at(1) \in Nat /\ at(2) \in Nat /\ Digit \in Nat
    BY <1>5, Numbers
  <2>2. Digit * at(1) \in Nat /\ Digit * Digit \in Nat
    BY <2>1, Products
  <2>3. Digit * Digit * at(2) \in Nat
    BY <2>1, <2>2, Products
  <2> QED  BY <1>6, <2>1, <2>2, <2>3
<1>8. FileImage(m, p) \in Cells
  BY <1>3, <1>4 DEF FileImage
<1>9. NextEntry(m, p) \in Cells
  <2>1. FileImage(m, p) \in Nat
    BY <1>8, Numbers
  <2>2. FileImage(m, p) + FileSize(m, p) \in Nat
    BY <1>7, <2>1
  <2> QED  BY <2>2, InCells DEF NextEntry, AddPointerDistance
<1>10. EntrySpace(m, p) \in Nat
  BY <1>3, <1>7 DEF EntrySpace
<1> QED  BY <1>1, <1>2, <1>3, <1>7, <1>8, <1>9, <1>10

\* One step of the walk of Trail, for all pointers at once.
WalkStep(m, R) == [p \in Cells |-> IF AtEnd(m, p) THEN <<p>> ELSE <<p>> \o R[NextEntry(m, p)]]
Alone == [p \in Cells |-> <<p>>]

IsWalk(W, m) ==
    W = [k \in 0..CardSpan |->
            [p \in Cells |->
                IF k = 0 \/ AtEnd(m, p) THEN <<p>> ELSE <<p>> \o W[k - 1][NextEntry(m, p)]]]

LEMMA WalkExists ==
    ASSUME NEW m \in Memory
    PROVE  \E W : IsWalk(W, m) /\ \A k \in 0..CardSpan : W[k] \in [Cells -> Seq(Cells)]
<1> DEFINE S == [Cells -> Seq(Cells)]
           N == [R \in S |-> WalkStep(m, R)]
<1>1. Alone \in S
  BY DEF Alone
<1>2. N \in [S -> S]
  <2> SUFFICES ASSUME NEW R \in S PROVE WalkStep(m, R) \in S
    OBVIOUS
  <2> SUFFICES ASSUME NEW p \in Cells
               PROVE  <<p>> \in Seq(Cells) /\ <<p>> \o R[NextEntry(m, p)] \in Seq(Cells)
    BY DEF WalkStep
  <2>1. NextEntry(m, p) \in Cells
    BY ReadTyped, Numbers
  <2>2. R[NextEntry(m, p)] \in Seq(Cells)
    BY <2>1
  <2>3. <<p>> \in Seq(Cells)
    OBVIOUS
  <2> QED  BY <2>2, <2>3, ConcatProperties
<1>3. PICK R : Iterates(R, S, Alone, N)
  <2> HIDE DEF S, N
  <2> QED  BY <1>1, <1>2, NatRecursion
<1>4. R \in [Nat -> S] /\ R[0] = Alone /\ \A i \in Nat : R[i + 1] = WalkStep(m, R[i])
  BY <1>3 DEF Iterates
<1> DEFINE W == [k \in 0..CardSpan |-> R[k]]
<1>5. ASSUME NEW k \in 0..CardSpan
      PROVE  R[k] = [p \in Cells |->
                        IF k = 0 \/ AtEnd(m, p) THEN <<p>> ELSE <<p>> \o W[k - 1][NextEntry(m, p)]]
  <2>1. CASE k = 0
    BY <1>4, <2>1 DEF Alone
  <2>2. CASE k # 0
    <3>1. k - 1 \in Nat /\ (k - 1) + 1 = k /\ k - 1 \in 0..CardSpan
      BY <2>2, Numbers
    <3>2. R[(k - 1) + 1] = WalkStep(m, R[k - 1])
      BY <1>4, <3>1
    <3>3. W[k - 1] = R[k - 1]
      BY <3>1
    <3> QED  BY <2>2, <3>1, <3>2, <3>3 DEF WalkStep
  <2> QED  BY <2>1, <2>2
<1>6. IsWalk(W, m)
  BY <1>5 DEF IsWalk
<1>7. \A k \in 0..CardSpan : W[k] \in S
  <2> HIDE DEF S
  <2> QED  BY <1>4, Numbers
<1> HIDE DEF W
<1> QED  BY <1>6, <1>7

Walk(m) == CHOOSE W : IsWalk(W, m)

LEMMA TrailIs == ASSUME NEW m \in Memory PROVE Trail(m) = Walk(m)[CardSpan][0] /\ IsWalk(Walk(m), m)
<1>1. IsWalk(Walk(m), m)
  BY WalkExists DEF Walk
<1>2. Trail(m) = Walk(m)[CardSpan][0]
  BY DEF Trail, Walk, IsWalk, Cells
<1> QED  BY <1>1, <1>2

LEMMA WalkIs ==
    ASSUME NEW m \in Memory, NEW k \in 0..CardSpan, NEW p \in Cells
    PROVE  Walk(m)[k][p] = IF k = 0 \/ AtEnd(m, p) THEN <<p>>
                           ELSE <<p>> \o Walk(m)[k - 1][NextEntry(m, p)]
<1> DEFINE W == Walk(m)
<1>1. IsWalk(W, m)
  BY TrailIs
<1> HIDE DEF W
<1>2. W[k] = [q \in Cells |->
                 IF k = 0 \/ AtEnd(m, q) THEN <<q>> ELSE <<q>> \o W[k - 1][NextEntry(m, q)]]
  BY <1>1 DEF IsWalk
<1>3. W[k][p] = IF k = 0 \/ AtEnd(m, p) THEN <<p>> ELSE <<p>> \o W[k - 1][NextEntry(m, p)]
  BY <1>2
<1> QED  BY <1>3 DEF W

LEMMA WalkTyped ==
    ASSUME NEW m \in Memory, NEW k \in 0..CardSpan, NEW p \in Cells
    PROVE  Walk(m)[k][p] \in Seq(Cells)
<1> DEFINE W == Walk(m)
           Bad == {i \in Nat : i <= CardSpan /\ \E q \in Cells : W[i][q] \notin Seq(Cells)}
<1>1. \A i \in 0..CardSpan, q \in Cells :
         W[i][q] = IF i = 0 \/ AtEnd(m, q) THEN <<q>> ELSE <<q>> \o W[i - 1][NextEntry(m, q)]
  BY WalkIs
<1> HIDE DEF W
<1>2. Bad = {}
  <2> SUFFICES ASSUME Bad # {} PROVE FALSE
    OBVIOUS
  <2>1. PICK i \in Bad : i \in Nat /\ \A j \in Nat : j < i => j \notin Bad
    BY LeastBad
  <2>2. PICK q \in Cells : W[i][q] \notin Seq(Cells)
    BY <2>1
  <2>3. i \in 0..CardSpan
    BY <2>1
  <2>4. <<q>> \in Seq(Cells)
    OBVIOUS
  <2>5. i # 0 /\ W[i][q] = <<q>> \o W[i - 1][NextEntry(m, q)]
    BY <1>1, <2>2, <2>3, <2>4
  <2>6. i - 1 \in Nat /\ i - 1 < i /\ NextEntry(m, q) \in Cells /\ i - 1 <= CardSpan
    BY <2>1, <2>3, <2>5, ReadTyped, Numbers
  <2>7. W[i - 1][NextEntry(m, q)] \in Seq(Cells)
    BY <2>1, <2>6
  <2> QED  BY <2>2, <2>4, <2>5, <2>7, ConcatProperties
<1> QED  BY <1>2, Numbers DEF W

\* ptr leads from the bottom of the area over n entries.
IsChain(m, ptr, n) ==
    /\ n \in Nat /\ n <= CardSpan
    /\ ptr \in Seq(Cells) /\ Len(ptr) = n + 1 /\ ptr[1] = 0
    /\ \A i \in 1..n : ~AtEnd(m, ptr[i]) /\ NextEntry(m, ptr[i]) = ptr[i + 1]

\* A walk that is h steps long, from d entries before the end of a chain.
Follows(m, ptr, n, d, h) ==
    LET T == Walk(m)[h][ptr[n + 1 - d]]
    IN  /\ Len(T) >= d + 1 /\ \A j \in 1..(d + 1) : T[j] = ptr[n - d + j]
        /\ AtEnd(m, ptr[n + 1]) => Len(T) = d + 1

LEMMA OnePutBefore ==
    ASSUME NEW S, NEW p \in S, NEW u \in Seq(S), NEW t, t = <<p>> \o u
    PROVE  /\ Len(t) = 1 + Len(u) /\ Len(u) \in Nat /\ t[1] = p
           /\ \A j \in 1..Len(u) : t[j + 1] = u[j]
<1>1. <<p>> \in Seq(S) /\ Len(<<p>>) = 1 /\ <<p>>[1] = p
  OBVIOUS
<1>2. /\ Len(t) = 1 + Len(u) /\ Len(u) \in Nat
      /\ \A j \in 1..(1 + Len(u)) : t[j] = IF j <= 1 THEN <<p>>[j] ELSE u[j - 1]
  BY <1>1, ConcatProperties
<1>3. t[1] = p
  BY <1>1, <1>2
<1>4. ASSUME NEW j \in 1..Len(u) PROVE t[j + 1] = u[j]
  <2>1. j + 1 \in 1..(1 + Len(u)) /\ ~(j + 1 <= 1) /\ (j + 1) - 1 = j
    BY <1>2
  <2>2. t[j + 1] = u[(j + 1) - 1]
    BY <1>2, <2>1
  <2> QED  BY <2>1, <2>2
<1> QED  BY <1>2, <1>3, <1>4

LEMMA FollowsNone ==
    ASSUME NEW m \in Memory, NEW ptr, NEW n, IsChain(m, ptr, n), NEW h \in 0..CardSpan
    PROVE  Follows(m, ptr, n, 0, h)
<1> DEFINE p == ptr[n + 1]
           t == Walk(m)[h][p]
           u == Walk(m)[h - 1][NextEntry(m, p)]
<1>1. n \in Nat /\ p \in Cells /\ n + 1 - 0 = n + 1 /\ p \in Nat
  <2>1. n \in Nat /\ ptr \in Seq(Cells) /\ Len(ptr) = n + 1
    BY DEF IsChain
  <2>2. n + 1 \in 1..Len(ptr)
    BY <2>1
  <2>3. p \in Cells
    BY <2>1, <2>2
  <2> HIDE DEF p, t, u
  <2>4. p \in Nat
    BY <2>3, Numbers
  <2> QED  BY <2>1, <2>3, <2>4
<1>2. t = IF h = 0 \/ AtEnd(m, p) THEN <<p>> ELSE <<p>> \o u
  BY <1>1, WalkIs
<1>3. ~(h = 0 \/ AtEnd(m, p)) => u \in Seq(Cells)
  <2> SUFFICES ASSUME ~(h = 0 \/ AtEnd(m, p)) PROVE u \in Seq(Cells)
    OBVIOUS
  <2>1. NextEntry(m, p) \in Cells /\ h - 1 \in 0..CardSpan
    BY <1>1, ReadTyped, Numbers
  <2> QED  BY <2>1, WalkTyped
<1> HIDE DEF t, u, p
<1>4. Len(t) >= 1 /\ t[1] = p /\ (AtEnd(m, p) => Len(t) = 1)
  <2>1. CASE h = 0 \/ AtEnd(m, p)
    <3>1. t = <<p>>
      BY <1>2, <2>1
    <3> QED  BY <3>1
  <2>2. CASE ~(h = 0 \/ AtEnd(m, p))
    <3>1. Len(t) = 1 + Len(u) /\ Len(u) \in Nat /\ t[1] = p
      BY <1>1, <1>2, <1>3, <2>2, OnePutBefore
    <3> QED  BY <2>2, <3>1
  <2> QED  BY <2>1, <2>2
<1>5. \A j \in 1..(0 + 1) : j = 1 /\ n - 0 + j = n + 1
  BY <1>1
<1> QED  BY <1>1, <1>4, <1>5 DEF Follows, t, p

LEMMA FollowsOneMore ==
    ASSUME NEW m \in Memory, NEW ptr, NEW n, IsChain(m, ptr, n),
           NEW d \in Nat, d < n, NEW h \in Nat, h < CardSpan, Follows(m, ptr, n, d, h)
    PROVE  Follows(m, ptr, n, d + 1, h + 1)
<1> DEFINE p == ptr[n - d]
           t == Walk(m)[h + 1][p]
           q == ptr[n + 1 - d]
           u == Walk(m)[h][q]
<1>1. /\ n \in Nat /\ n - d \in 1..n /\ (n - d) + 1 = n + 1 - d /\ n + 1 - (d + 1) = n - d
      /\ h + 1 \in 0..CardSpan /\ (h + 1) - 1 = h /\ h \in 0..CardSpan /\ n + 1 - d \in 1..(n + 1)
  BY Numbers DEF IsChain
<1>2. p \in Cells /\ q \in Cells /\ ~AtEnd(m, p) /\ NextEntry(m, p) = q
  BY <1>1 DEF IsChain
<1>3. t = <<p>> \o u /\ u \in Seq(Cells)
  <2> HIDE DEF p, q
  <2>1. Walk(m)[h + 1][p] = IF h + 1 = 0 \/ AtEnd(m, p) THEN <<p>>
                            ELSE <<p>> \o Walk(m)[(h + 1) - 1][NextEntry(m, p)]
    BY <1>1, <1>2, WalkIs
  <2>2. h + 1 # 0
    OBVIOUS
  <2>3. Walk(m)[h][q] \in Seq(Cells)
    BY <1>1, <1>2, WalkTyped
  <2> QED  BY <1>1, <1>2, <2>1, <2>2, <2>3
<1>4. /\ Len(u) >= d + 1 /\ (AtEnd(m, ptr[n + 1]) => Len(u) = d + 1)
      /\ \A j \in 1..(d + 1) : u[j] = ptr[n - d + j]
  BY DEF Follows
<1> HIDE DEF t, u, p, q
<1>5. /\ Len(t) = 1 + Len(u) /\ Len(u) \in Nat /\ t[1] = p
      /\ \A j \in 1..Len(u) : t[j + 1] = u[j]
  BY <1>2, <1>3, OnePutBefore
<1>6. ASSUME NEW j \in 1..((d + 1) + 1) PROVE t[j] = ptr[n - (d + 1) + j]
  <2>1. CASE j = 1
    <3>1. n - (d + 1) + j = n - d
      BY <1>1, <2>1
    <3> QED  BY <1>5, <2>1, <3>1 DEF p
  <2>2. CASE j # 1
    <3>1. /\ j - 1 \in 1..(d + 1) /\ (j - 1) + 1 = j /\ n - d + (j - 1) = n - (d + 1) + j
          /\ j - 1 \in 1..Len(u)
      BY <1>1, <1>4, <1>5, <2>2
    <3>2. t[(j - 1) + 1] = u[j - 1] /\ u[j - 1] = ptr[n - d + (j - 1)]
      BY <1>4, <1>5, <3>1
    <3> QED  BY <3>1, <3>2
  <2> QED  BY <2>1, <2>2
<1>7. Len(t) >= (d + 1) + 1 /\ (AtEnd(m, ptr[n + 1]) => Len(t) = (d + 1) + 1)
  BY <1>4, <1>5
<1> QED  BY <1>1, <1>6, <1>7 DEF Follows, t, p

LEMMA WalkFollows ==
    ASSUME NEW m \in Memory, NEW ptr, NEW n, IsChain(m, ptr, n),
           NEW d \in Nat, d <= n, NEW k \in Nat, d <= k, k <= CardSpan
    PROVE  Follows(m, ptr, n, d, k)
<1> DEFINE Bad == {e \in Nat : \E h \in Nat : e <= n /\ e <= h /\ h <= CardSpan /\ ~Follows(m, ptr, n, e, h)}
<1>1. Bad = {}
  <2> SUFFICES ASSUME Bad # {} PROVE FALSE
    OBVIOUS
  <2>1. PICK e \in Nat : e \in Bad /\ \A j \in Nat : j < e => j \notin Bad
    <3> HIDE DEF Bad
    <3>1. Bad \subseteq Nat
      BY DEF Bad
    <3> QED  BY <3>1, LeastBad
  <2>2. PICK h \in Nat : e <= n /\ e <= h /\ h <= CardSpan /\ ~Follows(m, ptr, n, e, h)
    BY <2>1
  <2>3. e # 0
    <3>1. h \in 0..CardSpan
      BY <2>2, Numbers
    <3> QED  BY <2>2, <3>1, FollowsNone
  <2>4. /\ e - 1 \in Nat /\ e - 1 < e /\ h - 1 \in Nat /\ (e - 1) + 1 = e /\ (h - 1) + 1 = h
        /\ e - 1 <= n /\ e - 1 < n /\ h - 1 < CardSpan /\ h - 1 <= CardSpan /\ e - 1 <= h - 1
    BY <2>2, <2>3, Numbers DEF IsChain
  <2>5. Follows(m, ptr, n, e - 1, h - 1)
    BY <2>1, <2>4
  <2>6. Follows(m, ptr, n, (e - 1) + 1, (h - 1) + 1)
    BY <2>4, <2>5, FollowsOneMore
  <2> QED  BY <2>2, <2>4, <2>6
<1> QED  BY <1>1

\* A scan from the bottom meets the entries of a chain first, and returns where it ends.
LEMMA TrailFollows ==
    ASSUME NEW m \in Memory, NEW ptr, NEW n, IsChain(m, ptr, n)
    PROVE  /\ Trail(m) \in Seq(Cells) /\ Len(Trail(m)) >= n + 1
           /\ \A j \in 1..(n + 1) : Trail(m)[j] = ptr[j]
           /\ AtEnd(m, ptr[n + 1]) => Trail(m) = ptr
<1>1. n \in 0..n /\ n <= CardSpan /\ CardSpan \in 0..CardSpan /\ n + 1 - n = 1 /\ ptr[1] = 0 /\ n \in Nat
  BY Numbers DEF IsChain
<1> DEFINE T == Walk(m)[CardSpan][0]
<1>2. /\ Len(T) >= n + 1 /\ \A j \in 1..(n + 1) : T[j] = ptr[n - n + j]
      /\ AtEnd(m, ptr[n + 1]) => Len(T) = n + 1
  <2>1. Follows(m, ptr, n, n, CardSpan)
    BY <1>1, WalkFollows, Numbers
  <2> QED  BY ONLY <1>1, <2>1 DEF Follows
<1>3. T \in Seq(Cells)
  BY <1>1, WalkTyped, Numbers
<1>4. Trail(m) = T
  BY TrailIs
<1> HIDE DEF T
<1>5. \A j \in 1..(n + 1) : T[j] = ptr[j]
  BY <1>1, <1>2
<1>6. AtEnd(m, ptr[n + 1]) => T = ptr
  <2> SUFFICES ASSUME AtEnd(m, ptr[n + 1]) PROVE T = ptr
    OBVIOUS
  <2>1. Len(T) = Len(ptr) /\ ptr \in Seq(Cells) /\ Len(ptr) = n + 1
    BY <1>2 DEF IsChain
  <2> QED  BY <1>3, <1>5, <2>1, SeqEqual
<1> QED  BY <1>2, <1>3, <1>4, <1>5, <1>6

----------------------------------------------------------------------------
(* Numbers in bytes *)

LEMMA Division ==
    ASSUME NEW a \in Nat, NEW b \in Nat \ {0}
    PROVE  a \div b \in Nat /\ a % b \in Nat /\ a % b < b /\ a = b * (a \div b) + (a % b)
  OBVIOUS

LEMMA Smaller ==
    ASSUME NEW a \in Nat, NEW b \in Nat \ {0}, a < b PROVE a % b = a /\ a \div b = 0
  OBVIOUS

LEMMA Times == 
    ASSUME NEW a \in Int, NEW b \in Int, NEW c \in Int
    PROVE  a * (b + c) = a * b + a * c /\ a * b \in Int /\ a * b = b * a /\ a * (b * c) = (a * b) * c
  OBVIOUS

LEMMA TimesGrows ==
    ASSUME NEW a \in Nat, NEW b \in Nat, NEW c \in Nat, b <= c
    PROVE  a * b <= a * c
  OBVIOUS

LEMMA Quotient ==
    ASSUME NEW b \in Nat \ {0}, NEW q \in Nat, NEW r \in Nat, r < b
    PROVE  (b * q + r) \div b = q /\ (b * q + r) % b = r
  OBVIOUS

LEMMA Spans ==
    /\ Digit \in Nat /\ Digit >= 2
    /\ Digit * Digit \in Nat /\ Digit * Digit >= 2
    /\ Digit * Digit * Digit \in Nat /\ Digit * Digit * Digit >= CardSpan
    /\ Digit * Digit * Digit * Digit \in Nat
    /\ Digit * Digit * Digit * Digit >= Digit * Digit * Digit
<1>1. Digit \in Nat /\ Digit >= 2
  BY Numbers
<1> DEFINE d2 == Digit * Digit
<1>2. d2 \in Nat /\ d2 >= 2
  <2>1. \A x \in Nat : x >= 2 => x * x \in Nat /\ x * x >= 2
    OBVIOUS
  <2> QED  BY <1>1, <2>1
<1> DEFINE d3 == d2 * Digit
<1>3. d3 \in Nat /\ d3 >= 2
  <2>1. \A x, y \in Nat : x >= 2 /\ y >= 2 => x * y \in Nat /\ x * y >= 2
    OBVIOUS
  <2> HIDE DEF d2
  <2> QED  BY <1>1, <1>2, <2>1
<1>4. d3 >= CardSpan
  <2>1. CardSpan \in Nat /\ CardSpan > 0 /\ d3 % CardSpan = 0
    BY Numbers, ChainAssumption
  <2> HIDE DEF d3
  <2>2. d3 < CardSpan => d3 % CardSpan = d3
    BY <1>3, <2>1, Smaller
  <2> QED  BY <1>3, <2>1, <2>2
<1>5. d3 * Digit \in Nat /\ d3 * Digit >= d3
  <2> HIDE DEF d3
  <2>1. \A x, y \in Nat : y >= 2 => x * y \in Nat /\ x * y >= x
    OBVIOUS
  <2> QED  BY <1>1, <1>3, <2>1
<1> QED  BY <1>1, <1>2, <1>3, <1>4, <1>5

\* The three bytes of a size that are read give the size back.
LEMMA SizeIsRead ==
    ASSUME NEW s \in Nat, s < Digit * Digit * Digit
    PROVE  /\ s % Digit \in Byte /\ (s \div Digit) % Digit \in Byte
           /\ (s \div (Digit * Digit)) % Digit \in Byte
           /\ (s % Digit) + Digit * ((s \div Digit) % Digit)
                 + Digit * Digit * ((s \div (Digit * Digit)) % Digit) = s
<1> DEFINE D == Digit
           q == s \div D
           r == q \div D
           a == s % D
           b == q % D
<1>1. D \in Nat \ {0} /\ D >= 2
  BY Spans
<1>2. s = D * q + a /\ q \in Nat /\ a \in Nat /\ a < D
  <2> HIDE DEF D
  <2> QED  BY <1>1, Division
<1>3. q = D * r + b /\ r \in Nat /\ b \in Nat /\ b < D
  <2> HIDE DEF D, q
  <2> QED  BY <1>1, <1>2, Division
<1> HIDE DEF q, r, a, b, D
<1>4. /\ s = (D * D) * r + (D * b + a)
      /\ D * b + a \in Nat /\ D * b + a < D * D /\ D * D \in Nat \ {0}
  <2>1. D * q = D * (D * r) + D * b /\ D * (D * r) = (D * D) * r
    BY <1>1, <1>3, Times
  <2>2. D * b \in Nat /\ D * (b + 1) = D * b + D * 1 /\ D * 1 = D /\ D * (b + 1) <= D * D
    BY <1>1, <1>3, TimesGrows, Times
  <2>3. D * D \in Nat \ {0} /\ (D * D) * r \in Int
    BY <1>1, <1>3
  <2>4. D * (D * r) \in Int /\ D * q \in Int
    BY <1>1, <1>2, <1>3
  <2> QED  BY <1>1, <1>2, <1>3, <2>1, <2>2, <2>3, <2>4
<1>5. s \div (D * D) = r
  BY <1>3, <1>4, Quotient
<1>6. r < D
  <2> SUFFICES ASSUME r >= D PROVE FALSE
    BY <1>1, <1>3
  <2>1. (D * D) * D <= (D * D) * r
    BY <1>1, <1>3, <1>4, TimesGrows
  <2>2. s < (D * D) * D
    BY DEF D
  <2>3. (D * D) * D \in Int /\ (D * D) * r \in Int
    BY <1>1, <1>3, <1>4
  <2> QED  BY <1>4, <2>1, <2>2, <2>3
<1>7. r % D = r
  BY <1>1, <1>3, <1>6, Smaller
<1>8. a \in Byte /\ b \in Byte /\ r \in Byte
  <2>1. D = FF + 1 /\ FF \in Nat
    BY Numbers DEF D
  <2> QED  BY <1>2, <1>3, <1>6, <2>1 DEF Byte
<1>9. a + D * b + D * D * r = s
  <2>1. D * b \in Int /\ (D * D) * r \in Int
    BY <1>1, <1>3
  <2> QED  BY <1>2, <1>4, <2>1
<1> QED  BY <1>5, <1>7, <1>8, <1>9 DEF a, b, q, D

----------------------------------------------------------------------------
(* How the entries lie in the area *)

\* The NULL file of an Intel card is an entry like any other.
NullEntry == << <<0>>, <<>> >>
Files == {NullEntry} \union (Names \X Contents)
SizeOf(f) == EntrySize(f[1], f[2])
HeaderOf(f) == EntryHeader(f[1], f[2])

\* The header of f is on the card, except that its first character may be anything.
HeaderAt(m, p, f) ==
    /\ m[p] = Len(f[1])
    /\ \A k \in 2..Len(f[1]) : m[p + k] = f[1][k]
    /\ \A k \in 1..3 : m[p + Len(f[1]) + k] = SizeField(Len(f[2]))[k]

\* The entries of fs follow each other from the bottom, and ptr leads over them.
Laid(m, ptr, fs) ==
    /\ fs \in Seq(Files)
    /\ ptr \in Seq(0..Cap) /\ Len(ptr) = Len(fs) + 1 /\ ptr[1] = 0
    /\ \A i \in 1..Len(fs) : HeaderAt(m, ptr[i], fs[i]) /\ ptr[i + 1] = ptr[i] + SizeOf(fs[i])

LEMMA FileFacts ==
    ASSUME NEW f \in Files
    PROVE  /\ f[1] \in Seq(Byte) /\ Len(f[1]) \in Nat /\ Len(f[1]) \in 1..(FF - 1)
           /\ f[2] \in Seq(Byte) /\ Len(f[2]) \in Nat
           /\ SizeOf(f) = Len(f[1]) + 5 + Len(f[2]) /\ SizeOf(f) \in Nat /\ SizeOf(f) >= 6
           /\ f # NullEntry => f[1][1] = Slash /\ Len(f[1]) >= 2 /\ f \in Names \X Contents
<1>1. CASE f = NullEntry
  <2>1. f[1] = <<0>> /\ f[2] = <<>>
    BY <1>1 DEF NullEntry
  <2>2. <<0>> \in Seq(Byte) /\ <<>> \in Seq(Byte) /\ Len(<<0>>) = 1 /\ Len(<<>>) = 0
    BY Numbers
  <2> QED  BY <1>1, <2>1, <2>2, Numbers DEF SizeOf, EntrySize
<1>2. CASE f # NullEntry
  <2>1. f \in Names \X Contents /\ f[1] \in Names /\ f[2] \in Contents
    BY <1>2 DEF Files
  <2>2. f[1] \in Seq(Byte) /\ Len(f[1]) \in 2..(FF - 1) /\ f[1][1] = Slash /\ f[2] \in Seq(Byte)
    BY <2>1, AreaAssumption
  <2>3. Len(f[2]) \in Nat
    BY <2>2
  <2> QED  BY <2>1, <2>2, <2>3, Numbers DEF SizeOf, EntrySize
<1> QED  BY <1>1, <1>2

LEMMA SizeFieldIs ==
    ASSUME NEW s \in Nat
    PROVE  /\ SizeField(s) \in Seq(Byte) /\ Len(SizeField(s)) = 4
           /\ SizeField(s)[1] = s % Digit /\ SizeField(s)[2] = (s \div Digit) % Digit
           /\ SizeField(s)[3] = (s \div (Digit * Digit)) % Digit /\ SizeField(s)[4] = 0
<1>1. \A t \in Nat : t % Digit \in Byte
  <2>1. Digit \in Nat \ {0} /\ Digit = FF + 1 /\ FF \in Nat
    BY Numbers
  <2> SUFFICES ASSUME NEW t \in Nat PROVE t % Digit \in Byte
    OBVIOUS
  <2>2. t % Digit \in Nat /\ t % Digit < Digit
    BY <2>1, Division
  <2> QED  BY <2>1, <2>2 DEF Byte
<1>2. s \div Digit \in Nat /\ s \div (Digit * Digit) \in Nat
  <2>1. Digit \in Nat \ {0} /\ Digit * Digit \in Nat \ {0}
    BY Spans
  <2> QED  BY <2>1, Division
<1> DEFINE a == s % Digit
           b == (s \div Digit) % Digit
           c == (s \div (Digit * Digit)) % Digit
<1>3. a \in Byte /\ b \in Byte /\ c \in Byte /\ 0 \in Byte
  BY <1>1, <1>2, Numbers
<1>4. SizeField(s) = <<a, b, c, 0>>
  BY DEF SizeField
<1> HIDE DEF a, b, c
<1>5. /\ SizeField(s) \in Seq(Byte) /\ Len(SizeField(s)) = 4
      /\ SizeField(s)[1] = a /\ SizeField(s)[2] = b
      /\ SizeField(s)[3] = c /\ SizeField(s)[4] = 0
  BY <1>3, <1>4
<1> QED  BY <1>5 DEF a, b, c

LEMMA Joined ==
    ASSUME NEW S, NEW a \in Seq(S), NEW b \in Seq(S), NEW h, h = a \o b
    PROVE  /\ h \in Seq(S) /\ Len(h) = Len(a) + Len(b) /\ Len(a) \in Nat /\ Len(b) \in Nat
           /\ \A k \in 1..Len(a) : h[k] = a[k]
           /\ \A k \in 1..Len(b) : h[Len(a) + k] = b[k]
<1>1. /\ h \in Seq(S) /\ Len(h) = Len(a) + Len(b) /\ Len(a) \in Nat /\ Len(b) \in Nat
      /\ \A k \in 1..(Len(a) + Len(b)) : h[k] = IF k <= Len(a) THEN a[k] ELSE b[k - Len(a)]
  BY ConcatProperties
<1>2. ASSUME NEW k \in 1..Len(b) PROVE h[Len(a) + k] = b[k]
  <2> DEFINE j == Len(a) + k
  <2>1. j \in 1..(Len(a) + Len(b)) /\ ~(j <= Len(a)) /\ j - Len(a) = k
    BY <1>1
  <2> HIDE DEF j
  <2>2. h[j] = b[j - Len(a)]
    BY <1>1, <2>1
  <2> QED  BY <2>1, <2>2 DEF j
<1>3. ASSUME NEW k \in 1..Len(a) PROVE h[k] = a[k]
  <2>1. k \in 1..(Len(a) + Len(b)) /\ k <= Len(a)
    BY <1>1
  <2> QED  BY <1>1, <2>1
<1> QED  BY <1>1, <1>2, <1>3

LEMMA HeaderIs ==
    ASSUME NEW f \in Files
    PROVE  /\ HeaderOf(f) \in Seq(Byte) /\ Len(HeaderOf(f)) = Len(f[1]) + 5
           /\ HeaderOf(f)[1] = Len(f[1])
           /\ \A k \in 1..Len(f[1]) : HeaderOf(f)[1 + k] = f[1][k]
           /\ \A k \in 1..4 : HeaderOf(f)[Len(f[1]) + 1 + k] = SizeField(Len(f[2]))[k]
<1> DEFINE n == f[1]
           l == Len(n)
           z == SizeField(Len(f[2]))
           a == <<l>>
           b == a \o n
           h == b \o z
<1>1. n \in Seq(Byte) /\ l \in Nat /\ l \in 1..(FF - 1) /\ Len(f[2]) \in Nat
  BY FileFacts
<1>2. z \in Seq(Byte) /\ Len(z) = 4
  BY <1>1, SizeFieldIs
<1>3. HeaderOf(f) = h
  BY DEF HeaderOf, EntryHeader
<1> HIDE DEF z, l
<1>4. a \in Seq(Byte) /\ Len(a) = 1 /\ a[1] = l
  <2>1. l \in Byte
    BY <1>1, Numbers DEF Byte
  <2> QED  BY <2>1
<1> HIDE DEF n, a
<1>5. /\ b \in Seq(Byte) /\ Len(b) = 1 + l /\ b[1] = l
      /\ \A k \in 1..l : b[1 + k] = n[k]
  <2> DEFINE c == b
  <2>1. c = a \o n
    OBVIOUS
  <2> HIDE DEF c
  <2>2. /\ c \in Seq(Byte) /\ Len(c) = Len(a) + Len(n)
        /\ \A k \in 1..Len(a) : c[k] = a[k]
        /\ \A k \in 1..Len(n) : c[Len(a) + k] = n[k]
    <3>1. a \in Seq(Byte) /\ n \in Seq(Byte)
      BY <1>1, <1>4
    <3> QED  BY ONLY <3>1, <2>1, Joined
  <2>3. c[1] = a[1] /\ Len(n) = l
    BY <1>4, <2>2 DEF l
  <2> QED  BY <1>4, <2>2, <2>3 DEF c
<1> HIDE DEF b
<1>6. /\ h \in Seq(Byte) /\ Len(h) = Len(b) + 4
      /\ \A k \in 1..Len(b) : h[k] = b[k]
      /\ \A k \in 1..4 : h[Len(b) + k] = z[k]
  <2> DEFINE c == h
  <2>1. c = b \o z
    OBVIOUS
  <2> HIDE DEF c
  <2>2. /\ c \in Seq(Byte) /\ Len(c) = Len(b) + Len(z)
        /\ \A k \in 1..Len(b) : c[k] = b[k]
        /\ \A k \in 1..Len(z) : c[Len(b) + k] = z[k]
    <3>1. b \in Seq(Byte) /\ z \in Seq(Byte)
      BY <1>2, <1>5
    <3> QED  BY ONLY <3>1, <2>1, Joined
  <2> QED  BY <1>2, <2>2 DEF c
<1> HIDE DEF h
<1>7. h[1] = l /\ Len(h) = l + 5 /\ \A k \in 1..4 : h[l + 1 + k] = z[k]
  <2>1. 1 \in 1..Len(b) /\ \A k \in 1..4 : Len(b) + k = l + 1 + k
    BY <1>1, <1>5
  <2>2. h[1] = l
    BY <1>5, <1>6, <2>1
  <2>3. Len(h) = l + 5
    BY <1>1, <1>5, <1>6
  <2>4. ASSUME NEW k \in 1..4 PROVE h[l + 1 + k] = z[k]
    BY <1>6, <2>1
  <2> QED  BY <2>2, <2>3, <2>4
<1>8. ASSUME NEW k \in 1..l PROVE h[1 + k] = n[k]
  <2>1. 1 + k \in 1..Len(b)
    BY <1>1, <1>5
  <2> QED  BY <1>5, <1>6, <2>1
<1> QED  BY <1>3, <1>6, <1>7, <1>8 DEF n, l, z

\* A header that was blown to its end.
LEMMA HeaderWritten ==
    ASSUME NEW m, NEW p \in Nat, NEW f \in Files,
           \A k \in 1..(Len(f[1]) + 5) : m[p + k - 1] = HeaderOf(f)[k]
    PROVE  HeaderAt(m, p, f) /\ m[p + 1] = f[1][1]
<1> DEFINE l == Len(f[1])
           h == HeaderOf(f)
<1>1. l \in Nat /\ l >= 1
  <2>1. l \in 1..(FF - 1) /\ l \in Nat
    BY FileFacts
  <2> QED  BY <2>1
<1>0. /\ h[1] = l /\ \A k \in 1..l : h[1 + k] = f[1][k]
      /\ \A k \in 1..4 : h[l + 1 + k] = SizeField(Len(f[2]))[k]
  BY HeaderIs
<1>2. \A k \in 1..(l + 5) : m[p + k - 1] = h[k]
  OBVIOUS
<1> HIDE DEF l, h
<1>3. m[p] = l
  <2>1. 1 \in 1..(l + 5) /\ p + 1 - 1 = p
    BY <1>1
  <2>2. m[p + 1 - 1] = h[1]
    BY <1>2, <2>1
  <2> QED  BY <1>0, <2>1, <2>2
<1>4. ASSUME NEW k \in 1..l PROVE m[p + k] = f[1][k]
  <2>1. 1 + k \in 1..(l + 5) /\ p + (1 + k) - 1 = p + k
    BY <1>1
  <2>2. m[p + (1 + k) - 1] = h[1 + k]
    BY <1>2, <2>1
  <2> QED  BY <1>0, <2>1, <2>2
<1>5. ASSUME NEW k \in 1..3 PROVE m[p + l + k] = SizeField(Len(f[2]))[k]
  <2>1. l + 1 + k \in 1..(l + 5) /\ p + (l + 1 + k) - 1 = p + l + k /\ k \in 1..4
    BY <1>1
  <2>2. m[p + (l + 1 + k) - 1] = h[l + 1 + k]
    BY <1>2, <2>1
  <2> QED  BY <1>0, <2>1, <2>2
<1>6. 1 \in 1..l /\ \A k \in 2..l : k \in 1..l
  BY <1>1
<1> QED  BY <1>3, <1>4, <1>5, <1>6 DEF HeaderAt, l

LEMMA InSpan ==
    ASSUME NEW p \in Nat, NEW d \in Nat
    PROVE  /\ p + d <= Cap => AddPointerDistance(p, d) = p + d
           /\ AddPointerDistance(p, d) \in Nat
<1>1. p + d \in Nat /\ CardSpan \in Nat \ {0} /\ Cap < CardSpan /\ Cap \in Nat
  BY Numbers
<1>2. p + d <= Cap => (p + d) % CardSpan = p + d
  <2> SUFFICES ASSUME p + d <= Cap PROVE (p + d) % CardSpan = p + d
    OBVIOUS
  <2>1. p + d < CardSpan
    BY <1>1
  <2> QED  BY <1>1, <2>1, Smaller
<1>3. (p + d) % CardSpan \in Nat
  BY <1>1, Division
<1> QED  BY <1>2, <1>3 DEF AddPointerDistance

LEMMA LengthFits == ASSUME NEW f \in Files, NEW p \in Nat, p + SizeOf(f) <= Cap
                    PROVE  Len(f[2]) < Digit * Digit * Digit
<1> DEFINE l == Len(f[1])
           s == Len(f[2])
           z == SizeOf(f)
<1>1. z = l + 5 + s /\ l \in Nat /\ s \in Nat /\ p + z <= Cap
  BY FileFacts
<1> HIDE DEF l, s, z
<1> DEFINE d3 == Digit * Digit * Digit
<1>2. d3 \in Nat /\ d3 >= CardSpan /\ CardSpan > Cap /\ CardSpan \in Nat /\ Cap \in Nat
  BY Spans, Numbers
<1> HIDE DEF d3
<1>3. s < d3
  BY <1>1, <1>2
<1> QED  BY <1>3 DEF d3, s

\* What the routines read of an entry.
EntryReads(m, p, f) ==
    /\ NameLength(m, p) = Len(f[1]) /\ FileSize(m, p) = Len(f[2])
    /\ FileImage(m, p) = p + Len(f[1]) + 5
    /\ NextEntry(m, p) = p + SizeOf(f) /\ EntrySpace(m, p) = SizeOf(f)
    /\ ~AtEnd(m, p)
    /\ Deleted(m, p) <=> m[p + 1] = 0

LEMMA EntryRead ==
    ASSUME NEW m \in Memory, NEW p \in Nat, NEW f \in Files, HeaderAt(m, p, f),
           p + SizeOf(f) <= Cap
    PROVE  EntryReads(m, p, f)
<1> DEFINE l == Len(f[1])
           s == Len(f[2])
           z == SizeField(s)
<1>1. l \in Nat /\ l \in 1..(FF - 1) /\ s \in Nat /\ SizeOf(f) = l + 5 + s
  BY FileFacts
<1>2. s < Digit * Digit * Digit
  BY LengthFits
<1>3. z[1] + Digit * z[2] + Digit * Digit * z[3] = s
  BY <1>1, <1>2, SizeIsRead, SizeFieldIs
<1>4. /\ m[p] = l /\ \A k \in 1..3 : m[p + l + k] = z[k]
  BY DEF HeaderAt
<1> HIDE DEF l, s, z
<1>5. Cap \in Nat /\ FF \in Nat
  BY Numbers
<1>6. NameLength(m, p) = l
  <2>1. p < Cap
    BY <1>1, <1>5
  <2> QED  BY <1>4, <2>1 DEF NameLength, ReadByte
<1>7. ASSUME NEW k \in 0..2 PROVE ReadByte(m, AddPointerDistance(p, 1 + NameLength(m, p) + k)) = z[k + 1]
  <2>1. 1 + l + k \in Nat /\ p + (1 + l + k) < Cap /\ p + (1 + l + k) <= Cap
        /\ p + (1 + l + k) = p + l + (k + 1) /\ k + 1 \in 1..3
    BY <1>1, <1>5
  <2>2. AddPointerDistance(p, 1 + l + k) = p + (1 + l + k)
    BY <2>1, InSpan
  <2>3. m[p + l + (k + 1)] = z[k + 1]
    BY <1>4, <2>1
  <2> QED  BY <1>6, <2>1, <2>2, <2>3 DEF ReadByte
<1>8. FileSize(m, p) = s
  <2>1. 0 \in 0..2 /\ 1 \in 0..2 /\ 2 \in 0..2 /\ 0 + 1 = 1 /\ 1 + 1 = 2 /\ 2 + 1 = 3
    OBVIOUS
  <2> DEFINE at(k) == ReadByte(m, AddPointerDistance(p, 1 + NameLength(m, p) + k))
  <2>2. at(0) = z[1] /\ at(1) = z[2] /\ at(2) = z[3]
    BY <1>7, <2>1
  <2>3. FileSize(m, p) = at(0) + Digit * at(1) + Digit * Digit * at(2)
    BY DEF FileSize
  <2> HIDE DEF at
  <2> QED  BY <1>3, <2>2, <2>3
<1>9. FileImage(m, p) = p + l + 5
  <2>1. 1 + l + 4 \in Nat /\ p + (1 + l + 4) <= Cap /\ p + (1 + l + 4) = p + l + 5
    BY <1>1, <1>5
  <2> QED  BY <1>6, <2>1, InSpan DEF FileImage
<1>10. NextEntry(m, p) = p + SizeOf(f)
  <2>1. p + l + 5 \in Nat /\ (p + l + 5) + s <= Cap /\ (p + l + 5) + s = p + SizeOf(f)
    BY <1>1, <1>5
  <2> QED  BY <1>1, <1>8, <1>9, <2>1, InSpan DEF NextEntry
<1>11. EntrySpace(m, p) = SizeOf(f)
  BY <1>1, <1>6, <1>8 DEF EntrySpace
<1>12. ~AtEnd(m, p)
  BY <1>1, <1>5, <1>6 DEF AtEnd, NameLength
<1>13. Deleted(m, p) <=> m[p + 1] = 0
  <2>1. p + 1 <= Cap /\ p + 1 < Cap /\ 1 \in Nat
    BY <1>1, <1>5
  <2>2. AddPointerDistance(p, 1) = p + 1
    BY <2>1, InSpan
  <2> QED  BY <2>1, <2>2 DEF Deleted, ReadByte
<1> QED  BY <1>6, <1>8, <1>9, <1>10, <1>11, <1>12, <1>13 DEF EntryReads, l, s

LEMMA NameRead ==
    ASSUME NEW m \in Memory, NEW p \in Nat, NEW f \in Files, HeaderAt(m, p, f),
           p + SizeOf(f) <= Cap, NEW n \in Names
    PROVE  NameMatches(m, p, n) <=> f[1] = n /\ m[p + 1] = Slash
<1> DEFINE l == Len(f[1])
           s == Len(f[2])
           z == SizeOf(f)
<1>1. /\ l \in Nat /\ l \in 1..(FF - 1) /\ z = l + 5 + s /\ s \in Nat /\ p + z <= Cap
      /\ f[1] \in Seq(Byte)
  BY FileFacts
<1>2. NameLength(m, p) = l
  BY EntryRead DEF EntryReads
<1>3. n \in Seq(Byte) /\ Len(n) \in 2..(FF - 1) /\ n[1] = Slash
  BY AreaAssumption
<1>4. \A k \in 2..l : m[p + k] = f[1][k]
  BY DEF HeaderAt
<1>5. Cap \in Nat
  BY Numbers
<1>6. ASSUME NEW k \in 1..l PROVE ReadByte(m, AddPointerDistance(p, k)) = m[p + k]
  <2> HIDE DEF l, s, z
  <2>1. k \in Nat /\ p + k < Cap /\ p + k <= Cap
    BY <1>1, <1>5
  <2>2. AddPointerDistance(p, k) = p + k
    BY <2>1, InSpan
  <2> QED  BY <2>1, <2>2 DEF ReadByte
<1>7. ASSUME NameMatches(m, p, n) PROVE f[1] = n /\ m[p + 1] = Slash
  <2>1. Len(n) = l /\ \A k \in 1..Len(n) : ReadByte(m, AddPointerDistance(p, k)) = n[k]
    BY <1>2, <1>7 DEF NameMatches
  <2>2. \A k \in 1..l : m[p + k] = n[k]
    BY <1>6, <2>1
  <2> HIDE DEF l
  <2>3. 1 \in 1..l
    BY <1>1
  <2>4. m[p + 1] = Slash
    BY <1>3, <2>2, <2>3
  <2>5. f # NullEntry
    <3>1. Len(NullEntry[1]) = 1
      BY DEF NullEntry
    <3> QED  BY <1>3, <2>1, <3>1 DEF l
  <2>6. f[1][1] = Slash
    BY <2>5, FileFacts
  <2>7. ASSUME NEW k \in 1..Len(f[1]) PROVE f[1][k] = n[k]
    <3>1. CASE k = 1
      BY <1>3, <2>6, <3>1
    <3>2. CASE k # 1
      <4>1. k \in 2..l /\ k \in 1..l
        BY <1>1, <3>2 DEF l
      <4> QED  BY <1>4, <2>2, <4>1
    <3> QED  BY <3>1, <3>2
  <2>8. Len(f[1]) = Len(n)
    BY <2>1 DEF l
  <2>9. f[1] = n
    BY <1>1, <1>3, <2>7, <2>8, SeqEqual
  <2> QED  BY <2>4, <2>9
<1>8. ASSUME f[1] = n, m[p + 1] = Slash PROVE NameMatches(m, p, n)
  <2>1. l = Len(n)
    BY <1>8
  <2>2. ASSUME NEW k \in 1..l PROVE ReadByte(m, AddPointerDistance(p, k)) = n[k]
    <3>1. CASE k = 1
      BY <1>3, <1>6, <1>8, <3>1
    <3>2. CASE k # 1
      <4>1. k \in 2..l
        BY <1>1, <3>2
      <4> QED  BY <1>4, <1>6, <1>8, <4>1
    <3> QED  BY <3>1, <3>2
  <2> QED  BY <1>2, <2>1, <2>2 DEF NameMatches
<1> QED  BY <1>7, <1>8

LEMMA OfElements ==
    ASSUME NEW S, NEW s \in Seq(S)
    PROVE  Len(s) \in Nat /\ \A i \in 1..Len(s) : s[i] \in S
  OBVIOUS

LEMMA OfMore ==
    ASSUME NEW S, NEW T, S \subseteq T, NEW s \in Seq(S)
    PROVE  s \in Seq(T)
  OBVIOUS

LEMMA LaidBasics ==
    ASSUME NEW m, NEW ptr, NEW fs, Laid(m, ptr, fs)
    PROVE  /\ Len(fs) \in Nat /\ Len(ptr) = Len(fs) + 1
           /\ \A i \in 1..(Len(fs) + 1) : ptr[i] \in 0..Cap /\ ptr[i] \in Nat
           /\ \A i \in 1..Len(fs) : /\ fs[i] \in Files /\ SizeOf(fs[i]) \in Nat /\ SizeOf(fs[i]) >= 6
                                    /\ ptr[i + 1] = ptr[i] + SizeOf(fs[i])
                                    /\ HeaderAt(m, ptr[i], fs[i])
<1>1. /\ fs \in Seq(Files) /\ ptr \in Seq(0..Cap) /\ Len(ptr) = Len(fs) + 1
      /\ \A i \in 1..Len(fs) : HeaderAt(m, ptr[i], fs[i]) /\ ptr[i + 1] = ptr[i] + SizeOf(fs[i])
  BY DEF Laid
<1>2. Len(fs) \in Nat /\ \A i \in 1..Len(fs) : fs[i] \in Files
  BY <1>1
<1>3. \A i \in 1..(Len(fs) + 1) : ptr[i] \in 0..Cap
  BY <1>1, OfElements
<1>4. \A i \in 1..Len(fs) : SizeOf(fs[i]) \in Nat /\ SizeOf(fs[i]) >= 6
  BY <1>2, FileFacts
<1>5. \A i \in 1..(Len(fs) + 1) : ptr[i] \in Nat
  BY <1>3
<1> QED  BY <1>1, <1>2, <1>3, <1>4, <1>5

\* No entry reaches into a later one.
LEMMA LaidInOrder ==
    ASSUME NEW m, NEW ptr, NEW fs, Laid(m, ptr, fs),
           NEW i \in 1..Len(fs), NEW j \in 1..(Len(fs) + 1), i < j
    PROVE  ptr[i] + SizeOf(fs[i]) <= ptr[j]
<1> DEFINE n == Len(fs)
<1>1. /\ n \in Nat
      /\ \A k \in 1..(n + 1) : ptr[k] \in Nat
      /\ \A k \in 1..n : SizeOf(fs[k]) \in Nat /\ ptr[k + 1] = ptr[k] + SizeOf(fs[k])
  BY LaidBasics
<1> HIDE DEF n
<1> DEFINE z == ptr[i] + SizeOf(fs[i])
<1>2. z \in Nat /\ i \in 1..n /\ j \in 1..(n + 1) /\ i + 1 \in 1..(n + 1) /\ z = ptr[i + 1]
  <2>1. i \in 1..n /\ j \in 1..(n + 1)
    BY DEF n
  <2>2. ptr[i] \in Nat /\ SizeOf(fs[i]) \in Nat /\ ptr[i + 1] = ptr[i] + SizeOf(fs[i])
    BY <1>1, <2>1
  <2> QED  BY <1>1, <2>1, <2>2
<1> HIDE DEF z
<1> DEFINE Bad == {k \in Nat : k \in 1..(n + 1) /\ i < k /\ ~(z <= ptr[k])}
<1>3. Bad = {}
  <2> SUFFICES ASSUME Bad # {} PROVE FALSE
    OBVIOUS
  <2>1. PICK k \in Nat : k \in Bad /\ \A h \in Nat : h < k => h \notin Bad
    <3> HIDE DEF Bad
    <3>1. Bad \subseteq Nat
      BY DEF Bad
    <3> QED  BY <3>1, LeastBad
  <2>2. k \in 1..(n + 1) /\ i < k /\ ~(z <= ptr[k])
    BY <2>1
  <2>3. k # i + 1
    BY <1>1, <1>2, <2>2
  <2>4. k - 1 \in 1..n /\ k - 1 \in Nat /\ k - 1 < k /\ i < k - 1 /\ (k - 1) + 1 = k /\ k - 1 \in 1..(n + 1)
    BY <1>1, <1>2, <2>2, <2>3
  <2>5. z <= ptr[k - 1]
    BY <2>1, <2>4
  <2>6. ptr[(k - 1) + 1] = ptr[k - 1] + SizeOf(fs[k - 1]) /\ SizeOf(fs[k - 1]) \in Nat /\ ptr[k - 1] \in Nat
    BY <1>1, <2>4
  <2> HIDE DEF Bad
  <2> QED  BY <1>2, <2>2, <2>4, <2>5, <2>6
<1>4. j \in Nat
  BY <1>1, <1>2
<1> QED  BY <1>2, <1>3, <1>4 DEF z

\* An entry takes bytes, so that there are fewer entries than bytes.
LEMMA LaidAdvances ==
    ASSUME NEW m, NEW ptr, NEW fs, Laid(m, ptr, fs), NEW j \in 1..(Len(fs) + 1)
    PROVE  j <= ptr[j] + 1
<1> DEFINE n == Len(fs)
<1>1. /\ n \in Nat /\ ptr[1] = 0
      /\ \A k \in 1..(n + 1) : ptr[k] \in Nat
      /\ \A k \in 1..n : SizeOf(fs[k]) \in Nat /\ SizeOf(fs[k]) >= 6 /\ ptr[k + 1] = ptr[k] + SizeOf(fs[k])
  <2>1. ptr[1] = 0
    BY DEF Laid
  <2> QED  BY <2>1, LaidBasics
<1>2. j \in 1..(n + 1)
  OBVIOUS
<1> HIDE DEF n
<1> DEFINE Bad == {k \in Nat : k \in 1..(n + 1) /\ ~(k <= ptr[k] + 1)}
<1>3. Bad = {}
  <2> SUFFICES ASSUME Bad # {} PROVE FALSE
    OBVIOUS
  <2>1. PICK k \in Nat : k \in Bad /\ \A h \in Nat : h < k => h \notin Bad
    <3> HIDE DEF Bad
    <3>1. Bad \subseteq Nat
      BY DEF Bad
    <3> QED  BY <3>1, LeastBad
  <2>2. k \in 1..(n + 1) /\ ~(k <= ptr[k] + 1)
    BY <2>1
  <2>3. k # 1
    BY <1>1, <2>2
  <2>4. k - 1 \in 1..n /\ k - 1 \in Nat /\ k - 1 < k /\ (k - 1) + 1 = k /\ k - 1 \in 1..(n + 1)
    BY <1>1, <2>2, <2>3
  <2>5. k - 1 <= ptr[k - 1] + 1
    BY <2>1, <2>4
  <2>6. /\ ptr[(k - 1) + 1] = ptr[k - 1] + SizeOf(fs[k - 1]) /\ SizeOf(fs[k - 1]) \in Nat
        /\ SizeOf(fs[k - 1]) >= 6 /\ ptr[k - 1] \in Nat
    BY <1>1, <2>4
  <2> HIDE DEF Bad
  <2> QED  BY <2>2, <2>4, <2>5, <2>6
<1>4. j \in Nat
  BY <1>1, <1>2
<1> QED  BY <1>2, <1>3, <1>4

LEMMA EntryFits ==
    ASSUME NEW m, NEW ptr, NEW fs, Laid(m, ptr, fs), NEW i \in 1..Len(fs)
    PROVE  /\ ptr[i] \in Nat /\ fs[i] \in Files /\ ptr[i] + SizeOf(fs[i]) <= Cap
           /\ SizeOf(fs[i]) \in Nat /\ SizeOf(fs[i]) >= 6 /\ ptr[i] + 1 < Cap
<1> DEFINE n == Len(fs)
           q == ptr[i + 1]
<1>1. n \in Nat /\ i \in 1..n
  BY LaidBasics
<1> HIDE DEF n
<1>2. i \in 1..(n + 1) /\ i + 1 \in 1..(n + 1)
  BY <1>1
<1>3. /\ q \in 0..Cap /\ ptr[i] \in Nat /\ fs[i] \in Files /\ SizeOf(fs[i]) \in Nat /\ SizeOf(fs[i]) >= 6
      /\ q = ptr[i] + SizeOf(fs[i])
  BY <1>1, <1>2, LaidBasics DEF n
<1> HIDE DEF q
<1> QED  BY <1>3, Numbers

LEMMA LaidReads ==
    ASSUME NEW m \in Memory, NEW ptr, NEW fs, Laid(m, ptr, fs), NEW i \in 1..Len(fs)
    PROVE  /\ EntryReads(m, ptr[i], fs[i])
           /\ \A n \in Names : NameMatches(m, ptr[i], n) <=> fs[i][1] = n /\ m[ptr[i] + 1] = Slash
<1>1. ptr[i] \in Nat /\ fs[i] \in Files /\ ptr[i] + SizeOf(fs[i]) <= Cap /\ HeaderAt(m, ptr[i], fs[i])
  BY EntryFits, LaidBasics
<1> QED  BY <1>1, EntryRead, NameRead

LEMMA LaidIsChain ==
    ASSUME NEW m \in Memory, NEW ptr, NEW fs, Laid(m, ptr, fs)
    PROVE  IsChain(m, ptr, Len(fs))
<1> DEFINE n == Len(fs)
<1>1. n \in Nat /\ Len(ptr) = n + 1 /\ \A i \in 1..(n + 1) : ptr[i] \in 0..Cap
  BY LaidBasics
<1>2. ptr \in Seq(0..Cap) /\ ptr[1] = 0
  BY DEF Laid
<1>3. ptr \in Seq(Cells)
  <2>1. 0..Cap \subseteq Cells
    BY Numbers DEF Cells
  <2> QED  BY <1>2, <2>1, OfMore
<1>4. n <= CardSpan
  <2>1. n + 1 \in 1..(n + 1)
    BY <1>1
  <2>2. n + 1 <= ptr[n + 1] + 1 /\ ptr[n + 1] \in 0..Cap
    BY <1>1, <2>1, LaidAdvances
  <2> HIDE DEF n
  <2> QED  BY <1>1, <2>2, Numbers
<1>5. ASSUME NEW i \in 1..n PROVE ~AtEnd(m, ptr[i]) /\ NextEntry(m, ptr[i]) = ptr[i + 1]
  <2>1. EntryReads(m, ptr[i], fs[i])
    BY LaidReads
  <2>2. ptr[i + 1] = ptr[i] + SizeOf(fs[i])
    BY LaidBasics
  <2> QED  BY <2>1, <2>2 DEF EntryReads
<1> QED  BY <1>1, <1>2, <1>3, <1>4, <1>5 DEF IsChain

----------------------------------------------------------------------------
(* What a scan of the area finds *)

ErasedFrom(m, q) == \A p \in q..(Cap - 1) : m[p] = FF

\* The area holds fs and is erased above it.
Holds(m, ptr, fs) == Laid(m, ptr, fs) /\ ErasedFrom(m, ptr[Len(fs) + 1])

LEMMA Scanned ==
    ASSUME NEW m \in Memory, NEW ptr, NEW fs, Holds(m, ptr, fs)
    PROVE  /\ Trail(m) = ptr /\ ScanReturns(m) /\ AllocFilePtr(m) = ptr[Len(fs) + 1]
           /\ Len(Entries(m)) = Len(fs) /\ DOMAIN Entries(m) = 1..Len(fs)
           /\ \A i \in 1..Len(fs) : Entries(m)[i] = ptr[i]
           /\ Range(Entries(m)) = {ptr[i] : i \in 1..Len(fs)}
<1> DEFINE n == Len(fs)
           e == ptr[n + 1]
<1>1. n \in Nat /\ Len(ptr) = n + 1 /\ e \in 0..Cap /\ ptr \in Seq(0..Cap)
  <2>1. n \in Nat /\ Len(ptr) = n + 1 /\ \A i \in 1..(n + 1) : ptr[i] \in 0..Cap
    BY LaidBasics DEF Holds
  <2>2. n + 1 \in 1..(n + 1)
    BY <2>1
  <2> QED  BY <2>1, <2>2 DEF Holds, Laid
<1> HIDE DEF e
<1>2. AtEnd(m, e)
  <2>1. CASE e < Cap
    <3>1. m[e] = FF
      <4>1. e \in e..(Cap - 1)
        BY <1>1, <2>1, Numbers
      <4> QED  BY <4>1 DEF Holds, ErasedFrom, e
    <3> QED  BY <2>1, <3>1 DEF AtEnd, ReadByte
  <2>2. CASE ~(e < Cap)
    BY <2>2 DEF AtEnd, ReadByte
  <2> QED  BY <2>1, <2>2
<1>3. Trail(m) = ptr
  BY <1>2, LaidIsChain, TrailFollows DEF Holds, e
<1>4. Last(ptr) = e
  BY <1>1 DEF Last, e
<1>5. ScanReturns(m) /\ AllocFilePtr(m) = e
  BY <1>2, <1>3, <1>4 DEF ScanReturns, AllocFilePtr
<1> DEFINE es == Front(ptr)
<1>6. es = [i \in 1..n |-> ptr[i]]
  <2> HIDE DEF n
  <2>1. 1..(Len(ptr) - 1) = 1..n /\ Len(ptr) - 1 = n
    BY <1>1
  <2> QED  BY <1>1, <2>1 DEF Front
<1>7. Len(es) = n /\ DOMAIN es = 1..n /\ \A i \in 1..n : es[i] = ptr[i]
  <2> HIDE DEF n
  <2> QED  BY <1>1, <1>6
<1>8. Range(es) = {ptr[i] : i \in 1..n}
  <2> HIDE DEF n, es
  <2> QED  BY <1>7 DEF Range
<1>9. Entries(m) = es
  BY <1>3 DEF Entries
<1> HIDE DEF es
<1> QED  BY <1>3, <1>5, <1>7, <1>8, <1>9 DEF e

\* Whatever is above the entries, a scan goes over them first.
LEMMA ScanBegins ==
    ASSUME NEW m \in Memory, NEW ptr, NEW fs, Laid(m, ptr, fs)
    PROVE  /\ Trail(m) \in Seq(Cells) /\ Len(Trail(m)) >= Len(fs) + 1
           /\ \A j \in 1..(Len(fs) + 1) : Trail(m)[j] = ptr[j]
  BY LaidIsChain, TrailFollows

LEMMA CellsFinite == IsFiniteSet(Cells)
  BY Numbers, FS_Interval DEF Cells

Spaces(m) == [p \in Cells |-> EntrySpace(m, p)]

LEMMA SpaceIsSum ==
    ASSUME NEW m \in Memory, NEW F, SumsUp(F, Spaces(m), Cells), NEW C \in SUBSET Cells
    PROVE  MapThenSumSet(LAMBDA p : EntrySpace(m, p), C) = F[C]
<1> DEFINE w == Spaces(m)
           G(it) == [s \in SUBSET C |-> IF s = {} THEN 0 ELSE w[Some(s)] + it[s \ {Some(s)}]]
           iter == CHOOSE g : g = G(g)
<1>1. w \in [Cells -> Nat]
  <2>1. \A p \in Cells : EntrySpace(m, p) \in Nat
    BY ReadTyped, Numbers
  <2> QED  BY <2>1 DEF Spaces
<1>2. \A s \in SUBSET C : s # {} => w[Some(s)] = EntrySpace(m, Some(s))
  BY SomeIn DEF Spaces
<1>3. \E g : g = G(g)
  <2> DEFINE g == [s \in SUBSET C |-> F[s]]
  <2>1. ASSUME NEW s \in SUBSET C
        PROVE  F[s] = IF s = {} THEN 0 ELSE w[Some(s)] + g[s \ {Some(s)}]
    <3>1. CASE s = {}
      BY <3>1 DEF SumsUp
    <3>2. CASE s # {}
      <4>1. F[s] = w[Some(s)] + F[s \ {Some(s)}]
        BY <3>2 DEF SumsUp
      <4>2. s \ {Some(s)} \in SUBSET C
        OBVIOUS
      <4> QED  BY <3>2, <4>1, <4>2
    <3> QED  BY <3>1, <3>2
  <2> HIDE DEF w
  <2>2. g = G(g)
    BY <2>1
  <2> QED  BY <2>2
<1>4. iter = G(iter)
  <2> HIDE DEF G
  <2> QED  BY <1>3
<1>5. iter[C] = F[C]
  <2> HIDE DEF w, iter
  <2>1. IsFiniteSet(Cells)
    BY CellsFinite
  <2>2. Folds(iter, w, C)
    BY <1>4 DEF Folds
  <2>3. SumsUp(F, w, Cells)
    BY DEF w
  <2> QED  BY ONLY <1>1, <2>1, <2>2, <2>3, C \in SUBSET Cells, FoldIsSum
<1>6. MapThenSumSet(LAMBDA p : EntrySpace(m, p), C) = iter[C]
  <2> DEFINE H(it) == [s \in SUBSET C |-> IF s = {} THEN 0 ELSE EntrySpace(m, Some(s)) + it[s \ {Some(s)}]]
  <2>1. \A g : G(g) = H(g)
    BY <1>2
  <2>2. MapThenSumSet(LAMBDA p : EntrySpace(m, p), C) = (CHOOSE g : g = H(g))[C]
    BY DEF MapThenSumSet, MapThenFoldSet, Some
  <2>3. (CHOOSE g : g = H(g)) = iter
    <3> HIDE DEF G, H
    <3> QED  BY <2>1
  <2> QED  BY <2>2, <2>3
<1> QED  BY <1>5, <1>6

\* Those of the first i entries that are deleted, or are not.
Chosen(m, ptr, i, del) == {ptr[k] : k \in {k \in 1..i : Deleted(m, ptr[k]) = del}}

LEMMA ChosenMore ==
    ASSUME NEW m \in Memory, NEW ptr, NEW fs, Laid(m, ptr, fs), NEW i \in 1..Len(fs), NEW del \in BOOLEAN
    PROVE  /\ Chosen(m, ptr, i, del) =
                  IF Deleted(m, ptr[i]) = del
                  THEN Chosen(m, ptr, i - 1, del) \union {ptr[i]} ELSE Chosen(m, ptr, i - 1, del)
           /\ ptr[i] \notin Chosen(m, ptr, i - 1, del)
           /\ Chosen(m, ptr, i - 1, del) \in SUBSET Cells /\ ptr[i] \in Cells
<1> DEFINE n == Len(fs)
<1>1. n \in Nat /\ i \in 1..n /\ \A k \in 1..(n + 1) : ptr[k] \in 0..Cap
  BY LaidBasics
<1>2. \A k \in 1..(i - 1) : ptr[k] # ptr[i]
  <2> SUFFICES ASSUME NEW k \in 1..(i - 1) PROVE ptr[k] # ptr[i]
    OBVIOUS
  <2> HIDE DEF n
  <2>1. k \in 1..n /\ i \in 1..(n + 1) /\ k < i
    BY <1>1
  <2>2. ptr[k] + SizeOf(fs[k]) <= ptr[i] /\ ptr[k] \in Nat /\ SizeOf(fs[k]) \in Nat /\ SizeOf(fs[k]) >= 6
    BY <2>1, LaidInOrder, EntryFits DEF n
  <2>3. ptr[i] \in 0..Cap
    BY <1>1, <2>1
  <2> QED  BY <2>2, <2>3
<1> HIDE DEF n
<1>3. 0..Cap \subseteq Cells
  BY Numbers DEF Cells
<1>4. \A k \in 1..i : ptr[k] \in Cells
  <2>1. \A k \in 1..i : k \in 1..(n + 1)
    BY <1>1
  <2> QED  BY <1>1, <1>3, <2>1
<1>5. 1..i = (1..(i - 1)) \union {i} /\ i \in 1..i
  BY <1>1
<1> DEFINE D(k) == Deleted(m, ptr[k])
<1> HIDE DEF D
<1>6. {ptr[k] : k \in {k \in 1..i : D(k) = del}} =
         IF D(i) = del THEN {ptr[k] : k \in {k \in 1..(i - 1) : D(k) = del}} \union {ptr[i]}
         ELSE {ptr[k] : k \in {k \in 1..(i - 1) : D(k) = del}}
  <2> DEFINE A == {k \in 1..i : D(k) = del}
             B == {k \in 1..(i - 1) : D(k) = del}
  <2>1. A = IF D(i) = del THEN B \union {i} ELSE B
    BY <1>5
  <2> HIDE DEF A, B
  <2>2. {ptr[k] : k \in A} = IF D(i) = del THEN {ptr[k] : k \in B} \union {ptr[i]} ELSE {ptr[k] : k \in B}
    BY <2>1
  <2> QED  BY <2>2 DEF A, B
<1>7. /\ Chosen(m, ptr, i - 1, del) \in SUBSET Cells /\ ptr[i] \in Cells
      /\ ptr[i] \notin Chosen(m, ptr, i - 1, del)
  <2>1. \A k \in 1..(i - 1) : k \in 1..i
    BY <1>5
  <2> QED  BY <1>2, <1>4, <1>5, <2>1 DEF Chosen
<1> QED  BY <1>6, <1>7 DEF Chosen, D

LEMMA SumOfChosen ==
    ASSUME NEW m \in Memory, NEW ptr, NEW fs, Laid(m, ptr, fs), NEW F, SumsUp(F, Spaces(m), Cells),
           NEW i \in 0..Len(fs)
    PROVE  /\ F[Chosen(m, ptr, i, TRUE)] + F[Chosen(m, ptr, i, FALSE)] = ptr[i + 1]
           /\ Chosen(m, ptr, i, TRUE) \in SUBSET Cells /\ Chosen(m, ptr, i, FALSE) \in SUBSET Cells
<1> DEFINE C(k, b) == Chosen(m, ptr, k, b)
           Sum(k) == /\ F[C(k, TRUE)] + F[C(k, FALSE)] = ptr[k + 1]
                     /\ C(k, TRUE) \in SUBSET Cells /\ C(k, FALSE) \in SUBSET Cells
           n == Len(fs)
           Bad == {k \in Nat : k <= n /\ ~Sum(k)}
<1>1. n \in Nat
  BY LaidBasics
<1>2. \A C1 \in SUBSET Cells : F[C1] \in Nat
  BY DEF SumsUp
<1>3. Sum(0)
  <2>1. C(0, TRUE) = {} /\ C(0, FALSE) = {}
    BY DEF Chosen
  <2>2. F[{}] = 0 /\ ptr[0 + 1] = 0 /\ {} \in SUBSET Cells
    BY DEF SumsUp, Laid
  <2>3. /\ F[Chosen(m, ptr, 0, TRUE)] = 0 /\ F[Chosen(m, ptr, 0, FALSE)] = 0 /\ ptr[0 + 1] = 0
        /\ Chosen(m, ptr, 0, TRUE) \in SUBSET Cells /\ Chosen(m, ptr, 0, FALSE) \in SUBSET Cells
    BY <2>1, <2>2
  <2> DEFINE a == F[Chosen(m, ptr, 0, TRUE)]
             b == F[Chosen(m, ptr, 0, FALSE)]
  <2>4. a + b = ptr[0 + 1]
    <3>1. a = 0 /\ b = 0 /\ ptr[0 + 1] = 0
      BY <2>3
    <3> HIDE DEF a, b
    <3> QED  BY <3>1
  <2> QED  BY <2>3, <2>4
<1>4. ASSUME NEW k \in Nat, k < n, Sum(k) PROVE Sum(k + 1)
  <2> DEFINE p == ptr[k + 1]
             z == SizeOf(fs[k + 1])
  <2>1. k + 1 \in 1..n /\ (k + 1) - 1 = k
    BY <1>1, <1>4
  <2>3. EntrySpace(m, p) = z /\ z \in Nat /\ ptr[(k + 1) + 1] = p + z /\ p \in Nat
    BY <2>1, LaidReads, LaidBasics, EntryFits DEF EntryReads
  <2> DEFINE A == C(k, TRUE)
             B == C(k, FALSE)
             A1 == C(k + 1, TRUE)
             B1 == C(k + 1, FALSE)
  <2>4. /\ A1 = IF Deleted(m, p) = TRUE THEN A \union {p} ELSE A
        /\ B1 = IF Deleted(m, p) = FALSE THEN B \union {p} ELSE B
        /\ p \notin A /\ p \notin B /\ A \in SUBSET Cells /\ B \in SUBSET Cells /\ p \in Cells
    <3> DEFINE q == ptr[k + 1]
    <3>1. /\ Chosen(m, ptr, k + 1, TRUE) =
                IF Deleted(m, q) = TRUE
                THEN Chosen(m, ptr, (k + 1) - 1, TRUE) \union {q} ELSE Chosen(m, ptr, (k + 1) - 1, TRUE)
          /\ q \notin Chosen(m, ptr, (k + 1) - 1, TRUE)
          /\ Chosen(m, ptr, (k + 1) - 1, TRUE) \in SUBSET Cells /\ q \in Cells
      BY ONLY <2>1, m \in Memory, Laid(m, ptr, fs), ChosenMore DEF n
    <3>2. /\ Chosen(m, ptr, k + 1, FALSE) =
                IF Deleted(m, q) = FALSE
                THEN Chosen(m, ptr, (k + 1) - 1, FALSE) \union {q} ELSE Chosen(m, ptr, (k + 1) - 1, FALSE)
          /\ q \notin Chosen(m, ptr, (k + 1) - 1, FALSE)
          /\ Chosen(m, ptr, (k + 1) - 1, FALSE) \in SUBSET Cells /\ q \in Cells
      BY ONLY <2>1, m \in Memory, Laid(m, ptr, fs), ChosenMore DEF n
    <3>3. (k + 1) - 1 = k
      BY <2>1
    <3> QED  BY ONLY <3>1, <3>2, <3>3
  <2>5. \/ A1 = A \union {p} /\ B1 = B
        \/ A1 = A /\ B1 = B \union {p}
    <3>1. Deleted(m, p) = TRUE \/ Deleted(m, p) = FALSE
      BY DEF Deleted
    <3> HIDE DEF A, B, A1, B1
    <3> QED  BY <2>4, <3>1
  <2>6. F[A] + F[B] = p /\ F[A] \in Nat /\ F[B] \in Nat
    BY <1>2, <1>4 DEF p
  <2> HIDE DEF p, z, A, B, A1, B1
  <2>7. ASSUME NEW s \in SUBSET Cells, p \notin s PROVE F[s \union {p}] = F[s] + z
    <3>1. IsFiniteSet(Cells) /\ Spaces(m) \in [Cells -> Nat]
      <4>1. \A q \in Cells : EntrySpace(m, q) \in Nat
        BY ReadTyped, Numbers
      <4> QED  BY <4>1, CellsFinite DEF Spaces
    <3>2. p \in Cells \ s
      BY <2>4, <2>7
    <3>3. F[s \union {p}] = F[s] + Spaces(m)[p]
      BY ONLY <2>7, <3>1, <3>2, SumsUp(F, Spaces(m), Cells), SumOfOneMore
    <3>4. Spaces(m)[p] = z
      BY <2>3, <2>4 DEF Spaces
    <3> QED  BY <3>3, <3>4
  <2>8. F[A1] + F[B1] = p + z
    <3>1. F[A \union {p}] = F[A] + z /\ F[B \union {p}] = F[B] + z
      BY <2>4, <2>7
    <3> DEFINE a == F[A]
               b == F[B]
    <3>2. (F[A1] = a + z /\ F[B1] = b) \/ (F[A1] = a /\ F[B1] = b + z)
      BY <2>5, <3>1
    <3>3. a + b = p /\ a \in Nat /\ b \in Nat
      BY <2>6
    <3> HIDE DEF a, b
    <3> QED  BY <2>3, <3>2, <3>3
  <2>9. A1 \in SUBSET Cells /\ B1 \in SUBSET Cells
    BY <2>4, <2>5
  <2> QED  BY <2>3, <2>8, <2>9 DEF A1, B1
<1> HIDE DEF Sum
<1>5. Bad = {}
  <2> SUFFICES ASSUME Bad # {} PROVE FALSE
    OBVIOUS
  <2>1. PICK k \in Nat : k \in Bad /\ \A h \in Nat : h < k => h \notin Bad
    <3> HIDE DEF Bad
    <3>1. Bad \subseteq Nat
      BY DEF Bad
    <3> QED  BY <3>1, LeastBad
  <2>2. k <= n /\ ~Sum(k) /\ k # 0
    BY <1>3, <2>1
  <2>3. k - 1 \in Nat /\ k - 1 < k /\ k - 1 < n /\ (k - 1) + 1 = k /\ k - 1 <= n
    BY <1>1, <2>2
  <2>4. Sum(k - 1)
    BY <2>1, <2>3
  <2> QED  BY <1>4, <2>2, <2>3, <2>4
<1>6. Sum(i)
  BY <1>1, <1>5
<1> QED  BY <1>6 DEF Sum

\* No byte of the area is lost or counted twice.
LEMMA SpaceAddsUp ==
    ASSUME NEW m \in Memory, NEW ptr, NEW fs, Holds(m, ptr, fs)
    PROVE  /\ ActiveSpace(m) \in Nat /\ DeletedSpace(m) \in Nat
           /\ ActiveSpace(m) + DeletedSpace(m) = ptr[Len(fs) + 1]
           /\ FreeSpace(m) = Cap - ptr[Len(fs) + 1]
<1> DEFINE n == Len(fs)
           C(b) == Chosen(m, ptr, n, b)
           e == ptr[n + 1]
<1>1. n \in Nat /\ n \in 0..n /\ e \in 0..Cap /\ Laid(m, ptr, fs)
  <2>1. n \in Nat /\ \A k \in 1..(n + 1) : ptr[k] \in 0..Cap
    BY LaidBasics DEF Holds
  <2> QED  BY <2>1 DEF Holds
<1>2. PICK F : SumsUp(F, Spaces(m), Cells)
  <2>1. \A q \in Cells : EntrySpace(m, q) \in Nat
    BY ReadTyped, Numbers
  <2>2. Spaces(m) \in [Cells -> Nat]
    BY <2>1 DEF Spaces
  <2> QED  BY <2>2, CellsFinite, SumsExist
<1>3. C(TRUE) \in SUBSET Cells /\ C(FALSE) \in SUBSET Cells /\ F[C(TRUE)] + F[C(FALSE)] = e
  <2> PICK k : k = n
    OBVIOUS
  <2>1. k \in 0..Len(fs) /\ Laid(m, ptr, fs) /\ SumsUp(F, Spaces(m), Cells)
    BY <1>1, <1>2
  <2>2. /\ F[Chosen(m, ptr, k, TRUE)] + F[Chosen(m, ptr, k, FALSE)] = ptr[k + 1]
        /\ Chosen(m, ptr, k, TRUE) \in SUBSET Cells /\ Chosen(m, ptr, k, FALSE) \in SUBSET Cells
    BY ONLY m \in Memory, <2>1, SumOfChosen
  <2> QED  BY <2>2
<1>4. \A b \in BOOLEAN : {p \in Range(Entries(m)) : Deleted(m, p) = b} = C(b)
  <2>1. Range(Entries(m)) = {ptr[k] : k \in 1..n}
    BY Scanned
  <2> QED  BY <2>1 DEF Chosen
<1> DEFINE D3 == Digit * Digit * Digit
           D4 == D3 * Digit
<1>5. /\ SpaceOf(m, TRUE) = F[C(TRUE)] % D3 /\ SpaceOf(m, FALSE) = F[C(FALSE)] % D3
  <2>1. ASSUME NEW b \in BOOLEAN, C(b) \in SUBSET Cells PROVE SpaceOf(m, b) = F[C(b)] % D3
    <3> DEFINE c == {p \in Range(Entries(m)) : Deleted(m, p) = b}
    <3>1. SpaceOf(m, b) = MapThenSumSet(LAMBDA p : EntrySpace(m, p), c) % D3
      BY DEF SpaceOf
    <3>2. c = C(b)
      BY <1>4
    <3> HIDE DEF c, C, D3
    <3>3. c \in SUBSET Cells
      BY <2>1, <3>2
    <3>4. MapThenSumSet(LAMBDA p : EntrySpace(m, p), c) = F[c]
      BY <1>2, <3>3, SpaceIsSum
    <3> QED  BY <3>1, <3>2, <3>4
  <2> HIDE DEF C, D3
  <2> QED  BY <1>3, <2>1
<1>6. F[C(TRUE)] \in Nat /\ F[C(FALSE)] \in Nat
  BY <1>2, <1>3 DEF SumsUp
<1>7. D3 \in Nat \ {0} /\ D4 \in Nat \ {0} /\ D3 <= D4 /\ Cap < D3 /\ Cap \in Nat
  <2>1. D3 \in Nat /\ D4 \in Nat /\ D3 <= D4 /\ D3 >= CardSpan
    BY Spans
  <2>2. Cap \in Nat /\ Cap < CardSpan /\ CardSpan \in Nat
    BY Numbers
  <2> HIDE DEF D3, D4
  <2> QED  BY <2>1, <2>2
<1>8. FreeSpace(m) = (Cap + D4 - ((ActiveSpace(m) + DeletedSpace(m)) % D3)) % D4
  BY DEF FreeSpace
<1> DEFINE a == F[C(FALSE)]
           b == F[C(TRUE)]
<1>9. a \in Nat /\ b \in Nat /\ b + a = e
  BY <1>3, <1>6
<1>10. /\ DeletedSpace(m) = b % D3 /\ ActiveSpace(m) = a % D3
  BY <1>5 DEF ActiveSpace, DeletedSpace
<1> HIDE DEF C, D3, D4, e, a, b
<1>11. /\ a < D3 /\ b < D3 /\ e < D3 /\ e <= Cap /\ e \in Nat
       /\ DeletedSpace(m) = b /\ ActiveSpace(m) = a
  <2>1. a < D3 /\ b < D3 /\ e < D3 /\ e <= Cap /\ e \in Nat
    BY <1>1, <1>7, <1>9
  <2> QED  BY <1>7, <1>9, <1>10, <2>1, Smaller
<1>12. e % D3 = e
  BY <1>7, <1>11, Smaller
<1>13. Cap + D4 - e = D4 * 1 + (Cap - e) /\ Cap - e \in Nat /\ Cap - e < D4
  BY <1>7, <1>11
<1>14. (D4 * 1 + (Cap - e)) % D4 = Cap - e
  BY <1>7, <1>13, Quotient
<1> QED  BY <1>8, <1>9, <1>11, <1>12, <1>13, <1>14 DEF e

----------------------------------------------------------------------------
(* One byte is blown *)

\* Byte c of the area belongs to the entry.
InEntry(c, p, f) == p <= c /\ c < p + SizeOf(f)

LEMMA OneEntry ==
    ASSUME NEW m, NEW ptr, NEW fs, Laid(m, ptr, fs), NEW c \in Nat, NEW i \in 1..Len(fs)
    PROVE  /\ \A j \in 1..Len(fs) : InEntry(c, ptr[i], fs[i]) /\ InEntry(c, ptr[j], fs[j]) => i = j
           /\ InEntry(c, ptr[i], fs[i]) => c < ptr[Len(fs) + 1]
<1> DEFINE n == Len(fs)
           e == ptr[n + 1]
           z(k) == SizeOf(fs[k])
<1>1. n \in Nat /\ i \in 1..n /\ e \in Nat
  <2>1. n \in Nat /\ \A k \in 1..(n + 1) : ptr[k] \in Nat
    BY LaidBasics
  <2> QED  BY <2>1
<1>2. \A k \in 1..n : ptr[k] \in Nat /\ z(k) \in Nat
  BY EntryFits
<1>3. ASSUME NEW a \in 1..n, NEW b \in 1..n, a < b PROVE ptr[a] + z(a) <= ptr[b]
  <2>1. b \in 1..(n + 1)
    BY <1>1
  <2> QED  BY <1>3, <2>1, LaidInOrder
<1>4. ptr[i] + z(i) <= e
  <2>1. n + 1 \in 1..(n + 1) /\ i < n + 1
    BY <1>1
  <2> QED  BY <2>1, LaidInOrder
<1> HIDE DEF n, e, z
<1>5. ASSUME NEW j \in 1..n, InEntry(c, ptr[i], fs[i]), InEntry(c, ptr[j], fs[j]) PROVE i = j
  <2>1. /\ ptr[i] <= c /\ c < ptr[i] + z(i) /\ ptr[j] <= c /\ c < ptr[j] + z(j)
    BY <1>5 DEF InEntry, z
  <2>2. ~(i < j) /\ ~(j < i)
    BY <1>1, <1>2, <1>3, <2>1
  <2> QED  BY <1>1, <2>2
<1>6. ASSUME InEntry(c, ptr[i], fs[i]) PROVE c < e
  <2>1. c < ptr[i] + z(i)
    BY <1>6 DEF InEntry, z
  <2> QED  BY <1>1, <1>2, <1>4, <2>1
<1> QED  BY <1>5, <1>6 DEF n, e

\* The bytes of an entry that no operation may change once its header is complete.
InHeader(c, p, f) == c = p \/ (p + 2 <= c /\ c < p + Len(f[1]) + 5)

LEMMA HeaderKept ==
    ASSUME NEW m, NEW m2, NEW p \in Nat, NEW f \in Files, HeaderAt(m, p, f),
           \A c \in Nat : InHeader(c, p, f) => m2[c] = m[c]
    PROVE  HeaderAt(m2, p, f)
<1> DEFINE l == Len(f[1])
<1>1. l \in Nat
  BY FileFacts
<1>2. m[p] = l /\ (\A k \in 2..l : m[p + k] = f[1][k])
      /\ (\A k \in 1..3 : m[p + l + k] = SizeField(Len(f[2]))[k])
  BY DEF HeaderAt
<1>3. \A c \in Nat : c = p \/ (p + 2 <= c /\ c < p + l + 5) => m2[c] = m[c]
  BY DEF InHeader
<1>4. 1 <= l
  <2>1. l \in 1..(FF - 1) /\ FF \in Nat
    BY FileFacts, Numbers
  <2> HIDE DEF l
  <2> QED  BY <1>1, <2>1
<1> HIDE DEF l
<1>5. m2[p] = m[p]
  BY <1>3
<1>6. ASSUME NEW k \in 2..l PROVE m2[p + k] = m[p + k]
  <2>1. p + k \in Nat /\ p + 2 <= p + k /\ p + k < p + l + 5
    BY <1>1
  <2> QED  BY <1>3, <2>1
<1>7. ASSUME NEW k \in 1..3 PROVE m2[p + l + k] = m[p + l + k]
  <2>1. p + l + k \in Nat /\ p + 2 <= p + l + k /\ p + l + k < p + l + 5
    BY <1>1, <1>4
  <2> QED  BY <1>3, <2>1
<1> QED  BY <1>2, <1>5, <1>6, <1>7 DEF HeaderAt, l

LEMMA HeaderInEntry ==
    ASSUME NEW p \in Nat, NEW f \in Files, NEW c \in Nat, InHeader(c, p, f)
    PROVE  InEntry(c, p, f)
<1> DEFINE l == Len(f[1])
           s == Len(f[2])
           z == SizeOf(f)
<1>1. z = l + 5 + s /\ l \in Nat /\ s \in Nat
  BY FileFacts
<1>2. c = p \/ (p + 2 <= c /\ c < p + l + 5)
  BY DEF InHeader
<1> HIDE DEF l, s, z
<1>3. p <= c /\ c < p + z
  BY <1>1, <1>2
<1> QED  BY <1>3 DEF InEntry, z

\* The bytes that may be blown: free ones, first characters, and those of images.
MayBlow(c, ptr, fs) ==
    \/ c >= ptr[Len(fs) + 1]
    \/ \E i \in 1..Len(fs) : c = ptr[i] + 1 \/ (InEntry(c, ptr[i], fs[i]) /\ c >= ptr[i] + Len(fs[i][1]) + 5)

LEMMA FirstInEntry ==
    ASSUME NEW p \in Nat, NEW f \in Files
    PROVE  InEntry(p + 1, p, f) /\ ~InHeader(p + 1, p, f)
<1> DEFINE z == SizeOf(f)
<1>1. z \in Nat /\ z >= 6
  BY FileFacts
<1> HIDE DEF z
<1> QED  BY <1>1 DEF InEntry, InHeader, z

LEMMA LaidKept ==
    ASSUME NEW m, NEW m2, NEW ptr, NEW fs, Laid(m, ptr, fs),
           NEW c \in Nat, MayBlow(c, ptr, fs), \A q \in Nat : q # c => m2[q] = m[q]
    PROVE  Laid(m2, ptr, fs)
<1>1. /\ \A i \in 1..Len(fs) : HeaderAt(m, ptr[i], fs[i]) /\ ptr[i + 1] = ptr[i] + SizeOf(fs[i])
      /\ fs \in Seq(Files) /\ ptr \in Seq(0..Cap) /\ Len(ptr) = Len(fs) + 1 /\ ptr[1] = 0
  BY DEF Laid
<1>2. ASSUME NEW i \in 1..Len(fs) PROVE HeaderAt(m2, ptr[i], fs[i])
  <2>1. ptr[i] \in Nat /\ fs[i] \in Files
    BY EntryFits
  <2>2. ~InHeader(c, ptr[i], fs[i])
    <3> SUFFICES ASSUME InHeader(c, ptr[i], fs[i]) PROVE FALSE
      OBVIOUS
    <3>1. InEntry(c, ptr[i], fs[i])
      BY <2>1, HeaderInEntry
    <3>2. c < ptr[Len(fs) + 1] /\ ptr[Len(fs) + 1] \in Nat
      <4>1. Len(fs) \in Nat /\ \A k \in 1..(Len(fs) + 1) : ptr[k] \in Nat
        BY LaidBasics
      <4>2. Len(fs) + 1 \in 1..(Len(fs) + 1)
        BY <4>1
      <4> QED  BY <3>1, <4>1, <4>2, OneEntry
    <3> DEFINE e == ptr[Len(fs) + 1]
    <3>3. ~(c >= e)
      <4> HIDE DEF e
      <4>1. c < e /\ e \in Nat
        BY <3>2 DEF e
      <4> QED  BY <4>1
    <3>4. PICK j \in 1..Len(fs) : c = ptr[j] + 1 \/ (InEntry(c, ptr[j], fs[j]) /\ c >= ptr[j] + Len(fs[j][1]) + 5)
      BY <3>3 DEF MayBlow
    <3>5. ptr[j] \in Nat /\ fs[j] \in Files
      BY EntryFits
    <3>6. InEntry(c, ptr[j], fs[j])
      BY <3>4, <3>5, FirstInEntry
    <3>7. i = j
      BY <3>1, <3>6, OneEntry
    <3>8. c # ptr[i] + 1
      BY <2>1, FirstInEntry
    <3> DEFINE p == ptr[i]
               l == Len(fs[i][1])
    <3>9. p \in Nat /\ l \in Nat /\ c >= p + l + 5 /\ (c = p \/ (p + 2 <= c /\ c < p + l + 5))
      BY <2>1, <3>4, <3>7, <3>8, FileFacts DEF InHeader
    <3> HIDE DEF p, l
    <3> QED  BY <3>9
  <2>3. \A q \in Nat : InHeader(q, ptr[i], fs[i]) => m2[q] = m[q]
    BY <2>2
  <2> QED  BY <1>1, <2>1, <2>3, HeaderKept
<1> QED  BY <1>1, <1>2 DEF Laid

----------------------------------------------------------------------------
(* Types *)

LEMMA TrailTyped ==
    ASSUME NEW m \in Memory
    PROVE  /\ Trail(m) \in Seq(Cells) /\ Len(Trail(m)) >= 1
           /\ AllocFilePtr(m) \in 0..CardSpan
<1> DEFINE ptr == <<0>>
<1>1. IsChain(m, ptr, 0)
  <2>1. ptr \in Seq(Cells) /\ Len(ptr) = 0 + 1 /\ ptr[1] = 0 /\ 0 <= CardSpan
    BY Numbers
  <2> QED  BY <2>1 DEF IsChain
<1>2. Trail(m) \in Seq(Cells) /\ Len(Trail(m)) >= 1
  <2> HIDE DEF ptr
  <2>1. Trail(m) \in Seq(Cells) /\ Len(Trail(m)) >= 0 + 1
    BY <1>1, TrailFollows
  <2> QED  BY <2>1
<1>3. Last(Trail(m)) \in Cells
  BY <1>2 DEF Last
<1>4. AllocFilePtr(m) \in 0..CardSpan
  <2>1. Cells \subseteq 0..CardSpan /\ CardSpan \in 0..CardSpan
    BY Numbers DEF Cells
  <2> QED  BY <1>3, <2>1 DEF AllocFilePtr, NoEntry
<1> QED  BY <1>2, <1>4

\* All bytes that a save sends to the card.
BytesOf(f) == HeaderOf(f) \o f[2]

LEMMA BytesTyped ==
    ASSUME NEW f \in Files
    PROVE  /\ BytesOf(f) \in Seq(Byte) /\ Len(BytesOf(f)) = SizeOf(f)
           /\ \A k \in 1..(Len(f[1]) + 5) : BytesOf(f)[k] = HeaderOf(f)[k]
           /\ \A k \in 1..Len(f[2]) : BytesOf(f)[Len(f[1]) + 5 + k] = f[2][k]
<1> DEFINE h == HeaderOf(f)
           d == f[2]
           z == BytesOf(f)
           l == Len(f[1])
<1>1. h \in Seq(Byte) /\ Len(h) = l + 5 /\ d \in Seq(Byte) /\ SizeOf(f) = l + 5 + Len(d) /\ z = h \o d
  BY HeaderIs, FileFacts DEF BytesOf
<1> HIDE DEF h, d, z, l
<1>2. /\ z \in Seq(Byte) /\ Len(z) = Len(h) + Len(d)
      /\ \A k \in 1..Len(h) : z[k] = h[k]
      /\ \A k \in 1..Len(d) : z[Len(h) + k] = d[k]
  <2>1. h \in Seq(Byte) /\ d \in Seq(Byte) /\ z = h \o d
    BY ONLY <1>1
  <2> QED  BY ONLY <2>1, Joined
<1> QED  BY <1>1, <1>2 DEF h, d, z, l

LEMMA BlownTyped ==
    ASSUME NEW b \in Byte, NEW c \in Byte
    PROVE  Blown(c, b) \in Byte /\ Blown(FF, b) = b /\ Blown(c, 0) = 0
  BY BitAssumption, Numbers DEF Blown

LEMMA OneByte ==
    ASSUME NEW m \in Memory, NEW p \in 0..(Cap - 1), NEW b \in Byte
    PROVE  /\ [m EXCEPT ![p] = b] \in Memory /\ [m EXCEPT ![p] = b][p] = b
           /\ \A q \in Nat : q # p => [m EXCEPT ![p] = b][q] = m[q]
<1>1. [m EXCEPT ![p] = b] \in Memory
  BY DEF Memory
<1>2. [m EXCEPT ![p] = b][p] = b
  BY DEF Memory
<1>3. ASSUME NEW q \in Nat, q # p PROVE [m EXCEPT ![p] = b][q] = m[q]
  BY <1>3 DEF Memory
<1> QED  BY <1>1, <1>2, <1>3

LEMMA BlowDeletedTyped ==
    ASSUME card \in Memory, faults \in 0..MaxFaults, NEW p \in Nat, BlowDeleted(p)
    PROVE  card' \in Memory /\ faults' \in 0..MaxFaults
<1>1. CASE UNCHANGED <<card, faults>>
  BY <1>1
<1>2. CASE p + 1 < Cap /\ card' = [card EXCEPT ![p + 1] = Blown(card[p + 1], 0)] /\ UNCHANGED faults
  <2>1. p + 1 \in 0..(Cap - 1)
    BY <1>2, Numbers
  <2>2. Blown(card[p + 1], 0) \in Byte
    BY <2>1, BlownTyped, Numbers DEF Memory
  <2> QED  BY <1>2, <2>1, <2>2, OneByte
<1>3. CASE /\ p + 1 < Cap /\ faults < MaxFaults /\ faults' = faults + 1
           /\ \E r \in Misblown(card[p + 1], 0) : card' = [card EXCEPT ![p + 1] = r]
  <2>1. p + 1 \in 0..(Cap - 1)
    BY <1>3, Numbers
  <2>2. PICK r \in Byte : card' = [card EXCEPT ![p + 1] = r]
    BY <1>3 DEF Misblown
  <2>3. faults' \in 0..MaxFaults
    BY <1>3, AreaAssumption
  <2> QED  BY <2>1, <2>2, <2>3, OneByte
<1>4. ~(p + 1 >= Cap) => p + 1 < Cap
  BY Numbers
<1> QED  BY <1>1, <1>2, <1>3, <1>4 DEF BlowDeleted

\* TypeOK is not inductive by itself: what is appended to intent is the file that a save
\* has at hand.
TypeInv == TypeOK /\ (op.pc # "idle" => op.file \in Names \X Contents)

LEMMA TypeStep == TypeInv /\ [Next]_vars => TypeInv'
<1> SUFFICES ASSUME TypeInv, [Next]_vars PROVE TypeInv'
  OBVIOUS
<1>a. /\ card \in Memory /\ op \in Ops /\ faults \in 0..MaxFaults
      /\ intent \in Seq(Names \X Contents)
      /\ op.pc # "idle" => op.file \in Names \X Contents
  BY DEF TypeInv, TypeOK, Memory
<1> SUFFICES /\ card' \in Memory /\ op' \in Ops /\ faults' \in 0..MaxFaults
             /\ intent' \in Seq(Names \X Contents)
             /\ op'.pc # "idle" => op'.file \in Names \X Contents
  BY DEF TypeInv, TypeOK, Memory
<1>b. Idle \in Ops /\ Idle.pc = "idle"
  BY Numbers DEF Ops, Idle
<1>c. /\ op.at \in 0..CardSpan /\ op.entry \in 0..CardSpan /\ op.todo \in Seq(Byte)
      /\ op.file \in {<<>>} \union (Names \X Contents)
  BY <1>a DEF Ops
<1>1. ASSUME NEW n \in Names, NEW d \in Contents, SaveRamFile(n, d)
      PROVE  op' \in Ops /\ op'.file \in Names \X Contents /\ UNCHANGED <<card, faults, intent>>
  <2> DEFINE f == <<n, d>>
             a == AllocFilePtr(card)
             t == EntryHeader(n, d) \o d
  <2>1. f \in Files /\ f \in Names \X Contents
    BY DEF Files
  <2>2. t \in Seq(Byte)
    <3>1. t = BytesOf(f)
      BY DEF BytesOf, HeaderOf
    <3> HIDE DEF t, f
    <3> QED  BY <2>1, <3>1, BytesTyped
  <2>3. a \in 0..CardSpan
    BY <1>a, TrailTyped
  <2>4. op' = [pc |-> "blow", entry |-> a, at |-> a, todo |-> t, file |-> f]
    BY <1>1 DEF SaveRamFile
  <2> HIDE DEF a, t, f
  <2>5. op' \in Ops /\ op'.file \in Names \X Contents
    BY <2>1, <2>2, <2>3, <2>4 DEF Ops
  <2> QED  BY <1>1, <2>5 DEF SaveRamFile
<1>2. ASSUME BlowByte
      PROVE  /\ card' \in Memory /\ op' \in Ops /\ op'.file \in Names \X Contents
             /\ UNCHANGED faults /\ intent' \in Seq(Names \X Contents)
  <2>1. /\ op.pc = "blow" /\ op.todo # <<>> /\ op.at < Cap
        /\ card' = [card EXCEPT ![op.at] = Head(op.todo)]
        /\ op' = [op EXCEPT !.at = op.at + 1, !.todo = Tail(op.todo)]
        /\ UNCHANGED faults
        /\ intent' = IF Len(op.todo) = Len(op.file[2]) + 1 THEN Append(intent, op.file) ELSE intent
    BY <1>2 DEF BlowByte
  <2>2. Head(op.todo) \in Byte /\ Tail(op.todo) \in Seq(Byte)
    BY <1>c, <2>1
  <2>3. op.at \in 0..(Cap - 1) /\ op.at + 1 \in 0..CardSpan
    BY <1>c, <2>1, Numbers
  <2>4. card' \in Memory
    BY <1>a, <2>1, <2>2, <2>3, OneByte
  <2>5. op' \in Ops
    BY <1>a, <2>1, <2>2, <2>3 DEF Ops
  <2>6. intent' \in Seq(Names \X Contents)
    BY <1>a, <2>1
  <2>7. op'.file = op.file
    BY <1>a, <2>1 DEF Ops
  <2> QED  BY <1>a, <2>1, <2>4, <2>5, <2>6, <2>7
<1>3. ASSUME BlowError
      PROVE  /\ card' \in Memory /\ op' \in Ops /\ op'.file \in Names \X Contents
             /\ faults' \in 0..MaxFaults /\ UNCHANGED intent
  <2>1. /\ op.pc = "blow" /\ op.todo # <<>> /\ op' = [op EXCEPT !.pc = "mark"] /\ UNCHANGED intent
    BY <1>3 DEF BlowError
  <2>2. op' \in Ops /\ op'.file \in Names \X Contents
    BY <1>a, <2>1 DEF Ops
  <2>3. Head(op.todo) \in Byte
    BY <1>c, <2>1
  <2>4. CASE /\ op.at < Cap /\ MayFail /\ faults' = faults + 1
             /\ \E r \in Misblown(card[op.at], Head(op.todo)) : card' = [card EXCEPT ![op.at] = r]
    <3>1. op.at \in 0..(Cap - 1)
      BY <1>c, <2>4, Numbers
    <3>2. PICK r \in Byte : card' = [card EXCEPT ![op.at] = r]
      BY <2>4 DEF Misblown
    <3>3. faults' \in 0..MaxFaults
      BY <1>a, <2>4, AreaAssumption DEF MayFail
    <3> QED  BY <1>a, <2>1, <2>2, <3>1, <3>2, <3>3, OneByte
  <2>5. CASE /\ UNCHANGED faults
             /\ card' = IF op.at < Cap THEN [card EXCEPT ![op.at] = Blown(card[op.at], Head(op.todo))] ELSE card
    <3>1. CASE op.at < Cap
      <4>1. op.at \in 0..(Cap - 1)
        BY <1>c, <3>1, Numbers
      <4>2. Blown(card[op.at], Head(op.todo)) \in Byte
        BY <1>a, <2>3, <4>1, BlownTyped DEF Memory
      <4> QED  BY <1>a, <2>1, <2>2, <2>5, <3>1, <4>1, <4>2, OneByte
    <3>2. CASE ~(op.at < Cap)
      BY <1>a, <2>1, <2>2, <2>5, <3>2
    <3> QED  BY <3>1, <3>2
  <2> QED  BY <1>3, <2>4, <2>5 DEF BlowError
<1>4. ASSUME SaveDone PROVE op' \in Ops /\ op'.pc = "idle" /\ UNCHANGED <<card, faults, intent>>
  BY <1>4, <1>b DEF SaveDone
<1>5. ASSUME MarkDeleted
      PROVE  /\ card' \in Memory /\ op' \in Ops /\ op'.pc = "idle"
             /\ faults' \in 0..MaxFaults /\ UNCHANGED intent
  <2>1. op.entry \in Nat
    BY <1>c, Numbers
  <2> QED  BY <1>5, <1>a, <1>b, <2>1, BlowDeletedTyped DEF MarkDeleted
<1>6. ASSUME NEW p \in Range(Entries(card)), FileDelete(p)
      PROVE  card' \in Memory /\ faults' \in 0..MaxFaults /\ UNCHANGED <<op, intent>>
  <2>1. p \in Nat
    <3>1. Trail(card) \in Seq(Cells) /\ Len(Trail(card)) >= 1
      BY <1>a, TrailTyped
    <3> DEFINE t == Trail(card)
    <3>2. PICK i \in DOMAIN Front(t) : p = Front(t)[i]
      BY DEF Entries, Range
    <3> HIDE DEF t
    <3>3. /\ Front(t) = SubSeq(t, 1, Len(t) - 1) /\ t \in Seq(Cells) /\ Len(t) >= 1
      BY <3>1 DEF Front, t
    <3>4. i \in 1..(Len(t) - 1) /\ p = t[i] /\ i \in 1..Len(t)
      BY <3>2, <3>3
    <3>5. p \in Cells
      BY <3>3, <3>4
    <3> QED  BY <3>5, Numbers
  <2> QED  BY <1>6, <1>a, <2>1, BlowDeletedTyped DEF FileDelete
<1>7. ASSUME Reset PROVE op' \in Ops /\ op'.pc = "idle" /\ faults' \in 0..MaxFaults /\ UNCHANGED <<card, intent>>
  BY <1>7, <1>a, <1>b, AreaAssumption DEF Reset
<1>8. CASE UNCHANGED vars
  BY <1>8, <1>a DEF vars
<1> QED  BY <1>1, <1>2, <1>3, <1>4, <1>5, <1>6, <1>7, <1>8, <1>a DEF Next

LEMMA TypeInit == Init => TypeInv
<1> SUFFICES ASSUME Init PROVE TypeInv
  OBVIOUS
<1>1. \A null \in BOOLEAN : FreshCard(null) \in Memory
  <2> SUFFICES ASSUME NEW null \in BOOLEAN, NEW p \in 0..(Cap - 1)
               PROVE  (IF null /\ p < Len(NullFile) THEN NullFile[p + 1] ELSE FF) \in Byte
    BY DEF FreshCard, Memory
  <2>1. Len(NullFile) = 6 /\ NullFile \in Seq(Byte)
    BY Numbers DEF NullFile, Byte
  <2>2. p < 6 => p + 1 \in 1..6
    BY Numbers
  <2>3. p < Len(NullFile) => NullFile[p + 1] \in Byte
    <3>1. \A i \in 1..Len(NullFile) : NullFile[i] \in Byte
      BY <2>1, OfElements
    <3> QED  BY <2>1, <2>2, <3>1
  <2> QED  BY <2>3, Numbers
<1>2. card \in Memory /\ op \in Ops /\ faults \in 0..MaxFaults /\ intent \in Seq(Names \X Contents)
  BY <1>1, AreaAssumption, Numbers DEF Init, Idle, Ops
<1> QED  BY <1>2 DEF TypeInv, TypeOK, Memory, Init, Idle

\* The types of the variables, whatever fails: a save stays inside the slot.
THEOREM TypeCorrect == Spec => []TypeOK
<1>1. TypeInv => TypeOK
  BY DEF TypeInv
<1> QED  BY <1>1, TypeInit, TypeStep, PTL DEF Spec

----------------------------------------------------------------------------
(* The inductive invariant *)

HasNull == NameLength(card, 0) = 1

\* Everything that is in the area, the NULL file included.
Stored == IF HasNull THEN <<NullEntry>> \o intent ELSE intent

\* The file at hand is the last one whose header is complete.
AtLast(ptr) ==
    intent # <<>> /\ op.file = intent[Len(intent)] /\ op.entry = ptr[Len(Stored)]

\* A save has written what it has written, to erased bytes that are enough for the rest.
Blowing(ptr) ==
    /\ op.entry <= op.at /\ op.at + Len(op.todo) = op.entry + SizeOf(op.file)
    /\ op.entry + SizeOf(op.file) <= Cap
    /\ \A k \in op.entry..(op.at - 1) : card[k] = BytesOf(op.file)[k - op.entry + 1]
    /\ \A k \in 1..Len(op.todo) : op.todo[k] = BytesOf(op.file)[op.at - op.entry + k]
    /\ ErasedFrom(card, op.at)
    /\ IF HeaderLeft THEN op.entry = ptr[Len(Stored) + 1] ELSE AtLast(ptr)

Arranged(ptr) ==
    /\ Laid(card, ptr, Stored)
    /\ HasNull => card[1] = 0
    /\ op.pc = "idle" => op = Idle /\ ErasedFrom(card, ptr[Len(Stored) + 1])
    /\ op.pc = "blow" => Blowing(ptr)
    /\ op.pc = "mark" => AtLast(ptr) /\ ErasedFrom(card, ptr[Len(Stored) + 1])

Layout == \E ptr : Arranged(ptr)

LEMMA NullIs == card \in Memory => (HasNull <=> card[0] = 1)
  BY Numbers DEF HasNull, NameLength, ReadByte

LEMMA StoredIs ==
    ASSUME TypeInv
    PROVE  /\ Stored \in Seq(Files) /\ intent \in Seq(Files) /\ Len(intent) \in Nat
           /\ HasNull => Len(Stored) = Len(intent) + 1 /\ Stored[1] = NullEntry
           /\ ~HasNull => Stored = intent
           /\ HasNull => \A i \in 1..Len(intent) : Stored[i + 1] = intent[i]
           /\ \A i \in 1..Len(intent) : intent[i] \in Names \X Contents
<1>1. intent \in Seq(Names \X Contents) /\ Names \X Contents \subseteq Files
  BY DEF TypeInv, TypeOK, Files
<1>2. intent \in Seq(Files) /\ Len(intent) \in Nat /\ \A i \in 1..Len(intent) : intent[i] \in Names \X Contents
  BY <1>1, OfMore, OfElements
<1> DEFINE a == <<NullEntry>>
           h == a \o intent
<1>3. a \in Seq(Files) /\ Len(a) = 1 /\ a[1] = NullEntry
  BY DEF Files
<1> HIDE DEF a
<1>4. /\ h \in Seq(Files) /\ Len(h) = 1 + Len(intent) /\ h[1] = NullEntry
      /\ \A i \in 1..Len(intent) : h[1 + i] = intent[i]
  <2> DEFINE g == h
  <2>1. g = a \o intent
    OBVIOUS
  <2> HIDE DEF g
  <2>2. /\ g \in Seq(Files) /\ Len(g) = Len(a) + Len(intent)
        /\ \A k \in 1..Len(a) : g[k] = a[k]
        /\ \A k \in 1..Len(intent) : g[Len(a) + k] = intent[k]
    <3>1. a \in Seq(Files) /\ intent \in Seq(Files)
      BY <1>2, <1>3
    <3> QED  BY ONLY <2>1, <3>1, Joined
  <2> QED  BY <1>3, <2>2 DEF g
<1> HIDE DEF h
<1>5. Stored = IF HasNull THEN h ELSE intent
  BY DEF Stored, h, a
<1> QED  BY <1>2, <1>4, <1>5

\* Where everything ends.
LEMMA EndIs ==
    ASSUME NEW m, NEW ptr, NEW fs, Laid(m, ptr, fs)
    PROVE  /\ ptr[Len(fs) + 1] \in 0..Cap /\ ptr[Len(fs) + 1] \in Nat /\ Len(fs) \in Nat
           /\ fs # <<>> => /\ Len(fs) \in 1..Len(fs)
                           /\ ptr[Len(fs) + 1] = ptr[Len(fs)] + SizeOf(fs[Len(fs)])
           /\ ptr[Len(fs) + 1] = 0 => fs = <<>>
<1> DEFINE n == Len(fs)
           e == ptr[n + 1]
<1>1. n \in Nat /\ n + 1 \in 1..(n + 1) /\ fs \in Seq(Files)
  BY LaidBasics DEF Laid
<1>2. e \in 0..Cap /\ e \in Nat /\ n + 1 <= e + 1
  BY <1>1, LaidBasics, LaidAdvances
<1>3. fs # <<>> => n \in 1..n
  BY <1>1
<1>4. n = 0 => fs = <<>>
  BY <1>1
<1>5. n \in 1..n => e = ptr[n] + SizeOf(fs[n])
  BY LaidBasics
<1> HIDE DEF n, e
<1>6. e = 0 => n = 0
  BY <1>1, <1>2
<1> QED  BY <1>1, <1>2, <1>3, <1>4, <1>5, <1>6 DEF n, e

\* Blowing one byte that may be blown leaves everything where it is.
LEMMA BlowKeeps ==
    ASSUME TypeInv, NEW ptr, Laid(card, ptr, Stored), HasNull => card[1] = 0,
           NEW c \in 0..(Cap - 1), NEW b \in Byte, card' = [card EXCEPT ![c] = b],
           MayBlow(c, ptr, Stored), c = 0 => b # 1, HasNull => c # 1
    PROVE  /\ HasNull' <=> HasNull
           /\ Laid(card', ptr, Stored)
           /\ HasNull' => card'[1] = 0
<1>1. /\ card \in Memory /\ card' \in Memory /\ c \in Nat /\ card'[c] = b
      /\ \A q \in Nat : q # c => card'[q] = card[q]
  <2>1. card \in Memory /\ c \in Nat
    BY Numbers DEF TypeInv, TypeOK, Memory
  <2> DEFINE m == [card EXCEPT ![c] = b]
  <2>2. m \in Memory /\ m[c] = b /\ \A q \in Nat : q # c => m[q] = card[q]
    BY ONLY <2>1, c \in 0..(Cap - 1), b \in Byte, OneByte
  <2>3. card' = m
    OBVIOUS
  <2> HIDE DEF m
  <2> QED  BY <2>1, <2>2, <2>3
<1>2. Laid(card', ptr, Stored)
  BY <1>1, LaidKept
<1>3. (HasNull <=> card[0] = 1) /\ (HasNull' <=> card'[0] = 1)
  BY <1>1, NullIs, Numbers DEF HasNull, NameLength, ReadByte
<1>4. CASE c # 0
  <2>1. card'[0] = card[0]
    BY <1>1, <1>4
  <2>2. HasNull => card'[1] = card[1]
    BY <1>1
  <2> QED  BY <1>2, <1>3, <2>1, <2>2
<1>5. CASE c = 0
  <2>1. \A i \in 1..Len(Stored) : c # ptr[i] + 1 /\ ~(c >= ptr[i] + Len(Stored[i][1]) + 5)
    <3> SUFFICES ASSUME NEW i \in 1..Len(Stored)
                 PROVE  c # ptr[i] + 1 /\ ~(c >= ptr[i] + Len(Stored[i][1]) + 5)
      OBVIOUS
    <3> DEFINE p == ptr[i]
               l == Len(Stored[i][1])
    <3>1. p \in Nat /\ l \in Nat
      BY EntryFits, FileFacts
    <3> HIDE DEF p, l
    <3>2. 0 # p + 1 /\ ~(0 >= p + l + 5)
      BY <3>1
    <3> QED  BY <1>5, <3>2 DEF p, l
  <2>2. c >= ptr[Len(Stored) + 1]
    BY <2>1 DEF MayBlow
  <2>3. ptr[Len(Stored) + 1] = 0
    BY <1>5, <2>2, EndIs
  <2>4. Stored = <<>>
    BY <2>3, EndIs
  <2>5. ~HasNull
    <3>1. HasNull => Len(Stored) = Len(intent) + 1 /\ Len(intent) \in Nat
      BY StoredIs
    <3> QED  BY <2>4, <3>1
  <2>6. ~HasNull'
    BY <1>1, <1>3, <1>5
  <2> QED  BY <1>2, <2>5, <2>6
<1> QED  BY <1>4, <1>5

\* What the types and the invariant say of a save that has a file at hand.
LEMMA AtHand ==
    ASSUME TypeInv, op.pc # "idle"
    PROVE  /\ op.file \in Names \X Contents /\ op.file \in Files /\ op.file # NullEntry
           /\ Len(op.file[1]) \in Nat /\ Len(op.file[1]) >= 2 /\ Len(op.file[2]) \in Nat
           /\ SizeOf(op.file) = Len(op.file[1]) + 5 + Len(op.file[2])
           /\ Len(BytesOf(op.file)) = SizeOf(op.file) /\ BytesOf(op.file) \in Seq(Byte)
           /\ op.todo \in Seq(Byte) /\ Len(op.todo) \in Nat /\ op.at \in Nat /\ op.entry \in Nat
<1>1. op.file \in Names \X Contents /\ op \in Ops
  BY DEF TypeInv, TypeOK
<1>2. op.file \in Files
  BY <1>1 DEF Files
<1>3. op.file # NullEntry
  <2>1. op.file[1] \in Names
    BY <1>1
  <2>2. Len(op.file[1]) \in 2..(FF - 1)
    BY <2>1, AreaAssumption
  <2>3. Len(NullEntry[1]) = 1
    BY DEF NullEntry
  <2>4. op.file = NullEntry => Len(op.file[1]) = Len(NullEntry[1])
    OBVIOUS
  <2>5. 1 \notin 2..(FF - 1)
    OBVIOUS
  <2> QED  BY <2>2, <2>3, <2>4, <2>5
<1>4. /\ Len(op.file[1]) \in Nat /\ Len(op.file[1]) >= 2 /\ Len(op.file[2]) \in Nat
      /\ SizeOf(op.file) = Len(op.file[1]) + 5 + Len(op.file[2])
  BY <1>2, <1>3, FileFacts
<1>5. Len(BytesOf(op.file)) = SizeOf(op.file) /\ BytesOf(op.file) \in Seq(Byte)
  BY <1>2, BytesTyped
<1>6. op.todo \in Seq(Byte) /\ Len(op.todo) \in Nat /\ op.at \in Nat /\ op.entry \in Nat
  BY <1>1, Numbers DEF Ops
<1> QED  BY <1>1, <1>2, <1>3, <1>4, <1>5, <1>6

\* The last entry of the chain is the file at hand.
LEMMA LastAtHand ==
    ASSUME TypeInv, op.pc # "idle", NEW ptr, Laid(card, ptr, Stored), AtLast(ptr)
    PROVE  LET n == Len(Stored)
           IN  /\ n \in 1..n /\ n \in Nat /\ Stored[n] = op.file /\ op.entry = ptr[n]
               /\ ptr[n + 1] = op.entry + SizeOf(op.file)
               /\ HasNull => op.entry >= 6
<1> DEFINE n == Len(Stored)
           k == Len(intent)
<1>1. intent # <<>> /\ op.file = intent[k] /\ op.entry = ptr[n] /\ k \in Nat
  BY StoredIs DEF AtLast
<1>2. k \in 1..k
  BY <1>1, StoredIs
<1>3. n \in 1..n /\ n \in Nat /\ Stored[n] = op.file
  <2>1. CASE HasNull
    <3>1. n = k + 1 /\ Stored[k + 1] = intent[k]
      BY <1>2, <2>1, StoredIs
    <3> HIDE DEF n, k
    <3> QED  BY <1>1, <1>2, <3>1
  <2>2. CASE ~HasNull
    BY <1>1, <1>2, <2>2, StoredIs
  <2> QED  BY <2>1, <2>2
<1>4. ptr[n + 1] = op.entry + SizeOf(op.file)
  BY <1>1, <1>3, LaidBasics
<1>5. ASSUME HasNull PROVE op.entry >= 6
  <2>1. n = k + 1 /\ Stored[1] = NullEntry
    BY <1>5, StoredIs
  <2>2. 1 \in 1..n /\ n \in 1..(n + 1) /\ 1 < n
    <3> HIDE DEF n, k
    <3> QED  BY <1>1, <1>2, <2>1
  <2>3. ptr[1] + SizeOf(Stored[1]) <= ptr[n]
    BY <2>2, LaidInOrder
  <2>4. ptr[1] = 0 /\ SizeOf(Stored[1]) >= 6 /\ SizeOf(Stored[1]) \in Nat
    BY <2>2, EntryFits DEF Laid
  <2>5. op.entry \in Nat
    BY AtHand
  <2> QED  BY <1>1, <2>3, <2>4, <2>5
<1> QED  BY <1>1, <1>3, <1>4, <1>5

\* Between the first byte of a save and its end.
LEMMA BlowingIs ==
    ASSUME TypeInv, op.pc = "blow", NEW ptr, Laid(card, ptr, Stored), Blowing(ptr)
    PROVE  /\ HasNull => op.entry >= 6
           /\ op.todo # <<>> => /\ op.at < Cap /\ op.at \in 0..(Cap - 1) /\ card[op.at] = FF
                                /\ Head(op.todo) = op.todo[1] /\ Head(op.todo) \in Byte
                                /\ Head(op.todo) = BytesOf(op.file)[op.at - op.entry + 1]
                                /\ Len(op.todo) >= 1
           /\ HeaderLeft => op.todo # <<>> /\ ptr[Len(Stored) + 1] = op.entry
           /\ ~HeaderLeft => /\ op.at >= op.entry + Len(op.file[1]) + 5
                             /\ AtLast(ptr) /\ op.at <= ptr[Len(Stored) + 1]
<1> DEFINE l == Len(op.file[1])
           s == Len(op.file[2])
           t == Len(op.todo)
           z == SizeOf(op.file)
           e == op.entry
           a == op.at
<1>1. l \in Nat /\ s \in Nat /\ t \in Nat /\ e \in Nat /\ a \in Nat /\ z = l + 5 + s /\ op.todo \in Seq(Byte)
  BY AtHand
<1>2. e <= a /\ a + t = e + z /\ e + z <= Cap
  BY DEF Blowing
<1>3. ErasedFrom(card, a) /\ \A k \in 1..t : op.todo[k] = BytesOf(op.file)[a - e + k]
  BY DEF Blowing
<1>4. ASSUME HasNull PROVE e >= 6
  <2>1. CASE HeaderLeft
    <3>1. e = ptr[Len(Stored) + 1] /\ Stored[1] = NullEntry /\ Len(Stored) = Len(intent) + 1 /\ Len(intent) \in Nat
      BY <1>4, <2>1, StoredIs DEF Blowing
    <3>2. 1 \in 1..Len(Stored) /\ Len(Stored) + 1 \in 1..(Len(Stored) + 1) /\ 1 < Len(Stored) + 1
      BY <3>1
    <3>3. ptr[1] + SizeOf(Stored[1]) <= e
      BY <3>1, <3>2, LaidInOrder
    <3>4. ptr[1] = 0 /\ SizeOf(Stored[1]) >= 6 /\ SizeOf(Stored[1]) \in Nat
      BY <3>2, EntryFits DEF Laid
    <3> QED  BY <1>1, <3>3, <3>4
  <2>2. CASE ~HeaderLeft
    BY <1>4, <2>2, LastAtHand DEF Blowing
  <2> QED  BY <2>1, <2>2
<1>5. ASSUME op.todo # <<>>
      PROVE  /\ a < Cap /\ a \in 0..(Cap - 1) /\ card[a] = FF
             /\ Head(op.todo) = op.todo[1] /\ Head(op.todo) \in Byte
             /\ Head(op.todo) = BytesOf(op.file)[a - e + 1] /\ t >= 1
  <2>1. t >= 1 /\ Head(op.todo) = op.todo[1] /\ Head(op.todo) \in Byte
    BY <1>1, <1>5
  <2> HIDE DEF l, s, t, z, e, a
  <2>2. a < Cap /\ a \in 0..(Cap - 1) /\ a \in a..(Cap - 1) /\ 1 \in 1..t
    BY <1>1, <1>2, <2>1, Numbers
  <2>3. card[a] = FF
    BY <1>3, <2>2 DEF ErasedFrom
  <2> QED  BY <1>3, <2>1, <2>2, <2>3
<1>6. HeaderLeft => op.todo # <<>> /\ ptr[Len(Stored) + 1] = e
  <2> SUFFICES ASSUME HeaderLeft PROVE op.todo # <<>>
    BY DEF Blowing
  <2>1. t > s
    BY DEF HeaderLeft
  <2>2. op.todo = <<>> => t = 0
    OBVIOUS
  <2> HIDE DEF t, s
  <2> QED  BY <1>1, <2>1, <2>2
<1>7. ASSUME ~HeaderLeft PROVE a >= e + l + 5 /\ AtLast(ptr) /\ a <= ptr[Len(Stored) + 1]
  <2>1. AtLast(ptr)
    BY <1>7 DEF Blowing
  <2>2. ptr[Len(Stored) + 1] = e + z
    BY <2>1, LastAtHand
  <2>3. t <= s
    <3>1. ~(t > s)
      BY <1>7 DEF HeaderLeft
    <3> HIDE DEF t, s
    <3> QED  BY <1>1, <3>1
  <2> HIDE DEF l, s, t, z, e, a
  <2> QED  BY <1>1, <1>2, <2>1, <2>2, <2>3
<1> QED  BY <1>4, <1>5, <1>6, <1>7

LEMMA SaveArranges ==
    ASSUME TypeInv, NEW ptr, Arranged(ptr), NEW n \in Names, NEW d \in Contents, SaveRamFile(n, d)
    PROVE  Arranged(ptr)'
<1> DEFINE f == <<n, d>>
           e == ptr[Len(Stored) + 1]
           t == BytesOf(f)
<1>1. /\ op.pc = "idle" /\ EntrySize(n, d) <= FreeSpace(card) /\ UNCHANGED <<card, intent>>
      /\ op' = [pc |-> "blow", entry |-> AllocFilePtr(card), at |-> AllocFilePtr(card),
                todo |-> EntryHeader(n, d) \o d, file |-> f]
  BY DEF SaveRamFile
<1>2. card \in Memory /\ Holds(card, ptr, Stored) /\ (HasNull => card[1] = 0)
  BY <1>1 DEF TypeInv, TypeOK, Memory, Arranged, Holds
<1>3. AllocFilePtr(card) = e /\ FreeSpace(card) = Cap - e
  BY <1>2, Scanned, SpaceAddsUp
<1>4. e \in Nat /\ ErasedFrom(card, e)
  BY <1>2, EndIs DEF Holds
<1>5. /\ f \in Files /\ t \in Seq(Byte) /\ Len(t) = SizeOf(f) /\ SizeOf(f) \in Nat
      /\ Len(t) > Len(d)
  <2>1. f \in Files /\ f[1] = n /\ f[2] = d
    BY DEF Files
  <2> HIDE DEF f
  <2>2. t \in Seq(Byte) /\ Len(t) = SizeOf(f) /\ SizeOf(f) \in Nat
    BY <2>1, BytesTyped, FileFacts
  <2>3. SizeOf(f) = Len(f[1]) + 5 + Len(f[2]) /\ Len(f[1]) \in Nat /\ Len(f[2]) \in Nat
    BY <2>1, FileFacts
  <2> DEFINE z == SizeOf(f)
             l == Len(f[1])
             s == Len(f[2])
  <2>4. s < z
    <3>1. z = l + 5 + s /\ l \in Nat /\ s \in Nat
      BY <2>3
    <3> HIDE DEF z, l, s
    <3> QED  BY <3>1
  <2> QED  BY <2>1, <2>2, <2>4
<1>6. EntrySize(n, d) = SizeOf(f) /\ t = EntryHeader(n, d) \o d
  BY DEF SizeOf, BytesOf, HeaderOf
<1>7. /\ op'.pc = "blow" /\ op'.entry = e /\ op'.at = e /\ op'.todo = t /\ op'.file = f
      /\ op'.file[2] = d
  BY <1>1, <1>3, <1>6
<1>8. e + SizeOf(f) <= Cap
  <2> DEFINE z == SizeOf(f)
  <2>1. z \in Nat /\ z <= Cap - e
    BY <1>1, <1>3, <1>5, <1>6
  <2>2. e \in Nat /\ Cap \in Nat
    BY <1>4, Numbers
  <2> HIDE DEF z, e
  <2>3. e + z <= Cap
    BY <2>1, <2>2
  <2> QED  BY <2>3 DEF z
<1>9. /\ Stored' = Stored /\ HasNull' = HasNull
  BY <1>1 DEF Stored, HasNull
<1> HIDE DEF e, t, f
<1>10. Blowing(ptr)'
  <2>1. HeaderLeft'
    BY <1>5, <1>7 DEF HeaderLeft
  <2>2. op'.entry = ptr[Len(Stored') + 1]
    BY <1>7, <1>9 DEF e
  <2>3. op'.entry <= op'.at /\ op'.at + Len(op'.todo) = op'.entry + SizeOf(op'.file)
    BY <1>4, <1>5, <1>7
  <2>4. op'.entry + SizeOf(op'.file) <= Cap
    BY <1>7, <1>8
  <2>5. \A k \in op'.entry..(op'.at - 1) : FALSE
    BY <1>4, <1>7
  <2>6. \A k \in 1..Len(op'.todo) : op'.at - op'.entry + k = k
    BY <1>4, <1>7
  <2>7. \A k \in 1..Len(op'.todo) : op'.todo[k] = BytesOf(op'.file)[op'.at - op'.entry + k]
    BY <1>7, <2>6 DEF t
  <2>8. ErasedFrom(card', op'.at)
    BY <1>1, <1>4, <1>7
  <2> QED  BY <2>1, <2>2, <2>3, <2>4, <2>5, <2>7, <2>8 DEF Blowing
<1>11. Laid(card', ptr, Stored') /\ (HasNull' => card'[1] = 0)
  BY <1>1, <1>2, <1>9 DEF Holds
<1>12. op'.pc = "blow"
  BY <1>7
<1> QED  BY <1>10, <1>11, <1>12 DEF Arranged

LEMMA DoneArranges ==
    ASSUME TypeInv, NEW ptr, Arranged(ptr), SaveDone
    PROVE  Arranged(ptr)'
<1>1. op.pc = "blow" /\ op.todo = <<>> /\ op' = Idle /\ UNCHANGED <<card, intent>>
  BY DEF SaveDone
<1>2. Laid(card, ptr, Stored) /\ (HasNull => card[1] = 0) /\ Blowing(ptr)
  BY <1>1 DEF Arranged
<1>3. ~HeaderLeft
  BY <1>1, <1>2, BlowingIs
<1>4. AtLast(ptr) /\ ErasedFrom(card, op.at) /\ op.at + Len(op.todo) = op.entry + SizeOf(op.file)
  BY <1>2, <1>3 DEF Blowing
<1>5. ptr[Len(Stored) + 1] = op.entry + SizeOf(op.file)
  BY <1>1, <1>2, <1>4, LastAtHand
<1>6. Len(op.todo) = 0 /\ op.at \in Nat
  BY <1>1, AtHand
<1>7. op.at = ptr[Len(Stored) + 1]
  BY <1>4, <1>5, <1>6
<1>8. Stored' = Stored /\ HasNull' = HasNull /\ Idle.pc = "idle"
  BY <1>1 DEF Stored, HasNull, Idle
<1> QED  BY <1>1, <1>2, <1>4, <1>7, <1>8 DEF Arranged

LEMMA ResetArranges ==
    ASSUME ~HeaderFaults, TypeInv, NEW ptr, Arranged(ptr), Reset
    PROVE  Arranged(ptr)'
<1>1. /\ op.pc # "idle" /\ op' = Idle /\ UNCHANGED <<card, intent>>
      /\ op.pc = "blow" => ~HeaderLeft \/ op.at = op.entry
  BY DEF Reset
<1>2. Laid(card, ptr, Stored) /\ (HasNull => card[1] = 0)
  BY <1>1 DEF Arranged
<1>3. op.pc = "blow" \/ op.pc = "mark"
  BY <1>1 DEF TypeInv, TypeOK, Ops
<1>4. ErasedFrom(card, ptr[Len(Stored) + 1])
  <2>1. CASE op.pc = "mark"
    BY <2>1 DEF Arranged
  <2>2. CASE op.pc = "blow"
    <3> DEFINE e == ptr[Len(Stored) + 1]
    <3>1. Blowing(ptr) /\ ErasedFrom(card, op.at)
      BY <2>2 DEF Arranged, Blowing
    <3>2. op.at \in Nat /\ e \in Nat
      BY <1>1, <1>2, AtHand, EndIs
    <3>3. op.at <= e
      <4>1. CASE HeaderLeft
        <5>1. e = op.entry /\ op.at = op.entry
          BY <1>1, <1>2, <2>2, <3>1, <4>1, BlowingIs
        <5> HIDE DEF e
        <5> QED  BY <3>2, <5>1
      <4>2. CASE ~HeaderLeft
        BY <1>2, <2>2, <3>1, <4>2, BlowingIs
      <4> QED  BY <4>1, <4>2
    <3> HIDE DEF e
    <3>4. ErasedFrom(card, e)
      BY <3>1, <3>2, <3>3, Numbers DEF ErasedFrom
    <3> QED  BY <3>4 DEF e
  <2> QED  BY <1>3, <2>1, <2>2
<1>5. Stored' = Stored /\ HasNull' = HasNull /\ Idle.pc = "idle"
  BY <1>1 DEF Stored, HasNull, Idle
<1> QED  BY <1>1, <1>2, <1>4, <1>5 DEF Arranged

\* A change of a byte below leaves what is erased above.
LEMMA ErasedStays ==
    ASSUME NEW m, NEW m2, NEW c \in Nat, NEW q \in Nat, ErasedFrom(m, q), c < q,
           \A k \in Nat : k # c => m2[k] = m[k]
    PROVE  ErasedFrom(m2, q)
<1> SUFFICES ASSUME NEW k \in q..(Cap - 1) PROVE m2[k] = FF
  BY DEF ErasedFrom
<1>1. k \in Nat /\ k # c
  BY Numbers
<1> QED  BY <1>1 DEF ErasedFrom

\* Marking the entry at ptr[i] as deleted, whatever becomes of the byte.
LEMMA DeleteKeeps ==
    ASSUME TypeInv, NEW ptr, Laid(card, ptr, Stored), HasNull => card[1] = 0,
           NEW i \in 1..Len(Stored), HasNull => ptr[i] # 0,
           ErasedFrom(card, ptr[Len(Stored) + 1]), BlowDeleted(ptr[i]), UNCHANGED intent
    PROVE  /\ HasNull' = HasNull /\ Stored' = Stored
           /\ Laid(card', ptr, Stored')
           /\ HasNull' => card'[1] = 0
           /\ ErasedFrom(card', ptr[Len(Stored') + 1])
<1> DEFINE p == ptr[i]
           c == p + 1
           e == ptr[Len(Stored) + 1]
<1>1. /\ p \in Nat /\ c \in 0..(Cap - 1) /\ e \in Nat /\ c < e /\ c # 0 /\ c \in Nat
      /\ InEntry(c, p, Stored[i])
  <2>1. p \in Nat /\ p + 1 < Cap /\ Stored[i] \in Files /\ e \in Nat
    BY EntryFits, EndIs
  <2>2. InEntry(c, p, Stored[i])
    BY <2>1, FirstInEntry
  <2>3. c < e
    BY <2>1, <2>2, OneEntry
  <2> HIDE DEF p, e
  <2> QED  BY <2>1, <2>2, <2>3, Numbers
<1>2. card \in Memory
  BY DEF TypeInv, TypeOK, Memory
<1>3. CASE UNCHANGED card
  <2>1. Stored' = Stored /\ HasNull' = HasNull
    BY <1>3 DEF Stored, HasNull
  <2> QED  BY <1>3, <2>1
<1>4. ASSUME NEW b \in Byte, card' = [card EXCEPT ![c] = b]
      PROVE  /\ HasNull' = HasNull /\ Stored' = Stored
             /\ Laid(card', ptr, Stored')
             /\ HasNull' => card'[1] = 0
             /\ ErasedFrom(card', ptr[Len(Stored') + 1])
  <2>1. MayBlow(c, ptr, Stored)
    BY DEF MayBlow
  <2>2. HasNull => c # 1
    <3> HIDE DEF e
    <3> QED  BY <1>1
  <2> HIDE DEF c, p, e
  <2>3. (HasNull' <=> HasNull) /\ Laid(card', ptr, Stored) /\ (HasNull' => card'[1] = 0)
    BY ONLY TypeInv, Laid(card, ptr, Stored), HasNull => card[1] = 0, <1>1, <1>4, <2>1, <2>2, BlowKeeps
  <2>4. HasNull' = HasNull /\ Stored' = Stored
    <3>1. HasNull' \in BOOLEAN /\ HasNull \in BOOLEAN
      BY DEF HasNull
    <3>2. HasNull' = HasNull
      BY <2>3, <3>1
    <3> QED  BY <3>2 DEF Stored
  <2>5. ErasedFrom(card', e)
    <3> DEFINE m == [card EXCEPT ![c] = b]
    <3>1. \A k \in Nat : k # c => m[k] = card[k]
      BY ONLY <1>1, <1>2, <1>4, OneByte
    <3>2. card' = m /\ ErasedFrom(card, e)
      BY <1>4 DEF e
    <3> HIDE DEF m
    <3>3. ErasedFrom(m, e)
      BY ONLY <1>1, <3>1, <3>2, ErasedStays
    <3> QED  BY <3>2, <3>3
  <2> QED  BY <2>3, <2>4, <2>5 DEF e
<1>5. card[c] \in Byte
  BY <1>1, <1>2 DEF Memory
<1>6. UNCHANGED card \/ \E b \in Byte : card' = [card EXCEPT ![c] = b]
  <2>1. CASE UNCHANGED <<card, faults>>
    BY <2>1
  <2>2. CASE card' = [card EXCEPT ![p + 1] = Blown(card[p + 1], 0)]
    <3>1. Blown(card[c], 0) \in Byte
      BY <1>5, BlownTyped, Numbers
    <3> QED  BY <2>2, <3>1
  <2>3. CASE \E r \in Misblown(card[p + 1], 0) : card' = [card EXCEPT ![p + 1] = r]
    BY <2>3 DEF Misblown
  <2> QED  BY <2>1, <2>2, <2>3 DEF BlowDeleted
<1> QED  BY <1>3, <1>4, <1>6

LEMMA MarkArranges ==
    ASSUME TypeInv, NEW ptr, Arranged(ptr), MarkDeleted
    PROVE  Arranged(ptr)'
<1> DEFINE n == Len(Stored)
<1>1. /\ op.pc = "mark" /\ BlowDeleted(op.entry) /\ op' = Idle /\ UNCHANGED intent /\ op.pc # "idle"
  BY DEF MarkDeleted
<1>2. /\ Laid(card, ptr, Stored) /\ (HasNull => card[1] = 0)
      /\ AtLast(ptr) /\ ErasedFrom(card, ptr[n + 1])
  BY <1>1 DEF Arranged
<1>3. n \in 1..n /\ op.entry = ptr[n] /\ (HasNull => op.entry >= 6)
  BY <1>1, <1>2, LastAtHand
<1>4. HasNull => ptr[n] # 0
  <2> HIDE DEF n
  <2> QED  BY <1>3
<1>5. /\ HasNull' = HasNull /\ Stored' = Stored
      /\ Laid(card', ptr, Stored')
      /\ HasNull' => card'[1] = 0
      /\ ErasedFrom(card', ptr[Len(Stored') + 1])
  <2>1. BlowDeleted(ptr[n])
    BY <1>1, <1>3
  <2> QED  BY <1>1, <1>2, <1>3, <1>4, <2>1, DeleteKeeps
<1>6. Idle.pc = "idle"
  BY DEF Idle
<1> QED  BY <1>1, <1>5, <1>6 DEF Arranged

LEMMA DeleteArranges ==
    ASSUME TypeInv, NEW ptr, Arranged(ptr), NEW p \in Range(Entries(card)), FileDelete(p)
    PROVE  Arranged(ptr)'
<1>1. /\ op.pc = "idle" /\ ~Deleted(card, p) /\ BlowDeleted(p) /\ UNCHANGED <<op, intent>>
  BY DEF FileDelete
<1>2. /\ card \in Memory /\ Laid(card, ptr, Stored) /\ (HasNull => card[1] = 0)
      /\ op = Idle /\ ErasedFrom(card, ptr[Len(Stored) + 1])
  BY <1>1 DEF TypeInv, TypeOK, Memory, Arranged
<1>3. PICK i \in 1..Len(Stored) : p = ptr[i]
  <2>1. Range(Entries(card)) = {ptr[i] : i \in 1..Len(Stored)}
    BY <1>2, Scanned DEF Holds
  <2> QED  BY <2>1
<1>4. HasNull => ptr[i] # 0
  <2>1. EntryReads(card, ptr[i], Stored[i])
    BY <1>2, LaidReads
  <2>2. card[ptr[i] + 1] # 0
    BY <1>1, <1>3, <2>1 DEF EntryReads
  <2>3. ptr[i] = 0 => ptr[i] + 1 = 1
    OBVIOUS
  <2> QED  BY <1>2, <2>2, <2>3
<1>5. /\ HasNull' = HasNull /\ Stored' = Stored
      /\ Laid(card', ptr, Stored')
      /\ HasNull' => card'[1] = 0
      /\ ErasedFrom(card', ptr[Len(Stored') + 1])
  <2>1. BlowDeleted(ptr[i]) /\ UNCHANGED intent
    BY <1>1, <1>3
  <2> QED  BY <1>2, <1>4, <2>1, DeleteKeeps
<1>6. op' = Idle /\ op'.pc = "idle"
  BY <1>1, <1>2
<1>7. "idle" # "blow" /\ "idle" # "mark"
  OBVIOUS
<1> QED  BY <1>5, <1>6, <1>7 DEF Arranged

LEMMA ErrorArranges ==
    ASSUME ~HeaderFaults, TypeInv, NEW ptr, Arranged(ptr), BlowError
    PROVE  Arranged(ptr)' /\ ~HeaderLeft /\ \E r \in Byte : card' = [card EXCEPT ![op.at] = r]
<1> DEFINE n == Len(Stored)
           e == ptr[n + 1]
           c == op.at
<1>1. /\ op.pc = "blow" /\ op.todo # <<>> /\ op' = [op EXCEPT !.pc = "mark"] /\ UNCHANGED intent
      /\ op.pc # "idle"
  BY DEF BlowError
<1>2. /\ card \in Memory /\ Laid(card, ptr, Stored) /\ (HasNull => card[1] = 0) /\ Blowing(ptr)
      /\ op \in Ops
  BY <1>1 DEF TypeInv, TypeOK, Memory, Arranged
<1>3. c < Cap /\ c \in 0..(Cap - 1) /\ card[c] = FF /\ Head(op.todo) \in Byte /\ Len(op.todo) >= 1
  BY <1>1, <1>2, BlowingIs
<1>4. Blown(card[c], Head(op.todo)) = Head(op.todo)
  BY <1>3, BlownTyped
<1>5. MayFail /\ \E r \in Misblown(card[c], Head(op.todo)) : card' = [card EXCEPT ![c] = r]
  BY <1>3, <1>4 DEF BlowError
<1>6. ~HeaderLeft
  BY <1>5 DEF MayFail
<1>7. /\ c >= op.entry + Len(op.file[1]) + 5 /\ AtLast(ptr)
  BY <1>1, <1>2, <1>6, BlowingIs
<1>8. /\ n \in 1..n /\ Stored[n] = op.file /\ op.entry = ptr[n] /\ e = op.entry + SizeOf(op.file)
  BY <1>1, <1>2, <1>7, LastAtHand
<1>9. /\ op.entry <= c /\ c < op.entry + SizeOf(op.file) /\ c >= 5 /\ c \in Nat /\ e \in Nat
  <2> DEFINE l == Len(op.file[1])
             t == Len(op.todo)
             s == Len(op.file[2])
             z == SizeOf(op.file)
             p == op.entry
  <2>1. l \in Nat /\ t \in Nat /\ p \in Nat /\ c \in Nat /\ z = l + 5 + s /\ s \in Nat
    BY <1>1, AtHand
  <2>2. p <= c /\ c + t = p + z /\ t >= 1 /\ c >= p + l + 5
    BY <1>2, <1>3, <1>7 DEF Blowing
  <2>3. e \in Nat
    BY <1>2, EndIs
  <2> HIDE DEF l, s, t, z, p, c, e
  <2>4. z \in Nat
    BY <2>1
  <2>5. p <= c /\ c < p + z /\ c >= 5
    BY <2>1, <2>2, <2>4
  <2> QED  BY <2>1, <2>3, <2>5 DEF z, p, c
<1>10. MayBlow(c, ptr, Stored)
  <2>1. InEntry(c, ptr[n], Stored[n])
    BY <1>8, <1>9 DEF InEntry
  <2>2. c >= ptr[n] + Len(Stored[n][1]) + 5
    BY <1>7, <1>8
  <2> QED  BY <1>8, <2>1, <2>2 DEF MayBlow
<1>11. PICK r \in Byte : card' = [card EXCEPT ![c] = r]
  BY <1>5 DEF Misblown
<1>12. c # 0 /\ c # 1
  <2> HIDE DEF c
  <2> QED  BY <1>9
<1> HIDE DEF e, c
<1>13. (HasNull' <=> HasNull) /\ Laid(card', ptr, Stored) /\ (HasNull' => card'[1] = 0)
  BY ONLY TypeInv, <1>2, <1>3, <1>10, <1>11, <1>12, BlowKeeps
<1>14. HasNull' = HasNull /\ Stored' = Stored
  <2>1. HasNull' \in BOOLEAN /\ HasNull \in BOOLEAN
    BY DEF HasNull
  <2>2. HasNull' = HasNull
    BY <1>13, <2>1
  <2> QED  BY <1>1, <2>2 DEF Stored
<1>15. ErasedFrom(card', e)
  <2>1. ErasedFrom(card, c)
    BY <1>2 DEF Blowing, c
  <2>2. c < e
    BY <1>8, <1>9
  <2>3. ErasedFrom(card, e)
    BY <1>9, <2>1, <2>2, Numbers DEF ErasedFrom
  <2> DEFINE m == [card EXCEPT ![c] = r]
  <2>4. \A k \in Nat : k # c => m[k] = card[k]
    BY ONLY <1>2, <1>3, <1>11, OneByte
  <2> HIDE DEF m
  <2>5. ErasedFrom(m, e)
    BY ONLY <1>9, <2>2, <2>3, <2>4, ErasedStays
  <2> QED  BY <1>11, <2>5 DEF m
<1>16. op'.pc = "mark" /\ op'.entry = op.entry /\ op'.file = op.file
  BY <1>1, <1>2 DEF Ops
<1>17. AtLast(ptr)'
  BY <1>1, <1>7, <1>14, <1>16 DEF AtLast
<1>18. Arranged(ptr)'
  BY <1>13, <1>14, <1>15, <1>16, <1>17 DEF Arranged, e
<1> QED  BY <1>6, <1>11, <1>18 DEF c

\* The next byte is the one that belongs there.
LEMMA ByteBlown ==
    ASSUME TypeInv, NEW ptr, Arranged(ptr), BlowByte
    PROVE  /\ op'.pc = "blow" /\ op'.entry = op.entry /\ op'.file = op.file /\ op'.at = op.at + 1
           /\ op'.todo = Tail(op.todo) /\ Len(op'.todo) = Len(op.todo) - 1
           /\ op.at \in 0..(Cap - 1)
           /\ card' = [card EXCEPT ![op.at] = Head(op.todo)] /\ card' \in Memory
           /\ \A k \in op.entry..op.at : card'[k] = BytesOf(op.file)[k - op.entry + 1]
           /\ \A k \in 1..Len(op'.todo) : op'.todo[k] = BytesOf(op.file)[(op.at + 1) - op.entry + k]
           /\ ErasedFrom(card', op.at + 1)
           /\ Head(op.todo) \in Byte
           /\ op.at = 0 => Head(op.todo) # 1
<1> DEFINE t == Len(op.todo)
           e == op.entry
           a == op.at
           b == Head(op.todo)
           w == BytesOf(op.file)
<1>1. /\ op.pc = "blow" /\ op.todo # <<>> /\ op.pc # "idle"
      /\ card' = [card EXCEPT ![a] = b]
      /\ op' = [op EXCEPT !.at = a + 1, !.todo = Tail(op.todo)]
  BY DEF BlowByte
<1>2. /\ card \in Memory /\ Laid(card, ptr, Stored) /\ Blowing(ptr) /\ op \in Ops
  BY <1>1 DEF TypeInv, TypeOK, Memory, Arranged
<1>3. a \in 0..(Cap - 1) /\ b \in Byte /\ b = w[a - e + 1] /\ t >= 1
  BY <1>1, <1>2, BlowingIs
<1>4. e \in Nat /\ a \in Nat /\ t \in Nat /\ op.todo \in Seq(Byte) /\ e <= a
  BY <1>1, <1>2, AtHand DEF Blowing
<1>5. /\ \A k \in e..(a - 1) : card[k] = w[k - e + 1]
      /\ \A k \in 1..t : op.todo[k] = w[a - e + k]
      /\ ErasedFrom(card, a)
  BY <1>2 DEF Blowing
<1>6. /\ op'.pc = "blow" /\ op'.entry = e /\ op'.file = op.file /\ op'.at = a + 1 /\ op'.todo = Tail(op.todo)
  BY <1>1, <1>2 DEF Ops
<1>7. /\ Len(Tail(op.todo)) = t - 1 /\ \A k \in 1..(t - 1) : Tail(op.todo)[k] = op.todo[k + 1]
  BY <1>1, <1>4
<1>8. op.at = 0 => b # 1
  <2> SUFFICES ASSUME a = 0 PROVE b # 1
    OBVIOUS
  <2>1. e = 0
    BY <1>4
  <2>2. a - e + 1 = 1
    BY <2>1
  <2>3. b = w[1]
    BY <1>3, <2>2
  <2>4. op.file \in Files /\ Len(op.file[1]) \in Nat /\ Len(op.file[1]) >= 2
    BY <1>1, AtHand
  <2>5. w[1] = HeaderOf(op.file)[1] /\ HeaderOf(op.file)[1] = Len(op.file[1])
    <3>1. 1 \in 1..(Len(op.file[1]) + 5)
      BY <2>4
    <3> QED  BY <2>4, <3>1, BytesTyped, HeaderIs
  <2> QED  BY <2>3, <2>4, <2>5
<1> HIDE DEF t, e, a, b, w
<1> DEFINE m == [card EXCEPT ![a] = b]
<1>9. m \in Memory /\ m[a] = b /\ \A k \in Nat : k # a => m[k] = card[k]
  BY ONLY <1>2, <1>3, OneByte
<1>10. card' = m
  BY <1>1
<1> HIDE DEF m
<1>11. ASSUME NEW k \in e..a PROVE card'[k] = w[k - e + 1]
  <2>1. CASE k = a
    BY <1>3, <1>9, <1>10, <2>1
  <2>2. CASE k # a
    <3>1. k \in e..(a - 1) /\ k \in Nat
      BY <1>4, <2>2
    <3> QED  BY <1>5, <1>9, <1>10, <2>2, <3>1
  <2> QED  BY <2>1, <2>2
<1>12. ASSUME NEW k \in 1..(t - 1) PROVE Tail(op.todo)[k] = w[(a + 1) - e + k]
  <2>1. k + 1 \in 1..t /\ a - e + (k + 1) = (a + 1) - e + k
    BY <1>4
  <2>2. op.todo[k + 1] = w[a - e + (k + 1)]
    BY <1>5, <2>1
  <2> QED  BY <1>7, <2>1, <2>2
<1>13. ErasedFrom(card', a + 1)
  <2> SUFFICES ASSUME NEW k \in (a + 1)..(Cap - 1) PROVE m[k] = FF
    BY <1>10 DEF ErasedFrom
  <2>1. k \in a..(Cap - 1) /\ k \in Nat /\ k # a
    BY <1>4, Numbers
  <2> QED  BY <1>5, <1>9, <2>1 DEF ErasedFrom
<1>14. Len(op'.todo) = t - 1 /\ \A k \in 1..Len(op'.todo) : op'.todo[k] = w[(a + 1) - e + k]
  BY <1>6, <1>7, <1>12
<1> QED  BY <1>1, <1>3, <1>6, <1>8, <1>9, <1>10, <1>11, <1>13, <1>14 DEF t, e, a, b, w

LEMMA OneMore ==
    ASSUME NEW S, NEW s \in Seq(S), NEW x \in S, NEW t, t = Append(s, x)
    PROVE  /\ t \in Seq(S) /\ Len(t) = Len(s) + 1 /\ Len(s) \in Nat /\ t[Len(s) + 1] = x
           /\ \A i \in 1..Len(s) : t[i] = s[i]
  OBVIOUS

\* A complete header adds an entry.
Grown(m, ptr, fs, f, ptr2, fs2) ==
    /\ Laid(m, ptr, fs) /\ f \in Files
    /\ HeaderAt(m, ptr[Len(fs) + 1], f) /\ ptr[Len(fs) + 1] + SizeOf(f) <= Cap
    /\ ptr2 = Append(ptr, ptr[Len(fs) + 1] + SizeOf(f)) /\ fs2 = Append(fs, f)

LEMMA LaidOneMore ==
    ASSUME NEW m, NEW ptr, NEW fs, NEW f, NEW ptr2, NEW fs2, Grown(m, ptr, fs, f, ptr2, fs2)
    PROVE  /\ Laid(m, ptr2, fs2) /\ Len(fs2) = Len(fs) + 1
           /\ ptr2[Len(fs2)] = ptr[Len(fs) + 1] /\ ptr2[Len(fs2) + 1] = ptr[Len(fs) + 1] + SizeOf(f)
           /\ \A i \in 1..(Len(fs) + 1) : ptr2[i] = ptr[i]
           /\ \A i \in 1..Len(fs) : fs2[i] = fs[i]
<1> DEFINE n == Len(fs)
           e == ptr[n + 1]
           z == SizeOf(f)
<1>0. /\ Laid(m, ptr, fs) /\ f \in Files /\ HeaderAt(m, e, f) /\ e + z <= Cap
      /\ ptr2 = Append(ptr, e + z) /\ fs2 = Append(fs, f)
  BY DEF Grown
<1>1. /\ fs \in Seq(Files) /\ ptr \in Seq(0..Cap) /\ Len(ptr) = n + 1 /\ ptr[1] = 0
      /\ \A i \in 1..n : HeaderAt(m, ptr[i], fs[i]) /\ ptr[i + 1] = ptr[i] + SizeOf(fs[i])
  BY <1>0 DEF Laid
<1>2. e \in Nat /\ n \in Nat /\ z \in Nat /\ e + z <= Cap /\ HeaderAt(m, e, f) /\ Cap \in Nat
  BY <1>0, EndIs, FileFacts, Numbers
<1>3. ptr2 = Append(ptr, e + z)
  BY <1>0
<1>4. /\ fs2 \in Seq(Files) /\ Len(fs2) = n + 1 /\ fs2[n + 1] = f /\ \A i \in 1..n : fs2[i] = fs[i]
  BY ONLY <1>0, <1>1, OneMore DEF n
<1> HIDE DEF n, e, z
<1>5. e + z \in 0..Cap
  BY <1>2
<1>6. /\ ptr2 \in Seq(0..Cap) /\ Len(ptr2) = Len(ptr) + 1 /\ ptr2[Len(ptr) + 1] = e + z
      /\ \A i \in 1..Len(ptr) : ptr2[i] = ptr[i]
  BY ONLY <1>1, <1>3, <1>5, OneMore
<1>7. /\ Len(ptr2) = (n + 1) + 1 /\ ptr2[(n + 1) + 1] = e + z
      /\ \A i \in 1..(n + 1) : ptr2[i] = ptr[i]
  BY <1>1, <1>6
<1>8. /\ 1 \in 1..(n + 1) /\ n + 1 \in 1..(n + 1) /\ ptr[n + 1] = e
  BY <1>2 DEF e
<1>9. ASSUME NEW i \in 1..(n + 1) PROVE HeaderAt(m, ptr2[i], fs2[i]) /\ ptr2[i + 1] = ptr2[i] + SizeOf(fs2[i])
  <2>1. CASE i = n + 1
    BY <1>2, <1>4, <1>7, <1>8, <2>1 DEF z
  <2>2. CASE i # n + 1
    <3>1. i \in 1..n /\ i + 1 \in 1..(n + 1)
      BY <1>2, <2>2
    <3> QED  BY <1>1, <1>4, <1>7, <3>1
  <2> QED  BY <2>1, <2>2
<1>10. ptr2[1] = 0
  BY <1>1, <1>7, <1>8
<1>11. Laid(m, ptr2, fs2)
  BY <1>4, <1>6, <1>7, <1>9, <1>10 DEF Laid
<1>12. ptr2[Len(fs2)] = e /\ ptr2[Len(fs2) + 1] = e + z
  BY <1>4, <1>7, <1>8
<1> QED  BY <1>4, <1>7, <1>11, <1>12 DEF n, e, z

\* The last byte of a header.
Completes == Len(op.todo) = Len(op.file[2]) + 1

LEMMA ByteIntent ==
    ASSUME TypeInv, NEW ptr, Arranged(ptr), BlowByte
    PROVE  /\ Completes => HeaderLeft /\ ~HeaderLeft' /\ intent' = Append(intent, op.file)
           /\ ~Completes => (HeaderLeft' <=> HeaderLeft) /\ UNCHANGED intent
<1>1. op.pc # "idle" /\ intent' = IF Completes THEN Append(intent, op.file) ELSE intent
  BY DEF BlowByte, Completes
<1>2. op'.file = op.file /\ Len(op'.todo) = Len(op.todo) - 1
  BY ByteBlown
<1> DEFINE t == Len(op.todo)
           s == Len(op.file[2])
           t1 == Len(op'.todo)
<1>3. t \in Nat /\ s \in Nat /\ t1 = t - 1
  BY <1>1, <1>2, AtHand
<1>4. (HeaderLeft <=> t > s) /\ (HeaderLeft' <=> t1 > s) /\ (Completes <=> t = s + 1)
  BY <1>2 DEF HeaderLeft, Completes
<1> HIDE DEF t, s, t1
<1> QED  BY <1>1, <1>3, <1>4

\* The byte that is blown, when the header is not complete, and when it is.
LEMMA ByteKeeps ==
    ASSUME TypeInv, NEW ptr, Arranged(ptr), BlowByte
    PROVE  /\ HasNull' = HasNull
           /\ Laid(card', ptr, Stored)
           /\ HasNull' => card'[1] = 0
           /\ HeaderLeft => op.at >= ptr[Len(Stored) + 1]
           /\ ~HeaderLeft => /\ InEntry(op.at, ptr[Len(Stored)], Stored[Len(Stored)])
                             /\ op.at >= ptr[Len(Stored)] + Len(op.file[1]) + 5
                             /\ op.at < ptr[Len(Stored) + 1]
<1> DEFINE n == Len(Stored)
           e == ptr[n + 1]
           c == op.at
           b == Head(op.todo)
<1>1. /\ op.pc = "blow" /\ op.todo # <<>> /\ op.pc # "idle"
  BY DEF BlowByte
<1>2. /\ Laid(card, ptr, Stored) /\ (HasNull => card[1] = 0) /\ Blowing(ptr)
  BY <1>1 DEF Arranged
<1>3. c \in 0..(Cap - 1) /\ b \in Byte /\ card' = [card EXCEPT ![c] = b] /\ (c = 0 => b # 1)
  BY ByteBlown
<1>4. c \in Nat /\ op.entry \in Nat /\ op.entry <= c
  BY <1>1, <1>2, AtHand DEF Blowing
<1>5. HasNull => c # 1
  <2>1. HasNull => op.entry >= 6
    BY <1>1, <1>2, BlowingIs
  <2> HIDE DEF c
  <2> QED  BY <1>4, <2>1
<1>6. ASSUME HeaderLeft PROVE c >= e /\ MayBlow(c, ptr, Stored)
  <2>1. e = op.entry
    BY <1>1, <1>2, <1>6, BlowingIs
  <2> HIDE DEF c, e
  <2>2. c >= e
    BY <1>4, <2>1
  <2> QED  BY <2>2 DEF MayBlow, e
<1>7. ASSUME ~HeaderLeft
      PROVE  /\ InEntry(c, ptr[n], Stored[n]) /\ c >= ptr[n] + Len(op.file[1]) + 5 /\ c < e
             /\ MayBlow(c, ptr, Stored)
  <2>1. AtLast(ptr) /\ c >= op.entry + Len(op.file[1]) + 5
    BY <1>1, <1>2, <1>7, BlowingIs
  <2>2. n \in 1..n /\ Stored[n] = op.file /\ op.entry = ptr[n]
    BY <1>1, <1>2, <2>1, LastAtHand
  <2> DEFINE t == Len(op.todo)
             z == SizeOf(op.file)
             p == op.entry
  <2>3. t \in Nat /\ t >= 1 /\ c + t = p + z /\ z = Len(op.file[1]) + 5 + Len(op.file[2])
        /\ Len(op.file[1]) \in Nat /\ Len(op.file[2]) \in Nat
    BY <1>1, <1>2, AtHand, BlowingIs DEF Blowing
  <2>4. z \in Nat
    <3> DEFINE l == Len(op.file[1])
               s == Len(op.file[2])
    <3>1. z = l + 5 + s /\ l \in Nat /\ s \in Nat
      BY <2>3
    <3> HIDE DEF z, l, s
    <3> QED  BY <3>1
  <2>5. c < p + z /\ p <= c
    <3>1. p \in Nat /\ c \in Nat /\ p <= c
      BY <1>4 DEF p, c
    <3>2. t \in Nat /\ t >= 1 /\ c + t = p + z
      BY <2>3
    <3> HIDE DEF t, z, p, c
    <3> QED  BY ONLY <2>4, <3>1, <3>2
  <2>6. InEntry(c, ptr[n], Stored[n])
    BY <2>2, <2>5 DEF InEntry
  <2>7. c < e
    BY <1>2, <1>4, <2>2, <2>6, OneEntry
  <2>8. c >= ptr[n] + Len(Stored[n][1]) + 5
    BY <2>1, <2>2
  <2> QED  BY <2>1, <2>2, <2>6, <2>7, <2>8 DEF MayBlow
<1>8. MayBlow(c, ptr, Stored)
  BY <1>6, <1>7
<1>9. (HasNull' <=> HasNull) /\ Laid(card', ptr, Stored) /\ (HasNull' => card'[1] = 0)
  <2> HIDE DEF c, b
  <2> QED  BY ONLY TypeInv, <1>2, <1>3, <1>5, <1>8, BlowKeeps
<1>10. HasNull' = HasNull
  <2>1. HasNull' \in BOOLEAN /\ HasNull \in BOOLEAN
    BY DEF HasNull
  <2> QED  BY <1>9, <2>1
<1> QED  BY <1>6, <1>7, <1>9, <1>10

LEMMA ByteArranges ==
    ASSUME TypeInv, NEW ptr, Arranged(ptr), BlowByte
    PROVE  \/ ~Completes /\ Arranged(ptr)' /\ Stored' = Stored
           \/ /\ Completes /\ Stored' = Append(Stored, op.file)
              /\ \E q : q = Append(ptr, ptr[Len(Stored) + 1] + SizeOf(op.file)) /\ Arranged(q)'
<1> DEFINE e == op.entry
           a == op.at
           f == op.file
           z == SizeOf(f)
           t == Len(op.todo)
           w == BytesOf(f)
<1>1. /\ op.pc = "blow" /\ op.todo # <<>> /\ op.pc # "idle"
  BY DEF BlowByte
<1>2. Laid(card, ptr, Stored) /\ Blowing(ptr)
  BY <1>1 DEF Arranged
<1>3. /\ op'.pc = "blow" /\ op'.entry = e /\ op'.file = f /\ op'.at = a + 1
      /\ Len(op'.todo) = t - 1
      /\ \A k \in e..a : card'[k] = w[k - e + 1]
      /\ \A k \in 1..Len(op'.todo) : op'.todo[k] = w[(a + 1) - e + k]
      /\ ErasedFrom(card', a + 1)
  BY ByteBlown
<1>4. HasNull' = HasNull /\ Laid(card', ptr, Stored) /\ (HasNull' => card'[1] = 0)
  BY ByteKeeps
<1>5. e \in Nat /\ a \in Nat /\ t \in Nat /\ z \in Nat /\ e <= a /\ a + t = e + z /\ e + z <= Cap
  <2>1. e \in Nat /\ a \in Nat /\ t \in Nat /\ f \in Files
    BY <1>1, AtHand
  <2>2. z \in Nat
    BY <2>1, FileFacts
  <2> QED  BY <1>2, <2>1, <2>2 DEF Blowing
<1>6. /\ op'.entry <= op'.at /\ op'.at + Len(op'.todo) = op'.entry + SizeOf(op'.file)
      /\ op'.entry + SizeOf(op'.file) <= Cap
      /\ \A k \in op'.entry..(op'.at - 1) : card'[k] = BytesOf(op'.file)[k - op'.entry + 1]
      /\ \A k \in 1..Len(op'.todo) : op'.todo[k] = BytesOf(op'.file)[op'.at - op'.entry + k]
      /\ ErasedFrom(card', op'.at)
  <2>1. op'.entry <= op'.at /\ op'.at + Len(op'.todo) = op'.entry + z /\ op'.at - 1 = a
    <3> DEFINE e1 == op'.entry
               a1 == op'.at
               t1 == Len(op'.todo)
    <3>1. e1 = e /\ a1 = a + 1 /\ t1 = t - 1
      BY <1>3
    <3> HIDE DEF e, a, z, t, e1, a1, t1
    <3>2. e1 <= a1 /\ a1 + t1 = e1 + z /\ a1 - 1 = a
      BY <1>5, <3>1
    <3> QED  BY <3>2 DEF e1, a1, t1
  <2> HIDE DEF e, a, z, t
  <2>2. SizeOf(op'.file) = z /\ BytesOf(op'.file) = w
    BY <1>3 DEF z
  <2> HIDE DEF w
  <2> QED  BY <1>3, <1>5, <2>1, <2>2
<1>7. CASE ~Completes
  <2>1. (HeaderLeft' <=> HeaderLeft) /\ UNCHANGED intent
    BY <1>7, ByteIntent
  <2>2. Stored' = Stored
    BY <1>4, <2>1 DEF Stored
  <2>3. IF HeaderLeft' THEN op'.entry = ptr[Len(Stored') + 1] ELSE AtLast(ptr)'
    <3>1. IF HeaderLeft THEN op.entry = ptr[Len(Stored) + 1] ELSE AtLast(ptr)
      BY <1>2 DEF Blowing
    <3> QED  BY <1>3, <2>1, <2>2, <3>1 DEF AtLast
  <2>4. Blowing(ptr)'
    BY <1>6, <2>3 DEF Blowing
  <2> QED  BY <1>3, <1>4, <1>7, <2>2, <2>4 DEF Arranged
<1>8. CASE Completes
  <2>a. PICK ptr2 : ptr2 = Append(ptr, ptr[Len(Stored) + 1] + SizeOf(op.file))
    OBVIOUS
  <2>b. PICK fs2 : fs2 = Append(Stored, f)
    OBVIOUS
  <2> DEFINE l == Len(f[1])
             s == Len(f[2])
  <2>1. HeaderLeft /\ ~HeaderLeft' /\ intent' = Append(intent, f)
    BY <1>8, ByteIntent
  <2>2. ptr[Len(Stored) + 1] = e
    BY <1>2, <2>1 DEF Blowing
  <2>3. f \in Files /\ l \in Nat /\ s \in Nat /\ z = l + 5 + s /\ t = s + 1
    BY <1>1, <1>8, AtHand DEF Completes
  <2>4. a = e + l + 4
    <3> HIDE DEF e, a, z, t, l, s
    <3> QED  BY <1>5, <2>3
  <2>5. HeaderAt(card', e, f)
    <3>1. ASSUME NEW k \in 1..(l + 5) PROVE card'[e + k - 1] = HeaderOf(f)[k]
      <4>1. w[k] = HeaderOf(f)[k]
        BY <2>3, BytesTyped
      <4> HIDE DEF e, a, l, w
      <4>2. e + k - 1 \in e..a /\ (e + k - 1) - e + 1 = k
        BY <1>5, <2>3, <2>4
      <4>3. card'[e + k - 1] = w[(e + k - 1) - e + 1]
        BY <1>3, <4>2
      <4> QED  BY <4>1, <4>2, <4>3
    <3> QED  BY <1>5, <2>3, <3>1, HeaderWritten
  <2>6. /\ Laid(card', ptr2, fs2) /\ Len(fs2) = Len(Stored) + 1
        /\ ptr2[Len(fs2)] = ptr[Len(Stored) + 1]
    <3>1. ptr2 = Append(ptr, ptr[Len(Stored) + 1] + SizeOf(f)) /\ fs2 = Append(Stored, f)
      BY <2>a, <2>b
    <3>2. HeaderAt(card', ptr[Len(Stored) + 1], f) /\ ptr[Len(Stored) + 1] + SizeOf(f) <= Cap
      BY <1>5, <2>2, <2>5
    <3>3. f \in Files /\ Laid(card', ptr, Stored)
      BY <1>4, <2>3
    <3>4. PICK g : g = Stored
      OBVIOUS
    <3>5. PICK m1 : m1 = card'
      OBVIOUS
    <3>6. PICK x : x = f
      OBVIOUS
    <3>7. Grown(m1, ptr, g, x, ptr2, fs2)
      BY <3>1, <3>2, <3>3, <3>4, <3>5, <3>6 DEF Grown
    <3>8. /\ Laid(m1, ptr2, fs2) /\ Len(fs2) = Len(g) + 1
          /\ ptr2[Len(fs2)] = ptr[Len(g) + 1]
      BY ONLY <3>7, LaidOneMore
    <3> QED  BY <3>4, <3>5, <3>8
  <2>7. Stored' = fs2
    <3>1. CASE HasNull
      <4>1. Stored' = <<NullEntry>> \o Append(intent, f) /\ Stored = <<NullEntry>> \o intent
        BY <1>4, <2>1, <3>1 DEF Stored
      <4>2. intent \in Seq(Files) /\ <<NullEntry>> \in Seq(Files) /\ f \in Files
        BY <2>3, StoredIs DEF Files
      <4> HIDE DEF f
      <4>3. <<NullEntry>> \o Append(intent, f) = Append(<<NullEntry>> \o intent, f)
        BY <4>2
      <4> QED  BY <2>b, <4>1, <4>3 DEF f
    <3>2. CASE ~HasNull
      BY <1>4, <2>1, <2>b, <3>2 DEF Stored
    <3> QED  BY <3>1, <3>2
  <2>8. AtLast(ptr2)'
    <3>1. intent' # <<>> /\ op'.file = intent'[Len(intent')]
      <4>1. intent \in Seq(Files)
        BY StoredIs
      <4> DEFINE g == intent'
      <4>2. g = Append(intent, f)
        BY <2>1
      <4> HIDE DEF g, f
      <4>3. g \in Seq(Files) /\ Len(g) = Len(intent) + 1 /\ Len(intent) \in Nat /\ g[Len(intent) + 1] = f
        BY ONLY <2>3, <4>1, <4>2, OneMore
      <4>4. g # <<>> /\ g[Len(g)] = f
        BY <4>3
      <4> QED  BY <1>3, <4>4 DEF g, f
    <3>2. op'.entry = ptr2[Len(fs2)]
      BY <1>3, <2>2, <2>6
    <3> QED  BY <2>7, <3>1, <3>2 DEF AtLast
  <2>9. Blowing(ptr2)'
    BY <1>6, <2>1, <2>8 DEF Blowing
  <2>10. Arranged(ptr2)'
    BY <1>3, <1>4, <2>6, <2>7, <2>9 DEF Arranged
  <2> QED  BY <1>8, <2>7, <2>10, <2>a, <2>b
<1> QED  BY <1>7, <1>8

----------------------------------------------------------------------------
(* The invariant, and what it gives *)

AreaInv == TypeInv /\ Layout

\* A fresh area holds nothing, or the NULL file.
LEMMA LayoutInit == Init => AreaInv
<1> SUFFICES ASSUME Init PROVE AreaInv
  OBVIOUS
<1>1. TypeInv
  BY TypeInit
<1>2. PICK null \in BOOLEAN : card = FreshCard(null)
  BY DEF Init
<1>3. op = Idle /\ op.pc = "idle" /\ intent = <<>>
  BY DEF Init, Idle
<1>4. Cap \in Nat /\ Cap >= 6 /\ FF \in Nat /\ FF > 1
  BY Numbers, AreaAssumption
<1>5. CASE null
  <2> DEFINE ptr == <<0, 6>>
             fs == <<NullEntry>>
  <2>1. \A p \in 0..(Cap - 1) : card[p] = IF p < Len(NullFile) THEN NullFile[p + 1] ELSE FF
    BY <1>2, <1>5 DEF FreshCard
  <2>2. /\ card[0] = 1 /\ card[1] = 0 /\ card[2] = 0 /\ card[3] = 0 /\ card[4] = 0
        /\ \A p \in 6..(Cap - 1) : card[p] = FF
    <3>1. /\ Len(NullFile) = 6 /\ NullFile[1] = 1 /\ NullFile[2] = 0 /\ NullFile[3] = 0
          /\ NullFile[4] = 0 /\ NullFile[5] = 0
      BY DEF NullFile
    <3> QED  BY <1>4, <2>1, <3>1
  <2>3. HasNull
    BY <1>4, <2>2 DEF HasNull, NameLength, ReadByte
  <2>4. Stored = fs
    BY <1>3, <2>3 DEF Stored
  <2>5. NullEntry \in Files /\ NullEntry[1] = <<0>> /\ NullEntry[2] = <<>> /\ Len(<<0>>) = 1 /\ Len(<<>>) = 0
    BY DEF Files, NullEntry
  <2>6. SizeOf(NullEntry) = 6
    BY <2>5 DEF SizeOf, EntrySize
  <2>7. HeaderAt(card, 0, NullEntry)
    <3>1. /\ SizeField(0)[1] = 0 /\ SizeField(0)[2] = 0 /\ SizeField(0)[3] = 0
      <4>1. 0 % Digit = 0 /\ 0 \div Digit = 0 /\ 0 \div (Digit * Digit) = 0
        <5>1. Digit \in Nat \ {0} /\ Digit * Digit \in Nat \ {0}
          BY Spans
        <5>2. \A b \in Nat \ {0} : 0 % b = 0 /\ 0 \div b = 0
          BY Smaller
        <5> QED  BY <5>1, <5>2
      <4> QED  BY <4>1, SizeFieldIs
    <3>2. \A k \in 1..3 : card[0 + 1 + k] = SizeField(0)[k]
      BY <2>2, <3>1
    <3>3. \A k \in 2..1 : FALSE
      OBVIOUS
    <3> QED  BY <2>2, <2>5, <3>2, <3>3 DEF HeaderAt
  <2>8. ptr \in Seq(0..Cap) /\ Len(ptr) = 2 /\ ptr[1] = 0 /\ ptr[2] = 6
    BY <1>4
  <2>9. fs \in Seq(Files) /\ Len(fs) = 1 /\ fs[1] = NullEntry
    BY <2>5
  <2> HIDE DEF ptr, fs
  <2>10. Laid(card, ptr, fs)
    BY <2>6, <2>7, <2>8, <2>9 DEF Laid
  <2>11. ErasedFrom(card, ptr[Len(fs) + 1])
    BY <2>2, <2>8, <2>9 DEF ErasedFrom
  <2>12. Arranged(ptr)
    BY <1>3, <2>2, <2>4, <2>10, <2>11 DEF Arranged
  <2> QED  BY <1>1, <2>12 DEF AreaInv, Layout
<1>6. CASE ~null
  <2> DEFINE ptr == <<0>>
             fs == <<>>
  <2>1. \A p \in 0..(Cap - 1) : card[p] = FF
    BY <1>2, <1>6 DEF FreshCard
  <2>2. ~HasNull
    BY <1>4, <2>1 DEF HasNull, NameLength, ReadByte
  <2>3. Stored = fs
    BY <1>3, <2>2 DEF Stored
  <2>4. ptr \in Seq(0..Cap) /\ Len(ptr) = 1 /\ ptr[1] = 0 /\ fs \in Seq(Files) /\ Len(fs) = 0
    BY <1>4
  <2> HIDE DEF ptr, fs
  <2>5. Laid(card, ptr, fs)
    BY <2>4 DEF Laid
  <2>6. ErasedFrom(card, ptr[Len(fs) + 1])
    BY <2>1, <2>4 DEF ErasedFrom
  <2>7. Arranged(ptr)
    BY <1>3, <2>2, <2>3, <2>5, <2>6 DEF Arranged
  <2> QED  BY <1>1, <2>7 DEF AreaInv, Layout
<1> QED  BY <1>5, <1>6

\* What is blown, what goes wrong and what is deleted leaves the area laid out.
LEMMA LayoutStep ==
    ASSUME ~HeaderFaults, AreaInv, [Next]_vars PROVE AreaInv'
<1>1. TypeInv /\ TypeInv'
  BY TypeStep DEF AreaInv
<1>2. PICK ptr : Arranged(ptr)
  BY DEF AreaInv, Layout
<1> SUFFICES \E q : Arranged(q)'
  BY <1>1 DEF AreaInv, Layout
<1>3. ASSUME NEW n \in Names, NEW d \in Contents, SaveRamFile(n, d) PROVE Arranged(ptr)'
  BY <1>1, <1>2, <1>3, SaveArranges
<1>4. ASSUME BlowByte PROVE \E q : Arranged(q)'
  BY <1>1, <1>2, <1>4, ByteArranges
<1>5. ASSUME BlowError PROVE Arranged(ptr)'
  BY <1>1, <1>2, <1>5, ErrorArranges
<1>6. ASSUME SaveDone PROVE Arranged(ptr)'
  BY <1>1, <1>2, <1>6, DoneArranges
<1>7. ASSUME MarkDeleted PROVE Arranged(ptr)'
  BY <1>1, <1>2, <1>7, MarkArranges
<1>8. ASSUME NEW p \in Range(Entries(card)), FileDelete(p) PROVE Arranged(ptr)'
  BY <1>1, <1>2, <1>8, DeleteArranges
<1>9. ASSUME Reset PROVE Arranged(ptr)'
  BY <1>1, <1>2, <1>9, ResetArranges
<1>10. ASSUME UNCHANGED vars PROVE Arranged(ptr)'
  <2>1. card' = card /\ op' = op /\ intent' = intent
    BY <1>10 DEF vars
  <2>2. HasNull' = HasNull
    BY <2>1 DEF HasNull
  <2>3. Stored' = Stored
    BY <2>1, <2>2 DEF Stored
  <2>4. Blowing(ptr)' <=> Blowing(ptr)
    BY <2>1, <2>3 DEF Blowing, HeaderLeft, AtLast
  <2> QED  BY <1>2, <2>1, <2>2, <2>3, <2>4 DEF Arranged, AtLast
<1> QED  BY <1>3, <1>4, <1>5, <1>6, <1>7, <1>8, <1>9, <1>10 DEF Next

\* Between operations the area holds what was saved and is erased above it.
LEMMA IdleHolds ==
    ASSUME AreaInv, op.pc = "idle"
    PROVE  card \in Memory /\ \E ptr : Arranged(ptr) /\ Holds(card, ptr, Stored)
<1>1. PICK ptr : Arranged(ptr)
  BY DEF AreaInv, Layout
<1>2. Holds(card, ptr, Stored)
  BY <1>1 DEF Arranged, Holds
<1> QED  BY <1>1, <1>2 DEF AreaInv, TypeInv, TypeOK, Memory

\* In every area whose headers are written undisturbed, the entries lie one behind the
\* other from the bottom, as they were saved, and what is above them is erased.
THEOREM AreaIsLaidOut ==
    ASSUME ~HeaderFaults PROVE Spec => []AreaInv
<1>1. AreaInv /\ [Next]_vars => AreaInv'
  BY LayoutStep
<1> QED  BY <1>1, LayoutInit, PTL DEF Spec

\* A save programs erased bytes below the header and no others.
THEOREM SavesBlowFreeBytes ==
    ASSUME ~HeaderFaults PROVE Spec => []BlowsFreeByte
<1>1. AreaInv => BlowsFreeByte
  <2> SUFFICES ASSUME AreaInv, op.pc = "blow", op.todo # <<>>
               PROVE  op.at < Cap /\ card[op.at] = FF
    BY DEF BlowsFreeByte
  <2>1. PICK ptr : Arranged(ptr)
    BY DEF AreaInv, Layout
  <2> QED  BY <2>1, BlowingIs DEF Arranged, AreaInv
<1> QED  BY <1>1, AreaIsLaidOut, PTL

\* Between operations the pointer of the next entry is the first of the erased bytes.
THEOREM FreeSpaceIsErased ==
    ASSUME ~HeaderFaults PROVE Spec => []FreeIsErased
<1>1. AreaInv => FreeIsErased
  <2> SUFFICES ASSUME AreaInv, op.pc = "idle"
               PROVE  /\ ScanReturns(card)
                      /\ \A p \in AllocFilePtr(card)..(Cap - 1) : card[p] = FF
    BY DEF FreeIsErased
  <2>1. PICK ptr : Holds(card, ptr, Stored)
    BY IdleHolds
  <2>2. card \in Memory
    BY IdleHolds
  <2>3. ScanReturns(card) /\ AllocFilePtr(card) = ptr[Len(Stored) + 1]
    BY <2>1, <2>2, Scanned
  <2> QED  BY <2>1, <2>3 DEF Holds, ErasedFrom
<1> QED  BY <1>1, AreaIsLaidOut, PTL

LEMMA SpaceIs ==
    ASSUME AreaInv PROVE SpaceAccounted
<1> SUFFICES ASSUME op.pc = "idle"
             PROVE  /\ FreeSpace(card) = Cap - AllocFilePtr(card)
                    /\ ActiveSpace(card) + DeletedSpace(card) + FreeSpace(card) = Cap
  BY DEF SpaceAccounted
<1>1. PICK ptr : Holds(card, ptr, Stored)
  BY IdleHolds
<1>2. card \in Memory
  BY IdleHolds
<1> DEFINE e == ptr[Len(Stored) + 1]
<1>3. AllocFilePtr(card) = e /\ FreeSpace(card) = Cap - e
  BY <1>1, <1>2, Scanned, SpaceAddsUp
<1>4. /\ ActiveSpace(card) \in Nat /\ DeletedSpace(card) \in Nat
      /\ ActiveSpace(card) + DeletedSpace(card) = e
  BY <1>1, <1>2, SpaceAddsUp
<1>5. e \in Nat /\ Cap \in Nat
  BY <1>1, EndIs, Numbers DEF Holds
<1> HIDE DEF e
<1> DEFINE a == ActiveSpace(card)
           d == DeletedSpace(card)
           f == FreeSpace(card)
<1>6. a \in Nat /\ d \in Nat /\ a + d = e /\ f = Cap - e
  BY <1>3, <1>4
<1> HIDE DEF a, d, f
<1>7. a + d + f = Cap
  BY <1>5, <1>6
<1> QED  BY <1>3, <1>7 DEF a, d, f

----------------------------------------------------------------------------
(* The entries of intent *)

\* Entries before those of intent.
Skip == IF HasNull THEN 1 ELSE 0

LEMMA PointersAre ==
    ASSUME TypeInv, NEW ptr, Laid(card, ptr, Stored)
    PROVE  /\ Skip \in 0..1 /\ Len(Stored) = Len(intent) + Skip /\ Len(intent) \in Nat
           /\ Pointers \in Seq(Cells) /\ Len(Pointers) = Len(intent) + 1
           /\ \A i \in 1..(Len(intent) + 1) : Pointers[i] = ptr[i + Skip]
           /\ \A i \in 1..Len(intent) : i + Skip \in 1..Len(Stored) /\ Stored[i + Skip] = intent[i]
           /\ Last(Pointers) = ptr[Len(Stored) + 1]
<1> DEFINE n == Len(intent)
           t == Trail(card)
           first == IF NameLength(card, 0) = 1 THEN 2 ELSE 1
           last == first + n
           s == Skip
           q == Pointers
           l == Len(Stored)
<1>1. /\ s \in 0..1 /\ l = n + s /\ n \in Nat /\ first = 1 + s /\ s \in Nat
      /\ \A i \in 1..n : Stored[i + s] = intent[i]
  <2>1. CASE HasNull
    <3>1. s = 1 /\ first = 2 /\ l = n + 1 /\ n \in Nat
      BY <2>1, StoredIs DEF Skip, HasNull
    <3>2. \A i \in 1..n : Stored[i + s] = intent[i]
      BY <2>1, <3>1, StoredIs
    <3> HIDE DEF s, first, l, n
    <3>3. s \in 0..1 /\ l = n + s /\ first = 1 + s /\ s \in Nat
      BY <3>1
    <3> QED  BY <3>1, <3>2, <3>3
  <2>2. CASE ~HasNull
    <3>1. s = 0 /\ first = 1 /\ Stored = intent /\ n \in Nat
      BY <2>2, StoredIs DEF Skip, HasNull
    <3>2. l = n
      BY <3>1
    <3> HIDE DEF s, first, l, n
    <3>3. s \in 0..1 /\ l = n + s /\ first = 1 + s /\ s \in Nat /\ \A i \in 1..n : i + s = i
      BY <3>1, <3>2
    <3> QED  BY <3>1, <3>2, <3>3
  <2> QED  BY <2>1, <2>2
<1>2. /\ t \in Seq(Cells) /\ Len(t) >= l + 1 /\ \A j \in 1..(l + 1) : t[j] = ptr[j]
  <2>1. card \in Memory
    BY DEF TypeInv, TypeOK, Memory
  <2> QED  BY <2>1, ScanBegins
<1>3. q = SubSeq(t, first, last)
  BY DEF Pointers
<1> HIDE DEF n, t, first, s, q, l
<1>4. /\ first \in Int /\ last \in Int /\ first <= last /\ last - first + 1 = n + 1
      /\ \A i \in first..last : i \in 1..(l + 1)
      /\ \A i \in 1..(n + 1) : i \in 1..(last - first + 1) /\ first + i - 1 = i + s /\ i + s \in 1..(l + 1)
  BY <1>1
<1>5. Len(t) \in Nat /\ \A i \in 1..Len(t) : t[i] \in Cells
  BY <1>2, OfElements
<1>6. \A i \in first..last : t[i] \in Cells
  <2> SUFFICES ASSUME NEW i \in first..last PROVE t[i] \in Cells
    OBVIOUS
  <2>1. i \in 1..(l + 1)
    BY <1>4
  <2>2. i \in 1..Len(t)
    BY <1>1, <1>2, <1>5, <2>1
  <2> QED  BY <1>5, <2>2
<1> HIDE DEF last
<1>7. /\ q \in Seq(Cells) /\ Len(q) = n + 1
      /\ \A i \in 1..(last - first + 1) : q[i] = t[first + i - 1]
  BY <1>3, <1>4, <1>6, SubSeqProperties
<1>8. ASSUME NEW i \in 1..(n + 1) PROVE q[i] = ptr[i + s]
  <2>1. i \in 1..(last - first + 1) /\ first + i - 1 = i + s /\ i + s \in 1..(l + 1)
    BY <1>4
  <2>2. q[i] = t[first + i - 1]
    BY <1>7, <2>1
  <2> QED  BY <1>2, <2>1, <2>2
<1>9. Last(q) = ptr[l + 1]
  <2>1. Last(q) = q[n + 1]
    BY <1>7 DEF Last
  <2>2. n + 1 \in 1..(n + 1) /\ (n + 1) + s = l + 1
    BY <1>1
  <2>3. q[n + 1] = ptr[(n + 1) + s]
    BY <1>8, <2>2
  <2> QED  BY <2>1, <2>2, <2>3
<1>10. \A i \in 1..n : i + s \in 1..l
  BY <1>1
<1> QED  BY <1>1, <1>7, <1>8, <1>9, <1>10 DEF n, s, q, l

LEMMA LeastIs ==
    ASSUME NEW S, S \subseteq Nat, S # {}
    PROVE  Min(S) \in S /\ \A y \in S : Min(S) <= y
<1>1. \E x \in S : \A y \in S : x <= y
  BY LeastElement
<1> QED  BY <1>1 DEF Min

LEMMA LeastShifts ==
    ASSUME NEW S, S \subseteq Nat, S # {}, NEW s \in Nat, NEW T, T = {i + s : i \in S}
    PROVE  Min(T) = Min(S) + s /\ T # {}
<1>1. Min(S) \in S /\ Min(S) \in Nat /\ \A y \in S : Min(S) <= y
  BY LeastIs
<1>2. T \subseteq Nat /\ T # {} /\ Min(S) + s \in T
  BY <1>1
<1>3. Min(T) \in T /\ Min(T) \in Nat /\ \A y \in T : Min(T) <= y
  BY <1>2, LeastIs
<1>4. PICK i \in S : Min(T) = i + s
  BY <1>3
<1> DEFINE a == Min(S)
           b == Min(T)
<1>5. a \in Nat /\ b \in Nat /\ i \in Nat /\ b = i + s /\ a <= i /\ b <= a + s
  BY <1>1, <1>2, <1>3, <1>4
<1> HIDE DEF a, b
<1>6. b = a + s
  BY <1>5
<1> QED  BY <1>2, <1>6 DEF a, b

LEMMA FindIs ==
    ASSUME AreaInv PROVE FindsOldestLive
<1> SUFFICES ASSUME op.pc = "idle", NEW n \in Names
             PROVE  LET ptr == Pointers
                        hits == {i \in DOMAIN intent : intent[i][1] = n /\ card[ptr[i] + 1] = Slash}
                    IN  FindFile(card, n) = IF hits = {} THEN NoEntry ELSE ptr[Min(hits)]
  BY DEF FindsOldestLive
<1>1. PICK ptr : Holds(card, ptr, Stored)
  BY IdleHolds
<1>2. card \in Memory /\ Laid(card, ptr, Stored) /\ TypeInv
  BY <1>1, IdleHolds DEF Holds, AreaInv
<1> DEFINE hits == {i \in DOMAIN intent : intent[i][1] = n /\ card[Pointers[i] + 1] = Slash}
           es == Entries(card)
           found == {k \in DOMAIN es : NameMatches(card, es[k], n)}
           m == Len(intent)
           l == Len(Stored)
           s == Skip
<1>3. /\ s \in 0..1 /\ s \in Nat /\ l = m + s /\ m \in Nat
      /\ \A i \in 1..(m + 1) : Pointers[i] = ptr[i + s]
      /\ \A i \in 1..m : i + s \in 1..l /\ Stored[i + s] = intent[i]
  BY <1>2, PointersAre
<1>4. DOMAIN es = 1..l /\ \A k \in 1..l : es[k] = ptr[k]
  BY <1>1, <1>2, Scanned
<1>5. \A k \in 1..l : NameMatches(card, ptr[k], n) <=> Stored[k][1] = n /\ card[ptr[k] + 1] = Slash
  BY <1>2, LaidReads
<1>6. DOMAIN intent = 1..m
  <2>1. intent \in Seq(Files)
    BY <1>2, StoredIs
  <2> QED  BY <2>1
<1>7. ASSUME NEW k \in 1..l, k \notin {i + s : i \in 1..m} PROVE Stored[k][1] # n
  <2>1. s = 1 /\ k = 1
    <3> HIDE DEF m, l, s
    <3>1. k - s \notin 1..m
      <4> SUFFICES ASSUME k - s \in 1..m PROVE FALSE
        OBVIOUS
      <4>1. (k - s) + s = k
        BY <1>3
      <4> QED  BY <1>7, <4>1
    <3> QED  BY <1>3, <3>1
  <2>2. HasNull
    BY <2>1 DEF Skip
  <2>3. Stored[1] = NullEntry
    BY <1>2, <2>2, StoredIs
  <2>4. Len(NullEntry[1]) = 1 /\ Len(n) \in 2..(FF - 1)
    BY AreaAssumption DEF NullEntry
  <2> QED  BY <2>1, <2>3, <2>4
<1>8. found = {i + s : i \in hits}
  <2>1. ASSUME NEW k \in found PROVE k \in {i + s : i \in hits}
    <3>1. k \in 1..l /\ Stored[k][1] = n /\ card[ptr[k] + 1] = Slash
      BY <1>4, <1>5
    <3>2. PICK i \in 1..m : k = i + s
      BY <1>7, <3>1
    <3>3. intent[i][1] = n
      BY <1>3, <3>1, <3>2
    <3>4. Pointers[i] = ptr[i + s]
      <4>1. i \in 1..(m + 1)
        <5> HIDE DEF m
        <5> QED  BY <1>3
      <4> QED  BY <1>3, <4>1
    <3>5. i \in hits
      BY <1>6, <3>1, <3>2, <3>3, <3>4
    <3> QED  BY <3>2, <3>5
  <2>2. ASSUME NEW i \in hits PROVE i + s \in found
    <3>1. i \in 1..m /\ intent[i][1] = n /\ card[Pointers[i] + 1] = Slash
      BY <1>6
    <3>2. i \in 1..(m + 1)
      <4> HIDE DEF m
      <4> QED  BY <1>3, <3>1
    <3>3. /\ i + s \in 1..l /\ Stored[i + s][1] = n /\ card[ptr[i + s] + 1] = Slash
      BY <1>3, <3>1, <3>2
    <3> QED  BY <1>4, <1>5, <3>3
  <2> QED  BY <2>1, <2>2
<1>9. FindFile(card, n) = IF found = {} THEN NoEntry ELSE es[Min(found)]
  BY DEF FindFile
<1>10. hits \subseteq Nat /\ hits \subseteq 1..m
  BY <1>6
<1> HIDE DEF hits, found, es
<1>11. CASE hits = {}
  BY <1>8, <1>9, <1>11 DEF hits
<1>12. CASE hits # {}
  <2>1. Min(found) = Min(hits) + s /\ found # {}
    BY <1>3, <1>8, <1>10, <1>12, LeastShifts
  <2>2. Min(hits) \in 1..m
    BY <1>10, <1>12, LeastIs
  <2>3. Min(hits) \in 1..(m + 1) /\ Min(hits) + s \in 1..l
    <3> HIDE DEF m, l, s
    <3> QED  BY ONLY <1>3, <2>2
  <2>4. Pointers[Min(hits)] = ptr[Min(hits) + s] /\ es[Min(hits) + s] = ptr[Min(hits) + s]
    BY <1>3, <1>4, <2>3
  <2> QED  BY <1>9, <1>12, <2>1, <2>4 DEF hits
<1> QED  BY <1>11, <1>12

\* A name that is looked for is found where the oldest live file of the name is.
THEOREM OldestLiveIsFound ==
    ASSUME ~HeaderFaults PROVE Spec => []FindsOldestLive
  BY FindIs, AreaIsLaidOut, PTL

----------------------------------------------------------------------------
(* Counting *)

LEMMA SameMany ==
    ASSUME NEW S, IsFiniteSet(S), NEW f, \A x, y \in S : f[x] = f[y] => x = y
    PROVE  Cardinality({f[x] : x \in S}) = Cardinality(S) /\ IsFiniteSet({f[x] : x \in S})
<1> DEFINE T == {f[x] : x \in S}
           g == [x \in S |-> f[x]]
<1>1. g \in [S -> T] /\ \A x \in S : g[x] = f[x]
  OBVIOUS
<1>2. \A t \in T : \E x \in S : g[x] = t
  BY <1>1
<1>3. \A x, y \in S : g[x] = g[y] => x = y
  BY <1>1
<1> HIDE DEF T, g
<1>4. DOMAIN g = S
  BY <1>1
<1>5. g \in Bijection(S, T)
  BY <1>1, <1>2, <1>3, <1>4 DEF Bijection, Injection, Surjection, IsInjective
<1> QED  BY <1>5, FS_Bijection DEF ExistsBijection, T

LEMMA ThreeKinds ==
    ASSUME NEW l \in Nat, NEW A, NEW B, NEW C, 1..l = (A \union B) \union C,
           A \cap B = {}, A \cap C = {}, B \cap C = {}
    PROVE  /\ IsFiniteSet(A) /\ IsFiniteSet(B) /\ IsFiniteSet(C)
           /\ Cardinality(A) \in Nat /\ Cardinality(B) \in Nat /\ Cardinality(C) \in Nat
           /\ Cardinality(A) + Cardinality(B) + Cardinality(C) = l
<1>1. IsFiniteSet(1..l) /\ Cardinality(1..l) = l
  BY FS_Interval
<1>2. IsFiniteSet(A) /\ IsFiniteSet(B) /\ IsFiniteSet(C) /\ IsFiniteSet(A \union B)
  BY <1>1, FS_Subset
<1>3. Cardinality(A) \in Nat /\ Cardinality(B) \in Nat /\ Cardinality(C) \in Nat
  BY <1>2, FS_CardinalityType
<1>4. Cardinality(A \union B) = Cardinality(A) + Cardinality(B) - Cardinality({})
  BY <1>2, FS_Union
<1>5. (A \union B) \cap C = {}
  OBVIOUS
<1>6. Cardinality((A \union B) \union C) = Cardinality(A \union B) + Cardinality(C) - Cardinality({})
  BY <1>2, <1>5, FS_Union
<1>7. Cardinality({}) = 0
  BY FS_EmptySet
<1>8. Cardinality((A \union B) \union C) = l
  BY <1>1
<1> QED  BY <1>2, <1>3, <1>4, <1>6, <1>7, <1>8

LEMMA PointersDiffer ==
    ASSUME NEW m, NEW ptr, NEW fs, Laid(m, ptr, fs), NEW i \in 1..Len(fs), NEW j \in 1..Len(fs),
           ptr[i] = ptr[j]
    PROVE  i = j
<1> DEFINE n == Len(fs)
           a == ptr[i]
           b == ptr[j]
           y == SizeOf(fs[i])
           z == SizeOf(fs[j])
<1>1. n \in Nat /\ a \in Nat /\ b \in Nat /\ y \in Nat /\ z \in Nat /\ y >= 6 /\ z >= 6
  BY LaidBasics, EntryFits
<1>2. i \in 1..(n + 1) /\ j \in 1..(n + 1) /\ i \in Nat /\ j \in Nat /\ a = b
  <2> HIDE DEF n
  <2> QED  BY <1>1 DEF n
<1>3. (i < j => a + y <= b) /\ (j < i => b + z <= a)
  BY <1>2, LaidInOrder
<1> HIDE DEF n, a, b, y, z
<1> QED  BY <1>1, <1>2, <1>3

\* What LogOf says of an entry.
LEMMA LogIs ==
    ASSUME TypeInv, NEW ptr, Laid(card, ptr, Stored)
    PROVE  /\ DOMAIN intent = 1..Len(intent) /\ LogOf \in Seq([name : Names, data : Contents, done : BOOLEAN, live : BOOLEAN])
           /\ Len(LogOf) = Len(intent)
           /\ \A i \in 1..Len(intent) :
                 /\ LogOf[i] = [name |-> intent[i][1], data |-> intent[i][2],
                                done |-> ImageOnCard(ptr[i + Skip], Len(intent[i][2])) = intent[i][2],
                                live |-> ~Deleted(card, ptr[i + Skip])]
                 /\ intent[i] \in Names \X Contents
<1>1. DOMAIN intent = 1..Len(intent) /\ Len(intent) \in Nat /\ \A i \in 1..Len(intent) : intent[i] \in Names \X Contents
  BY StoredIs
<1> DEFINE E == [name : Names, data : Contents, done : BOOLEAN, live : BOOLEAN]
           R(i) == [name |-> intent[i][1], data |-> intent[i][2],
                    done |-> ImageOnCard(ptr[i + Skip], Len(intent[i][2])) = intent[i][2],
                    live |-> ~Deleted(card, ptr[i + Skip])]
           Q(i) == [name |-> intent[i][1], data |-> intent[i][2],
                    done |-> ImageOnCard(Pointers[i], Len(intent[i][2])) = intent[i][2],
                    live |-> ~Deleted(card, Pointers[i])]
<1>2. \A i \in 1..Len(intent) : Pointers[i] = ptr[i + Skip]
  <2>1. \A i \in 1..Len(intent) : i \in 1..(Len(intent) + 1)
    BY <1>1
  <2> QED  BY <2>1, PointersAre
<1>3. LogOf = [i \in 1..Len(intent) |-> Q(i)]
  BY <1>1 DEF LogOf
<1>4. \A i \in 1..Len(intent) : Q(i) = R(i)
  BY <1>2
<1>5. ASSUME NEW i \in 1..Len(intent) PROVE R(i) \in E
  BY <1>1
<1> HIDE DEF E, R, Q
<1>6. \A i \in 1..Len(intent) : LogOf[i] = R(i) /\ LogOf[i] \in E
  BY <1>3, <1>4, <1>5
<1>7. LogOf \in Seq(E) /\ Len(LogOf) = Len(intent)
  <2> DEFINE g == LogOf
             n == Len(intent)
  <2>1. g \in [1..n -> E] /\ n \in Nat
    BY <1>1, <1>3, <1>6
  <2> HIDE DEF g, n
  <2>2. g \in Seq(E) /\ Len(g) = n
    BY <2>1
  <2> QED  BY <2>2 DEF g, n
<1> QED  BY <1>1, <1>6, <1>7 DEF E, R

LEMMA CountIs ==
    ASSUME AreaInv PROVE CountsFiles
<1> SUFFICES ASSUME op.pc = "idle"
             PROVE  LET forgotten == {i \in DOMAIN intent : LogOf[i].data = <<>> /\ ~LogOf[i].live}
                    IN  CntFiles(card).active + CntFiles(card).deleted + Cardinality(forgotten)
                            = Len(intent)
  BY DEF CountsFiles
<1>1. PICK ptr : Holds(card, ptr, Stored) /\ Arranged(ptr)
  BY IdleHolds
<1>2. card \in Memory /\ Laid(card, ptr, Stored) /\ TypeInv
  BY <1>1, IdleHolds DEF Holds, AreaInv
<1> DEFINE m == Len(intent)
           l == Len(Stored)
           s == Skip
           Empty(k) == Stored[k][2] = <<>>
           Gone(k) == Deleted(card, ptr[k])
           A == {k \in 1..l : ~Gone(k)}
           B == {k \in 1..l : Gone(k) /\ ~Empty(k)}
           C == {k \in 1..l : Gone(k) /\ Empty(k)}
           F == {i \in DOMAIN intent : LogOf[i].data = <<>> /\ ~LogOf[i].live}
           es == Range(Entries(card))
<1>3. /\ s \in 0..1 /\ s \in Nat /\ l = m + s /\ m \in Nat /\ l \in Nat
      /\ \A i \in 1..m : i + s \in 1..l /\ Stored[i + s] = intent[i]
  <2>1. /\ s \in 0..1 /\ l = m + s /\ m \in Nat
        /\ \A i \in 1..m : i + s \in 1..l /\ Stored[i + s] = intent[i]
    BY <1>2, PointersAre
  <2> HIDE DEF s, l, m
  <2>2. s \in Nat /\ l \in Nat
    BY <2>1
  <2> QED  BY <2>1, <2>2
<1>4. \A k \in 1..l : FileSize(card, ptr[k]) = Len(Stored[k][2]) /\ (FileSize(card, ptr[k]) # 0 <=> ~Empty(k))
  <2> SUFFICES ASSUME NEW k \in 1..l
               PROVE  FileSize(card, ptr[k]) = Len(Stored[k][2]) /\ (FileSize(card, ptr[k]) # 0 <=> ~Empty(k))
    OBVIOUS
  <2>1. FileSize(card, ptr[k]) = Len(Stored[k][2])
    BY <1>2, LaidReads DEF EntryReads
  <2>2. Stored[k][2] \in Seq(Byte)
    BY <1>2, LaidBasics, FileFacts
  <2>3. Len(Stored[k][2]) # 0 <=> ~Empty(k)
    BY <2>2
  <2> QED  BY <2>1, <2>3
<1>5. es = {ptr[k] : k \in 1..l}
  BY <1>1, <1>2, Scanned
<1>6. \A i, j \in 1..l : ptr[i] = ptr[j] => i = j
  BY <1>2, PointersDiffer
<1>7. /\ {p \in es : ~Deleted(card, p)} = {ptr[k] : k \in A}
      /\ {p \in es : Deleted(card, p) /\ FileSize(card, p) # 0} = {ptr[k] : k \in B}
  BY <1>4, <1>5
<1>8. 1..l = (A \union B) \union C /\ A \cap B = {} /\ A \cap C = {} /\ B \cap C = {}
  OBVIOUS
<1>9. A \subseteq 1..l /\ B \subseteq 1..l /\ C \subseteq 1..l
  OBVIOUS
<1>10. CntFiles(card).active = Cardinality({p \in es : ~Deleted(card, p)})
  BY DEF CntFiles
<1>11. CntFiles(card).deleted = Cardinality({p \in es : Deleted(card, p) /\ FileSize(card, p) # 0})
  BY DEF CntFiles
<1>12. /\ DOMAIN intent = 1..m
       /\ \A i \in 1..m : LogOf[i].data = intent[i][2] /\ (LogOf[i].live <=> ~Deleted(card, ptr[i + s]))
  <2>1. DOMAIN intent = 1..m
    BY <1>2, LogIs
  <2>2. ASSUME NEW i \in 1..m
        PROVE  LogOf[i].data = intent[i][2] /\ LogOf[i].live = ~Deleted(card, ptr[i + s])
    <3>1. PICK d : d = (ImageOnCard(ptr[i + Skip], Len(intent[i][2])) = intent[i][2])
      OBVIOUS
    <3>2. PICK a : a = ~Deleted(card, ptr[i + Skip])
      OBVIOUS
    <3>3. LogOf[i] = [name |-> intent[i][1], data |-> intent[i][2], done |-> d, live |-> a]
      BY <1>2, <3>1, <3>2, LogIs
    <3> QED  BY <3>2, <3>3
  <2> QED  BY <2>1, <2>2, Zenon
<1>13. F \subseteq 1..m /\ \A i \in 1..m : i \in F <=> i + s \in C
  BY <1>3, <1>12
<1>14. s = 1 => 1 \in C
  <2> SUFFICES ASSUME s = 1 PROVE 1 \in C
    OBVIOUS
  <2>1. HasNull
    BY DEF Skip
  <2>2. Stored[1] = NullEntry /\ 1 \in 1..l
    <3>1. l = m + 1
      BY <1>3
    <3> HIDE DEF l, m
    <3>2. 1 \in 1..l
      BY <1>3, <3>1
    <3> QED  BY <1>2, <2>1, <3>2, StoredIs
  <2>3. card[1] = 0 /\ ptr[1] = 0
    BY <1>1, <2>1 DEF Arranged, Laid
  <2>4. Deleted(card, ptr[1]) <=> card[ptr[1] + 1] = 0
    BY <1>2, <2>2, LaidReads DEF EntryReads
  <2>5. Empty(1)
    BY <2>2 DEF NullEntry
  <2> QED  BY <2>2, <2>3, <2>4, <2>5
<1> HIDE DEF m, l, s, A, B, C, F, es
<1>15. /\ IsFiniteSet(A) /\ IsFiniteSet(B) /\ IsFiniteSet(C)
       /\ Cardinality(A) \in Nat /\ Cardinality(B) \in Nat /\ Cardinality(C) \in Nat
       /\ Cardinality(A) + Cardinality(B) + Cardinality(C) = l
  <2>1. l \in Nat
    BY <1>3
  <2> QED  BY ONLY <1>8, <2>1, ThreeKinds
<1>16. Cardinality({ptr[k] : k \in A}) = Cardinality(A) /\ Cardinality({ptr[k] : k \in B}) = Cardinality(B)
  <2>1. \A i, j \in A : ptr[i] = ptr[j] => i = j
    BY ONLY <1>6, <1>9
  <2>2. \A i, j \in B : ptr[i] = ptr[j] => i = j
    BY ONLY <1>6, <1>9
  <2>3. Cardinality({ptr[k] : k \in A}) = Cardinality(A)
    BY ONLY <1>15, <2>1, SameMany
  <2>4. Cardinality({ptr[k] : k \in B}) = Cardinality(B)
    BY ONLY <1>15, <2>2, SameMany
  <2> QED  BY ONLY <2>3, <2>4
<1>17. IsFiniteSet(F)
  <2>1. IsFiniteSet(1..m)
    <3>1. m \in Int /\ 1 \in Int
      BY <1>3
    <3> QED  BY ONLY <3>1, FS_Interval
  <2>2. F \in SUBSET (1..m)
    BY <1>13
  <2> QED  BY ONLY <2>1, <2>2, FS_Subset
<1>18. Cardinality(F) \in Nat
  BY <1>17, FS_CardinalityType
<1>19. Cardinality(C) = Cardinality(F) + s
  <2> DEFINE h == [i \in Nat |-> i + s]
             G == {h[i] : i \in F}
  <2>1. \A x, y \in F : h[x] = h[y] => x = y
    BY <1>3, <1>13
  <2>2. \A i \in F : h[i] = i + s
    BY <1>13
  <2> HIDE DEF h
  <2>3. Cardinality(G) = Cardinality(F) /\ IsFiniteSet(G)
    BY <1>17, <2>1, SameMany
  <2>4. CASE s = 0
    <3>1. C = G
      <4>1. \A k \in C : k \in 1..m /\ k + s = k
        BY <1>3, <1>9, <2>4
      <4>2. \A k \in C : k \in F
        BY <1>13, <4>1
      <4>3. \A i \in F : i + s \in C
        BY <1>13
      <4> QED  BY <2>2, <4>1, <4>2, <4>3
    <3> QED  BY <1>15, <2>3, <2>4, <3>1
  <2>5. CASE s = 1
    <3>1. 1 \notin G
      BY <1>13, <2>2, <2>5
    <3>2. C = G \union {1}
      <4>1. \A k \in C : k = 1 \/ (k - 1 \in 1..m /\ (k - 1) + s = k)
        BY <1>3, <1>9, <2>5
      <4>2. \A k \in C : k = 1 \/ (k - 1 \in F /\ k = (k - 1) + s)
        BY <1>13, <4>1
      <4>3. \A i \in F : i + s \in C
        BY <1>13
      <4> QED  BY <1>14, <2>2, <2>5, <4>2, <4>3
    <3>3. Cardinality(G \union {1}) = Cardinality(G) + 1
      BY <2>3, <3>1, FS_AddElement
    <3> QED  BY <2>3, <2>5, <3>2, <3>3
  <2> QED  BY <1>3, <2>4, <2>5
<1> DEFINE a == Cardinality(A)
           b == Cardinality(B)
           c == Cardinality(C)
           f == Cardinality(F)
<1>20. a \in Nat /\ b \in Nat /\ c \in Nat /\ f \in Nat /\ a + b + c = l /\ c = f + s
  BY <1>15, <1>18, <1>19
<1> HIDE DEF a, b, c, f
<1>21. a + b + f = m
  BY <1>3, <1>20
<1>22. CntFiles(card).active = a /\ CntFiles(card).deleted = b
  BY <1>7, <1>10, <1>11, <1>16 DEF a, b
<1> QED  BY <1>21, <1>22 DEF f, m, F

\* What the library reports of an area, in bytes and in files, is what is in it.
THEOREM ReportsAreTrue ==
    ASSUME ~HeaderFaults PROVE Spec => []ReportsTrue
<1>1. AreaInv => ReportsTrue
  BY SpaceIs, CountIs DEF ReportsTrue
<1> QED  BY <1>1, AreaIsLaidOut, PTL

----------------------------------------------------------------------------
(* The area implements the log *)

Imaged(m, p, f) == \A k \in 1..Len(f[2]) : m[p + Len(f[1]) + 4 + k] = f[2][k]

\* The entry of the log for file f at p.
Seen(m, p, f) ==
    [name |-> f[1], data |-> f[2], done |-> Imaged(m, p, f), live |-> m[p + 1] # 0]

\* The log, as the entries that ptr leads over.
Shape(ptr) ==
    /\ Skip \in 0..1 /\ Len(Stored) = Len(intent) + Skip /\ Len(intent) \in Nat
    /\ LogOf = [i \in 1..Len(intent) |-> Seen(card, ptr[i + Skip], intent[i])]
    /\ LogOf \in Seq([name : Names, data : Contents, done : BOOLEAN, live : BOOLEAN])
    /\ Len(LogOf) = Len(intent)
    /\ Last(Pointers) = ptr[Len(Stored) + 1]
    /\ \A i \in 1..Len(intent) : /\ i + Skip \in 1..Len(Stored) /\ Stored[i + Skip] = intent[i]
                                 /\ intent[i] \in Files /\ intent[i] \in Names \X Contents

LEMMA SeenIs ==
    ASSUME TypeInv, NEW p \in Nat, NEW f \in Files, HeaderAt(card, p, f), p + SizeOf(f) <= Cap
    PROVE  /\ (ImageOnCard(p, Len(f[2])) = f[2]) = Imaged(card, p, f)
           /\ (~Deleted(card, p)) = (card[p + 1] # 0)
<1>1. card \in Memory
  BY DEF TypeInv, TypeOK, Memory
<1>2. FileImage(card, p) = p + Len(f[1]) + 5 /\ (Deleted(card, p) <=> card[p + 1] = 0)
  BY <1>1, EntryRead DEF EntryReads
<1> DEFINE l == Len(f[1])
           s == Len(f[2])
           z == SizeOf(f)
           g == ImageOnCard(p, s)
<1>3. l \in Nat /\ s \in Nat /\ z = l + 5 + s /\ f[2] \in Seq(Byte)
  BY FileFacts
<1>4. \A k \in 1..s : ReadByte(card, FileImage(card, p) + k - 1) = card[p + l + 4 + k]
  <2> SUFFICES ASSUME NEW k \in 1..s
               PROVE  ReadByte(card, FileImage(card, p) + k - 1) = card[p + l + 4 + k]
    OBVIOUS
  <2>1. FileImage(card, p) = p + l + 5
    BY <1>2
  <2> HIDE DEF l, s, z
  <2>2. FileImage(card, p) + k - 1 = p + l + 4 + k /\ p + l + 4 + k < p + z
    BY <1>3, <2>1
  <2>3. p + l + 4 + k < Cap
    <3>1. p + z <= Cap /\ Cap \in Nat /\ z \in Nat
      BY <1>3, Numbers DEF z
    <3> QED  BY <1>3, <2>2, <3>1
  <2> QED  BY <2>2, <2>3 DEF ReadByte
<1>5. g = [k \in 1..s |-> card[p + l + 4 + k]]
  BY <1>4 DEF ImageOnCard
<1>6. g = f[2] <=> Imaged(card, p, f)
  <2> PICK d : d = f[2]
    OBVIOUS
  <2>1. d \in Seq(Byte) /\ s = Len(d)
    BY <1>3
  <2> HIDE DEF g, s
  <2>2. d \in [1..s -> Byte]
    BY <2>1
  <2>3. g = d <=> \A k \in 1..s : card[p + l + 4 + k] = d[k]
    BY <1>5, <2>2
  <2> QED  BY <2>3 DEF Imaged, s
<1>7. (g = f[2]) = Imaged(card, p, f)
  BY <1>6, Zenon DEF Imaged
<1>8. (~Deleted(card, p)) = (card[p + 1] # 0)
  BY <1>2, Zenon DEF Deleted
<1> QED  BY <1>7, <1>8

LEMMA LogShape == TypeInv => \A ptr : Laid(card, ptr, Stored) => Shape(ptr)
<1> SUFFICES ASSUME TypeInv, NEW ptr, Laid(card, ptr, Stored) PROVE Shape(ptr)
  OBVIOUS
<1> DEFINE n == Len(intent)
           s == Skip
<1>1. /\ s \in 0..1 /\ Len(Stored) = n + s /\ n \in Nat
      /\ \A i \in 1..(n + 1) : Pointers[i] = ptr[i + s]
      /\ \A i \in 1..n : i + s \in 1..Len(Stored) /\ Stored[i + s] = intent[i]
      /\ Last(Pointers) = ptr[Len(Stored) + 1]
  BY PointersAre
<1>2. \A i \in 1..n : intent[i] \in Names \X Contents /\ intent[i] \in Files
  BY StoredIs DEF Files
<1>3. /\ LogOf \in Seq([name : Names, data : Contents, done : BOOLEAN, live : BOOLEAN])
      /\ Len(LogOf) = n /\ DOMAIN intent = 1..n
  BY LogIs
<1>4. \A i \in 1..n : LogOf[i] = Seen(card, ptr[i + s], intent[i])
  <2> SUFFICES ASSUME NEW i \in 1..n PROVE LogOf[i] = Seen(card, ptr[i + s], intent[i])
    OBVIOUS
  <2> PICK p : p = ptr[i + s]
    OBVIOUS
  <2> PICK f : f = intent[i]
    OBVIOUS
  <2>1. /\ i + s \in 1..Len(Stored) /\ Stored[i + s] = f /\ f \in Files
    BY <1>1, <1>2
  <2>2. p \in Nat /\ p + SizeOf(f) <= Cap /\ HeaderAt(card, p, f)
    BY <2>1, EntryFits, LaidBasics
  <2>3. /\ (ImageOnCard(p, Len(f[2])) = f[2]) = Imaged(card, p, f)
        /\ (~Deleted(card, p)) = (card[p + 1] # 0)
    BY <2>1, <2>2, SeenIs
  <2>4. LogOf[i] = [name |-> f[1], data |-> f[2], done |-> ImageOnCard(p, Len(f[2])) = f[2],
                    live |-> ~Deleted(card, p)]
    BY LogIs
  <2>5. Seen(card, p, f) = LogOf[i]
    BY <2>3, <2>4, Zenon DEF Seen
  <2> QED  BY <2>5
<1>5. LogOf = [i \in 1..n |-> Seen(card, ptr[i + s], intent[i])]
  <2>1. LogOf = [i \in 1..n |-> LogOf[i]]
    BY <1>3
  <2> QED  BY <1>4, <2>1
<1> QED  BY <1>1, <1>2, <1>3, <1>5 DEF Shape

LEMMA LogShapeNext == (TypeInv => \A ptr : Laid(card, ptr, Stored) => Shape(ptr))'
  BY LogShape, PTL

\* An entry is seen as before when a byte elsewhere was blown.
LEMMA SeenKept ==
    ASSUME NEW m, NEW m2, NEW p \in Nat, NEW f \in Files, NEW c \in Nat,
           \A q \in Nat : q # c => m2[q] = m[q],
           ~(p + Len(f[1]) + 5 <= c /\ c < p + SizeOf(f))
    PROVE  /\ Imaged(m2, p, f) <=> Imaged(m, p, f)
           /\ c # p + 1 => Seen(m2, p, f) = Seen(m, p, f)
<1> DEFINE l == Len(f[1])
           s == Len(f[2])
           z == SizeOf(f)
<1>1. l \in Nat /\ s \in Nat /\ z = l + 5 + s
  BY FileFacts
<1>2. \A k \in 1..s : m2[p + l + 4 + k] = m[p + l + 4 + k]
  <2> SUFFICES ASSUME NEW k \in 1..s PROVE m2[p + l + 4 + k] = m[p + l + 4 + k]
    OBVIOUS
  <2>1. ~(p + l + 5 <= c /\ c < p + z)
    OBVIOUS
  <2> HIDE DEF l, s, z
  <2>2. p + l + 4 + k \in Nat /\ p + l + 4 + k # c
    BY <1>1, <2>1
  <2> QED  BY <2>2
<1>3. Imaged(m2, p, f) <=> Imaged(m, p, f)
  BY <1>2 DEF Imaged
<1>4. ASSUME c # p + 1 PROVE Seen(m2, p, f) = Seen(m, p, f)
  <2>1. m2[p + 1] = m[p + 1]
    BY <1>4
  <2>2. Imaged(m2, p, f) = Imaged(m, p, f)
    BY <1>3, Zenon DEF Imaged
  <2> QED  BY <2>1, <2>2, Zenon DEF Seen
<1> QED  BY <1>3, <1>4

LEMMA SeenSame ==
    ASSUME NEW m, NEW m2, NEW p, NEW f, Imaged(m2, p, f) <=> Imaged(m, p, f),
           m2[p + 1] # 0 <=> m[p + 1] # 0
    PROVE  Seen(m2, p, f) = Seen(m, p, f)
<1>1. Imaged(m2, p, f) = Imaged(m, p, f) /\ (m2[p + 1] # 0) = (m[p + 1] # 0)
  BY Zenon DEF Imaged
<1> QED  BY <1>1, Zenon DEF Seen

\* No byte but c is another in m2 than in m.
OnlyAt(m, m2, c) == c \in Nat /\ \A q \in Nat : q # c => m2[q] = m[q]

\* p is where the j-th entry is, the file f, which c does not belong to.
Apart(m, ptr, fs, c, j, p, f) ==
    /\ Laid(m, ptr, fs) /\ j \in 1..Len(fs) /\ p = ptr[j] /\ f = fs[j]
    /\ ~InEntry(c, p, f)

LEMMA ElsewhereSeen ==
    ASSUME NEW m, NEW m2, NEW ptr, NEW fs, NEW c, NEW j, NEW p, NEW f,
           OnlyAt(m, m2, c), Apart(m, ptr, fs, c, j, p, f)
    PROVE  Seen(m2, p, f) = Seen(m, p, f)
<1> DEFINE l == Len(f[1])
           z == SizeOf(f)
<1>a. /\ Laid(m, ptr, fs) /\ j \in 1..Len(fs) /\ p = ptr[j] /\ f = fs[j] /\ ~InEntry(c, p, f)
      /\ c \in Nat /\ \A q \in Nat : q # c => m2[q] = m[q]
  BY DEF Apart, OnlyAt
<1>1. p \in Nat /\ f \in Files
  BY <1>a, EntryFits
<1>2. l \in Nat /\ z \in Nat
  BY <1>1, FileFacts
<1>3. ~(p <= c /\ c < p + z) /\ p <= p + 1 /\ p + 1 < p + z
  <2>1. InEntry(p + 1, p, f)
    BY <1>1, FirstInEntry
  <2> QED  BY <1>a, <2>1 DEF InEntry
<1>4. ~(p + l + 5 <= c /\ c < p + z) /\ c # p + 1
  <2>1. c \in Nat
    BY <1>a
  <2> HIDE DEF l, z
  <2> QED  BY <1>1, <1>2, <1>3, <2>1
<1>5. Imaged(m2, p, f) <=> Imaged(m, p, f)
  BY <1>a, <1>1, <1>4, SeenKept
<1>6. m2[p + 1] = m[p + 1]
  BY <1>a, <1>1, <1>4
<1> QED  BY <1>5, <1>6, SeenSame

\* A step that changes at most one byte, in at most one entry.
LEMMA OneEntryChanges ==
    ASSUME NEW ptr, Shape(ptr), Shape(ptr)', intent' = intent, Stored' = Stored,
           NEW i \in 1..Len(intent), NEW e,
           Seen(card', ptr[i + Skip], intent[i]) = e,
           \A j \in 1..Len(intent) : j # i =>
               Seen(card', ptr[j + Skip], intent[j]) = Seen(card, ptr[j + Skip], intent[j])
    PROVE  LogOf' = [LogOf EXCEPT ![i] = e] /\ Last(Pointers)' = Last(Pointers)
<1> DEFINE n == Len(intent)
           s == Skip
<1>1. s' = s
  <2>1. n' = n /\ n \in Nat /\ s \in 0..1 /\ s' \in 0..1 /\ Len(Stored) = n + s /\ Len(Stored') = n' + s'
    BY DEF Shape
  <2> DEFINE l == Len(Stored)
             s2 == s'
  <2>2. n \in Nat /\ s \in 0..1 /\ s2 \in 0..1 /\ l = n + s /\ l = n + s2
    BY <2>1
  <2> HIDE DEF n, s, l, s2
  <2>3. s2 = s
    BY <2>2
  <2> QED  BY <2>3 DEF s2
<1>2. LogOf = [j \in 1..n |-> Seen(card, ptr[j + s], intent[j])]
  BY DEF Shape
<1>3. LogOf' = [j \in 1..n |-> Seen(card', ptr[j + s], intent[j])]
  BY <1>1 DEF Shape
<1>4. Last(Pointers)' = Last(Pointers)
  BY DEF Shape
<1> HIDE DEF n, s
<1>5. LogOf' = [LogOf EXCEPT ![i] = e]
  <2>1. \A j \in 1..n : Seen(card', ptr[j + s], intent[j]) = IF j = i THEN e ELSE Seen(card, ptr[j + s], intent[j])
    BY DEF n, s
  <2>2. LogOf' = [j \in 1..n |-> IF j = i THEN e ELSE Seen(card, ptr[j + s], intent[j])]
    BY <1>3, <2>1
  <2>3. i \in 1..n
    BY DEF n
  <2> QED  BY <1>2, <2>2, <2>3
<1> QED  BY <1>4, <1>5

LEMMA NoEntryChanges ==
    ASSUME NEW ptr, Shape(ptr), Shape(ptr)', intent' = intent, Stored' = Stored,
           \A j \in 1..Len(intent) :
               Seen(card', ptr[j + Skip], intent[j]) = Seen(card, ptr[j + Skip], intent[j])
    PROVE  LogOf' = LogOf /\ Last(Pointers)' = Last(Pointers)
<1> DEFINE n == Len(intent)
           s == Skip
<1>1. s' = s
  <2>1. n' = n /\ n \in Nat /\ s \in 0..1 /\ s' \in 0..1 /\ Len(Stored) = n + s /\ Len(Stored') = n' + s'
    BY DEF Shape
  <2> DEFINE l == Len(Stored)
             s2 == s'
  <2>2. n \in Nat /\ s \in 0..1 /\ s2 \in 0..1 /\ l = n + s /\ l = n + s2
    BY <2>1
  <2> HIDE DEF n, s, l, s2
  <2>3. s2 = s
    BY <2>2
  <2> QED  BY <2>3 DEF s2
<1>2. LogOf = [j \in 1..n |-> Seen(card, ptr[j + s], intent[j])]
  BY DEF Shape
<1>3. LogOf' = [j \in 1..n |-> Seen(card', ptr[j + s], intent[j])]
  BY <1>1 DEF Shape
<1>4. Last(Pointers)' = Last(Pointers)
  BY DEF Shape
<1> QED  BY <1>2, <1>3, <1>4

\* What blowing a 0 on the first character of a name can do: the byte is 0 now, or is
\* what it was, as far as the log can tell.
LEMMA DeletedByte ==
    ASSUME TypeInv, NEW p \in Nat, BlowDeleted(p)
    PROVE  \/ card' = card
           \/ /\ p + 1 < Cap /\ \A q \in Nat : q # p + 1 => card'[q] = card[q]
              /\ card'[p + 1] = 0 \/ (card'[p + 1] # 0 /\ card[p + 1] # 0)
<1>1. card \in Memory
  BY DEF TypeInv, TypeOK, Memory
<1>2. CASE UNCHANGED <<card, faults>>
  BY <1>2
<1>3. CASE p + 1 < Cap /\ \E b \in Byte : /\ card' = [card EXCEPT ![p + 1] = b]
                                          /\ b # 0 => card[p + 1] # 0
  <2>1. PICK b \in Byte : card' = [card EXCEPT ![p + 1] = b] /\ (b # 0 => card[p + 1] # 0)
    BY <1>3, Zenon
  <2>2. p + 1 \in 0..(Cap - 1)
    BY <1>3, Numbers
  <2>3. card'[p + 1] = b /\ \A q \in Nat : q # p + 1 => card'[q] = card[q]
    BY <1>1, <2>1, <2>2, OneByte
  <2> QED  BY <1>3, <2>1, <2>3
<1>4. CASE p + 1 < Cap /\ card' = [card EXCEPT ![p + 1] = Blown(card[p + 1], 0)]
  <2>1. p + 1 \in 0..(Cap - 1)
    BY <1>4, Numbers
  <2>2. card[p + 1] \in Byte
    BY <1>1, <2>1 DEF Memory
  <2>3. Blown(card[p + 1], 0) = 0 /\ 0 \in Byte
    BY <2>2, BlownTyped, Numbers
  <2> QED  BY <1>3, <1>4, <2>3
<1>5. CASE p + 1 < Cap /\ \E r \in Misblown(card[p + 1], 0) : card' = [card EXCEPT ![p + 1] = r]
  <2>1. PICK r \in Byte : card' = [card EXCEPT ![p + 1] = r] /\ Blown(card[p + 1], r) = r
    BY <1>5 DEF Misblown
  <2>2. card[p + 1] = 0 => r = 0
    BY <2>1, BitAssumption DEF Blown
  <2> QED  BY <1>3, <1>5, <2>1, <2>2
<1>6. ~(p + 1 >= Cap) => p + 1 < Cap
  BY Numbers
<1> QED  BY <1>2, <1>4, <1>5, <1>6 DEF BlowDeleted

LEMMA DeleteSeen ==
    ASSUME TypeInv, NEW ptr, Laid(card, ptr, Stored), Shape(ptr), Shape(ptr)',
           intent' = intent, Stored' = Stored,
           NEW i \in 1..Len(intent), BlowDeleted(ptr[i + Skip])
    PROVE  /\ Last(Pointers)' = Last(Pointers)
           /\ LogOf' = LogOf \/ LogOf' = [LogOf EXCEPT ![i].live = FALSE]
<1> DEFINE n == Len(intent)
           s == Skip
           p == ptr[i + s]
           f == intent[i]
           c == p + 1
<1>1. /\ i + s \in 1..Len(Stored) /\ Stored[i + s] = f /\ f \in Files
      /\ \A j \in 1..n : j + s \in 1..Len(Stored) /\ Stored[j + s] = intent[j]
      /\ s \in 0..1 /\ n \in Nat
  BY DEF Shape
<1>2. p \in Nat
  BY <1>1, LaidBasics
<1>3. CASE card' = card
  <2>1. \A j \in 1..Len(intent) :
               Seen(card', ptr[j + Skip], intent[j]) = Seen(card, ptr[j + Skip], intent[j])
    BY <1>3
  <2> QED  BY <2>1, NoEntryChanges
<1>4. CASE /\ \A q \in Nat : q # c => card'[q] = card[q]
           /\ card'[c] = 0 \/ (card'[c] # 0 /\ card[c] # 0)
  <2>1. c \in Nat /\ InEntry(c, p, f) /\ ~(p + Len(f[1]) + 5 <= c /\ c < p + SizeOf(f))
    <3>1. Len(f[1]) \in Nat /\ InEntry(c, p, f)
      BY <1>1, <1>2, FileFacts, FirstInEntry
    <3> DEFINE l == Len(f[1])
    <3>2. l \in Nat
      BY <3>1
    <3> HIDE DEF l, p
    <3>3. c \in Nat /\ ~(p + l + 5 <= c)
      BY <1>2, <3>2
    <3> QED  BY <3>1, <3>3 DEF l, p
  <2>2. \A j \in 1..n : j # i => Seen(card', ptr[j + s], intent[j]) = Seen(card, ptr[j + s], intent[j])
    <3> SUFFICES ASSUME NEW j \in 1..n, j # i
                 PROVE  Seen(card', ptr[j + s], intent[j]) = Seen(card, ptr[j + s], intent[j])
      OBVIOUS
    <3>1. j + s \in 1..Len(Stored) /\ Stored[j + s] = intent[j] /\ j + s # i + s
      BY <1>1
    <3>2. ~InEntry(c, ptr[j + s], Stored[j + s])
      <4> HIDE DEF c, p, s, f
      <4>1. InEntry(c, ptr[i + s], Stored[i + s])
        BY <1>1, <2>1 DEF p
      <4> QED  BY <1>1, <2>1, <3>1, <4>1, OneEntry
    <3> HIDE DEF c, s
    <3> PICK x : x = ptr[j + s]
      OBVIOUS
    <3> PICK g : g = intent[j]
      OBVIOUS
    <3> PICK m2 : m2 = card'
      OBVIOUS
    <3> PICK k : k = j + s
      OBVIOUS
    <3>3. OnlyAt(card, m2, c)
      BY <1>4, <2>1 DEF OnlyAt
    <3>4. Apart(card, ptr, Stored, c, k, x, g)
      BY <3>1, <3>2 DEF Apart
    <3>5. Seen(m2, x, g) = Seen(card, x, g)
      BY ONLY <3>3, <3>4, ElsewhereSeen
    <3> QED  BY <3>5
  <2>3. Imaged(card', p, f) <=> Imaged(card, p, f)
    <3> HIDE DEF c, p, f
    <3> QED  BY <1>1, <1>2, <1>4, <2>1, SeenKept
  <2>4. LogOf[i] = Seen(card, p, f)
    BY DEF Shape
  <2>5. CASE card'[c] = 0
    <3>1. Seen(card', p, f) = [LogOf[i] EXCEPT !.live = FALSE]
      <4>1. Seen(card', p, f) = [Seen(card, p, f) EXCEPT !.live = FALSE]
        <5>1. PICK d : d = Imaged(card, p, f)
          OBVIOUS
        <5>2. PICK a : a = (card[c] # 0)
          OBVIOUS
        <5>3. PICK t : t = FALSE
          OBVIOUS
        <5>4. Seen(card, p, f) = [name |-> f[1], data |-> f[2], done |-> d, live |-> a]
          BY <5>1, <5>2, Zenon DEF Seen
        <5>5. Imaged(card', p, f) = Imaged(card, p, f) /\ (card'[c] # 0) = FALSE
          BY <2>3, <2>5, Zenon DEF Imaged
        <5>6. Seen(card', p, f) = [name |-> f[1], data |-> f[2], done |-> d, live |-> t]
          BY <5>1, <5>3, <5>5, Zenon DEF Seen
        <5>7. [Seen(card, p, f) EXCEPT !.live = t] = [name |-> f[1], data |-> f[2], done |-> d, live |-> t]
          BY <5>4
        <5> QED  BY <5>3, <5>6, <5>7, Zenon
      <4> QED  BY <2>4, <4>1, Zenon
    <3>2. /\ Last(Pointers)' = Last(Pointers)
          /\ LogOf' = [LogOf EXCEPT ![i] = [LogOf[i] EXCEPT !.live = FALSE]]
      BY <2>2, <3>1, OneEntryChanges
    <3> QED  BY <3>2
  <2>6. CASE card'[c] # 0 /\ card[c] # 0
    <3>1. Seen(card', p, f) = Seen(card, p, f)
      BY <2>3, <2>6, SeenSame
    <3>2. \A j \in 1..Len(intent) :
               Seen(card', ptr[j + Skip], intent[j]) = Seen(card, ptr[j + Skip], intent[j])
      BY <2>2, <3>1
    <3> QED  BY <3>2, NoEntryChanges
  <2> QED  BY <1>4, <2>5, <2>6
<1> QED  BY <1>2, <1>3, <1>4, DeletedByte

\* Nothing that is seen changes when a byte above all entries is blown.
LEMMA AboveAll ==
    ASSUME NEW m, NEW m2, NEW ptr, NEW fs, Laid(m, ptr, fs), NEW c, OnlyAt(m, m2, c),
           c >= ptr[Len(fs) + 1]
    PROVE  \A j \in 1..Len(fs) : Seen(m2, ptr[j], fs[j]) = Seen(m, ptr[j], fs[j])
<1> SUFFICES ASSUME NEW j \in 1..Len(fs) PROVE Seen(m2, ptr[j], fs[j]) = Seen(m, ptr[j], fs[j])
  OBVIOUS
<1> PICK p : p = ptr[j]
  OBVIOUS
<1> PICK f : f = fs[j]
  OBVIOUS
<1> DEFINE n == Len(fs)
           e == ptr[n + 1]
           z == SizeOf(f)
<1>1. n \in Nat /\ n + 1 \in 1..(n + 1) /\ j < n + 1
  BY LaidBasics
<1>2. p + z <= e
  BY <1>1, LaidInOrder
<1>3. p \in Nat /\ z \in Nat /\ e \in Nat /\ c \in Nat /\ c >= e
  BY EntryFits, EndIs DEF OnlyAt
<1>4. ~(c < p + z)
  <2> HIDE DEF e, z
  <2> QED  BY <1>2, <1>3
<1>5. Apart(m, ptr, fs, c, j, p, f)
  BY <1>4 DEF Apart, InEntry
<1>6. Seen(m2, p, f) = Seen(m, p, f)
  BY ONLY <1>5, OnlyAt(m, m2, c), ElsewhereSeen
<1> QED  BY <1>6

\* Nothing that is seen of the other entries changes when a byte of the last one is blown.
LEMMA BelowLast ==
    ASSUME NEW m, NEW m2, NEW ptr, NEW fs, Laid(m, ptr, fs), NEW c, OnlyAt(m, m2, c),
           NEW i \in 1..Len(fs), InEntry(c, ptr[i], fs[i])
    PROVE  \A j \in 1..Len(fs) : j # i => Seen(m2, ptr[j], fs[j]) = Seen(m, ptr[j], fs[j])
<1> SUFFICES ASSUME NEW j \in 1..Len(fs), j # i PROVE Seen(m2, ptr[j], fs[j]) = Seen(m, ptr[j], fs[j])
  OBVIOUS
<1> PICK p : p = ptr[j]
  OBVIOUS
<1> PICK f : f = fs[j]
  OBVIOUS
<1>1. c \in Nat
  BY DEF OnlyAt
<1>2. ~InEntry(c, p, f)
  BY <1>1, OneEntry
<1>3. Apart(m, ptr, fs, c, j, p, f)
  BY <1>2 DEF Apart
<1>4. Seen(m2, p, f) = Seen(m, p, f)
  BY ONLY <1>3, OnlyAt(m, m2, c), ElsewhereSeen
<1> QED  BY <1>4

\* A byte of the image of the last entry is blown, rightly or not.
LEMMA ImageByte ==
    ASSUME NEW ptr, Laid(card, ptr, Stored), Shape(ptr), Shape(ptr)', intent' = intent, Stored' = Stored,
           Len(intent) # 0, NEW c, OnlyAt(card, card', c),
           NEW p, p = ptr[Len(Stored)], NEW f, f = intent[Len(intent)],
           InEntry(c, p, f), c >= p + Len(f[1]) + 5
    PROVE  /\ Last(Pointers)' = Last(Pointers)
           /\ (Imaged(card', p, f) <=> Imaged(card, p, f)) => LogOf' = LogOf
           /\ Imaged(card', p, f) => /\ LogOf # <<>>
                                     /\ LogOf' = [LogOf EXCEPT ![Len(LogOf)].done = TRUE]
<1> DEFINE n == Len(intent)
           s == Skip
           l == Len(Stored)
<1>1. /\ n \in Nat /\ s \in 0..1 /\ l = n + s /\ Len(LogOf) = n
      /\ \A j \in 1..n : j + s \in 1..l /\ Stored[j + s] = intent[j] /\ intent[j] \in Files
      /\ \A j \in 1..n : LogOf[j] = Seen(card, ptr[j + s], intent[j])
  BY DEF Shape
<1>2. n # 0
  OBVIOUS
<1>3. n \in 1..n /\ p = ptr[n + s] /\ f = Stored[n + s] /\ n + s \in 1..l /\ f \in Files
  <2> HIDE DEF s, l
  <2>1. n \in 1..n
    BY <1>1, <1>2
  <2> QED  BY <1>1, <2>1 DEF l
<1>4. \A j \in 1..n : j # n => Seen(card', ptr[j + s], intent[j]) = Seen(card, ptr[j + s], intent[j])
  <2> SUFFICES ASSUME NEW j \in 1..n, j # n
               PROVE  Seen(card', ptr[j + s], intent[j]) = Seen(card, ptr[j + s], intent[j])
    OBVIOUS
  <2>1. j + s \in 1..l /\ j + s # n + s /\ Stored[j + s] = intent[j]
    BY <1>1
  <2> PICK m2 : m2 = card'
    OBVIOUS
  <2> PICK i : i = n + s
    OBVIOUS
  <2>3. i \in 1..l /\ InEntry(c, ptr[i], Stored[i]) /\ OnlyAt(card, m2, c) /\ Laid(card, ptr, Stored)
    BY <1>3
  <2>2. \A k \in 1..l : k # i => Seen(m2, ptr[k], Stored[k]) = Seen(card, ptr[k], Stored[k])
    BY ONLY <2>3, BelowLast DEF l
  <2> QED  BY <2>1, <2>2
<1>5. p \in Nat /\ c \in Nat /\ Len(f[1]) \in Nat
  <2>1. c \in Nat
    BY DEF OnlyAt
  <2>2. Len(f[1]) \in Nat
    BY <1>3, FileFacts
  <2>3. n + s \in 1..(l + 1)
    <3> HIDE DEF n, s, l
    <3> QED  BY ONLY <1>1, <1>3
  <2>4. p \in Nat
    BY <1>3, <2>3, LaidBasics
  <2> QED  BY <2>1, <2>2, <2>4
<1>6. card'[p + 1] = card[p + 1]
  <2> DEFINE k == Len(f[1])
  <2>1. p \in Nat /\ c \in Nat /\ k \in Nat /\ c >= p + k + 5
    BY ONLY <1>5, c >= p + Len(f[1]) + 5 DEF k
  <2> HIDE DEF k
  <2>2. p + 1 \in Nat /\ p + 1 # c
    BY ONLY <2>1
  <2> QED  BY <2>2 DEF OnlyAt
<1>7. Last(Pointers)' = Last(Pointers)
  BY DEF Shape
<1>8. ASSUME Imaged(card', p, f) <=> Imaged(card, p, f) PROVE LogOf' = LogOf
  <2>1. Seen(card', p, f) = Seen(card, p, f)
    BY <1>6, <1>8, SeenSame
  <2>2. \A j \in 1..n : Seen(card', ptr[j + s], intent[j]) = Seen(card, ptr[j + s], intent[j])
    BY <1>3, <1>4, <2>1
  <2> QED  BY <2>2, NoEntryChanges
<1>9. ASSUME Imaged(card', p, f)
      PROVE  LogOf # <<>> /\ LogOf' = [LogOf EXCEPT ![Len(LogOf)].done = TRUE]
  <2>1. PICK d : d = Imaged(card, p, f)
    OBVIOUS
  <2>2. PICK a : a = (card[p + 1] # 0)
    OBVIOUS
  <2>3. PICK t : t = TRUE
    OBVIOUS
  <2>4. Seen(card, p, f) = [name |-> f[1], data |-> f[2], done |-> d, live |-> a]
    BY <2>1, <2>2, Zenon DEF Seen
  <2>5. Imaged(card', p, f) = TRUE /\ (card'[p + 1] # 0) = a
    BY <1>6, <1>9, <2>2, Zenon DEF Imaged
  <2>6. Seen(card', p, f) = [name |-> f[1], data |-> f[2], done |-> t, live |-> a]
    BY <2>3, <2>5, Zenon DEF Seen
  <2>7. [Seen(card, p, f) EXCEPT !.done = t] = [name |-> f[1], data |-> f[2], done |-> t, live |-> a]
    BY <2>4
  <2>8. LogOf[n] = Seen(card, p, f)
    BY <1>1, <1>3
  <2>9. Seen(card', p, f) = [LogOf[n] EXCEPT !.done = TRUE]
    BY <2>3, <2>6, <2>7, <2>8, Zenon
  <2>10. LogOf' = [LogOf EXCEPT ![n] = [LogOf[n] EXCEPT !.done = TRUE]]
    <3> PICK e : e = [LogOf[n] EXCEPT !.done = TRUE]
      OBVIOUS
    <3>1. Seen(card', ptr[n + s], intent[n]) = e
      BY <1>3, <2>9
    <3> PICK i : i = n
      OBVIOUS
    <3>2. /\ i \in 1..Len(intent) /\ Seen(card', ptr[i + Skip], intent[i]) = e
          /\ \A j \in 1..Len(intent) : j # i =>
               Seen(card', ptr[j + Skip], intent[j]) = Seen(card, ptr[j + Skip], intent[j])
      BY <1>3, <1>4, <3>1
    <3> HIDE DEF n
    <3>3. LogOf' = [LogOf EXCEPT ![i] = e]
      BY <3>2, OneEntryChanges
    <3> QED  BY <3>3
  <2>11. Len(LogOf) = n /\ LogOf # <<>>
    <3>1. LogOf = <<>> => Len(LogOf) = 0
      OBVIOUS
    <3> QED  BY <1>1, <1>2, <3>1
  <2> QED  BY <2>10, <2>11
<1> QED  BY <1>7, <1>8, <1>9

\* The log that a step leads to.
Free == Cap - Last(Pointers)
Writing == op.pc = "blow" /\ ~HeaderLeft

LEMMA ByteOnly ==
    ASSUME TypeInv, NEW ptr, Arranged(ptr), BlowByte
    PROVE  /\ OnlyAt(card, card', op.at) /\ op.pc = "blow" /\ op.pc # "idle"
           /\ Laid(card, ptr, Stored) /\ Blowing(ptr) /\ op.at \in Nat
<1>1. op.pc = "blow" /\ op.pc # "idle"
  BY DEF BlowByte
<1>2. op.at \in 0..(Cap - 1) /\ card' = [card EXCEPT ![op.at] = Head(op.todo)] /\ Head(op.todo) \in Byte
  BY ByteBlown
<1>3. card \in Memory /\ op.at \in Nat
  BY <1>1, AtHand DEF TypeInv, TypeOK, Memory
<1>4. \A q \in Nat : q # op.at => card'[q] = card[q]
  <2> PICK m2 : m2 = card'
    OBVIOUS
  <2> PICK c : c = op.at
    OBVIOUS
  <2> PICK b : b = Head(op.todo)
    OBVIOUS
  <2>1. m2 = [card EXCEPT ![c] = b] /\ c \in 0..(Cap - 1) /\ b \in Byte
    BY <1>2
  <2>2. \A q \in Nat : q # c => m2[q] = card[q]
    BY <1>3, <2>1, OneByte
  <2> QED  BY <2>2
<1> QED  BY <1>1, <1>3, <1>4 DEF OnlyAt, Arranged

\* A byte of a header that stays incomplete: nothing is seen of it.
LEMMA HeaderByteLogged ==
    ASSUME TypeInv, TypeInv', NEW ptr, Arranged(ptr), BlowByte, HeaderLeft, ~Completes
    PROVE  LogOf' = LogOf /\ Last(Pointers)' = Last(Pointers) /\ HeaderLeft'
<1>1. Arranged(ptr)' /\ Stored' = Stored
  BY ByteArranges
<1>2. HeaderLeft' /\ intent' = intent
  BY ByteIntent
<1>3. OnlyAt(card, card', op.at) /\ Laid(card, ptr, Stored)
  BY ByteOnly
<1>4. op.at >= ptr[Len(Stored) + 1]
  BY ByteKeeps
<1>5. Shape(ptr) /\ Shape(ptr)'
  <2>1. Laid(card', ptr, Stored')
    BY <1>1 DEF Arranged
  <2> QED  BY <1>3, <2>1, LogShape, LogShapeNext
<1>6. \A j \in 1..Len(Stored) : Seen(card', ptr[j], Stored[j]) = Seen(card, ptr[j], Stored[j])
  <2> PICK m2 : m2 = card'
    OBVIOUS
  <2> PICK c : c = op.at
    OBVIOUS
  <2> PICK fs : fs = Stored
    OBVIOUS
  <2>1. Laid(card, ptr, fs) /\ OnlyAt(card, m2, c) /\ c >= ptr[Len(fs) + 1]
    BY <1>3, <1>4
  <2>2. \A j \in 1..Len(fs) : Seen(m2, ptr[j], fs[j]) = Seen(card, ptr[j], fs[j])
    BY ONLY <2>1, AboveAll
  <2> QED  BY <2>2
<1>7. \A j \in 1..Len(intent) :
          Seen(card', ptr[j + Skip], intent[j]) = Seen(card, ptr[j + Skip], intent[j])
  BY <1>5, <1>6 DEF Shape
<1> QED  BY <1>1, <1>2, <1>5, <1>7, NoEntryChanges

\* A byte of an image: the entry may be done now.
LEMMA ImageByteLogged ==
    ASSUME TypeInv, TypeInv', NEW ptr, Arranged(ptr), BlowByte, ~HeaderLeft
    PROVE  /\ Last(Pointers)' = Last(Pointers) /\ ~HeaderLeft'
           /\ \/ LogOf' = LogOf
              \/ LogOf # <<>> /\ LogOf' = [LogOf EXCEPT ![Len(LogOf)].done = TRUE]
<1>0. ~Completes
  BY ByteIntent
<1>1. Arranged(ptr)' /\ Stored' = Stored
  BY <1>0, ByteArranges
<1>2. ~HeaderLeft' /\ intent' = intent
  BY <1>0, ByteIntent
<1>3. OnlyAt(card, card', op.at) /\ Laid(card, ptr, Stored) /\ op.pc # "idle" /\ Blowing(ptr)
  BY ByteOnly
<1>4. Shape(ptr) /\ Shape(ptr)'
  <2>1. Laid(card', ptr, Stored')
    BY <1>1 DEF Arranged
  <2> QED  BY <1>3, <2>1, LogShape, LogShapeNext
<1> PICK p : p = ptr[Len(Stored)]
  OBVIOUS
<1> PICK f : f = op.file
  OBVIOUS
<1> PICK c : c = op.at
  OBVIOUS
<1>5. /\ AtLast(ptr) /\ p = op.entry /\ f = intent[Len(intent)] /\ f = Stored[Len(Stored)] /\ f \in Files
      /\ Len(intent) # 0
  <2>1. AtLast(ptr)
    BY <1>3 DEF Blowing
  <2>2. intent # <<>> /\ intent \in Seq(Files) /\ Len(intent) \in Nat
    BY <2>1, StoredIs DEF AtLast
  <2>3. Len(intent) # 0
    BY <2>2
  <2> QED  BY <1>3, <2>1, <2>3, LastAtHand, AtHand DEF AtLast
<1>6. InEntry(c, p, f) /\ c >= p + Len(f[1]) + 5
  BY <1>5, ByteKeeps
<1>7. Imaged(card, p, f) => Imaged(card', p, f)
  <2> SUFFICES ASSUME Imaged(card, p, f), NEW k \in 1..Len(f[2])
               PROVE  card'[p + Len(f[1]) + 4 + k] = f[2][k]
    BY DEF Imaged
  <2> DEFINE l == Len(f[1])
             s == Len(f[2])
             q == p + l + 4 + k
             w == BytesOf(f)
  <2>1. l \in Nat /\ s \in Nat /\ p \in Nat /\ q \in Nat /\ c \in Nat
    <3>1. l \in Nat /\ s \in Nat /\ p \in Nat /\ c \in Nat
      BY <1>3, <1>5, FileFacts, AtHand
    <3> HIDE DEF l, s
    <3> QED  BY <3>1
  <2>2. CASE q # c
    BY <1>3, <2>1, <2>2 DEF Imaged, OnlyAt
  <2>3. CASE q = c
    <3>1. \A j \in p..c : card'[j] = w[j - p + 1]
      BY <1>5, ByteBlown
    <3>2. w[l + 5 + k] = f[2][k]
      BY <1>5, BytesTyped
    <3> HIDE DEF l, s, w
    <3>3. q \in p..c /\ q - p + 1 = l + 5 + k
      BY ONLY <2>1, <2>3, k \in 1..Len(f[2]) DEF q, s
    <3> HIDE DEF q
    <3>4. card'[q] = f[2][k]
      BY <3>1, <3>2, <3>3
    <3> QED  BY <3>4 DEF q, l
  <2> QED  BY <2>2, <2>3
<1>8. /\ Last(Pointers)' = Last(Pointers)
      /\ (Imaged(card', p, f) <=> Imaged(card, p, f)) => LogOf' = LogOf
      /\ Imaged(card', p, f) => LogOf # <<>> /\ LogOf' = [LogOf EXCEPT ![Len(LogOf)].done = TRUE]
  <2>1. OnlyAt(card, card', c) /\ p = ptr[Len(Stored)] /\ f = intent[Len(intent)]
    BY <1>3, <1>5
  <2> QED  BY <1>1, <1>2, <1>3, <1>4, <1>5, <1>6, <2>1, ImageByte
<1> QED  BY <1>2, <1>7, <1>8

Longer(t, s, x) ==
    /\ Len(t) = Len(s) + 1 /\ t[Len(s) + 1] = x
    /\ \A i \in 1..Len(s) : t[i] = s[i]

LEMMA AppendIs ==
    ASSUME NEW S, NEW s \in Seq(S), NEW t \in Seq(S), NEW x, Longer(t, s, x)
    PROVE  t = Append(s, x)
<1> DEFINE u == Append(s, x)
           n == Len(s)
<1>1. Len(t) = n + 1 /\ t[n + 1] = x /\ \A i \in 1..n : t[i] = s[i]
  BY DEF Longer
<1>2. n \in Nat /\ n + 1 \in 1..Len(t)
  BY <1>1
<1>3. x \in S
  <2>1. t[n + 1] \in S
    BY <1>2
  <2> QED  BY <1>1, <2>1
<1>4. u \in Seq(S) /\ Len(u) = n + 1 /\ u[n + 1] = x /\ \A i \in 1..n : u[i] = s[i]
  BY <1>3, OneMore
<1> HIDE DEF u
<1>5. \A i \in 1..(n + 1) : t[i] = u[i]
  <2> SUFFICES ASSUME NEW i \in 1..(n + 1) PROVE t[i] = u[i]
    OBVIOUS
  <2>1. i = n + 1 \/ i \in 1..n
    BY <1>2
  <2> QED  BY <1>1, <1>4, <2>1
<1>6. t = u
  BY <1>1, <1>4, <1>5, SeqEqual
<1> QED  BY <1>6 DEF u

\* The last byte of a header: the log has a new entry.
LEMMA EntryLogged ==
    ASSUME TypeInv, TypeInv', NEW ptr, Arranged(ptr), BlowByte, Completes
    PROVE  /\ HeaderLeft /\ ~HeaderLeft'
           /\ SizeOf(op.file) <= Free /\ Free' = Free - SizeOf(op.file)
           /\ op.file \in Names \X Contents
           /\ \E done : LogOf' = Append(LogOf, [name |-> op.file[1], data |-> op.file[2],
                                                done |-> done, live |-> TRUE])
<1> PICK f : f = op.file
  OBVIOUS
<1> DEFINE n == Len(intent)
           s == Skip
           l == Len(Stored)
           e == ptr[l + 1]
           z == SizeOf(f)
<1>1. HeaderLeft /\ ~HeaderLeft' /\ intent' = Append(intent, f)
  BY ByteIntent
<1>2. PICK q : q = Append(ptr, e + z) /\ Arranged(q)' /\ Stored' = Append(Stored, f)
  BY ByteArranges
<1>3. OnlyAt(card, card', op.at) /\ Laid(card, ptr, Stored) /\ op.pc # "idle" /\ Blowing(ptr)
  BY ByteOnly
<1>4. Shape(ptr) /\ Shape(q)'
  <2>1. Laid(card', q, Stored')
    BY <1>2 DEF Arranged
  <2> QED  BY <1>3, <2>1, LogShape, LogShapeNext
<1>5. f \in Files /\ f \in Names \X Contents /\ z \in Nat /\ e \in Nat /\ e + z <= Cap /\ e = op.entry
      /\ f # NullEntry
  BY <1>1, <1>3, AtHand, FileFacts, EndIs DEF Blowing
<1>6. ptr \in Seq(0..Cap) /\ Len(ptr) = l + 1 /\ Stored \in Seq(Files) /\ intent \in Seq(Files)
  BY <1>3, StoredIs DEF Laid
<1>7. /\ s \in 0..1 /\ l = n + s /\ n \in Nat /\ Len(LogOf) = n
      /\ LogOf \in Seq([name : Names, data : Contents, done : BOOLEAN, live : BOOLEAN])
      /\ \A j \in 1..n : j + s \in 1..l /\ Stored[j + s] = intent[j]
      /\ \A j \in 1..n : LogOf[j] = Seen(card, ptr[j + s], intent[j])
  BY <1>4 DEF Shape
<1> HIDE DEF n, s, l, e, z
<1>8. /\ Len(q) = (l + 1) + 1 /\ q[(l + 1) + 1] = e + z
      /\ \A j \in 1..(l + 1) : q[j] = ptr[j]
  <2>1. e + z \in 0..Cap
    BY <1>5, Numbers
  <2>2. ptr \in Seq(0..Cap) /\ q = Append(ptr, e + z)
    BY <1>2, <1>6
  <2>3. /\ Len(q) = Len(ptr) + 1 /\ q[Len(ptr) + 1] = e + z
        /\ \A j \in 1..Len(ptr) : q[j] = ptr[j]
    BY ONLY <2>1, <2>2, OneMore
  <2> QED  BY <1>6, <2>3
<1>9. PICK r : r = Stored' /\ Len(r) = l + 1 /\ r[l + 1] = f /\ \A j \in 1..l : r[j] = Stored[j]
  <2> PICK r : r = Stored'
    OBVIOUS
  <2>1. r = Append(Stored, f)
    BY <1>2
  <2>2. Len(r) = Len(Stored) + 1 /\ r[Len(Stored) + 1] = f /\ \A j \in 1..Len(Stored) : r[j] = Stored[j]
    BY ONLY <1>5, <1>6, <2>1, OneMore
  <2> QED  BY <2>2 DEF l
<1>10. PICK g : g = intent' /\ Len(g) = n + 1 /\ g[n + 1] = f /\ \A j \in 1..n : g[j] = intent[j]
  <2> PICK g : g = intent'
    OBVIOUS
  <2>1. g = Append(intent, f)
    BY <1>1
  <2>2. Len(g) = Len(intent) + 1 /\ g[Len(intent) + 1] = f /\ \A j \in 1..Len(intent) : g[j] = intent[j]
    BY ONLY <1>5, <1>6, <2>1, OneMore
  <2> QED  BY <2>2 DEF n
<1>11. Free = Cap - e /\ Free' = Cap - (e + z)
  <2>1. Last(Pointers) = e
    BY <1>4 DEF Shape, e, l
  <2>2. Last(Pointers)' = q[Len(r) + 1]
    BY <1>4, <1>9 DEF Shape
  <2>3. q[Len(r) + 1] = e + z
    BY <1>8, <1>9
  <2> QED  BY <2>1, <2>2, <2>3 DEF Free
<1>12. z <= Cap - e /\ Cap - (e + z) = (Cap - e) - z
  BY <1>5, Numbers
<1>13. PICK s2 : s2 = Skip'
  OBVIOUS
<1>14. s2 = s
  <2>1. s2 \in 0..1 /\ Len(r) = Len(g) + s2
    BY <1>4, <1>9, <1>10, <1>13 DEF Shape
  <2> QED  BY <1>7, <1>9, <1>10, <2>1
<1> PICK t : t = LogOf'
  OBVIOUS
<1> PICK m2 : m2 = card'
  OBVIOUS
<1>15. t = [j \in 1..(n + 1) |-> Seen(m2, q[j + s], g[j])]
  BY <1>4, <1>10, <1>13, <1>14 DEF Shape
<1>16. ASSUME NEW j \in 1..n PROVE t[j] = LogOf[j]
  <2>1. j + s \in 1..l /\ j \in 1..(n + 1) /\ j + s \in 1..(l + 1)
    BY <1>7
  <2>2. q[j + s] = ptr[j + s] /\ g[j] = Stored[j + s]
    BY <1>7, <1>8, <1>10, <2>1
  <2>3. \A k \in 1..Len(Stored) : Seen(m2, ptr[k], Stored[k]) = Seen(card, ptr[k], Stored[k])
    <3> PICK c : c = op.at
      OBVIOUS
    <3> PICK fs : fs = Stored
      OBVIOUS
    <3>1. Laid(card, ptr, fs) /\ OnlyAt(card, m2, c) /\ c >= ptr[Len(fs) + 1]
      BY <1>1, <1>3, ByteKeeps
    <3>2. \A k \in 1..Len(fs) : Seen(m2, ptr[k], fs[k]) = Seen(card, ptr[k], fs[k])
      BY ONLY <3>1, AboveAll
    <3> QED  BY <3>2
  <2>4. t[j] = Seen(m2, q[j + s], g[j])
    BY <1>15, <2>1
  <2>5. Seen(m2, ptr[j + s], Stored[j + s]) = Seen(card, ptr[j + s], Stored[j + s])
    BY <2>1, <2>3 DEF l
  <2> QED  BY <1>7, <2>2, <2>4, <2>5
<1>17. t[n + 1] = Seen(m2, e, f)
  <2>1. n + 1 \in 1..(n + 1) /\ (n + 1) + s = l + 1 /\ l + 1 \in 1..(l + 1)
    BY <1>7
  <2>2. t[n + 1] = Seen(m2, q[(n + 1) + s], g[n + 1])
    BY <1>15, <2>1
  <2> QED  BY <1>8, <1>10, <2>1, <2>2 DEF e
<1>18. m2[e + 1] # 0
  <2> DEFINE k == Len(f[1])
             w == BytesOf(f)
             a == op.at
  <2>1. k \in Nat /\ k >= 2 /\ f[1][1] = Slash /\ e <= a /\ a \in Nat
    BY <1>3, <1>5, FileFacts, AtHand DEF Blowing
  <2>2. a >= e + 1
    <3> DEFINE u == Len(op.todo)
               v == Len(op.file[2])
    <3>1. u = v + 1 /\ a + u = e + z /\ z = k + 5 + v /\ v \in Nat
      BY <1>3, <1>5, FileFacts DEF Completes, Blowing, z
    <3> HIDE DEF u, v, k, a
    <3> QED  BY <1>5, <2>1, <3>1
  <2>3. \A j \in e..a : m2[j] = w[j - e + 1]
    BY <1>5, ByteBlown
  <2>4. w[2] = f[1][1]
    <3>1. w[2] = HeaderOf(f)[2]
      <4>1. 2 \in 1..(k + 5)
        BY <2>1
      <4> QED  BY <1>5, <4>1, BytesTyped
    <3>2. HeaderOf(f)[1 + 1] = f[1][1]
      <4>1. 1 \in 1..k
        BY <2>1
      <4> QED  BY <1>5, <4>1, HeaderIs
    <3> QED  BY <3>1, <3>2
  <2> HIDE DEF w, a, k
  <2>5. e + 1 \in e..a /\ (e + 1) - e + 1 = 2
    BY <1>5, <2>1, <2>2
  <2>6. m2[e + 1] = Slash
    BY <2>1, <2>3, <2>4, <2>5
  <2> QED  BY <2>6, ChainAssumption
<1>19. PICK d : Seen(m2, e, f) = [name |-> f[1], data |-> f[2], done |-> d, live |-> TRUE]
  <2>1. (m2[e + 1] # 0) = TRUE
    BY <1>18, Zenon
  <2>2. Seen(m2, e, f) = [name |-> f[1], data |-> f[2], done |-> Imaged(m2, e, f), live |-> TRUE]
    BY <2>1, Zenon DEF Seen
  <2> QED  BY <2>2, Zenon
<1>20. t = Append(LogOf, Seen(m2, e, f))
  <2> PICK x : x = Seen(m2, e, f)
    OBVIOUS
  <2> PICK u : u = LogOf
    OBVIOUS
  <2>1. t \in Seq([name : Names, data : Contents, done : BOOLEAN, live : BOOLEAN]) /\ Len(t) = n + 1
    BY <1>4, <1>10 DEF Shape
  <2>2. n = Len(u) /\ t[n + 1] = x /\ \A j \in 1..n : t[j] = u[j]
    BY <1>7, <1>16, <1>17
  <2>3. u \in Seq([name : Names, data : Contents, done : BOOLEAN, live : BOOLEAN])
    BY <1>7
  <2>5. Longer(t, u, x)
    BY <2>1, <2>2 DEF Longer
  <2>4. t = Append(u, x)
    BY ONLY <2>1, <2>3, <2>5, AppendIs
  <2> QED  BY <2>4
<1>21. LogOf' = Append(LogOf, [name |-> op.file[1], data |-> op.file[2], done |-> d, live |-> TRUE])
  BY <1>19, <1>20
<1> QED  BY <1>1, <1>5, <1>11, <1>12, <1>21 DEF z

\* A byte that failed, in an image: it is wrong unless nothing was to be done.
LEMMA ErrorByte ==
    ASSUME ~HeaderFaults, TypeInv, NEW ptr, Arranged(ptr), BlowError
    PROVE  /\ OnlyAt(card, card', op.at) /\ Laid(card, ptr, Stored) /\ Blowing(ptr)
           /\ op.pc = "blow" /\ op.pc # "idle" /\ ~HeaderLeft /\ op.todo # <<>>
           /\ card[op.at] = FF /\ Head(op.todo) = BytesOf(op.file)[op.at - op.entry + 1]
           /\ card'[op.at] = Head(op.todo) <=> Head(op.todo) = FF
           /\ intent' = intent /\ op' = [op EXCEPT !.pc = "mark"]
<1> PICK c : c = op.at
  OBVIOUS
<1> PICK b : b = Head(op.todo)
  OBVIOUS
<1>1. op.pc = "blow" /\ op.pc # "idle" /\ op.todo # <<>> /\ intent' = intent /\ op' = [op EXCEPT !.pc = "mark"]
  BY DEF BlowError
<1>2. Laid(card, ptr, Stored) /\ Blowing(ptr) /\ ~HeaderLeft
  BY <1>1, ErrorArranges DEF Arranged
<1>3. /\ c < Cap /\ c \in 0..(Cap - 1) /\ card[c] = FF /\ b \in Byte
      /\ b = BytesOf(op.file)[op.at - op.entry + 1]
  BY <1>1, <1>2, BlowingIs
<1>4. Blown(card[c], b) = b
  BY <1>3, BlownTyped, Numbers
<1>5. \E r \in Misblown(card[c], b) : card' = [card EXCEPT ![c] = r]
  BY <1>3, <1>4 DEF BlowError
<1>6. PICK r \in Byte : /\ card' = [card EXCEPT ![c] = r]
                        /\ Blown(card[c], r) = r /\ Blown(r, b) = b /\ (r # b \/ b = card[c])
  BY <1>5, Zenon DEF Misblown
<1>7. card \in Memory /\ c \in Nat
  BY <1>1, AtHand DEF TypeInv, TypeOK, Memory
<1>8. card'[c] = r /\ \A q \in Nat : q # c => card'[q] = card[q]
  <2> PICK m2 : m2 = card'
    OBVIOUS
  <2>1. m2 = [card EXCEPT ![c] = r]
    BY <1>6
  <2>2. m2[c] = r /\ \A q \in Nat : q # c => m2[q] = card[q]
    BY <1>3, <1>7, <2>1, OneByte
  <2> QED  BY <2>2
<1>9. r = b <=> b = FF
  <2>1. r = b => b = FF
    BY <1>3, <1>6
  <2>2. b = FF => r = b
    BY <1>6, BitAssumption DEF Blown
  <2> QED  BY <2>1, <2>2
<1> QED  BY <1>1, <1>2, <1>3, <1>7, <1>8, <1>9 DEF OnlyAt

LEMMA ErrorLogged ==
    ASSUME ~HeaderFaults, TypeInv, TypeInv', NEW ptr, Arranged(ptr), BlowError
    PROVE  LogOf' = LogOf /\ Last(Pointers)' = Last(Pointers) /\ Writing /\ ~Writing'
<1> PICK p : p = ptr[Len(Stored)]
  OBVIOUS
<1> PICK f : f = op.file
  OBVIOUS
<1> PICK c : c = op.at
  OBVIOUS
<1>1. /\ OnlyAt(card, card', c) /\ Laid(card, ptr, Stored) /\ Blowing(ptr)
      /\ op.pc = "blow" /\ op.pc # "idle" /\ ~HeaderLeft /\ op.todo # <<>>
      /\ card[c] = FF /\ Head(op.todo) = BytesOf(f)[c - op.entry + 1]
      /\ card'[c] = Head(op.todo) <=> Head(op.todo) = FF
      /\ intent' = intent /\ op' = [op EXCEPT !.pc = "mark"]
  BY ErrorByte
<1>2. /\ AtLast(ptr) /\ p = op.entry /\ f = intent[Len(intent)] /\ f = Stored[Len(Stored)] /\ f \in Files
      /\ Len(intent) # 0
  <2>1. AtLast(ptr)
    BY <1>1 DEF Blowing
  <2>2. intent # <<>> /\ intent \in Seq(Files) /\ Len(intent) \in Nat
    BY <2>1, StoredIs DEF AtLast
  <2>3. Len(intent) # 0
    BY <2>2
  <2> QED  BY <1>1, <2>1, <2>3, LastAtHand, AtHand DEF AtLast
<1> DEFINE l == Len(f[1])
           s == Len(f[2])
           t == Len(op.todo)
           z == SizeOf(f)
           w == BytesOf(f)
<1>3. /\ l \in Nat /\ s \in Nat /\ z = l + 5 + s /\ z \in Nat /\ t \in Nat /\ t >= 1 /\ p \in Nat /\ c \in Nat
      /\ c + t = p + z /\ c >= p + l + 5
  <2>1. l \in Nat /\ s \in Nat /\ z = l + 5 + s /\ z \in Nat /\ t \in Nat /\ p \in Nat /\ c \in Nat
    BY <1>1, <1>2, AtHand, FileFacts
  <2>2. c + t = p + z
    BY <1>1, <1>2 DEF Blowing
  <2>3. t >= 1 /\ c >= p + l + 5
    BY <1>1, <1>2, BlowingIs
  <2> QED  BY <2>1, <2>2, <2>3
<1>4. InEntry(c, p, f) /\ c >= p + Len(f[1]) + 5
  <2>1. p <= c /\ c < p + z
    <3> HIDE DEF l, s, t, z
    <3> QED  BY <1>3
  <2> QED  BY <1>3, <2>1 DEF InEntry
<1>5. Arranged(ptr)'
  BY ErrorArranges
<1>6. HasNull' = HasNull /\ Stored' = Stored
  <2>1. card'[0] = card[0]
    <3>1. c # 0
      <4> HIDE DEF l, s, t, z
      <4> QED  BY <1>3
    <3> QED  BY <1>1, <3>1 DEF OnlyAt
  <2>2. ReadByte(card, 0)' = ReadByte(card, 0)
    BY <2>1, Numbers DEF ReadByte
  <2>3. HasNull' = HasNull
    BY <2>2 DEF HasNull, NameLength
  <2> QED  BY <1>1, <2>3 DEF Stored
<1>7. Shape(ptr) /\ Shape(ptr)'
  <2>1. Laid(card', ptr, Stored')
    BY <1>5 DEF Arranged
  <2> QED  BY <1>1, <2>1, LogShape, LogShapeNext
<1>8. \A k \in 1..s : card'[p + l + 4 + k] = f[2][k] <=> card[p + l + 4 + k] = f[2][k]
  <2> SUFFICES ASSUME NEW k \in 1..s
               PROVE  card'[p + l + 4 + k] = f[2][k] <=> card[p + l + 4 + k] = f[2][k]
    OBVIOUS
  <2> DEFINE q == p + l + 4 + k
  <2>1. w[l + 5 + k] = f[2][k]
    BY <1>2, BytesTyped
  <2> HIDE DEF l, s, t, z, w
  <2>2. q \in Nat
    BY ONLY <1>3, k \in 1..s DEF q
  <2>3. CASE q # c
    BY <1>1, <2>2, <2>3 DEF OnlyAt
  <2>4. CASE q = c
    <3>1. c - op.entry + 1 = l + 5 + k
      BY <1>2, <1>3, <2>4
    <3>2. Head(op.todo) = f[2][k]
      BY <1>1, <2>1, <3>1 DEF w
    <3> HIDE DEF q
    <3>3. card'[q] = f[2][k] <=> card[q] = f[2][k]
      BY <1>1, <2>4, <3>2
    <3> QED  BY <3>3 DEF q
  <2> QED  BY <2>3, <2>4
<1>9. Imaged(card', p, f) <=> Imaged(card, p, f)
  BY <1>8 DEF Imaged
<1>10. LogOf' = LogOf /\ Last(Pointers)' = Last(Pointers)
  <2>1. p = ptr[Len(Stored)]
    OBVIOUS
  <2> QED  BY <1>1, <1>2, <1>4, <1>6, <1>7, <1>9, <2>1, ImageByte
<1>11. Writing /\ ~Writing'
  <2>1. op \in Ops
    BY DEF TypeInv, TypeOK
  <2>2. op'.pc = "mark"
    BY <1>1, <2>1 DEF Ops
  <2> QED  BY <1>1, <2>2 DEF Writing
<1> QED  BY <1>10, <1>11

\* A fresh area is an empty log.
LEMMA LogInit == Init => LogOf = <<>> /\ Free \in 0..Cap /\ ~Writing
<1> SUFFICES ASSUME Init PROVE LogOf = <<>> /\ Free \in 0..Cap /\ ~Writing
  OBVIOUS
<1>1. AreaInv /\ TypeInv
  BY LayoutInit DEF AreaInv
<1>2. PICK ptr : Arranged(ptr)
  BY <1>1 DEF AreaInv, Layout
<1>3. Laid(card, ptr, Stored)
  BY <1>2 DEF Arranged
<1>4. Shape(ptr)
  BY <1>1, <1>3, LogShape
<1>5. intent = <<>> /\ op.pc = "idle"
  BY DEF Init, Idle
<1>6. LogOf = <<>>
  <2>1. LogOf \in Seq([name : Names, data : Contents, done : BOOLEAN, live : BOOLEAN]) /\ Len(LogOf) = 0
    BY <1>4, <1>5 DEF Shape
  <2> QED  BY <2>1
<1>7. Free = Cap - ptr[Len(Stored) + 1]
  BY <1>4 DEF Shape, Free
<1> DEFINE e == ptr[Len(Stored) + 1]
<1>8. e \in 0..Cap /\ Cap \in Nat
  BY <1>3, EndIs, Numbers
<1> HIDE DEF e
<1>9. Cap - e \in 0..Cap
  BY <1>8
<1> QED  BY <1>5, <1>6, <1>7, <1>9 DEF Writing, e

\* What a step is for the log.
LogSame == LogOf' = LogOf /\ Free' = Free

LEMMA DeleteLogged ==
    ASSUME AreaInv, AreaInv', NEW ptr, Arranged(ptr), Arranged(ptr)', Stored' = Stored, intent' = intent,
           NEW i \in 1..Len(intent), BlowDeleted(ptr[i + Skip])
    PROVE  /\ Free' = Free
           /\ LogOf' = LogOf \/ (i \in DOMAIN LogOf /\ LogOf' = [LogOf EXCEPT ![i].live = FALSE])
<1>1. TypeInv /\ TypeInv' /\ Laid(card, ptr, Stored) /\ Laid(card', ptr, Stored')
  BY DEF AreaInv, Arranged
<1>2. Shape(ptr) /\ Shape(ptr)'
  BY <1>1, LogShape, LogShapeNext
<1>3. i \in DOMAIN LogOf
  BY <1>2 DEF Shape
<1>4. /\ Last(Pointers)' = Last(Pointers)
      /\ LogOf' = LogOf \/ LogOf' = [LogOf EXCEPT ![i].live = FALSE]
  BY <1>1, <1>2, DeleteSeen
<1> QED  BY <1>3, <1>4 DEF Free

\* What LogOf and the free space are does not depend on what is going on.
LEMMA SameCard ==
    ASSUME card' = card, intent' = intent PROVE LogSame
<1>1. Pointers' = Pointers
  BY DEF Pointers
<1>2. LogOf' = LogOf
  BY <1>1 DEF LogOf, ImageOnCard
<1> QED  BY <1>1, <1>2 DEF LogSame, Free

LEMMA NullStays ==
    ASSUME card'[0] = card[0], intent' = intent PROVE Stored' = Stored
<1>1. ReadByte(card, 0)' = ReadByte(card, 0)
  BY Numbers DEF ReadByte
<1>2. HasNull' = HasNull
  BY <1>1 DEF HasNull, NameLength
<1> QED  BY <1>2 DEF Stored

LEMMA DeletedStays ==
    ASSUME TypeInv, NEW p \in Nat, BlowDeleted(p), intent' = intent PROVE Stored' = Stored
<1>1. card'[0] = card[0]
  <2>1. p + 1 # 0 /\ 0 \in Nat
    OBVIOUS
  <2> QED  BY <2>1, DeletedByte
<1> QED  BY <1>1, NullStays

LEMMA MarkLogged ==
    ASSUME ~HeaderFaults, AreaInv, AreaInv', MarkDeleted
    PROVE  /\ Free' = Free /\ ~Writing /\ ~Writing'
           /\ LogOf' = LogOf \/ \E i \in DOMAIN LogOf : LogOf' = [LogOf EXCEPT ![i].live = FALSE]
<1>1. PICK ptr : Arranged(ptr)
  BY DEF AreaInv, Layout
<1>2. TypeInv /\ op.pc = "mark" /\ op.pc # "idle" /\ op.pc # "blow" /\ BlowDeleted(op.entry) /\ op' = Idle /\ intent' = intent
  BY DEF AreaInv, MarkDeleted
<1>3. Laid(card, ptr, Stored) /\ AtLast(ptr)
  BY <1>1, <1>2 DEF Arranged
<1>4. Arranged(ptr)'
  BY <1>1, <1>2, MarkArranges
<1>5. op.entry = ptr[Len(Stored)] /\ op.entry \in Nat /\ Len(intent) # 0
  <2>1. intent # <<>> /\ intent \in Seq(Files)
    BY <1>2, <1>3, StoredIs DEF AtLast
  <2> QED  BY <1>2, <1>3, <2>1, AtHand DEF AtLast
<1>6. Stored' = Stored
  BY <1>2, <1>5, DeletedStays
<1>7. Skip \in 0..1 /\ Len(Stored) = Len(intent) + Skip /\ Len(intent) \in Nat
  BY <1>2, <1>3, LogShape DEF Shape
<1> PICK i : i = Len(intent)
  OBVIOUS
<1>8. i \in 1..Len(intent) /\ i + Skip = Len(Stored)
  BY <1>5, <1>7
<1>9. BlowDeleted(ptr[i + Skip])
  BY <1>2, <1>5, <1>8
<1>10. /\ Free' = Free
       /\ LogOf' = LogOf \/ (i \in DOMAIN LogOf /\ LogOf' = [LogOf EXCEPT ![i].live = FALSE])
  BY <1>1, <1>2, <1>4, <1>6, <1>8, <1>9, DeleteLogged
<1>11. ~Writing /\ ~Writing'
  BY <1>2 DEF Writing, Idle
<1> QED  BY <1>10, <1>11

LEMMA DeleteFileLogged ==
    ASSUME ~HeaderFaults, AreaInv, AreaInv', NEW p \in Range(Entries(card)), FileDelete(p)
    PROVE  /\ Free' = Free /\ ~Writing /\ ~Writing'
           /\ LogOf' = LogOf \/ \E i \in DOMAIN LogOf : LogOf' = [LogOf EXCEPT ![i].live = FALSE]
<1>1. op.pc = "idle" /\ op.pc # "blow" /\ ~Deleted(card, p) /\ BlowDeleted(p) /\ op' = op /\ intent' = intent
  BY DEF FileDelete
<1>2. PICK ptr : Arranged(ptr) /\ Holds(card, ptr, Stored)
  BY <1>1, IdleHolds
<1>3. TypeInv /\ card \in Memory /\ Laid(card, ptr, Stored) /\ (HasNull => card[1] = 0)
  BY <1>1, <1>2, IdleHolds DEF AreaInv, Holds, Arranged
<1>4. Arranged(ptr)'
  BY <1>2, <1>3, DeleteArranges
<1> DEFINE l == Len(Stored)
           n == Len(intent)
           s == Skip
<1>5. PICK k \in 1..l : p = ptr[k]
  BY <1>2, <1>3, Scanned
<1>6. p \in Nat
  BY <1>3, <1>5, LaidBasics
<1>7. Stored' = Stored
  BY <1>1, <1>3, <1>6, DeletedStays
<1>8. s \in 0..1 /\ l = n + s /\ n \in Nat
  BY <1>3, LogShape DEF Shape
<1>9. ~(s = 1 /\ k = 1)
  <2> SUFFICES ASSUME s = 1, k = 1 PROVE FALSE
    OBVIOUS
  <2>1. HasNull
    BY DEF Skip
  <2>2. p = 0 /\ card[p + 1] = 0
    BY <1>3, <1>5, <2>1 DEF Laid
  <2>3. Deleted(card, p) <=> card[p + 1] = 0
    BY <1>3, <1>5, LaidReads DEF EntryReads
  <2> QED  BY <1>1, <2>2, <2>3
<1>10. PICK i : i \in 1..n /\ i + s = k
  <2> HIDE DEF l, n, s
  <2>1. k - s \in 1..n /\ (k - s) + s = k
    BY <1>8, <1>9
  <2> QED  BY <2>1
<1>11. BlowDeleted(ptr[i + Skip])
  BY <1>1, <1>5, <1>10
<1>12. /\ Free' = Free
       /\ LogOf' = LogOf \/ (i \in DOMAIN LogOf /\ LogOf' = [LogOf EXCEPT ![i].live = FALSE])
  BY <1>1, <1>2, <1>4, <1>7, <1>10, <1>11, DeleteLogged
<1>13. ~Writing /\ ~Writing'
  BY <1>1 DEF Writing
<1> QED  BY <1>12, <1>13

LEMMA ByteLogged ==
    ASSUME ~HeaderFaults, AreaInv, AreaInv', BlowByte
    PROVE  \/ LogSame /\ ~Writing /\ ~Writing'
           \/ /\ ~Writing /\ Writing' /\ SizeOf(op.file) <= Free /\ Free' = Free - SizeOf(op.file)
              /\ op.file \in Names \X Contents
              /\ \E done : LogOf' = Append(LogOf, [name |-> op.file[1], data |-> op.file[2],
                                                   done |-> done, live |-> TRUE])
           \/ /\ Writing /\ Writing' /\ Free' = Free
              /\ LogOf' = LogOf \/ (LogOf # <<>> /\ LogOf' = [LogOf EXCEPT ![Len(LogOf)].done = TRUE])
<1>1. PICK ptr : Arranged(ptr)
  BY DEF AreaInv, Layout
<1>2. TypeInv /\ TypeInv'
  BY DEF AreaInv
<1>3. op.pc = "blow" /\ op'.pc = "blow"
  BY <1>1, <1>2, ByteBlown DEF BlowByte
<1>4. (Writing <=> ~HeaderLeft) /\ (Writing' <=> ~HeaderLeft')
  BY <1>3 DEF Writing
<1>5. CASE Completes
  BY <1>1, <1>2, <1>4, <1>5, EntryLogged
<1>6. CASE ~Completes /\ HeaderLeft
  BY <1>1, <1>2, <1>4, <1>6, HeaderByteLogged DEF LogSame, Free
<1>7. CASE ~HeaderLeft
  BY <1>1, <1>2, <1>4, <1>7, ImageByteLogged DEF Free
<1> QED  BY <1>5, <1>6, <1>7

LEMMA SaveLogged ==
    ASSUME AreaInv, NEW n \in Names, NEW d \in Contents, SaveRamFile(n, d)
    PROVE  LogSame /\ ~Writing /\ ~Writing'
<1>1. card' = card /\ intent' = intent /\ op.pc = "idle"
  BY DEF SaveRamFile
<1> PICK f : f = <<n, d>>
  OBVIOUS
<1>2. op' = [pc |-> "blow", entry |-> AllocFilePtr(card), at |-> AllocFilePtr(card),
             todo |-> BytesOf(f), file |-> f]
  BY DEF SaveRamFile, BytesOf, HeaderOf
<1>3. f \in Files
  BY DEF Files
<1> DEFINE l == Len(f[1])
           s == Len(f[2])
           t == Len(op'.todo)
<1>4. t = l + 5 + s /\ l \in Nat /\ s \in Nat /\ op'.file = f
  BY <1>2, <1>3, BytesTyped, FileFacts
<1>5. HeaderLeft'
  <2> HIDE DEF l, s, t
  <2>1. t > s
    BY <1>4
  <2> QED  BY <1>4, <2>1 DEF HeaderLeft, s, t
<1> QED  BY <1>1, <1>5, SameCard DEF Writing

LogStep == Log!Next \/ UNCHANGED Log!vars

\* Four kinds of steps, in terms of what they do to the log.
LEMMA SameStep ==
    ASSUME LogSame, ~Writing' \/ (Writing' <=> Writing) PROVE LogStep
<1>1. CASE Writing' <=> Writing
  <2>1. (Writing)' = Writing
    BY ONLY <1>1, Zenon DEF Writing
  <2>2. UNCHANGED Log!vars
    BY <2>1 DEF Log!vars, Writing, LogSame, Free
  <2> QED  BY <2>2 DEF LogStep
<1>2. CASE Writing /\ ~Writing'
  <2>1. (Writing)' = FALSE
    BY ONLY <1>2, Zenon DEF Writing
  <2>2. Log!Close
    BY <1>2, <2>1 DEF Log!Close, Writing, LogSame, Free
  <2> QED  BY <2>2 DEF LogStep, Log!Next
<1> QED  BY <1>1, <1>2

LEMMA CompleteStep ==
    ASSUME Writing, Writing', Free' = Free, LogOf # <<>>, LogOf' = [LogOf EXCEPT ![Len(LogOf)].done = TRUE]
    PROVE  LogStep
<1>1. (op.pc = "blow" /\ ~HeaderLeft)' \in BOOLEAN
  OBVIOUS
<1>2. Log!Complete
  BY <1>1 DEF Log!Complete, Writing, Free
<1> QED  BY <1>2 DEF LogStep, Log!Next

LEMMA MarkStep ==
    ASSUME ~Writing, ~Writing', Free' = Free, NEW i \in DOMAIN LogOf, LogOf' = [LogOf EXCEPT ![i].live = FALSE]
    PROVE  LogStep
<1>1. (op.pc = "blow" /\ ~HeaderLeft)' = (op.pc = "blow" /\ ~HeaderLeft)
  BY Zenon DEF Writing
<1>2. Log!MarkDeleted(i)
  BY <1>1 DEF Log!MarkDeleted, Writing, Free
<1> QED  BY <1>2 DEF LogStep, Log!Next

LEMMA CreateStep ==
    ASSUME ~Writing, Writing', SizeOf(op.file) <= Free, Free' = Free - SizeOf(op.file),
           op.file \in Names \X Contents, NEW done \in BOOLEAN,
           LogOf' = Append(LogOf, [name |-> op.file[1], data |-> op.file[2], done |-> done, live |-> TRUE])
    PROVE  LogStep
<1>1. (op.pc = "blow" /\ ~HeaderLeft)' = TRUE
  BY Zenon DEF Writing
<1>2. PICK n \in Names, d \in Contents : op.file[1] = n /\ op.file[2] = d /\ op.file = <<n, d>>
  OBVIOUS
<1>3. SizeOf(op.file) = EntrySize(n, d)
  BY <1>2 DEF SizeOf, EntrySize
<1>4. Log!Create(n, d)
  BY <1>1, <1>2, <1>3 DEF Log!Create, Writing, Free
<1> QED  BY <1>4 DEF LogStep, Log!Next

LEMMA ByteStep ==
    ASSUME ~HeaderFaults, AreaInv, AreaInv', BlowByte PROVE LogStep
<1>1. CASE LogSame /\ ~Writing /\ ~Writing'
  BY <1>1, SameStep
<1>2. CASE /\ Writing /\ Writing' /\ Free' = Free
           /\ LogOf' = LogOf \/ (LogOf # <<>> /\ LogOf' = [LogOf EXCEPT ![Len(LogOf)].done = TRUE])
  BY <1>2, SameStep, CompleteStep DEF LogSame
<1>3. CASE /\ ~Writing /\ Writing' /\ SizeOf(op.file) <= Free /\ Free' = Free - SizeOf(op.file)
           /\ op.file \in Names \X Contents
           /\ \E done : LogOf' = Append(LogOf, [name |-> op.file[1], data |-> op.file[2],
                                                done |-> done, live |-> TRUE])
  <2>1. PICK done : LogOf' = Append(LogOf, [name |-> op.file[1], data |-> op.file[2],
                                            done |-> done, live |-> TRUE])
    BY <1>3
  <2>2. done \in BOOLEAN
    <3> PICK x : x = [name |-> op.file[1], data |-> op.file[2], done |-> done, live |-> TRUE]
      OBVIOUS
    <3> DEFINE E == [name : Names, data : Contents, done : BOOLEAN, live : BOOLEAN]
    <3>1. PICK ptr : Arranged(ptr)
      BY DEF AreaInv, Layout
    <3>2. PICK ptr2 : Arranged(ptr2)'
      BY DEF AreaInv, Layout
    <3>3. LogOf \in Seq(E)
      BY <3>1, LogShape DEF Arranged, AreaInv, Shape
    <3>4. LogOf' \in Seq(E)
      BY <3>2, LogShapeNext DEF Arranged, AreaInv, Shape
    <3> PICK s, t : s = LogOf /\ t = LogOf'
      OBVIOUS
    <3>5. s \in Seq(E) /\ t \in Seq(E) /\ t = Append(s, x)
      BY <2>1, <3>3, <3>4
    <3> HIDE DEF E
    <3>6. Len(t) \in 1..Len(t) /\ t[Len(t)] = x
      BY ONLY <3>5
    <3>7. x \in E
      BY ONLY <3>5, <3>6
    <3> QED  BY <3>7 DEF E
  <2> QED  BY <1>3, <2>1, <2>2, CreateStep
<1> QED  BY <1>1, <1>2, <1>3, ByteLogged

\* Every step of the area is a step of the log or changes nothing in it.
LEMMA AreaStep ==
    ASSUME ~HeaderFaults, AreaInv, AreaInv', [Next]_vars PROVE LogStep
<1>1. ASSUME NEW n \in Names, NEW d \in Contents, SaveRamFile(n, d) PROVE LogStep
  BY <1>1, SaveLogged, SameStep
<1>2. CASE BlowByte
  BY <1>2, ByteStep
<1>3. CASE BlowError
  <2>1. PICK ptr : Arranged(ptr)
    BY DEF AreaInv, Layout
  <2>2. LogOf' = LogOf /\ Last(Pointers)' = Last(Pointers) /\ Writing /\ ~Writing'
    BY <1>3, <2>1, ErrorLogged DEF AreaInv
  <2> QED  BY <2>2, SameStep DEF LogSame, Free
<1>4. CASE SaveDone \/ Reset
  <2>1. card' = card /\ intent' = intent /\ op' = Idle
    BY <1>4 DEF SaveDone, Reset
  <2>2. LogSame /\ ~Writing'
    BY <2>1, SameCard DEF Writing, Idle
  <2> QED  BY <2>2, SameStep
<1>5. CASE MarkDeleted
  BY <1>5, MarkLogged, SameStep, MarkStep DEF LogSame
<1>6. ASSUME NEW p \in Range(Entries(card)), FileDelete(p) PROVE LogStep
  BY <1>6, DeleteFileLogged, SameStep, MarkStep DEF LogSame
<1>7. CASE UNCHANGED vars
  <2>1. card' = card /\ intent' = intent /\ op' = op
    BY <1>7 DEF vars
  <2>2. LogSame /\ (Writing' <=> Writing)
    BY <2>1, SameCard DEF Writing, HeaderLeft
  <2> QED  BY <2>2, SameStep
<1> QED  BY <1>1, <1>2, <1>3, <1>4, <1>5, <1>6, <1>7 DEF Next

\* Every byte blown on the card, failed or not, and every reset is a step of the log that
\* FileLog promises or is not seen in it.
THEOREM AreaImplementsLog ==
    ASSUME ~HeaderFaults PROVE Spec => ImplementsLog
<1>1. Init => Log!Init
  <2> SUFFICES ASSUME Init PROVE Log!Init
    OBVIOUS
  <2>1. (op.pc = "blow" /\ ~HeaderLeft) = FALSE
    BY LogInit, Zenon DEF Writing
  <2> QED  BY <2>1, LogInit DEF Log!Init, Free
<1>2. AreaInv /\ AreaInv' /\ [Next]_vars => [Log!Next]_(Log!vars)
  BY AreaStep DEF LogStep
<1>3. Spec => []AreaInv
  BY AreaIsLaidOut
<1> QED  BY <1>1, <1>2, <1>3, PTL DEF Spec, ImplementsLog, Log!Spec

\* What the log promises of the area: the two action properties of FileLog and its types.
LogKept ==
    /\ LogOf' \in Seq(Log!Entry)
    /\ Len(LogOf') >= Len(LogOf)
    /\ \A i \in DOMAIN LogOf : Log!Kept(LogOf[i], LogOf'[i])
    /\ \A i \in DOMAIN LogOf : ~LogOf[i].done /\ LogOf'[i].done => Writing /\ i = Len(LogOf)

\* What entry i of a log may become: completed if it is the last, or deleted.
Changes(l, i, e, w) ==
    /\ Log!Kept(l[i], e)
    /\ ~l[i].done /\ e.done => w /\ i = Len(l)

LEMMA LogChanged ==
    ASSUME NEW l \in Seq(Log!Entry), NEW k, NEW w \in BOOLEAN,
           NEW i \in DOMAIN l, NEW e \in Log!Entry, k = [l EXCEPT ![i] = e],
           Changes(l, i, e, w)
    PROVE  /\ k \in Seq(Log!Entry) /\ Len(k) >= Len(l)
           /\ \A j \in DOMAIN l : Log!Kept(l[j], k[j])
           /\ \A j \in DOMAIN l : ~l[j].done /\ k[j].done => w /\ j = Len(l)
<1>1. k \in Seq(Log!Entry) /\ Len(k) = Len(l) /\ Len(l) \in Nat
  OBVIOUS
<1>2. k[i] = e /\ \A j \in DOMAIN l : j # i => k[j] = l[j]
  OBVIOUS
<1>3. \A j \in DOMAIN l : Log!Kept(l[j], k[j])
  BY <1>2 DEF Log!Kept, Changes
<1>4. \A j \in DOMAIN l : ~l[j].done /\ k[j].done => w /\ j = Len(l)
  BY <1>2 DEF Changes
<1> QED  BY <1>1, <1>3, <1>4

LEMMA LogKeeps ==
    ASSUME LogOf \in Seq(Log!Entry), LogStep
    PROVE  LogKept
<1> PICK l : l = LogOf
  OBVIOUS
<1> PICK w \in BOOLEAN : w = Writing
  BY DEF Writing
<1> DEFINE Goal(k) ==
        /\ k \in Seq(Log!Entry) /\ Len(k) >= Len(l)
        /\ \A j \in DOMAIN l : Log!Kept(l[j], k[j])
        /\ \A j \in DOMAIN l : ~l[j].done /\ k[j].done => w /\ j = Len(l)
<1> SUFFICES Goal(LogOf')
  BY DEF LogKept
<1>1. l \in Seq(Log!Entry) /\ Len(l) \in Nat
  OBVIOUS
<1>2. ASSUME LogOf' = l PROVE Goal(LogOf')
  <2> PICK k : k = LogOf'
    OBVIOUS
  <2>1. Goal(k)
    BY ONLY <1>1, <1>2, k = LogOf' DEF Log!Kept
  <2> QED  BY <2>1
<1>3. CASE UNCHANGED Log!vars
  BY <1>2, <1>3 DEF Log!vars
<1>4. ASSUME NEW n \in Names, NEW d \in Contents, Log!Create(n, d) PROVE Goal(LogOf')
  <2>1. PICK done \in BOOLEAN :
            LogOf' = Append(LogOf, [name |-> n, data |-> d, done |-> done, live |-> TRUE])
    BY <1>4 DEF Log!Create
  <2> PICK e : e = [name |-> n, data |-> d, done |-> done, live |-> TRUE]
    OBVIOUS
  <2> PICK k : k = LogOf'
    OBVIOUS
  <2>2. e \in Log!Entry
    BY DEF Log!Entry
  <2>3. k = Append(l, e)
    BY <2>1
  <2>4. /\ k \in Seq(Log!Entry) /\ Len(k) = Len(l) + 1
        /\ \A i \in DOMAIN l : k[i] = l[i]
    BY ONLY <1>1, <2>2, <2>3
  <2>5. Goal(k)
    BY ONLY <1>1, <2>4 DEF Log!Kept
  <2> QED  BY <2>5
<1>5. CASE Log!Complete
  <2> PICK k : k = LogOf'
    OBVIOUS
  <2> PICK m : m = Len(l)
    OBVIOUS
  <2>0. w
    <3>1. Writing
      BY <1>5, Zenon DEF Log!Complete, Writing
    <3> QED  BY <3>1
  <2>1. m \in DOMAIN l /\ l[m] \in Log!Entry
    <3>1. l # <<>>
      BY <1>5 DEF Log!Complete
    <3> QED  BY ONLY <1>1, <3>1, m = Len(l)
  <2> PICK e : e = [l[m] EXCEPT !.done = TRUE]
    OBVIOUS
  <2>2. /\ e \in Log!Entry /\ e.done
        /\ e.name = l[m].name /\ e.data = l[m].data /\ e.live = l[m].live
    BY <2>1 DEF Log!Entry
  <2>3. k = [l EXCEPT ![m] = e]
    BY <1>5 DEF Log!Complete
  <2>4. Changes(l, m, e, w)
    BY ONLY <2>0, <2>1, <2>2, m = Len(l) DEF Changes, Log!Kept
  <2>5. Goal(k)
    BY ONLY <1>1, <2>1, <2>2, <2>3, <2>4, LogChanged, w \in BOOLEAN
  <2> QED  BY <2>5
<1>6. CASE Log!Close
  BY <1>2, <1>6 DEF Log!Close
<1>7. ASSUME NEW i \in DOMAIN LogOf, Log!MarkDeleted(i) PROVE Goal(LogOf')
  <2> PICK k : k = LogOf'
    OBVIOUS
  <2>1. i \in DOMAIN l /\ l[i] \in Log!Entry
    BY <1>1
  <2> PICK e : e = [l[i] EXCEPT !.live = FALSE]
    OBVIOUS
  <2>2. /\ e \in Log!Entry /\ ~e.live
        /\ e.name = l[i].name /\ e.data = l[i].data /\ e.done = l[i].done
    BY <2>1 DEF Log!Entry
  <2>3. k = [l EXCEPT ![i] = e]
    BY <1>7 DEF Log!MarkDeleted
  <2>4. Changes(l, i, e, w)
    BY ONLY <2>1, <2>2 DEF Changes, Log!Entry, Log!Kept
  <2>5. Goal(k)
    BY ONLY <1>1, <2>1, <2>2, <2>3, <2>4, LogChanged, w \in BOOLEAN
  <2> QED  BY <2>5
<1> QED  BY <1>3, <1>4, <1>5, <1>6, <1>7 DEF LogStep, Log!Next

LEMMA LogTyped == Log!Init => LogOf \in Seq(Log!Entry)
<1> SUFFICES ASSUME Log!Init PROVE LogOf \in Seq(Log!Entry)
  OBVIOUS
<1>1. LogOf = <<>>
  BY DEF Log!Init
<1> QED  BY <1>1

LEMMA LogStays ==
    LogOf \in Seq(Log!Entry) /\ [Log!Next]_(Log!vars) =>
        (LogOf \in Seq(Log!Entry))'
<1> SUFFICES ASSUME LogOf \in Seq(Log!Entry), LogStep PROVE LogOf' \in Seq(Log!Entry)
  BY DEF LogStep
<1> QED  BY LogKeeps DEF LogKept

\* Whatever is saved, deleted, failed or cut off, the entries on the card keep their
\* places, names and images, do not become incomplete, and do not come back once deleted.
THEOREM AreaKeepsEntries ==
    ASSUME ~HeaderFaults PROVE Spec => Log!EntriesKept
<1>1. LogOf \in Seq(Log!Entry) /\ [Log!Next]_(Log!vars) =>
          [ /\ Len(LogOf') >= Len(LogOf)
            /\ \A i \in DOMAIN LogOf : Log!Kept(LogOf[i], LogOf'[i]) ]_(Log!vars)
  BY LogKeeps DEF LogKept, LogStep
<1> QED  BY <1>1, LogTyped, LogStays, AreaImplementsLog, PTL
            DEF ImplementsLog, Log!Spec, Log!EntriesKept

\* An image that was left incomplete is never completed by a later save: an entry becomes
\* complete only while it is the last one and its bytes are being blown.
THEOREM AreaLeavesTornImages ==
    ASSUME ~HeaderFaults PROVE Spec => Log!TornStaysTorn
<1>1. LogOf \in Seq(Log!Entry) /\ [Log!Next]_(Log!vars) =>
          [ \A i \in DOMAIN LogOf :
                ~LogOf[i].done /\ LogOf'[i].done =>
                    (op.pc = "blow" /\ ~HeaderLeft) /\ i = Len(LogOf) ]_(Log!vars)
  BY LogKeeps DEF LogKept, LogStep, Writing
<1> QED  BY <1>1, LogTyped, LogStays, AreaImplementsLog, PTL
            DEF ImplementsLog, Log!Spec, Log!TornStaysTorn

\* The log of an area is a sequence of entries and its free space is never negative nor
\* more than the area, whatever lies on the card: a save never runs into the header.
THEOREM AreaLogTyped ==
    ASSUME ~HeaderFaults PROVE Spec => []Log!TypeOK
<1>1. AreaInv => Log!TypeOK
  <2> SUFFICES ASSUME AreaInv PROVE Log!TypeOK
    OBVIOUS
  <2>1. PICK ptr : Arranged(ptr)
    BY DEF AreaInv, Layout
  <2>2. Laid(card, ptr, Stored)
    BY <2>1 DEF Arranged
  <2>3. Shape(ptr)
    BY <2>2, LogShape DEF AreaInv
  <2>4. LogOf \in Seq(Log!Entry)
    BY <2>3 DEF Shape, Log!Entry
  <2>5. Cap - Last(Pointers) \in 0..Cap
    <3> DEFINE e == ptr[Len(Stored) + 1]
    <3>1. e \in 0..Cap /\ Cap \in Nat
      BY <2>2, EndIs, Numbers
    <3>2. Last(Pointers) = e
      BY <2>3 DEF Shape
    <3> HIDE DEF e
    <3> QED  BY <3>1, <3>2
  <2>6. (op.pc = "blow" /\ ~HeaderLeft) \in BOOLEAN
    OBVIOUS
  <2> QED  BY <2>4, <2>5, <2>6 DEF Log!TypeOK
<1>2. Spec => []AreaInv
  BY AreaIsLaidOut
<1> QED  BY <1>1, <1>2, PTL

----------------------------------------------------------------------------
(* Walking back from the last file *)

LEMMA PtrIs ==
    ASSUME NEW m, NEW ptr, NEW fs, Laid(m, ptr, fs)
    PROVE  /\ Len(fs) \in Nat /\ ptr[1] = 0
           /\ \A i \in 1..(Len(fs) + 1) : ptr[i] \in Nat /\ ptr[i] \in 0..CardSpan /\ ptr[i] # NoEntry
           /\ \A i, j \in 1..(Len(fs) + 1) : i < j => ptr[i] < ptr[j]
<1> DEFINE n == Len(fs)
<1>1. n \in Nat /\ ptr[1] = 0
  BY LaidBasics DEF Laid
<1>2. ASSUME NEW i \in 1..(n + 1) PROVE ptr[i] \in Nat /\ ptr[i] \in 0..CardSpan /\ ptr[i] # NoEntry
  <2>1. ptr[i] \in 0..Cap
    BY LaidBasics
  <2> QED  BY ONLY <2>1, Numbers DEF NoEntry
<1>3. ASSUME NEW i \in 1..(n + 1), NEW j \in 1..(n + 1), i < j PROVE ptr[i] < ptr[j]
  <2> DEFINE z == SizeOf(fs[i])
  <2>1. i \in 1..n
    BY ONLY <1>1, <1>3
  <2>2. ptr[i] + z <= ptr[j]
    BY <1>3, <2>1, LaidInOrder
  <2>3. z \in Nat /\ z >= 6
    BY <2>1, LaidBasics
  <2>4. ptr[i] \in Nat /\ ptr[j] \in Nat
    BY <1>2
  <2> HIDE DEF z
  <2> QED  BY ONLY <2>2, <2>3, <2>4
<1> QED  BY <1>1, <1>2, <1>3

LEMMA NextIs ==
    ASSUME NEW m \in Memory, NEW ptr, NEW fs, Holds(m, ptr, fs), NEW i \in 1..Len(fs)
    PROVE  NextFile(m, ptr[i]) = IF i = Len(fs) THEN NoEntry ELSE ptr[i + 1]
<1> DEFINE n == Len(fs)
<1>1. n \in Nat /\ Laid(m, ptr, fs)
  BY LaidBasics DEF Holds
<1>2. ~AtEnd(m, ptr[i]) /\ NextEntry(m, ptr[i]) = ptr[i + 1]
  <2>1. EntryReads(m, ptr[i], fs[i])
    BY <1>1, LaidReads
  <2>2. ptr[i + 1] = ptr[i] + SizeOf(fs[i])
    BY <1>1, LaidBasics
  <2> QED  BY ONLY <2>1, <2>2 DEF EntryReads
<1>3. CASE i = n
  <2>1. AtEnd(m, ptr[n + 1])
    BY Scanned DEF ScanReturns, AllocFilePtr
  <2> QED  BY <1>2, <1>3, <2>1 DEF NextFile
<1>4. CASE i # n
  <2>1. i + 1 \in 1..n
    BY ONLY <1>1, <1>4, i \in 1..n
  <2>2. ~AtEnd(m, ptr[i + 1])
    BY <1>1, <2>1, LaidReads DEF EntryReads
  <2> QED  BY <1>2, <1>4, <2>2 DEF NextFile
<1> QED  BY <1>3, <1>4

\* The place of the first file among the entries.
FirstAt(m) == IF Deleted(m, 0) /\ FileSize(m, 0) = 0 THEN 2 ELSE 1

LEMMA FirstIs ==
    ASSUME NEW m \in Memory, NEW ptr, NEW fs, Holds(m, ptr, fs)
    PROVE  /\ FirstAt(m) \in 1..2
           /\ FirstFile(m) = IF FirstAt(m) <= Len(fs) THEN ptr[FirstAt(m)] ELSE NoEntry
           /\ LastFile(m) = IF FirstAt(m) <= Len(fs) THEN ptr[Len(fs)] ELSE NoEntry
<1> DEFINE n == Len(fs)
           a == FirstAt(m)
<1>1. n \in Nat /\ ptr[1] = 0 /\ Laid(m, ptr, fs)
  BY PtrIs DEF Holds
<1>2. a \in 1..2 /\ a \in Nat
  BY DEF FirstAt
<1>3. FirstFile(m) = IF a <= n THEN ptr[a] ELSE NoEntry
  <2>1. CASE n = 0
    <3>1. AtEnd(m, 0)
      BY <1>1, <2>1, Scanned DEF ScanReturns, AllocFilePtr
    <3>2. ~(a <= n)
      <4> HIDE DEF a, n
      <4> QED  BY ONLY <1>2, <2>1
    <3> QED  BY <3>1, <3>2 DEF FirstFile
  <2>2. CASE n # 0
    <3>1. 1 \in 1..n
      <4> HIDE DEF n
      <4> QED  BY ONLY <1>1, <2>2
    <3>2. ~AtEnd(m, 0)
      BY <1>1, <3>1, LaidReads DEF EntryReads
    <3>3. NextFile(m, 0) = IF 1 = n THEN NoEntry ELSE ptr[1 + 1]
      <4>1. NextFile(m, ptr[1]) = IF 1 = n THEN NoEntry ELSE ptr[1 + 1]
        BY <3>1, NextIs
      <4> QED  BY <1>1, <4>1
    <3>4. CASE a = 1
      <4>1. ~(Deleted(m, 0) /\ FileSize(m, 0) = 0)
        BY <3>4 DEF FirstAt
      <4>2. FirstFile(m) = 0
        BY <3>2, <4>1 DEF FirstFile
      <4>3. a <= n
        <5> HIDE DEF a, n
        <5> QED  BY ONLY <3>1, <3>4
      <4> QED  BY <1>1, <3>4, <4>2, <4>3
    <3>5. CASE a # 1
      <4>1. Deleted(m, 0) /\ FileSize(m, 0) = 0 /\ a = 2
        BY <3>5 DEF FirstAt
      <4>2. FirstFile(m) = NextFile(m, 0)
        BY <3>2, <4>1 DEF FirstFile
      <4>3. (a <= n) <=> n # 1
        <5> HIDE DEF a, n
        <5> QED  BY ONLY <1>1, <2>2, <4>1
      <4>4. 1 + 1 = a
        <5> HIDE DEF a
        <5> QED  BY ONLY <4>1
      <4> QED  BY <3>3, <4>2, <4>3, <4>4
    <3> QED  BY <3>4, <3>5
  <2> QED  BY <2>1, <2>2
<1>4. LastFile(m) = IF a <= n THEN ptr[n] ELSE NoEntry
  <2>1. CASE a <= n
    <3>1. a \in 1..(n + 1) /\ n \in 1..n
      <4> HIDE DEF a, n
      <4> QED  BY ONLY <1>1, <1>2, <2>1
    <3>2. ptr[a] # NoEntry
      BY <1>1, <3>1, PtrIs
    <3>3. Last(Entries(m)) = ptr[n]
      BY <3>1, Scanned DEF Last
    <3> QED  BY <1>3, <2>1, <3>2, <3>3 DEF LastFile
  <2>2. CASE ~(a <= n)
    BY <1>3, <2>2 DEF LastFile
  <2> QED  BY <2>1, <2>2
<1> QED  BY <1>2, <1>3, <1>4

LEMMA PrevTyped ==
    ASSUME NEW m \in Memory, NEW ptr, NEW fs, Holds(m, ptr, fs), NEW p
    PROVE  PrevFile(m, p) \in 0..CardSpan
<1> DEFINE before == {q \in Range(Entries(m)) : q >= FirstFile(m) /\ NextFile(m, q) = p}
<1>1. ASSUME before # {} PROVE Min(before) \in 0..CardSpan
  <2>1. before \subseteq {ptr[i] : i \in 1..Len(fs)}
    BY Scanned
  <2>2. \A i \in 1..Len(fs) : ptr[i] \in 0..CardSpan
    BY PtrIs DEF Holds
  <2> HIDE DEF before
  <2>3. before \subseteq 0..CardSpan
    BY ONLY <2>1, <2>2
  <2>4. before \subseteq Nat
    BY ONLY <2>3, Numbers
  <2>5. Min(before) \in before
    BY ONLY <1>1, <2>4, LeastIs
  <2> QED  BY <2>3, <2>5
<1>2. NoEntry \in 0..CardSpan
  BY Numbers DEF NoEntry
<1>3. PrevFile(m, p) = IF FirstFile(m) \in {NoEntry, p} \/ before = {} THEN NoEntry ELSE Min(before)
  BY DEF PrevFile
<1> HIDE DEF before
<1> QED  BY <1>1, <1>2, <1>3

LEMMA PrevIs ==
    ASSUME NEW m \in Memory, NEW ptr, NEW fs, Holds(m, ptr, fs), NEW i \in FirstAt(m)..Len(fs)
    PROVE  PrevFile(m, ptr[i]) = IF i = FirstAt(m) THEN NoEntry ELSE ptr[i - 1]
<1> DEFINE n == Len(fs)
           a == FirstAt(m)
           before == {q \in Range(Entries(m)) : q >= FirstFile(m) /\ NextFile(m, q) = ptr[i]}
<1>1. /\ n \in Nat /\ ptr[1] = 0
      /\ \A j \in 1..(n + 1) : ptr[j] \in Nat /\ ptr[j] \in 0..CardSpan /\ ptr[j] # NoEntry
      /\ \A j, k \in 1..(n + 1) : j < k => ptr[j] < ptr[k]
  BY PtrIs DEF Holds
<1>2. a \in 1..2 /\ a \in Nat /\ i \in a..n
  BY FirstIs
<1>3. FirstFile(m) = IF a <= n THEN ptr[a] ELSE NoEntry
  BY FirstIs
<1>4. PrevFile(m, ptr[i]) = IF FirstFile(m) \in {NoEntry, ptr[i]} \/ before = {} THEN NoEntry ELSE Min(before)
  BY DEF PrevFile
<1>5. Range(Entries(m)) = {ptr[j] : j \in 1..n}
  BY Scanned
<1>6. \A j \in 1..n : NextFile(m, ptr[j]) = IF j = n THEN NoEntry ELSE ptr[j + 1]
  BY NextIs
<1>7. before = {q \in {ptr[j] : j \in 1..n} : q >= FirstFile(m) /\ NextFile(m, q) = ptr[i]}
  BY <1>5
<1> HIDE DEF n, a, before
<1>8. i \in 1..n /\ i \in 1..(n + 1) /\ a \in 1..(n + 1) /\ a <= n /\ FirstFile(m) = ptr[a]
  BY ONLY <1>1, <1>2, <1>3
<1>9. CASE i = a
  BY <1>4, <1>8, <1>9 DEF a
<1>10. CASE i # a
  <2>1. i - 1 \in 1..n /\ i - 1 \in 1..(n + 1) /\ a < i /\ (i - 1) + 1 = i /\ i - 1 # n /\ (a = i - 1 \/ a < i - 1)
    BY ONLY <1>1, <1>2, <1>8, <1>10
  <2>2. ptr[a] < ptr[i] /\ ptr[a] <= ptr[i - 1] /\ ptr[a] \in Nat /\ ptr[i] \in Nat /\ ptr[i - 1] \in Nat
    BY ONLY <1>1, <1>8, <2>1
  <2>3. FirstFile(m) \notin {NoEntry, ptr[i]}
    BY ONLY <1>1, <1>8, <2>2
  <2>4. NextFile(m, ptr[i - 1]) = ptr[i]
    BY <1>6, <2>1
  <2>5. ptr[i - 1] \in before
    BY <1>7, <1>8, <2>1, <2>2, <2>4
  <2>6. ASSUME NEW q \in before PROVE q = ptr[i - 1]
    <3>1. PICK j \in 1..n : q = ptr[j] /\ NextFile(m, ptr[j]) = ptr[i]
      BY <1>7
    <3>2. ptr[i] # NoEntry
      BY <1>1, <1>8
    <3>3. j # n /\ ptr[j + 1] = ptr[i]
      BY <1>6, <3>1, <3>2
    <3>4. j + 1 \in 1..(n + 1) /\ j + 1 \in Nat /\ i \in Nat
      BY ONLY <1>1, <1>8, <3>1
    <3> PICK k : k = j + 1
      OBVIOUS
    <3>5. ~(k < i) /\ ~(i < k) /\ k \in Nat
      BY ONLY <1>1, <1>8, <3>3, <3>4, k = j + 1
    <3>6. j = i - 1
      BY ONLY <3>4, <3>5, k = j + 1, j \in 1..n
    <3> QED  BY <3>1, <3>6
  <2>7. before = {ptr[i - 1]}
    BY ONLY <2>5, <2>6
  <2>8. Min(before) = ptr[i - 1]
    <3>1. before \subseteq Nat /\ before # {}
      BY ONLY <2>2, <2>7
    <3>2. Min(before) \in before
      BY <3>1, LeastIs
    <3> QED  BY <2>6, <3>2
  <2> QED  BY <1>4, <1>10, <2>3, <2>5, <2>8 DEF a
<1> QED  BY <1>9, <1>10

\* One step of the walk of BackwardWalk, for all pointers at once.
Places == 0..CardSpan
BackStep(R) == [p \in Places |-> IF p = NoEntry THEN <<>> ELSE <<p>> \o R[PrevFile(card, p)]]
Nowhere == [p \in Places |-> <<>>]

IsBack(W) ==
    W = [k \in 0..Len(intent) |->
            [p \in Places |->
                IF k = 0 \/ p = NoEntry THEN <<>> ELSE <<p>> \o W[k - 1][PrevFile(card, p)]]]

LEMMA BackExists ==
    ASSUME card \in Memory, Len(intent) \in Nat, NEW ptr, NEW fs, Holds(card, ptr, fs)
    PROVE  \E W : IsBack(W) /\ \A k \in 0..Len(intent) : W[k] \in [Places -> Seq(Places)]
<1> DEFINE S == [Places -> Seq(Places)]
           N == [R \in S |-> BackStep(R)]
           n == Len(intent)
<1>1. Nowhere \in S
  BY DEF Nowhere
<1>2. N \in [S -> S]
  <2> SUFFICES ASSUME NEW R \in S PROVE BackStep(R) \in S
    OBVIOUS
  <2> SUFFICES ASSUME NEW p \in Places
               PROVE  <<>> \in Seq(Places) /\ <<p>> \o R[PrevFile(card, p)] \in Seq(Places)
    BY DEF BackStep
  <2>1. PrevFile(card, p) \in Places
    BY PrevTyped DEF Places
  <2>2. R[PrevFile(card, p)] \in Seq(Places)
    BY <2>1
  <2>3. <<p>> \in Seq(Places)
    OBVIOUS
  <2> QED  BY <2>2, <2>3, ConcatProperties
<1>3. PICK R : Iterates(R, S, Nowhere, N)
  <2> HIDE DEF S, N
  <2> QED  BY <1>1, <1>2, NatRecursion
<1>4. R \in [Nat -> S] /\ R[0] = Nowhere /\ \A i \in Nat : R[i + 1] = BackStep(R[i])
  BY <1>3 DEF Iterates
<1> DEFINE W == [k \in 0..n |-> R[k]]
<1>5. ASSUME NEW k \in 0..n
      PROVE  R[k] = [p \in Places |->
                        IF k = 0 \/ p = NoEntry THEN <<>> ELSE <<p>> \o W[k - 1][PrevFile(card, p)]]
  <2>1. CASE k = 0
    BY <1>4, <2>1 DEF Nowhere
  <2>2. CASE k # 0
    <3>1. k - 1 \in Nat /\ (k - 1) + 1 = k /\ k - 1 \in 0..n
      BY <2>2
    <3>2. R[(k - 1) + 1] = BackStep(R[k - 1])
      BY <1>4, <3>1
    <3>3. W[k - 1] = R[k - 1]
      BY <3>1
    <3> QED  BY <2>2, <3>1, <3>2, <3>3 DEF BackStep
  <2> QED  BY <2>1, <2>2
<1>6. IsBack(W)
  BY <1>5 DEF IsBack
<1>7. \A k \in 0..n : W[k] \in S
  <2> HIDE DEF S
  <2> QED  BY <1>4
<1> HIDE DEF W
<1> QED  BY <1>6, <1>7

Back == CHOOSE W : IsBack(W)

LEMMA BackIs ==
    ASSUME card \in Memory, Len(intent) \in Nat, NEW ptr, NEW fs, Holds(card, ptr, fs)
    PROVE  /\ BackwardWalk = Back[Len(intent)][LastFile(card)]
           /\ \A k \in 0..Len(intent), p \in Places :
                  Back[k][p] = IF k = 0 \/ p = NoEntry THEN <<>> ELSE <<p>> \o Back[k - 1][PrevFile(card, p)]
           /\ \A k \in 0..Len(intent), p \in Places : Back[k][p] \in Seq(Places)
<1>1. PICK V : IsBack(V) /\ \A k \in 0..Len(intent) : V[k] \in [Places -> Seq(Places)]
  BY BackExists
<1>2. IsBack(Back)
  BY <1>1 DEF Back
<1>3. BackwardWalk = Back[Len(intent)][LastFile(card)]
  BY DEF BackwardWalk, Back, IsBack, Places
<1> DEFINE W == Back
           n == Len(intent)
<1>4. \A k \in 0..n, p \in Places :
          W[k][p] = IF k = 0 \/ p = NoEntry THEN <<>> ELSE <<p>> \o W[k - 1][PrevFile(card, p)]
  <2> HIDE DEF W
  <2>1. ASSUME NEW k \in 0..n, NEW p \in Places
        PROVE  W[k][p] = IF k = 0 \/ p = NoEntry THEN <<>> ELSE <<p>> \o W[k - 1][PrevFile(card, p)]
    <3>1. W[k] = [q \in Places |->
                    IF k = 0 \/ q = NoEntry THEN <<>> ELSE <<q>> \o W[k - 1][PrevFile(card, q)]]
      BY <1>2 DEF IsBack, W
    <3> QED  BY <3>1
  <2> QED  BY <2>1
<1>5. \A k \in 0..n, p \in Places : W[k][p] \in Seq(Places)
  <2> HIDE DEF W
  <2> DEFINE Bad == {k \in Nat : k <= n /\ \E p \in Places : W[k][p] \notin Seq(Places)}
  <2>1. Bad = {}
    <3> SUFFICES ASSUME Bad # {} PROVE FALSE
      OBVIOUS
    <3>1. PICK k \in Bad : k \in Nat /\ \A j \in Nat : j < k => j \notin Bad
      BY LeastBad
    <3>2. PICK p \in Places : W[k][p] \notin Seq(Places)
      BY <3>1
    <3>3. k \in 0..n
      BY <3>1
    <3>4. <<p>> \in Seq(Places) /\ <<>> \in Seq(Places)
      OBVIOUS
    <3>5. k # 0 /\ W[k][p] = <<p>> \o W[k - 1][PrevFile(card, p)]
      BY <1>4, <3>2, <3>3, <3>4
    <3>6. PrevFile(card, p) \in Places
      BY PrevTyped DEF Places
    <3>7. k - 1 \in Nat /\ k - 1 < k /\ k - 1 <= n
      BY <3>1, <3>3, <3>5
    <3>8. W[k - 1][PrevFile(card, p)] \in Seq(Places)
      BY <3>1, <3>6, <3>7
    <3> QED  BY <3>2, <3>4, <3>5, <3>8, ConcatProperties
  <2> QED  BY <2>1
<1> QED  BY <1>3, <1>4, <1>5

\* A sequence that goes down ptr from place i, over c entries.
GoesDown(t, ptr, i, c) == Len(t) = c /\ \A j \in 1..c : t[j] = ptr[i + 1 - j]

LEMMA BackFollows ==
    ASSUME card \in Memory, Len(intent) \in Nat, NEW ptr, NEW fs, Holds(card, ptr, fs),
           NEW k \in 0..Len(intent), NEW i \in FirstAt(card)..Len(fs)
    PROVE  i - FirstAt(card) + 1 <= k => GoesDown(Back[k][ptr[i]], ptr, i, i - FirstAt(card) + 1)
<1> DEFINE n == Len(intent)
           l == Len(fs)
           a == FirstAt(card)
           W == Back
           Bad == {h \in Nat : h <= n /\ \E b \in a..l : b - a + 1 <= h /\ ~GoesDown(W[h][ptr[b]], ptr, b, b - a + 1)}
<1>1. l \in Nat /\ n \in Nat /\ a \in Nat /\ a >= 1
  BY FirstIs, PtrIs DEF Holds
<1>2. \A b \in 1..(l + 1) : ptr[b] \in Places /\ ptr[b] # NoEntry
  BY PtrIs DEF Holds, Places
<1>3. \A h \in 0..n, p \in Places :
          W[h][p] = IF h = 0 \/ p = NoEntry THEN <<>> ELSE <<p>> \o W[h - 1][PrevFile(card, p)]
  BY BackIs
<1>4. \A h \in 0..n, p \in Places : W[h][p] \in Seq(Places)
  BY BackIs
<1>5. \A b \in a..l : PrevFile(card, ptr[b]) = IF b = a THEN NoEntry ELSE ptr[b - 1]
  BY PrevIs
<1>6. NoEntry \in Places
  BY Numbers DEF NoEntry, Places
<1> HIDE DEF n, l, a, W
<1>7. Bad = {}
  <2> SUFFICES ASSUME Bad # {} PROVE FALSE
    OBVIOUS
  <2>1. PICK h \in Bad : h \in Nat /\ \A j \in Nat : j < h => j \notin Bad
    BY LeastBad
  <2>2. PICK b \in a..l : b - a + 1 <= h /\ ~GoesDown(W[h][ptr[b]], ptr, b, b - a + 1)
    BY <2>1
  <2>3. h \in 1..n /\ h \in 0..n /\ h # 0 /\ h - 1 \in Nat /\ h - 1 < h /\ h - 1 \in 0..n /\ h - 1 <= n
    BY ONLY <1>1, <2>1, <2>2
  <2>4. b \in 1..(l + 1) /\ b \in Nat
    BY ONLY <1>1, <2>2
  <2> PICK p : p = ptr[b]
    OBVIOUS
  <2>5. p \in Places /\ p # NoEntry
    BY <1>2, <2>4
  <2> PICK q : q = PrevFile(card, p)
    OBVIOUS
  <2> PICK t, u : t = W[h][p] /\ u = W[h - 1][q]
    OBVIOUS
  <2>6. t = <<p>> \o u
    BY <1>3, <2>3, <2>5
  <2>7. q = IF b = a THEN NoEntry ELSE ptr[b - 1]
    BY <1>5
  <2>8. CASE b = a
    <3>1. u = <<>>
      BY <1>3, <1>6, <2>3, <2>7, <2>8
    <3>2. t = <<p>>
      BY ONLY <2>5, <2>6, <3>1
    <3>3. Len(t) = 1 /\ t[1] = p
      BY ONLY <3>2
    <3>4. b - a + 1 = 1 /\ b + 1 - 1 = b
      BY ONLY <1>1, <2>4, <2>8
    <3>5. GoesDown(t, ptr, b, b - a + 1)
      BY ONLY <3>3, <3>4, p = ptr[b] DEF GoesDown
    <3> QED  BY <2>2, <3>5
  <2>9. CASE b # a
    <3> PICK d : d = b - 1
      OBVIOUS
    <3>1. d \in a..l /\ d \in Nat /\ d - a + 1 <= h - 1 /\ d \in 1..(l + 1) /\ b = d + 1
      <4>1. a \in Nat /\ a >= 1 /\ l \in Nat /\ b \in a..l /\ b # a /\ h \in Nat /\ b - a + 1 <= h
        BY <1>1, <2>1, <2>2, <2>9
      <4>2. b \in Nat /\ d \in Nat /\ a <= d /\ d <= l /\ 1 <= d /\ b = d + 1
        BY ONLY <4>1, d = b - 1
      <4>3. d - a + 1 <= h - 1
        BY ONLY <4>1, <4>2
      <4> QED  BY ONLY <4>1, <4>2, <4>3
    <3>2. h - 1 \notin Bad
      BY <2>1, <2>3
    <3>3. GoesDown(W[h - 1][ptr[d]], ptr, d, d - a + 1)
      BY <2>3, <3>1, <3>2
    <3>4. q = ptr[d]
      BY <2>7, <2>9
    <3> PICK c : c = d - a + 1
      OBVIOUS
    <3>5. c \in Nat /\ b - a + 1 = c + 1
      BY ONLY <1>1, <3>1, c = d - a + 1
    <3>6. Len(u) = c /\ \A j \in 1..c : u[j] = ptr[d + 1 - j]
      BY <3>3, <3>4 DEF GoesDown
    <3>7. u \in Seq(Places)
      <4>1. q \in Places
        BY <1>2, <3>1, <3>4
      <4> QED  BY <1>4, <2>3, <4>1
    <3>8. Len(t) = 1 + Len(u) /\ t[1] = p /\ \A j \in 1..Len(u) : t[j + 1] = u[j]
      BY ONLY <2>5, <2>6, <3>7, OnePutBefore
    <3>9. ASSUME NEW j \in 1..(c + 1) PROVE t[j] = ptr[b + 1 - j]
      <4>1. CASE j = 1
        <5>1. b + 1 - j = b
          BY ONLY <2>4, <4>1
        <5> QED  BY <3>8, <4>1, <5>1
      <4>2. CASE j # 1
        <5> PICK g : g = j - 1
          OBVIOUS
        <5>1. g \in 1..c /\ j = g + 1 /\ b + 1 - j = d + 1 - g
          BY ONLY <3>1, <3>5, <4>2, g = j - 1, j \in 1..(c + 1)
        <5>2. t[g + 1] = u[g]
          BY <3>6, <3>8, <5>1
        <5> QED  BY <3>6, <5>1, <5>2
      <4> QED  BY <4>1, <4>2
    <3>10. Len(t) = c + 1
      BY ONLY <3>5, <3>6, <3>8
    <3>11. GoesDown(t, ptr, b, b - a + 1)
      BY ONLY <3>5, <3>9, <3>10 DEF GoesDown
    <3> QED  BY <2>2, <3>11
  <2> QED  BY <2>8, <2>9
<1>8. k \in Nat /\ k <= n /\ i \in a..l
  BY DEF n, a, l
<1>9. i - a + 1 <= k => GoesDown(W[k][ptr[i]], ptr, i, i - a + 1)
  BY <1>7, <1>8
<1> QED  BY <1>9 DEF W, a

\* Fewer entries than files were saved lie before the first one that a walk meets.
LEMMA FirstIsSkip ==
    ASSUME TypeInv, card \in Memory, HasNull => card[1] = 0, NEW ptr, Holds(card, ptr, Stored)
    PROVE  Skip + 1 <= FirstAt(card)
<1>1. CASE HasNull
  <2>1. Laid(card, ptr, Stored) /\ 1 \in 1..Len(Stored) /\ Stored[1] = NullEntry /\ ptr[1] = 0
    <3>1. Laid(card, ptr, Stored) /\ ptr[1] = 0
      BY PtrIs DEF Holds
    <3>2. Len(Stored) = Len(intent) + 1 /\ Stored[1] = NullEntry /\ Len(intent) \in Nat
      BY <1>1, StoredIs
    <3>3. 1 \in 1..Len(Stored)
      BY ONLY <3>2
    <3> QED  BY <3>1, <3>2, <3>3
  <2>2. EntryReads(card, ptr[1], Stored[1])
    BY <2>1, LaidReads
  <2>3. FileSize(card, 0) = 0
    BY <2>1, <2>2 DEF EntryReads, NullEntry
  <2>4. Deleted(card, 0)
    BY <1>1, <2>1, <2>2 DEF EntryReads
  <2>5. FirstAt(card) = 2
    BY <2>3, <2>4 DEF FirstAt
  <2> QED  BY <1>1, <2>5 DEF Skip
<1>2. CASE ~HasNull
  BY <1>2 DEF Skip, FirstAt
<1> QED  BY <1>1, <1>2

LEMMA FrontIs ==
    ASSUME NEW S, NEW t \in Seq(S), NEW n \in Nat, Len(t) = n + 1, NEW p \in Range(Front(t))
    PROVE  \E i \in 1..n : p = t[i]
<1> PICK u : u = SubSeq(t, 1, n)
  OBVIOUS
<1>1. Front(t) = u
  <2>1. Len(t) - 1 = n
    OBVIOUS
  <2> QED  BY <2>1 DEF Front
<1>2. PICK i \in DOMAIN u : p = u[i]
  BY <1>1 DEF Range
<1>3. DOMAIN u = 1..n /\ \A j \in 1..n : u[j] = t[j]
  BY ONLY t \in Seq(S), n \in Nat, Len(t) = n + 1, u = SubSeq(t, 1, n)
<1> QED  BY <1>2, <1>3

LEMMA WalkBackIs ==
    ASSUME AreaInv PROVE WalkMeetsAllLive
<1> SUFFICES ASSUME op.pc = "idle"
             PROVE  LET seen == BackwardWalk
                    IN  /\ \A p \in Range(Front(Pointers)) : ~Deleted(card, p) => p \in Range(seen)
                        /\ \A j, k \in DOMAIN seen : j < k => seen[j] > seen[k]
  BY DEF WalkMeetsAllLive
<1>1. PICK ptr : Arranged(ptr) /\ Holds(card, ptr, Stored)
  BY IdleHolds
<1>2. TypeInv /\ card \in Memory /\ Laid(card, ptr, Stored) /\ (HasNull => card[1] = 0)
  BY <1>1, IdleHolds DEF AreaInv, Holds, Arranged
<1> DEFINE n == Len(intent)
           l == Len(Stored)
           s == Skip
           a == FirstAt(card)
           seen == BackwardWalk
           c == l - a + 1
<1>3. /\ s \in 0..1 /\ l = n + s /\ n \in Nat
      /\ Pointers \in Seq(Cells) /\ Len(Pointers) = n + 1
      /\ \A i \in 1..(n + 1) : Pointers[i] = ptr[i + s]
  BY <1>2, PointersAre
<1>4. a \in 1..2 /\ s + 1 <= a /\ LastFile(card) = IF a <= l THEN ptr[l] ELSE NoEntry
  BY <1>1, <1>2, FirstIs, FirstIsSkip
<1>5. /\ l \in Nat /\ ptr[1] = 0
      /\ \A i \in 1..(l + 1) : ptr[i] \in Nat
      /\ \A i, j \in 1..(l + 1) : i < j => ptr[i] < ptr[j]
  BY <1>2, PtrIs
<1>6. seen = Back[n][LastFile(card)]
  BY <1>1, <1>2, <1>3, BackIs
<1>7. CASE a <= l
  <2>1. l \in a..l /\ c <= n /\ n \in 0..n /\ c \in Nat
    <3> HIDE DEF n, l, s, a
    <3> QED  BY ONLY <1>3, <1>4, <1>5, <1>7 DEF c
  <2>2. GoesDown(Back[n][ptr[l]], ptr, l, c)
    BY <1>1, <1>2, <1>3, <2>1, BackFollows
  <2>3. Len(seen) = c /\ \A j \in 1..c : seen[j] = ptr[l + 1 - j]
    BY <1>4, <1>6, <1>7, <2>2 DEF GoesDown
  <2>4. seen \in Seq(Places)
    <3>1. ptr[l] \in Places
      <4>1. l \in 1..(l + 1)
        <5> HIDE DEF l, a
        <5> QED  BY ONLY <1>4, <1>5, <1>7
      <4> QED  BY <1>2, <4>1, PtrIs DEF Places
    <3> QED  BY <1>1, <1>2, <1>3, <1>4, <1>6, <1>7, <2>1, <3>1, BackIs
  <2>5. DOMAIN seen = 1..c
    <3> HIDE DEF seen, c
    <3> QED  BY ONLY <2>3, <2>4
  <2>6. ASSUME NEW p \in Range(Front(Pointers)), ~Deleted(card, p) PROVE p \in Range(seen)
    <3>1. PICK i \in 1..n : p = Pointers[i]
      BY <1>3, FrontIs
    <3> PICK k : k = i + s
      OBVIOUS
    <3>2. i \in 1..(n + 1) /\ k \in 1..l
      <4> HIDE DEF n, l, s
      <4> QED  BY ONLY <1>3, <3>1, k = i + s
    <3>3. p = ptr[k]
      BY <1>3, <3>1, <3>2
    <3>4. k >= a
      <4> SUFFICES ASSUME ~(k >= a) PROVE FALSE
        OBVIOUS
      <4>1. k = 1 /\ a = 2
        <5> HIDE DEF n, l, s, a
        <5> QED  BY ONLY <1>4, <3>2, ~(k >= a)
      <4>2. Deleted(card, 0)
        BY <4>1 DEF FirstAt
      <4> QED  BY <1>5, <2>6, <3>3, <4>1, <4>2
    <3> PICK j : j = l + 1 - k
      OBVIOUS
    <3>5. j \in 1..c /\ l + 1 - j = k
      <4> HIDE DEF n, l, s, a
      <4> QED  BY ONLY <1>4, <1>5, <3>2, <3>4, j = l + 1 - k DEF c
    <3>6. seen[j] = p
      BY <2>3, <3>3, <3>5
    <3> HIDE DEF seen, c
    <3> QED  BY <2>5, <3>5, <3>6 DEF Range
  <2>7. ASSUME NEW j \in DOMAIN seen, NEW k \in DOMAIN seen, j < k PROVE seen[j] > seen[k]
    <3>1. j \in 1..c /\ k \in 1..c
      BY <2>5
    <3> PICK x, y : x = l + 1 - j /\ y = l + 1 - k
      OBVIOUS
    <3>2. x \in 1..(l + 1) /\ y \in 1..(l + 1) /\ y < x
      <4> HIDE DEF n, l, s, a
      <4> QED  BY ONLY <1>4, <1>5, <2>7, <3>1, x = l + 1 - j /\ y = l + 1 - k DEF c
    <3>3. seen[j] = ptr[x] /\ seen[k] = ptr[y]
      BY <2>3, <3>1
    <3>4. ptr[y] < ptr[x] /\ ptr[x] \in Nat /\ ptr[y] \in Nat
      BY <1>5, <3>2
    <3> HIDE DEF seen
    <3> QED  BY ONLY <3>3, <3>4
  <2> QED  BY <2>6, <2>7
<1>8. CASE ~(a <= l)
  <2>1. n = 0 \/ (n = 1 /\ l = 1 /\ a = 2 /\ s = 0)
    <3> HIDE DEF n, l, s, a
    <3> QED  BY ONLY <1>3, <1>4, <1>5, <1>8
  <2>2. seen = <<>>
    <3>1. LastFile(card) = NoEntry /\ NoEntry \in Places /\ n \in 0..n
      BY <1>3, <1>4, <1>8, Numbers DEF NoEntry, Places
    <3> QED  BY <1>1, <1>2, <1>3, <1>6, <3>1, BackIs
  <2>3. ASSUME NEW p \in Range(Front(Pointers)) PROVE Deleted(card, p)
    <3>1. PICK i \in 1..n : p = Pointers[i]
      BY <1>3, FrontIs
    <3>2. i = 1 /\ s = 0 /\ a = 2 /\ 1 \in 1..(n + 1)
      <4> HIDE DEF n, l, s, a
      <4> QED  BY ONLY <2>1, <3>1
    <3>3. p = 0
      <4>1. p = ptr[1 + s] /\ 1 + s = 1
        BY <1>3, <3>1, <3>2
      <4> QED  BY <1>5, <4>1
    <3>4. Deleted(card, 0)
      BY <3>2 DEF FirstAt
    <3> QED  BY <3>3, <3>4
  <2>4. DOMAIN seen = {}
    BY <2>2
  <2> QED  BY <2>3, <2>4
<1> QED  BY <1>7, <1>8

\* Restoring and browsing walk back from the last file: they meet every file that is not
\* deleted, in the opposite order of the chain.
THEOREM WalkBackMeetsAllLive ==
    ASSUME ~HeaderFaults PROVE Spec => []WalkMeetsAllLive
  BY WalkBackIs, AreaIsLaidOut, PTL
==============================================================================
