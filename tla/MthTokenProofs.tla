--------------------------- MODULE MthTokenProofs ---------------------------
(***************************************************************************)
(* Proofs about mthtoken, for token tables and lines of any size and any    *)
(* scan sequence: replacing keeps what a line stands for, leaves nothing of *)
(* a token behind, and what is printed is read as the line it was.          *)
(***************************************************************************)
EXTENDS MthToken, SequenceTheorems, WellFoundedInduction, TLAPS

Bytes == 0..255
Plain == 0..127

----------------------------------------------------------------------------
(* Functions that go from a number to the next *)

Less == {ss \in Nat \X Nat : ss[1] < ss[2]}

LEMMA LessWellFounded == IsWellFoundedOn(Less, Nat)
  BY NatLessThanWellFounded DEF OpToRel, Less

LEMMA LeastNumber ==
    ASSUME NEW T, T \subseteq Nat, T # {}
    PROVE  \E x \in T : \A y \in T : x <= y
<1>1. PICK x \in T : \A y \in T : ~ (<<y, x>> \in Less)
  BY LessWellFounded, WFMin
<1>2. \A y \in T : y < x => <<y, x>> \in Less
  BY DEF Less
<1>3. \A y \in T : ~ (y < x)
  BY <1>1, <1>2
<1> QED  BY <1>3

\* A set that holds the first of some numbers and with each the next, holds them.
LEMMA Upwards ==
    ASSUME NEW n \in Nat, NEW T, 0 \in T, \A k \in 1..n : k - 1 \in T => k \in T
    PROVE  0..n \subseteq T
<1> DEFINE Bad == {k \in 0..n : k \notin T}
<1> SUFFICES ASSUME Bad # {} PROVE FALSE
  OBVIOUS
<1>1. PICK k \in Bad : \A x \in Bad : k <= x
  <2>1. Bad \subseteq Nat  OBVIOUS
  <2> QED  BY <2>1, LeastNumber
<1>2. k # 0 /\ k \in 0..n
  OBVIOUS
<1>3. k \in 1..n /\ k - 1 \in 0..n /\ k - 1 < k
  BY <1>2
<1>4. k - 1 \in T
  BY <1>1, <1>3
<1> QED  BY <1>3, <1>4

LEMMA Downwards ==
    ASSUME NEW n \in Nat, NEW T, n \in T, \A k \in 1..n : k \in T => k - 1 \in T
    PROVE  0..n \subseteq T
<1> DEFINE U == {k \in 0..n : n - k \in T}
<1>1. 0 \in U
  OBVIOUS
<1>2. ASSUME NEW k \in 1..n, k - 1 \in U PROVE k \in U
  <2>1. n - (k - 1) \in T /\ n - (k - 1) \in 1..n /\ n - (k - 1) - 1 = n - k
    BY <1>2
  <2> QED  BY <2>1
<1>3. 0..n \subseteq U
  <2> HIDE DEF U
  <2> QED  BY <1>1, <1>2, Upwards
<1>4. ASSUME NEW k \in 0..n PROVE k \in T
  <2>1. n - k \in 0..n /\ n - (n - k) = k
    OBVIOUS
  <2>2. n - k \in U
    BY <1>3, <2>1
  <2> QED  BY <2>1, <2>2
<1> QED  BY <1>4

\* Steps may be any function of the number and what has been computed before it.
Stepwise(n, V, a, step) ==
    \E u \in [0..n -> V] : u[0] = a /\ \A k \in 1..n : u[k] = step[<<k, u[k - 1]>>]

LEMMA StepsDefine ==
    ASSUME NEW n \in Nat, NEW V, NEW a \in V, NEW step \in [(1..n) \X V -> V]
    PROVE  Stepwise(n, V, a, step)
<1> DEFINE Upto(m, u) == u[0] = a /\ \A k \in 1..m : u[k] = step[<<k, u[k - 1]>>]
           T == {m \in 0..n : \E u \in [0..n -> V] : Upto(m, u)}
<1>1. 0 \in T
  <2> DEFINE w == [k \in 0..n |-> a]
  <2>1. w \in [0..n -> V] /\ Upto(0, w)
    OBVIOUS
  <2>2. \E u \in [0..n -> V] : Upto(0, u)
    <3> HIDE DEF w, Upto
    <3> QED  BY <2>1
  <2> QED  BY <2>2
<1>2. ASSUME NEW m \in 1..n, m - 1 \in T PROVE m \in T
  <2>1. PICK u \in [0..n -> V] : Upto(m - 1, u)
    BY <1>2
  <2> DEFINE w == [u EXCEPT ![m] = step[<<m, u[m - 1]>>]]
  <2>2. u[m - 1] \in V /\ <<m, u[m - 1]>> \in (1..n) \X V
    OBVIOUS
  <2>3. w \in [0..n -> V]
    BY <2>2
  <2>4. Upto(m, w)
    <3>1. w[0] = a
      BY <2>1
    <3>2. ASSUME NEW k \in 1..m PROVE w[k] = step[<<k, w[k - 1]>>]
      <4>1. k - 1 \in 0..n /\ k \in 0..n /\ w[k - 1] = u[k - 1]
        OBVIOUS
      <4>2. CASE k = m  BY <4>1, <4>2
      <4>3. CASE k # m
        <5>1. k \in 1..(m - 1)  BY <4>3
        <5> QED  BY <2>1, <4>1, <5>1
      <4> QED  BY <4>2, <4>3
    <3> QED  BY <3>1, <3>2
  <2>5. \E x \in [0..n -> V] : Upto(m, x)
    <3> HIDE DEF w, Upto
    <3> QED  BY <2>3, <2>4
  <2> QED  BY <2>5
<1>3. 0..n \subseteq T
  <2> HIDE DEF T
  <2> QED  BY <1>1, <1>2, Upwards
<1> QED  BY <1>3 DEF Stepwise

----------------------------------------------------------------------------
(* Replacing codes by texts *)

LEMMA ThreeJoined == \A x, y, z \in Seq(Bytes) : x \o (y \o z) = (x \o y) \o z
  BY ConcatAssociative

LEMMA ThreePlain == \A x, y, z \in Seq(Plain) : x \o (y \o z) = (x \o y) \o z
  BY ConcatAssociative

Piece(s, e, k) == IF IsToken(s[k]) THEN e[s[k] % 128] ELSE <<s[k]>>

\* u is what Replaced computes on its way.
Upto(s, e, u) == u = [k \in 0..Len(s) |-> IF k = 0 THEN <<>> ELSE u[k - 1] \o Piece(s, e, k)]

LEMMA ReplacedChoice ==
    ASSUME NEW s, NEW e
    PROVE  Replaced(s, e) = (CHOOSE u : Upto(s, e, u))[Len(s)]
  BY DEF Replaced, Upto, Piece

LEMMA UptoSteps ==
    ASSUME NEW s \in Seq(Bytes), NEW e, NEW u, Upto(s, e, u)
    PROVE  /\ u = [k \in 0..Len(s) |-> u[k]] /\ u[0] = <<>>
           /\ \A k \in 1..Len(s) : u[k] = u[k - 1] \o Piece(s, e, k)
<1> DEFINE F(k) == IF k = 0 THEN <<>> ELSE u[k - 1] \o Piece(s, e, k)
<1>1. Len(s) \in Nat
  OBVIOUS
<1>2. u = [k \in 0..Len(s) |-> F(k)]
  BY DEF Upto
<1> HIDE DEF F
<1>3. \A k \in 0..Len(s) : u[k] = F(k)
  BY <1>2
<1>4. u = [k \in 0..Len(s) |-> u[k]]
  BY <1>2
<1>5. F(0) = <<>> /\ 0 \in 0..Len(s)
  BY <1>1 DEF F
<1>6. \A k \in 1..Len(s) : k \in 0..Len(s) /\ k # 0
  BY <1>1
<1>7. \A k \in 1..Len(s) : F(k) = u[k - 1] \o Piece(s, e, k)
  BY <1>6 DEF F
<1> QED  BY <1>3, <1>4, <1>5, <1>6, <1>7

LEMMA UptoUnique ==
    ASSUME NEW s \in Seq(Bytes), NEW e, NEW u, NEW w, Upto(s, e, u), Upto(s, e, w)
    PROVE  u = w
<1> DEFINE T == {k \in 0..Len(s) : u[k] = w[k]}
<1>1. /\ u = [k \in 0..Len(s) |-> u[k]] /\ w = [k \in 0..Len(s) |-> w[k]]
      /\ u[0] = <<>> /\ w[0] = <<>>
  BY UptoSteps
<1>2. \A k \in 1..Len(s) : u[k] = u[k - 1] \o Piece(s, e, k) /\ w[k] = w[k - 1] \o Piece(s, e, k)
  BY UptoSteps
<1>3. Len(s) \in Nat /\ 0 \in T
  BY <1>1
<1>4. ASSUME NEW k \in 1..Len(s), k - 1 \in T PROVE k \in T
  <2>1. k \in 0..Len(s) /\ u[k - 1] = w[k - 1]
    BY <1>3, <1>4
  <2>2. u[k] = w[k]
    BY <1>2, <2>1
  <2> QED  BY <2>1, <2>2
<1>5. 0..Len(s) \subseteq T
  <2> HIDE DEF T
  <2> QED  BY <1>3, <1>4, Upwards
<1>6. \A k \in 0..Len(s) : u[k] = w[k]
  BY <1>5
<1> QED  BY <1>1, <1>6

\* It is enough to know a function that goes through the line as Replaced does.
LEMMA ReplacedBy ==
    ASSUME NEW s \in Seq(Bytes), NEW e, NEW u, Upto(s, e, u)
    PROVE  Replaced(s, e) = u[Len(s)]
<1>1. Upto(s, e, CHOOSE w : Upto(s, e, w))
  OBVIOUS
<1>2. (CHOOSE w : Upto(s, e, w)) = u
  BY <1>1, UptoUnique
<1> QED  BY <1>2, ReplacedChoice

LEMMA UptoExists ==
    ASSUME NEW s \in Seq(Bytes), NEW V, NEW e,
           \A k \in 1..Len(s) : Piece(s, e, k) \in Seq(V)
    PROVE  \E u \in [0..Len(s) -> Seq(V)] : Upto(s, e, u)
<1> DEFINE n == Len(s)
           step == [x \in (1..n) \X Seq(V) |-> x[2] \o Piece(s, e, x[1])]
<1>1. n \in Nat /\ <<>> \in Seq(V)
  OBVIOUS
<1>2. step \in [(1..n) \X Seq(V) -> Seq(V)]
  OBVIOUS
<1>3. \A k \in 1..n, x \in Seq(V) : step[<<k, x>>] = x \o Piece(s, e, k)
  OBVIOUS
<1>4. \E u \in [0..n -> Seq(V)] :
          u[0] = <<>> /\ \A k \in 1..n : u[k] = step[<<k, u[k - 1]>>]
  <2> DEFINE W == Seq(V)
             a == <<>>
  <2>1. n \in Nat /\ a \in W /\ step \in [(1..n) \X W -> W]
    BY <1>1, <1>2
  <2> HIDE DEF step, n, W, a
  <2>2. Stepwise(n, W, a, step)
    BY <2>1, StepsDefine
  <2> QED  BY <2>2 DEF W, a, Stepwise
<1>5. PICK u \in [0..n -> Seq(V)] :
          u[0] = <<>> /\ \A k \in 1..n : u[k] = step[<<k, u[k - 1]>>]
  BY <1>4
<1>6. ASSUME NEW k \in 1..n PROVE u[k] = u[k - 1] \o Piece(s, e, k)
  <2>1. k - 1 \in 0..n
    BY <1>1
  <2>2. u[k - 1] \in Seq(V)
    BY <2>1
  <2> HIDE DEF step
  <2> QED  BY <1>3, <1>5, <2>2
<1>7. Upto(s, e, u)
  BY <1>1, <1>5, <1>6 DEF Upto
<1> QED  BY <1>7

LEMMA NoToken == \A b \in Bytes : ~IsToken(b) <=> b \in Plain
  BY DEF Bytes, IsToken, Plain

LEMMA PlainBytes == Plain \subseteq Bytes
  BY DEF Bytes, Plain

\* The codes in a text have tokens.
Covered(s, e) == \A k \in 1..Len(s) : IsToken(s[k]) => e[s[k] % 128] \in Seq(Plain)

LEMMA CoveredPieces ==
    ASSUME NEW s \in Seq(Bytes), NEW e, Covered(s, e), NEW k \in 1..Len(s)
    PROVE  Piece(s, e, k) \in Seq(Plain)
<1>1. s[k] \in Bytes
  OBVIOUS
<1>2. CASE IsToken(s[k])
  BY <1>2 DEF Covered, Piece
<1>3. CASE ~IsToken(s[k])
  <2>1. s[k] \in Plain
    BY <1>1, <1>3, NoToken
  <2>2. <<s[k]>> \in Seq(Plain)
    BY <2>1
  <2> QED  BY <1>3, <2>2 DEF Piece
<1> QED  BY <1>2, <1>3

LEMMA ReplacedType ==
    ASSUME NEW s \in Seq(Bytes), NEW e, Covered(s, e)
    PROVE  /\ Replaced(s, e) \in Seq(Plain)
           /\ \E u \in [0..Len(s) -> Seq(Plain)] : Upto(s, e, u) /\ Replaced(s, e) = u[Len(s)]
<1>1. PICK u \in [0..Len(s) -> Seq(Plain)] : Upto(s, e, u)
  BY CoveredPieces, UptoExists
<1>2. Replaced(s, e) = u[Len(s)]
  BY <1>1, ReplacedBy
<1>3. Len(s) \in 0..Len(s)
  OBVIOUS
<1> QED  BY <1>1, <1>2, <1>3

\* Only the tokens of codes in the text matter.
LEMMA ReplacedSame ==
    ASSUME NEW s \in Seq(Bytes), NEW e, NEW d, Covered(s, e),
           \A k \in 1..Len(s) : IsToken(s[k]) => d[s[k] % 128] = e[s[k] % 128]
    PROVE  Replaced(s, d) = Replaced(s, e)
<1>1. PICK u \in [0..Len(s) -> Seq(Plain)] : Upto(s, e, u) /\ Replaced(s, e) = u[Len(s)]
  BY ReplacedType
<1>2. \A k \in 1..Len(s) : Piece(s, d, k) = Piece(s, e, k)
  BY DEF Piece
<1>3. /\ u = [k \in 0..Len(s) |-> u[k]] /\ u[0] = <<>>
      /\ \A k \in 1..Len(s) : u[k] = u[k - 1] \o Piece(s, d, k)
  <2>1. /\ u = [k \in 0..Len(s) |-> u[k]] /\ u[0] = <<>>
        /\ \A k \in 1..Len(s) : u[k] = u[k - 1] \o Piece(s, e, k)
    BY <1>1, UptoSteps
  <2> QED  BY <1>2, <2>1
<1>4. \A k \in 0..Len(s) : k = 0 \/ k \in 1..Len(s)
  OBVIOUS
<1>5. Upto(s, d, u)
  BY <1>3, <1>4 DEF Upto
<1> QED  BY <1>1, <1>5, ReplacedBy

\* Text without codes stands for itself.
LEMMA ReplacedPlain ==
    ASSUME NEW s \in Seq(Plain), NEW e
    PROVE  Replaced(s, e) = s
<1> DEFINE u == [k \in 0..Len(s) |-> SubSeq(s, 1, k)]
<1>1. s \in Seq(Bytes) /\ Len(s) \in Nat
  BY PlainBytes
<1>2. u[0] = <<>> /\ u[Len(s)] = s
  BY <1>1
<1>3. ASSUME NEW k \in 1..Len(s) PROVE u[k] = u[k - 1] \o Piece(s, e, k)
  <2>1. s[k] \in Plain
    OBVIOUS
  <2>2. Piece(s, e, k) = <<s[k]>>
    BY <2>1, NoToken, PlainBytes DEF Piece
  <2>3. k - 1 \in 0..Len(s) /\ k \in 0..Len(s)
    BY <1>1
  <2>4. SubSeq(s, 1, k) = SubSeq(s, 1, k - 1) \o <<s[k]>>
    OBVIOUS
  <2> QED  BY <2>2, <2>3, <2>4
<1>4. Upto(s, e, u)
  <2>1. u = [k \in 0..Len(s) |-> u[k]]
    OBVIOUS
  <2>2. \A k \in 0..Len(s) : k = 0 \/ k \in 1..Len(s)
    BY <1>1
  <2> HIDE DEF u
  <2> QED  BY <1>2, <1>3, <2>1, <2>2 DEF Upto
<1> QED  BY <1>1, <1>2, <1>4, ReplacedBy

LEMMA ReplacedJoined ==
    ASSUME NEW s \in Seq(Bytes), NEW t \in Seq(Bytes), NEW e, Covered(s, e), Covered(t, e)
    PROVE  /\ Covered(s \o t, e)
           /\ Replaced(s \o t, e) = Replaced(s, e) \o Replaced(t, e)
<1>1. PICK u \in [0..Len(s) -> Seq(Plain)] : Upto(s, e, u) /\ Replaced(s, e) = u[Len(s)]
  BY ReplacedType
<1>2. PICK w \in [0..Len(t) -> Seq(Plain)] : Upto(t, e, w) /\ Replaced(t, e) = w[Len(t)]
  BY ReplacedType
<1> DEFINE st == s \o t
           F(k) == IF k <= Len(s) THEN u[k] ELSE u[Len(s)] \o w[k - Len(s)]
           v == [k \in 0..Len(st) |-> F(k)]
<1>3. /\ Len(s) \in Nat /\ Len(t) \in Nat /\ st \in Seq(Bytes) /\ Len(st) = Len(s) + Len(t)
      /\ \A k \in 1..Len(s) : st[k] = s[k]
      /\ \A k \in 1..Len(t) : st[k + Len(s)] = t[k]
  OBVIOUS
<1>4. /\ \A k \in 1..Len(s) : Piece(st, e, k) = Piece(s, e, k)
      /\ \A k \in 1..Len(t) : Piece(st, e, k + Len(s)) = Piece(t, e, k)
  <2> HIDE DEF st
  <2> QED  BY <1>3 DEF Piece
<1> HIDE DEF st
<1>5. \A k \in 1..Len(st) : k \in 1..Len(s) \/ (k - Len(s) \in 1..Len(t) /\ k = (k - Len(s)) + Len(s))
  BY <1>3
<1>6. Covered(st, e)
  <2> SUFFICES ASSUME NEW k \in 1..Len(st), IsToken(st[k])
               PROVE  e[st[k] % 128] \in Seq(Plain)
    BY DEF Covered
  <2>1. CASE k \in 1..Len(s)
    BY <1>3, <2>1 DEF Covered
  <2>2. CASE k - Len(s) \in 1..Len(t) /\ k = (k - Len(s)) + Len(s)
    <3>1. st[k] = t[k - Len(s)]
      BY <1>3, <2>2
    <3> QED  BY <2>2, <3>1 DEF Covered
  <2> QED  BY <1>5, <2>1, <2>2
<1>7. /\ u[0] = <<>> /\ w[0] = <<>>
      /\ \A k \in 1..Len(s) : u[k] = u[k - 1] \o Piece(s, e, k)
      /\ \A k \in 1..Len(t) : w[k] = w[k - 1] \o Piece(t, e, k)
  BY <1>1, <1>2, UptoSteps
<1>8. ASSUME NEW k \in 1..Len(st) PROVE F(k) = F(k - 1) \o Piece(st, e, k)
  <2>1. CASE k \in 1..Len(s)
    <3>1. k <= Len(s) /\ k - 1 <= Len(s)
      BY <1>3, <2>1
    <3>2. u[k] = u[k - 1] \o Piece(st, e, k)
      BY <1>4, <1>7, <2>1
    <3> QED  BY <3>1, <3>2
  <2>2. CASE k - Len(s) \in 1..Len(t)
    <3>1. w[k - Len(s)] = w[k - Len(s) - 1] \o Piece(t, e, k - Len(s))
      BY <1>7, <2>2
    <3>2. Piece(st, e, k) = Piece(t, e, k - Len(s))
      <4>1. k = (k - Len(s)) + Len(s)
        BY <1>3
      <4> QED  BY <1>4, <2>2, <4>1
    <3>3. Piece(t, e, k - Len(s)) \in Seq(Plain)
      BY <2>2, CoveredPieces
    <3>4. u[Len(s)] \in Seq(Plain) /\ k - Len(s) - 1 \in 0..Len(t)
      BY <1>3, <2>2
    <3>5. w[k - Len(s) - 1] \in Seq(Plain)
      BY <3>4
    <3>6. F(k) = u[Len(s)] \o w[k - Len(s)]
      BY <1>3, <2>2
    <3>7. F(k - 1) = u[Len(s)] \o w[k - Len(s) - 1]
      <4>1. CASE k - 1 <= Len(s)
        <5>1. k - 1 = Len(s) /\ k - Len(s) - 1 = 0
          BY <1>3, <2>2, <4>1
        <5>2. F(k - 1) = u[Len(s)]
          BY <5>1, <1>3
        <5>3. u[Len(s)] \o <<>> = u[Len(s)]
          BY <3>4
        <5> QED  BY <5>1, <5>2, <5>3, <1>7
      <4>2. CASE ~(k - 1 <= Len(s))
        <5>1. k - 1 - Len(s) = k - Len(s) - 1
          BY <1>3
        <5> QED  BY <4>2, <5>1
      <4> QED  BY <4>1, <4>2
    <3>8. u[Len(s)] \o (w[k - Len(s) - 1] \o Piece(t, e, k - Len(s)))
            = (u[Len(s)] \o w[k - Len(s) - 1]) \o Piece(t, e, k - Len(s))
      <4> DEFINE x == w[k - Len(s) - 1]
                 y == Piece(t, e, k - Len(s))
                 z == u[Len(s)]
      <4>1. x \in Seq(Plain) /\ y \in Seq(Plain) /\ z \in Seq(Plain)
        BY <3>3, <3>4, <3>5
      <4> HIDE DEF x, y, z
      <4>2. z \o (x \o y) = (z \o x) \o y
        BY <4>1, ThreePlain
      <4> QED  BY <4>2 DEF x, y, z
    <3> QED  BY <3>1, <3>2, <3>6, <3>7, <3>8
  <2> QED  BY <1>5, <2>1, <2>2
<1>9. F(0) = <<>> /\ Len(st) \in Nat
  BY <1>3, <1>7
<1>10. F(Len(st)) = u[Len(s)] \o w[Len(t)]
  <2>1. CASE Len(t) = 0
    <3>1. u[Len(s)] \in Seq(Plain) /\ Len(st) = Len(s)
      BY <1>3, <2>1
    <3> QED  BY <1>3, <1>7, <2>1, <3>1
  <2>2. CASE Len(t) # 0
    BY <1>3, <2>2
  <2> QED  BY <2>1, <2>2
<1>11. Upto(st, e, v)
  <2>1. \A k \in 0..Len(st) : v[k] = F(k)
    OBVIOUS
  <2>2. \A k \in 1..Len(st) : k \in 0..Len(st) /\ k - 1 \in 0..Len(st) /\ k # 0
    BY <1>9
  <2>3. \A k \in 0..Len(st) : k = 0 \/ k \in 1..Len(st)
    BY <1>9
  <2>4. v = [k \in 0..Len(st) |-> v[k]]
    OBVIOUS
  <2> HIDE DEF v, F
  <2>5. \A k \in 0..Len(st) : v[k] = IF k = 0 THEN <<>> ELSE v[k - 1] \o Piece(st, e, k)
    BY <1>8, <1>9, <2>1, <2>2, <2>3
  <2> QED  BY <2>4, <2>5 DEF Upto
<1>12. Replaced(st, e) = v[Len(st)]
  <2> HIDE DEF v
  <2> QED  BY <1>3, <1>11, ReplacedBy
<1>13. v[Len(st)] = F(Len(st))
  BY <1>9
<1>14. Covered(st, e) /\ Replaced(st, e) = Replaced(s, e) \o Replaced(t, e)
  BY <1>1, <1>2, <1>6, <1>10, <1>12, <1>13
<1> QED  BY <1>14 DEF st

LEMMA ReplacedOne ==
    ASSUME NEW c \in Bytes, NEW e, e[c % 128] \in Seq(Plain), IsToken(c)
    PROVE  Covered(<<c>>, e) /\ Replaced(<<c>>, e) = e[c % 128]
<1> DEFINE s == <<c>>
           u == [k \in 0..1 |-> IF k = 0 THEN <<>> ELSE e[c % 128]]
<1>1. s \in Seq(Bytes) /\ Len(s) = 1 /\ s[1] = c
  OBVIOUS
<1> HIDE DEF s
<1>2. Piece(s, e, 1) = e[c % 128]
  BY <1>1 DEF Piece
<1>3. <<>> \o e[c % 128] = e[c % 128]
  OBVIOUS
<1>4. Upto(s, e, u)
  <2>1. u[0] = <<>> /\ u[1] = e[c % 128]
    OBVIOUS
  <2>2. u = [k \in 0..1 |-> u[k]]
    OBVIOUS
  <2> HIDE DEF u
  <2>3. \A k \in 0..1 : u[k] = IF k = 0 THEN <<>> ELSE u[k - 1] \o Piece(s, e, k)
    <3>1. u[1] = u[1 - 1] \o Piece(s, e, 1)
      BY <1>2, <1>3, <2>1
    <3>2. \A k \in 0..1 : k = 0 \/ k = 1
      OBVIOUS
    <3> QED  BY <2>1, <3>1, <3>2
  <2> QED  BY <1>1, <2>2, <2>3 DEF Upto
<1>5. Replaced(s, e) = u[1]
  BY <1>1, <1>4, ReplacedBy
<1>6. Covered(s, e)
  BY <1>1 DEF Covered
<1> QED  BY <1>5, <1>6 DEF s

----------------------------------------------------------------------------
(* Expanded tokens *)

Ids(f) == 0..(TotalTokens(f) - 1)

Ranks(f, rank) ==
    /\ rank \in [Ids(f) -> Ids(f)]
    /\ \A id \in Ids(f) : \A k \in DOMAIN RawToken(f, id) :
          LET b == RawToken(f, id)[k] IN
          IsToken(b) => KnownToken(f, b) /\ rank[b % 128] < rank[id]

LEMMA RanksExist ==
    ASSUME NEW f \in Tables, LoadsTokenTable(f)
    PROVE  \E rank \in [Ids(f) -> Ids(f)] : Ranks(f, rank)
  BY TableAssumption DEF Sound, Ranks, Ids

LEMMA RawTokenType ==
    ASSUME NEW f \in Tables, LoadsTokenTable(f), NEW id \in Ids(f)
    PROVE  RawToken(f, id) \in Seq(Bytes)
<1>1. Sound(f)
  BY TableAssumption
<1>2. /\ f.offsets \in Seq(Nat) /\ f.text \in Seq(Bytes)
      /\ \A k \in DOMAIN f.offsets : f.offsets[k] >= TextStart(f)
  BY <1>1 DEF Sound, Bytes
<1>3. \A k \in DOMAIN f.offsets : f.offsets[k] <= Size(f)
  BY DEF LoadsTokenTable
<1> DEFINE offsets == f.offsets
           text == f.text
<1>4. offsets \in Seq(Nat) /\ text \in Seq(Bytes) /\ Len(offsets) \in Nat /\ Len(text) \in Nat
  BY <1>2
<1>5. TextStart(f) = 2 + 2 * Len(offsets) /\ Size(f) = TextStart(f) + Len(text)
  BY DEF TextStart, Size
<1>6. id \in 0..(Len(offsets) - 2)
  <2>1. TotalTokens(f) - 1 = Len(offsets) - 2
    BY <1>4 DEF TotalTokens
  <2> QED  BY <2>1 DEF Ids
<1>7. /\ \A k \in DOMAIN offsets : offsets[k] >= TextStart(f) /\ offsets[k] <= Size(f)
      /\ RawToken(f, id) = SubSeq(text, offsets[id + 1] - TextStart(f) + 1, offsets[id + 2] - TextStart(f))
  BY <1>2, <1>3 DEF RawToken
<1> HIDE DEF offsets, text
<1>8. id + 1 \in DOMAIN offsets /\ id + 2 \in DOMAIN offsets
  BY <1>4, <1>6
<1>9. /\ offsets[id + 1] \in Nat /\ offsets[id + 2] \in Nat /\ TextStart(f) \in Nat
      /\ offsets[id + 1] >= TextStart(f) /\ offsets[id + 2] <= TextStart(f) + Len(text)
  BY <1>4, <1>5, <1>7, <1>8
<1> DEFINE m == offsets[id + 1] - TextStart(f) + 1
           n == offsets[id + 2] - TextStart(f)
<1>10. m \in Nat /\ n \in Int /\ 1 <= m /\ n <= Len(text)
  <2> DEFINE x == offsets[id + 1]
             y == offsets[id + 2]
             start == TextStart(f)
             size == Len(text)
  <2>1. /\ x \in Nat /\ y \in Nat /\ start \in Nat /\ size \in Nat
        /\ x >= start /\ y <= start + size
    BY <1>4, <1>9
  <2> HIDE DEF x, y, start, size
  <2>2. x - start + 1 \in Nat /\ y - start \in Int /\ 1 <= x - start + 1 /\ y - start <= size
    BY <2>1
  <2> QED  BY <2>2 DEF x, y, start, size
<1> HIDE DEF m, n
<1>11. SubSeq(text, m, n) \in Seq(Bytes)
  BY <1>4, <1>10
<1> QED  BY <1>7, <1>11 DEF m, n

LEMMA KnownId ==
    ASSUME NEW f, TotalTokens(f) \in Int, NEW code \in Nat, KnownToken(f, code)
    PROVE  code % 128 \in Ids(f)
  BY DEF KnownToken, Ids

\* The texts of the tokens whose rank is below m are made of the others'.
ExpandedBelow(f, rank, e, m) ==
    \A id \in Ids(f) : rank[id] < m => e[id] = Replaced(RawToken(f, id), e)

LEMMA TablesLoaded ==
    ASSUME NEW f \in Tables, LoadsTokenTable(f)
    PROVE  TotalTokens(f) \in Int
<1>1. f.offsets \in Seq(Nat)
  BY TableAssumption DEF Sound
<1> QED  BY <1>1 DEF TotalTokens

\* The codes in a token have tokens when those of lower rank have.
LEMMA CoveredByRank ==
    ASSUME NEW f \in Tables, LoadsTokenTable(f), NEW rank, Ranks(f, rank), NEW id \in Ids(f),
           NEW e, \A x \in Ids(f) : rank[x] < rank[id] => e[x] \in Seq(Plain)
    PROVE  /\ RawToken(f, id) \in Seq(Bytes) /\ Covered(RawToken(f, id), e)
           /\ \A k \in 1..Len(RawToken(f, id)) :
                 IsToken(RawToken(f, id)[k]) =>
                    /\ RawToken(f, id)[k] % 128 \in Ids(f)
                    /\ rank[RawToken(f, id)[k] % 128] < rank[id]
<1> DEFINE raw == RawToken(f, id)
<1>1. raw \in Seq(Bytes)
  BY RawTokenType
<1>2. \A k \in 1..Len(raw) : k \in DOMAIN raw /\ raw[k] \in Bytes
  BY <1>1
<1>3. \A k \in 1..Len(raw) : IsToken(raw[k]) => KnownToken(f, raw[k]) /\ rank[raw[k] % 128] < rank[id]
  BY <1>2 DEF Ranks
<1> HIDE DEF raw
<1>4. \A k \in 1..Len(raw) : IsToken(raw[k]) => raw[k] % 128 \in Ids(f)
  <2>1. Bytes \subseteq Nat  BY DEF Bytes
  <2> QED  BY <1>2, <1>3, <2>1, KnownId, TablesLoaded
<1>5. Covered(raw, e)
  BY <1>3, <1>4 DEF Covered
<1>6. raw \in Seq(Bytes) /\ Covered(raw, e)
  BY <1>1, <1>5
<1> QED  BY <1>3, <1>4, <1>6 DEF raw

LEMMA ExpandedExist ==
    ASSUME NEW f \in Tables, LoadsTokenTable(f)
    PROVE  \E e \in [Ids(f) -> Seq(Plain)] : e = [id \in Ids(f) |-> Replaced(RawToken(f, id), e)]
<1>1. PICK rank \in [Ids(f) -> Ids(f)] : Ranks(f, rank)
  BY RanksExist
<1> DEFINE n == IF Ids(f) = {} THEN 0 ELSE TotalTokens(f)
           T == {m \in 0..n : \E e \in [Ids(f) -> Seq(Plain)] : ExpandedBelow(f, rank, e, m)}
<1>2. n \in Nat /\ (\A id \in Ids(f) : rank[id] \in Nat /\ rank[id] < n)
  <2>1. TotalTokens(f) \in Int
    BY TablesLoaded
  <2>2. Ids(f) # {} => TotalTokens(f) \in Nat
    BY <2>1 DEF Ids
  <2>3. \A x \in Ids(f) : x \in Nat /\ x < n
    BY <2>1, <2>2 DEF Ids
  <2> QED  BY <2>2, <2>3
<1>3. 0 \in T
  <2> DEFINE e == [id \in Ids(f) |-> <<>>]
  <2>1. e \in [Ids(f) -> Seq(Plain)]
    OBVIOUS
  <2>2. ExpandedBelow(f, rank, e, 0)
    BY <1>2 DEF ExpandedBelow
  <2> HIDE DEF e
  <2> QED  BY <1>2, <2>1, <2>2
<1>4. ASSUME NEW m \in 1..n, m - 1 \in T PROVE m \in T
  <2>1. PICK e \in [Ids(f) -> Seq(Plain)] : ExpandedBelow(f, rank, e, m - 1)
    BY <1>4
  <2> DEFINE d == [id \in Ids(f) |-> IF rank[id] = m - 1 THEN Replaced(RawToken(f, id), e) ELSE e[id]]
  <2>2. ASSUME NEW id \in Ids(f)
        PROVE  /\ RawToken(f, id) \in Seq(Bytes) /\ Covered(RawToken(f, id), e)
               /\ \A k \in 1..Len(RawToken(f, id)) :
                     IsToken(RawToken(f, id)[k]) =>
                        /\ RawToken(f, id)[k] % 128 \in Ids(f)
                        /\ rank[RawToken(f, id)[k] % 128] < rank[id]
    <3>1. \A x \in Ids(f) : rank[x] < rank[id] => e[x] \in Seq(Plain)
      OBVIOUS
    <3> QED  BY <1>1, <3>1, CoveredByRank
  <2>3. d \in [Ids(f) -> Seq(Plain)]
    <3>1. \A id \in Ids(f) : Replaced(RawToken(f, id), e) \in Seq(Plain)
      BY <2>2, ReplacedType
    <3> QED  BY <3>1
  <2>4. \A x \in Ids(f) : rank[x] < m - 1 => d[x] = e[x]
    BY <1>2
  <2>5. ASSUME NEW id \in Ids(f), rank[id] < m
        PROVE  d[id] = Replaced(RawToken(f, id), d)
    <3>1. \A x \in Ids(f) : rank[x] < rank[id] => d[x] = e[x]
      BY <1>2, <2>4, <2>5
    <3>2. \A k \in 1..Len(RawToken(f, id)) :
              IsToken(RawToken(f, id)[k]) =>
                 d[RawToken(f, id)[k] % 128] = e[RawToken(f, id)[k] % 128]
      BY <2>2, <3>1
    <3>3. Replaced(RawToken(f, id), d) = Replaced(RawToken(f, id), e)
      <4> HIDE DEF d
      <4> QED  BY <2>2, <3>2, ReplacedSame
    <3>4. d[id] = Replaced(RawToken(f, id), e)
      <4>1. CASE rank[id] = m - 1
        BY <4>1
      <4>2. CASE rank[id] # m - 1
        <5>1. rank[id] < m - 1
          <6>1. rank[id] \in Nat /\ m \in Int
            BY <1>2
          <6> HIDE DEF n, T
          <6> QED  BY <2>5, <4>2, <6>1
        <5> QED  BY <2>1, <2>4, <5>1 DEF ExpandedBelow
      <4> QED  BY <4>1, <4>2
    <3> QED  BY <3>3, <3>4
  <2>6. ExpandedBelow(f, rank, d, m)
    <3> HIDE DEF d
    <3> QED  BY <2>5 DEF ExpandedBelow
  <2> HIDE DEF d
  <2> QED  BY <1>2, <2>3, <2>6
<1>5. n \in T
  <2> HIDE DEF T, n
  <2>1. 0..n \subseteq T
    BY <1>2, <1>3, <1>4, Upwards
  <2> QED  BY <1>2, <2>1
<1>6. PICK e \in [Ids(f) -> Seq(Plain)] : ExpandedBelow(f, rank, e, n)
  BY <1>5
<1>7. \A id \in Ids(f) : e[id] = Replaced(RawToken(f, id), e)
  BY <1>2, <1>6 DEF ExpandedBelow
<1>8. e = [id \in Ids(f) |-> Replaced(RawToken(f, id), e)]
  <2>1. e = [id \in Ids(f) |-> e[id]]
    OBVIOUS
  <2> QED  BY <1>7, <2>1
<1> QED  BY <1>8

\* A known token has a text, and there are no codes in it.
LEMMA TokensArePlain ==
    ASSUME NEW f \in Tables, LoadsTokenTable(f)
    PROVE  \A id \in Ids(f) : ExpandedTokens(f)[id] \in Seq(Plain)
<1> DEFINE e == CHOOSE x : x = [id \in Ids(f) |-> Replaced(RawToken(f, id), x)]
<1>1. ExpandedTokens(f) = e
  BY DEF ExpandedTokens, Ids
<1>2. e = [id \in Ids(f) |-> Replaced(RawToken(f, id), e)]
  BY ExpandedExist
<1> HIDE DEF e
<1>3. \A id \in Ids(f) : e[id] = Replaced(RawToken(f, id), e)
  BY <1>2
<1>4. PICK rank \in [Ids(f) -> Ids(f)] : Ranks(f, rank)
  BY RanksExist
<1>5. TotalTokens(f) \in Int /\ \A id \in Ids(f) : rank[id] \in Nat
  BY TablesLoaded DEF Ids
<1> DEFINE Wrong == {m \in Nat : \E id \in Ids(f) : rank[id] = m /\ e[id] \notin Seq(Plain)}
<1> SUFFICES ASSUME Wrong # {} PROVE FALSE
  BY <1>1, <1>5
<1>6. PICK m \in Wrong : \A x \in Wrong : m <= x
  <2>1. Wrong \subseteq Nat  OBVIOUS
  <2> QED  BY <2>1, LeastNumber
<1>7. PICK id \in Ids(f) : rank[id] = m /\ e[id] \notin Seq(Plain)
  OBVIOUS
<1>8. \A x \in Ids(f) : rank[x] < rank[id] => e[x] \in Seq(Plain)
  <2> SUFFICES ASSUME NEW x \in Ids(f), rank[x] < rank[id], e[x] \notin Seq(Plain) PROVE FALSE
    OBVIOUS
  <2>1. rank[x] \in Wrong
    BY <1>5
  <2> QED  BY <1>5, <1>6, <1>7, <2>1
<1>9. Replaced(RawToken(f, id), e) \in Seq(Plain)
  BY <1>4, <1>8, CoveredByRank, ReplacedType
<1> QED  BY <1>3, <1>7, <1>9

----------------------------------------------------------------------------
(* Lines with codes *)

AllKnown(f, s) == \A k \in 1..Len(s) : IsToken(s[k]) => KnownToken(f, s[k])

LEMMA BytesNat == Bytes \subseteq Nat
  BY DEF Bytes

LEMMA KnownCovered ==
    ASSUME NEW f \in Tables, LoadsTokenTable(f), NEW s \in Seq(Bytes), AllKnown(f, s)
    PROVE  Covered(s, ExpandedTokens(f)) /\ InClear(f, s) \in Seq(Plain)
<1>1. \A k \in 1..Len(s) : s[k] \in Nat
  <2>1. \A k \in 1..Len(s) : s[k] \in Bytes
    OBVIOUS
  <2> QED  BY <2>1, BytesNat
<1>2. Covered(s, ExpandedTokens(f))
  BY <1>1, KnownId, TablesLoaded, TokensArePlain DEF AllKnown, Covered
<1> QED  BY <1>2, ReplacedType DEF InClear

LEMMA KnownPlain ==
    ASSUME NEW f, NEW s \in Seq(Plain)
    PROVE  AllKnown(f, s)
  BY NoToken, PlainBytes DEF AllKnown

LEMMA KnownJoined ==
    ASSUME NEW f, NEW s \in Seq(Bytes), NEW t \in Seq(Bytes)
    PROVE  AllKnown(f, s \o t) <=> AllKnown(f, s) /\ AllKnown(f, t)
<1> DEFINE st == s \o t
<1>1. /\ Len(s) \in Nat /\ Len(t) \in Nat /\ Len(st) = Len(s) + Len(t)
      /\ \A k \in 1..Len(s) : st[k] = s[k]
      /\ \A k \in 1..Len(t) : st[k + Len(s)] = t[k]
  OBVIOUS
<1> HIDE DEF st
<1>2. ASSUME AllKnown(f, st) PROVE AllKnown(f, s) /\ AllKnown(f, t)
  <2>1. \A k \in 1..Len(s) : k \in 1..Len(st)
    BY <1>1
  <2>2. \A k \in 1..Len(t) : k + Len(s) \in 1..Len(st)
    BY <1>1
  <2> QED  BY <1>1, <1>2, <2>1, <2>2 DEF AllKnown
<1>3. ASSUME AllKnown(f, s), AllKnown(f, t) PROVE AllKnown(f, st)
  <2> SUFFICES ASSUME NEW k \in 1..Len(st), IsToken(st[k]) PROVE KnownToken(f, st[k])
    BY DEF AllKnown
  <2>1. k \in 1..Len(s) \/ (k - Len(s) \in 1..Len(t) /\ k = (k - Len(s)) + Len(s))
    BY <1>1
  <2>2. CASE k \in 1..Len(s)
    BY <1>1, <1>3, <2>2 DEF AllKnown
  <2>3. CASE k - Len(s) \in 1..Len(t) /\ k = (k - Len(s)) + Len(s)
    <3>1. st[k] = t[k - Len(s)]
      BY <1>1, <2>3
    <3> QED  BY <1>3, <2>3, <3>1 DEF AllKnown
  <2> QED  BY <2>1, <2>2, <2>3
<1>4. AllKnown(f, st) <=> AllKnown(f, s) /\ AllKnown(f, t)
  BY <1>2, <1>3
<1> QED  BY <1>4 DEF st

\* The two lines around a place where a text is.
LEMMA AroundPlace ==
    ASSUME NEW s \in Seq(Bytes), NEW token \in Seq(Plain), NEW q \in MatchesToken(s, token)
    PROVE  \E pre \in Seq(Bytes), post \in Seq(Bytes) :
              /\ s = pre \o (token \o post)
              /\ \A c : InsertTokenId(s, token, c, q) = pre \o (<<c>> \o post)
<1> DEFINE n == Len(token)
           pre == SubSeq(s, 1, q - 1)
           mid == SubSeq(s, q, q + n - 1)
           post == SubSeq(s, q + n, Len(s))
<1>1. n \in Nat /\ Len(s) \in Nat /\ q \in 1..(Len(s) - n + 1) /\ mid = token
  BY DEF MatchesToken
<1>2. pre \in Seq(Bytes) /\ mid \in Seq(Bytes) /\ post \in Seq(Bytes)
  BY <1>1
<1>3. s = pre \o (mid \o post)
  <2>1. /\ 1 \in 1..(Len(s) + 1) /\ q - 1 \in 0..Len(s) /\ q + n - 1 \in (q - 1)..Len(s)
        /\ q \in 1..(Len(s) + 1) /\ Len(s) \in (q + n - 1)..Len(s)
        /\ (q - 1) + 1 = q /\ (q + n - 1) + 1 = q + n
    BY <1>1
  <2>2. mid \o post = SubSeq(s, q, Len(s))
    BY <2>1, ConcatAdjacentSubSeq
  <2>3. pre \o SubSeq(s, q, Len(s)) = SubSeq(s, 1, Len(s))
    <3>1. q - 1 \in (1 - 1)..Len(s) /\ Len(s) \in (q - 1)..Len(s)
      BY <1>1
    <3>2. SubSeq(s, 1, q - 1) \o SubSeq(s, (q - 1) + 1, Len(s)) = SubSeq(s, 1, Len(s))
      BY <2>1, <3>1, ConcatAdjacentSubSeq
    <3> QED  BY <2>1, <3>2
  <2>4. SubSeq(s, 1, Len(s)) = s
    OBVIOUS
  <2> QED  BY <2>2, <2>3, <2>4
<1>4. ASSUME NEW c PROVE InsertTokenId(s, token, c, q) = pre \o (<<c>> \o post)
  <2>1. pre \in Seq(Bytes \union {c}) /\ post \in Seq(Bytes \union {c}) /\ <<c>> \in Seq(Bytes \union {c})
    <3>1. Bytes \subseteq Bytes \union {c} /\ c \in Bytes \union {c}
      OBVIOUS
    <3> HIDE DEF pre, post
    <3> QED  BY <1>2, <3>1
  <2>2. (pre \o <<c>>) \o post = pre \o (<<c>> \o post)
    <3> HIDE DEF pre, post
    <3> QED  BY <2>1, ConcatAssociative
  <2> QED  BY <2>2 DEF InsertTokenId
<1> HIDE DEF pre, post, mid
<1> QED  BY <1>1, <1>2, <1>3, <1>4

LEMMA MatchAt ==
    ASSUME NEW s \in Seq(Bytes), NEW x \in Seq(Plain), NEW q \in 1..(Len(s) - Len(x) + 1)
    PROVE  q \in MatchesToken(s, x) <=> \A j \in 1..Len(x) : s[q + j - 1] = x[j]
<1> DEFINE n == Len(x)
           mid == SubSeq(s, q, q + n - 1)
<1>1. n \in Nat /\ Len(s) \in Nat /\ q \in Nat /\ q + n - 1 <= Len(s) /\ q >= 1
  OBVIOUS
<1>2. /\ mid \in Seq(Bytes) /\ Len(mid) = n /\ \A j \in 1..n : mid[j] = s[q + j - 1]
  BY <1>1
<1>3. x \in Seq(Bytes)
  BY PlainBytes
<1> HIDE DEF mid
<1>4. mid = x <=> \A j \in 1..n : s[q + j - 1] = x[j]
  <2>1. mid = x <=> \A j \in 1..n : mid[j] = x[j]
    BY <1>2, <1>3, SeqEqual
  <2> QED  BY <1>2, <2>1
<1> QED  BY <1>4 DEF MatchesToken, mid

LEMMA Joining ==
    ASSUME NEW V, NEW s \in Seq(V), NEW w \in Seq(V)
    PROVE  /\ s \o w \in Seq(V) /\ Len(s \o w) = Len(s) + Len(w)
           /\ \A j \in 1..Len(s) : (s \o w)[j] = s[j]
           /\ \A j \in 1..Len(w) : (s \o w)[Len(s) + j] = w[j]
  OBVIOUS

\* A text that is nowhere is nowhere when a code is put in the place of another.
LEMMA NoNewPlace ==
    ASSUME NEW pre \in Seq(Bytes), NEW post \in Seq(Bytes), NEW token \in Seq(Plain),
           NEW c \in Bytes, c \notin Plain, NEW x \in Seq(Plain),
           MatchesToken(pre \o (token \o post), x) = {}
    PROVE  MatchesToken(pre \o (<<c>> \o post), x) = {}
<1> DEFINE s == pre \o (token \o post)
           t == pre \o (<<c>> \o post)
           a == Len(pre)
           b == Len(post)
           m == Len(token)
           n == Len(x)
<1>1. a \in Nat /\ b \in Nat /\ m \in Nat /\ n \in Nat
  OBVIOUS
<1>2. /\ s \in Seq(Bytes) /\ Len(s) = a + m + b
      /\ \A j \in 1..a : s[j] = pre[j]
      /\ \A j \in 1..b : s[a + m + j] = post[j]
  <2>1. token \in Seq(Bytes)
    BY PlainBytes
  <2> DEFINE w == token \o post
  <2>2. w \in Seq(Bytes) /\ Len(w) = m + b /\ \A j \in 1..b : w[m + j] = post[j]
    BY <2>1
  <2> HIDE DEF w
  <2>3. /\ pre \o w \in Seq(Bytes) /\ Len(pre \o w) = a + (m + b)
        /\ \A j \in 1..a : (pre \o w)[j] = pre[j]
        /\ \A j \in 1..(m + b) : (pre \o w)[a + j] = w[j]
    <3>1. /\ pre \o w \in Seq(Bytes) /\ Len(pre \o w) = Len(pre) + Len(w)
          /\ \A j \in 1..Len(pre) : (pre \o w)[j] = pre[j]
          /\ \A j \in 1..Len(w) : (pre \o w)[Len(pre) + j] = w[j]
      <4>1. w \in Seq(Bytes)
        BY <2>2
      <4> QED  BY <4>1, Joining
    <3> DEFINE z == pre \o w
    <3> HIDE DEF z
    <3> QED  BY <2>2, <3>1 DEF z
  <2>4. ASSUME NEW j \in 1..b PROVE (pre \o w)[a + m + j] = post[j]
    <3>1. m + j \in 1..(m + b) /\ a + (m + j) = a + m + j
      BY <1>1
    <3> QED  BY <2>2, <2>3, <3>1
  <2>5. a + (m + b) = a + m + b
    BY <1>1
  <2> QED  BY <2>3, <2>4, <2>5 DEF w
<1>3. /\ t \in Seq(Bytes) /\ Len(t) = a + 1 + b
      /\ \A j \in 1..a : t[j] = pre[j]
      /\ t[a + 1] = c
      /\ \A j \in 1..b : t[a + 1 + j] = post[j]
  <2> DEFINE w == <<c>> \o post
  <2>2. w \in Seq(Bytes) /\ Len(w) = 1 + b /\ w[1] = c /\ \A j \in 1..b : w[1 + j] = post[j]
    OBVIOUS
  <2> HIDE DEF w
  <2>3. /\ pre \o w \in Seq(Bytes) /\ Len(pre \o w) = a + (1 + b)
        /\ \A j \in 1..a : (pre \o w)[j] = pre[j]
        /\ \A j \in 1..(1 + b) : (pre \o w)[a + j] = w[j]
    <3>1. /\ pre \o w \in Seq(Bytes) /\ Len(pre \o w) = Len(pre) + Len(w)
          /\ \A j \in 1..Len(pre) : (pre \o w)[j] = pre[j]
          /\ \A j \in 1..Len(w) : (pre \o w)[Len(pre) + j] = w[j]
      <4>1. w \in Seq(Bytes)
        BY <2>2
      <4> QED  BY <4>1, Joining
    <3> DEFINE z == pre \o w
    <3> HIDE DEF z
    <3> QED  BY <2>2, <3>1 DEF z
  <2>4. ASSUME NEW j \in 1..b PROVE (pre \o w)[a + 1 + j] = post[j]
    <3>1. 1 + j \in 1..(1 + b) /\ a + (1 + j) = a + 1 + j
      BY <1>1
    <3> QED  BY <2>2, <2>3, <3>1
  <2>5. a + (1 + b) = a + 1 + b /\ 1 \in 1..(1 + b)
    BY <1>1
  <2> QED  BY <2>2, <2>3, <2>4, <2>5 DEF w
<1> SUFFICES ASSUME NEW q \in MatchesToken(t, x) PROVE FALSE
  OBVIOUS
<1>4. MatchesToken(s, x) = {}
  OBVIOUS
<1> HIDE DEF s, t
<1>5. q \in Nat /\ q \in 1..(Len(t) - n + 1)
  BY <1>1, <1>3 DEF MatchesToken
<1>6. \A j \in 1..n : t[q + j - 1] = x[j]
  BY <1>3, <1>5, MatchAt
<1>7. CASE q + n - 1 <= a
  <2>1. q \in 1..(Len(s) - n + 1)
    BY <1>1, <1>2, <1>5, <1>7
  <2>2. ASSUME NEW j \in 1..n PROVE s[q + j - 1] = x[j]
    <3>1. q + j - 1 \in 1..a
      BY <1>1, <1>5, <1>7
    <3> QED  BY <1>2, <1>3, <1>6, <3>1
  <2> QED  BY <1>2, <1>4, <2>1, <2>2, MatchAt
<1>8. CASE q <= a + 1 /\ a + 1 <= q + n - 1
  <2>1. a + 2 - q \in 1..n /\ q + (a + 2 - q) - 1 = a + 1
    BY <1>1, <1>5, <1>8
  <2>2. x[a + 2 - q] = c
    BY <1>3, <1>6, <2>1
  <2>3. x[a + 2 - q] \in Plain
    BY <2>1
  <2> QED  BY <2>2, <2>3
<1>9. CASE q > a + 1
  <2> DEFINE p == q + m - 1
  <2>1. p \in 1..(Len(s) - n + 1)
    BY <1>1, <1>2, <1>3, <1>5, <1>9
  <2>2. ASSUME NEW j \in 1..n PROVE s[p + j - 1] = x[j]
    <3>1. q + j - 1 - (a + 1) \in 1..b
      BY <1>1, <1>3, <1>5, <1>9
    <3>2. p + j - 1 = a + m + (q + j - 1 - (a + 1)) /\ q + j - 1 = a + 1 + (q + j - 1 - (a + 1))
      BY <1>1, <1>5
    <3> DEFINE k == q + j - 1 - (a + 1)
    <3>3. k \in 1..b /\ p + j - 1 = a + m + k /\ q + j - 1 = a + 1 + k
      BY <3>1, <3>2
    <3> HIDE DEF k, p, a, b, m
    <3>4. s[a + m + k] = post[k] /\ t[a + 1 + k] = post[k]
      BY <1>2, <1>3, <3>3
    <3> QED  BY <1>6, <3>3, <3>4
  <2> HIDE DEF p
  <2> QED  BY <1>2, <1>4, <2>1, <2>2, MatchAt
<1> QED  BY <1>1, <1>5, <1>7, <1>8, <1>9

\* What a replacement does to a line.
LEMMA ReplacementKeeps ==
    ASSUME NEW f \in Tables, LoadsTokenTable(f), NEW code \in Nat, KnownToken(f, code),
           NEW s \in Seq(Bytes), NEW q \in MatchesToken(s, ExpandedToken(f, code))
    PROVE  LET t == InsertTokenId(s, ExpandedToken(f, code), 128 + (code % 128), q)
           IN  /\ t \in Seq(Bytes)
               /\ AllKnown(f, t) <=> AllKnown(f, s)
               /\ AllKnown(f, s) => InClear(f, t) = InClear(f, s)
               /\ \A x \in Seq(Plain) : MatchesToken(s, x) = {} => MatchesToken(t, x) = {}
<1> DEFINE token == ExpandedToken(f, code)
           c == 128 + (code % 128)
           e == ExpandedTokens(f)
           t == InsertTokenId(s, token, c, q)
<1>1. /\ c \in Bytes /\ c \notin Plain /\ IsToken(c) /\ c % 128 = code % 128 /\ KnownToken(f, c)
  BY DEF Bytes, Plain, IsToken, KnownToken
<1>2. token \in Seq(Plain) /\ token \in Seq(Bytes) /\ token = e[c % 128]
  BY <1>1, KnownId, TablesLoaded, TokensArePlain, PlainBytes DEF ExpandedToken
<1>3. PICK pre \in Seq(Bytes), post \in Seq(Bytes) :
          s = pre \o (token \o post) /\ \A x : InsertTokenId(s, token, x, q) = pre \o (<<x>> \o post)
  BY <1>2, AroundPlace
<1>4. t = pre \o (<<c>> \o post)
  BY <1>3
<1> HIDE DEF token, c, e, t
<1>5. <<c>> \in Seq(Bytes) /\ token \o post \in Seq(Bytes) /\ <<c>> \o post \in Seq(Bytes)
  BY <1>1, <1>2
<1>6. t \in Seq(Bytes)
  BY <1>4, <1>5
<1>7. AllKnown(f, <<c>>) /\ AllKnown(f, token)
  <2>1. AllKnown(f, token)
    BY <1>2, KnownPlain
  <2>2. \A k \in 1..Len(<<c>>) : <<c>>[k] = c
    OBVIOUS
  <2> QED  BY <1>1, <2>1, <2>2 DEF AllKnown
<1>8. /\ AllKnown(f, t) <=> AllKnown(f, pre) /\ AllKnown(f, post)
      /\ AllKnown(f, s) <=> AllKnown(f, pre) /\ AllKnown(f, post)
  <2>1. AllKnown(f, <<c>> \o post) <=> AllKnown(f, post)
    BY <1>5, <1>7, KnownJoined
  <2>2. AllKnown(f, token \o post) <=> AllKnown(f, post)
    BY <1>2, <1>7, KnownJoined
  <2>3. AllKnown(f, t) <=> AllKnown(f, pre) /\ AllKnown(f, <<c>> \o post)
    BY <1>4, <1>5, KnownJoined
  <2>4. AllKnown(f, s) <=> AllKnown(f, pre) /\ AllKnown(f, token \o post)
    BY <1>3, <1>5, KnownJoined
  <2> QED  BY <2>1, <2>2, <2>3, <2>4
<1>9. ASSUME AllKnown(f, s) PROVE InClear(f, t) = InClear(f, s)
  <2>1. Covered(pre, e) /\ Covered(post, e) /\ Covered(token, e)
    BY <1>2, <1>7, <1>8, <1>9, KnownCovered DEF e
  <2>2. Covered(<<c>>, e) /\ Replaced(<<c>>, e) = token
    BY <1>1, <1>2, ReplacedOne
  <2>3. Replaced(token, e) = token
    BY <1>2, ReplacedPlain
  <2> DEFINE cs == <<c>>
             new == cs \o post
             old == token \o post
             rest == Replaced(post, e)
  <2>4. /\ cs \in Seq(Bytes) /\ new \in Seq(Bytes) /\ old \in Seq(Bytes)
        /\ Covered(cs, e) /\ Replaced(cs, e) = token
        /\ t = pre \o new /\ s = pre \o old
    BY <1>3, <1>4, <1>5, <2>2
  <2> HIDE DEF cs
  <2>5. Covered(new, e) /\ Replaced(new, e) = Replaced(cs, e) \o rest
    <3>1. cs \in Seq(Bytes) /\ Covered(cs, e) /\ Covered(post, e)
      BY <2>1, <2>4
    <3> QED  BY <3>1, ReplacedJoined
  <2>6. Covered(old, e) /\ Replaced(old, e) = Replaced(token, e) \o rest
    BY <1>2, <2>1, ReplacedJoined
  <2> HIDE DEF new, old, rest
  <2>7. Replaced(pre \o new, e) = Replaced(pre, e) \o Replaced(new, e)
    <3>1. new \in Seq(Bytes) /\ Covered(new, e) /\ Covered(pre, e)
      BY <2>1, <2>4, <2>5
    <3> QED  BY <3>1, ReplacedJoined
  <2>8. Replaced(pre \o old, e) = Replaced(pre, e) \o Replaced(old, e)
    <3>1. old \in Seq(Bytes) /\ Covered(old, e) /\ Covered(pre, e)
      BY <2>1, <2>4, <2>6
    <3> QED  BY <3>1, ReplacedJoined
  <2>9. Replaced(new, e) = Replaced(old, e)
    BY <2>3, <2>4, <2>5, <2>6
  <2>10. Replaced(t, e) = Replaced(s, e)
    BY <2>4, <2>7, <2>8, <2>9
  <2> QED  BY <2>10 DEF InClear, e
<1>10. \A x \in Seq(Plain) : MatchesToken(s, x) = {} => MatchesToken(t, x) = {}
  <2> SUFFICES ASSUME NEW x \in Seq(Plain), MatchesToken(s, x) = {} PROVE MatchesToken(t, x) = {}
    OBVIOUS
  <2>1. MatchesToken(pre \o (token \o post), x) = {}
    BY <1>3
  <2>2. MatchesToken(pre \o (<<c>> \o post), x) = {}
    BY <1>1, <1>2, <2>1, NoNewPlace
  <2> QED  BY <1>4, <2>2
<1>11. /\ t \in Seq(Bytes)
       /\ AllKnown(f, t) <=> AllKnown(f, s)
       /\ AllKnown(f, s) => InClear(f, t) = InClear(f, s)
       /\ \A x \in Seq(Plain) : MatchesToken(s, x) = {} => MatchesToken(t, x) = {}
  BY <1>6, <1>8, <1>9, <1>10
<1> QED  BY <1>11 DEF t, token, c

----------------------------------------------------------------------------
(* Printing a line *)

Element ==
    {Mark, QuoteChar, Comma} \union {Character(b) : b \in Bytes} \union {Constant(b) : b \in Bytes}

LEMMA Kinds ==
    /\ Mark # QuoteChar /\ Mark # Comma /\ QuoteChar # Comma
    /\ \A b : Character(b) # Mark /\ Character(b) # QuoteChar /\ Character(b) # Comma /\ Character(b)[2] = b
    /\ \A b : Constant(b) # Mark /\ Constant(b) # QuoteChar /\ Constant(b) # Comma /\ Constant(b)[2] = b
<1>1. Mark[1] = "mark" /\ QuoteChar[1] = "quote" /\ Comma[1] = "comma"
  BY DEF Mark, QuoteChar, Comma
<1>2. \A b : Character(b)[1] = "char" /\ Character(b)[2] = b
  BY DEF Character
<1>3. \A b : Constant(b)[1] = "$" /\ Constant(b)[2] = b
  BY DEF Constant
<1> QED  BY <1>1, <1>2, <1>3

LEMMA Elementary ==
    /\ {Mark, QuoteChar, Comma} \subseteq Element
    /\ \A b \in Bytes : Character(b) \in Element /\ Constant(b) \in Element
  BY DEF Element

Before(s, k) == {j \in 1..(k - 1) : s[j] # Quote}

LEMMA Modes == \A s, k : Mode(s, k) \in {"start", "hex", "ascii"}
  BY DEF Mode

\* The mode behind a byte is the byte's, unless it is a quotation mark.
LEMMA ModeBehind ==
    ASSUME NEW s \in Seq(Bytes), NEW k \in 1..Len(s)
    PROVE  /\ s[k] = Quote => Mode(s, k + 1) = Mode(s, k)
           /\ s[k] # Quote => Mode(s, k + 1) = IF Control(s[k]) THEN "hex" ELSE "ascii"
<1>1. k \in Nat /\ k >= 1 /\ (k + 1) - 1 = k
  OBVIOUS
<1>2. ASSUME s[k] = Quote PROVE Mode(s, k + 1) = Mode(s, k)
  <2>1. Before(s, k + 1) = Before(s, k)
    BY <1>1, <1>2 DEF Before
  <2> QED  BY <2>1 DEF Mode, Before
<1>3. ASSUME s[k] # Quote PROVE Mode(s, k + 1) = IF Control(s[k]) THEN "hex" ELSE "ascii"
  <2> DEFINE before == {j \in 1..((k + 1) - 1) : s[j] # Quote}
             last == CHOOSE j \in before : \A x \in before : x <= j
  <2>1. k \in before /\ \A x \in before : x \in Nat /\ x <= k
    BY <1>1, <1>3
  <2>2. last \in before /\ \A x \in before : x <= last
    <3> HIDE DEF before
    <3> QED  BY <2>1
  <2>3. last = k
    <3>1. last \in Nat /\ last <= k /\ k <= last
      BY <2>1, <2>2
    <3> HIDE DEF last
    <3> QED  BY <1>1, <3>1
  <2>4. Mode(s, k + 1) = IF before = {} THEN "start" ELSE IF Control(s[last]) THEN "hex" ELSE "ascii"
    BY DEF Mode
  <2> HIDE DEF last
  <2>5. before # {}
    BY <2>1
  <2> QED  BY <2>3, <2>4, <2>5
<1> QED  BY <1>2, <1>3

LEMMA ModeFirst == \A s : Mode(s, 1) = "start"
<1>1. \A s : {j \in 1..(1 - 1) : s[j] # Quote} = {}
  OBVIOUS
<1> QED  BY <1>1 DEF Mode

\* A line that does not begin with a quotation mark is in a mode from there on.
LEMMA ModeLater ==
    ASSUME NEW s \in Seq(Bytes), NEW k \in 1..Len(s), s[1] # Quote
    PROVE  Mode(s, k + 1) # "start"
<1> DEFINE before == {j \in 1..((k + 1) - 1) : s[j] # Quote}
<1>1. 1 \in before
  OBVIOUS
<1>2. before # {}
  BY <1>1
<1> QED  BY <1>2 DEF Mode

LEMMA Literals ==
    ASSUME NEW x, NEW y, NEW z
    PROVE  /\ <<x, y>> \o <<z>> = <<x, y, z>>
           /\ <<x>> \o <<z>> = <<x, z>> /\ <<>> \o <<z>> = <<z>>
<1> DEFINE V == {x, y, z}
<1>1. /\ <<x, y>> \in Seq(V) /\ <<z>> \in Seq(V) /\ <<x>> \in Seq(V) /\ <<>> \in Seq(V)
      /\ <<x, y, z>> \in Seq(V) /\ <<x, z>> \in Seq(V)
  OBVIOUS
<1>2. <<x, y>> \o <<z>> = <<x, y, z>>
  <2> DEFINE w == <<x, y>> \o <<z>>
  <2>1. w \in Seq(V) /\ Len(w) = 3 /\ w[1] = x /\ w[2] = y /\ w[3] = z
    BY <1>1
  <2> HIDE DEF w
  <2>2. w = <<x, y, z>>
    BY <1>1, <2>1, SeqEqual
  <2> QED  BY <2>2 DEF w
<1>3. <<x>> \o <<z>> = <<x, z>>
  <2> DEFINE w == <<x>> \o <<z>>
  <2>1. w \in Seq(V) /\ Len(w) = 2 /\ w[1] = x /\ w[2] = z
    BY <1>1
  <2> HIDE DEF w
  <2>2. w = <<x, z>>
    BY <1>1, <2>1, SeqEqual
  <2> QED  BY <2>2 DEF w
<1>4. <<>> \o <<z>> = <<z>>
  BY <1>1
<1> QED  BY <1>2, <1>3, <1>4

\* What is printed of a byte, by the kinds of bytes and the modes.
LEMMA PrintedByte ==
    ASSUME NEW s, NEW k
    PROVE  /\ Control(s[k]) =>
                 /\ Mode(s, k) = "start" => PrintByte(s, k) = <<Constant(s[k])>>
                 /\ Mode(s, k) = "hex" => PrintByte(s, k) = <<Comma, Constant(s[k])>>
                 /\ Mode(s, k) = "ascii" => PrintByte(s, k) = <<Mark, Comma, Constant(s[k])>>
           /\ s[k] = Quote =>
                 /\ Mode(s, k) = "start" => PrintByte(s, k) = <<QuoteChar>>
                 /\ Mode(s, k) = "hex" => PrintByte(s, k) = <<Comma, QuoteChar>>
                 /\ Mode(s, k) = "ascii" => PrintByte(s, k) = <<Mark, Comma, QuoteChar, Comma, Mark>>
           /\ ~Control(s[k]) /\ s[k] # Quote =>
                 /\ Mode(s, k) = "start" => PrintByte(s, k) = <<Mark, Character(s[k])>>
                 /\ Mode(s, k) = "hex" => PrintByte(s, k) = <<Comma, Mark, Character(s[k])>>
                 /\ Mode(s, k) = "ascii" => PrintByte(s, k) = <<Character(s[k])>>
<1> DEFINE inMode(mode, ascii, hex, start) ==
               CASE mode = "ascii" -> ascii [] mode = "hex" -> hex [] mode = "start" -> start
<1>1. PrintByte(s, k) =
        CASE Control(s[k]) ->
               inMode(Mode(s, k), <<Mark, Comma>>, <<Comma>>, <<>>) \o <<Constant(s[k])>>
          [] s[k] = Quote ->
               inMode(Mode(s, k), <<Mark, Comma, QuoteChar, Comma, Mark>>, <<Comma, QuoteChar>>, <<QuoteChar>>)
          [] ~Control(s[k]) /\ s[k] # Quote ->
               inMode(Mode(s, k), <<>>, <<Comma, Mark>>, <<Mark>>) \o <<Character(s[k])>>
  BY DEF PrintByte
<1>2. ~Control(Quote)
  BY DEF Control, Quote
<1>3. \A a, b, c :
        /\ inMode("ascii", a, b, c) = a /\ inMode("hex", a, b, c) = b /\ inMode("start", a, b, c) = c
  OBVIOUS
<1> DEFINE lead == inMode(Mode(s, k), <<Mark, Comma>>, <<Comma>>, <<>>)
           marks == inMode(Mode(s, k), <<Mark, Comma, QuoteChar, Comma, Mark>>, <<Comma, QuoteChar>>, <<QuoteChar>>)
           open == inMode(Mode(s, k), <<>>, <<Comma, Mark>>, <<Mark>>)
<1>4. /\ Control(s[k]) => PrintByte(s, k) = lead \o <<Constant(s[k])>>
      /\ s[k] = Quote => PrintByte(s, k) = marks
      /\ ~Control(s[k]) /\ s[k] # Quote => PrintByte(s, k) = open \o <<Character(s[k])>>
  <2> HIDE DEF inMode
  <2> QED  BY <1>1, <1>2
<1>5. /\ Mode(s, k) = "start" => lead = <<>> /\ marks = <<QuoteChar>> /\ open = <<Mark>>
      /\ Mode(s, k) = "hex" => lead = <<Comma>> /\ marks = <<Comma, QuoteChar>> /\ open = <<Comma, Mark>>
      /\ Mode(s, k) = "ascii" =>
            lead = <<Mark, Comma>> /\ marks = <<Mark, Comma, QuoteChar, Comma, Mark>> /\ open = <<>>
  <2> HIDE DEF inMode
  <2> QED  BY <1>3
<1> HIDE DEF lead, marks, open
<1>6. ASSUME Control(s[k])
      PROVE  /\ Mode(s, k) = "start" => PrintByte(s, k) = <<Constant(s[k])>>
             /\ Mode(s, k) = "hex" => PrintByte(s, k) = <<Comma, Constant(s[k])>>
             /\ Mode(s, k) = "ascii" => PrintByte(s, k) = <<Mark, Comma, Constant(s[k])>>
  <2>1. CASE Mode(s, k) = "start"
    <3>1. PrintByte(s, k) = <<>> \o <<Constant(s[k])>>
      BY <1>4, <1>5, <1>6, <2>1
    <3>2. <<>> \o <<Constant(s[k])>> = <<Constant(s[k])>>
      BY Literals
    <3>3. PrintByte(s, k) = <<Constant(s[k])>>
      BY <3>1, <3>2
    <3> QED  BY <2>1, <3>3
  <2>2. CASE Mode(s, k) = "hex"
    <3>1. PrintByte(s, k) = <<Comma>> \o <<Constant(s[k])>>
      BY <1>4, <1>5, <1>6, <2>2
    <3>2. <<Comma>> \o <<Constant(s[k])>> = <<Comma, Constant(s[k])>>
      BY Literals
    <3>3. PrintByte(s, k) = <<Comma, Constant(s[k])>>
      BY <3>1, <3>2
    <3> QED  BY <2>2, <3>3
  <2>3. CASE Mode(s, k) = "ascii"
    <3>1. PrintByte(s, k) = <<Mark, Comma>> \o <<Constant(s[k])>>
      BY <1>4, <1>5, <1>6, <2>3
    <3>2. <<Mark, Comma>> \o <<Constant(s[k])>> = <<Mark, Comma, Constant(s[k])>>
      BY Literals
    <3>3. PrintByte(s, k) = <<Mark, Comma, Constant(s[k])>>
      BY <3>1, <3>2
    <3> QED  BY <2>3, <3>3
  <2> QED  BY <2>1, <2>2, <2>3
<1>7. ASSUME s[k] = Quote
      PROVE  /\ Mode(s, k) = "start" => PrintByte(s, k) = <<QuoteChar>>
             /\ Mode(s, k) = "hex" => PrintByte(s, k) = <<Comma, QuoteChar>>
             /\ Mode(s, k) = "ascii" => PrintByte(s, k) = <<Mark, Comma, QuoteChar, Comma, Mark>>
  BY <1>4, <1>5, <1>7
<1>8. ASSUME ~Control(s[k]), s[k] # Quote
      PROVE  /\ Mode(s, k) = "start" => PrintByte(s, k) = <<Mark, Character(s[k])>>
             /\ Mode(s, k) = "hex" => PrintByte(s, k) = <<Comma, Mark, Character(s[k])>>
             /\ Mode(s, k) = "ascii" => PrintByte(s, k) = <<Character(s[k])>>
  <2>1. CASE Mode(s, k) = "start"
    <3>1. PrintByte(s, k) = <<Mark>> \o <<Character(s[k])>>
      BY <1>4, <1>5, <1>8, <2>1
    <3>2. <<Mark>> \o <<Character(s[k])>> = <<Mark, Character(s[k])>>
      BY Literals
    <3>3. PrintByte(s, k) = <<Mark, Character(s[k])>>
      BY <3>1, <3>2
    <3> QED  BY <2>1, <3>3
  <2>2. CASE Mode(s, k) = "hex"
    <3>1. PrintByte(s, k) = <<Comma, Mark>> \o <<Character(s[k])>>
      BY <1>4, <1>5, <1>8, <2>2
    <3>2. <<Comma, Mark>> \o <<Character(s[k])>> = <<Comma, Mark, Character(s[k])>>
      BY Literals
    <3>3. PrintByte(s, k) = <<Comma, Mark, Character(s[k])>>
      BY <3>1, <3>2
    <3> QED  BY <2>2, <3>3
  <2>3. CASE Mode(s, k) = "ascii"
    <3>1. PrintByte(s, k) = <<>> \o <<Character(s[k])>>
      BY <1>4, <1>5, <1>8, <2>3
    <3>2. <<>> \o <<Character(s[k])>> = <<Character(s[k])>>
      BY Literals
    <3>3. PrintByte(s, k) = <<Character(s[k])>>
      BY <3>1, <3>2
    <3> QED  BY <2>3, <3>3
  <2> QED  BY <2>1, <2>2, <2>3
<1> QED  BY <1>6, <1>7, <1>8

LEMMA PrintedType ==
    ASSUME NEW s \in Seq(Bytes), NEW k \in 1..Len(s)
    PROVE  PrintByte(s, k) \in Seq(Element)
<1> DEFINE b == s[k]
           m == Mode(s, k)
<1>1. m \in {"start", "hex", "ascii"}
  BY Modes
<1>2. Character(b) \in Element /\ Constant(b) \in Element
      /\ Mark \in Element /\ QuoteChar \in Element /\ Comma \in Element
  <2>1. b \in Bytes
    OBVIOUS
  <2> QED  BY <2>1, Elementary
<1>3. /\ {<<Constant(b)>>, <<Comma, Constant(b)>>, <<Mark, Comma, Constant(b)>>} \subseteq Seq(Element)
      /\ {<<QuoteChar>>, <<Comma, QuoteChar>>, <<Mark, Comma, QuoteChar, Comma, Mark>>} \subseteq Seq(Element)
      /\ {<<Mark, Character(b)>>, <<Comma, Mark, Character(b)>>, <<Character(b)>>} \subseteq Seq(Element)
  BY <1>2
<1>4. CASE Control(b)
  BY <1>1, <1>3, <1>4, PrintedByte
<1>5. CASE b = Quote
  BY <1>1, <1>3, <1>5, PrintedByte
<1>6. CASE ~Control(b) /\ b # Quote
  BY <1>1, <1>3, <1>6, PrintedByte
<1> QED  BY <1>4, <1>5, <1>6

\* u is what RawString computes on its way.
Printing(s, u) == u = [k \in 0..Len(s) |-> IF k = 0 THEN <<>> ELSE u[k - 1] \o PrintByte(s, k)]

Closing(s) == IF Mode(s, Len(s) + 1) = "ascii" THEN <<Mark>> ELSE <<>>

\* text is what is printed of s, u what is printed of its first bytes.
Printed(s, u, text) ==
    /\ u \in [0..Len(s) -> Seq(Element)] /\ u[0] = <<>>
    /\ \A k \in 1..Len(s) : u[k] = u[k - 1] \o PrintByte(s, k)
    /\ text = u[Len(s)] \o Closing(s) /\ text \in Seq(Element)

LEMMA PrintingExists ==
    ASSUME NEW s \in Seq(Bytes)
    PROVE  \E u : Printing(s, u)
<1> DEFINE n == Len(s)
           W == Seq(Element)
           a == <<>>
           step == [x \in (1..n) \X W |-> x[2] \o PrintByte(s, x[1])]
<1>1. n \in Nat /\ a \in W
  OBVIOUS
<1>2. \A k \in 1..n : PrintByte(s, k) \in Seq(Element)
  BY PrintedType
<1>3. step \in [(1..n) \X W -> W]
  BY <1>2
<1>4. \A k \in 1..n, x \in W : step[<<k, x>>] = x \o PrintByte(s, k)
  OBVIOUS
<1> HIDE DEF step, W, a, n
<1>5. Stepwise(n, W, a, step)
  BY <1>1, <1>3, StepsDefine
<1>6. PICK u \in [0..n -> W] : u[0] = a /\ \A k \in 1..n : u[k] = step[<<k, u[k - 1]>>]
  BY <1>5 DEF Stepwise
<1>7. ASSUME NEW k \in 1..n PROVE u[k] = u[k - 1] \o PrintByte(s, k)
  <2>1. k - 1 \in 0..n
    BY <1>1
  <2>2. u[k - 1] \in W
    BY <2>1
  <2> QED  BY <1>4, <1>6, <2>2
<1>8. \A k \in 0..n : k = 0 \/ k \in 1..n
  BY <1>1
<1>9. u = [k \in 0..n |-> IF k = 0 THEN <<>> ELSE u[k - 1] \o PrintByte(s, k)]
  <2>1. u = [k \in 0..n |-> u[k]]
    OBVIOUS
  <2>2. \A k \in 0..n : u[k] = IF k = 0 THEN <<>> ELSE u[k - 1] \o PrintByte(s, k)
    <3>1. \A k \in 1..n : k # 0
      BY <1>1
    <3> QED  BY <1>6, <1>7, <1>8, <3>1 DEF a
  <2> QED  BY <2>1, <2>2
<1> QED  BY <1>9 DEF Printing, n

LEMMA PrintedIs ==
    ASSUME NEW s \in Seq(Bytes)
    PROVE  \E u : Printed(s, u, RawString(s))
<1> DEFINE u == CHOOSE x : Printing(s, x)
           F(k) == IF k = 0 THEN <<>> ELSE u[k - 1] \o PrintByte(s, k)
<1>1. RawString(s) = u[Len(s)] \o Closing(s)
  BY DEF RawString, Printing, Closing
<1>2. Printing(s, u)
  BY PrintingExists
<1> HIDE DEF u
<1>3. u = [k \in 0..Len(s) |-> F(k)]
  BY <1>2 DEF Printing
<1>4. Len(s) \in Nat
  OBVIOUS
<1>5. \A k \in 0..Len(s) : u[k] = F(k)
  <2> HIDE DEF F
  <2> QED  BY <1>3
<1>6. u[0] = <<>> /\ \A k \in 1..Len(s) : u[k] = u[k - 1] \o PrintByte(s, k)
  <2>1. 0 \in 0..Len(s) /\ \A k \in 1..Len(s) : k \in 0..Len(s) /\ k # 0
    BY <1>4
  <2> QED  BY <1>5, <2>1
<1> DEFINE T == {k \in 0..Len(s) : u[k] \in Seq(Element)}
<1>7. 0 \in T
  <2>1. u[0] \in Seq(Element) /\ 0 \in 0..Len(s)
    BY <1>4, <1>6
  <2> QED  BY <2>1
<1>8. ASSUME NEW k \in 1..Len(s), k - 1 \in T PROVE k \in T
  <2>1. u[k - 1] \in Seq(Element) /\ PrintByte(s, k) \in Seq(Element) /\ k \in 0..Len(s)
    BY <1>4, <1>8, PrintedType
  <2>2. u[k - 1] \o PrintByte(s, k) \in Seq(Element)
    BY <2>1
  <2> QED  BY <1>6, <2>1, <2>2
<1>9. 0..Len(s) \subseteq T
  <2> HIDE DEF T
  <2> QED  BY <1>4, <1>7, <1>8, Upwards
<1>10. \A k \in 0..Len(s) : u[k] \in Seq(Element)
  BY <1>9
<1>11. u \in [0..Len(s) -> Seq(Element)]
  <2> HIDE DEF F
  <2> QED  BY <1>3, <1>10
<1>12. Closing(s) \in Seq(Element)
  BY Elementary DEF Closing
<1>13. u[Len(s)] \o Closing(s) \in Seq(Element)
  BY <1>4, <1>10, <1>12
<1>14. Printed(s, u, RawString(s))
  BY <1>1, <1>6, <1>11, <1>13 DEF Printed
<1> QED  BY <1>14

\* What has been printed of the first bytes stays at the beginning of the text.
LEMMA PrintedPrefix ==
    ASSUME NEW s \in Seq(Bytes), NEW u, NEW text, Printed(s, u, text)
    PROVE  \A k \in 0..Len(s) :
              Len(u[k]) <= Len(text) /\ \A j \in 1..Len(u[k]) : text[j] = u[k][j]
<1> DEFINE T == {k \in 0..Len(s) :
                   Len(u[k]) <= Len(text) /\ \A j \in 1..Len(u[k]) : text[j] = u[k][j]}
           n == Len(s)
<1>1. n \in Nat /\ n \in 0..n
  OBVIOUS
<1>2. \A k \in 0..n : u[k] \in Seq(Element)
  BY DEF Printed
<1>3. Closing(s) \in Seq(Element)
  BY Elementary DEF Closing
<1>4. n \in T
  <2> DEFINE x == u[n]
             y == Closing(s)
  <2>1. x \in Seq(Element) /\ y \in Seq(Element) /\ text = x \o y
    BY <1>1, <1>2, <1>3 DEF Printed
  <2> HIDE DEF x, y
  <2>2. Len(x) <= Len(text) /\ \A j \in 1..Len(x) : text[j] = x[j]
    <3>1. Len(text) = Len(x) + Len(y) /\ Len(x) \in Nat /\ Len(y) \in Nat
      BY <2>1
    <3> QED  BY <2>1, <3>1, Joining
  <2> QED  BY <1>1, <2>2 DEF x
<1>5. ASSUME NEW k \in 1..n, k \in T PROVE k - 1 \in T
  <2> DEFINE x == u[k - 1]
             y == PrintByte(s, k)
             z == u[k]
  <2>1. k - 1 \in 0..n /\ x \in Seq(Element) /\ y \in Seq(Element) /\ z = x \o y
    <3>1. k - 1 \in 0..n
      BY <1>1
    <3> QED  BY <1>2, <3>1, PrintedType DEF Printed
  <2>2. Len(z) <= Len(text) /\ \A j \in 1..Len(z) : text[j] = z[j]
    BY <1>5
  <2> HIDE DEF x, y, z
  <2>3. Len(z) = Len(x) + Len(y) /\ Len(x) \in Nat /\ Len(y) \in Nat
    BY <2>1
  <2>4. \A j \in 1..Len(x) : z[j] = x[j]
    BY <2>1, Joining
  <2>5. text \in Seq(Element)
    BY DEF Printed
  <2>6. Len(x) <= Len(text) /\ \A j \in 1..Len(x) : text[j] = x[j]
    BY <2>2, <2>3, <2>4, <2>5
  <2> QED  BY <2>1, <2>6 DEF x
<1>6. 0..n \subseteq T
  <2> HIDE DEF T, n
  <2> QED  BY <1>1, <1>4, <1>5, Downwards
<1> QED  BY <1>6

\* The elements of byte k are in their place.
LEMMA PrintedPlace ==
    ASSUME NEW s \in Seq(Bytes), NEW u, NEW text, Printed(s, u, text), NEW k \in 1..Len(s)
    PROVE  LET p == Len(u[k - 1])
               x == PrintByte(s, k)
           IN  /\ p \in Nat /\ x \in Seq(Element) /\ Len(u[k]) = p + Len(x) /\ Len(u[k]) <= Len(text)
               /\ \A j \in 1..Len(x) : text[p + j] = x[j]
<1> DEFINE p == Len(u[k - 1])
           x == PrintByte(s, k)
           v == u[k - 1]
           w == u[k]
<1>1. k - 1 \in 0..Len(s) /\ k \in 0..Len(s)
  OBVIOUS
<1>2. v \in Seq(Element) /\ x \in Seq(Element) /\ w = v \o x
  BY <1>1, PrintedType DEF Printed
<1>3. Len(w) <= Len(text) /\ \A j \in 1..Len(w) : text[j] = w[j]
  BY <1>1, PrintedPrefix
<1> HIDE DEF v, w, x
<1>4. Len(v) \in Nat /\ Len(x) \in Nat /\ Len(w) = Len(v) + Len(x)
  BY <1>2
<1>5. \A j \in 1..Len(x) : w[Len(v) + j] = x[j]
  BY <1>2, Joining
<1>6. \A j \in 1..Len(x) : Len(v) + j \in 1..Len(w)
  BY <1>4
<1>7. \A j \in 1..Len(x) : text[Len(v) + j] = x[j]
  BY <1>3, <1>5, <1>6
<1> QED  BY <1>2, <1>3, <1>4, <1>7 DEF v, w, x

----------------------------------------------------------------------------
(* Reading a line *)

MarksBehind(text, n) == {k \in (n + 1)..Len(text) : text[k] = Mark}

Close(text, n) == CHOOSE k \in MarksBehind(text, n) : \A x \in MarksBehind(text, n) : k <= x

\* What is read from the end of an element on, r being what is read from there.
Ended(text, r, k, bytes) ==
    IF k > Len(text) THEN bytes
    ELSE IF text[k] = Comma THEN bytes \o r[k + 1]
    ELSE <<Error>>

ReadAt(text, r, n) ==
    CASE n > Len(text) -> <<Error>>
      [] n <= Len(text) /\ text[n] = QuoteChar -> Ended(text, r, n + 1, <<Quote>>)
      [] n <= Len(text) /\ text[n] = Mark ->
             IF MarksBehind(text, n) = {} THEN <<Error>>
             ELSE Ended(text, r, Close(text, n) + 1,
                        [k \in 1..(Close(text, n) - n - 1) |-> text[n + k][2]])
      [] n <= Len(text) /\ text[n] \notin {QuoteChar, Mark} -> Ended(text, r, n + 1, <<text[n][2]>>)

\* r is what Elements computes on its way.
Reading(text, r) == r = [n \in Nat |-> ReadAt(text, r, n)]

LEMMA ElementsChoice ==
    ASSUME NEW text
    PROVE  Elements(text) = (CHOOSE r : Reading(text, r))[1]
  BY DEF Elements, Reading, ReadAt, Ended, Close, MarksBehind

LEMMA CloseIs ==
    ASSUME NEW text \in Seq(Element), NEW n \in Nat, MarksBehind(text, n) # {}
    PROVE  /\ Close(text, n) \in MarksBehind(text, n) /\ Close(text, n) \in Nat /\ Close(text, n) > n
           /\ \A x \in MarksBehind(text, n) : Close(text, n) <= x
<1>1. \A x \in MarksBehind(text, n) : x \in Nat /\ x > n
  BY DEF MarksBehind
<1>2. MarksBehind(text, n) \subseteq Nat
  BY <1>1
<1>3. \E k \in MarksBehind(text, n) : \A x \in MarksBehind(text, n) : k <= x
  BY <1>2, LeastNumber
<1>4. /\ Close(text, n) \in MarksBehind(text, n)
      /\ \A x \in MarksBehind(text, n) : Close(text, n) <= x
  BY <1>3 DEF Close
<1> QED  BY <1>1, <1>4

\* What is read at a place depends on what is read behind it only.
LEMMA ReadsAhead ==
    ASSUME NEW text \in Seq(Element), NEW n \in Nat, NEW r, NEW d, \A k \in Nat : k > n => r[k] = d[k]
    PROVE  ReadAt(text, r, n) = ReadAt(text, d, n)
<1>1. \A k \in Nat : k > n => \A bytes : Ended(text, r, k, bytes) = Ended(text, d, k, bytes)
  <2> SUFFICES ASSUME NEW k \in Nat, k > n, NEW bytes
               PROVE  Ended(text, r, k, bytes) = Ended(text, d, k, bytes)
    OBVIOUS
  <2>1. r[k + 1] = d[k + 1]
    OBVIOUS
  <2> QED  BY <2>1 DEF Ended
<1>2. \A bytes : Ended(text, r, n + 1, bytes) = Ended(text, d, n + 1, bytes)
  <2>1. n + 1 \in Nat /\ n + 1 > n
    OBVIOUS
  <2> QED  BY <1>1, <2>1
<1>3. MarksBehind(text, n) # {} =>
          \A bytes : Ended(text, r, Close(text, n) + 1, bytes) = Ended(text, d, Close(text, n) + 1, bytes)
  <2> SUFFICES ASSUME MarksBehind(text, n) # {}
               PROVE  \A bytes : Ended(text, r, Close(text, n) + 1, bytes)
                                   = Ended(text, d, Close(text, n) + 1, bytes)
    OBVIOUS
  <2>1. Close(text, n) + 1 \in Nat /\ Close(text, n) + 1 > n
    BY CloseIs
  <2> QED  BY <1>1, <2>1
<1> QED  BY <1>2, <1>3 DEF ReadAt

LEMMA ReadingExists ==
    ASSUME NEW text \in Seq(Element)
    PROVE  \E r : Reading(text, r)
<1> DEFINE n == Len(text) + 1
           From(r, m) == r = [k \in Nat |-> r[k]] /\ \A k \in Nat : k >= m => r[k] = ReadAt(text, r, k)
           T == {m \in 0..n : \E r : From(r, m)}
<1>1. n \in Nat
  OBVIOUS
<1>2. n \in T
  <2> DEFINE r == [k \in Nat |-> <<Error>>]
  <2>1. \A k \in Nat : k >= n => k > Len(text)
    OBVIOUS
  <2>2. \A k \in Nat : k > Len(text) => ReadAt(text, r, k) = <<Error>>
    <3> HIDE DEF r
    <3> QED  BY DEF ReadAt
  <2>3. From(r, n)
    BY <2>1, <2>2
  <2> HIDE DEF r, From
  <2> QED  BY <1>1, <2>3
<1>3. ASSUME NEW m \in 1..n, m \in T PROVE m - 1 \in T
  <2>1. PICK r : From(r, m)
    BY <1>3
  <2> DEFINE d == [r EXCEPT ![m - 1] = ReadAt(text, r, m - 1)]
  <2>2. m - 1 \in Nat /\ m \in Nat /\ m - 1 \in 0..n
    BY <1>1
  <2>3. d = [k \in Nat |-> d[k]] /\ d[m - 1] = ReadAt(text, r, m - 1)
        /\ \A k \in Nat : k # m - 1 => d[k] = r[k]
    BY <2>1, <2>2
  <2> HIDE DEF d
  <2>4. ASSUME NEW k \in Nat, k >= m - 1 PROVE d[k] = ReadAt(text, d, k)
    <3>1. \A x \in Nat : x > k => r[x] = d[x]
      BY <2>2, <2>3, <2>4
    <3>2. ReadAt(text, r, k) = ReadAt(text, d, k)
      BY <3>1, ReadsAhead
    <3>3. CASE k = m - 1
      BY <2>3, <3>2, <3>3
    <3>4. CASE k # m - 1
      <4>1. k >= m
        BY <2>2, <2>4, <3>4
      <4> QED  BY <2>1, <2>3, <3>2, <3>4, <4>1
    <3> QED  BY <3>3, <3>4
  <2>5. From(d, m - 1)
    BY <2>3, <2>4
  <2> HIDE DEF From
  <2> QED  BY <2>2, <2>5
<1>4. 0 \in T
  <2> HIDE DEF T, n
  <2>1. 0..n \subseteq T
    BY <1>1, <1>2, <1>3, Downwards
  <2> QED  BY <1>1, <2>1
<1>5. PICK r : From(r, 0)
  BY <1>4
<1>6. r = [k \in Nat |-> r[k]] /\ \A k \in Nat : r[k] = ReadAt(text, r, k)
  BY <1>5
<1>7. Reading(text, r)
  BY <1>6 DEF Reading
<1> QED  BY <1>7

\* How a text is read.
LEMMA ReadingRules ==
    ASSUME NEW text \in Seq(Element)
    PROVE  \E r : /\ Elements(text) = r[1]
                  /\ \A n \in Nat : r[n] = ReadAt(text, r, n)
<1> DEFINE r == CHOOSE x : Reading(text, x)
<1>1. Elements(text) = r[1]
  BY ElementsChoice
<1>2. Reading(text, r)
  BY ReadingExists
<1> HIDE DEF r
<1>3. \A n \in Nat : r[n] = ReadAt(text, r, n)
  <2> DEFINE F(n) == ReadAt(text, r, n)
  <2>1. r = [n \in Nat |-> F(n)]
    BY <1>2 DEF Reading
  <2> HIDE DEF F
  <2>2. \A n \in Nat : r[n] = F(n)
    BY <2>1
  <2> QED  BY <2>2 DEF F
<1> QED  BY <1>1, <1>3

----------------------------------------------------------------------------
(* What is printed is read *)

Reads(text, r) == \A n \in Nat : r[n] = ReadAt(text, r, n)

\* An element ends before p, and x is read from there.
Follows(text, r, p, x) ==
    IF p > Len(text) THEN x = <<>> ELSE text[p] = Comma /\ r[p + 1] = x

\* p lies in a string, and x is read from there: some characters, a mark, and what
\* follows it.
InString(text, r, p, x) ==
    \E chars \in Seq(Bytes), y \in Seq(Bytes) :
        /\ p + Len(chars) \in 1..Len(text) /\ text[p + Len(chars)] = Mark
        /\ \A k \in 1..Len(chars) : text[p + k - 1] = Character(chars[k])
        /\ Follows(text, r, p + Len(chars) + 1, y)
        /\ x = chars \o y

LEMMA EndedFollows ==
    ASSUME NEW text \in Seq(Element), NEW r, NEW p \in Nat, NEW x \in Seq(Bytes),
           Follows(text, r, p, x), NEW bytes \in Seq(Bytes)
    PROVE  Ended(text, r, p, bytes) = bytes \o x
<1>1. CASE p > Len(text)
  <2>1. x = <<>> /\ bytes \o <<>> = bytes
    BY <1>1 DEF Follows
  <2> QED  BY <1>1, <2>1 DEF Ended
<1>2. CASE ~(p > Len(text))
  BY <1>2 DEF Follows, Ended
<1> QED  BY <1>1, <1>2

\* An element that is no string.
LEMMA ReadElement ==
    ASSUME NEW text \in Seq(Element), NEW r, Reads(text, r), NEW n \in 1..Len(text), NEW b \in Bytes,
           NEW x \in Seq(Bytes), Follows(text, r, n + 1, x),
           text[n] = Constant(b) \/ (text[n] = QuoteChar /\ b = Quote)
    PROVE  r[n] = <<b>> \o x
<1>1. n \in Nat /\ n + 1 \in Nat /\ ~(n > Len(text)) /\ n <= Len(text)
  OBVIOUS
<1>2. r[n] = ReadAt(text, r, n)
  BY <1>1 DEF Reads
<1>3. <<b>> \in Seq(Bytes)
  OBVIOUS
<1>4. Ended(text, r, n + 1, <<b>>) = <<b>> \o x
  BY <1>1, <1>3, EndedFollows
<1>5. CASE text[n] = Constant(b)
  <2>1. text[n] \notin {QuoteChar, Mark} /\ text[n][2] = b
    BY <1>5, Kinds
  <2>2. ReadAt(text, r, n) = Ended(text, r, n + 1, <<text[n][2]>>)
    BY <1>1, <2>1 DEF ReadAt
  <2> QED  BY <1>2, <1>4, <2>1, <2>2
<1>6. CASE text[n] = QuoteChar /\ b = Quote
  <2>1. ReadAt(text, r, n) = Ended(text, r, n + 1, <<Quote>>)
    BY <1>1, <1>6, Kinds DEF ReadAt
  <2> QED  BY <1>2, <1>4, <1>6, <2>1
<1> QED  BY <1>5, <1>6

LEMMA ReadString ==
    ASSUME NEW text \in Seq(Element), NEW r, Reads(text, r), NEW n \in 1..Len(text), text[n] = Mark,
           NEW x, InString(text, r, n + 1, x)
    PROVE  r[n] = x
<1>1. PICK chars \in Seq(Bytes), y \in Seq(Bytes) :
        /\ n + 1 + Len(chars) \in 1..Len(text) /\ text[n + 1 + Len(chars)] = Mark
        /\ \A k \in 1..Len(chars) : text[n + 1 + k - 1] = Character(chars[k])
        /\ Follows(text, r, n + 1 + Len(chars) + 1, y)
        /\ x = chars \o y
  BY DEF InString
<1> DEFINE c == n + 1 + Len(chars)
<1>2. n \in Nat /\ ~(n > Len(text)) /\ Len(chars) \in Nat /\ c \in Nat /\ c > n
  OBVIOUS
<1>3. c \in MarksBehind(text, n)
  BY <1>1, <1>2 DEF MarksBehind
<1>4. Close(text, n) = c
  <2>1. /\ Close(text, n) \in MarksBehind(text, n) /\ Close(text, n) \in Nat /\ Close(text, n) > n
        /\ Close(text, n) <= c
    BY <1>2, <1>3, CloseIs
  <2> DEFINE k == Close(text, n) - n
  <2>2. SUFFICES ASSUME Close(text, n) < c PROVE FALSE
    BY <1>2, <2>1
  <2>3. k \in 1..Len(chars) /\ n + 1 + k - 1 = Close(text, n)
    <3> DEFINE q == Close(text, n)
               l == Len(chars)
    <3>1. q \in Nat /\ n \in Nat /\ l \in Nat /\ q > n /\ q < n + 1 + l
      BY <1>2, <2>1, <2>2
    <3> HIDE DEF q, l
    <3>2. q - n \in 1..l /\ n + 1 + (q - n) - 1 = q
      BY <3>1
    <3> QED  BY <3>2 DEF q, l
  <2>4. text[Close(text, n)] = Mark
    BY <2>1 DEF MarksBehind
  <2>5. text[Close(text, n)] = Character(chars[k])
    <3> HIDE DEF k
    <3> QED  BY <1>1, <2>3
  <2> QED  BY <2>4, <2>5, Kinds
<1>5. r[n] = Ended(text, r, c + 1, [k \in 1..(c - n - 1) |-> text[n + k][2]])
  <2>1. r[n] = ReadAt(text, r, n)
    BY <1>2 DEF Reads
  <2> DEFINE body == Ended(text, r, Close(text, n) + 1,
                           [k \in 1..(Close(text, n) - n - 1) |-> text[n + k][2]])
  <2>2. n <= Len(text) /\ text[n] = Mark /\ text[n] # QuoteChar /\ MarksBehind(text, n) # {}
    BY <1>2, <1>3, Kinds
  <2>3. ReadAt(text, r, n) = body
    BY <1>2, <2>2 DEF ReadAt
  <2> QED  BY <1>4, <2>1, <2>3
<1>6. [k \in 1..(c - n - 1) |-> text[n + k][2]] = chars
  <2>1. c - n - 1 = Len(chars)
    BY <1>2
  <2>2. ASSUME NEW k \in 1..Len(chars) PROVE text[n + k][2] = chars[k]
    <3>1. n + 1 + k - 1 = n + k
      BY <1>2
    <3> QED  BY <1>1, <3>1, Kinds
  <2>3. chars = [k \in 1..Len(chars) |-> chars[k]]
    OBVIOUS
  <2> QED  BY <2>1, <2>2, <2>3
<1>7. c + 1 \in Nat /\ Follows(text, r, c + 1, y)
  BY <1>1, <1>2
<1> HIDE DEF c
<1>8. Ended(text, r, c + 1, chars) = chars \o y
  BY <1>7, EndedFollows
<1> QED  BY <1>1, <1>5, <1>6, <1>8

LEMMA MarkHere ==
    ASSUME NEW text \in Seq(Element), NEW r, NEW p \in 1..Len(text), text[p] = Mark,
           NEW x \in Seq(Bytes), Follows(text, r, p + 1, x)
    PROVE  InString(text, r, p, x)
<1> DEFINE chars == <<>>
<1>1. chars \in Seq(Bytes) /\ Len(chars) = 0 /\ chars \o x = x
  OBVIOUS
<1>2. p + Len(chars) = p /\ p + Len(chars) + 1 = p + 1 /\ 1..Len(chars) = {}
  BY <1>1
<1> HIDE DEF chars
<1>3. /\ p + Len(chars) \in 1..Len(text) /\ text[p + Len(chars)] = Mark
      /\ \A k \in 1..Len(chars) : text[p + k - 1] = Character(chars[k])
      /\ Follows(text, r, p + Len(chars) + 1, x)
      /\ x = chars \o x
  BY <1>1, <1>2
<1> QED  BY <1>1, <1>3 DEF InString

LEMMA CharacterHere ==
    ASSUME NEW text \in Seq(Element), NEW r, NEW p \in 1..Len(text), NEW b \in Bytes,
           text[p] = Character(b), NEW x, InString(text, r, p + 1, x)
    PROVE  InString(text, r, p, <<b>> \o x)
<1>1. PICK chars \in Seq(Bytes), y \in Seq(Bytes) :
        /\ p + 1 + Len(chars) \in 1..Len(text) /\ text[p + 1 + Len(chars)] = Mark
        /\ \A k \in 1..Len(chars) : text[p + 1 + k - 1] = Character(chars[k])
        /\ Follows(text, r, p + 1 + Len(chars) + 1, y)
        /\ x = chars \o y
  BY DEF InString
<1> DEFINE one == <<b>>
           more == one \o chars
<1>2. one \in Seq(Bytes) /\ Len(one) = 1 /\ one[1] = b /\ more \in Seq(Bytes)
  OBVIOUS
<1>3. /\ Len(more) = 1 + Len(chars) /\ more[1] = b /\ Len(chars) \in Nat
      /\ \A k \in 1..Len(chars) : more[1 + k] = chars[k]
  OBVIOUS
<1>4. <<b>> \o x = more \o y
  <2> HIDE DEF one
  <2>1. one \o (chars \o y) = (one \o chars) \o y
    <3>1. one \in Seq(Bytes)
      BY <1>2
    <3> QED  BY <3>1, ThreeJoined
  <2> QED  BY <1>1, <2>1 DEF one
<1> HIDE DEF more
<1>5. p + Len(more) = p + 1 + Len(chars) /\ p + Len(more) + 1 = p + 1 + Len(chars) + 1
  BY <1>3
<1>6. ASSUME NEW k \in 1..Len(more) PROVE text[p + k - 1] = Character(more[k])
  <2>1. CASE k = 1
    <3>1. p + k - 1 = p
      BY <2>1
    <3> QED  BY <1>3, <2>1, <3>1
  <2>2. CASE k # 1
    <3>1. k - 1 \in 1..Len(chars) /\ 1 + (k - 1) = k /\ p + 1 + (k - 1) - 1 = p + k - 1
      BY <1>3, <2>2
    <3>2. text[p + 1 + (k - 1) - 1] = Character(chars[k - 1]) /\ more[1 + (k - 1)] = chars[k - 1]
      BY <1>1, <1>3, <3>1
    <3> QED  BY <3>1, <3>2
  <2> QED  BY <2>1, <2>2
<1>7. /\ p + Len(more) \in 1..Len(text) /\ text[p + Len(more)] = Mark
      /\ Follows(text, r, p + Len(more) + 1, y)
  BY <1>1, <1>5
<1> QED  BY <1>2, <1>4, <1>6, <1>7 DEF InString

\* The line behind byte k.
Rest(s, k) == SubSeq(s, k + 1, Len(s))

LEMMA RestIs ==
    ASSUME NEW s \in Seq(Bytes)
    PROVE  /\ \A k \in 0..Len(s) : Rest(s, k) \in Seq(Bytes)
           /\ \A k \in 1..Len(s) : Rest(s, k - 1) = <<s[k]>> \o Rest(s, k)
           /\ Rest(s, 0) = s /\ Rest(s, Len(s)) = <<>>
<1>1. \A k \in 0..Len(s) : Rest(s, k) \in Seq(Bytes)
  BY DEF Rest
<1>2. ASSUME NEW k \in 1..Len(s) PROVE Rest(s, k - 1) = <<s[k]>> \o Rest(s, k)
  <2>1. /\ k \in 1..(Len(s) + 1) /\ k \in (k - 1)..Len(s) /\ Len(s) \in k..Len(s)
        /\ (k - 1) + 1 = k
    OBVIOUS
  <2>2. SubSeq(s, k, k) \o SubSeq(s, k + 1, Len(s)) = SubSeq(s, k, Len(s))
    BY <2>1, ConcatAdjacentSubSeq
  <2>3. SubSeq(s, k, k) = <<s[k]>>
    <3> DEFINE w == SubSeq(s, k, k)
    <3>1. w \in Seq(Bytes) /\ Len(w) = 1 /\ w[1] = s[k]
      OBVIOUS
    <3>2. <<s[k]>> \in Seq(Bytes)
      OBVIOUS
    <3> HIDE DEF w
    <3>3. w = <<s[k]>>
      BY <3>1, <3>2, SeqEqual
    <3> QED  BY <3>3 DEF w
  <2> QED  BY <2>1, <2>2, <2>3 DEF Rest
<1>3. Rest(s, 0) = s
  <2>1. 0 + 1 = 1
    OBVIOUS
  <2> QED  BY <2>1, SubSeqFull DEF Rest
<1>4. Rest(s, Len(s)) = <<>>
  BY DEF Rest
<1> QED  BY <1>1, <1>2, <1>3, <1>4

\* Behind byte k, the text is read as the rest of the line.
ReadBehind(s, u, text, r, k) ==
    /\ Mode(s, k + 1) = "ascii" => InString(text, r, Len(u[k]) + 1, Rest(s, k))
    /\ Mode(s, k + 1) = "hex" => Follows(text, r, Len(u[k]) + 1, Rest(s, k))

LEMMA ReadBehindAll ==
    ASSUME NEW s \in Seq(Bytes), NEW u, NEW text, Printed(s, u, text), NEW r
    PROVE  ReadBehind(s, u, text, r, Len(s))
<1> DEFINE x == u[Len(s)]
           y == Closing(s)
<1>1. x \in Seq(Element) /\ text = x \o y /\ text \in Seq(Element)
  BY DEF Printed
<1>2. Rest(s, Len(s)) = <<>> /\ <<>> \in Seq(Bytes)
  BY RestIs
<1> HIDE DEF x
<1>3. ASSUME Mode(s, Len(s) + 1) = "ascii" PROVE InString(text, r, Len(x) + 1, Rest(s, Len(s)))
  <2>1. y = <<Mark>> /\ <<Mark>> \in Seq(Element)
    BY <1>3, Elementary DEF Closing
  <2>2. text = x \o <<Mark>>
    BY <1>1, <2>1
  <2>3. Len(text) = Len(x) + 1 /\ text[Len(x) + 1] = Mark /\ Len(x) \in Nat
    BY <1>1, <2>1, <2>2
  <2>4. Len(x) + 1 \in 1..Len(text) /\ Len(x) + 1 + 1 > Len(text)
    BY <2>3
  <2>5. Follows(text, r, Len(x) + 1 + 1, <<>>)
    BY <2>4 DEF Follows
  <2> QED  BY <1>1, <1>2, <2>3, <2>4, <2>5, MarkHere
<1>4. ASSUME Mode(s, Len(s) + 1) = "hex" PROVE Follows(text, r, Len(x) + 1, Rest(s, Len(s)))
  <2>1. y = <<>>
    BY <1>4 DEF Closing
  <2>2. text = x
    BY <1>1, <2>1
  <2>3. Len(x) \in Nat /\ Len(x) + 1 > Len(x)
    BY <1>1
  <2> QED  BY <1>2, <2>2, <2>3 DEF Follows
<1> QED  BY <1>3, <1>4 DEF ReadBehind, x

LEMMA CommaFollows ==
    ASSUME NEW text \in Seq(Element), NEW r, NEW p \in 1..Len(text), text[p] = Comma, NEW x, r[p + 1] = x
    PROVE  Follows(text, r, p, x)
  BY DEF Follows

\* Behind a constant.
LEMMA BeforeConstant ==
    ASSUME NEW s \in Seq(Bytes), NEW u, NEW text, Printed(s, u, text), NEW r, Reads(text, r),
           NEW k \in 1..Len(s), ReadBehind(s, u, text, r, k), Mode(s, k) = "hex"
    PROVE  Follows(text, r, Len(u[k - 1]) + 1, Rest(s, k - 1))
<1> DEFINE p == Len(u[k - 1])
           b == s[k]
           e == PrintByte(s, k)
           x == Rest(s, k)
           n == Len(text)
<1>1. /\ p \in Nat /\ Len(u[k]) = p + Len(e) /\ Len(u[k]) <= n /\ n \in Nat
      /\ \A j \in 1..Len(e) : text[p + j] = e[j]
      /\ text \in Seq(Element)
  <2>1. text \in Seq(Element)
    BY DEF Printed
  <2>2. Len(text) \in Nat
    BY <2>1
  <2> QED  BY <2>1, <2>2, PrintedPlace
<1>2. k \in 0..Len(s) /\ b \in Bytes
  OBVIOUS
<1>3. x \in Seq(Bytes) /\ Rest(s, k - 1) = <<b>> \o x
  BY <1>2, RestIs
<1>4. <<b>> \in Seq(Bytes) /\ <<b>> \o x \in Seq(Bytes)
  BY <1>2, <1>3
<1>5. /\ Mode(s, k + 1) = "ascii" => InString(text, r, Len(u[k]) + 1, x)
      /\ Mode(s, k + 1) = "hex" => Follows(text, r, Len(u[k]) + 1, x)
  BY DEF ReadBehind
<1>6. /\ b = Quote => Mode(s, k + 1) = "hex"
      /\ b # Quote => Mode(s, k + 1) = IF Control(b) THEN "hex" ELSE "ascii"
  BY ModeBehind
<1>7. ~Control(Quote)
  BY DEF Control, Quote
<1>8. CASE Control(b) \/ b = Quote
  <2>1. PICK c \in {Constant(b), QuoteChar} :
          e = <<Comma, c>> /\ (c = Constant(b) \/ (c = QuoteChar /\ b = Quote))
    BY <1>8, PrintedByte
  <2>2. Len(e) = 2 /\ e[1] = Comma /\ e[2] = c
    BY <2>1
  <2> HIDE DEF p, b, e, x, n
  <2>3. /\ Len(u[k]) = p + 2 /\ text[p + 1] = Comma /\ text[p + 2] = c
        /\ p + 1 \in 1..n /\ p + 2 \in 1..n /\ p + 1 + 1 = p + 2 /\ p + 2 + 1 = Len(u[k]) + 1
    BY <1>1, <2>2
  <2>4. Follows(text, r, p + 2 + 1, x)
    BY <1>5, <1>6, <1>7, <1>8, <2>3
  <2>5. r[p + 2] = <<b>> \o x
    BY <1>1, <1>2, <1>3, <2>1, <2>3, <2>4, ReadElement DEF n
  <2>6. Follows(text, r, p + 1, <<b>> \o x)
    BY <1>1, <2>3, <2>5, CommaFollows DEF n
  <2> QED  BY <1>3, <2>6 DEF p
<1>9. CASE ~Control(b) /\ b # Quote
  <2>1. e = <<Comma, Mark, Character(b)>>
    BY <1>9, PrintedByte
  <2>2. Len(e) = 3 /\ e[1] = Comma /\ e[2] = Mark /\ e[3] = Character(b)
    BY <2>1
  <2> HIDE DEF p, b, e, x, n
  <2>3. /\ Len(u[k]) = p + 3 /\ text[p + 1] = Comma /\ text[p + 2] = Mark /\ text[p + 3] = Character(b)
        /\ p + 1 \in 1..n /\ p + 2 \in 1..n /\ p + 3 \in 1..n
        /\ p + 1 + 1 = p + 2 /\ p + 2 + 1 = p + 3 /\ p + 3 + 1 = Len(u[k]) + 1
    BY <1>1, <2>2
  <2>4. InString(text, r, p + 3 + 1, x)
    BY <1>5, <1>6, <1>9, <2>3
  <2>5. InString(text, r, p + 3, <<b>> \o x)
    BY <1>1, <1>2, <2>3, <2>4, CharacterHere DEF n
  <2>6. r[p + 2] = <<b>> \o x
    BY <1>1, <2>3, <2>5, ReadString DEF n
  <2>7. Follows(text, r, p + 1, <<b>> \o x)
    BY <1>1, <2>3, <2>6, CommaFollows DEF n
  <2> QED  BY <1>3, <2>7 DEF p
<1> QED  BY <1>8, <1>9

\* Behind a character.
LEMMA BeforeCharacter ==
    ASSUME NEW s \in Seq(Bytes), NEW u, NEW text, Printed(s, u, text), NEW r, Reads(text, r),
           NEW k \in 1..Len(s), ReadBehind(s, u, text, r, k), Mode(s, k) = "ascii"
    PROVE  InString(text, r, Len(u[k - 1]) + 1, Rest(s, k - 1))
<1> DEFINE p == Len(u[k - 1])
           b == s[k]
           e == PrintByte(s, k)
           x == Rest(s, k)
           n == Len(text)
<1>1. /\ p \in Nat /\ Len(u[k]) = p + Len(e) /\ Len(u[k]) <= n /\ n \in Nat
      /\ \A j \in 1..Len(e) : text[p + j] = e[j]
      /\ text \in Seq(Element)
  <2>1. text \in Seq(Element)
    BY DEF Printed
  <2>2. Len(text) \in Nat
    BY <2>1
  <2> QED  BY <2>1, <2>2, PrintedPlace
<1>2. k \in 0..Len(s) /\ b \in Bytes
  OBVIOUS
<1>3. x \in Seq(Bytes) /\ Rest(s, k - 1) = <<b>> \o x
  BY <1>2, RestIs
<1>4. <<b>> \in Seq(Bytes) /\ <<b>> \o x \in Seq(Bytes)
  BY <1>2, <1>3
<1>5. /\ Mode(s, k + 1) = "ascii" => InString(text, r, Len(u[k]) + 1, x)
      /\ Mode(s, k + 1) = "hex" => Follows(text, r, Len(u[k]) + 1, x)
  BY DEF ReadBehind
<1>6. /\ b = Quote => Mode(s, k + 1) = "ascii"
      /\ b # Quote => Mode(s, k + 1) = IF Control(b) THEN "hex" ELSE "ascii"
  BY ModeBehind
<1>7. ~Control(Quote)
  BY DEF Control, Quote
<1>8. CASE Control(b)
  <2>1. e = <<Mark, Comma, Constant(b)>>
    BY <1>8, PrintedByte
  <2>2. Len(e) = 3 /\ e[1] = Mark /\ e[2] = Comma /\ e[3] = Constant(b)
    BY <2>1
  <2> HIDE DEF p, b, e, x, n
  <2>3. /\ Len(u[k]) = p + 3 /\ text[p + 1] = Mark /\ text[p + 2] = Comma /\ text[p + 3] = Constant(b)
        /\ p + 1 \in 1..n /\ p + 2 \in 1..n /\ p + 3 \in 1..n
        /\ p + 1 + 1 = p + 2 /\ p + 2 + 1 = p + 3 /\ p + 3 + 1 = Len(u[k]) + 1
    BY <1>1, <2>2
  <2>4. Follows(text, r, p + 3 + 1, x)
    BY <1>5, <1>6, <1>7, <1>8, <2>3
  <2>5. r[p + 3] = <<b>> \o x
    BY <1>1, <1>2, <1>3, <2>3, <2>4, ReadElement DEF n
  <2>6. Follows(text, r, p + 2, <<b>> \o x)
    BY <1>1, <2>3, <2>5, CommaFollows DEF n
  <2>7. InString(text, r, p + 1, <<b>> \o x)
    BY <1>1, <1>4, <2>3, <2>6, MarkHere DEF n
  <2> QED  BY <1>3, <2>7 DEF p
<1>9. CASE b = Quote
  <2>1. e = <<Mark, Comma, QuoteChar, Comma, Mark>>
    BY <1>9, PrintedByte
  <2>2. Len(e) = 5 /\ e[1] = Mark /\ e[2] = Comma /\ e[3] = QuoteChar /\ e[4] = Comma /\ e[5] = Mark
    BY <2>1
  <2> HIDE DEF p, b, e, x, n
  <2>3. /\ Len(u[k]) = p + 5 /\ text[p + 1] = Mark /\ text[p + 2] = Comma /\ text[p + 3] = QuoteChar
        /\ text[p + 4] = Comma /\ text[p + 5] = Mark
    BY <1>1, <2>2
  <2>4. /\ p + 1 \in 1..n /\ p + 2 \in 1..n /\ p + 3 \in 1..n /\ p + 4 \in 1..n /\ p + 5 \in 1..n
        /\ p + 1 + 1 = p + 2 /\ p + 2 + 1 = p + 3 /\ p + 3 + 1 = p + 4 /\ p + 4 + 1 = p + 5
        /\ p + 5 + 1 = Len(u[k]) + 1
    BY <1>1, <2>3
  <2>5. InString(text, r, p + 5 + 1, x)
    BY <1>5, <1>6, <1>9, <2>4
  <2>6. r[p + 5] = x
    BY <1>1, <2>3, <2>4, <2>5, ReadString DEF n
  <2>7. Follows(text, r, p + 3 + 1, x)
    BY <1>1, <2>3, <2>4, <2>6, CommaFollows DEF n
  <2>8. r[p + 3] = <<b>> \o x
    BY <1>1, <1>2, <1>3, <1>9, <2>3, <2>4, <2>7, ReadElement DEF n
  <2>9. Follows(text, r, p + 2, <<b>> \o x)
    BY <1>1, <2>3, <2>4, <2>8, CommaFollows DEF n
  <2>10. InString(text, r, p + 1, <<b>> \o x)
    BY <1>1, <1>4, <2>3, <2>4, <2>9, MarkHere DEF n
  <2> QED  BY <1>3, <2>10 DEF p
<1>10. CASE ~Control(b) /\ b # Quote
  <2>1. e = <<Character(b)>>
    BY <1>10, PrintedByte
  <2>2. Len(e) = 1 /\ e[1] = Character(b)
    BY <2>1
  <2> HIDE DEF p, b, e, x, n
  <2>3. /\ Len(u[k]) = p + 1 /\ text[p + 1] = Character(b) /\ p + 1 \in 1..n
        /\ p + 1 + 1 = Len(u[k]) + 1
    BY <1>1, <2>2
  <2>4. InString(text, r, p + 1 + 1, x)
    BY <1>5, <1>6, <1>10, <2>3
  <2>5. InString(text, r, p + 1, <<b>> \o x)
    BY <1>1, <1>2, <2>3, <2>4, CharacterHere DEF n
  <2> QED  BY <1>3, <2>5 DEF p
<1> QED  BY <1>8, <1>9, <1>10

\* At the beginning of a line.
LEMMA ReadFirst ==
    ASSUME NEW s \in Seq(Bytes), s # <<>>, s[1] # Quote, NEW u, NEW text, Printed(s, u, text),
           NEW r, Reads(text, r), ReadBehind(s, u, text, r, 1)
    PROVE  r[1] = s
<1> DEFINE b == s[1]
           e == PrintByte(s, 1)
           x == Rest(s, 1)
           n == Len(text)
<1>1. 1 \in 1..Len(s) /\ 1 \in 0..Len(s) /\ 1 - 1 = 0 /\ 1 + 1 = 2
  OBVIOUS
<1>2. /\ Len(u[1]) = Len(e) /\ Len(u[1]) <= n /\ n \in Nat
      /\ \A j \in 1..Len(e) : text[j] = e[j]
      /\ text \in Seq(Element)
  <2>1. text \in Seq(Element) /\ u[0] = <<>>
    BY DEF Printed
  <2>2. n \in Nat /\ Len(u[0]) = 0
    BY <2>1
  <2> DEFINE p == Len(u[1 - 1])
  <2>3. p = 0
    BY <1>1, <2>2
  <2>4. /\ e \in Seq(Element) /\ Len(u[1]) = p + Len(e) /\ Len(u[1]) <= n
        /\ \A j \in 1..Len(e) : text[p + j] = e[j]
    BY <1>1, PrintedPlace
  <2> HIDE DEF p, e, n
  <2>5. Len(e) \in Nat
    BY <2>4
  <2> QED  BY <2>1, <2>2, <2>3, <2>4, <2>5
<1>3. b \in Bytes /\ x \in Seq(Bytes) /\ s = <<b>> \o x
  <2>1. b \in Bytes
    BY <1>1
  <2> QED  BY <1>1, <2>1, RestIs
<1>4. Mode(s, 1) = "start" /\ Mode(s, 2) = IF Control(b) THEN "hex" ELSE "ascii"
  BY <1>1, ModeFirst, ModeBehind
<1>5. /\ Mode(s, 2) = "ascii" => InString(text, r, Len(u[1]) + 1, x)
      /\ Mode(s, 2) = "hex" => Follows(text, r, Len(u[1]) + 1, x)
  BY <1>1 DEF ReadBehind
<1>6. CASE Control(b)
  <2>1. e = <<Constant(b)>>
    BY <1>4, <1>6, PrintedByte
  <2>2. Len(e) = 1 /\ e[1] = Constant(b)
    BY <2>1
  <2> HIDE DEF b, e, x, n
  <2>3. Len(u[1]) = 1 /\ text[1] = Constant(b) /\ 1 \in 1..n
    BY <1>2, <2>2
  <2>4. Follows(text, r, 1 + 1, x)
    BY <1>4, <1>5, <1>6, <2>3
  <2> QED  BY <1>2, <1>3, <2>3, <2>4, ReadElement DEF n
<1>7. CASE ~Control(b)
  <2>1. e = <<Mark, Character(b)>>
    BY <1>4, <1>7, PrintedByte
  <2>2. Len(e) = 2 /\ e[1] = Mark /\ e[2] = Character(b)
    BY <2>1
  <2> HIDE DEF b, e, x, n
  <2>3. Len(u[1]) = 2 /\ text[1] = Mark /\ text[2] = Character(b) /\ 1 \in 1..n /\ 2 \in 1..n
    BY <1>2, <2>2
  <2>4. InString(text, r, 2 + 1, x)
    BY <1>4, <1>5, <1>7, <2>3
  <2>5. InString(text, r, 1 + 1, <<b>> \o x)
    <3>1. InString(text, r, 2, <<b>> \o x)
      BY <1>2, <1>3, <2>3, <2>4, CharacterHere DEF n
    <3> QED  BY <1>1, <3>1
  <2> QED  BY <1>2, <1>3, <2>3, <2>5, ReadString DEF n
<1> QED  BY <1>6, <1>7

LEMMA QuoteAlone ==
    ASSUME NEW s \in Seq(Bytes), Len(s) = 1, s[1] = Quote
    PROVE  Elements(RawString(s)) = s
<1>1. 1 \in 1..Len(s) /\ 1 - 1 = 0 /\ 1 + 1 = 2 /\ s = <<Quote>> /\ Quote \in Bytes
  <2>1. Quote \in Bytes /\ <<Quote>> \in Seq(Bytes)
    BY DEF Quote, Bytes
  <2>2. s = <<Quote>>
    BY <2>1, SeqEqual
  <2> QED  BY <2>1, <2>2
<1>2. PICK u : Printed(s, u, RawString(s))
  BY PrintedIs
<1>3. Mode(s, 1) = "start" /\ Mode(s, Len(s) + 1) = "start"
  BY <1>1, ModeFirst, ModeBehind
<1>4. u[0] = <<>> /\ u[1] = u[0] \o PrintByte(s, 1) /\ RawString(s) = u[1] \o <<>>
  BY <1>1, <1>2, <1>3 DEF Printed, Closing
<1> DEFINE text == <<QuoteChar>>
<1>5. PrintByte(s, 1) = text
  BY <1>3, PrintedByte
<1>6. text \in Seq(Element) /\ Len(text) = 1 /\ text[1] = QuoteChar
  BY Elementary
<1>7. <<>> \o text = text /\ text \o <<>> = text
  BY <1>6
<1> HIDE DEF text
<1>8. RawString(s) = text
  BY <1>4, <1>5, <1>7
<1>9. PICK r : Elements(text) = r[1] /\ Reads(text, r)
  BY <1>6, ReadingRules DEF Reads
<1>10. Follows(text, r, 1 + 1, <<>>)
  BY <1>6 DEF Follows
<1>11. r[1] = <<Quote>> \o <<>>
  <2>1. <<>> \in Seq(Bytes) /\ 1 \in 1..Len(text)
    BY <1>6
  <2> DEFINE b == Quote
             x == <<>>
  <2>2. /\ text[1] = Constant(b) \/ (text[1] = QuoteChar /\ b = Quote)
        /\ b \in Bytes /\ x \in Seq(Bytes) /\ Follows(text, r, 1 + 1, x)
    BY <1>1, <1>6, <1>10, <2>1
  <2> HIDE DEF b, x
  <2>3. r[1] = <<b>> \o x
    BY <1>6, <1>9, <2>1, <2>2, ReadElement
  <2> QED  BY <2>3 DEF b, x
<1>12. <<Quote>> \o <<>> = <<Quote>>
  OBVIOUS
<1> QED  BY <1>1, <1>8, <1>9, <1>11, <1>12

\* What is printed of a line reads as the line.
LEMMA RoundTrip ==
    ASSUME NEW s \in Seq(Bytes), Printable(s)
    PROVE  Elements(RawString(s)) = s
<1>1. CASE s[1] = Quote
  BY <1>1, QuoteAlone DEF Printable
<1>2. CASE s[1] # Quote
  <2> DEFINE text == RawString(s)
             n == Len(s)
  <2>1. PICK u : Printed(s, u, text)
    BY PrintedIs
  <2>2. text \in Seq(Element)
    BY <2>1 DEF Printed
  <2>3. PICK r : Elements(text) = r[1] /\ Reads(text, r)
    BY <2>2, ReadingRules DEF Reads
  <2> HIDE DEF text
  <2>4. n \in Nat /\ n >= 1 /\ s # <<>>
    BY DEF Printable
  <2> DEFINE T == {k \in 0..n : ReadBehind(s, u, text, r, k)}
  <2>5. n \in T
    BY <2>1, <2>4, ReadBehindAll
  <2>6. ASSUME NEW k \in 1..n, k \in T PROVE k - 1 \in T
    <3>1. ReadBehind(s, u, text, r, k) /\ k - 1 \in 0..n /\ (k - 1) + 1 = k
      BY <2>4, <2>6
    <3>2. Mode(s, k) = "ascii" => InString(text, r, Len(u[k - 1]) + 1, Rest(s, k - 1))
      BY <2>1, <2>3, <3>1, BeforeCharacter
    <3>3. Mode(s, k) = "hex" => Follows(text, r, Len(u[k - 1]) + 1, Rest(s, k - 1))
      BY <2>1, <2>3, <3>1, BeforeConstant
    <3>4. ReadBehind(s, u, text, r, k - 1)
      BY <3>1, <3>2, <3>3 DEF ReadBehind
    <3> QED  BY <3>1, <3>4
  <2>7. 1 \in T
    <3> HIDE DEF T, n
    <3>1. 0..n \subseteq T
      BY <2>4, <2>5, <2>6, Downwards
    <3> QED  BY <2>4, <3>1
  <2>8. r[1] = s
    BY <1>2, <2>1, <2>3, <2>4, <2>7, ReadFirst
  <2> QED  BY <2>3, <2>8 DEF text
<1> QED  BY <1>1, <1>2

\* What is printed of any other line without a backslash is no DEFM line.
LEMMA NoRoundTrip ==
    ASSUME NEW s \in Seq(Bytes), ~Printable(s), ~HasEscape(s)
    PROVE  Elements(RawString(s)) = <<Error>>
<1> DEFINE text == RawString(s)
<1>1. PICK u : Printed(s, u, text)
  BY PrintedIs
<1>2. text \in Seq(Element)
  BY <1>1 DEF Printed
<1>3. PICK r : Elements(text) = r[1] /\ Reads(text, r)
  BY <1>2, ReadingRules DEF Reads
<1>4. r[1] = ReadAt(text, r, 1)
  BY <1>3 DEF Reads
<1>5. CASE s = <<>>
  <2>1. Mode(s, Len(s) + 1) = "start" /\ Len(s) = 0
    BY <1>5, ModeFirst
  <2>2. text = <<>> \o <<>>
    BY <1>1, <2>1 DEF Printed, Closing
  <2> HIDE DEF text
  <2>3. 1 > Len(text)
    BY <2>2
  <2> QED  BY <1>3, <1>4, <2>3 DEF ReadAt, text
<1>6. CASE s # <<>>
  <2>1. s[1] = Quote /\ Len(s) >= 2 /\ Len(s) \in Nat
    <3>1. s[1] = Quote /\ Len(s) # 1
      BY <1>6 DEF Printable
    <3> DEFINE l == Len(s)
    <3>2. l \in Nat /\ l # 0
      BY <1>6
    <3>3. l # 1
      BY <3>1
    <3> HIDE DEF l
    <3>4. l \in Nat /\ l >= 2
      BY <3>2, <3>3
    <3> QED  BY <3>1, <3>4 DEF l
  <2>2. 1 \in 1..Len(s) /\ 2 \in 1..Len(s) /\ 1 - 1 = 0 /\ 2 - 1 = 1 /\ 1 + 1 = 2
    BY <2>1
  <2>3. Mode(s, 1) = "start" /\ Mode(s, 2) = "start"
    BY <2>1, <2>2, ModeFirst, ModeBehind
  <2> DEFINE a == PrintByte(s, 1)
             e == PrintByte(s, 2)
             n == Len(text)
  <2>4. a = <<QuoteChar>> /\ Len(a) = 1 /\ a[1] = QuoteChar
    <3>1. a = <<QuoteChar>>
      BY <2>1, <2>3, PrintedByte
    <3> QED  BY <3>1
  <2>5. Len(e) >= 1 /\ Len(e) \in Nat /\ e[1] # Comma
    <3>1. Control(s[2]) => e = <<Constant(s[2])>>
      BY <2>3, PrintedByte
    <3>2. s[2] = Quote => e = <<QuoteChar>>
      BY <2>3, PrintedByte
    <3>3. ~Control(s[2]) /\ s[2] # Quote => e = <<Mark, Character(s[2])>>
      BY <2>3, PrintedByte
    <3> HIDE DEF e
    <3> QED  BY <3>1, <3>2, <3>3, Kinds
  <2>6. Len(u[0]) = 0
    BY <1>1 DEF Printed
  <2>7. Len(u[1]) = 1 /\ text[1] = QuoteChar
    <3> DEFINE p == Len(u[1 - 1])
    <3>1. p = 0
      BY <2>2, <2>6
    <3>2. Len(u[1]) = p + Len(a) /\ \A j \in 1..Len(a) : text[p + j] = a[j]
      BY <1>1, <2>2, PrintedPlace
    <3> HIDE DEF p, a, text
    <3> QED  BY <2>4, <3>1, <3>2
  <2>8. n \in Nat /\ n >= 2 /\ text[2] # Comma
    <3> DEFINE p == Len(u[2 - 1])
    <3>1. p = 1
      BY <2>2, <2>7
    <3>2. Len(u[2]) = p + Len(e) /\ Len(u[2]) <= n /\ \A j \in 1..Len(e) : text[p + j] = e[j]
      BY <1>1, <2>2, PrintedPlace
    <3>3. n \in Nat
      BY <1>2
    <3> HIDE DEF p, e, text, n
    <3>4. n >= 2
      BY <2>5, <3>1, <3>2, <3>3
    <3>5. text[2] = e[1]
      BY <2>5, <3>1, <3>2
    <3> QED  BY <2>5, <3>3, <3>4, <3>5
  <2> HIDE DEF text
  <2>9. ReadAt(text, r, 1) = Ended(text, r, 2, <<Quote>>)
    BY <2>2, <2>7, <2>8, Kinds DEF ReadAt
  <2>10. Ended(text, r, 2, <<Quote>>) = <<Error>>
    BY <2>8 DEF Ended
  <2> QED  BY <1>3, <1>4, <2>9, <2>10 DEF text
<1> QED  BY <1>5, <1>6

----------------------------------------------------------------------------
(* The program *)

Phases ==
    {"load", "read", "tokenize", "printed", "detokenize", "done", "failed", "crashed", "escaped"}

\* The parts of the induction hypothesis: what the variables are,
Shape ==
    /\ table \in Tables /\ order \in Seq(Nat) /\ i \in Nat \ {0}
    /\ source \in Seq(Bytes) /\ line \in Seq(Bytes)
    /\ phase \in Phases
    /\ phase \notin {"load", "failed"} => LoadsTokenTable(table)
    /\ phase = "load" => line = source /\ i = 1

\* that the line has codes without a token when the source has, and stands for the
\* same text when it has none,
SameText ==
    LoadsTokenTable(table) =>
        /\ AllKnown(table, line) <=> AllKnown(table, source)
        /\ AllKnown(table, source) => InClear(table, line) = InClear(table, source)

\* that tokens that have been passed are known, and nowhere in the line,
Replaceless ==
    phase \in {"read", "tokenize"} =>
        \A k \in 1..(i - 1) :
            /\ k \in 1..Len(order) /\ KnownToken(table, order[k])
            /\ phase = "tokenize" => MatchesToken(line, ExpandedToken(table, order[k])) = {}

\* and what has been printed.
Output ==
    /\ phase \in {"load", "read"} => i = 1
    /\ phase = "printed" => out = RawString(line)
    /\ phase = "done" => AllKnown(table, line) /\ out = TokenizedString(table, line)
    /\ phase = "failed" /\ LoadsTokenTable(table) => ~Printable(line)

TokenInv == Shape /\ SameText /\ Replaceless /\ Output

LEMMA Assumed ==
    /\ \A f \in Tables : LoadsTokenTable(f) => Sound(f)
    /\ \A s \in Sequences : s \in Seq(Nat)
    /\ \A s \in Lines : s \in Seq(Bytes)
  BY TableAssumption DEF Bytes

LEMMA InitTokens == Init => TokenInv
<1> SUFFICES ASSUME Init PROVE TokenInv
  OBVIOUS
<1>1. Shape
  BY DEF Init, Shape, Phases
<1>2. SameText
  BY DEF Init, SameText
<1>3. Replaceless /\ Output
  BY DEF Init, Replaceless, Output
<1> QED  BY <1>1, <1>2, <1>3 DEF TokenInv

LEMMA LoadKeeps == TokenInv /\ Load => TokenInv'
<1> SUFFICES ASSUME TokenInv, Load PROVE TokenInv'
  OBVIOUS
<1>1. /\ Shape /\ phase = "load" /\ line = source /\ i = 1
      /\ table' = table /\ source' = source /\ line' = line /\ i' = i /\ out' = out
  BY DEF TokenInv, Shape, Load
<1>2. CASE LoadsTokenTable(table)
  <2>1. phase' = "read"
    BY <1>2 DEF Load
  <2>2. order' \in Seq(Nat)
    <3>1. PICK s \in Sequences :
              order' = IF s = <<>> THEN [k \in 1..TotalTokens(table) |-> k + 127] ELSE s
      BY <1>2 DEF Load
    <3>2. [k \in 1..TotalTokens(table) |-> k + 127] \in Seq(Nat)
      <4>1. TotalTokens(table) \in Int
        BY <1>1, <1>2, TablesLoaded DEF Shape
      <4>2. TotalTokens(table) \in Nat \/ 1..TotalTokens(table) = 1..0
        BY <4>1
      <4>3. \A n \in Nat : [k \in 1..n |-> k + 127] \in Seq(Nat)
        OBVIOUS
      <4> QED  BY <4>2, <4>3
    <3> QED  BY <3>1, <3>2, Assumed
  <2>3. Shape'
    BY <1>1, <1>2, <2>1, <2>2 DEF Shape, Phases
  <2>4. SameText' /\ Replaceless' /\ Output'
    BY <1>1, <2>1 DEF SameText, Replaceless, Output
  <2> QED  BY <2>3, <2>4 DEF TokenInv
<1>3. CASE ~LoadsTokenTable(table)
  <2>1. phase' = "failed" /\ order' = order
    BY <1>3 DEF Load
  <2> QED  BY <1>1, <1>3, <2>1 DEF TokenInv, Shape, SameText, Replaceless, Output, Phases
<1> QED  BY <1>2, <1>3

LEMMA ParseLineKeeps == TokenInv /\ ParseLine => TokenInv'
<1> SUFFICES ASSUME TokenInv, ParseLine PROVE TokenInv'
  OBVIOUS
<1>1. /\ Shape /\ phase = "read" /\ i = 1 /\ phase' = "tokenize"
      /\ table' = table /\ order' = order /\ i' = i /\ out' = out
  BY DEF TokenInv, Output, ParseLine
<1>2. source' \in Seq(Bytes) /\ line' = source'
  BY Assumed DEF ParseLine
<1>3. Shape'
  BY <1>1, <1>2 DEF Shape, Phases
<1>4. SameText'
  BY <1>1, <1>2 DEF SameText
<1>5. Replaceless' /\ Output'
  BY <1>1 DEF Replaceless, Output
<1> QED  BY <1>3, <1>4, <1>5 DEF TokenInv

LEMMA UnknownTokenKeeps == TokenInv /\ UnknownToken => TokenInv'
<1> SUFFICES ASSUME TokenInv, UnknownToken PROVE TokenInv'
  OBVIOUS
<1>1. /\ Shape /\ SameText /\ phase = "tokenize" /\ phase' = "crashed"
      /\ table' = table /\ order' = order /\ source' = source /\ line' = line /\ i' = i
  BY DEF TokenInv, UnknownToken, Tokenizing
<1> QED  BY <1>1 DEF TokenInv, Shape, SameText, Replaceless, Output, Phases

\* The text of the token of the order.
LEMMA PassedPlain ==
    ASSUME NEW f \in Tables, LoadsTokenTable(f), NEW code \in Nat, KnownToken(f, code)
    PROVE  ExpandedToken(f, code) \in Seq(Plain)
  BY KnownId, TablesLoaded, TokensArePlain DEF ExpandedToken

LEMMA ReplaceTokenKeeps == TokenInv /\ ReplaceToken => TokenInv'
<1> SUFFICES ASSUME TokenInv, ReplaceToken PROVE TokenInv'
  OBVIOUS
<1> DEFINE code == order[i]
           token == ExpandedToken(table, code)
           places == MatchesToken(line, token)
           q == CHOOSE x \in places : \A y \in places : x <= y
<1>1. /\ Shape /\ SameText /\ Replaceless /\ phase = "tokenize" /\ phase' = phase
      /\ table' = table /\ order' = order /\ source' = source /\ i' = i
      /\ i <= Len(order) /\ KnownToken(table, code) /\ places # {}
      /\ line' = InsertTokenId(line, token, 128 + (code % 128), q)
  BY DEF TokenInv, ReplaceToken, Tokenizing
<1>2. /\ table \in Tables /\ LoadsTokenTable(table) /\ line \in Seq(Bytes) /\ order \in Seq(Nat)
      /\ i \in Nat \ {0}
  BY <1>1 DEF Shape
<1>3. code \in Nat
  BY <1>1, <1>2
<1>4. q \in places
  <2>1. places \subseteq Nat
    BY DEF MatchesToken
  <2>2. \E x \in places : \A y \in places : x <= y
    <3> HIDE DEF places
    <3> QED  BY <1>1, <2>1, LeastNumber
  <2> HIDE DEF places
  <2> QED  BY <2>2
<1> HIDE DEF q, code
<1>5. /\ line' \in Seq(Bytes)
      /\ AllKnown(table, line') <=> AllKnown(table, line)
      /\ AllKnown(table, line) => InClear(table, line') = InClear(table, line)
      /\ \A x \in Seq(Plain) : MatchesToken(line, x) = {} => MatchesToken(line', x) = {}
  <2> DEFINE t == InsertTokenId(line, ExpandedToken(table, code), 128 + (code % 128), q)
  <2>1. q \in MatchesToken(line, ExpandedToken(table, code)) /\ line' = t
    BY <1>1, <1>4
  <2>2. KnownToken(table, code)
    BY <1>1
  <2> HIDE DEF token, places
  <2>3. /\ t \in Seq(Bytes)
        /\ AllKnown(table, t) <=> AllKnown(table, line)
        /\ AllKnown(table, line) => InClear(table, t) = InClear(table, line)
        /\ \A x \in Seq(Plain) : MatchesToken(line, x) = {} => MatchesToken(t, x) = {}
    BY <1>2, <1>3, <2>1, <2>2, ReplacementKeeps
  <2> HIDE DEF t
  <2> QED  BY <2>1, <2>3
<1>6. Shape'
  BY <1>1, <1>5 DEF Shape
<1>7. SameText'
  BY <1>1, <1>2, <1>5 DEF SameText
<1>8. Replaceless'
  <2> SUFFICES ASSUME NEW k \in 1..(i - 1)
               PROVE  /\ k \in 1..Len(order) /\ KnownToken(table, order[k])
                      /\ MatchesToken(line', ExpandedToken(table, order[k])) = {}
    BY <1>1 DEF Replaceless
  <2>1. /\ k \in 1..Len(order) /\ KnownToken(table, order[k])
        /\ MatchesToken(line, ExpandedToken(table, order[k])) = {}
    BY <1>1 DEF Replaceless
  <2>2. order[k] \in Nat
    BY <1>2, <2>1
  <2>3. ExpandedToken(table, order[k]) \in Seq(Plain)
    BY <1>2, <2>1, <2>2, PassedPlain
  <2> QED  BY <1>5, <2>1, <2>3
<1>9. Output'
  BY <1>1 DEF Output
<1> QED  BY <1>6, <1>7, <1>8, <1>9 DEF TokenInv

LEMMA NextTokenKeeps == TokenInv /\ NextToken => TokenInv'
<1> SUFFICES ASSUME TokenInv, NextToken PROVE TokenInv'
  OBVIOUS
<1>1. /\ Shape /\ SameText /\ Replaceless /\ phase = "tokenize" /\ phase' = phase
      /\ table' = table /\ order' = order /\ source' = source /\ line' = line /\ i' = i + 1
      /\ i <= Len(order) /\ KnownToken(table, order[i])
      /\ MatchesToken(line, ExpandedToken(table, order[i])) = {}
  BY DEF TokenInv, NextToken, Tokenizing
<1>2. i \in Nat \ {0} /\ order \in Seq(Nat)
  BY <1>1 DEF Shape
<1>3. Shape'
  BY <1>1, <1>2 DEF Shape
<1>4. SameText' /\ Output'
  BY <1>1 DEF SameText, Output
<1>5. Replaceless'
  <2> SUFFICES ASSUME NEW k \in 1..(i' - 1)
               PROVE  /\ k \in 1..Len(order) /\ KnownToken(table, order[k])
                      /\ MatchesToken(line, ExpandedToken(table, order[k])) = {}
    BY <1>1 DEF Replaceless
  <2>1. k \in 1..(i - 1) \/ (k = i /\ i \in 1..Len(order))
    BY <1>1, <1>2
  <2> QED  BY <1>1, <2>1 DEF Replaceless
<1> QED  BY <1>3, <1>4, <1>5 DEF TokenInv

LEMMA OutputKeeps == TokenInv /\ OutputTextFile => TokenInv'
<1> SUFFICES ASSUME TokenInv, OutputTextFile PROVE TokenInv'
  OBVIOUS
<1>1. /\ Shape /\ SameText /\ phase = "tokenize" /\ phase' = "printed" /\ out' = RawString(line)
      /\ table' = table /\ order' = order /\ source' = source /\ line' = line /\ i' = i
  BY DEF TokenInv, OutputTextFile
<1> QED  BY <1>1 DEF TokenInv, Shape, SameText, Replaceless, Output, Phases

LEMMA ReadBackKeeps == TokenInv /\ ReadBack => TokenInv'
<1> SUFFICES ASSUME TokenInv, ReadBack PROVE TokenInv'
  OBVIOUS
<1>1. /\ Shape /\ SameText /\ phase = "printed" /\ out = RawString(line)
      /\ table' = table /\ order' = order /\ source' = source /\ i' = i /\ line \in Seq(Bytes)
  BY DEF TokenInv, ReadBack, Output, Shape
<1>2. CASE Printable(line)
  <2>1. Elements(out) = line
    BY <1>1, <1>2, RoundTrip
  <2>2. ~Contains(line, Error)
    <3>1. \A k \in 1..Len(line) : line[k] \in Bytes
      BY <1>1
    <3>2. Error \notin Bytes
      BY DEF Error, Bytes
    <3> QED  BY <1>1, <3>1, <3>2 DEF Contains
  <2>3. phase' = "detokenize" /\ line' = line
    BY <1>2, <2>1, <2>2 DEF ReadBack, Printable
  <2> QED  BY <1>1, <2>3 DEF TokenInv, Shape, SameText, Replaceless, Output, Phases
<1>3. CASE ~Printable(line) /\ ~HasEscape(line)
  <2>1. Elements(out) = <<Error>>
    BY <1>1, <1>3, NoRoundTrip
  <2>2. Contains(<<Error>>, Error)
    <3>1. 1 \in 1..Len(<<Error>>) /\ <<Error>>[1] = Error
      OBVIOUS
    <3> QED  BY <3>1 DEF Contains
  <2>3. phase' = "failed" /\ line' = line
    BY <1>3, <2>1, <2>2 DEF ReadBack
  <2> QED  BY <1>1, <1>3, <2>3 DEF TokenInv, Shape, SameText, Replaceless, Output, Phases
<1>4. CASE HasEscape(line)
  <2>1. phase' = "escaped" /\ line' = line
    BY <1>4 DEF ReadBack
  <2> QED  BY <1>1, <2>1 DEF TokenInv, Shape, SameText, Replaceless, Output, Phases
<1> QED  BY <1>2, <1>3, <1>4

LEMMA OutputClearKeeps == TokenInv /\ OutputDeTokenizedTextFile => TokenInv'
<1> SUFFICES ASSUME TokenInv, OutputDeTokenizedTextFile PROVE TokenInv'
  OBVIOUS
<1>1. /\ Shape /\ SameText /\ phase = "detokenize" /\ phase' \in {"done", "crashed"}
      /\ table' = table /\ order' = order /\ source' = source /\ line' = line /\ i' = i
      /\ line \in Seq(Bytes)
  BY DEF TokenInv, OutputDeTokenizedTextFile, Shape
<1>2. phase' = "done" => AllKnown(table, line) /\ out' = TokenizedString(table, line)
  <2>1. DOMAIN line = 1..Len(line)
    BY <1>1
  <2> QED  BY <2>1 DEF OutputDeTokenizedTextFile, AllKnown
<1> QED  BY <1>1, <1>2 DEF TokenInv, Shape, SameText, Replaceless, Output, Phases

LEMMA TokensStutter == TokenInv /\ UNCHANGED vars => TokenInv'
  BY DEF vars, TokenInv, Shape, SameText, Replaceless, Output

THEOREM TokenInvariant == Spec => []TokenInv
<1>1. TokenInv /\ [Next]_vars => TokenInv'
  BY LoadKeeps, ParseLineKeeps, UnknownTokenKeeps, ReplaceTokenKeeps, NextTokenKeeps, OutputKeeps,
     ReadBackKeeps, OutputClearKeeps, TokensStutter DEF Next
<1> QED  BY InitTokens, <1>1, PTL DEF Spec

----------------------------------------------------------------------------
(* What replacing does to a line *)

\* NothingLeft, for tables, sequences and lines of any size: behind a token of the
\* scan sequence MatchToken does not find its text again, although InsertTokenId has
\* replaced the texts of other tokens since.
THEOREM NothingIsLeft == Spec => []NothingLeft
<1>1. TokenInv => NothingLeft
  <2> SUFFICES ASSUME TokenInv, phase = "tokenize", NEW k \in 1..(i - 1), NEW q \in 1..Len(line),
                      q + Len(ExpandedToken(table, order[k])) - 1 <= Len(line),
                      SubSeq(line, q, q + Len(ExpandedToken(table, order[k])) - 1)
                          = ExpandedToken(table, order[k])
               PROVE  FALSE
    BY DEF NothingLeft
  <2>1. /\ table \in Tables /\ LoadsTokenTable(table) /\ order \in Seq(Nat) /\ line \in Seq(Bytes)
        /\ k \in 1..Len(order) /\ KnownToken(table, order[k])
        /\ MatchesToken(line, ExpandedToken(table, order[k])) = {}
    BY DEF TokenInv, Shape, Replaceless
  <2> DEFINE token == ExpandedToken(table, order[k])
  <2>2. order[k] \in Nat
    BY <2>1
  <2>3. token \in Seq(Plain)
    BY <2>1, <2>2, PassedPlain
  <2> HIDE DEF token
  <2>4. Len(token) \in Nat /\ Len(line) \in Nat /\ q + Len(token) - 1 <= Len(line)
    BY <2>1, <2>3 DEF token
  <2>5. q \in 1..(Len(line) - Len(token) + 1)
    BY <2>4
  <2>6. q \in MatchesToken(line, token)
    BY <2>5 DEF MatchesToken, token
  <2> QED  BY <2>1, <2>6 DEF token
<1> QED  BY TokenInvariant, <1>1, PTL

\* ReadsBack, for tables, sequences and lines of any size: the DEFM line that -r
\* prints, after a DEFM line with codes has been read, reads as the text of the
\* source, and only a line for which there is no DEFM line is not read.  Printable
\* leaves out three kinds of lines: empty ones, those that a quotation mark leads,
\* and those with a backslash, which GetChar reads as an escape: a\b is printed "a\b".
THEOREM PrintedIsRead == Spec => []ReadsBack
<1>1. TokenInv => ReadsBack
  <2> SUFFICES ASSUME TokenInv PROVE ReadsBack
    OBVIOUS
  <2>1. Shape /\ SameText /\ Output
    BY DEF TokenInv
  <2>2. ASSUME phase = "done", Printable(InClear(table, source))
        PROVE  Elements(out) = InClear(table, source)
    <3>1. table \in Tables /\ LoadsTokenTable(table) /\ source \in Seq(Bytes)
      BY <2>1, <2>2 DEF Shape
    <3>2. AllKnown(table, line) /\ out = TokenizedString(table, line)
      BY <2>1, <2>2 DEF Output
    <3>3. AllKnown(table, source) /\ InClear(table, line) = InClear(table, source)
      BY <2>1, <3>1, <3>2 DEF SameText
    <3>4. InClear(table, source) \in Seq(Plain)
      BY <3>1, <3>3, KnownCovered
    <3>5. InClear(table, source) \in Seq(Bytes)
      BY <3>4, PlainBytes
    <3>6. out = RawString(InClear(table, source))
      BY <3>2, <3>3 DEF TokenizedString
    <3> QED  BY <2>2, <3>5, <3>6, RoundTrip
  <2>3. phase = "failed" /\ LoadsTokenTable(table) => ~Printable(line)
    BY <2>1 DEF Output
  <2> QED  BY <2>2, <2>3 DEF ReadsBack
<1> QED  BY TokenInvariant, <1>1, PTL

----------------------------------------------------------------------------
(* What a line stands for *)

\* The codes that lines of the source come with are codes of the tables.  What a line
\* with another code stands for nobody can say.
CodesKnown == \A f \in Tables : LoadsTokenTable(f) => \A s \in Lines : AllKnown(f, s)

\* The source is a line of the source, or has not been read.
SourceInv == source \in Lines \union {<<>>}

LEMMA SourceInvariant == Spec => []SourceInv
<1>1. Init => SourceInv
  BY DEF Init, SourceInv
<1>2. SourceInv /\ [Next]_vars => SourceInv'
  <2> SUFFICES ASSUME SourceInv, [Next]_vars PROVE SourceInv'
    OBVIOUS
  <2>1. CASE ParseLine
    BY <2>1 DEF ParseLine, SourceInv
  <2>2. CASE ~ParseLine
    <3>1. source' = source
      BY <2>2 DEF Next, Load, UnknownToken, ReplaceToken, NextToken, OutputTextFile, ReadBack,
                  OutputDeTokenizedTextFile, vars
    <3> QED  BY <3>1 DEF SourceInv
  <2> QED  BY <2>1, <2>2
<1> QED  BY <1>1, <1>2, PTL DEF Spec

\* MeaningKept, for tables, sequences and lines of any size: wherever TokenizeTextFile
\* has put codes, and in whatever order, the line stands for the text of the source.
THEOREM MeaningIsKept == ASSUME CodesKnown PROVE Spec => []MeaningKept
<1>1. TokenInv /\ SourceInv => MeaningKept
  <2> SUFFICES ASSUME TokenInv, SourceInv, phase \notin {"load", "failed"}
               PROVE  InClear(table, line) = InClear(table, source)
    BY DEF MeaningKept
  <2>1. table \in Tables /\ LoadsTokenTable(table) /\ SameText
    BY DEF TokenInv, Shape
  <2>2. AllKnown(table, source)
    <3>1. CASE source \in Lines
      BY <2>1, <3>1, CodesKnown DEF CodesKnown
    <3>2. CASE source = <<>>
      <4>1. <<>> \in Seq(Plain)
        OBVIOUS
      <4> QED  BY <3>2, <4>1, KnownPlain
    <3> QED  BY <3>1, <3>2 DEF SourceInv
  <2> QED  BY <2>1, <2>2 DEF SameText
<1> QED  BY TokenInvariant, SourceInvariant, <1>1, PTL
============================================================================
