---------------------------- MODULE UtilitiesProofs ----------------------------
(***************************************************************************)
(* Proofs about Utilities: what its functions compute of every input.  The *)
(* induction they need is over sets of numbers, from the fact that a set   *)
(* of numbers has a least member.                                          *)
(***************************************************************************)
EXTENDS Utilities, WellFoundedInduction, SequenceTheorems, TLAPS

-----------------------------------------------------------------------------
(* Induction, over sets of numbers, from the fact that every nonempty one    *)
(* has a least member.                                                       *)

LEMMA NatMin ==
  ASSUME NEW T \in SUBSET Nat, T # {}
  PROVE  \E x \in T : \A y \in T : x <= y
  <1>1. PICK x \in T : \A y \in T : ~ (<<y, x>> \in OpToRel(<, Nat))
    BY NatLessThanWellFounded, WFMin
  <1>2. \A y \in T : ~ (y < x)
    BY <1>1 DEF OpToRel
  <1> QED
    BY <1>2

LEMMA NatMax ==
  ASSUME NEW l \in Nat, NEW T \in SUBSET (0..l), T # {}
  PROVE  \E x \in T : \A y \in T : x >= y
  <1> DEFINE U == {l - x : x \in T}
  <1>1. \A x \in T : x \in Nat /\ x <= l /\ l - x \in Nat
    OBVIOUS
  <1>2. U \in SUBSET Nat /\ U # {}
    BY <1>1
  <1>3. PICK u \in U : \A v \in U : u <= v
    BY <1>2, NatMin
  <1>4. PICK x \in T : u = l - x
    BY <1>3
  <1>5. \A y \in T : l - x <= l - y
    BY <1>3, <1>4
  <1> QED
    BY <1>1, <1>5

(* What holds of 0 and of the number after each holds up to n. *)
LEMMA Induction ==
  ASSUME NEW n \in Nat, NEW S, 0 \in S, \A m \in 0..n-1 : m \in S => m + 1 \in S
  PROVE  \A m \in 0..n : m \in S
  <1> SUFFICES ASSUME \E m \in 0..n : m \notin S PROVE FALSE
    OBVIOUS
  <1> DEFINE T == {m \in 0..n : m \notin S}
  <1>1. T \in SUBSET Nat /\ T # {}
    OBVIOUS
  <1>2. PICK x \in T : \A y \in T : x <= y
    BY <1>1, NatMin
  <1>3. x \in 1..n
    BY <1>2
  <1>4. x - 1 \notin T /\ x - 1 \in 0..n-1
    BY <1>2, <1>3
  <1> QED
    BY <1>2, <1>3, <1>4

LEMMA MaxOf ==
  ASSUME NEW l \in Nat, NEW T \in SUBSET (0..l), T # {}
  PROVE  Max(T) \in T /\ \A y \in T : Max(T) >= y
  BY NatMax DEF Max

LEMMA MinOf ==
  ASSUME NEW T \in SUBSET Nat, T # {}
  PROVE  Min(T) \in T /\ \A y \in T : Min(T) <= y
  BY NatMin DEF Min

-----------------------------------------------------------------------------
(* Folds.  The function over sets of indices that a fold of the community    *)
(* modules is made of exists.                                                *)

FoldsOver(f, base, F, n) ==
  \A t \in SUBSET (1..n) :
    f[t] = IF t = {} THEN base ELSE F[<<f[t \ {Max(t)}], Max(t)>>]

LEMMA FoldExists ==
  ASSUME NEW X, NEW base \in X, NEW n \in Nat, NEW F \in [X \X (1..n) -> X]
  PROVE  \E f \in [SUBSET (1..n) -> X] : FoldsOver(f, base, F, n)
  <1> DEFINE Folds(m, f) == FoldsOver(f, base, F, m)
             Foldable(m) == \E f \in [SUBSET (1..m) -> X] : Folds(m, f)
             S == {m \in 0..n : Foldable(m)}
  <1>1. 0 \in S
    <2> DEFINE g == [t \in SUBSET (1..0) |-> base]
    <2>1. g \in [SUBSET (1..0) -> X] /\ Folds(0, g)
      BY DEF FoldsOver
    <2>2. Foldable(0)
      BY <2>1
    <2> HIDE DEF Foldable
    <2> QED
      BY <2>2
  <1>2. ASSUME NEW m \in 0..n-1, m \in S PROVE m + 1 \in S
    <2>1. PICK f \in [SUBSET (1..m) -> X] : Folds(m, f)
      BY <1>2
    <2> DEFINE g == [t \in SUBSET (1..m+1) |->
                       IF m + 1 \in t THEN F[<<f[t \ {m + 1}], m + 1>>] ELSE f[t]]
    <2>2. \A t \in SUBSET (1..m+1) : t \ {m + 1} \in SUBSET (1..m)
      OBVIOUS
    <2>3. \A t \in SUBSET (1..m+1) : m + 1 \notin t => t \in SUBSET (1..m)
      BY <2>2
    <2>4. g \in [SUBSET (1..m+1) -> X]
      BY <2>2, <2>3
    <2>5. m + 1 \in Nat /\ \A t \in SUBSET (1..m+1) : t \in SUBSET (0..m+1)
      OBVIOUS
    <2>6. ASSUME NEW t \in SUBSET (1..m+1)
          PROVE  g[t] = IF t = {} THEN base ELSE F[<<g[t \ {Max(t)}], Max(t)>>]
      <3>1. CASE m + 1 \in t
        <4>1. Max(t) \in t /\ \A y \in t : Max(t) >= y
          BY <2>5, <3>1, MaxOf
        <4>2. Max(t) \in 1..m+1 /\ Max(t) >= m + 1
          BY <3>1, <4>1
        <4>3. Max(t) = m + 1
          BY <4>2
        <4>4. g[t \ {m + 1}] = f[t \ {m + 1}]
          BY <2>2
        <4>5. g[t] = F[<<f[t \ {m + 1}], m + 1>>] /\ t # {}
          BY <3>1
        <4> HIDE DEF g
        <4> QED
          BY <4>3, <4>4, <4>5
      <3>2. CASE m + 1 \notin t /\ t # {}
        <4>1. t \in SUBSET (1..m) /\ g[t] = f[t]
          BY <2>3, <3>2
        <4>2. Max(t) \in t
          BY <2>5, <3>2, MaxOf
        <4>3. g[t \ {Max(t)}] = f[t \ {Max(t)}]
          BY <3>2, <4>1
        <4> QED
          BY <2>1, <3>2, <4>1, <4>3 DEF FoldsOver
      <3>3. CASE t = {}
        BY <2>1, <3>3 DEF FoldsOver
      <3> QED
        BY <3>1, <3>2, <3>3
    <2>7. Folds(m + 1, g)
      BY <2>6 DEF FoldsOver
    <2> HIDE DEF g, Folds
    <2> QED
      BY <2>4, <2>7
  <1>3. n \in S
    <2> HIDE DEF S
    <2> QED
      BY <1>1, <1>2, Induction
  <1> QED
    BY <1>3

(* On the indices up to k such a function goes on from those up to k - 1. *)
LEMMA FoldOfPrefix ==
  ASSUME NEW n \in Nat, NEW k \in 1..n
  PROVE  /\ 1..k \in SUBSET (1..n) /\ 1..k # {}
         /\ Max(1..k) = k /\ (1..k) \ {k} = 1..(k - 1)
  <1>1. 1..k \in SUBSET (0..n) /\ 1..k # {}
    OBVIOUS
  <1>2. Max(1..k) \in 1..k /\ \A y \in 1..k : Max(1..k) >= y
    BY <1>1, MaxOf
  <1> QED
    BY <1>1, <1>2


-----------------------------------------------------------------------------
(* A function that goes on from each number to the next one exists, up to n  *)
(* and over all numbers.                                                     *)

GoesOn(f, base, F, n) ==
  /\ f[0] = base
  /\ \A k \in 1..n : f[k] = F[<<f[k - 1], k>>]

LEMMA RecursionExists ==
  ASSUME NEW X, NEW base \in X, NEW n \in Nat, NEW F \in [X \X (1..n) -> X]
  PROVE  \E f \in [0..n -> X] : GoesOn(f, base, F, n)
  <1> DEFINE Reached(m) == \E f \in [0..m -> X] : GoesOn(f, base, F, m)
             S == {m \in 0..n : Reached(m)}
  <1>1. 0 \in S
    <2> DEFINE g == [k \in 0..0 |-> base]
    <2>1. g \in [0..0 -> X] /\ GoesOn(g, base, F, 0)
      BY DEF GoesOn
    <2>2. Reached(0)
      BY <2>1
    <2> HIDE DEF Reached
    <2> QED
      BY <2>2
  <1>2. ASSUME NEW m \in 0..n-1, m \in S PROVE m + 1 \in S
    <2>1. PICK f \in [0..m -> X] : GoesOn(f, base, F, m)
      BY <1>2
    <2> DEFINE g == [k \in 0..m+1 |-> IF k = m + 1 THEN F[<<f[m], m + 1>>] ELSE f[k]]
    <2>2. f[m] \in X /\ m + 1 \in 1..n
      OBVIOUS
    <2>3. g \in [0..m+1 -> X]
      BY <2>2
    <2>4. ASSUME NEW k \in 1..m+1 PROVE g[k] = F[<<g[k - 1], k>>]
      <3>1. k - 1 \in 0..m /\ k - 1 \in 0..m+1 /\ k - 1 # m + 1
        OBVIOUS
      <3>2. g[k - 1] = f[k - 1]
        BY <3>1
      <3>3. CASE k = m + 1
        <4>1. k - 1 = m /\ k \in 0..m+1 /\ g[k] = F[<<f[m], m + 1>>]
          BY <3>3
        <4>2. g[k - 1] = f[m]
          BY <3>2, <4>1
        <4> HIDE DEF g
        <4> QED
          BY <3>3, <4>1, <4>2
      <3>4. CASE k # m + 1
        BY <2>1, <3>2, <3>4 DEF GoesOn
      <3> QED
        BY <3>3, <3>4
    <2>5. g[0] = base
      BY <2>1 DEF GoesOn
    <2>6. Reached(m + 1)
      <3>1. GoesOn(g, base, F, m + 1)
        <4> HIDE DEF g
        <4> QED
          BY <2>4, <2>5 DEF GoesOn
      <3> HIDE DEF g
      <3> QED
        BY <2>3, <3>1
    <2> HIDE DEF Reached
    <2> QED
      BY <2>6
  <1>3. n \in S
    <2> HIDE DEF S
    <2> QED
      BY <1>1, <1>2, Induction
  <1> QED
    BY <1>3

LEMMA RecursionOverNat ==
  ASSUME NEW X, NEW base \in X, NEW H \in [X -> X]
  PROVE  \E f \in [Nat -> X] : f[0] = base /\ \A n \in Nat \ {0} : f[n] = H[f[n - 1]]
  <1> DEFINE Upto(n, f) == /\ f \in [0..n -> X]
                           /\ f[0] = base
                           /\ \A k \in 1..n : f[k] = H[f[k - 1]]
             The(n) == CHOOSE f : Upto(n, f)
             f == [n \in Nat |-> The(n)[n]]
  <1>1. ASSUME NEW n \in Nat PROVE Upto(n, The(n))
    <2> DEFINE F == [p \in X \X (1..n) |-> H[p[1]]]
    <2>1. F \in [X \X (1..n) -> X]
      OBVIOUS
    <2>2. PICK g \in [0..n -> X] : GoesOn(g, base, F, n)
      <3> HIDE DEF F
      <3> QED
        BY <2>1, RecursionExists
    <2>3. ASSUME NEW k \in 1..n PROVE g[k] = H[g[k - 1]]
      <3>1. k - 1 \in 0..n
        OBVIOUS
      <3>2. g[k - 1] \in X
        BY <3>1
      <3>3. g[k] = F[<<g[k - 1], k>>]
        <4> HIDE DEF F
        <4> QED
          BY <2>2 DEF GoesOn
      <3> QED
        BY <3>2, <3>3
    <2>4. Upto(n, g)
      BY <2>2, <2>3 DEF GoesOn
    <2> HIDE DEF Upto
    <2> QED
      BY <2>4
  (* The functions up to n - 1 and up to n agree. *)
  <1>2. ASSUME NEW n \in Nat \ {0} PROVE The(n)[n - 1] = The(n - 1)[n - 1]
    <2> DEFINE a == The(n)
               b == The(n - 1)
               S == {k \in 0..n-1 : a[k] = b[k]}
    <2>1. n - 1 \in Nat /\ Upto(n, a) /\ Upto(n - 1, b)
      <3>1. n \in Nat /\ n - 1 \in Nat
        OBVIOUS
      <3> HIDE DEF Upto, The
      <3> QED
        BY <1>1, <3>1
    <2> HIDE DEF The, a, b
    <2>2. 0 \in S
      BY <2>1
    <2>3. ASSUME NEW k \in 0..(n-1)-1, k \in S PROVE k + 1 \in S
      <3>1. k + 1 \in 1..n /\ k + 1 \in 1..n-1 /\ (k + 1) - 1 = k /\ k + 1 \in 0..n-1
        OBVIOUS
      <3>2. a[k + 1] = H[a[k]] /\ b[k + 1] = H[b[k]]
        BY <2>1, <3>1
      <3> QED
        BY <2>3, <3>1, <3>2
    <2>4. n - 1 \in S
      <3>1. n - 1 \in 0..n-1
        OBVIOUS
      <3> HIDE DEF S
      <3> QED
        BY <2>1, <2>2, <2>3, <3>1, Induction
    <2> QED
      BY <2>4 DEF a, b
  <1>3. f \in [Nat -> X]
    <2>1. \A n \in Nat : The(n)[n] \in X
      <3> HIDE DEF The
      <3> QED
        BY <1>1
    <2> QED
      BY <2>1
  <1>4. f[0] = base
    <2> HIDE DEF The
    <2> QED
      BY <1>1
  <1>5. ASSUME NEW n \in Nat \ {0} PROVE f[n] = H[f[n - 1]]
    <2> HIDE DEF The
    <2>1. n \in 1..n /\ n - 1 \in Nat
      OBVIOUS
    <2>2. The(n)[n] = H[The(n)[n - 1]]
      BY <1>1, <2>1
    <2> QED
      BY <1>2, <2>1, <2>2
  <1> HIDE DEF f
  <1> QED
    BY <1>3, <1>4, <1>5

-----------------------------------------------------------------------------
(* FlattenSeq puts the parts one after the other.                            *)

LEMMA FlattenSteps ==
  ASSUME NEW X, NEW parts \in Seq(Seq(X))
  PROVE  \E g \in [0..Len(parts) -> Seq(X)] :
           /\ g[0] = <<>>
           /\ \A k \in 1..Len(parts) : g[k] = g[k - 1] \o parts[k]
           /\ FlattenSeq(parts) = g[Len(parts)]
  <1>1. PICK n : n = Len(parts)
    OBVIOUS
  <1> DEFINE F == [p \in Seq(X) \X (1..n) |-> p[1] \o parts[p[2]]]
             Body(f) == [i \in 1..n |-> IF i = 1 THEN parts[i] ELSE f[i - 1] \o parts[i]]
  <1>2. n \in Nat /\ \A k \in 1..n : parts[k] \in Seq(X)
    BY <1>1
  <1>3. <<>> \in Seq(X) /\ F \in [Seq(X) \X (1..n) -> Seq(X)]
    BY <1>2
  <1>4. PICK g \in [0..n -> Seq(X)] : GoesOn(g, <<>>, F, n)
    <2> HIDE DEF F
    <2> QED
      BY <1>2, <1>3, RecursionExists
  <1>5. g[0] = <<>> /\ \A k \in 1..n : g[k] = g[k - 1] \o parts[k]
    <2>1. \A k \in 1..n : g[k - 1] \in Seq(X)
      BY <1>2
    <2> QED
      BY <1>4, <2>1 DEF GoesOn
  <1> HIDE DEF F
  <1>6. 1 \in 1..n => g[1] = parts[1]
    <2> SUFFICES ASSUME 1 \in 1..n PROVE g[1] = parts[1]
      OBVIOUS
    <2>1. 1 - 1 = 0 /\ parts[1] \in Seq(X)
      BY <1>2
    <2>2. g[1] = <<>> \o parts[1]
      BY <1>5, <2>1
    <2>3. <<>> \o parts[1] = parts[1]
      BY <2>1
    <2> QED
      BY <2>2, <2>3
  <1> DEFINE f == [i \in 1..n |-> g[i]]
  <1>7. f = Body(f)
    <2>1. ASSUME NEW i \in 1..n PROVE g[i] = IF i = 1 THEN parts[i] ELSE f[i - 1] \o parts[i]
      <3>1. CASE i = 1
        BY <1>6, <3>1
      <3>2. CASE i # 1
        <4>1. i - 1 \in 1..n
          BY <1>2, <3>2
        <4> QED
          BY <1>5, <3>2, <4>1
      <3> QED
        BY <3>1, <3>2
    <2> QED
      BY <2>1
  <1> DEFINE it == CHOOSE f0 : f0 = Body(f0)
  <1>8. it = Body(it)
    BY <1>7
  <1>9. FlattenSeq(parts) = IF n = 0 THEN parts ELSE it[n]
    BY <1>1 DEF FlattenSeq
  <1>10. \A k \in 0..n : k # 0 => it[k] = g[k]
    <2> DEFINE S == {k \in 0..n : k # 0 => it[k] = g[k]}
    <2> HIDE DEF it, f
    <2>1. 0 \in S
      BY <1>2
    <2>2. ASSUME NEW k \in 0..n-1, k \in S PROVE k + 1 \in S
      <3>1. k + 1 \in 1..n /\ (k + 1) - 1 = k /\ k + 1 \in 0..n
        BY <1>2
      <3>2. it[k + 1] = IF k + 1 = 1 THEN parts[k + 1] ELSE it[k] \o parts[k + 1]
        BY <1>8, <3>1
      <3>3. g[k + 1] = g[k] \o parts[k + 1]
        BY <1>5, <3>1
      <3>4. CASE k = 0
        BY <1>6, <3>1, <3>2, <3>4
      <3>5. CASE k # 0
        <4>1. k + 1 # 1 /\ it[k] = g[k]
          BY <1>2, <2>2, <3>5
        <4>2. it[k + 1] = g[k + 1]
          BY <3>2, <3>3, <4>1
        <4> QED
          BY <3>1, <4>2
      <3> QED
        BY <3>4, <3>5
    <2>3. \A k \in 0..n : k \in S
      <3> HIDE DEF S
      <3> QED
        BY <1>2, <2>1, <2>2, Induction
    <2> QED
      BY <2>3
  <1>11. FlattenSeq(parts) = g[n]
    <2> HIDE DEF it, f
    <2>1. CASE n = 0
      <3>1. parts = <<>>
        BY <1>1, <2>1, EmptySeq
      <3> QED
        BY <1>5, <1>9, <2>1, <3>1
    <2>2. CASE n # 0
      BY <1>2, <1>9, <1>10, <2>2
    <2> QED
      BY <2>1, <2>2
  <1> QED
    BY <1>1, <1>5, <1>11

(* Parts of one element each put together are the sequence of the elements.  *)
LEMMA FlattenOfSingles ==
  ASSUME NEW X, NEW v \in Seq(X)
  PROVE  FlattenSeq([k \in 1..Len(v) |-> <<v[k]>>]) = v
  <1>1. PICK n : n = Len(v)
    OBVIOUS
  <1>2. n \in Nat /\ \A k \in 1..n : v[k] \in X
    BY <1>1
  <1>3. PICK parts : parts = [k \in 1..n |-> <<v[k]>>]
    OBVIOUS
  <1>4. parts \in Seq(Seq(X)) /\ Len(parts) = n
    BY <1>2, <1>3
  <1>5. PICK g \in [0..n -> Seq(X)] :
          /\ g[0] = <<>>
          /\ \A k \in 1..n : g[k] = g[k - 1] \o parts[k]
          /\ FlattenSeq(parts) = g[n]
    BY <1>4, FlattenSteps
  <1> DEFINE S == {m \in 0..n : g[m] = [j \in 1..m |-> v[j]]}
  <1>6. 0 \in S
    BY <1>2, <1>5
  <1>7. ASSUME NEW m \in 0..n-1, m \in S PROVE m + 1 \in S
    <2>1. m + 1 \in 1..n /\ (m + 1) - 1 = m /\ m \in Nat
      BY <1>2
    <2>2. g[m + 1] = g[m] \o <<v[m + 1]>>
      BY <1>3, <1>5, <2>1
    <2>3. PICK w : w = [j \in 1..m |-> v[j]]
      OBVIOUS
    <2>4. w \in Seq(X) /\ Len(w) = m /\ g[m] = w /\ <<v[m + 1]>> \in Seq(X)
      BY <1>2, <1>7, <2>1, <2>3
    <2>5. w \o <<v[m + 1]>> = [j \in 1..m+1 |-> v[j]]
      BY <2>1, <2>3, <2>4
    <2>6. g[m + 1] = [j \in 1..m+1 |-> v[j]] /\ m + 1 \in 0..n
      <3>1. g[m + 1] = w \o <<v[m + 1]>>
        BY <2>2, <2>4
      <3>2. m + 1 \in 0..n
        BY <2>1
      <3> QED
        BY <2>5, <3>1, <3>2
    <2> QED
      BY <2>6
  <1>8. n \in S
    <2>1. n \in 0..n
      BY <1>2
    <2> HIDE DEF S
    <2> QED
      BY <1>2, <1>6, <1>7, <2>1, Induction
  <1>9. [j \in 1..n |-> v[j]] = v
    BY <1>1
  <1> QED
    BY <1>1, <1>3, <1>5, <1>8, <1>9

(* The numbers from 1 to n, cut into m parts of s each, or what is left of    *)
(* them, and put together again.                                             *)
Numbers(n) == [k \in 1..n |-> k]
Chunk(n, s, k) == SubSeq(Numbers(n), (k - 1) * s + 1, Min({(k - 1) * s + s, n}))

LEMMA MinOfTwo ==
  ASSUME NEW a \in Nat, NEW b \in Nat
  PROVE  Min({a, b}) = IF a <= b THEN a ELSE b
  <1>1. Min({a, b}) \in {a, b} /\ \A y \in {a, b} : Min({a, b}) <= y
    <2>1. {a, b} \in SUBSET Nat /\ {a, b} # {}
      OBVIOUS
    <2> QED
      BY <2>1, MinOf
  <1> QED
    BY <1>1

Before(s, k) == (k - 1) * s
ChunkLength(n, s, k) ==
  LET at == Before(s, k) IN
  IF at >= n THEN 0 ELSE IF at + s <= n THEN s ELSE n - at

(* The sequence c is the length numbers that come after at.                  *)
Follows(c, at, length) ==
  /\ at \in Nat /\ length \in Nat
  /\ c \in Seq(Nat) /\ Len(c) = length
  /\ \A i \in 1..length : c[i] = at + i

LEMMA ChunkIs ==
  ASSUME NEW n \in Nat, NEW s \in Nat \ {0}, NEW k \in Nat \ {0}
  PROVE  Follows(Chunk(n, s, k), Before(s, k), ChunkLength(n, s, k))
  <1>1. PICK at : at = (k - 1) * s
    OBVIOUS
  <1>2. at \in Nat
    <2>1. k - 1 \in Nat
      OBVIOUS
    <2> QED
      BY <1>1, <2>1
  <1>3. PICK to : to = Min({at + s, n})
    OBVIOUS
  <1>4. to = IF at + s <= n THEN at + s ELSE n
    BY <1>2, <1>3, MinOfTwo
  <1>5. to \in Nat /\ to <= n
    BY <1>2, <1>4
  <1>6. \A i \in at + 1..to : Numbers(n)[i] \in Nat /\ Numbers(n)[i] = i
    BY <1>2, <1>5 DEF Numbers
  <1>7. Chunk(n, s, k) = SubSeq(Numbers(n), at + 1, to)
    BY <1>1, <1>3 DEF Chunk
  <1>8. /\ SubSeq(Numbers(n), at + 1, to) \in Seq(Nat)
        /\ Len(SubSeq(Numbers(n), at + 1, to)) = IF at + 1 <= to THEN to - (at + 1) + 1 ELSE 0
        /\ \A i \in 1..(to - (at + 1) + 1) :
             SubSeq(Numbers(n), at + 1, to)[i] = Numbers(n)[(at + 1) + i - 1]
    BY <1>2, <1>5, <1>6, SubSeqProperties, SMTT(30)
  <1>9. \A i \in 1..(to - at) : Chunk(n, s, k)[i] = at + i
    BY <1>2, <1>5, <1>6, <1>7, <1>8
  <1> DEFINE length == IF at >= n THEN 0 ELSE IF at + s <= n THEN s ELSE n - at
  <1>10. length = (IF at + 1 <= to THEN to - (at + 1) + 1 ELSE 0) /\ (length # 0 => length = to - at)
    BY <1>2, <1>4
  <1>11. Len(Chunk(n, s, k)) = length
    BY <1>7, <1>8, <1>10
  <1>12. \A i \in 1..length : Chunk(n, s, k)[i] = at + i
    BY <1>9, <1>10
  <1>13. length \in Nat /\ Chunk(n, s, k) \in Seq(Nat)
    BY <1>2, <1>7, <1>8
  <1>14. at = Before(s, k) /\ length = ChunkLength(n, s, k)
    BY <1>1 DEF Before, ChunkLength
  <1> HIDE DEF length
  <1>15. Follows(Chunk(n, s, k), at, length)
    BY <1>2, <1>11, <1>12, <1>13 DEF Follows
  <1> QED
    BY <1>14, <1>15

LEMMA NextChunkIs ==
  ASSUME NEW n \in Nat, NEW s \in Nat \ {0}, NEW k \in Nat
  PROVE  Follows(Chunk(n, s, k + 1), Before(s, k + 1), ChunkLength(n, s, k + 1))
  <1>1. PICK j : j = k + 1
    OBVIOUS
  <1>2. j \in Nat \ {0}
    BY <1>1
  <1>3. Follows(Chunk(n, s, j), Before(s, j), ChunkLength(n, s, j))
    BY <1>2, ChunkIs
  <1> QED
    BY <1>1, <1>3

LEMMA NumbersGoOn ==
  ASSUME NEW u \in Nat, NEW length \in Nat, NEW c \in Seq(Nat), Len(c) = length,
         \A i \in 1..length : c[i] = u + i
  PROVE  Numbers(u) \o c = Numbers(u + length)
  <1>1. PICK v : v = Numbers(u)
    OBVIOUS
  <1>2. v \in Seq(Nat) /\ Len(v) = u /\ \A i \in 1..u : v[i] = i
    BY <1>1 DEF Numbers
  <1>3. /\ v \o c \in Seq(Nat)
        /\ Len(v \o c) = u + length
        /\ \A i \in 1..u + length : (v \o c)[i] = IF i <= u THEN v[i] ELSE c[i - u]
    <2>1. v \o c \in Seq(Nat) /\ Len(v \o c) = u + length
      BY <1>2, ConcatProperties
    <2>2. \A i \in 1..Len(v) + Len(c) : (v \o c)[i] = IF i <= Len(v) THEN v[i] ELSE c[i - Len(v)]
      BY <1>2, ConcatProperties
    <2> QED
      BY <1>2, <2>1, <2>2
  <1>4. ASSUME NEW i \in 1..u + length PROVE (v \o c)[i] = i
    <2>1. CASE i <= u
      BY <1>2, <1>3, <2>1
    <2>2. CASE ~ (i <= u)
      <3>1. i - u \in 1..length
        BY <2>2
      <3>2. c[i - u] = u + (i - u)
        BY <3>1
      <3> QED
        BY <1>3, <2>2, <3>1, <3>2
    <2> QED
      BY <2>1, <2>2
  <1>5. PICK w : w = v \o c
    OBVIOUS
  <1>6. w \in Seq(Nat) /\ Len(w) = u + length /\ \A i \in 1..u + length : w[i] = i
    BY <1>3, <1>4, <1>5
  <1>7. w = [i \in 1..u + length |-> i]
    BY <1>6
  <1> QED
    BY <1>1, <1>5, <1>7 DEF Numbers

Upto(n, s, k) == IF k * s <= n THEN k * s ELSE n

LEMMA UptoGoesOn ==
  ASSUME NEW n \in Nat, NEW s \in Nat \ {0}, NEW k \in Nat
  PROVE  LET length == ChunkLength(n, s, k + 1)
             u == Upto(n, s, k)
         IN  /\ u \in Nat
             /\ u + length = Upto(n, s, k + 1)
             /\ length # 0 => u = Before(s, k + 1)
  <1>1. PICK at : at = k * s
    OBVIOUS
  <1>2. at \in Nat /\ (k + 1) * s = at + s /\ ((k + 1) - 1) * s = at
    BY <1>1
  <1>3. /\ Before(s, k + 1) = at
        /\ Upto(n, s, k) = IF at <= n THEN at ELSE n
        /\ Upto(n, s, k + 1) = IF at + s <= n THEN at + s ELSE n
        /\ ChunkLength(n, s, k + 1) = IF at >= n THEN 0 ELSE IF at + s <= n THEN s ELSE n - at
    BY <1>1, <1>2 DEF Before, Upto, ChunkLength
  <1> QED
    BY <1>2, <1>3

LEMMA ChunksUpto ==
  ASSUME NEW n \in Nat, NEW s \in Nat \ {0}, NEW m \in Nat
  PROVE  FlattenSeq([k \in 1..m |-> Chunk(n, s, k)]) = Numbers(Upto(n, s, m))
  <1>1. PICK parts : parts = [k \in 1..m |-> Chunk(n, s, k)]
    OBVIOUS
  <1>2. \A k \in 1..m : Chunk(n, s, k) \in Seq(Nat)
    <2>1. \A k \in 1..m : k \in Nat \ {0}
      OBVIOUS
    <2> QED
      BY <2>1, ChunkIs DEF Follows
  <1>3. parts \in Seq(Seq(Nat)) /\ Len(parts) = m
    BY <1>1, <1>2
  <1>4. PICK g \in [0..m -> Seq(Nat)] :
          /\ g[0] = <<>>
          /\ \A k \in 1..m : g[k] = g[k - 1] \o parts[k]
          /\ FlattenSeq(parts) = g[m]
    BY <1>3, FlattenSteps
  <1> DEFINE S == {k \in 0..m : g[k] = Numbers(Upto(n, s, k))}
  <1>5. 0 \in S
    BY <1>4 DEF Numbers, Upto
  <1>6. ASSUME NEW k \in 0..m-1, k \in S PROVE k + 1 \in S
    <2>1. k + 1 \in 1..m /\ (k + 1) - 1 = k /\ k \in Nat /\ k + 1 \in Nat \ {0}
      OBVIOUS
    <2> HIDE DEF S
    <2>2. PICK at : at = Before(s, k + 1)
      OBVIOUS
    <2>3. PICK length : length = ChunkLength(n, s, k + 1)
      OBVIOUS
    <2>4. PICK c : c = Chunk(n, s, k + 1)
      OBVIOUS
    <2>5. /\ at \in Nat /\ length \in Nat
          /\ c \in Seq(Nat) /\ Len(c) = length
          /\ \A i \in 1..length : c[i] = at + i
      <3>1. Follows(Chunk(n, s, k + 1), Before(s, k + 1), ChunkLength(n, s, k + 1))
        BY <2>1, NextChunkIs
      <3>2. Follows(c, at, length)
        BY <2>2, <2>3, <2>4, <3>1
      <3> QED
        BY <3>2 DEF Follows
    <2>6. g[k + 1] = g[k] \o c
      <3>1. g[k + 1] = g[(k + 1) - 1] \o parts[k + 1]
        BY <1>4, <2>1
      <3>2. parts[k + 1] = Chunk(n, s, k + 1)
        BY <1>1, <2>1
      <3> QED
        BY <2>1, <2>4, <3>1, <3>2
    <2>7. PICK u : u = Upto(n, s, k)
      OBVIOUS
    <2>8. u \in Nat /\ u + length = Upto(n, s, k + 1) /\ (length # 0 => u = at)
      <3>1. k \in Nat
        BY <2>1
      <3>2. Upto(n, s, k) \in Nat
        BY <3>1, UptoGoesOn
      <3>3. Upto(n, s, k) + ChunkLength(n, s, k + 1) = Upto(n, s, k + 1)
        BY <3>1, UptoGoesOn
      <3>4. ChunkLength(n, s, k + 1) # 0 => Upto(n, s, k) = Before(s, k + 1)
        BY <3>1, UptoGoesOn
      <3> QED
        BY <2>2, <2>3, <2>7, <3>2, <3>3, <3>4
    <2>9. g[k] = Numbers(u)
      BY <1>6, <2>7 DEF S
    <2>10. Numbers(u) \o c = Numbers(u + length)
      <3>1. ASSUME NEW i \in 1..length PROVE c[i] = u + i
        <4>1. length # 0
          BY <2>5
        <4> QED
          BY <2>5, <2>8, <4>1
      <3> QED
        BY <2>5, <2>8, <3>1, NumbersGoOn
    <2>11. g[k + 1] = Numbers(Upto(n, s, k + 1)) /\ k + 1 \in 0..m
      BY <2>1, <2>6, <2>8, <2>9, <2>10
    <2> QED
      BY <2>11 DEF S
  <1>7. m \in S
    <2>1. m \in 0..m
      OBVIOUS
    <2> HIDE DEF S
    <2> QED
      BY <1>5, <1>6, <2>1, Induction
  <1> QED
    BY <1>1, <1>4, <1>7

LEMMA ChunksTile ==
  ASSUME NEW n \in Nat, NEW s \in Nat \ {0}, NEW m \in Nat, m * s >= n
  PROVE  FlattenSeq([k \in 1..m |-> Chunk(n, s, k)]) = Numbers(n)
  <1>1. Upto(n, s, m) = n
    BY DEF Upto
  <1> QED
    BY <1>1, ChunksUpto
-----------------------------------------------------------------------------
(* PushTokenSplitter *)

Group == [apns : 0..2, voip : 0..2, fcm : 0..2, isSandBox : 0..2]

LEMMA PutType ==
  ASSUME NEW group \in Group, NEW element \in Element
  PROVE  Put(group, element) \in Group
  BY DEF Group, Element, Marks, Put, Value, Slot

LEMMA SplitSteps ==
  ASSUME NEW list \in Seq(Element)
  PROVE  \E g \in [0..Len(list) -> Group] :
           /\ g[0] = NoTokens
           /\ \A k \in 1..Len(list) : g[k] = Put(g[k - 1], list[k])
           /\ Split(list) = g[Len(list)]
  <1> DEFINE n == Len(list)
             Body(f) == [t \in SUBSET (1..n) |->
                           IF t = {} THEN NoTokens ELSE Put(f[t \ {Max(t)}], list[Max(t)])]
             F == [p \in Group \X (1..n) |-> Put(p[1], list[p[2]])]
  <1>1. n \in Nat /\ DOMAIN list = 1..n /\ \A k \in 1..n : list[k] \in Element
    OBVIOUS
  <1>2. NoTokens \in Group /\ F \in [Group \X (1..n) -> Group]
    <2>1. NoTokens \in Group
      BY DEF Group, NoTokens
    <2>2. ASSUME NEW p \in Group \X (1..n) PROVE Put(p[1], list[p[2]]) \in Group
      <3>1. p[1] \in Group /\ list[p[2]] \in Element
        BY <1>1
      <3> QED
        BY <3>1, PutType
    <2> QED
      BY <2>1, <2>2
  <1>3. PICK f \in [SUBSET (1..n) -> Group] : FoldsOver(f, NoTokens, F, n)
    <2> HIDE DEF F, n
    <2> QED
      BY <1>1, <1>2, FoldExists
  <1>4. f = Body(f)
    <2>1. ASSUME NEW t \in SUBSET (1..n) PROVE f[t] = Body(f)[t]
      <3>1. CASE t = {}
        BY <1>3, <3>1 DEF FoldsOver
      <3>2. CASE t # {}
        <4>1. Max(t) \in 1..n
          <5>1. t \in SUBSET (0..n)
            OBVIOUS
          <5>2. Max(t) \in t
            BY <1>1, <3>2, <5>1, MaxOf
          <5> QED
            BY <5>2
        <4>2. t \ {Max(t)} \in SUBSET (1..n)
          OBVIOUS
        <4> QED
          BY <1>3, <3>2, <4>1, <4>2 DEF FoldsOver
      <3> QED
        BY <3>1, <3>2
    <2> HIDE DEF F
    <2> QED
      BY <2>1
  <1> DEFINE it == CHOOSE f0 : f0 = Body(f0)
  <1>5. it = Body(it)
    BY <1>4
  <1>6. Split(list) = it[1..n]
    BY <1>1 DEF Split, FoldLeft, MapThenFoldSet
  <1> DEFINE g == [k \in 0..n |-> it[1..k]]
  <1>7. ASSUME NEW k \in 1..n PROVE it[1..k] = Put(it[1..(k - 1)], list[k])
    <2> HIDE DEF it
    <2>1. \A t \in SUBSET (1..n) : t # {} => it[t] = Put(it[t \ {Max(t)}], list[Max(t)])
      BY <1>5
    <2> HIDE DEF Body, n
    <2>2. PICK t : t = 1..k
      OBVIOUS
    <2>3. t \in SUBSET (1..n) /\ t # {} /\ Max(t) = k /\ t \ {k} = 1..(k - 1)
      BY <1>1, <2>2, FoldOfPrefix
    <2> QED
      BY <2>1, <2>2, <2>3
  <1>8. it[1..0] = NoTokens
    <2> HIDE DEF it
    <2>1. {} \in SUBSET (1..n) /\ 1..0 = {}
      OBVIOUS
    <2> QED
      BY <1>5, <2>1
  <1>9. n \in 0..n /\ g[0] = NoTokens /\ Split(list) = g[n]
    <2> HIDE DEF it, n
    <2> QED
      BY <1>1, <1>6, <1>8
  <1>10. ASSUME NEW k \in 1..n PROVE g[k] = Put(g[k - 1], list[k])
    <2> HIDE DEF it, n
    <2>1. k \in 0..n /\ k - 1 \in 0..n
      BY <1>1
    <2> QED
      BY <1>7, <2>1
  <1>11. g \in [0..n -> Group]
    <2> DEFINE S == {k \in 0..n : g[k] \in Group}
    <2> HIDE DEF g, n
    <2>1. 0 \in S
      BY <1>1, <1>2, <1>9
    <2>2. ASSUME NEW k \in 0..n-1, k \in S PROVE k + 1 \in S
      <3>1. k + 1 \in 1..n /\ (k + 1) - 1 = k /\ g[k] \in Group
        BY <1>1, <2>2
      <3>2. g[k + 1] = Put(g[k], list[k + 1])
        BY <1>10, <3>1
      <3> QED
        BY <1>1, <3>1, <3>2, PutType
    <2> HIDE DEF S
    <2>3. \A k \in 0..n : k \in S
      BY <1>1, <2>1, <2>2, Induction
    <2> USE DEF S, g
    <2> QED
      BY <2>3
  <1> HIDE DEF it, g, n
  <1>12. \A k \in 1..n : g[k] = Put(g[k - 1], list[k])
    BY <1>10
  <1>13. Len(list) = n
    BY DEF n
  <1> QED
    BY <1>9, <1>11, <1>12, <1>13

(* Of each kind the last element counts.                                     *)
LEMMA SplitKeepsLast ==
  ASSUME NEW list \in Seq(Element), NEW slot \in DOMAIN NoTokens
  PROVE  LET of == {k \in DOMAIN list : Slot(list[k].mark) = slot} IN
         Split(list)[slot] = IF of = {} THEN 0 ELSE Value(list[Max(of)])
  <1> DEFINE n == Len(list)
             Of(k) == {j \in 1..k : Slot(list[j].mark) = slot}
             Kept(k) == IF Of(k) = {} THEN 0 ELSE Value(list[Max(Of(k))])
  <1> SUFFICES Split(list)[slot] = Kept(n)
    <2>1. DOMAIN list = 1..n
      OBVIOUS
    <2> QED
      BY <2>1
  <1>1. PICK g \in [0..n -> Group] :
          /\ g[0] = NoTokens
          /\ \A k \in 1..n : g[k] = Put(g[k - 1], list[k])
          /\ Split(list) = g[n]
    BY SplitSteps
  <1>2. n \in Nat /\ \A k \in 1..n : list[k] \in Element
    OBVIOUS
  <1>3. slot \in {"apns", "voip", "fcm", "isSandBox"}
    BY DEF NoTokens
  <1> DEFINE S == {k \in 0..n : g[k][slot] = Kept(k)}
  <1>4. 0 \in S
    <2>1. Of(0) = {}
      OBVIOUS
    <2> QED
      BY <1>1, <1>2, <1>3, <2>1 DEF NoTokens
  <1>5. ASSUME NEW k \in 0..n-1, k \in S PROVE k + 1 \in S
    <2> HIDE DEF n
    <2>1. k + 1 \in 1..n /\ k + 1 \in 0..n /\ (k + 1) - 1 = k /\ k \in Nat
      BY <1>2
    <2>2. g[k + 1] = [g[k] EXCEPT ![Slot(list[k + 1].mark)] = Value(list[k + 1])]
      BY <1>1, <2>1 DEF Put
    <2>3. g[k] \in Group /\ slot \in DOMAIN g[k]
      BY <1>2, <1>1, <1>3 DEF Group
    <2>4. CASE Slot(list[k + 1].mark) = slot
      <3>1. k + 1 \in Of(k + 1) /\ Of(k + 1) \in SUBSET (0..k + 1)
        BY <2>1, <2>4
      <3>2. Max(Of(k + 1)) \in Of(k + 1) /\ \A y \in Of(k + 1) : Max(Of(k + 1)) >= y
        <4>1. PICK T : T = Of(k + 1)
          OBVIOUS
        <4>2. T \in SUBSET (0..k + 1) /\ T # {} /\ k + 1 \in Nat
          BY <2>1, <3>1, <4>1
        <4> HIDE DEF Of, S
        <4> QED
          BY <4>1, <4>2, MaxOf
      <3>3. Max(Of(k + 1)) = k + 1
        <4>1. Max(Of(k + 1)) \in 1..k+1 /\ Max(Of(k + 1)) >= k + 1
          BY <3>1, <3>2
        <4> QED
          BY <2>1, <4>1
      <3>4. Kept(k + 1) = Value(list[k + 1])
        <4> HIDE DEF Of
        <4> QED
          BY <3>1, <3>3
      <3>5. g[k + 1][slot] = Value(list[k + 1])
        BY <2>2, <2>3, <2>4
      <3> HIDE DEF Kept
      <3> QED
        BY <2>1, <3>4, <3>5
    <2>5. CASE Slot(list[k + 1].mark) # slot
      <3>1. Of(k + 1) = Of(k)
        BY <2>1, <2>5
      <3>2. Kept(k + 1) = Kept(k)
        <4> HIDE DEF Of
        <4> QED
          BY <3>1
      <3>3. g[k + 1][slot] = g[k][slot]
        BY <2>2, <2>3, <2>5
      <3> HIDE DEF Kept
      <3> QED
        BY <1>5, <2>1, <3>2, <3>3
    <2> QED
      BY <2>4, <2>5
  <1>6. n \in S
    <2>1. n \in 0..n
      BY <1>2
    <2> HIDE DEF S, n
    <2> QED
      BY <2>1, <1>2, <1>4, <1>5, Induction
  <1> QED
    BY <1>1, <1>6 DEF S

-----------------------------------------------------------------------------
(* HashCodeGenerator *)

HashOver(s) == FoldLeft(Step, 0, s)
SumOf(s) == FoldLeft(+, 0, s)

Congruent(x, y) == \E q \in Int : x = y + q * Modulus

LEMMA SignedProperties ==
  ASSUME NEW x \in Int
  PROVE  /\ Signed(x) \in Int
         /\ Congruent(Signed(x), x)
         /\ \A y \in Int : Congruent(x, y) => Signed(x) = Signed(y)
         /\ Signed(Signed(x)) = Signed(x)
  <1>1. PICK M, H : M = Modulus /\ H = Modulus \div 2
    OBVIOUS
  <1>2. M \in Nat \ {0} /\ H \in Nat
    BY <1>1, ModulusAssumption
  <1>3. ASSUME NEW y \in Int PROVE Signed(y) = ((y + H) % M) - H
    BY <1>1 DEF Signed
  <1>4. ASSUME NEW y \in Int
        PROVE  \E q \in Int : y + H = q * M + ((y + H) % M) /\ (y + H) % M \in 0..M-1
    <2>1. PICK z : z = y + H /\ z \in Int
      BY <1>2
    <2>2. z = M * (z \div M) + (z % M) /\ z \div M \in Int /\ (z % M) \in 0..M-1
      BY <1>2, <2>1
    <2>3. z = (z \div M) * M + (z % M)
      BY <1>2, <2>2
    <2> QED
      BY <2>1, <2>2, <2>3
  <1>5. ASSUME NEW y \in Int PROVE Signed(y) \in Int /\ Congruent(Signed(y), y)
    <2>1. PICK q \in Int : y + H = q * M + ((y + H) % M) /\ (y + H) % M \in 0..M-1
      BY <1>4
    <2>2. Signed(y) \in Int /\ Signed(y) = y + (0 - q) * M /\ 0 - q \in Int
      <3>1. PICK r : r = (y + H) % M
        OBVIOUS
      <3>2. PICK p : p = q * M
        OBVIOUS
      <3>3. p \in Int /\ (0 - q) * M = 0 - p
        BY <1>2, <3>2
      <3>4. Signed(y) = r - H /\ r \in Int /\ y + H = p + r
        BY <1>2, <1>3, <2>1, <3>1, <3>2
      <3> QED
        BY <1>2, <3>3, <3>4
    <2> QED
      BY <1>1, <2>2 DEF Congruent
  <1>6. ASSUME NEW y \in Int, NEW z \in Int, Congruent(y, z) PROVE Signed(y) = Signed(z)
    <2>1. PICK q \in Int : y = z + q * M
      BY <1>1, <1>6 DEF Congruent
    <2>2. PICK p \in Int : z + H = p * M + ((z + H) % M) /\ (z + H) % M \in 0..M-1
      BY <1>4
    <2>3. PICK r : r = (z + H) % M
      OBVIOUS
    <2>4. y + H = (p + q) * M + r /\ r \in 0..M-1 /\ p + q \in Int
      <3>1. PICK s, t : s = p * M /\ t = q * M
        OBVIOUS
      <3>2. s \in Int /\ t \in Int /\ (p + q) * M = s + t
        BY <1>2, <3>1
      <3>3. r \in 0..M-1 /\ z + H = s + r /\ y = z + t
        BY <2>1, <2>2, <2>3, <3>1
      <3> QED
        BY <1>2, <3>2, <3>3
    <2>5. ((p + q) * M + r) % M = r
      BY <1>2, <2>4
    <2> QED
      BY <1>3, <2>3, <2>4, <2>5
  <1> QED
    BY <1>5, <1>6

LEMMA StepType ==
  ASSUME NEW hash \in Int, NEW char \in Nat
  PROVE  Step(hash, char) \in Int
  <1>1. Code(char) \in Nat
    BY DEF Code
  <1>2. PICK u : u = Signed(32 * hash)
    OBVIOUS
  <1>3. PICK v : v = u - hash + Code(char)
    OBVIOUS
  <1>4. u \in Int
    BY <1>2, SignedProperties
  <1>5. v \in Int /\ Step(hash, char) = Signed(v)
    BY <1>1, <1>2, <1>3, <1>4 DEF Step
  <1> QED
    BY <1>5, SignedProperties

LEMMA StepIs ==
  ASSUME NEW hash \in Int, NEW char \in Nat
  PROVE  /\ Step(hash, char) \in Int
         /\ Code(char) \in Nat
         /\ \E q \in Int : Step(hash, char) = 31 * hash + Code(char) + q * Modulus
         /\ Signed(Step(hash, char)) = Step(hash, char)
  <1>1. PICK M, c : M = Modulus /\ c = Code(char)
    OBVIOUS
  <1>2. M \in Nat /\ c \in Nat
    BY <1>1, ModulusAssumption DEF Code
  <1>3. PICK u : u = Signed(32 * hash)
    OBVIOUS
  <1>4. u \in Int /\ \E q \in Int : u = 32 * hash + q * M
    BY <1>1, <1>3, SignedProperties DEF Congruent
  <1>5. PICK v : v = u - hash + c
    OBVIOUS
  <1>6. v \in Int /\ Step(hash, char) = Signed(v)
    BY <1>1, <1>2, <1>3, <1>4, <1>5 DEF Step
  <1>7. Signed(v) \in Int /\ (\E q \in Int : Signed(v) = v + q * M) /\ Signed(Signed(v)) = Signed(v)
    BY <1>1, <1>6, SignedProperties DEF Congruent
  <1>8. PICK q \in Int, p \in Int : u = 32 * hash + q * M /\ Signed(v) = v + p * M
    BY <1>4, <1>7
  <1>9. Signed(v) = 31 * hash + c + (q + p) * M /\ q + p \in Int
    BY <1>2, <1>5, <1>6, <1>7, <1>8
  <1> QED
    BY <1>1, <1>2, <1>6, <1>7, <1>9

LEMMA HashSteps ==
  ASSUME NEW list \in Seq(Nat)
  PROVE  \E g \in [0..Len(list) -> Int] :
           /\ g[0] = 0
           /\ \A k \in 1..Len(list) : g[k] = Step(g[k - 1], list[k])
           /\ HashOver(list) = g[Len(list)]
  <1> DEFINE n == Len(list)
             Body(f) == [t \in SUBSET (1..n) |->
                           IF t = {} THEN 0 ELSE Step(f[t \ {Max(t)}], list[Max(t)])]
             F == [p \in Int \X (1..n) |-> Step(p[1], list[p[2]])]
  <1>1. n \in Nat /\ DOMAIN list = 1..n /\ \A k \in 1..n : list[k] \in Nat
    OBVIOUS
  <1>2. 0 \in Int /\ F \in [Int \X (1..n) -> Int]
    <2>1. ASSUME NEW p \in Int \X (1..n) PROVE Step(p[1], list[p[2]]) \in Int
      <3>1. PICK h, c : h = p[1] /\ c = list[p[2]]
        OBVIOUS
      <3>2. h \in Int /\ c \in Nat
        BY <1>1, <3>1
      <3>3. Step(h, c) \in Int
        BY <3>2, StepType
      <3> QED
        BY <3>1, <3>3
    <2> QED
      BY <2>1
  <1>3. PICK f \in [SUBSET (1..n) -> Int] : FoldsOver(f, 0, F, n)
    <2> HIDE DEF F, n
    <2> QED
      BY <1>1, <1>2, FoldExists
  <1>4. f = Body(f)
    <2>1. ASSUME NEW t \in SUBSET (1..n) PROVE f[t] = Body(f)[t]
      <3>1. CASE t = {}
        BY <1>3, <3>1 DEF FoldsOver
      <3>2. CASE t # {}
        <4>1. Max(t) \in 1..n
          <5>1. t \in SUBSET (0..n)
            OBVIOUS
          <5>2. Max(t) \in t
            BY <1>1, <3>2, <5>1, MaxOf
          <5> QED
            BY <5>2
        <4>2. t \ {Max(t)} \in SUBSET (1..n)
          OBVIOUS
        <4> QED
          BY <1>3, <3>2, <4>1, <4>2 DEF FoldsOver
      <3> QED
        BY <3>1, <3>2
    <2> HIDE DEF F
    <2> QED
      BY <2>1
  <1> DEFINE it == CHOOSE f0 : f0 = Body(f0)
  <1>5. it = Body(it)
    BY <1>4
  <1>6. HashOver(list) = it[1..n]
    BY <1>1 DEF HashOver, FoldLeft, MapThenFoldSet
  <1> DEFINE g == [k \in 0..n |-> it[1..k]]
  <1>7. ASSUME NEW k \in 1..n PROVE it[1..k] = Step(it[1..(k - 1)], list[k])
    <2> HIDE DEF it
    <2>1. \A t \in SUBSET (1..n) : t # {} => it[t] = Step(it[t \ {Max(t)}], list[Max(t)])
      BY <1>5
    <2> HIDE DEF Body, n
    <2>2. PICK t : t = 1..k
      OBVIOUS
    <2>3. t \in SUBSET (1..n) /\ t # {} /\ Max(t) = k /\ t \ {k} = 1..(k - 1)
      BY <1>1, <2>2, FoldOfPrefix
    <2> QED
      BY <2>1, <2>2, <2>3
  <1>8. it[1..0] = 0
    <2> HIDE DEF it
    <2>1. {} \in SUBSET (1..n) /\ 1..0 = {}
      OBVIOUS
    <2> QED
      BY <1>5, <2>1
  <1>9. n \in 0..n /\ g[0] = 0 /\ HashOver(list) = g[n]
    <2> HIDE DEF it, n
    <2> QED
      BY <1>1, <1>6, <1>8
  <1>10. ASSUME NEW k \in 1..n PROVE g[k] = Step(g[k - 1], list[k])
    <2> HIDE DEF it, n
    <2>1. k \in 0..n /\ k - 1 \in 0..n
      BY <1>1
    <2> QED
      BY <1>7, <2>1
  <1>11. g \in [0..n -> Int]
    <2> DEFINE S == {k \in 0..n : g[k] \in Int}
    <2> HIDE DEF g, n
    <2>1. 0 \in S
      BY <1>1, <1>2, <1>9
    <2>2. ASSUME NEW k \in 0..n-1, k \in S PROVE k + 1 \in S
      <3>1. k + 1 \in 1..n /\ (k + 1) - 1 = k /\ g[k] \in Int
        BY <1>1, <2>2
      <3>2. g[k + 1] = Step(g[k], list[k + 1])
        BY <1>10, <3>1
      <3> QED
        <4>1. PICK h, c : h = g[k] /\ c = list[k + 1]
          OBVIOUS
        <4>2. h \in Int /\ c \in Nat
          BY <1>1, <3>1, <4>1
        <4>3. Step(h, c) \in Int
          BY <4>2, StepType
        <4>4. k + 1 \in 0..n /\ g[k + 1] \in Int
          BY <1>1, <3>1, <3>2, <4>1, <4>3
        <4> QED
          BY <4>4
    <2> HIDE DEF S
    <2>3. \A k \in 0..n : k \in S
      BY <1>1, <2>1, <2>2, Induction
    <2> USE DEF S, g
    <2> QED
      BY <2>3
  <1> HIDE DEF it, g, n
  <1>12. \A k \in 1..n : g[k] = Step(g[k - 1], list[k])
    BY <1>10
  <1>13. Len(list) = n
    BY DEF n
  <1> QED
    BY <1>9, <1>11, <1>12, <1>13

LEMMA SumSteps ==
  ASSUME NEW list \in Seq(Nat)
  PROVE  \E g \in [0..Len(list) -> Nat] :
           /\ g[0] = 0
           /\ \A k \in 1..Len(list) : g[k] = g[k - 1] + list[k]
           /\ SumOf(list) = g[Len(list)]
  <1> DEFINE n == Len(list)
             Body(f) == [t \in SUBSET (1..n) |->
                           IF t = {} THEN 0 ELSE f[t \ {Max(t)}] + list[Max(t)]]
             F == [p \in Nat \X (1..n) |-> p[1] + list[p[2]]]
  <1>1. n \in Nat /\ DOMAIN list = 1..n /\ \A k \in 1..n : list[k] \in Nat
    OBVIOUS
  <1>2. 0 \in Nat /\ F \in [Nat \X (1..n) -> Nat]
    BY <1>1
  <1>3. PICK f \in [SUBSET (1..n) -> Nat] : FoldsOver(f, 0, F, n)
    <2> HIDE DEF F, n
    <2> QED
      BY <1>1, <1>2, FoldExists
  <1>4. f = Body(f)
    <2>1. ASSUME NEW t \in SUBSET (1..n) PROVE f[t] = Body(f)[t]
      <3>1. CASE t = {}
        BY <1>3, <3>1 DEF FoldsOver
      <3>2. CASE t # {}
        <4>1. Max(t) \in 1..n
          <5>1. t \in SUBSET (0..n)
            OBVIOUS
          <5>2. Max(t) \in t
            BY <1>1, <3>2, <5>1, MaxOf
          <5> QED
            BY <5>2
        <4>2. t \ {Max(t)} \in SUBSET (1..n)
          OBVIOUS
        <4> QED
          BY <1>3, <3>2, <4>1, <4>2 DEF FoldsOver
      <3> QED
        BY <3>1, <3>2
    <2> HIDE DEF F
    <2> QED
      BY <2>1
  <1> DEFINE it == CHOOSE f0 : f0 = Body(f0)
  <1>5. it = Body(it)
    BY <1>4
  <1>6. SumOf(list) = it[1..n]
    BY <1>1 DEF SumOf, FoldLeft, MapThenFoldSet
  <1> DEFINE g == [k \in 0..n |-> it[1..k]]
  <1>7. ASSUME NEW k \in 1..n PROVE it[1..k] = it[1..(k - 1)] + list[k]
    <2> HIDE DEF it
    <2>1. \A t \in SUBSET (1..n) : t # {} => it[t] = it[t \ {Max(t)}] + list[Max(t)]
      BY <1>5
    <2> HIDE DEF Body, n
    <2>2. PICK t : t = 1..k
      OBVIOUS
    <2>3. t \in SUBSET (1..n) /\ t # {} /\ Max(t) = k /\ t \ {k} = 1..(k - 1)
      BY <1>1, <2>2, FoldOfPrefix
    <2> QED
      BY <2>1, <2>2, <2>3
  <1>8. it[1..0] = 0
    <2> HIDE DEF it
    <2>1. {} \in SUBSET (1..n) /\ 1..0 = {}
      OBVIOUS
    <2> QED
      BY <1>5, <2>1
  <1>9. n \in 0..n /\ g[0] = 0 /\ SumOf(list) = g[n]
    <2> HIDE DEF it, n
    <2> QED
      BY <1>1, <1>6, <1>8
  <1>10. ASSUME NEW k \in 1..n PROVE g[k] = g[k - 1] + list[k]
    <2> HIDE DEF it, n
    <2>1. k \in 0..n /\ k - 1 \in 0..n
      BY <1>1
    <2> QED
      BY <1>7, <2>1
  <1>11. g \in [0..n -> Nat]
    <2> DEFINE S == {k \in 0..n : g[k] \in Nat}
    <2> HIDE DEF g, n
    <2>1. 0 \in S
      BY <1>1, <1>2, <1>9
    <2>2. ASSUME NEW k \in 0..n-1, k \in S PROVE k + 1 \in S
      <3>1. k + 1 \in 1..n /\ (k + 1) - 1 = k /\ g[k] \in Nat
        BY <1>1, <2>2
      <3>2. g[k + 1] = g[k] + list[k + 1]
        BY <1>10, <3>1
      <3> QED
        BY <1>1, <3>1, <3>2
    <2> HIDE DEF S
    <2>3. \A k \in 0..n : k \in S
      BY <1>1, <2>1, <2>2, Induction
    <2> USE DEF S, g
    <2> QED
      BY <2>3
  <1> HIDE DEF it, g, n
  <1>12. \A k \in 1..n : g[k] = g[k - 1] + list[k]
    BY <1>10
  <1>13. Len(list) = n
    BY DEF n
  <1> QED
    BY <1>9, <1>11, <1>12, <1>13

LEMMA PowerOf31Is ==
  /\ PowerOf31 \in [Nat -> Nat]
  /\ PowerOf31[0] = 1
  /\ \A n \in Nat \ {0} : \E q \in Int : 31 * PowerOf31[n - 1] = PowerOf31[n] + q * Modulus
  <1> DEFINE H == [x \in Nat |-> (31 * x) % Modulus]
             Body(f) == [n \in Nat |-> IF n = 0 THEN 1 ELSE (31 * f[n - 1]) % Modulus]
  <1>1. H \in [Nat -> Nat]
    BY ModulusAssumption
  <1>2. PICK f \in [Nat -> Nat] : f[0] = 1 /\ \A n \in Nat \ {0} : f[n] = H[f[n - 1]]
    <2>1. 1 \in Nat
      OBVIOUS
    <2>2. PICK X, b : X = Nat /\ b = 1
      OBVIOUS
    <2> HIDE DEF H
    <2>3. b \in X /\ H \in [X -> X]
      BY <1>1, <2>1, <2>2
    <2>4. \E f \in [Nat -> X] : f[0] = b /\ \A n \in Nat \ {0} : f[n] = H[f[n - 1]]
      BY <2>3, RecursionOverNat
    <2> QED
      BY <2>2, <2>4
  <1>3. \A n \in Nat \ {0} : f[n - 1] \in Nat /\ f[n] = (31 * f[n - 1]) % Modulus
    <2>1. ASSUME NEW n \in Nat \ {0} PROVE f[n - 1] \in Nat /\ f[n] = H[f[n - 1]]
      <3> HIDE DEF H
      <3>1. n - 1 \in Nat
        OBVIOUS
      <3> QED
        BY <1>2, <3>1
    <2> QED
      BY <2>1
  <1>4. f = Body(f)
    <2> HIDE DEF H
    <2> QED
      BY <1>2, <1>3
  <1>5. PowerOf31 = Body(PowerOf31)
    BY <1>4 DEF PowerOf31
  <1> DEFINE P == PowerOf31
  <1>6. P[0] = 1 /\ \A n \in Nat \ {0} : P[n] = (31 * P[n - 1]) % Modulus
    <2> HIDE DEF P
    <2>1. P = Body(P)
      BY <1>5 DEF P
    <2> QED
      BY <2>1
  <1>7. ASSUME NEW l \in Nat PROVE P[l] \in Nat
    <2> DEFINE S == {m \in 0..l : P[m] \in Nat}
    <2> HIDE DEF P, H
    <2>1. 0 \in S
      BY <1>6
    <2>2. ASSUME NEW m \in 0..l-1, m \in S PROVE m + 1 \in S
      <3>1. m + 1 \in Nat \ {0} /\ (m + 1) - 1 = m /\ m + 1 \in 0..l
        OBVIOUS
      <3>2. P[m + 1] = (31 * P[m]) % Modulus /\ P[m] \in Nat
        BY <1>6, <2>2, <3>1
      <3> QED
        BY <3>1, <3>2, ModulusAssumption
    <2>3. l \in S
      <3>1. l \in 0..l
        OBVIOUS
      <3> HIDE DEF S
      <3> QED
        BY <2>1, <2>2, <3>1, Induction
    <2> QED
      BY <2>3
  <1>8. DOMAIN P = Nat /\ P = [n \in Nat |-> P[n]]
    <2> HIDE DEF P
    <2>1. P = Body(P)
      BY <1>5 DEF P
    <2> QED
      BY <2>1
  <1>9. ASSUME NEW n \in Nat \ {0}
        PROVE  \E q \in Int : 31 * P[n - 1] = P[n] + q * Modulus
    <2>1. PICK x, M : x = 31 * P[n - 1] /\ M = Modulus
      OBVIOUS
    <2>2. x \in Int /\ M \in Nat \ {0} /\ P[n] = x % M
      <3>1. n - 1 \in Nat
        OBVIOUS
      <3> HIDE DEF P
      <3> QED
        BY <1>6, <1>7, <2>1, <3>1, ModulusAssumption
    <2>3. x = M * (x \div M) + (x % M) /\ x \div M \in Int
      BY <2>2
    <2>4. x = (x % M) + (x \div M) * M
      BY <2>2, <2>3
    <2> HIDE DEF P
    <2> QED
      BY <2>1, <2>2, <2>3, <2>4
  <1>10. P \in [Nat -> Nat]
    <2> HIDE DEF P
    <2> QED
      BY <1>7, <1>8
  <1> QED
    BY <1>6, <1>9, <1>10

(* One step of the hash, and one of the sum, keep them congruent.            *)
SameResidue(M, x, y) == \E q \in Int : x = y + q * M

LEMMA HornerStep ==
  ASSUME NEW M \in Nat, NEW h \in Int, NEW next \in Int, NEW c \in Int, NEW P \in Int,
         NEW R \in Int, NEW term \in Int, NEW sum \in Int,
         SameResidue(M, next, 31 * h + c), SameResidue(M, 31 * P, R),
         SameResidue(M, c * P, term), SameResidue(M, h * R, sum)
  PROVE  SameResidue(M, next * P, sum + term)
  <1>1. PICK q1 \in Int : next = 31 * h + c + q1 * M
    BY DEF SameResidue
  <1>2. PICK q2 \in Int : 31 * P = R + q2 * M
    BY DEF SameResidue
  <1>3. PICK q3 \in Int : c * P = term + q3 * M
    BY DEF SameResidue
  <1>4. PICK q4 \in Int : h * R = sum + q4 * M
    BY DEF SameResidue
  <1>5. /\ next = 31 * h + c + q1 * M /\ 31 * P = R + q2 * M
        /\ c * P = term + q3 * M /\ h * R = sum + q4 * M
    BY <1>1, <1>2, <1>3, <1>4
  <1>6. next * P = sum + term + (q4 + h * q2 + q3 + q1 * P) * M
    <2>1. next * P = h * (31 * P) + c * P + (q1 * P) * M
      BY <1>5
    <2>2. h * (31 * P) = h * R + (h * q2) * M
      BY <1>5
    <2>3. PICK a, b : a = h * q2 /\ b = q1 * P
      OBVIOUS
    <2>4. a \in Int /\ b \in Int
      BY <2>3
    <2>5. (q4 + a + q3 + b) * M = q4 * M + a * M + q3 * M + b * M
      BY <2>4
    <2>6. q4 * M \in Int /\ a * M \in Int /\ q3 * M \in Int /\ b * M \in Int
      BY <2>4
    <2>7. next * P = (sum + q4 * M) + a * M + (term + q3 * M) + b * M
      BY <1>5, <2>1, <2>2, <2>3
    <2> QED
      BY <2>3, <2>5, <2>6, <2>7
  <1>7. q4 + h * q2 + q3 + q1 * P \in Int
    OBVIOUS
  <1> QED
    BY <1>6, <1>7 DEF SameResidue

(* A hash is its polynomial's residue.                                       *)
LEMMA HashOverIsPolynomial ==
  ASSUME NEW s \in Seq(Nat), s # <<>>
  PROVE  HashOver(s) = Signed(Polynomial(s))
  <1>1. PICK n, M, P : n = Len(s) /\ M = Modulus /\ P = PowerOf31
    OBVIOUS
  <1>2. n \in Nat \ {0} /\ M \in Nat \ {0} /\ \A k \in 1..n : s[k] \in Nat
    BY <1>1, EmptySeq, ModulusAssumption
  <1>3. /\ \A k \in Nat : P[k] \in Nat
        /\ P[0] = 1
        /\ \A k \in Nat \ {0} : \E q \in Int : 31 * P[k - 1] = P[k] + q * M
    BY <1>1, PowerOf31Is
  <1>4. PICK terms : terms = [k \in DOMAIN s |-> (Code(s[k]) * PowerOf31[Len(s) - k]) % Modulus]
    OBVIOUS
  <1>5. ASSUME NEW k \in 1..n
        PROVE  /\ Code(s[k]) \in Nat /\ P[n - k] \in Nat
               /\ terms[k] = (Code(s[k]) * P[n - k]) % M
               /\ terms[k] \in Nat
               /\ \E q \in Int : Code(s[k]) * P[n - k] = terms[k] + q * M
    <2>1. PICK c, p : c = Code(s[k]) /\ p = P[n - k]
      OBVIOUS
    <2>2. c \in Nat
      BY <1>2, <2>1 DEF Code
    <2>3. p \in Nat
      <3>1. n - k \in Nat
        BY <1>2
      <3> QED
        BY <1>3, <2>1, <3>1
    <2>4. terms[k] = (c * p) % M
      BY <1>1, <1>4, <2>1
    <2>5. PICK x : x = c * p
      OBVIOUS
    <2>6. x \in Nat
      BY <2>2, <2>3, <2>5
    <2>7. x = M * (x \div M) + (x % M) /\ x \div M \in Int /\ (x % M) \in Nat
      BY <1>2, <2>6
    <2>8. x = (x % M) + (x \div M) * M
      BY <1>2, <2>7
    <2> QED
      BY <2>1, <2>2, <2>3, <2>4, <2>5, <2>7, <2>8
  <1>6. terms \in Seq(Nat) /\ Len(terms) = n
    <2>1. terms = [k \in 1..n |-> terms[k]]
      BY <1>1, <1>4
    <2> QED
      BY <1>2, <1>5, <2>1
  <1>7. Polynomial(s) = SumOf(terms)
    BY <1>4 DEF Polynomial, SumOf
  <1>8. PICK g \in [0..n -> Int] :
          /\ g[0] = 0
          /\ \A k \in 1..n : g[k] = Step(g[k - 1], s[k])
          /\ HashOver(s) = g[n]
    BY <1>1, HashSteps
  <1>9. PICK h \in [0..n -> Nat] :
          /\ h[0] = 0
          /\ \A k \in 1..n : h[k] = h[k - 1] + terms[k]
          /\ SumOf(terms) = h[n]
    BY <1>6, SumSteps
  <1> DEFINE Agree(k) == \E q \in Int : g[k] * P[n - k] = h[k] + q * M
             S == {k \in 0..n : Agree(k)}
  <1>10. 0 \in S
    <2>1. n - 0 \in Nat
      BY <1>2
    <2>2. P[n - 0] \in Nat
      BY <1>3, <2>1
    <2>3. PICK p : p = P[n - 0]
      OBVIOUS
    <2>4. 0 * p = 0 + 0 * M
      BY <1>2, <2>2, <2>3
    <2>5. g[0] * P[n - 0] = h[0] + 0 * M
      BY <1>8, <1>9, <2>3, <2>4
    <2>6. Agree(0)
      BY <2>5
    <2> HIDE DEF Agree
    <2> QED
      BY <1>2, <2>6
  <1>11. ASSUME NEW k \in 0..n-1, k \in S PROVE k + 1 \in S
    <2>1. Agree(k)
      BY <1>11
    <2> HIDE DEF S
    <2>2. /\ k + 1 \in 1..n /\ k + 1 \in 0..n /\ k \in 0..n /\ (k + 1) - 1 = k
          /\ n - k \in Nat \ {0} /\ (n - k) - 1 = n - (k + 1) /\ n - (k + 1) \in Nat
      BY <1>2
    <2>3. PICK a, b, c, p, r, t, m :
            /\ a = g[k] /\ b = g[k + 1] /\ c = Code(s[k + 1])
            /\ p = P[n - (k + 1)] /\ r = P[n - k]
            /\ t = terms[k + 1] /\ m = h[k]
      OBVIOUS
    <2>4. a \in Int /\ b \in Int /\ m \in Int
      <3>1. k \in 0..n /\ k + 1 \in 0..n
        BY <2>2
      <3>2. g[k] \in Int
        BY <1>8, <3>1
      <3>3. g[k + 1] \in Int
        BY <1>8, <3>1
      <3>4. h[k] \in Int
        BY <1>9, <3>1
      <3> QED
        BY <2>3, <3>2, <3>3, <3>4
    <2>5. c \in Int /\ t \in Int /\ p \in Int /\ \E q \in Int : c * p = t + q * M
      <3>1. PICK j : j = k + 1
        OBVIOUS
      <3>2. j \in 1..n /\ c = Code(s[j]) /\ t = terms[j] /\ p = P[n - j]
        BY <2>2, <2>3, <3>1
      <3>3. Code(s[j]) \in Nat /\ P[n - j] \in Nat /\ terms[j] \in Nat
        BY <1>5, <3>2
      <3>4. \E q \in Int : Code(s[j]) * P[n - j] = terms[j] + q * M
        BY <1>5, <3>2
      <3> QED
        BY <3>2, <3>3, <3>4
    <2>6. r \in Int /\ \E q \in Int : 31 * p = r + q * M
      <3>1. \E q \in Int : 31 * P[(n - k) - 1] = P[n - k] + q * M
        BY <1>3, <2>2
      <3>2. P[n - k] \in Nat
        BY <1>3, <2>2
      <3> QED
        BY <2>2, <2>3, <3>1, <3>2
    <2>7. \E q \in Int : b = 31 * a + c + q * M
      <3>1. PICK e : e = s[k + 1]
        OBVIOUS
      <3>2. e \in Nat /\ b = Step(a, e) /\ c = Code(e)
        BY <1>2, <1>8, <2>2, <2>3, <3>1
      <3>3. \E q \in Int : Step(a, e) = 31 * a + Code(e) + q * Modulus
        BY <2>4, <3>2, StepIs
      <3> QED
        BY <1>1, <3>2, <3>3
    <2>8. \E q \in Int : a * r = m + q * M
      BY <2>1, <2>3
    <2> HIDE DEF Agree
    <2>9. \E q \in Int : b * p = (m + t) + q * M
      <3>1. /\ SameResidue(M, b, 31 * a + c) /\ SameResidue(M, 31 * p, r)
            /\ SameResidue(M, c * p, t) /\ SameResidue(M, a * r, m)
        BY <2>5, <2>6, <2>7, <2>8 DEF SameResidue
      <3>2. M \in Nat
        BY <1>2
      <3>3. SameResidue(M, b * p, m + t)
        BY <2>4, <2>5, <2>6, <3>1, <3>2, HornerStep
      <3> QED
        BY <3>3 DEF SameResidue
    <2>10. h[k + 1] = m + t
      BY <1>9, <2>2, <2>3
    <2>11. Agree(k + 1)
      BY <2>3, <2>9, <2>10 DEF Agree
    <2> QED
      BY <2>2, <2>11 DEF S
  <1>12. n \in S
    <2>1. n \in 0..n /\ n \in Nat
      BY <1>2
    <2> HIDE DEF S
    <2> QED
      BY <1>10, <1>11, <2>1, Induction
  <1>13. Congruent(g[n], h[n])
    <2>1. PICK q \in Int : g[n] * P[n - n] = h[n] + q * M
      BY <1>12
    <2>2. n - n = 0 /\ n \in 0..n
      BY <1>2
    <2>3. PICK a : a = g[n]
      OBVIOUS
    <2>4. a \in Int /\ a * 1 = a
      BY <1>8, <2>2, <2>3
    <2> QED
      BY <1>1, <1>3, <2>1, <2>2, <2>3, <2>4 DEF Congruent
  <1>14. g[n] \in Int /\ h[n] \in Int
    BY <1>2, <1>8, <1>9
  <1>15. Signed(g[n]) = Signed(h[n])
    BY <1>13, <1>14, SignedProperties
  <1>16. Signed(g[n]) = g[n]
    <2>1. n \in 1..n /\ n - 1 \in 0..n
      BY <1>2
    <2>2. PICK a, e : a = g[n - 1] /\ e = s[n]
      OBVIOUS
    <2>3. a \in Int /\ e \in Nat /\ g[n] = Step(a, e)
      BY <1>2, <1>8, <2>1, <2>2
    <2> QED
      BY <2>3, StepIs
  <1> QED
    BY <1>7, <1>8, <1>9, <1>15, <1>16

-----------------------------------------------------------------------------
(* EncryptionDecryption: the roots, and the grid found again.                *)

LEMMA SquareOrder ==
  ASSUME NEW x \in Nat, NEW y \in Nat
  PROVE  x < y <=> x * x < y * y
  <1>1. ASSUME NEW u \in Nat, NEW v \in Nat, u <= v PROVE u * u <= v * v
    <2>1. u * u <= u * v /\ u * v <= v * v
      BY <1>1
    <2>2. u * u \in Nat /\ u * v \in Nat /\ v * v \in Nat
      OBVIOUS
    <2> QED
      BY <2>1, <2>2
  <1>2. ASSUME x < y PROVE x * x < y * y
    <2>1. x + 1 \in Nat /\ x + 1 <= y
      BY <1>2
    <2>2. (x + 1) * (x + 1) <= y * y
      BY <1>1, <2>1
    <2>3. x * x < (x + 1) * (x + 1)
      OBVIOUS
    <2> QED
      BY <2>1, <2>2, <2>3
  <1>3. ASSUME ~ (x < y) PROVE ~ (x * x < y * y)
    <2>1. y <= x
      BY <1>3
    <2>2. y * y <= x * x
      BY <1>1, <2>1
    <2> QED
      BY <2>2
  <1> QED
    BY <1>2, <1>3

LEMMA FloorSqrtBounds ==
  ASSUME NEW l \in Nat
  PROVE  LET f == FloorSqrt(l) IN f \in Nat /\ f * f <= l /\ l < (f + 1) * (f + 1)
  <1>1. PICK T : T = {a \in 0..l : a * a <= l}
    OBVIOUS
  <1>2. T \in SUBSET (0..l) /\ 0 \in T
    BY <1>1
  <1>3. PICK f : f = Max(T)
    OBVIOUS
  <1>4. f \in T /\ \A y \in T : f >= y
    BY <1>2, <1>3, MaxOf
  <1>5. f \in Nat /\ f * f <= l
    BY <1>1, <1>4
  <1>6. l < (f + 1) * (f + 1)
    <2> SUFFICES ASSUME (f + 1) * (f + 1) <= l PROVE FALSE
      BY <1>5
    <2>1. f + 1 <= (f + 1) * (f + 1)
      BY <1>5
    <2>2. f + 1 \in 0..l
      BY <1>5, <2>1
    <2>3. f + 1 \in T
      BY <1>1, <2>2
    <2> QED
      BY <1>4, <1>5, <2>3
  <1> QED
    BY <1>1, <1>3, <1>5, <1>6 DEF FloorSqrt

LEMMA CeilSqrtBounds ==
  ASSUME NEW l \in Nat
  PROVE  LET c == CeilSqrt(l) IN c \in Nat /\ c * c >= l /\ (c # 0 => (c - 1) * (c - 1) < l)
  <1>1. PICK T : T = {b \in 0..l : b * b >= l}
    OBVIOUS
  <1>2. T \in SUBSET Nat /\ l \in T
    BY <1>1
  <1>3. PICK c : c = Min(T)
    OBVIOUS
  <1>4. c \in T /\ \A y \in T : c <= y
    BY <1>2, <1>3, MinOf
  <1>5. c \in 0..l /\ c * c >= l
    BY <1>1, <1>4
  <1>6. ASSUME c # 0 PROVE (c - 1) * (c - 1) < l
    <2> SUFFICES ASSUME (c - 1) * (c - 1) >= l PROVE FALSE
      BY <1>5
    <2>1. c - 1 \in 0..l
      BY <1>5, <1>6
    <2>2. c - 1 \in T
      BY <1>1, <2>1
    <2> QED
      BY <1>4, <1>5, <2>2
  <1> QED
    BY <1>1, <1>3, <1>5, <1>6 DEF CeilSqrt

LEMMA FloorSqrtIs ==
  ASSUME NEW l \in Nat, NEW x \in Nat, x * x <= l, l < (x + 1) * (x + 1)
  PROVE  FloorSqrt(l) = x
  <1>1. PICK f : f = FloorSqrt(l)
    OBVIOUS
  <1>2. f \in Nat /\ f * f <= l /\ l < (f + 1) * (f + 1)
    BY <1>1, FloorSqrtBounds
  <1>3. f * f < (x + 1) * (x + 1) /\ x * x < (f + 1) * (f + 1)
    BY <1>2
  <1>4. f < x + 1 /\ x < f + 1
    BY <1>2, <1>3, SquareOrder
  <1> QED
    BY <1>1, <1>2, <1>4

LEMMA CeilSqrtIs ==
  ASSUME NEW l \in Nat, NEW x \in Nat, x * x >= l, x # 0 => (x - 1) * (x - 1) < l
  PROVE  CeilSqrt(l) = x
  <1>1. PICK c : c = CeilSqrt(l)
    OBVIOUS
  <1>2. c \in Nat /\ c * c >= l /\ (c # 0 => (c - 1) * (c - 1) < l)
    BY <1>1, CeilSqrtBounds
  <1>3. ~ (c < x)
    <2> SUFFICES ASSUME c < x PROVE FALSE
      OBVIOUS
    <2>1. x - 1 \in Nat /\ (x - 1) * (x - 1) < c * c
      BY <1>2
    <2>2. x - 1 < c
      BY <1>2, <2>1, SquareOrder
    <2> QED
      BY <1>2, <2>2
  <1>4. ~ (x < c)
    <2> SUFFICES ASSUME x < c PROVE FALSE
      OBVIOUS
    <2>1. c - 1 \in Nat /\ (c - 1) * (c - 1) < x * x
      BY <1>2
    <2>2. c - 1 < x
      BY <1>2, <2>1, SquareOrder
    <2> QED
      BY <1>2, <2>2
  <1> QED
    BY <1>1, <1>2, <1>3, <1>4

(* The sides of the grid are the roots of the number of its cells.           *)
LEMMA GridIsFoundAgain ==
  ASSUME NEW l \in Nat
  PROVE  LET a == Rows(l)
             b == CeilSqrt(l)
         IN  /\ a \in Nat /\ b \in Nat /\ a * b \in Nat
             /\ a * b >= l
             /\ CeilSqrt(a * b) = b /\ FloorSqrt(a * b) = a
  <1>1. PICK f, c : f = FloorSqrt(l) /\ c = CeilSqrt(l)
    OBVIOUS
  <1>2. /\ f \in Nat /\ f * f <= l /\ l < (f + 1) * (f + 1)
        /\ c \in Nat /\ c * c >= l /\ (c # 0 => (c - 1) * (c - 1) < l)
    BY <1>1, FloorSqrtBounds, CeilSqrtBounds
  <1>3. Rows(l) = IF c * f < l THEN f + 1 ELSE f
    BY <1>1 DEF Rows
  <1>4. c = f \/ c = f + 1
    <2>1. f <= c
      <3>1. ~ (c * c < f * f)
        BY <1>2
      <3> QED
        BY <1>2, <3>1, SquareOrder
    <2>2. c <= f + 1
      <3>1. CASE c = 0
        BY <1>2, <3>1
      <3>2. CASE c # 0
        <4>1. c - 1 \in Nat /\ (c - 1) * (c - 1) < (f + 1) * (f + 1)
          BY <1>2, <3>2
        <4>2. c - 1 < f + 1
          BY <1>2, <4>1, SquareOrder
        <4> QED
          BY <1>2, <4>2
      <3> QED
        BY <3>1, <3>2
    <2> QED
      BY <1>2, <2>1, <2>2
  <1>5. CASE c = f
    <2>1. Rows(l) = f /\ f * c = l
      BY <1>2, <1>3, <1>5
    <2> QED
      BY <1>1, <1>2, <1>5, <2>1
  <1>6. CASE c = f + 1 /\ c * f < l
    <2>1. PICK n : n = c * c
      OBVIOUS
    <2>2. n \in Nat /\ n >= l /\ (c - 1) * (c - 1) < n /\ n < (c + 1) * (c + 1)
      BY <1>2, <1>6, <2>1
    <2>3. CeilSqrt(n) = c /\ FloorSqrt(n) = c
      BY <1>2, <2>1, <2>2, CeilSqrtIs, FloorSqrtIs
    <2> QED
      BY <1>1, <1>2, <1>3, <1>6, <2>1, <2>2, <2>3
  <1>7. CASE c = f + 1 /\ ~ (c * f < l)
    <2>1. PICK n : n = f * c
      OBVIOUS
    <2>2. c - 1 = f /\ f * f < l /\ n = f * f + f
      BY <1>2, <1>7, <2>1
    <2>3. n \in Nat /\ n >= l
      BY <1>2, <1>7, <2>1
    <2>4. f # 0
      BY <1>2, <2>2, <2>3
    <2>5. c * c = f * f + f + f + 1
      BY <1>2, <1>7
    <2>6. /\ c * c >= n /\ (c - 1) * (c - 1) < n
          /\ f * f <= n /\ n < (f + 1) * (f + 1)
      <3>1. PICK s : s = f * f /\ s \in Nat
        BY <1>2
      <3>2. (f + 1) * (f + 1) = s + f + f + 1 /\ (c - 1) * (c - 1) = s
        BY <1>2, <2>2, <3>1
      <3> QED
        BY <1>2, <2>2, <2>4, <2>5, <3>1, <3>2
    <2>7. CeilSqrt(n) = c /\ FloorSqrt(n) = f
      BY <1>2, <2>3, <2>6, CeilSqrtIs, FloorSqrtIs
    <2>8. Rows(l) = f
      BY <1>3, <1>7
    <2> QED
      BY <1>1, <1>2, <2>1, <2>3, <2>7, <2>8
  <1> QED
    BY <1>4, <1>5, <1>6, <1>7

(* The text in its grid, row by row.                                         *)
Padded(s, n) == [k \in 1..n |-> IF k <= Len(s) THEN s[k] ELSE Blank]

(* Where a cell of the grid is read and where it is written.                 *)
LEMMA CellPosition ==
  ASSUME NEW a \in Nat, NEW b \in Nat, NEW k \in 1..(a * b)
  PROVE  LET i == (k - 1) \div b
             j == (k - 1) % b
             p == j * a + i
         IN  /\ p \in 0..(a * b - 1)
             /\ (p % a) * b + (p \div a) = k - 1
  <1>1. a # 0 /\ b # 0
    <2>1. CASE a = 0
      BY <2>1
    <2>2. CASE b = 0
      BY <2>2
    <2> QED
      BY <2>1, <2>2
  <1>2. PICK x, i, j : x = k - 1 /\ i = x \div b /\ j = (x % b)
    OBVIOUS
  <1>3. x \in Nat /\ x < a * b
    BY <1>2
  <1>4. x = b * i + j /\ i \in Int /\ j \in 0..b-1
    BY <1>1, <1>2, <1>3
  <1>5. i \in 0..a-1
    <2>1. i >= 0
      <3> SUFFICES ASSUME i <= -1 PROVE FALSE
        BY <1>4
      <3>1. b * i <= b * (-1)
        BY <1>4
      <3> QED
        BY <1>3, <1>4, <3>1
    <2>2. i < a
      <3> SUFFICES ASSUME i >= a PROVE FALSE
        BY <1>4
      <3>1. b * i >= b * a /\ b * a = a * b
        BY <1>4
      <3> QED
        BY <1>3, <1>4, <3>1
    <2> QED
      BY <1>4, <2>1, <2>2
  <1>6. PICK p : p = j * a + i
    OBVIOUS
  <1>7. p \in 0..(a * b - 1)
    <2>1. j * a <= (b - 1) * a /\ j * a >= 0 /\ j * a \in Int
      BY <1>4
    <2>2. (b - 1) * a = a * b - a
      OBVIOUS
    <2> QED
      BY <1>5, <1>6, <2>1, <2>2
  <1>8. (p % a) = i /\ p \div a = j
    BY <1>1, <1>4, <1>5, <1>6
  <1>9. i * b + j = x
    BY <1>4
  <1> QED
    BY <1>2, <1>6, <1>7, <1>8, <1>9

LEMMA DecryptsToPadded ==
  ASSUME NEW s \in Seq(Nat)
  PROVE  Decryption(Encryption(s)) = Trim(Padded(s, Rows(Len(s)) * CeilSqrt(Len(s))))
  <1>1. PICK l, a, b, e :
          l = Len(s) /\ a = Rows(l) /\ b = CeilSqrt(l) /\ e = Encryption(s)
    OBVIOUS
  <1>2. PICK n : n = a * b
    OBVIOUS
  <1>3. /\ l \in Nat /\ a \in Nat /\ b \in Nat /\ n \in Nat
        /\ CeilSqrt(n) = b /\ FloorSqrt(n) = a
    BY <1>1, <1>2, GridIsFoundAgain
  <1> DEFINE Cell(i, j) == IF i * b + j < l THEN s[i * b + j + 1] ELSE Blank
  <1>4. e = [k \in 1..n |-> Cell((k - 1) % a, (k - 1) \div a)]
    BY <1>1, <1>2 DEF Encryption
  <1>5. Len(e) = n
    BY <1>3, <1>4
  <1> DEFINE Position(k) == ((k - 1) % b) * a + ((k - 1) \div b)
             Kept(p) == IF p < n THEN <<e[p + 1]>> ELSE <<>>
  <1>6. Decryption(e) = Trim(FlattenSeq([k \in 1..n |-> Kept(Position(k))]))
    BY <1>2, <1>3, <1>5 DEF Decryption
  <1>7. PICK v : v = Padded(s, n)
    OBVIOUS
  <1>8. v \in Seq(Nat) /\ Len(v) = n
    <2>1. \A k \in 1..n : (IF k <= l THEN s[k] ELSE Blank) \in Nat
      BY <1>1, <1>3 DEF Blank
    <2>2. v = [k \in 1..n |-> IF k <= l THEN s[k] ELSE Blank]
      BY <1>1, <1>7 DEF Padded
    <2> QED
      BY <1>3, <2>1, <2>2
  <1>9. ASSUME NEW k \in 1..n PROVE Kept(Position(k)) = <<v[k]>>
    <2>1. PICK p : p = Position(k)
      OBVIOUS
    <2>2. p \in 0..n-1 /\ (p % a) * b + (p \div a) = k - 1
      BY <1>2, <1>3, <2>1, CellPosition
    <2>3. p + 1 \in 1..n /\ (p + 1) - 1 = p /\ p < n
      BY <1>3, <2>2
    <2>4. e[p + 1] = Cell((p % a), p \div a)
      BY <1>4, <2>3
    <2>5. Cell((p % a), p \div a) = IF k - 1 < l THEN s[(k - 1) + 1] ELSE Blank
      BY <2>2
    <2>6. v[k] = IF k <= l THEN s[k] ELSE Blank
      BY <1>1, <1>7 DEF Padded
    <2>7. k - 1 < l <=> k <= l
      BY <1>3
    <2>8. (k - 1) + 1 = k
      OBVIOUS
    <2>9. e[p + 1] = v[k]
      BY <2>4, <2>5, <2>6, <2>7, <2>8
    <2> HIDE DEF Position
    <2> QED
      BY <2>1, <2>3, <2>9
  <1>10. [k \in 1..n |-> Kept(Position(k))] = [k \in 1..Len(v) |-> <<v[k]>>]
    <2> HIDE DEF Kept, Position
    <2> QED
      BY <1>8, <1>9
  <1>11. FlattenSeq([k \in 1..Len(v) |-> <<v[k]>>]) = v
    BY <1>8, FlattenOfSingles
  <1> HIDE DEF Kept, Position
  <1> QED
    BY <1>1, <1>2, <1>6, <1>7, <1>10, <1>11

(* Blanks after a text are not seen once it is trimmed.                      *)
LEMMA TrimOfPadded ==
  ASSUME NEW s \in Seq(Nat), NEW n \in Nat, n >= Len(s)
  PROVE  Trim(Padded(s, n)) = Trim(s)
  <1>1. PICK l, v : l = Len(s) /\ v = Padded(s, n)
    OBVIOUS
  <1>2. l \in Nat /\ l <= n /\ DOMAIN s = 1..l /\ DOMAIN v = 1..n
    BY <1>1 DEF Padded
  <1>3. \A k \in 1..l : k \in 1..n /\ v[k] = s[k]
    BY <1>1, <1>2 DEF Padded
  <1>4. \A k \in 1..n : k \notin 1..l => v[k] = Blank
    BY <1>1, <1>2 DEF Padded
  <1>5. Inked(v) = Inked(s)
    BY <1>2, <1>3, <1>4 DEF Inked
  <1>6. ASSUME Inked(s) # {}
        PROVE  SubSeq(v, Min(Inked(s)), Max(Inked(s))) = SubSeq(s, Min(Inked(s)), Max(Inked(s)))
    <2>1. PICK T : T = Inked(s)
      OBVIOUS
    <2>2. T \in SUBSET (1..l) /\ T # {} /\ T \in SUBSET Nat /\ T \in SUBSET (0..l)
      BY <1>2, <1>6, <2>1 DEF Inked
    <2>3. PICK x, y : x = Min(T) /\ y = Max(T)
      OBVIOUS
    <2>4. x \in T /\ y \in T
      BY <1>2, <2>2, <2>3, MinOf, MaxOf
    <2>5. x \in 1..l /\ y \in 1..l
      BY <2>2, <2>4
    <2>6. SubSeq(v, x, y) = [i \in 1..(1 + y - x) |-> v[i + x - 1]]
      BY <2>5
    <2>7. SubSeq(s, x, y) = [i \in 1..(1 + y - x) |-> s[i + x - 1]]
      BY <2>5
    <2>8. \A i \in 1..(1 + y - x) : v[i + x - 1] = s[i + x - 1]
      <3>1. \A i \in 1..(1 + y - x) : i + x - 1 \in 1..l
        BY <1>2, <2>5
      <3> QED
        BY <1>3, <3>1
    <2> QED
      BY <2>1, <2>3, <2>6, <2>7, <2>8
  <1> QED
    BY <1>1, <1>5, <1>6 DEF Trim

LEMMA DecryptionUndoesEncryption ==
  ASSUME NEW s \in Seq(Nat)
  PROVE  Decryption(Encryption(s)) = Trim(s)
  <1>1. PICK n : n = Rows(Len(s)) * CeilSqrt(Len(s))
    OBVIOUS
  <1>2. n \in Nat /\ n >= Len(s)
    BY <1>1, GridIsFoundAgain
  <1> QED
    BY <1>1, <1>2, DecryptsToPadded, TrimOfPadded

-----------------------------------------------------------------------------
(* ConvertToBatches and RepoPagination *)

LEMMA BatchesKeep ==
  ASSUME NEW n \in Nat, NEW size \in Nat \ {0}
  PROVE  LET batches == ConvertToBatches(Numbers(n), size) IN
         /\ FlattenSeq(batches) = Numbers(n)
         /\ \A k \in DOMAIN batches :
              /\ Len(batches[k]) \in 1..size
              /\ k < Len(batches) => Len(batches[k]) = size
  <1>1. PICK m, x : x = n + size - 1 /\ m = x \div size
    OBVIOUS
  <1>2. x \in Nat /\ x = size * m + (x % size) /\ (x % size) \in 0..size-1 /\ m \in Nat
    <2>1. x \in Nat
      BY <1>1
    <2>2. x = size * m + (x % size) /\ (x % size) \in 0..size-1 /\ m \in Int
      BY <1>1, <2>1
    <2>3. m >= 0
      <3> SUFFICES ASSUME m <= -1 PROVE FALSE
        BY <2>2
      <3>1. size * m <= size * (-1)
        BY <2>2
      <3> QED
        BY <2>1, <2>2, <3>1
    <2> QED
      BY <2>1, <2>2, <2>3
  <1>3. m * size >= n /\ m * size < n + size
    <2>1. PICK y, r : y = m * size /\ r = (x % size)
      OBVIOUS
    <2>2. x = y + r /\ r \in 0..size-1 /\ y \in Int
      BY <1>2, <2>1
    <2> QED
      BY <1>1, <2>1, <2>2
  <1>4. PICK batches : batches = ConvertToBatches(Numbers(n), size)
    OBVIOUS
  <1>5. batches = [k \in 1..m |-> Chunk(n, size, k)]
    <2>1. Len(Numbers(n)) = n
      BY DEF Numbers
    <2>2. PICK starts : starts = [k \in 1..m |-> (k - 1) * size]
      OBVIOUS
    <2>3. Starts(n, size) = starts
      BY <1>1, <2>2 DEF Starts
    <2>4. batches = [k \in DOMAIN starts |->
                       SubSeq(Numbers(n), starts[k] + 1, Min({starts[k] + size, n}))]
      BY <1>4, <2>1, <2>3 DEF ConvertToBatches
    <2>5. DOMAIN starts = 1..m /\ \A k \in 1..m : starts[k] = (k - 1) * size
      BY <2>2
    <2>6. \A k \in 1..m :
            SubSeq(Numbers(n), starts[k] + 1, Min({starts[k] + size, n})) = Chunk(n, size, k)
      BY <2>5 DEF Chunk
    <2> QED
      BY <2>4, <2>5, <2>6
  <1>6. FlattenSeq(batches) = Numbers(n)
    BY <1>2, <1>3, <1>5, ChunksTile
  <1>7. DOMAIN batches = 1..m /\ Len(batches) = m
    BY <1>2, <1>5
  <1>8. ASSUME NEW k \in 1..m
        PROVE  Len(batches[k]) \in 1..size /\ (k < m => Len(batches[k]) = size)
    <2>1. PICK at : at = Before(size, k)
      OBVIOUS
    <2>2. at \in Nat /\ Len(batches[k]) = ChunkLength(n, size, k)
      <3>1. k \in Nat \ {0}
        BY <1>2
      <3> QED
        BY <1>5, <2>1, <3>1, ChunkIs DEF Follows
    <2>3. at < n /\ (k < m => at + size <= n)
      <3>1. PICK z : z = m - k
        OBVIOUS
      <3>2. z \in Nat /\ k = m - z
        BY <1>2, <3>1
      <3>3. at = m * size - z * size - size
        BY <1>2, <2>1, <3>2 DEF Before
      <3>4. z * size \in Nat /\ (z # 0 => z * size >= size)
        BY <3>2
      <3>5. PICK u, w : u = m * size /\ w = z * size
        OBVIOUS
      <3>6. u \in Int /\ w \in Nat /\ at = u - w - size /\ (z # 0 => w >= size)
            /\ u >= n /\ u < n + size
        BY <1>2, <1>3, <3>3, <3>4, <3>5
      <3>7. at < n
        BY <3>6
      <3>8. k < m => z # 0
        BY <1>2, <3>2
      <3> QED
        BY <3>6, <3>7, <3>8
    <2>4. ChunkLength(n, size, k) = IF at + size <= n THEN size ELSE n - at
      BY <2>1, <2>2, <2>3 DEF ChunkLength
    <2> QED
      BY <2>2, <2>3, <2>4
  <1> QED
    BY <1>4, <1>6, <1>7, <1>8

LEMMA PagesAreChunks ==
  ASSUME NEW n \in Nat, NEW limit \in Nat \ {0}
  PROVE  /\ \A page \in Nat \ {0} : PageOf(Numbers(n), page, limit) = Chunk(n, limit, page)
         /\ PageOf(Numbers(n), 0, limit) = PageOf(Numbers(n), 1, limit)
  <1>1. Len(Numbers(n)) = n
    BY DEF Numbers
  <1>2. OrElse(limit, 10) = limit /\ OrElse(0, 1) = 1 /\ \A page \in Nat \ {0} : OrElse(page, 1) = page
    BY DEF OrElse
  <1>3. Skip(0, limit) = Skip(1, limit) /\ \A page \in Nat \ {0} : Skip(page, limit) = (page - 1) * limit
    BY <1>2 DEF Skip
  <1>4. PageOf(Numbers(n), 0, limit) = PageOf(Numbers(n), 1, limit)
    BY <1>3 DEF PageOf
  <1>5. ASSUME NEW page \in Nat \ {0}
        PROVE  PageOf(Numbers(n), page, limit) = Chunk(n, limit, page)
    BY <1>1, <1>2, <1>3 DEF PageOf, Chunk
  <1> QED
    BY <1>4, <1>5

LEMMA PagesTile ==
  ASSUME NEW n \in Nat, NEW limit \in Nat \ {0}
  PROVE  FlattenSeq([page \in 1..n + 1 |-> PageOf(Numbers(n), page, limit)]) = Numbers(n)
  <1>1. [page \in 1..n + 1 |-> PageOf(Numbers(n), page, limit)]
          = [page \in 1..n + 1 |-> Chunk(n, limit, page)]
    BY PagesAreChunks
  <1>2. (n + 1) * limit >= n
    <2>1. (n + 1) * limit = n * limit + limit /\ n * limit >= n /\ n * limit \in Nat
      OBVIOUS
    <2> QED
      BY <2>1
  <1> QED
    BY <1>1, <1>2, ChunksTile

-----------------------------------------------------------------------------
(* What a call is given.                                                     *)

InputInv ==
  /\ input.fn \in {"encryption", "hashCode"} => input.s \in Seq(Nat)
  /\ input.fn = "batches" => input.length \in Nat /\ input.size \in Nat \ {0}
  /\ input.fn = "pages" => input.length \in Nat /\ input.limit \in Nat \ {0}
  /\ input.fn = "split" => input.list \in Seq(Element)

LEMMA StringsAreSequences ==
  Strings \cup LongStrings \subseteq Seq(Nat)
  <1>1. Strings \subseteq Seq(Nat)
    <2>1. Letters \cup {Blank} \subseteq Nat
      BY LetterAssumption DEF Blank
    <2>2. \A m \in 0..MaxLength : [1..m -> Letters \cup {Blank}] \subseteq Seq(Nat)
      BY <2>1, BoundAssumption
    <2> QED
      BY <2>2 DEF Strings, SeqOf
  <1>2. Distinct \subseteq Seq(Nat)
    <2>1. \A n \in 0..MaxLong : [k \in 1..n |-> k] \in Seq(Nat)
      BY BoundAssumption
    <2> QED
      BY <2>1 DEF Distinct
  <1>3. <<Blank>> \in Seq(Nat)
    BY DEF Blank
  <1>4. \A s \in Distinct : <<Blank>> \o s \in Seq(Nat) /\ s \o <<Blank>> \in Seq(Nat)
    BY <1>2, <1>3, ConcatProperties
  <1> QED
    BY <1>1, <1>2, <1>4 DEF LongStrings

LEMMA InitInput == Init => InputInv
  <1> SUFFICES ASSUME Init PROVE InputInv
    OBVIOUS
  <1>1. CASE \E s \in Strings \cup LongStrings :
               \/ input = [fn |-> "encryption", s |-> s]
               \/ input = [fn |-> "hashCode", s |-> s]
    BY <1>1, StringsAreSequences DEF InputInv
  <1>2. CASE \E length \in 0..MaxLength, size \in 1..MaxLength + 1 :
               \/ input = [fn |-> "batches", length |-> length, size |-> size]
               \/ input = [fn |-> "pages", length |-> length, limit |-> size]
    BY <1>2, BoundAssumption DEF InputInv
  <1>3. CASE \E list \in SeqOf(Element, MaxTokens) : input = [fn |-> "split", list |-> list]
    <2>1. SeqOf(Element, MaxTokens) \subseteq Seq(Element)
      <3>1. \A m \in 0..MaxTokens : [1..m -> Element] \subseteq Seq(Element)
        BY BoundAssumption
      <3> QED
        BY <3>1 DEF SeqOf
    <2> QED
      BY <1>3, <2>1 DEF InputInv
  <1> QED
    BY <1>1, <1>2, <1>3 DEF Init

LEMMA NextInput == InputInv /\ [Next]_vars => InputInv'
  <1> SUFFICES ASSUME InputInv, [Next]_vars PROVE InputInv'
    OBVIOUS
  <1>1. input' = input
    BY DEF Next, Encrypt, Hash, Batch, Paginate, SplitTokens, Answers, vars
  <1> QED
    BY <1>1 DEF InputInv

(* What a call is given is of its type and stays as it is.                    *)
THEOREM InputsAreTyped == Spec => []InputInv
  BY InitInput, NextInput, PTL DEF Spec

LEMMA InitNoOutput == Init => output.fn = "none"
  BY DEF Init

LEMMA StepOutput ==
  ASSUME [Next]_vars
  PROVE  \/ Encrypt \/ Hash \/ Batch \/ Paginate \/ SplitTokens \/ UNCHANGED <<input, output>>
  BY DEF Next, vars

-----------------------------------------------------------------------------
(* The theorems. *)

(* Whatever text is encrypted, its decryption is the text but for the blanks *)
(* around it (EncryptionDecryption).                                         *)
THEOREM CipherRoundTrips == Spec => []DecryptsWhatWasEncrypted
  <1>1. Init => DecryptsWhatWasEncrypted
    BY InitNoOutput DEF DecryptsWhatWasEncrypted
  <1>2. ASSUME InputInv, DecryptsWhatWasEncrypted, [Next]_vars
        PROVE  DecryptsWhatWasEncrypted'
    <2>1. CASE Encrypt
      <3>1. Decryption(Encryption(input.s)) = Trim(input.s)
        BY <1>2, <2>1, DecryptionUndoesEncryption DEF InputInv, Encrypt, Answers
      <3> QED
        BY <2>1, <3>1 DEF Encrypt, Answers, DecryptsWhatWasEncrypted
    <2>2. CASE Hash \/ Batch \/ Paginate \/ SplitTokens
      BY <2>2 DEF Hash, Batch, Paginate, SplitTokens, Answers, DecryptsWhatWasEncrypted
    <2>3. CASE UNCHANGED <<input, output>>
      BY <1>2, <2>3 DEF DecryptsWhatWasEncrypted
    <2> QED
      BY <1>2, <2>1, <2>2, <2>3, StepOutput
  <1> QED
    BY <1>1, <1>2, InputsAreTyped, PTL DEF Spec

LEMMA TrimType ==
  ASSUME NEW s \in Seq(Nat)
  PROVE  Trim(s) \in Seq(Nat) /\ (Trim(s) # <<>> => s # <<>>)
  <1>1. CASE Inked(s) = {}
    BY <1>1 DEF Trim
  <1>2. CASE Inked(s) # {}
    <2>1. PICK T, l : T = Inked(s) /\ l = Len(s)
      OBVIOUS
    <2>2. l \in Nat /\ T \in SUBSET (1..l) /\ T # {} /\ T \in SUBSET Nat /\ T \in SUBSET (0..l)
      BY <1>2, <2>1 DEF Inked
    <2>3. PICK x, y : x = Min(T) /\ y = Max(T)
      OBVIOUS
    <2>4. x \in 1..l /\ y \in 1..l
      BY <2>2, <2>3, MinOf, MaxOf
    <2>5. \A i \in x..y : s[i] \in Nat
      BY <2>1, <2>4
    <2>6. SubSeq(s, x, y) \in Seq(Nat)
      BY <2>4, <2>5, SubSeqProperties
    <2>7. s # <<>>
      BY <2>1, <2>4
    <2> QED
      BY <1>2, <2>1, <2>3, <2>6, <2>7 DEF Trim
  <1> QED
    BY <1>1, <1>2

(* The hash of any text is its polynomial in 31, as a signed word.           *)
THEOREM HashesArePolynomials == Spec => []HashIsPolynomial
  <1>1. Init => HashIsPolynomial
    BY InitNoOutput DEF HashIsPolynomial
  <1>2. ASSUME InputInv, HashIsPolynomial, [Next]_vars
        PROVE  HashIsPolynomial'
    <2>1. CASE Hash
      <3>1. input.s \in Seq(Nat)
        BY <1>2, <2>1 DEF InputInv, Hash, Answers
      <3>2. ASSUME Trim(input.s) # <<>>
            PROVE  HashCode(input.s) = Signed(Polynomial(Trim(input.s)))
        <4>1. PICK t : t = Trim(input.s)
          OBVIOUS
        <4>2. t \in Seq(Nat) /\ t # <<>> /\ input.s # <<>>
          BY <3>1, <3>2, <4>1, TrimType
        <4>3. HashCode(input.s) = HashOver(t)
          BY <4>1, <4>2 DEF HashCode, HashOver
        <4> QED
          BY <4>1, <4>2, <4>3, HashOverIsPolynomial
      <3>3. output' = [fn |-> "hashCode", result |-> HashCode(input.s)] /\ input' = input
        BY <2>1 DEF Hash, Answers
      <3> QED
        BY <3>2, <3>3 DEF HashIsPolynomial
    <2>2. CASE Encrypt \/ Batch \/ Paginate \/ SplitTokens
      BY <2>2 DEF Encrypt, Batch, Paginate, SplitTokens, Answers, HashIsPolynomial
    <2>3. CASE UNCHANGED <<input, output>>
      BY <1>2, <2>3 DEF HashIsPolynomial
    <2> QED
      BY <1>2, <2>1, <2>2, <2>3, StepOutput
  <1> QED
    BY <1>1, <1>2, InputsAreTyped, PTL DEF Spec

(* The batches of any list, of any size, put together are the list, and all  *)
(* but the last are full (ConvertToBatches).                                 *)
THEOREM BatchesTile == Spec => []BatchesKeepTheList
  <1>1. Init => BatchesKeepTheList
    BY InitNoOutput DEF BatchesKeepTheList
  <1>2. ASSUME InputInv, BatchesKeepTheList, [Next]_vars
        PROVE  BatchesKeepTheList'
    <2>1. CASE Batch
      <3>1. PICK n, size, batches :
              /\ n = input.length /\ size = input.size
              /\ batches = ConvertToBatches(Numbers(n), size)
        OBVIOUS
      <3>2. n \in Nat /\ size \in Nat \ {0}
        BY <1>2, <2>1, <3>1 DEF InputInv, Batch, Answers
      <3>3. /\ FlattenSeq(batches) = Numbers(n)
            /\ \A k \in DOMAIN batches :
                 /\ Len(batches[k]) \in 1..size
                 /\ k < Len(batches) => Len(batches[k]) = size
        BY <3>1, <3>2, BatchesKeep
      <3>4. output' = [fn |-> "batches", result |-> batches] /\ input' = input
        BY <2>1, <3>1 DEF Batch, Answers, Numbers
      <3> QED
        BY <3>1, <3>3, <3>4 DEF BatchesKeepTheList, Numbers
    <2>2. CASE Encrypt \/ Hash \/ Paginate \/ SplitTokens
      BY <2>2 DEF Encrypt, Hash, Paginate, SplitTokens, Answers, BatchesKeepTheList
    <2>3. CASE UNCHANGED <<input, output>>
      BY <1>2, <2>3 DEF BatchesKeepTheList
    <2> QED
      BY <1>2, <2>1, <2>2, <2>3, StepOutput
  <1> QED
    BY <1>1, <1>2, InputsAreTyped, PTL DEF Spec

(* The pages of any list, for any limit, put together are the list, and page *)
(* 0 is the first (RepoPagination.of).                                       *)
THEOREM PagesTileIt == Spec => []PagesTileTheList
  <1>1. Init => PagesTileTheList
    BY InitNoOutput DEF PagesTileTheList
  <1>2. ASSUME InputInv, PagesTileTheList, [Next]_vars
        PROVE  PagesTileTheList'
    <2>1. CASE Paginate
      <3>1. PICK n, limit, pages :
              /\ n = input.length /\ limit = input.limit
              /\ pages = [page \in 0..n + 1 |-> PageOf(Numbers(n), page, limit)]
        OBVIOUS
      <3>2. n \in Nat /\ limit \in Nat \ {0}
        BY <1>2, <2>1, <3>1 DEF InputInv, Paginate, Answers
      <3>3. [page \in 1..n + 1 |-> pages[page]]
              = [page \in 1..n + 1 |-> PageOf(Numbers(n), page, limit)]
        BY <3>1, <3>2
      <3>4. FlattenSeq([page \in 1..n + 1 |-> pages[page]]) = Numbers(n)
        BY <3>2, <3>3, PagesTile
      <3>5. pages[0] = pages[1]
        <4>1. 0 \in 0..n + 1 /\ 1 \in 0..n + 1
          BY <3>2
        <4>2. PageOf(Numbers(n), 0, limit) = PageOf(Numbers(n), 1, limit)
          BY <3>2, PagesAreChunks
        <4> QED
          BY <3>1, <4>1, <4>2
      <3>6. output' = [fn |-> "pages", result |-> pages] /\ input' = input
        BY <2>1, <3>1 DEF Paginate, Answers, Numbers
      <3> QED
        BY <3>1, <3>4, <3>5, <3>6 DEF PagesTileTheList, Numbers
    <2>2. CASE Encrypt \/ Hash \/ Batch \/ SplitTokens
      BY <2>2 DEF Encrypt, Hash, Batch, SplitTokens, Answers, PagesTileTheList
    <2>3. CASE UNCHANGED <<input, output>>
      BY <1>2, <2>3 DEF PagesTileTheList
    <2> QED
      BY <1>2, <2>1, <2>2, <2>3, StepOutput
  <1> QED
    BY <1>1, <1>2, InputsAreTyped, PTL DEF Spec

(* Of each kind the last token of any list is kept (PushTokenSplitter).      *)
THEOREM LastTokensAreKept == Spec => []LastOfItsKind
  <1>1. Init => LastOfItsKind
    BY InitNoOutput DEF LastOfItsKind
  <1>2. ASSUME InputInv, LastOfItsKind, [Next]_vars
        PROVE  LastOfItsKind'
    <2>1. CASE SplitTokens
      <3>1. PICK list : list = input.list
        OBVIOUS
      <3>2. list \in Seq(Element)
        BY <1>2, <2>1, <3>1 DEF InputInv, SplitTokens, Answers
      <3>3. \A slot \in DOMAIN NoTokens :
              LET of == {k \in DOMAIN list : Slot(list[k].mark) = slot} IN
              Split(list)[slot] = IF of = {} THEN 0 ELSE Value(list[Max(of)])
        BY <3>2, SplitKeepsLast
      <3>4. output' = [fn |-> "split", result |-> Split(list)] /\ input'.list = list
        BY <2>1, <3>1 DEF SplitTokens, Answers
      <3> QED
        BY <3>3, <3>4 DEF LastOfItsKind
    <2>2. CASE Encrypt \/ Hash \/ Batch \/ Paginate
      BY <2>2 DEF Encrypt, Hash, Batch, Paginate, Answers, LastOfItsKind
    <2>3. CASE UNCHANGED <<input, output>>
      BY <1>2, <2>3 DEF LastOfItsKind
    <2> QED
      BY <1>2, <2>1, <2>2, <2>3, StepOutput
  <1> QED
    BY <1>1, <1>2, InputsAreTyped, PTL DEF Spec
=============================================================================
