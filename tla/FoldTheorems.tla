------------------------------ MODULE FoldTheorems ------------------------------
(***************************************************************************)
(* What a fold over a sequence computes, for any operator Op.  A module    *)
(* that folds with an operator of its own instantiates this one with it,   *)
(* so that an induction over data is done once, here.                      *)
(***************************************************************************)
EXTENDS Integers, Sequences, SequenceTheorems, WellFoundedInduction, TLAPS

CONSTANT Op(_, _)

(***************************************************************************)
(* Induction, over a set of numbers.                                       *)
(***************************************************************************)
LEMMA Induction ==
    ASSUME NEW n \in Nat, NEW S, 0 \in S, \A k \in 0 .. n - 1 : k \in S => k + 1 \in S
    PROVE  \A k \in 0 .. n : k \in S
<1> DEFINE T == {k \in 0 .. n : k \notin S}
<1>1. SUFFICES ASSUME T # {} PROVE FALSE
  OBVIOUS
<1>2. T \subseteq Nat
  OBVIOUS
<1>3. PICK x \in T : \A y \in T : ~(<<y, x>> \in OpToRel(<, Nat))
  BY <1>1, <1>2, NatLessThanWellFounded, WFMin
<1>4. x \in 0 .. n /\ x \notin S /\ x # 0
  OBVIOUS
<1>5. x - 1 \in 0 .. n - 1 /\ x - 1 \in Nat /\ x - 1 < x /\ (x - 1) + 1 = x
  BY <1>4
<1>6. x - 1 \notin S
  BY <1>4, <1>5
<1>7. x - 1 \in T
  BY <1>5, <1>6
<1>8. <<x - 1, x>> \in OpToRel(<, Nat)
  BY <1>4, <1>5 DEF OpToRel
<1> QED BY <1>3, <1>7, <1>8

LEMMA LeastExists ==
    ASSUME NEW t, t \subseteq Nat, t # {}
    PROVE  \E x \in t : \A y \in t : x <= y
<1>1. PICK x \in t : \A y \in t : ~(<<y, x>> \in OpToRel(<, Nat))
  BY NatLessThanWellFounded, WFMin
<1>2. ASSUME NEW y \in t PROVE x <= y
  <2>1. x \in Nat /\ y \in Nat
    OBVIOUS
  <2>2. ~(y < x)
    BY <1>1, <2>1 DEF OpToRel
  <2> QED BY <2>1, <2>2
<1> QED BY <1>2

(***************************************************************************)
(* FoldLeft, as the community module defines it: a function on sets of     *)
(* positions, which takes the last one of a set off first.                 *)
(***************************************************************************)
LastOf(t) == CHOOSE x \in t : \A y \in t : x >= y

Folds(base, s, iter) ==
    iter = [t \in SUBSET DOMAIN s |->
              IF t = {} THEN base ELSE Op(iter[t \ {LastOf(t)}], s[LastOf(t)])]

Left(base, s) == (CHOOSE iter : Folds(base, s, iter))[DOMAIN s]

\* The same, position by position.
Runs(base, s, h) ==
    h[0] = base /\ \A k \in 1 .. Len(s) : h[k] = Op(h[k - 1], s[k])

LEMMA LastOfSome ==
    ASSUME NEW n \in Nat, NEW t, t \subseteq 1 .. n, t # {}
    PROVE  LastOf(t) \in t /\ \A y \in t : LastOf(t) >= y
<1> DEFINE T == {n - x : x \in t}
<1>1. T # {} /\ T \subseteq Nat
  <2>1. \A x \in t : n - x \in Nat
    OBVIOUS
  <2> QED BY <2>1
<1>2. PICK x \in T : \A y \in T : ~(<<y, x>> \in OpToRel(<, Nat))
  BY <1>1, NatLessThanWellFounded, WFMin
<1>3. PICK z \in t : x = n - z
  OBVIOUS
<1>4. ASSUME NEW y \in t PROVE z >= y
  <2>1. n - y \in T /\ n - y \in Nat /\ x \in Nat
    BY <1>1
  <2>2. ~(n - y < x)
    BY <1>2, <2>1 DEF OpToRel
  <2>3. y \in 1 .. n /\ z \in 1 .. n
    OBVIOUS
  <2> HIDE DEF T
  <2> QED BY <1>3, <2>2, <2>3
<1> QED BY <1>4 DEF LastOf

LEMMA LastOfInterval ==
    ASSUME NEW k \in Nat \ {0}
    PROVE  LastOf(1 .. k) = k /\ (1 .. k) \ {k} = 1 .. k - 1 /\ 1 .. k # {}
<1>1. k \in 1 .. k /\ \A y \in 1 .. k : k >= y
  OBVIOUS
<1>2. LastOf(1 .. k) \in 1 .. k /\ LastOf(1 .. k) >= k
  BY <1>1, LastOfSome
<1>3. LastOf(1 .. k) = k
  BY <1>2
<1> QED BY <1>1, <1>3

\* Such a function exists, ...
FoldsTo(base, s, k, g) ==
    g = [t \in SUBSET (1 .. k) |->
           IF t = {} THEN base ELSE Op(g[t \ {LastOf(t)}], s[LastOf(t)])]

LEMMA FoldsExist ==
    ASSUME NEW n \in Nat, NEW base, NEW s
    PROVE  \E g : FoldsTo(base, s, n, g)
<1> DEFINE S == {k \in 0 .. n : \E g : FoldsTo(base, s, k, g)}
<1>1. 0 \in S
  <2>1. FoldsTo(base, s, 0, [t \in SUBSET (1 .. 0) |-> base])
    <3>1. \A t \in SUBSET (1 .. 0) : t = {}
      OBVIOUS
    <3> QED BY <3>1 DEF FoldsTo
  <2> QED BY <2>1
<1>2. ASSUME NEW k \in 0 .. n - 1, k \in S PROVE k + 1 \in S
  <2>1. PICK g : FoldsTo(base, s, k, g)
    BY <1>2
  <2> DEFINE f == [t \in SUBSET (1 .. k + 1) |->
                     IF k + 1 \in t THEN Op(g[t \ {k + 1}], s[k + 1]) ELSE g[t]]
             e == [t \in SUBSET (1 .. k + 1) |->
                     IF t = {} THEN base ELSE Op(f[t \ {LastOf(t)}], s[LastOf(t)])]
  <2>2. ASSUME NEW t \in SUBSET (1 .. k + 1), k + 1 \in t PROVE f[t] = e[t]
    <3>1. LastOf(t) = k + 1
      <4>1. k + 1 \in Nat /\ t # {}
        BY <2>2
      <4>2. LastOf(t) \in t /\ LastOf(t) >= k + 1
        BY <2>2, <4>1, LastOfSome
      <4>3. LastOf(t) \in 1 .. k + 1
        BY <4>2
      <4> QED BY <4>2, <4>3
    <3>2. t \ {k + 1} \in SUBSET (1 .. k + 1) /\ k + 1 \notin t \ {k + 1}
      OBVIOUS
    <3>3. f[t \ {k + 1}] = g[t \ {k + 1}]
      BY <3>2
    <3>4. f[t] = Op(g[t \ {k + 1}], s[k + 1])
      BY <2>2
    <3>5. e[t] = Op(f[t \ {k + 1}], s[k + 1])
      BY <2>2, <3>1
    <3> QED BY <3>3, <3>4, <3>5
  <2>3. ASSUME NEW t \in SUBSET (1 .. k + 1), k + 1 \notin t PROVE f[t] = e[t]
    <3>1. t \in SUBSET (1 .. k) /\ f[t] = g[t]
      BY <2>3
    <3>2. g[t] = IF t = {} THEN base ELSE Op(g[t \ {LastOf(t)}], s[LastOf(t)])
      BY <2>1, <3>1 DEF FoldsTo
    <3>3. t \ {LastOf(t)} \in SUBSET (1 .. k + 1) /\ k + 1 \notin t \ {LastOf(t)}
      BY <2>3
    <3>4. f[t \ {LastOf(t)}] = g[t \ {LastOf(t)}]
      BY <3>3
    <3>5. e[t] = IF t = {} THEN base ELSE Op(f[t \ {LastOf(t)}], s[LastOf(t)])
      OBVIOUS
    <3> QED BY <3>1, <3>2, <3>4, <3>5
  <2>4. f = e
    <3>1. \A t \in SUBSET (1 .. k + 1) : f[t] = e[t]
      BY <2>2, <2>3
    <3>2. f = [t \in SUBSET (1 .. k + 1) |-> f[t]] /\ e = [t \in SUBSET (1 .. k + 1) |-> e[t]]
      OBVIOUS
    <3> HIDE DEF f, e
    <3> QED BY <3>1, <3>2
  <2>5. FoldsTo(base, s, k + 1, f)
    <3> HIDE DEF f
    <3> QED BY <2>4 DEF FoldsTo
  <2>6. k + 1 \in 0 .. n
    OBVIOUS
  <2> QED BY <2>5, <2>6
<1>3. n \in S
  <2> HIDE DEF S
  <2> QED BY <1>1, <1>2, Induction
<1> QED BY <1>3

\* ... so FoldLeft runs through the sequence from the first to the last.
THEOREM LeftRuns ==
    ASSUME NEW base, NEW T, NEW s \in Seq(T)
    PROVE  \E h : Runs(base, s, h) /\ h[Len(s)] = Left(base, s)
<1> DEFINE n == Len(s)
           iter == CHOOSE g : Folds(base, s, g)
           h == [k \in 0 .. n |-> iter[1 .. k]]
<1>1. n \in Nat /\ DOMAIN s = 1 .. n
  OBVIOUS
<1>2. Folds(base, s, iter)
  <2>1. PICK g : FoldsTo(base, s, n, g)
    BY <1>1, FoldsExist
  <2>2. Folds(base, s, g)
    BY <1>1, <2>1 DEF FoldsTo, Folds
  <2> QED BY <2>2
<1>3. Left(base, s) = iter[1 .. n]
  BY <1>1 DEF Left
<1> HIDE DEF n, iter
<1>4. \A t \in SUBSET (1 .. n) :
         iter[t] = IF t = {} THEN base ELSE Op(iter[t \ {LastOf(t)}], s[LastOf(t)])
  BY <1>1, <1>2 DEF Folds
<1>5. h[0] = base
  <2>1. 1 .. 0 = {} /\ {} \in SUBSET (1 .. n)
    OBVIOUS
  <2>2. iter[{}] = base
    BY <1>4, <2>1
  <2> QED BY <1>1, <2>1, <2>2
<1>6. ASSUME NEW k \in 1 .. n PROVE h[k] = Op(h[k - 1], s[k])
  <2>1. k \in Nat \ {0} /\ 1 .. k \in SUBSET (1 .. n) /\ k \in 0 .. n /\ k - 1 \in 0 .. n
    BY <1>1
  <2>2. LastOf(1 .. k) = k /\ (1 .. k) \ {k} = 1 .. k - 1 /\ 1 .. k # {}
    BY <2>1, LastOfInterval
  <2>3. iter[1 .. k] = Op(iter[1 .. k - 1], s[k])
    BY <1>4, <2>1, <2>2
  <2> QED BY <2>1, <2>3
<1>7. h[n] = Left(base, s)
  BY <1>1, <1>3
<1> HIDE DEF h
<1>8. Runs(base, s, h)
  BY <1>5, <1>6 DEF Runs, n
<1> QED BY <1>7, <1>8 DEF n

\* Whatever runs through the sequence ends where FoldLeft does.
THEOREM RunsAgree ==
    ASSUME NEW base, NEW T, NEW s \in Seq(T), NEW h, Runs(base, s, h)
    PROVE  h[Len(s)] = Left(base, s)
<1>1. PICK g : Runs(base, s, g) /\ g[Len(s)] = Left(base, s)
  BY LeftRuns
<1> DEFINE n == Len(s)
           S == {k \in 0 .. n : h[k] = g[k]}
<1>2. n \in Nat
  OBVIOUS
<1>3. 0 \in S
  BY <1>1, <1>2 DEF Runs
<1>4. ASSUME NEW k \in 0 .. n - 1, k \in S PROVE k + 1 \in S
  <2>1. k + 1 \in 1 .. n /\ (k + 1) - 1 = k /\ h[k] = g[k]
    BY <1>2, <1>4
  <2>2. h[k + 1] = Op(h[k], s[k + 1]) /\ g[k + 1] = Op(g[k], s[k + 1])
    BY <1>1, <2>1 DEF Runs
  <2>3. h[k + 1] = g[k + 1] /\ k + 1 \in 0 .. n
    BY <2>1, <2>2
  <2> QED BY <2>3
<1>5. n \in S
  <2>1. n \in 0 .. n
    BY <1>2
  <2> HIDE DEF S, n
  <2> QED BY <1>2, <1>3, <1>4, <2>1, Induction
<1> QED BY <1>1, <1>5

(***************************************************************************)
(* The fold of no element, of one more, and of a concatenation.            *)
(***************************************************************************)
THEOREM LeftEmpty ==
    ASSUME NEW base
    PROVE  Left(base, <<>>) = base
<1>1. <<>> \in Seq({}) /\ Len(<<>>) = 0
  OBVIOUS
<1>2. PICK h : Runs(base, <<>>, h) /\ h[Len(<<>>)] = Left(base, <<>>)
  BY <1>1, LeftRuns
<1> QED BY <1>1, <1>2 DEF Runs

\* Folding a concatenation is folding the second part from where the first ended.
THEOREM LeftConcat ==
    ASSUME NEW base, NEW T, NEW s \in Seq(T), NEW t \in Seq(T)
    PROVE  Left(base, s \o t) = Left(Left(base, s), t)
<1> DEFINE m == Len(s)
           n == Len(t)
           u == s \o t
<1>1. /\ m \in Nat /\ n \in Nat /\ u \in Seq(T) /\ Len(u) = m + n
      /\ \A k \in 1 .. m : u[k] = s[k]
      /\ \A k \in 1 .. n : u[m + k] = t[k]
  OBVIOUS
<1>2. PICK g : Runs(base, s, g) /\ g[m] = Left(base, s)
  BY LeftRuns
<1>3. PICK h : Runs(Left(base, s), t, h) /\ h[n] = Left(Left(base, s), t)
  BY LeftRuns
<1> DEFINE f == [k \in 0 .. m + n |-> IF k <= m THEN g[k] ELSE h[k - m]]
<1>4. f[0] = base
  BY <1>1, <1>2 DEF Runs
<1>5. ASSUME NEW k \in 1 .. m + n PROVE f[k] = Op(f[k - 1], u[k])
  <2>1. CASE k <= m
    <3>1. k \in 1 .. m /\ k - 1 <= m /\ k - 1 \in 0 .. m + n /\ k \in 0 .. m + n
      BY <1>1, <2>1
    <3>2. g[k] = Op(g[k - 1], s[k])
      BY <1>2, <3>1 DEF Runs
    <3>3. f[k] = g[k] /\ f[k - 1] = g[k - 1] /\ u[k] = s[k]
      BY <1>1, <2>1, <3>1
    <3> QED BY <3>2, <3>3
  <2>2. CASE k = m + 1
    <3>1. 1 \in 1 .. n /\ k - 1 = m /\ k \in 0 .. m + n /\ m \in 0 .. m + n
      BY <1>1, <2>2
    <3>2. h[1] = Op(h[0], t[1]) /\ h[0] = Left(base, s)
      <4>1. 1 - 1 = 0
        OBVIOUS
      <4> QED BY <1>3, <3>1, <4>1 DEF Runs
    <3>3. f[k] = h[1]
      BY <1>1, <2>2, <3>1
    <3>4. f[k - 1] = g[m] /\ u[k] = t[1]
      BY <1>1, <2>2, <3>1
    <3> QED BY <1>2, <3>2, <3>3, <3>4
  <2>3. CASE k > m + 1
    <3>1. /\ k - m \in 1 .. n /\ k \in 0 .. m + n /\ k - 1 \in 0 .. m + n
          /\ ~(k <= m) /\ ~(k - 1 <= m) /\ (k - 1) - m = (k - m) - 1 /\ m + (k - m) = k
      BY <1>1, <2>3
    <3>2. h[k - m] = Op(h[(k - m) - 1], t[k - m])
      BY <1>3, <3>1 DEF Runs
    <3>3. u[m + (k - m)] = t[k - m]
      BY <1>1, <3>1
    <3>4. f[k] = h[k - m] /\ f[k - 1] = h[(k - m) - 1]
      BY <3>1
    <3> QED BY <3>1, <3>2, <3>3, <3>4
  <2> QED BY <1>1, <2>1, <2>2, <2>3
<1>6. f[m + n] = h[n]
  <2>1. CASE n = 0
    <3>1. f[m + n] = g[m] /\ h[0] = Left(base, s)
      BY <1>1, <1>3, <2>1 DEF Runs
    <3> QED BY <1>2, <2>1, <3>1
  <2>2. CASE n # 0
    <3>1. m + n \in 0 .. m + n /\ ~(m + n <= m) /\ (m + n) - m = n
      BY <1>1, <2>2
    <3> QED BY <3>1
  <2> QED BY <2>1, <2>2
<1> HIDE DEF f
<1>7. Runs(base, u, f)
  BY <1>1, <1>4, <1>5 DEF Runs
<1>8. f[Len(u)] = Left(base, u)
  BY <1>1, <1>7, RunsAgree
<1> QED BY <1>1, <1>3, <1>6, <1>8

\* One more element is one more step.
THEOREM LeftAppend ==
    ASSUME NEW base, NEW T, NEW s \in Seq(T), NEW x \in T
    PROVE  Left(base, Append(s, x)) = Op(Left(base, s), x)
<1>1. <<x>> \in Seq(T) /\ Len(<<x>>) = 1 /\ <<x>>[1] = x /\ Append(s, x) = s \o <<x>>
  OBVIOUS
<1>2. PICK h : Runs(Left(base, s), <<x>>, h) /\ h[1] = Left(Left(base, s), <<x>>)
  BY <1>1, LeftRuns
<1>3. h[1] = Op(h[0], x) /\ h[0] = Left(base, s)
  <2>1. 1 \in 1 .. 1 /\ 1 - 1 = 0
    OBVIOUS
  <2> QED BY <1>1, <1>2, <2>1 DEF Runs
<1>4. Left(base, s \o <<x>>) = Left(Left(base, s), <<x>>)
  <2> DEFINE one == <<x>>
  <2>1. one \in Seq(T)
    BY <1>1
  <2> HIDE DEF one
  <2>2. Left(base, s \o one) = Left(Left(base, s), one)
    BY <2>1, LeftConcat
  <2> QED BY <2>2 DEF one
<1> QED BY <1>1, <1>2, <1>3, <1>4

(***************************************************************************)
(* What every step keeps, the fold keeps; and when every step adds to a    *)
(* measure what depends on the element alone, so does the fold.            *)
(***************************************************************************)
THEOREM LeftType ==
    ASSUME NEW S, NEW T, NEW base \in S, NEW s \in Seq(T),
           \A a \in S : \A x \in T : Op(a, x) \in S
    PROVE  Left(base, s) \in S
<1>1. PICK h : Runs(base, s, h) /\ h[Len(s)] = Left(base, s)
  BY LeftRuns
<1> DEFINE n == Len(s)
           K == {k \in 0 .. n : h[k] \in S}
<1>2. n \in Nat /\ \A k \in 1 .. n : s[k] \in T
  OBVIOUS
<1>3. 0 \in K
  BY <1>1, <1>2 DEF Runs
<1>4. ASSUME NEW k \in 0 .. n - 1, k \in K PROVE k + 1 \in K
  <2>1. k + 1 \in 1 .. n /\ (k + 1) - 1 = k /\ h[k] \in S /\ k + 1 \in 0 .. n
    BY <1>2, <1>4
  <2>2. h[k + 1] = Op(h[k], s[k + 1]) /\ s[k + 1] \in T
    BY <1>1, <1>2, <2>1 DEF Runs
  <2>3. h[k + 1] \in S
    BY <2>1, <2>2
  <2> QED BY <2>1, <2>3
<1>5. n \in K
  <2>1. n \in 0 .. n
    BY <1>2
  <2> HIDE DEF K, n
  <2> QED BY <1>2, <1>3, <1>4, <2>1, Induction
<1> QED BY <1>1, <1>5

Additive(S, T, measure, adds) ==
    /\ measure \in [S -> Int] /\ adds \in [T -> Int]
    /\ \A c \in S : \A x \in T : Op(c, x) \in S /\ measure[Op(c, x)] = measure[c] + adds[x]

\* A measure to which each element adds its own share grows alike from any start.
THEOREM LeftAdds ==
    ASSUME NEW S, NEW T, NEW measure, NEW adds, Additive(S, T, measure, adds),
           NEW s \in Seq(T), NEW a \in S, NEW b \in S
    PROVE  measure[Left(a, s)] - measure[a] = measure[Left(b, s)] - measure[b]
<1>1. PICK g : Runs(a, s, g) /\ g[Len(s)] = Left(a, s)
  BY LeftRuns
<1>2. PICK h : Runs(b, s, h) /\ h[Len(s)] = Left(b, s)
  BY LeftRuns
<1> DEFINE n == Len(s)
           Same(k) == measure[g[k]] - measure[a] = measure[h[k]] - measure[b]
           K == {k \in 0 .. n : g[k] \in S /\ h[k] \in S /\ Same(k)}
<1>3. n \in Nat /\ \A k \in 1 .. n : s[k] \in T
  OBVIOUS
<1>4. 0 \in K
  <2>1. g[0] = a /\ h[0] = b /\ measure[a] \in Int /\ measure[b] \in Int
    BY <1>1, <1>2 DEF Runs, Additive
  <2>2. Same(0)
    BY <2>1
  <2> HIDE DEF Same
  <2> QED BY <1>3, <2>1, <2>2
<1>5. ASSUME NEW k \in 0 .. n - 1, k \in K PROVE k + 1 \in K
  <2>1. /\ k + 1 \in 1 .. n /\ (k + 1) - 1 = k /\ k + 1 \in 0 .. n
        /\ g[k] \in S /\ h[k] \in S /\ Same(k)
    BY <1>3, <1>5
  <2>2. g[k + 1] = Op(g[k], s[k + 1]) /\ h[k + 1] = Op(h[k], s[k + 1]) /\ s[k + 1] \in T
    BY <1>1, <1>2, <1>3, <2>1 DEF Runs
  <2> HIDE DEF Same
  <2>3. /\ g[k + 1] \in S /\ measure[g[k + 1]] = measure[g[k]] + adds[s[k + 1]]
        /\ h[k + 1] \in S /\ measure[h[k + 1]] = measure[h[k]] + adds[s[k + 1]]
    <3>1. /\ Op(g[k], s[k + 1]) \in S
          /\ measure[Op(g[k], s[k + 1])] = measure[g[k]] + adds[s[k + 1]]
      BY <2>1, <2>2 DEF Additive
    <3>2. /\ Op(h[k], s[k + 1]) \in S
          /\ measure[Op(h[k], s[k + 1])] = measure[h[k]] + adds[s[k + 1]]
      BY <2>1, <2>2 DEF Additive
    <3> QED BY <2>2, <3>1, <3>2
  <2>4. /\ measure[g[k]] \in Int /\ measure[h[k]] \in Int /\ adds[s[k + 1]] \in Int
        /\ measure[a] \in Int /\ measure[b] \in Int
    BY <2>1, <2>2 DEF Additive
  <2> USE DEF Same
  <2>5. Same(k + 1)
    <3> DEFINE p == measure[g[k]]
               q == measure[h[k]]
               r == adds[s[k + 1]]
               i == measure[a]
               j == measure[b]
    <3>1. p \in Int /\ q \in Int /\ r \in Int /\ i \in Int /\ j \in Int /\ p - i = q - j
      BY <2>1, <2>4
    <3>2. measure[g[k + 1]] = p + r /\ measure[h[k + 1]] = q + r
      BY <2>3
    <3> HIDE DEF p, q, r, i, j
    <3>3. (p + r) - i = (q + r) - j
      BY <3>1
    <3> QED BY <3>2, <3>3 DEF i, j
  <2> HIDE DEF Same
  <2> QED BY <2>1, <2>3, <2>5
<1>6. n \in K
  <2>1. n \in 0 .. n
    BY <1>3
  <2> HIDE DEF K, n
  <2> QED BY <1>3, <1>4, <1>5, <2>1, Induction
<1> QED BY <1>1, <1>2, <1>6

(***************************************************************************)
(* A change of the base that every step commutes with can be made          *)
(* afterwards.                                                             *)
(***************************************************************************)
Commutes(S, T, f) ==
    /\ f \in [S -> S]
    /\ \A c \in S : \A x \in T : Op(c, x) \in S /\ f[Op(c, x)] = Op(f[c], x)

\* A map that every step commutes with may be applied before the fold or after it.
THEOREM LeftMaps ==
    ASSUME NEW S, NEW T, NEW f, Commutes(S, T, f), NEW s \in Seq(T), NEW base \in S
    PROVE  Left(f[base], s) = f[Left(base, s)]
<1>1. PICK g : Runs(base, s, g) /\ g[Len(s)] = Left(base, s)
  BY LeftRuns
<1> DEFINE n == Len(s)
           h == [k \in 0 .. n |-> f[g[k]]]
           K == {k \in 0 .. n : g[k] \in S}
<1>2. n \in Nat /\ \A k \in 1 .. n : s[k] \in T
  OBVIOUS
<1>3. g[0] = base
  BY <1>1 DEF Runs
<1>4. ASSUME NEW k \in 1 .. n, g[k - 1] \in S
      PROVE  g[k] \in S /\ f[g[k]] = Op(f[g[k - 1]], s[k])
  <2>1. g[k] = Op(g[k - 1], s[k]) /\ s[k] \in T
    BY <1>1, <1>2 DEF Runs
  <2>2. Op(g[k - 1], s[k]) \in S /\ f[Op(g[k - 1], s[k])] = Op(f[g[k - 1]], s[k])
    BY <1>4, <2>1 DEF Commutes
  <2> QED BY <2>1, <2>2
<1>5. \A k \in 0 .. n : k \in K
  <2>1. 0 \in K
    BY <1>2, <1>3
  <2>2. ASSUME NEW k \in 0 .. n - 1, k \in K PROVE k + 1 \in K
    <3>1. k + 1 \in 1 .. n /\ (k + 1) - 1 = k /\ k + 1 \in 0 .. n /\ g[k] \in S
      BY <1>2, <2>2
    <3>2. g[k + 1] \in S
      BY <1>4, <3>1
    <3> QED BY <3>1, <3>2
  <2> HIDE DEF K, n
  <2> QED BY <1>2, <2>1, <2>2, Induction
<1>6. Runs(f[base], s, h)
  <2>1. h[0] = f[base]
    BY <1>2, <1>3
  <2>2. ASSUME NEW k \in 1 .. n PROVE h[k] = Op(h[k - 1], s[k])
    <3>1. k \in 0 .. n /\ k - 1 \in 0 .. n
      BY <1>2
    <3>2. g[k - 1] \in S
      BY <1>5, <3>1
    <3>3. f[g[k]] = Op(f[g[k - 1]], s[k])
      BY <1>4, <3>2
    <3> QED BY <3>1, <3>3
  <2> HIDE DEF h
  <2> QED BY <2>1, <2>2 DEF Runs
<1>7. h[n] = f[g[n]]
  BY <1>2
<1>8. h[Len(s)] = Left(f[base], s)
  <2> HIDE DEF h
  <2> QED BY <1>6, RunsAgree
<1> QED BY <1>1, <1>7, <1>8

LEMMA NaturalInduction ==
    ASSUME NEW S, 0 \in S, \A k \in Nat : k \in S => k + 1 \in S
    PROVE  \A k \in Nat : k \in S
<1>1. ASSUME NEW n \in Nat PROVE n \in S
  <2>1. \A k \in 0 .. n - 1 : k \in S => k + 1 \in S
    OBVIOUS
  <2>2. \A k \in 0 .. n : k \in S
    BY <2>1, Induction
  <2> QED BY <2>2
<1> QED BY <1>1

(***************************************************************************)
(* A function on the numbers, each value made from the one before it,      *)
(* exists: a recursive definition of it is what its equation says.         *)
(***************************************************************************)
THEOREM RecursionExists ==
    ASSUME NEW base
    PROVE  \E h : h = [d \in Nat |-> IF d = 0 THEN base ELSE Op(h[d - 1], d)]
<1> DEFINE Upto(d) == [i \in 1 .. d |-> i]
           h == [d \in Nat |-> Left(base, Upto(d))]
           g == [d \in Nat |-> IF d = 0 THEN base ELSE Op(h[d - 1], d)]
<1>1. h[0] = base
  <2>1. Upto(0) = <<>>
    OBVIOUS
  <2>2. Left(base, Upto(0)) = base
    BY <2>1, LeftEmpty
  <2> QED BY <2>2
<1>2. ASSUME NEW d \in Nat \ {0} PROVE h[d] = Op(h[d - 1], d)
  <2>1. d - 1 \in Nat /\ d \in Nat
    OBVIOUS
  <2>2. Upto(d - 1) \in Seq(Nat)
    BY <2>1
  <2>3. Upto(d) = Append(Upto(d - 1), d)
    <3>1. /\ Append(Upto(d - 1), d) \in Seq(Nat) /\ Len(Append(Upto(d - 1), d)) = d
          /\ \A i \in 1 .. d : Append(Upto(d - 1), d)[i] = i
      BY <2>1, <2>2
    <3>2. Upto(d) \in Seq(Nat) /\ Len(Upto(d)) = d /\ \A i \in 1 .. d : Upto(d)[i] = i
      BY <2>1
    <3> HIDE DEF Upto
    <3> QED BY <2>1, <3>1, <3>2, SeqEqual
  <2> HIDE DEF Upto
  <2>4. Left(base, Upto(d)) = Op(Left(base, Upto(d - 1)), d)
    BY <2>1, <2>2, <2>3, LeftAppend
  <2> QED BY <2>1, <2>4
<1>3. ASSUME NEW d \in Nat PROVE h[d] = g[d]
  <2> HIDE DEF h
  <2> QED BY <1>1, <1>2
<1>4. h = g
  <2>1. h = [d \in Nat |-> h[d]] /\ g = [d \in Nat |-> g[d]]
    OBVIOUS
  <2> HIDE DEF h, g
  <2> QED BY <1>3, <2>1
<1> HIDE DEF h
<1> QED BY <1>4

=============================================================================
