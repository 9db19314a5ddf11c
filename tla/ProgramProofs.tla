------------------------------ MODULE ProgramProofs ------------------------------
(***************************************************************************)
(* Theorems about the small programs: the measurement aggregator, for any  *)
(* files, threads and order they end in; the expense tracker, for any      *)
(* commands; the environment loader, for all names, values, types and      *)
(* parsers, any declarations and any changes of the environment; and the C *)
(* interface of the Bloom filter, for any items, hashes, sizes, addresses. *)
(***************************************************************************)
EXTENDS Brc, Expenses, EnvTyped, Cbloom, FiniteSetsExt, FiniteSetTheorems, SequenceTheorems, TLAPS

DelimitFold == INSTANCE FoldTheorems WITH Op <- Delimit
TallyFold   == INSTANCE FoldTheorems WITH Op <- Tallied
PushFold    == INSTANCE FoldTheorems WITH Op <- Pushed
CombineFold == INSTANCE FoldTheorems WITH Op <- Combined

-----------------------------------------------------------------------------
(***************************************************************************)
(* Sums over finite sets, as the community module adds them up: g gives    *)
(* the sum of f over every subset of S.                                    *)
(***************************************************************************)
AnyOf(t) == CHOOSE x \in t : TRUE

SumsOf(f, S, g) ==
    g = [t \in SUBSET S |-> IF t = {} THEN 0 ELSE f[AnyOf(t)] + g[t \ {AnyOf(t)}]]

Inductive(S, P) == \A t \in SUBSET S : (\A x \in t : t \ {x} \in P) => t \in P

LEMMA FiniteInduction ==
    ASSUME NEW S, IsFiniteSet(S), NEW P, Inductive(S, P)
    PROVE  \A t \in SUBSET S : t \in P
<1> DEFINE n == Cardinality(S)
           K == {k \in 0 .. n : \A t \in SUBSET S : Cardinality(t) = k => t \in P}
<1>1. n \in Nat /\ \A t \in SUBSET S : IsFiniteSet(t) /\ Cardinality(t) \in 0 .. n
  <2>1. n \in Nat
    BY FS_CardinalityType
  <2>2. ASSUME NEW t \in SUBSET S PROVE IsFiniteSet(t) /\ Cardinality(t) \in 0 .. n
    <3>1. IsFiniteSet(t) /\ Cardinality(t) <= n /\ Cardinality(t) \in Nat
      BY FS_Subset, FS_CardinalityType
    <3> QED BY <2>1, <3>1
  <2> QED BY <2>1, <2>2
<1>2. 0 \in K
  <2>1. ASSUME NEW t \in SUBSET S, Cardinality(t) = 0 PROVE t \in P
    <3>1. t = {}
      BY <1>1, <2>1, FS_EmptySet
    <3> QED BY <3>1 DEF Inductive
  <2> QED BY <1>1, <2>1
<1>3. ASSUME NEW k \in 0 .. n - 1, k \in K PROVE k + 1 \in K
  <2>1. ASSUME NEW t \in SUBSET S, Cardinality(t) = k + 1 PROVE t \in P
    <3>1. ASSUME NEW x \in t PROVE t \ {x} \in P
      <4>1. Cardinality(t \ {x}) = Cardinality(t) - 1
        BY <1>1, FS_RemoveElement
      <4>2. Cardinality(t \ {x}) = k
        BY <1>1, <2>1, <4>1
      <4> QED BY <1>3, <4>2
    <3> QED BY <3>1 DEF Inductive
  <2>2. k + 1 \in 0 .. n
    BY <1>1
  <2> QED BY <2>1, <2>2
<1> HIDE DEF K
<1>4. \A k \in 0 .. n : k \in K
  BY <1>1, <1>2, <1>3, DelimitFold!Induction
<1> QED BY <1>1, <1>4 DEF K

LEMMA AnyIsIn == ASSUME NEW t, t # {} PROVE AnyOf(t) \in t
BY DEF AnyOf

LEMMA SumsAt ==
    ASSUME NEW f, NEW S, NEW g, SumsOf(f, S, g), NEW t \in SUBSET S
    PROVE  g[t] = IF t = {} THEN 0 ELSE f[AnyOf(t)] + g[t \ {AnyOf(t)}]
BY DEF SumsOf

LEMMA SumsWithin ==
    ASSUME NEW f, NEW S, NEW g, SumsOf(f, S, g), NEW u \in SUBSET S
    PROVE  SumsOf(f, u, [v \in SUBSET u |-> g[v]])
<1> DEFINE h == [v \in SUBSET u |-> g[v]]
<1>1. ASSUME NEW v \in SUBSET u
      PROVE  h[v] = IF v = {} THEN 0 ELSE f[AnyOf(v)] + h[v \ {AnyOf(v)}]
  <2>1. v \in SUBSET S /\ v \ {AnyOf(v)} \in SUBSET u
    OBVIOUS
  <2>2. g[v] = IF v = {} THEN 0 ELSE f[AnyOf(v)] + g[v \ {AnyOf(v)}]
    BY <2>1, SumsAt
  <2> QED BY <2>1, <2>2
<1>2. h = [v \in SUBSET u |-> h[v]]
  OBVIOUS
<1> HIDE DEF h
<1>3. h = [v \in SUBSET u |-> IF v = {} THEN 0 ELSE f[AnyOf(v)] + h[v \ {AnyOf(v)}]]
  BY <1>1, <1>2
<1>4. SumsOf(f, u, h)
  BY <1>3 DEF SumsOf
<1> QED BY <1>4 DEF h

LEMMA SumsAgree ==
    ASSUME NEW f, NEW e, NEW S, NEW T \in SUBSET S, IsFiniteSet(S), NEW g, NEW h,
           \A x \in T : e[x] = f[x], SumsOf(f, S, g), SumsOf(e, T, h)
    PROVE  h[T] = g[T]
<1> DEFINE P == {t \in SUBSET T : g[t] = h[t]}
<1>1. ASSUME NEW t \in SUBSET T, \A x \in t : t \ {x} \in P PROVE t \in P
  <2>1. CASE t = {}
    <3>1. g[t] = 0 /\ h[t] = 0
      BY <2>1 DEF SumsOf
    <3> QED BY <3>1
  <2>2. CASE t # {}
    <3>1. AnyOf(t) \in t
      BY <2>2, AnyIsIn
    <3>2. g[t \ {AnyOf(t)}] = h[t \ {AnyOf(t)}]
      BY <1>1, <3>1
    <3>3. g[t] = f[AnyOf(t)] + g[t \ {AnyOf(t)}]
      BY <2>2 DEF SumsOf
    <3>4. h[t] = e[AnyOf(t)] + h[t \ {AnyOf(t)}]
      BY <2>2 DEF SumsOf
    <3> QED BY <3>1, <3>2, <3>3, <3>4
  <2> QED BY <2>1, <2>2
<1>2. IsFiniteSet(T)
  BY FS_Subset
<1>9. Inductive(T, P)
  BY <1>1 DEF Inductive
<1> HIDE DEF P
<1>3. T \in P
  BY <1>2, <1>9, FiniteInduction
<1> QED BY <1>3 DEF P

LEMMA SumsExist ==
    ASSUME NEW f, NEW S, IsFiniteSet(S)
    PROVE  \E g : SumsOf(f, S, g)
<1> DEFINE P == {t \in SUBSET S : \E g : SumsOf(f, t, g)}
<1>1. ASSUME NEW t \in SUBSET S, \A x \in t : t \ {x} \in P PROVE t \in P
  <2>1. CASE t = {}
    <3>1. SumsOf(f, t, [u \in SUBSET t |-> 0])
      BY <2>1 DEF SumsOf
    <3> QED BY <3>1
  <2>2. CASE t # {}
    <3> DEFINE a == AnyOf(t)
               part == [x \in t |-> CHOOSE g : SumsOf(f, t \ {x}, g)]
               g == [u \in SUBSET t |->
                       IF u # t THEN part[CHOOSE x \in t : x \notin u][u]
                       ELSE f[a] + part[a][t \ {a}]]
    <3>1. a \in t
      BY <2>2, AnyIsIn
    <3>2. \A x \in t : SumsOf(f, t \ {x}, part[x])
      BY <1>1
    <3>3. ASSUME NEW u \in SUBSET t, NEW x \in t \ u, NEW y \in t \ u
          PROVE  part[x][u] = part[y][u]
      <4>1. IsFiniteSet(t \ {x}) /\ IsFiniteSet(t \ {y}) /\ u \in SUBSET (t \ {x}) /\ u \in SUBSET (t \ {y})
        BY FS_Subset
      <4> DEFINE G == part[x]
                 H == part[y]
      <4>2. SumsOf(f, t \ {x}, G) /\ SumsOf(f, t \ {y}, H)
        BY <3>2
      <4> HIDE DEF G, H
      <4>3. SumsOf(f, u, [v \in SUBSET u |-> G[v]])
        BY <4>1, <4>2, SumsWithin
      <4>4. G[u] = H[u]
        <5> DEFINE e == [v \in SUBSET u |-> G[v]]
        <5>1. e[u] = G[u]
          OBVIOUS
        <5> HIDE DEF e
        <5>2. SumsOf(f, u, e)
          BY <4>3 DEF e
        <5>3. IsFiniteSet(t \ {y}) /\ e[u] = H[u]
          BY <4>1, <4>2, <5>2, SumsAgree
        <5> QED BY <5>1, <5>3
      <4> QED BY <4>4 DEF G, H
    <3>4. ASSUME NEW u \in SUBSET t
          PROVE  g[u] = IF u = {} THEN 0 ELSE f[AnyOf(u)] + g[u \ {AnyOf(u)}]
      <4>1. CASE u = t
        <5>1. a \in t \ (t \ {a}) /\ t \ {a} # t /\ t \ {a} \in SUBSET t
          BY <3>1
        <5>2. g[t \ {a}] = part[CHOOSE x \in t : x \notin t \ {a}][t \ {a}]
          BY <5>1
        <5>3. (CHOOSE x \in t : x \notin t \ {a}) \in t \ (t \ {a})
          BY <5>1
        <5>4. g[t \ {a}] = part[a][t \ {a}]
          BY <5>1, <5>2, <5>3, <3>3
        <5>5. g[t] = f[a] + part[a][t \ {a}]
          OBVIOUS
        <5> QED BY <2>2, <4>1, <5>4, <5>5
      <4>2. CASE u # t
        <5> DEFINE x == CHOOSE y \in t : y \notin u
                   w == u \ {AnyOf(u)}
                   z == CHOOSE y \in t : y \notin w
        <5>1. x \in t \ u
          BY <4>2
        <5>2. g[u] = part[x][u]
          BY <4>2
        <5>3. u \in SUBSET (t \ {x})
          BY <5>1
        <5>4. part[x][u] = IF u = {} THEN 0 ELSE f[AnyOf(u)] + part[x][w]
          <6> DEFINE G == part[x]
                     T == t \ {x}
          <6>1. SumsOf(f, T, G) /\ u \in SUBSET T
            BY <3>2, <5>1
          <6> HIDE DEF G, T
          <6>2. G[u] = IF u = {} THEN 0 ELSE f[AnyOf(u)] + G[u \ {AnyOf(u)}]
            BY <6>1, SumsAt
          <6> QED BY <6>2 DEF G
        <5>5. w \in SUBSET t /\ x \in t \ w /\ w # t
          BY <5>1
        <5>6. z \in t \ w
          BY <5>5
        <5>7. g[w] = part[z][w]
          BY <5>5
        <5> HIDE DEF g, x, z, part, w
        <5>8. part[z][w] = part[x][w]
          BY <5>5, <5>6, <3>3
        <5>9. u # {} => g[u] = f[AnyOf(u)] + g[w]
          BY <5>2, <5>4, <5>7, <5>8
        <5>10. u = {} => g[u] = 0
          BY <5>2, <5>4
        <5> QED BY <5>9, <5>10 DEF w
      <4> QED BY <4>1, <4>2
    <3>5. SumsOf(f, t, g)
      <4>1. g = [u \in SUBSET t |-> IF u = {} THEN 0 ELSE f[AnyOf(u)] + g[u \ {AnyOf(u)}]]
        <5>1. g = [u \in SUBSET t |-> g[u]]
          OBVIOUS
        <5> HIDE DEF g
        <5> QED BY <3>4, <5>1
      <4> HIDE DEF g
      <4> QED BY <4>1 DEF SumsOf
    <3> QED BY <3>5
  <2> QED BY <2>1, <2>2
<1>9. Inductive(S, P)
  BY <1>1 DEF Inductive
<1> HIDE DEF P
<1>2. S \in P
  BY <1>9, FiniteInduction
<1> QED BY <1>2 DEF P

\* g adds up numbers, finitely many.
Adds(f, S, g) == IsFiniteSet(S) /\ SumsOf(f, S, g) /\ \A x \in S : f[x] \in Int

LEMMA SumsTake ==
    ASSUME NEW f, NEW S, NEW g, Adds(f, S, g)
    PROVE  \A t \in SUBSET S : g[t] \in Int /\ \A x \in t : g[t] = f[x] + g[t \ {x}]
<1>0. IsFiniteSet(S) /\ SumsOf(f, S, g) /\ \A x \in S : f[x] \in Int
  BY DEF Adds
<1>2. \A t \in SUBSET S : g[t] \in Int
  <2> DEFINE Q == {t \in SUBSET S : g[t] \in Int}
  <2>1. ASSUME NEW t \in SUBSET S, \A x \in t : t \ {x} \in Q PROVE t \in Q
    <3>1. g[t] = IF t = {} THEN 0 ELSE f[AnyOf(t)] + g[t \ {AnyOf(t)}]
      <4> HIDE DEF Q
      <4> QED BY <1>0, SumsAt
    <3>2. CASE t = {}
      BY <3>1, <3>2
    <3>3. CASE t # {}
      <4>1. AnyOf(t) \in t
        BY <3>3, AnyIsIn
      <4>2. f[AnyOf(t)] \in Int /\ g[t \ {AnyOf(t)}] \in Int
        BY <1>0, <2>1, <4>1
      <4> QED BY <3>1, <3>3, <4>2
    <3> QED BY <3>2, <3>3
  <2>9. Inductive(S, Q)
    BY <2>1 DEF Inductive
  <2> HIDE DEF Q
  <2>2. \A t \in SUBSET S : t \in Q
    BY <1>0, <2>9, FiniteInduction
  <2> QED BY <2>2 DEF Q
<1> DEFINE P == {t \in SUBSET S : g[t] \in Int /\ \A x \in t : g[t] = f[x] + g[t \ {x}]}
<1>1. ASSUME NEW t \in SUBSET S, \A x \in t : t \ {x} \in P PROVE t \in P
  <2>1. CASE t = {}
    <3>1. g[t] = 0
      BY <2>1, <1>0, SumsAt
    <3> QED BY <2>1, <3>1
  <2>2. CASE t # {}
    <3> DEFINE c == AnyOf(t)
    <3>1. c \in t
      BY <2>2, AnyIsIn
    <3> HIDE DEF c
    <3>2. g[t] = f[c] + g[t \ {c}]
      BY <2>2, <1>0, SumsAt DEF c
    <3>3. \A x \in t : f[x] \in Int /\ g[t \ {x}] \in Int
      BY <1>0, <1>1
    <3>4. ASSUME NEW x \in t PROVE g[t] = f[x] + g[t \ {x}]
      <4>1. CASE x = c
        BY <3>2, <4>1
      <4>2. CASE x # c
        <5> DEFINE w == t \ {c, x}
        <5>1. t \ {x} \in P /\ t \ {c} \in P /\ x \in t \ {c} /\ c \in t \ {x}
          BY <1>1, <3>1, <4>2
        <5>3. w = (t \ {x}) \ {c} /\ w = (t \ {c}) \ {x} /\ w \in SUBSET S
          OBVIOUS
        <5>2. g[t \ {c}] = f[x] + g[w]
          BY <5>1, <5>3
        <5>4. g[t \ {x}] = f[c] + g[w]
          BY <5>1, <5>3
        <5>5. g[w] \in Int
          BY <1>2, <5>3
        <5> HIDE DEF w, P
        <5> QED BY <3>1, <3>2, <3>3, <5>2, <5>4, <5>5
      <4> QED BY <4>1, <4>2
    <3>5. g[t] \in Int
      BY <3>1, <3>2, <3>3
    <3> QED BY <3>4, <3>5
  <2> QED BY <2>1, <2>2
<1>9. Inductive(S, P)
  BY <1>1 DEF Inductive
<1> HIDE DEF P
<1>3. \A t \in SUBSET S : t \in P
  BY <1>0, <1>9, FiniteInduction
<1> QED BY <1>3 DEF P

LEMMA SumsSplit ==
    ASSUME NEW f, NEW S, NEW g, Adds(f, S, g),
           NEW A \in SUBSET S, NEW B \in SUBSET S, A \cap B = {}
    PROVE  g[A \cup B] = g[A] + g[B]
<1> DEFINE P == {t \in SUBSET B : g[A \cup t] = g[A] + g[t]}
<1>0. IsFiniteSet(S) /\ SumsOf(f, S, g) /\ \A x \in S : f[x] \in Int
  BY DEF Adds
<1>1. \A t \in SUBSET S : g[t] \in Int /\ \A x \in t : g[t] = f[x] + g[t \ {x}]
  BY SumsTake
<1>2. ASSUME NEW t \in SUBSET B, \A x \in t : t \ {x} \in P PROVE t \in P
  <2>1. CASE t = {}
    <3>1. g[t] = 0 /\ A \cup t = A /\ g[A] \in Int
      BY <1>1, <2>1, <1>0, SumsAt
    <3> QED BY <2>1, <3>1
  <2>2. CASE t # {}
    <3>1. PICK x \in t : TRUE
      BY <2>2
    <3> DEFINE w == t \ {x}
    <3>2. w \in P /\ (A \cup t) \ {x} = A \cup w /\ x \in S
      BY <1>2
    <3>3. g[A \cup t] = f[x] + g[A \cup w]
      BY <1>1, <3>2
    <3>4. g[t] = f[x] + g[w]
      BY <1>1
    <3>5. g[A \cup w] = g[A] + g[w]
      BY <3>2
    <3>6. g[A] \in Int /\ g[w] \in Int /\ f[x] \in Int
      BY <1>0, <1>1
    <3>7. g[A \cup t] = g[A] + g[t]
      <4> HIDE DEF w, P
      <4> QED BY <3>3, <3>4, <3>5, <3>6
    <3> QED BY <3>7
  <2> QED BY <2>1, <2>2
<1>3. IsFiniteSet(B)
  BY <1>0, FS_Subset
<1>9. Inductive(B, P)
  BY <1>2 DEF Inductive
<1> HIDE DEF P
<1>4. B \in P
  BY <1>3, <1>9, FiniteInduction
<1> QED BY <1>1, <1>4 DEF P

Splits(S, g) == \A A \in SUBSET S, B \in SUBSET S : A \cap B = {} => g[A \cup B] = g[A] + g[B]

LEMMA SumsOfTwo ==
    ASSUME NEW f, NEW S, NEW g, Adds(f, S, g)
    PROVE  Splits(S, g)
BY SumsSplit DEF Splits

Totals(total, C, key, S, g) == \A c \in C : total[c] = g[{x \in S : key[x] = c}]

\* Sums over the parts of a set add up to the sum over the set.
LEMMA SumsParts ==
    ASSUME NEW f, NEW S, NEW g, Adds(f, S, g),
           NEW key, NEW C, IsFiniteSet(C), NEW total, NEW k, SumsOf(total, C, k),
           Totals(total, C, key, S, g)
    PROVE  k[C] = g[{x \in S : key[x] \in C}]
<1>0. \A A \in SUBSET S, B \in SUBSET S : A \cap B = {} => g[A \cup B] = g[A] + g[B]
  <2>1. Splits(S, g)
    BY SumsOfTwo
  <2> QED BY <2>1 DEF Splits
<1> DEFINE Of(t) == {x \in S : key[x] \in t}
           P == {t \in SUBSET C : k[t] = g[Of(t)]}
<1>1. ASSUME NEW t \in SUBSET C, \A x \in t : t \ {x} \in P PROVE t \in P
  <2>1. CASE t = {}
    <3>1. k[t] = 0 /\ Of(t) = {}
      BY <2>1, SumsAt
    <3>2. g[{}] = 0
      <4>1. SumsOf(f, S, g) /\ {} \in SUBSET S
        BY DEF Adds
      <4> QED BY <4>1, SumsAt
    <3> QED BY <3>1, <3>2
  <2>2. CASE t # {}
    <3> DEFINE c == AnyOf(t)
               w == t \ {c}
               one == {x \in S : key[x] = c}
    <3>1. c \in t
      BY <2>2, AnyIsIn
    <3>2. k[t] = total[c] + k[w]
      BY <2>2, SumsAt
    <3>3. k[w] = g[Of(w)] /\ total[c] = g[one]
      BY <1>1, <3>1 DEF Totals
    <3> DEFINE rest == Of(w)
    <3>4. Of(t) = one \cup rest
      BY <3>1
    <3>6. one \cap rest = {} /\ one \in SUBSET S /\ rest \in SUBSET S
      BY <3>1
    <3>5. g[Of(t)] = g[one] + g[Of(w)]
      <4> HIDE DEF rest, one
      <4>2. g[one \cup rest] = g[one] + g[rest]
        BY <3>6, <1>0
      <4> QED BY <3>4, <4>2 DEF rest
    <3> HIDE DEF c, w, one, Of, P, rest
    <3> QED BY <3>2, <3>3, <3>5 DEF P
  <2> QED BY <2>1, <2>2
<1>9. Inductive(C, P)
  BY <1>1 DEF Inductive
<1> HIDE DEF P
<1>2. C \in P
  BY <1>9, FiniteInduction
<1> QED BY <1>2 DEF P

LEMMA SumIs ==
    ASSUME NEW f, NEW S, IsFiniteSet(S)
    PROVE  \E g : SumsOf(f, S, g) /\ SumFunctionOnSet(f, S) = g[S]
<1> DEFINE iter == CHOOSE g : SumsOf(f, S, g)
<1>1. SumsOf(f, S, iter)
  BY SumsExist
<1>2. SumFunctionOnSet(f, S) = iter[S]
  BY DEF SumFunctionOnSet, FoldFunctionOnSet, MapThenFoldSet, SumsOf, AnyOf
<1> QED BY <1>1, <1>2

\* The sum of f over part of S is the one that g has for it.
LEMMA SumWithin ==
    ASSUME NEW f, NEW S, NEW g, Adds(f, S, g)
    PROVE  \A t \in SUBSET S : SumFunctionOnSet(f, t) = g[t]
<1>1. IsFiniteSet(S) /\ SumsOf(f, S, g)
  BY DEF Adds
<1>2. ASSUME NEW t \in SUBSET S PROVE SumFunctionOnSet(f, t) = g[t]
  <2>1. IsFiniteSet(t)
    BY <1>1, FS_Subset
  <2>2. PICK h : SumsOf(f, t, h) /\ SumFunctionOnSet(f, t) = h[t]
    BY <2>1, SumIs
  <2>3. h[t] = g[t]
    BY <1>1, <2>2, SumsAgree
  <2> QED BY <2>2, <2>3
<1> QED BY <1>2

\* Whatever the key, sums by key add up to the sum of all.
LEMMA SumsByKey ==
    ASSUME NEW f, IsFiniteSet(DOMAIN f), \A x \in DOMAIN f : f[x] \in Int, NEW key,
           NEW total,
           total = [c \in {key[x] : x \in DOMAIN f} |->
                      SumFunctionOnSet(f, {x \in DOMAIN f : key[x] = c})]
    PROVE  SumFunction(total) = SumFunction(f)
<1> DEFINE S == DOMAIN f
           C == {key[x] : x \in S}
<1>0. IsFiniteSet(S) /\ \A x \in S : f[x] \in Int
  OBVIOUS
<1>1. PICK g : SumsOf(f, S, g)
  BY SumsExist
<1>2. Adds(f, S, g)
  BY <1>1 DEF Adds
<1>3. IsFiniteSet(C)
  <2>1. [x \in S |-> key[x]] \in Surjection(S, C)
    BY DEF Surjection
  <2> HIDE DEF S, C
  <2> QED BY <1>0, <2>1, FS_Surjection
<1>4. \A c \in C : total[c] = g[{x \in S : key[x] = c}]
  <2>1. ASSUME NEW c \in C PROVE total[c] = g[{x \in S : key[x] = c}]
    <3> DEFINE t == {x \in S : key[x] = c}
    <3>1. total[c] = SumFunctionOnSet(f, t) /\ t \in SUBSET S
      OBVIOUS
    <3> HIDE DEF t
    <3>2. SumFunctionOnSet(f, t) = g[t]
      BY <1>2, <3>1, SumWithin
    <3> QED BY <3>1, <3>2 DEF t
  <2> QED BY <2>1
<1>10. Totals(total, C, key, S, g)
  BY <1>4 DEF Totals
<1>5. PICK k : SumsOf(total, C, k) /\ SumFunctionOnSet(total, C) = k[C]
  BY <1>3, SumIs
<1> DEFINE all == {x \in S : key[x] \in C}
<1>6. k[C] = g[all]
  <2> HIDE DEF S, C, all
  <2>1. k[C] = g[{x \in S : key[x] \in C}]
    BY ONLY <1>2, <1>3, <1>10, <1>5, SumsParts
  <2> QED BY <2>1 DEF all
<1>7. all = S /\ DOMAIN total = C
  OBVIOUS
<1>8. SumFunction(f) = g[S]
  BY <1>2, SumWithin DEF SumFunction
<1>9. SumFunction(total) = k[C]
  BY <1>5, <1>7 DEF SumFunction
<1> QED BY <1>6, <1>7, <1>8, <1>9

-----------------------------------------------------------------------------
(***************************************************************************)
(* The measurement aggregator.                                             *)
(***************************************************************************)

LEMMA DelimitedIs ==
    ASSUME NEW d, NEW r
    PROVE  FoldLeft(Delimit, r, d) = DelimitFold!Left(r, d)
BY DEF FoldLeft, MapThenFoldSet, Max, DelimitFold!Left, DelimitFold!Folds, DelimitFold!LastOf

LEMMA TalliedIs ==
    ASSUME NEW ls, NEW m
    PROVE  FoldLeft(Tallied, m, ls) = TallyFold!Left(m, ls)
BY DEF FoldLeft, MapThenFoldSet, Max, TallyFold!Left, TallyFold!Folds, TallyFold!LastOf

LEMMA PushedIs ==
    ASSUME NEW cs, NEW ps
    PROVE  FoldLeft(Pushed, cs, ps) = PushFold!Left(cs, ps)
BY DEF FoldLeft, MapThenFoldSet, Max, PushFold!Left, PushFold!Folds, PushFold!LastOf

LEMMA CombinedIs ==
    ASSUME NEW ms, NEW m
    PROVE  FoldLeft(Combined, m, ms) = CombineFold!Left(m, ms)
BY DEF FoldLeft, MapThenFoldSet, Max, CombineFold!Left, CombineFold!Folds, CombineFold!LastOf

(***************************************************************************)
(* Lines: of a file that is cut behind the end of a line, the lines of the *)
(* parts.                                                                  *)
(***************************************************************************)
Delimiting(B) == [lines: Seq(Seq(B)), line: Seq(B)]

LEMMA DelimitType ==
    ASSUME NEW B, NEW r \in Delimiting(B), NEW b \in B
    PROVE  Delimit(r, b) \in Delimiting(B)
<1>1. r.lines \in Seq(Seq(B)) /\ r.line \in Seq(B)
  BY DEF Delimiting
<1>2. CASE b = Eol
  <2>1. Delimit(r, b) = [lines |-> Append(r.lines, r.line), line |-> <<>>]
    BY <1>2 DEF Delimit
  <2>2. Append(r.lines, r.line) \in Seq(Seq(B))
    BY <1>1, AppendProperties
  <2>3. <<>> \in Seq(B)
    OBVIOUS
  <2> QED BY <2>1, <2>2, <2>3 DEF Delimiting
<1>3. CASE b # Eol
  <2>1. Delimit(r, b) = [lines |-> r.lines, line |-> Append(r.line, b)]
    BY <1>3 DEF Delimit, Delimiting
  <2>2. Append(r.line, b) \in Seq(B)
    BY <1>1
  <2> QED BY <1>1, <2>1, <2>2 DEF Delimiting
<1> QED BY <1>2, <1>3

LEMMA UndelimitedType == ASSUME NEW B PROVE Undelimited \in Delimiting(B)
BY DEF Undelimited, Delimiting

LEMMA TerminatedType ==
    ASSUME NEW B, NEW d \in Seq(B)
    PROVE  DelimitFold!Left(Undelimited, d) \in Delimiting(B) /\ Terminated(d) \in Seq(Seq(B))
<1>1. \A r \in Delimiting(B) : \A b \in B : Delimit(r, b) \in Delimiting(B)
  BY DelimitType
<1>2. DelimitFold!Left(Undelimited, d) \in Delimiting(B)
  BY <1>1, UndelimitedType, DelimitFold!LeftType
<1> QED BY <1>2, DelimitedIs DEF Terminated, Delimiting

\* What was delimited before stands in front of what is delimited now.
LEMMA TerminatedAfter ==
    ASSUME NEW B, NEW ls \in Seq(Seq(B)), NEW d \in Seq(B)
    PROVE  DelimitFold!Left([lines |-> ls, line |-> <<>>], d).lines = ls \o Terminated(d)
<1> DEFINE D == Delimiting(B)
           f == [r \in D |-> [lines |-> ls \o r.lines, line |-> r.line]]
<1>1. \A r \in D : f[r] = [lines |-> ls \o r.lines, line |-> r.line]
  OBVIOUS
<1>2. \A r \in D : r.lines \in Seq(Seq(B)) /\ r.line \in Seq(B) /\ ls \o r.lines \in Seq(Seq(B))
  BY ConcatProperties DEF Delimiting
<1>3. f \in [D -> D]
  <2>1. \A r \in D : [lines |-> ls \o r.lines, line |-> r.line] \in D
    BY <1>2 DEF Delimiting
  <2> QED BY <2>1
<1> HIDE DEF f, D
<1>4. ASSUME NEW r \in D, NEW b \in B PROVE f[Delimit(r, b)] = Delimit(f[r], b)
  <2>1. Delimit(r, b) \in D
    BY DelimitType DEF D
  <2>2. CASE b = Eol
    <3> DEFINE l == r.line
               m == r.lines
               one == <<l>>
    <3>1. Delimit(r, b) = [lines |-> Append(m, l), line |-> <<>>]
      BY <2>2 DEF Delimit
    <3>2. Delimit(f[r], b) = [lines |-> Append(ls \o m, l), line |-> <<>>]
      <4> DEFINE w == f[r]
      <4>1. w = [lines |-> ls \o m, line |-> l]
        BY <1>1
      <4>2. Delimit(w, b) = [lines |-> Append(w.lines, w.line), line |-> <<>>]
        BY <2>2 DEF Delimit
      <4> HIDE DEF w
      <4> QED BY <4>1, <4>2 DEF w
    <3>3. m \in Seq(Seq(B)) /\ l \in Seq(B) /\ ls \o m \in Seq(Seq(B))
      BY <1>2
    <3> HIDE DEF m, l
    <3>4. one \in Seq(Seq(B))
      BY <3>3
    <3>5. Append(ls \o m, l) = (ls \o m) \o one /\ Append(m, l) = m \o one
      BY <3>3, AppendIsConcat
    <3> HIDE DEF one
    <3>6. (ls \o m) \o one = ls \o (m \o one)
      BY <3>3, <3>4, ConcatAssociative
    <3>7. f[Delimit(r, b)] = [lines |-> ls \o Append(m, l), line |-> <<>>]
      BY <1>1, <2>1, <3>1
    <3> QED BY <3>2, <3>5, <3>6, <3>7
  <2>3. CASE b # Eol
    <3>1. Delimit(r, b) = [lines |-> r.lines, line |-> Append(r.line, b)]
      BY <2>3 DEF Delimit, Delimiting, D
    <3>2. f[Delimit(r, b)] = [lines |-> ls \o r.lines, line |-> Append(r.line, b)]
      BY <1>1, <2>1, <3>1
    <3> DEFINE w == f[r]
    <3>3. w = [lines |-> ls \o r.lines, line |-> r.line]
      BY <1>1
    <3>4. Delimit(w, b) = [w EXCEPT !.line = Append(@, b)]
      BY <2>3 DEF Delimit
    <3> HIDE DEF w
    <3>5. Delimit(w, b) = [lines |-> ls \o r.lines, line |-> Append(r.line, b)]
      BY <3>3, <3>4
    <3> QED BY <3>2, <3>5 DEF w
  <2> QED BY <2>2, <2>3
<1>5. Undelimited \in D
  BY UndelimitedType DEF D
<1>6. f[Undelimited] = [lines |-> ls, line |-> <<>>]
  <2>1. ls \o <<>> = ls
    BY ConcatEmptySeq
  <2> QED BY <1>1, <1>5, <2>1 DEF Undelimited
<1>7. DelimitFold!Commutes(D, B, f)
  BY <1>3, <1>4, DelimitType DEF DelimitFold!Commutes, D
<1>8. DelimitFold!Left(f[Undelimited], d) = f[DelimitFold!Left(Undelimited, d)]
  BY <1>5, <1>7, DelimitFold!LeftMaps
<1>9. DelimitFold!Left(Undelimited, d) \in D
  BY TerminatedType DEF D
<1>10. f[DelimitFold!Left(Undelimited, d)].lines = ls \o DelimitFold!Left(Undelimited, d).lines
  <2> DEFINE w == DelimitFold!Left(Undelimited, d)
  <2>1. w \in D
    BY <1>9
  <2> HIDE DEF w
  <2>2. f[w] = [lines |-> ls \o w.lines, line |-> w.line]
    BY <1>1, <2>1
  <2> DEFINE v == f[w]
  <2>3. v = [lines |-> ls \o w.lines, line |-> w.line]
    BY <2>2
  <2> HIDE DEF v
  <2>4. v.lines = ls \o w.lines
    BY <2>3
  <2> QED BY <2>4 DEF v, w
<1> QED BY <1>6, <1>8, <1>10, DelimitedIs DEF Terminated

LEMMA TerminatedConcat ==
    ASSUME NEW B, Eol \in B, NEW d \in Seq(B), NEW e \in Seq(B), d = <<>> \/ Last(d) = Eol
    PROVE  Terminated(d \o e) = Terminated(d) \o Terminated(e)
<1> DEFINE r == DelimitFold!Left(Undelimited, d)
<1>1. r.line = <<>> /\ r = [lines |-> r.lines, line |-> r.line] /\ r.lines \in Seq(Seq(B))
  <2>1. r \in Delimiting(B)
    BY TerminatedType
  <2>2. CASE d = <<>>
    <3>1. r = Undelimited
      BY <2>2, DelimitFold!LeftEmpty
    <3> QED BY <2>1, <3>1 DEF Undelimited, Delimiting
  <2>3. CASE d # <<>> /\ Last(d) = Eol
    <3> DEFINE front == SubSeq(d, 1, Len(d) - 1)
    <3>1. front \in Seq(B) /\ d = Append(front, Eol)
      BY <2>3 DEF Last
    <3> HIDE DEF front
    <3>2. r = Delimit(DelimitFold!Left(Undelimited, front), Eol)
      BY <3>1, DelimitFold!LeftAppend
    <3>3. r.line = <<>>
      BY <3>2 DEF Delimit
    <3> QED BY <2>1, <3>3 DEF Delimiting
  <2> QED BY <2>2, <2>3
<1> HIDE DEF r
<1>2. Terminated(d) = r.lines
  BY DelimitedIs DEF Terminated, r
<1>3. Terminated(d \o e) = DelimitFold!Left(r, e).lines
  BY DelimitedIs, DelimitFold!LeftConcat DEF Terminated, r
<1>4. DelimitFold!Left([lines |-> r.lines, line |-> <<>>], e).lines = r.lines \o Terminated(e)
  BY <1>1, TerminatedAfter
<1> QED BY <1>1, <1>2, <1>3, <1>4

(***************************************************************************)
(* Aggregation, of rows that parse.                                        *)
(***************************************************************************)
AllParse(ls) == \A k \in DOMAIN ls : Parses(ls[k])

Tally(ls) == FoldLeft(Tallied, Zero, ls)

BrcStat == [min: {i \in Int : i <= I32Max}, max: {i \in Int : i >= I32Min}, sum: Int, count: Nat]

Maps == [Stations -> BrcStat]

Rows == {l \in Seq(Octets) : Parses(l)}

LEMMA EolIs == Eol \in Octets
BY DEF Eol, Octets

LEMMA BoundsAre == I32Max \in Int /\ I32Min \in Int /\ I32Max > 100000 /\ I32Min < -100000
BY DEF I32Max, I32Min

LEMMA DigitType ==
    ASSUME NEW b \in Octets
    PROVE  Digit(b) \in Octets
BY DEF Digit, Octets, Naught

\* A temperature is a number of i32, whatever its digits are.
LEMMA RowIs ==
    ASSUME NEW l \in Rows
    PROVE  TempOf(l) \in Int /\ I32Min <= TempOf(l) /\ TempOf(l) <= I32Max
<1> DEFINE t == Temperature(l)
           ds == Magnitude(t)
           n == Len(ds)
           v == InTenths(ds)
<1>1. l \in Seq(Octets) /\ Semicolons(l) # {} /\ Shaped(ds)
  BY DEF Rows, Parses
<1>2. Min(Semicolons(l)) \in DOMAIN l
  <2>1. Semicolons(l) \subseteq Nat /\ Semicolons(l) \subseteq DOMAIN l
    BY <1>1 DEF Semicolons
  <2>2. \E x \in Semicolons(l) : \A y \in Semicolons(l) : x <= y
    BY <1>1, <2>1, DelimitFold!LeastExists
  <2>3. Min(Semicolons(l)) \in Semicolons(l)
    BY <2>2 DEF Min
  <2> QED BY <2>1, <2>3
<1>3. t \in Seq(Octets)
  <2> DEFINE i == Min(Semicolons(l))
  <2>1. i \in 1 .. Len(l) /\ Len(l) \in Nat
    BY <1>1, <1>2
  <2> HIDE DEF i
  <2>2. SubSeq(l, i + 1, Len(l)) \in Seq(Octets)
    BY <1>1, <2>1
  <2> QED BY <2>2 DEF Temperature, i
<1> HIDE DEF t
<1>4. ds \in Seq(Octets)
  BY <1>3 DEF Magnitude, Negative
<1> HIDE DEF ds
<1>5. n \in {3, 4} /\ \A i \in 1 .. n : ds[i] \in Octets
  BY <1>1, <1>4 DEF Shaped
<1> DEFINE x == IF n = 4 THEN Digit(ds[1]) ELSE 0
           y == Digit(ds[n - 2])
           z == Digit(ds[n])
<1>6. v \in Int /\ -100000 <= v /\ v <= 100000
  <2>1. Digit(ds[n]) \in Octets /\ Digit(ds[n - 2]) \in Octets /\ Digit(ds[1]) \in Octets
    <3>1. n \in 1 .. n /\ n - 2 \in 1 .. n /\ 1 \in 1 .. n
      <4>1. n = 3 \/ n = 4
        BY <1>5
      <4> HIDE DEF n
      <4> QED BY <4>1
    <3> QED BY <1>5, <3>1, DigitType
  <2>2. x \in 0 .. 255 /\ y \in 0 .. 255 /\ z \in 0 .. 255
    BY <2>1 DEF Octets
  <2>3. v = 100 * x + 10 * y + z
    BY DEF InTenths
  <2> HIDE DEF v, x, y, z
  <2> QED BY <2>2, <2>3
<1>7. TempOf(l) = -v \/ TempOf(l) = v
  BY DEF TempOf, t, ds
<1> HIDE DEF v
<1> QED BY <1>6, <1>7, BoundsAre

LEMMA OfThree ==
    ASSUME NEW a \in Int, NEW b \in Int, NEW c \in Int
    PROVE  /\ Least(a, Least(b, c)) = Least(Least(a, b), c)
           /\ Greatest(a, Greatest(b, c)) = Greatest(Greatest(a, b), c)
           /\ a + (b + c) = (a + b) + c
BY DEF Least, Greatest

LEMMA ZeroType == Zero \in Maps
<1>1. I32Max \in Int /\ I32Min \in Int /\ I32Max <= I32Max /\ I32Min >= I32Min
  BY BoundsAre
<1> QED BY <1>1 DEF Zero, Maps, BrcStat, DefaultStats

LEMMA StatFields ==
    ASSUME NEW x \in BrcStat
    PROVE  /\ x.min \in Int /\ x.max \in Int /\ x.sum \in Int /\ x.count \in Nat
           /\ x.min <= I32Max /\ x.max >= I32Min
           /\ x = [min |-> x.min, max |-> x.max, sum |-> x.sum, count |-> x.count]
BY DEF BrcStat

LEMMA TalliedType ==
    ASSUME NEW m \in Maps, NEW l \in Rows
    PROVE  /\ Tallied(m, l) \in Maps
           /\ \A s \in Stations : Tallied(m, l)[s] = IF s = NameOf(l) THEN Measured(m[s], TempOf(l)) ELSE m[s]
<1> DEFINE t == TempOf(l)
<1>1. t \in Int /\ I32Min <= t /\ t <= I32Max /\ I32Max \in Int /\ I32Min \in Int
  BY RowIs, BoundsAre
<1> HIDE DEF t
<1>2. ASSUME NEW x \in BrcStat PROVE Measured(x, t) \in BrcStat
  <2>1. /\ x.min \in Int /\ x.max \in Int /\ x.sum \in Int /\ x.count \in Nat
        /\ x.min <= I32Max /\ x.max >= I32Min
    BY StatFields
  <2>2. /\ Least(x.min, t) \in Int /\ Least(x.min, t) <= I32Max
        /\ Greatest(x.max, t) \in Int /\ Greatest(x.max, t) >= I32Min
        /\ x.sum + t \in Int /\ x.count + 1 \in Nat
    BY <1>1, <2>1 DEF Least, Greatest
  <2> QED BY <2>2 DEF Measured, BrcStat
<1>3. Tallied(m, l) = [s \in Stations |-> IF s = NameOf(l) THEN Measured(m[s], t) ELSE m[s]]
  BY DEF Tallied, Maps, t
<1>4. \A s \in Stations : m[s] \in BrcStat
  BY DEF Maps
<1>5. Tallied(m, l) \in Maps
  BY <1>2, <1>3, <1>4 DEF Maps
<1> QED BY <1>3, <1>5 DEF t

LEMMA TallyType ==
    ASSUME NEW ls \in Seq(Rows), NEW m \in Maps
    PROVE  TallyFold!Left(m, ls) \in Maps
<1>1. \A a \in Maps : \A l \in Rows : Tallied(a, l) \in Maps
  BY TalliedType
<1> QED BY <1>1, TallyFold!LeftType

LEMMA MergedZero ==
    ASSUME NEW m \in Maps
    PROVE  Combined(m, Zero) = m /\ Combined(Zero, m) = m
<1>0. I32Max \in Int /\ I32Min \in Int
  BY BoundsAre
<1>1. ASSUME NEW x \in BrcStat
      PROVE  Merged(x, DefaultStats) = x /\ Merged(DefaultStats, x) = x
  <2>1. /\ x.min \in Int /\ x.max \in Int /\ x.sum \in Int /\ x.count \in Nat
        /\ x.min <= I32Max /\ x.max >= I32Min
        /\ x = [min |-> x.min, max |-> x.max, sum |-> x.sum, count |-> x.count]
    BY StatFields
  <2>2. /\ Least(x.min, I32Max) = x.min /\ Least(I32Max, x.min) = x.min
        /\ Greatest(x.max, I32Min) = x.max /\ Greatest(I32Min, x.max) = x.max
        /\ x.sum + 0 = x.sum /\ 0 + x.sum = x.sum /\ x.count + 0 = x.count /\ 0 + x.count = x.count
    BY <1>0, <2>1 DEF Least, Greatest
  <2> QED BY <2>1, <2>2 DEF Merged, DefaultStats
<1>2. \A s \in Stations : Zero[s] = DefaultStats /\ m[s] \in BrcStat
  BY DEF Zero, Maps
<1>3. m = [s \in Stations |-> m[s]]
  BY DEF Maps
<1> QED BY <1>1, <1>2, <1>3 DEF Combined

LEMMA CombinedType ==
    ASSUME NEW m \in Maps, NEW p \in Maps
    PROVE  Combined(m, p) \in Maps
<1>0. I32Max \in Int /\ I32Min \in Int
  BY BoundsAre
<1>1. ASSUME NEW x \in BrcStat, NEW y \in BrcStat PROVE Merged(x, y) \in BrcStat
  <2>1. /\ x.min \in Int /\ x.max \in Int /\ x.sum \in Int /\ x.count \in Nat
        /\ x.min <= I32Max /\ x.max >= I32Min
    BY StatFields
  <2>2. /\ y.min \in Int /\ y.max \in Int /\ y.sum \in Int /\ y.count \in Nat
        /\ y.min <= I32Max /\ y.max >= I32Min
    BY StatFields
  <2>3. /\ Least(x.min, y.min) \in Int /\ Least(x.min, y.min) <= I32Max
        /\ Greatest(x.max, y.max) \in Int /\ Greatest(x.max, y.max) >= I32Min
        /\ x.sum + y.sum \in Int /\ x.count + y.count \in Nat
    BY <1>0, <2>1, <2>2 DEF Least, Greatest
  <2> QED BY <2>3 DEF Merged, BrcStat
<1> QED BY <1>1 DEF Combined, Maps

\* A map of rows before is a map of all rows, once it is combined.
LEMMA TallyAfter ==
    ASSUME NEW ls \in Seq(Rows), NEW m \in Maps
    PROVE  TallyFold!Left(m, ls) = Combined(m, Tally(ls))
<1> DEFINE f == [p \in Maps |-> Combined(m, p)]
<1>1. f \in [Maps -> Maps] /\ \A p \in Maps : f[p] = Combined(m, p)
  BY CombinedType
<1> HIDE DEF f
<1>2. ASSUME NEW x \in BrcStat, NEW y \in BrcStat, NEW t \in Int
      PROVE  Merged(x, Measured(y, t)) = Measured(Merged(x, y), t)
  <2>1. x.min \in Int /\ x.max \in Int /\ x.sum \in Int /\ x.count \in Nat
    BY StatFields
  <2>2. y.min \in Int /\ y.max \in Int /\ y.sum \in Int /\ y.count \in Nat
    BY StatFields
  <2>3. /\ Least(x.min, Least(y.min, t)) = Least(Least(x.min, y.min), t)
        /\ Greatest(x.max, Greatest(y.max, t)) = Greatest(Greatest(x.max, y.max), t)
        /\ x.sum + (y.sum + t) = (x.sum + y.sum) + t
        /\ x.count + (y.count + 1) = (x.count + y.count) + 1
    <3>1. Least(x.min, Least(y.min, t)) = Least(Least(x.min, y.min), t)
      BY <2>1, <2>2, OfThree
    <3>2. Greatest(x.max, Greatest(y.max, t)) = Greatest(Greatest(x.max, y.max), t)
      BY <2>1, <2>2, OfThree
    <3>3. /\ x.sum + (y.sum + t) = (x.sum + y.sum) + t
          /\ x.count + (y.count + 1) = (x.count + y.count) + 1
      <4>1. x.count \in Int /\ y.count \in Int /\ 1 \in Int
        BY <2>1, <2>2
      <4>2. x.sum + (y.sum + t) = (x.sum + y.sum) + t
        BY <2>1, <2>2, OfThree
      <4>3. x.count + (y.count + 1) = (x.count + y.count) + 1
        BY <4>1, OfThree
      <4> QED BY <4>2, <4>3
    <3> QED BY <3>1, <3>2, <3>3
  <2> QED BY <2>3 DEF Merged, Measured
<1>3. ASSUME NEW p \in Maps, NEW l \in Rows PROVE f[Tallied(p, l)] = Tallied(f[p], l)
  <2>1. /\ Tallied(p, l) \in Maps
        /\ \A s \in Stations : Tallied(p, l)[s] = IF s = NameOf(l) THEN Measured(p[s], TempOf(l)) ELSE p[s]
    BY TalliedType
  <2> DEFINE q == f[p]
             u == Tallied(p, l)
             v == Tallied(q, l)
  <2>2. q \in Maps /\ \A s \in Stations : q[s] = Merged(m[s], p[s])
    BY <1>1 DEF Combined
  <2>3. v \in Maps /\ \A s \in Stations : v[s] = IF s = NameOf(l) THEN Measured(q[s], TempOf(l)) ELSE q[s]
    <3> HIDE DEF q
    <3> QED BY <2>2, TalliedType
  <2>4. u \in Maps /\ \A s \in Stations : u[s] = IF s = NameOf(l) THEN Measured(p[s], TempOf(l)) ELSE p[s]
    BY <2>1
  <2>5. TempOf(l) \in Int /\ \A s \in Stations : m[s] \in BrcStat /\ p[s] \in BrcStat
    BY RowIs DEF Maps
  <2>6. f[u] \in Maps /\ \A s \in Stations : f[u][s] = Merged(m[s], u[s])
    <3> HIDE DEF u
    <3> QED BY <1>1, <2>4 DEF Combined
  <2> DEFINE w == f[u]
  <2> HIDE DEF q, u, v, w
  <2>7. \A s \in Stations : w[s] = v[s]
    <3>1. ASSUME NEW s \in Stations PROVE w[s] = v[s]
      <4>1. CASE s = NameOf(l)
        <5>1. w[s] = Merged(m[s], Measured(p[s], TempOf(l)))
          BY <2>4, <2>6, <4>1 DEF w
        <5>2. v[s] = Measured(Merged(m[s], p[s]), TempOf(l))
          BY <2>2, <2>3, <4>1
        <5> QED BY <1>2, <2>5, <5>1, <5>2
      <4>2. CASE s # NameOf(l)
        BY <2>2, <2>3, <2>4, <2>6, <4>2 DEF w
      <4> QED BY <4>1, <4>2
    <3> QED BY <3>1
  <2>8. w = v
    BY <2>3, <2>6, <2>7 DEF Maps, w
  <2> QED BY <2>8 DEF w, u, v, q
<1>4. f[Zero] = m /\ Zero \in Maps
  BY <1>1, MergedZero, ZeroType
<1>5. TallyFold!Commutes(Maps, Rows, f)
  <2>1. \A p \in Maps : \A l \in Rows : Tallied(p, l) \in Maps
    BY TalliedType
  <2> QED BY <1>1, <1>3, <2>1 DEF TallyFold!Commutes
<1>6. TallyFold!Left(f[Zero], ls) = f[TallyFold!Left(Zero, ls)]
  BY <1>4, <1>5, TallyFold!LeftMaps
<1>7. f[TallyFold!Left(Zero, ls)] = Combined(m, TallyFold!Left(Zero, ls))
  BY <1>1, <1>4, TallyType
<1> QED BY <1>4, <1>6, <1>7, TalliedIs DEF Tally

LEMMA TallyConcat ==
    ASSUME NEW xs \in Seq(Rows), NEW ys \in Seq(Rows)
    PROVE  Tally(xs \o ys) = Combined(Tally(xs), Tally(ys)) /\ Tally(xs) \in Maps
<1>1. Tally(xs) = TallyFold!Left(Zero, xs) /\ Tally(xs) \in Maps
  BY TalliedIs, TallyType, ZeroType DEF Tally
<1>2. Tally(xs \o ys) = TallyFold!Left(TallyFold!Left(Zero, xs), ys)
  BY TalliedIs, TallyFold!LeftConcat DEF Tally
<1> QED BY <1>1, <1>2, TallyAfter

LEMMA AllParseRows ==
    ASSUME NEW ls \in Seq(Seq(Octets)), AllParse(ls)
    PROVE  ls \in Seq(Rows)
<1>1. DOMAIN ls = 1 .. Len(ls) /\ Len(ls) \in Nat /\ ls = [i \in 1 .. Len(ls) |-> ls[i]]
  OBVIOUS
<1>2. \A i \in 1 .. Len(ls) : ls[i] \in Seq(Octets)
  OBVIOUS
<1>3. \A i \in 1 .. Len(ls) : ls[i] \in Rows
  BY <1>1, <1>2 DEF AllParse, Rows
<1> QED BY <1>1, <1>3

LEMMA AllParseConcat ==
    ASSUME NEW T, NEW xs \in Seq(T), NEW ys \in Seq(T)
    PROVE  AllParse(xs \o ys) <=> AllParse(xs) /\ AllParse(ys)
<1> DEFINE m == Len(xs)
           n == Len(ys)
           zs == xs \o ys
<1>1. /\ m \in Nat /\ n \in Nat /\ DOMAIN xs = 1 .. m /\ DOMAIN ys = 1 .. n /\ DOMAIN zs = 1 .. m + n
      /\ \A i \in 1 .. m : zs[i] = xs[i]
      /\ \A i \in 1 .. n : zs[m + i] = ys[i]
  OBVIOUS
<1> HIDE DEF m, n, zs
<1>2. ASSUME AllParse(zs) PROVE AllParse(xs) /\ AllParse(ys)
  <2>1. ASSUME NEW i \in 1 .. m PROVE Parses(xs[i])
    <3>1. i \in 1 .. m + n
      BY <1>1
    <3> QED BY <1>1, <1>2, <3>1 DEF AllParse
  <2>2. ASSUME NEW i \in 1 .. n PROVE Parses(ys[i])
    <3>1. m + i \in 1 .. m + n
      BY <1>1
    <3> QED BY <1>1, <1>2, <3>1 DEF AllParse
  <2> QED BY <1>1, <2>1, <2>2 DEF AllParse
<1>3. ASSUME AllParse(xs), AllParse(ys) PROVE AllParse(zs)
  <2>1. ASSUME NEW i \in 1 .. m + n PROVE Parses(zs[i])
    <3>1. CASE i <= m
      <4>1. i \in 1 .. m
        BY <1>1, <3>1
      <4> QED BY <1>1, <1>3, <4>1 DEF AllParse
    <3>2. CASE i > m
      <4>1. i - m \in 1 .. n /\ m + (i - m) = i
        BY <1>1, <3>2
      <4>2. zs[i] = ys[i - m]
        BY <1>1, <4>1
      <4> QED BY <1>1, <1>3, <4>1, <4>2 DEF AllParse
    <3> QED BY <1>1, <3>1, <3>2
  <2> QED BY <1>1, <2>1 DEF AllParse
<1> QED BY <1>2, <1>3 DEF zs

(***************************************************************************)
(* split_chunks.                                                           *)
(***************************************************************************)
LEMMA ChunkEndIs ==
    ASSUME NEW d \in Seq(Octets), NEW start \in 0 .. Len(d), NEW share \in Nat
    PROVE  /\ ChunkEnd(d, start, share) \in start .. Len(d)
           /\ ChunkEnd(d, start, share) = Len(d) \/ d[ChunkEnd(d, start, share)] = Eol
<1> DEFINE n     == Len(d)
           rough == Least(start + share, n)
           eols  == {i \in DOMAIN d : d[i] = Eol /\ i > rough}
           e     == ChunkEnd(d, start, share)
<1>1. n \in Nat /\ start \in Nat /\ start <= n /\ DOMAIN d = 1 .. n
  OBVIOUS
<1>2. rough \in start .. n
  BY <1>1 DEF Least
<1>3. e = IF eols = {} THEN n ELSE Min(eols)
  BY DEF ChunkEnd, Behind
<1> HIDE DEF n, rough, e
<1>4. CASE eols = {}
  BY <1>1, <1>3, <1>4 DEF n, e
<1>5. CASE eols # {}
  <2>1. eols \subseteq Nat
    BY <1>1
  <2>2. \E x \in eols : \A y \in eols : x <= y
    <3> HIDE DEF eols
    <3> QED BY <1>5, <2>1, DelimitFold!LeastExists
  <2>3. Min(eols) \in eols
    <3> HIDE DEF eols
    <3> QED BY <2>2 DEF Min
  <2>4. e \in DOMAIN d /\ d[e] = Eol /\ e > rough
    BY <1>3, <1>5, <2>3
  <2>5. e \in start .. n
    BY <1>1, <1>2, <2>4
  <2> QED BY <2>4, <2>5 DEF n, e
<1> QED BY <1>4, <1>5

CutAt(d, n, f) ==
    f = [k \in 0 .. n |-> IF k = 0 THEN 0 ELSE IF k = n THEN Len(d)
                          ELSE ChunkEnd(d, f[k - 1], Len(d) \div n)]

LEMMA CutsExist ==
    ASSUME NEW d, NEW n \in Nat \ {0}
    PROVE  \E f : CutAt(d, n, f)
<1> DEFINE share == Len(d) \div n
           Up(j, g) == g = [k \in 0 .. j |-> IF k = 0 THEN 0 ELSE ChunkEnd(d, g[k - 1], share)]
           S == {j \in 0 .. n : \E g : Up(j, g)}
<1>1. 0 \in S
  <2> DEFINE g == [k \in 0 .. 0 |-> 0]
  <2>2. \A k \in 0 .. 0 : k = 0
    OBVIOUS
  <2>1. g = [k \in 0 .. 0 |-> IF k = 0 THEN 0 ELSE ChunkEnd(d, g[k - 1], share)]
    BY <2>2
  <2>3. Up(0, g)
    BY <2>1
  <2>4. 0 \in 0 .. n
    OBVIOUS
  <2> QED BY <2>3, <2>4
<1>2. ASSUME NEW j \in 0 .. n - 1, j \in S PROVE j + 1 \in S
  <2>1. PICK g : Up(j, g)
    BY <1>2
  <2> DEFINE f == [k \in 0 .. j + 1 |-> IF k = j + 1 THEN ChunkEnd(d, g[j], share) ELSE g[k]]
  <2>2. j \in Nat /\ j + 1 \in 0 .. n
    OBVIOUS
  <2>3. ASSUME NEW k \in 0 .. j + 1
        PROVE  f[k] = IF k = 0 THEN 0 ELSE ChunkEnd(d, f[k - 1], share)
    <3>1. CASE k = j + 1
      <4>1. k - 1 = j /\ k # 0 /\ j \in 0 .. j + 1 /\ j # j + 1
        BY <2>2, <3>1
      <4>2. f[j] = g[j]
        BY <4>1
      <4>3. f[k] = ChunkEnd(d, g[j], share)
        BY <3>1
      <4> QED BY <4>1, <4>2, <4>3
    <3>2. CASE k \in 1 .. j
      <4>1. k \in 0 .. j /\ k - 1 \in 0 .. j /\ k # j + 1 /\ k - 1 # j + 1 /\ k # 0 /\ k - 1 \in 0 .. j + 1
        BY <2>2, <3>2
      <4>2. f[k] = g[k] /\ f[k - 1] = g[k - 1]
        BY <4>1
      <4>3. g[k] = ChunkEnd(d, g[k - 1], share)
        BY <2>1, <4>1
      <4> QED BY <4>1, <4>2, <4>3
    <3>3. CASE k = 0
      <4>1. 0 \in 0 .. j /\ 0 # j + 1 /\ 0 \in 0 .. j + 1
        BY <2>2
      <4>2. f[0] = g[0] /\ g[0] = 0
        BY <2>1, <4>1
      <4> QED BY <3>3, <4>2
    <3> QED BY <2>2, <3>1, <3>2, <3>3
  <2>4. f = [k \in 0 .. j + 1 |-> f[k]]
    OBVIOUS
  <2> HIDE DEF f
  <2>5. Up(j + 1, f)
    BY <2>3, <2>4
  <2> QED BY <2>2, <2>5
<1>3. n \in S
  <2>1. n \in 0 .. n
    OBVIOUS
  <2> HIDE DEF S
  <2> QED BY <1>1, <1>2, <2>1, DelimitFold!Induction
<1>4. PICK g : Up(n, g)
  BY <1>3
<1> DEFINE f == [k \in 0 .. n |-> IF k = n THEN Len(d) ELSE g[k]]
<1>5. ASSUME NEW k \in 0 .. n
      PROVE  f[k] = IF k = 0 THEN 0 ELSE IF k = n THEN Len(d) ELSE ChunkEnd(d, f[k - 1], share)
  <2>1. CASE k = 0
    BY <1>4, <2>1
  <2>2. CASE k = n
    BY <2>2
  <2>3. CASE k # 0 /\ k # n
    <3>1. k - 1 \in 0 .. n /\ k - 1 # n
      BY <2>3
    <3>2. g[k] = ChunkEnd(d, g[k - 1], share)
      BY <1>4, <2>3
    <3> QED BY <2>3, <3>1, <3>2
  <2> QED BY <2>1, <2>2, <2>3
<1>6. f = [k \in 0 .. n |-> f[k]]
  OBVIOUS
<1> HIDE DEF f
<1>7. CutAt(d, n, f)
  BY <1>5, <1>6 DEF CutAt
<1> QED BY <1>7

SharesOf(d, n, f) == [k \in 1 .. n |-> SubSeq(d, f[k - 1] + 1, f[k])]

LEMMA SplitIs ==
    ASSUME NEW d, NEW n \in Nat \ {0}
    PROVE  \E f : CutAt(d, n, f) /\ SplitChunks(d, n) = PushFold!Left(<<>>, SharesOf(d, n, f))
<1> DEFINE cut == CHOOSE f : CutAt(d, n, f)
<1>1. CutAt(d, n, cut)
  BY CutsExist
<1>2. SplitChunks(d, n) = FoldLeft(Pushed, <<>>, SharesOf(d, n, cut))
  BY DEF SplitChunks, CutAt, SharesOf
<1> QED BY <1>1, <1>2, PushedIs

LEMMA CutsAre ==
    ASSUME NEW d \in Seq(Octets), NEW n \in Nat \ {0}, NEW f, CutAt(d, n, f)
    PROVE  /\ f[0] = 0 /\ f[n] = Len(d)
           /\ \A k \in 0 .. n : f[k] \in 0 .. Len(d) /\ (f[k] \in {0, Len(d)} \/ d[f[k]] = Eol)
           /\ \A k \in 1 .. n : f[k - 1] <= f[k]
<1> DEFINE l == Len(d)
           share == l \div n
           S == {k \in 0 .. n : f[k] \in 0 .. l /\ (f[k] \in {0, l} \/ d[f[k]] = Eol)}
<1>1. l \in Nat /\ share \in Nat
  OBVIOUS
<1>2. /\ f[0] = 0 /\ f[n] = l
      /\ \A k \in 1 .. n - 1 : f[k] = ChunkEnd(d, f[k - 1], share)
  BY DEF CutAt
<1> HIDE DEF share
<1>3. ASSUME NEW k \in 0 .. n - 1, k \in S PROVE k + 1 \in S /\ f[k] <= f[k + 1]
  <2>1. k + 1 \in 0 .. n /\ (k + 1) - 1 = k /\ f[k] \in 0 .. l
    BY <1>3
  <2>2. CASE k + 1 = n
    <3>1. f[k + 1] = l
      BY <1>2, <2>2
    <3> QED BY <1>1, <2>1, <3>1
  <2>3. CASE k + 1 # n
    <3>1. k + 1 \in 1 .. n - 1
      BY <2>3
    <3>2. f[k + 1] = ChunkEnd(d, f[k], share)
      BY <1>2, <2>1, <3>1
    <3>3. f[k + 1] \in f[k] .. l /\ (f[k + 1] = l \/ d[f[k + 1]] = Eol)
      BY <1>1, <2>1, <3>2, ChunkEndIs
    <3> QED BY <1>1, <2>1, <3>3
  <2> QED BY <2>2, <2>3
<1>4. 0 \in S
  BY <1>1, <1>2
<1>5. \A k \in 0 .. n : k \in S
  <2> HIDE DEF S
  <2> QED BY <1>3, <1>4, DelimitFold!Induction
<1>6. ASSUME NEW k \in 1 .. n PROVE f[k - 1] <= f[k]
  <2>1. k - 1 \in 0 .. n - 1 /\ k - 1 \in 0 .. n /\ (k - 1) + 1 = k
    OBVIOUS
  <2> HIDE DEF S
  <2>2. k - 1 \in S
    BY <1>5, <2>1
  <2>3. f[k - 1] <= f[(k - 1) + 1]
    BY <1>3, <2>1, <2>2
  <2> QED BY <2>1, <2>3
<1> QED BY <1>2, <1>5, <1>6

Tallies(cs) == [i \in DOMAIN cs |-> Tally(Terminated(cs[i]))]

\* What the chunks that have been cut off say of the first m bytes.
Covers(d, m, cs) ==
    /\ cs \in Seq(Seq(Octets))
    /\ (\A i \in DOMAIN cs : AllParse(Terminated(cs[i]))) <=> AllParse(Terminated(SubSeq(d, 1, m)))
    /\ AllParse(Terminated(SubSeq(d, 1, m))) =>
          CombineFold!Left(Zero, Tallies(cs)) = Tally(Terminated(SubSeq(d, 1, m)))

LEMMA TallyOfChunk ==
    ASSUME NEW c \in Seq(Octets), AllParse(Terminated(c))
    PROVE  Terminated(c) \in Seq(Rows) /\ Tally(Terminated(c)) \in Maps
<1>1. Terminated(c) \in Seq(Rows)
  BY TerminatedType, AllParseRows
<1> QED BY <1>1, TallyConcat

LEMMA TalliesAppend ==
    ASSUME NEW cs \in Seq(Seq(Octets)), NEW c \in Seq(Octets),
           \A i \in DOMAIN cs : AllParse(Terminated(cs[i])), AllParse(Terminated(c))
    PROVE  /\ Tallies(cs) \in Seq(Maps)
           /\ Tallies(Append(cs, c)) = Append(Tallies(cs), Tally(Terminated(c)))
<1> DEFINE n == Len(cs)
           ds == Append(cs, c)
           a == Tallies(cs)
           b == Tallies(ds)
           x == Tally(Terminated(c))
<1>1. /\ n \in Nat /\ DOMAIN cs = 1 .. n /\ ds \in Seq(Seq(Octets)) /\ Len(ds) = n + 1 /\ DOMAIN ds = 1 .. n + 1
      /\ \A i \in 1 .. n : ds[i] = cs[i] /\ cs[i] \in Seq(Octets)
      /\ ds[n + 1] = c
  <2>1. n \in Nat /\ DOMAIN cs = 1 .. n /\ \A i \in 1 .. n : cs[i] \in Seq(Octets)
    OBVIOUS
  <2>2. /\ ds \in Seq(Seq(Octets)) /\ Len(ds) = n + 1 /\ ds[n + 1] = c
        /\ \A i \in 1 .. n : ds[i] = cs[i]
    BY AppendProperties
  <2> HIDE DEF ds
  <2> QED BY <2>1, <2>2
<1>2. x \in Maps
  BY TallyOfChunk
<1>3. \A i \in 1 .. n : Tally(Terminated(cs[i])) \in Maps
  BY <1>1, TallyOfChunk
<1> HIDE DEF n, ds, x
<1>4. a \in Seq(Maps) /\ Len(a) = n /\ \A i \in 1 .. n : a[i] = Tally(Terminated(cs[i]))
  BY <1>1, <1>3 DEF Tallies
<1>5. \A i \in 1 .. n + 1 : b[i] = IF i = n + 1 THEN x ELSE a[i]
  <2>1. \A i \in 1 .. n + 1 : b[i] = Tally(Terminated(ds[i]))
    BY <1>1 DEF Tallies
  <2>2. \A i \in 1 .. n + 1 : i # n + 1 => i \in 1 .. n
    BY <1>1
  <2> HIDE DEF a, b
  <2> QED BY <1>1, <1>4, <2>1, <2>2 DEF x
<1>6. DOMAIN b = 1 .. n + 1 /\ b = [i \in 1 .. n + 1 |-> b[i]]
  BY <1>1 DEF Tallies
<1> HIDE DEF a, b
<1>7. b \in Seq(Maps) /\ Len(b) = n + 1
  <2>1. \A i \in 1 .. n + 1 : b[i] \in Maps
    <3>1. \A i \in 1 .. n + 1 : i # n + 1 => i \in 1 .. n
      BY <1>1
    <3>2. \A i \in 1 .. n : a[i] \in Maps
      BY <1>3, <1>4
    <3> QED BY <1>2, <1>5, <3>1, <3>2
  <2>2. b \in [1 .. n + 1 -> Maps] /\ n + 1 \in Nat
    BY <1>1, <1>6, <2>1
  <2> QED BY <2>2
<1>8. /\ Append(a, x) \in Seq(Maps) /\ Len(Append(a, x)) = n + 1 /\ Append(a, x)[n + 1] = x
      /\ \A i \in 1 .. n : Append(a, x)[i] = a[i]
  BY <1>2, <1>4, AppendProperties
<1>9. b = Append(a, x)
  <2>1. \A i \in 1 .. n + 1 : b[i] = Append(a, x)[i]
    <3>1. \A i \in 1 .. n + 1 : i # n + 1 => i \in 1 .. n
      BY <1>1
    <3> QED BY <1>5, <1>8, <3>1
  <2> QED BY <1>7, <1>8, <2>1, SeqEqual
<1> QED BY <1>4, <1>9 DEF a, b, x, ds

LEMMA CoversMore ==
    ASSUME NEW d \in Seq(Octets), NEW m \in 0 .. Len(d), NEW n \in 0 .. Len(d), m < n,
           m = 0 \/ d[m] = Eol, NEW cs, Covers(d, m, cs)
    PROVE  Covers(d, n, Append(cs, SubSeq(d, m + 1, n)))
<1> DEFINE c == SubSeq(d, m + 1, n)
           before == SubSeq(d, 1, m)
           ds == Append(cs, c)
           xs == Terminated(before)
           ys == Terminated(c)
           zs == Terminated(SubSeq(d, 1, n))
<1>1. /\ Len(d) \in Nat /\ m \in Nat /\ n \in Nat
      /\ c \in Seq(Octets) /\ before \in Seq(Octets) /\ Len(before) = m
      /\ m # 0 => before[m] = d[m]
  <2>1. Len(d) \in Nat /\ m \in Nat /\ n \in Nat
    OBVIOUS
  <2>2. c \in Seq(Octets) /\ before \in Seq(Octets) /\ Len(before) = m
    OBVIOUS
  <2>3. m # 0 => before[m] = d[m]
    OBVIOUS
  <2> QED BY <2>1, <2>2, <2>3
<1>2. SubSeq(d, 1, n) = before \o c
  <2>1. 1 \in 1 .. Len(d) + 1 /\ m \in 1 - 1 .. Len(d) /\ n \in m .. Len(d)
    BY <1>1
  <2> QED BY <2>1, ConcatAdjacentSubSeq
<1> HIDE DEF c, before
<1>3. before = <<>> \/ Last(before) = Eol
  <2>1. CASE m = 0
    BY <1>1, <2>1
  <2>2. CASE m # 0
    BY <1>1, <2>2 DEF Last
  <2> QED BY <2>1, <2>2
<1>4. zs = xs \o ys
  BY <1>1, <1>2, <1>3, TerminatedConcat, EolIs
<1>5. xs \in Seq(Seq(Octets)) /\ ys \in Seq(Seq(Octets))
  BY <1>1, TerminatedType
<1> HIDE DEF xs, ys, zs
<1>6. AllParse(zs) <=> AllParse(xs) /\ AllParse(ys)
  BY <1>4, <1>5, AllParseConcat
<1>7. /\ cs \in Seq(Seq(Octets))
      /\ (\A i \in DOMAIN cs : AllParse(Terminated(cs[i]))) <=> AllParse(xs)
      /\ AllParse(xs) => CombineFold!Left(Zero, Tallies(cs)) = Tally(xs)
  BY DEF Covers, xs, before
<1>8. /\ ds \in Seq(Seq(Octets)) /\ DOMAIN ds = 1 .. Len(cs) + 1 /\ Len(cs) \in Nat /\ DOMAIN cs = 1 .. Len(cs)
      /\ \A i \in 1 .. Len(cs) : ds[i] = cs[i]
      /\ ds[Len(cs) + 1] = c
  <2>1. Len(cs) \in Nat /\ DOMAIN cs = 1 .. Len(cs)
    BY <1>7
  <2>2. ds \in Seq(Seq(Octets)) /\ Len(ds) = Len(cs) + 1 /\ ds[Len(cs) + 1] = c
        /\ \A i \in 1 .. Len(cs) : ds[i] = cs[i]
    <3> DEFINE T == Seq(Octets)
    <3>1. cs \in Seq(T) /\ c \in T
      BY <1>1, <1>7
    <3> HIDE DEF T
    <3>2. Append(cs, c) \in Seq(T)
      BY <3>1, AppendProperties
    <3>3. /\ Len(Append(cs, c)) = Len(cs) + 1 /\ Append(cs, c)[Len(cs) + 1] = c
          /\ \A i \in 1 .. Len(cs) : Append(cs, c)[i] = cs[i]
      BY <3>1, AppendProperties
    <3> QED BY <3>2, <3>3 DEF T
  <2> HIDE DEF ds
  <2> QED BY <2>1, <2>2
<1> HIDE DEF ds
<1>9. (\A i \in DOMAIN ds : AllParse(Terminated(ds[i])))
         <=> (\A i \in DOMAIN cs : AllParse(Terminated(cs[i]))) /\ AllParse(ys)
  <2>1. \A i \in DOMAIN ds : i \in DOMAIN cs \/ i = Len(cs) + 1
    BY <1>8
  <2>2. Len(cs) + 1 \in DOMAIN ds /\ \A i \in DOMAIN cs : i \in DOMAIN ds
    BY <1>8
  <2> QED BY <1>8, <2>1, <2>2 DEF ys
<1>10. ASSUME AllParse(zs) PROVE CombineFold!Left(Zero, Tallies(ds)) = Tally(zs)
  <2>1. /\ AllParse(xs) /\ AllParse(ys) /\ xs \in Seq(Rows) /\ ys \in Seq(Rows)
        /\ Tally(ys) \in Maps
    BY <1>1, <1>6, <1>10, TallyOfChunk DEF xs, ys
  <2>2. Tallies(cs) \in Seq(Maps) /\ Tallies(ds) = Append(Tallies(cs), Tally(ys))
    BY <1>1, <1>7, <2>1, TalliesAppend DEF ds, ys
  <2>3. CombineFold!Left(Zero, Append(Tallies(cs), Tally(ys)))
           = Combined(CombineFold!Left(Zero, Tallies(cs)), Tally(ys))
    BY <2>1, <2>2, CombineFold!LeftAppend
  <2>4. Tally(zs) = Combined(Tally(xs), Tally(ys))
    BY <1>4, <2>1, TallyConcat
  <2> QED BY <1>7, <2>1, <2>2, <2>3, <2>4
<1>11. Covers(d, n, ds)
  BY <1>6, <1>7, <1>8, <1>9, <1>10 DEF Covers, zs
<1> QED BY <1>11 DEF ds, c

LEMMA CoversNone == ASSUME NEW d \in Seq(Octets) PROVE Covers(d, 0, <<>>)
<1> DEFINE none == <<>>
<1>1. none \in Seq(Seq(Octets)) /\ SubSeq(d, 1, 0) = <<>> /\ DOMAIN none = {}
  OBVIOUS
<1>2. Terminated(<<>>) = <<>>
  BY DelimitedIs, DelimitFold!LeftEmpty DEF Terminated, Undelimited
<1>3. Tally(<<>>) = Zero
  BY TalliedIs, TallyFold!LeftEmpty DEF Tally
<1>4. Tallies(none) = <<>>
  <2>1. Tallies(none) = [i \in {} |-> Tally(Terminated(none[i]))]
    BY <1>1 DEF Tallies
  <2>2. Tallies(none) \in Seq({}) /\ Len(Tallies(none)) = 0
    <3>1. {} = 1 .. 0
      OBVIOUS
    <3> HIDE DEF none
    <3> QED BY <2>1, <3>1
  <2> QED BY <2>2, EmptySeq
<1>5. CombineFold!Left(Zero, <<>>) = Zero
  BY CombineFold!LeftEmpty
<1>6. AllParse(<<>>)
  BY DEF AllParse
<1> HIDE DEF none
<1>7. Covers(d, 0, none)
  BY <1>1, <1>2, <1>3, <1>4, <1>5, <1>6 DEF Covers
<1> QED BY <1>7 DEF none

\* The chunks together say what the file says.
LEMMA ChunksCover ==
    ASSUME NEW d \in Seq(Octets), NEW n \in Nat \ {0}
    PROVE  Covers(d, Len(d), SplitChunks(d, n))
<1>1. PICK f : CutAt(d, n, f) /\ SplitChunks(d, n) = PushFold!Left(<<>>, SharesOf(d, n, f))
  BY SplitIs
<1>2. /\ f[0] = 0 /\ f[n] = Len(d)
      /\ \A k \in 0 .. n : f[k] \in 0 .. Len(d) /\ (f[k] \in {0, Len(d)} \/ d[f[k]] = Eol)
      /\ \A k \in 1 .. n : f[k - 1] <= f[k]
  BY <1>1, CutsAre
<1> DEFINE ps == SharesOf(d, n, f)
<1>3. /\ \A k \in 1 .. n : ps[k] = SubSeq(d, f[k - 1] + 1, f[k])
      /\ ps \in Seq(Seq(Octets)) /\ Len(ps) = n
  <2>1. \A k \in 1 .. n : SubSeq(d, f[k - 1] + 1, f[k]) \in Seq(Octets)
    <3>1. SUFFICES ASSUME NEW k \in 1 .. n PROVE SubSeq(d, f[k - 1] + 1, f[k]) \in Seq(Octets)
      OBVIOUS
    <3>2. k \in 0 .. n /\ k - 1 \in 0 .. n
      OBVIOUS
    <3>3. f[k - 1] \in 0 .. Len(d) /\ f[k] \in 0 .. Len(d)
      BY <1>2, <3>2
    <3> QED BY <3>3
  <2>2. ps = [k \in 1 .. n |-> SubSeq(d, f[k - 1] + 1, f[k])]
    BY DEF SharesOf
  <2>3. \A k \in 1 .. n : ps[k] = SubSeq(d, f[k - 1] + 1, f[k])
    BY <2>2
  <2>4. DOMAIN ps = 1 .. n /\ ps = [k \in 1 .. n |-> ps[k]]
    BY <2>2
  <2> HIDE DEF ps
  <2>5. ps \in [1 .. n -> Seq(Octets)]
    <3>1. \A k \in 1 .. n : ps[k] \in Seq(Octets)
      BY <2>1, <2>3
    <3> QED BY <2>4, <3>1
  <2> QED BY <2>3, <2>5
<1> HIDE DEF ps
<1>4. PICK h : PushFold!Runs(<<>>, ps, h) /\ h[n] = PushFold!Left(<<>>, ps)
  BY <1>3, PushFold!LeftRuns
<1> DEFINE S == {k \in 0 .. n : Covers(d, f[k], h[k])}
<1>5. 0 \in S
  BY <1>2, <1>4, CoversNone DEF PushFold!Runs
<1>6. ASSUME NEW k \in 0 .. n - 1, k \in S PROVE k + 1 \in S
  <2>1. k + 1 \in 1 .. n /\ (k + 1) - 1 = k /\ k + 1 \in 0 .. n /\ k \in 0 .. n
    OBVIOUS
  <2> DEFINE i == f[k]
             j == f[k + 1]
             c == SubSeq(d, i + 1, j)
  <2>2. /\ i \in 0 .. Len(d) /\ (i \in {0, Len(d)} \/ d[i] = Eol)
        /\ j \in 0 .. Len(d)
    BY <1>2, <2>1
  <2>3. i <= j
    BY <1>2, <2>1
  <2>4. h[k + 1] = Pushed(h[k], c)
    <3>1. h[k + 1] = Pushed(h[k], ps[k + 1])
      BY <1>3, <1>4, <2>1 DEF PushFold!Runs
    <3> QED BY <1>3, <2>1, <3>1
  <2>5. Covers(d, i, h[k])
    BY <1>6
  <2> HIDE DEF i, j
  <2>6. Covers(d, j, h[k + 1])
    <3>1. CASE i = j
      <4>1. c = <<>>
        BY <2>2, <3>1, SubSeqEmpty
      <4> QED BY <2>4, <2>5, <3>1, <4>1 DEF Pushed
    <3>2. CASE i < j
      <4>1. i = 0 \/ d[i] = Eol
        BY <2>2, <3>2
      <4>2. c # <<>>
        <5>1. Len(c) = j - i
          BY <2>2, <3>2
        <5> QED BY <2>2, <3>2, <5>1
      <4>3. h[k + 1] = Append(h[k], c)
        BY <2>4, <4>2 DEF Pushed
      <4>4. Covers(d, j, Append(h[k], c))
        BY <2>2, <2>5, <3>2, <4>1, CoversMore
      <4> QED BY <4>3, <4>4
    <3> QED BY <2>2, <2>3, <3>1, <3>2
  <2> QED BY <2>1, <2>6 DEF j
<1>7. n \in S
  <2>1. n \in 0 .. n
    OBVIOUS
  <2> HIDE DEF S
  <2> QED BY <1>5, <1>6, <2>1, PushFold!Induction
<1> QED BY <1>1, <1>2, <1>4, <1>7 DEF ps

(***************************************************************************)
(* What the rows tell of a station, row by row.                            *)
(***************************************************************************)
RowsOf(ls, k, s) == {j \in 1 .. k : NameOf(ls[j]) = s}

TempsOf(ls, k, s) == {TempOf(ls[j]) : j \in RowsOf(ls, k, s)}

TempAt(ls) == [j \in DOMAIN ls |-> TempOf(ls[j])]

IsLeast(x, t) == x \in t /\ \A y \in t : x <= y

IsGreatest(x, t) == x \in t /\ \A y \in t : x >= y

LEMMA LeastIs ==
    ASSUME NEW t, t \subseteq Int, NEW x
    PROVE  (IsLeast(x, t) => Min(t) = x) /\ (IsGreatest(x, t) => Max(t) = x)
<1>1. ASSUME IsLeast(x, t) PROVE Min(t) = x
  <2>1. \A z \in t : (\A y \in t : z <= y) => z = x
    BY <1>1 DEF IsLeast
  <2> QED BY <1>1, <2>1 DEF IsLeast, Min
<1>2. ASSUME IsGreatest(x, t) PROVE Max(t) = x
  <2>1. \A z \in t : (\A y \in t : z >= y) => z = x
    BY <1>2 DEF IsGreatest
  <2> QED BY <1>2, <2>1 DEF IsGreatest, Max
<1> QED BY <1>1, <1>2

LEMMA LeastMore ==
    ASSUME NEW t, t \subseteq Int, NEW x \in Int, NEW y \in Int
    PROVE  /\ IsLeast(x, t) => IsLeast(Least(x, y), t \cup {y})
           /\ IsGreatest(x, t) => IsGreatest(Greatest(x, y), t \cup {y})
BY DEF IsLeast, IsGreatest, Least, Greatest

\* g has the sums of the rows' temperatures.
ToldOf(g, ls, k, s, x) ==
    /\ IsLeast(x.min, TempsOf(ls, k, s) \cup {I32Max})
    /\ IsGreatest(x.max, TempsOf(ls, k, s) \cup {I32Min})
    /\ x.sum = g[RowsOf(ls, k, s)]
    /\ x.count = Cardinality(RowsOf(ls, k, s))

LEMMA RowsUpTo ==
    ASSUME NEW ls \in Seq(Rows), NEW k \in 0 .. Len(ls), NEW s
    PROVE  /\ RowsOf(ls, k, s) \subseteq DOMAIN ls /\ RowsOf(ls, k, s) \subseteq 1 .. k
           /\ IsFiniteSet(RowsOf(ls, k, s)) /\ TempsOf(ls, k, s) \subseteq Int
<1> DEFINE t == RowsOf(ls, k, s)
<1>1. Len(ls) \in Nat /\ DOMAIN ls = 1 .. Len(ls) /\ k \in Nat /\ \A j \in 1 .. Len(ls) : ls[j] \in Rows
  OBVIOUS
<1>2. t \subseteq 1 .. k /\ 1 .. k \subseteq 1 .. Len(ls)
  BY <1>1 DEF RowsOf
<1>3. IsFiniteSet(t)
  <2>1. IsFiniteSet(1 .. k)
    BY <1>1, FS_Interval
  <2> HIDE DEF t
  <2> QED BY <1>2, <2>1, FS_Subset
<1>4. \A j \in 1 .. Len(ls) : TempOf(ls[j]) \in Int
  BY <1>1, RowIs
<1>5. TempsOf(ls, k, s) \subseteq Int
  BY <1>2, <1>4 DEF TempsOf
<1> QED BY <1>1, <1>2, <1>3, <1>5

LEMMA OneRowMore ==
    ASSUME NEW ls \in Seq(Rows), NEW k \in 0 .. Len(ls) - 1, NEW s,
           NEW g, Adds(TempAt(ls), DOMAIN ls, g), NEW x \in BrcStat, ToldOf(g, ls, k, s, x)
    PROVE  ToldOf(g, ls, k + 1, s, IF s = NameOf(ls[k + 1]) THEN Measured(x, TempOf(ls[k + 1])) ELSE x)
<1> DEFINE t == RowsOf(ls, k, s)
           u == RowsOf(ls, k + 1, s)
           y == TempOf(ls[k + 1])
           A == TempsOf(ls, k, s)
           C == TempsOf(ls, k + 1, s)
<1>1. /\ Len(ls) \in Nat /\ DOMAIN ls = 1 .. Len(ls) /\ k \in Nat /\ k \in 0 .. Len(ls)
      /\ k + 1 \in 1 .. Len(ls) /\ ls[k + 1] \in Rows
  OBVIOUS
<1>2. t \subseteq DOMAIN ls /\ t \subseteq 1 .. k /\ IsFiniteSet(t) /\ A \subseteq Int
  BY <1>1, RowsUpTo
<1>3. \A j : j \in 1 .. k + 1 <=> j \in 1 .. k \/ j = k + 1
  BY <1>1
<1>4. CASE s # NameOf(ls[k + 1])
  <2>1. u = t
    BY <1>3, <1>4 DEF RowsOf
  <2>2. C = A
    BY <2>1 DEF TempsOf
  <2> QED BY <1>4, <2>1, <2>2 DEF ToldOf
<1>5. CASE s = NameOf(ls[k + 1])
  <2>1. u = t \cup {k + 1} /\ k + 1 \notin t
    BY <1>1, <1>2, <1>3, <1>5 DEF RowsOf
  <2>2. C = A \cup {y}
    BY <2>1 DEF TempsOf
  <2>3. y \in Int /\ I32Max \in Int /\ I32Min \in Int
    BY <1>1, RowIs, BoundsAre
  <2>4. /\ x.min \in Int /\ x.max \in Int /\ x.sum \in Int /\ x.count \in Nat
    BY StatFields
  <2> HIDE DEF t, u, y, A, C
  <2>5. /\ IsLeast(x.min, A \cup {I32Max}) /\ IsGreatest(x.max, A \cup {I32Min})
        /\ x.sum = g[t] /\ x.count = Cardinality(t)
    BY DEF ToldOf, A, t
  <2>6. /\ IsLeast(Least(x.min, y), (A \cup {I32Max}) \cup {y})
        /\ IsGreatest(Greatest(x.max, y), (A \cup {I32Min}) \cup {y})
    BY <1>2, <2>3, <2>4, <2>5, LeastMore
  <2>7. (A \cup {I32Max}) \cup {y} = C \cup {I32Max} /\ (A \cup {I32Min}) \cup {y} = C \cup {I32Min}
    BY <2>2
  <2>8. Cardinality(u) = Cardinality(t) + 1
    BY <1>2, <2>1, FS_AddElement
  <2>9. g[u] = g[t] + y
    <3>1. \A v \in SUBSET DOMAIN ls : g[v] \in Int /\ \A j \in v : g[v] = TempAt(ls)[j] + g[v \ {j}]
      <4> DEFINE f == TempAt(ls)
                 S == DOMAIN ls
      <4>1. Adds(f, S, g)
        OBVIOUS
      <4> HIDE DEF f, S
      <4>2. \A v \in SUBSET S : g[v] \in Int /\ \A j \in v : g[v] = f[j] + g[v \ {j}]
        BY <4>1, SumsTake
      <4> QED BY <4>2 DEF f, S
    <3>2. u \in SUBSET DOMAIN ls /\ t \in SUBSET DOMAIN ls /\ k + 1 \in u /\ u \ {k + 1} = t
      BY <1>1, <1>2, <2>1
    <3>3. TempAt(ls)[k + 1] = y
      BY <1>1 DEF TempAt, y
    <3>4. g[u] = y + g[t] /\ g[t] \in Int
      BY <3>1, <3>2, <3>3
    <3> QED BY <2>3, <3>4
  <2> DEFINE z == Measured(x, y)
  <2>10. z.min = Least(x.min, y) /\ z.max = Greatest(x.max, y) /\ z.sum = x.sum + y /\ z.count = x.count + 1
    BY DEF Measured
  <2> HIDE DEF z
  <2>11. ToldOf(g, ls, k + 1, s, z)
    BY <2>5, <2>6, <2>7, <2>8, <2>9, <2>10 DEF ToldOf, C, u
  <2> QED BY <1>5, <2>11 DEF z, y
<1> QED BY <1>4, <1>5

LEMMA TallyTells ==
    ASSUME NEW ls \in Seq(Rows), NEW g, Adds(TempAt(ls), DOMAIN ls, g)
    PROVE  Tally(ls) \in Maps /\ \A s \in Stations : ToldOf(g, ls, Len(ls), s, Tally(ls)[s])
<1> DEFINE n == Len(ls)
<1>1. PICK h : TallyFold!Runs(Zero, ls, h) /\ h[n] = TallyFold!Left(Zero, ls)
  BY TallyFold!LeftRuns
<1> DEFINE S == {k \in 0 .. n : h[k] \in Maps /\ \A s \in Stations : ToldOf(g, ls, k, s, h[k][s])}
<1>2. n \in Nat /\ \A k \in 1 .. n : ls[k] \in Rows
  OBVIOUS
<1>3. 0 \in S
  <2>1. h[0] = Zero /\ Zero \in Maps
    BY <1>1, ZeroType DEF TallyFold!Runs
  <2>2. ASSUME NEW s \in Stations PROVE ToldOf(g, ls, 0, s, Zero[s])
    <3>1. RowsOf(ls, 0, s) = {} /\ TempsOf(ls, 0, s) = {}
      BY DEF RowsOf, TempsOf
    <3>2. g[{}] = 0
      <4>1. SumsOf(TempAt(ls), DOMAIN ls, g) /\ {} \in SUBSET DOMAIN ls
        BY DEF Adds
      <4> QED BY <4>1, SumsAt
    <3>3. Cardinality({}) = 0
      BY FS_EmptySet
    <3>4. I32Max \in Int /\ I32Min \in Int /\ Zero[s] = DefaultStats
      BY BoundsAre DEF Zero
    <3>5. IsLeast(I32Max, {I32Max}) /\ IsGreatest(I32Min, {I32Min})
      BY <3>4 DEF IsLeast, IsGreatest
    <3> DEFINE x == Zero[s]
    <3>6. x.min = I32Max /\ x.max = I32Min /\ x.sum = 0 /\ x.count = 0
      BY <3>4 DEF DefaultStats
    <3>7. {} \cup {I32Max} = {I32Max} /\ {} \cup {I32Min} = {I32Min}
      OBVIOUS
    <3> HIDE DEF x
    <3>8. ToldOf(g, ls, 0, s, x)
      BY <3>1, <3>2, <3>3, <3>5, <3>6, <3>7 DEF ToldOf
    <3> QED BY <3>8 DEF x
  <2> QED BY <1>2, <2>1, <2>2
<1>4. ASSUME NEW k \in 0 .. n - 1, k \in S PROVE k + 1 \in S
  <2>1. k + 1 \in 1 .. n /\ (k + 1) - 1 = k /\ k + 1 \in 0 .. n
    BY <1>2
  <2>2. h[k + 1] = Tallied(h[k], ls[k + 1]) /\ ls[k + 1] \in Rows
    BY <1>1, <1>2, <2>1 DEF TallyFold!Runs
  <2>3. h[k] \in Maps /\ \A s \in Stations : ToldOf(g, ls, k, s, h[k][s])
    BY <1>4
  <2>4. /\ h[k + 1] \in Maps
        /\ \A s \in Stations : h[k + 1][s] = IF s = NameOf(ls[k + 1]) THEN Measured(h[k][s], TempOf(ls[k + 1])) ELSE h[k][s]
    BY <2>2, <2>3, TalliedType
  <2>5. ASSUME NEW s \in Stations PROVE ToldOf(g, ls, k + 1, s, h[k + 1][s])
    <3> DEFINE x == h[k][s]
    <3>1. x \in BrcStat /\ ToldOf(g, ls, k, s, x)
      BY <2>3 DEF Maps
    <3> HIDE DEF x
    <3>2. ToldOf(g, ls, k + 1, s, IF s = NameOf(ls[k + 1]) THEN Measured(x, TempOf(ls[k + 1])) ELSE x)
      BY <3>1, OneRowMore
    <3> QED BY <2>4, <3>2 DEF x
  <2> QED BY <2>1, <2>4, <2>5
<1>5. n \in S
  <2>1. n \in 0 .. n
    BY <1>2
  <2> HIDE DEF S, n
  <2> QED BY <1>2, <1>3, <1>4, <2>1, TallyFold!Induction
<1>6. Tally(ls) = h[n]
  BY <1>1, TalliedIs DEF Tally
<1> QED BY <1>5, <1>6

LEMMA AggregateTells ==
    ASSUME NEW d \in Seq(Octets)
    PROVE  /\ Aggregate(d) = Told(d)
           /\ AllParse(Terminated(d)) => Told(d) = Tally(Terminated(d)) /\ Told(d) \in Maps
           /\ ~AllParse(Terminated(d)) => Told(d) = Panicked
<1> DEFINE ls == Terminated(d)
<1>1. Aggregate(d) = IF AllParse(ls) THEN Tally(ls) ELSE Panicked
  BY DEF Aggregate, AllParse, Tally
<1>2. CASE ~AllParse(ls)
  <2>1. Told(d) = Panicked
    BY <1>2 DEF Told, AllParse
  <2> QED BY <1>1, <1>2, <2>1
<1>3. CASE AllParse(ls)
  <2>1. ls \in Seq(Seq(Octets))
    BY TerminatedType
  <2> DEFINE f == TempAt(ls)
             rows(s) == {k \in DOMAIN ls : NameOf(ls[k]) = s}
             temps(s) == {TempOf(ls[k]) : k \in rows(s)}
             told(s) == [min |-> Min(temps(s) \cup {I32Max}), max |-> Max(temps(s) \cup {I32Min}),
                         sum |-> SumFunctionOnSet(f, rows(s)), count |-> Cardinality(rows(s))]
  <2>2. Told(d) = [s \in Stations |-> told(s)]
    BY <1>3 DEF Told, AllParse, TempAt
  <2> HIDE DEF ls
  <2>3. ls \in Seq(Rows) /\ Len(ls) \in Nat /\ DOMAIN ls = 1 .. Len(ls) /\ Len(ls) \in 0 .. Len(ls)
    BY <1>3, <2>1, AllParseRows
  <2>4. PICK g : SumsOf(f, DOMAIN ls, g)
    <3>1. IsFiniteSet(DOMAIN ls)
      BY <2>3, FS_Interval
    <3> QED BY <3>1, SumsExist
  <2>5. Adds(f, DOMAIN ls, g)
    <3>1. IsFiniteSet(DOMAIN ls)
      BY <2>3, FS_Interval
    <3>2. \A k \in DOMAIN ls : ls[k] \in Rows
      BY <2>3
    <3>3. \A k \in DOMAIN ls : f[k] \in Int
      BY <3>2, RowIs DEF TempAt
    <3> QED BY <2>4, <3>1, <3>3 DEF Adds
  <2> HIDE DEF f
  <2>6. Tally(ls) \in Maps /\ \A s \in Stations : ToldOf(g, ls, Len(ls), s, Tally(ls)[s])
    BY <2>3, <2>5, TallyTells DEF f
  <2>7. ASSUME NEW s \in Stations PROVE Tally(ls)[s] = told(s)
    <3> DEFINE x == Tally(ls)[s]
               t == RowsOf(ls, Len(ls), s)
               A == TempsOf(ls, Len(ls), s)
    <3>1. rows(s) = t /\ temps(s) = A
      BY <2>3 DEF RowsOf, TempsOf
    <3>2. t \subseteq DOMAIN ls /\ A \subseteq Int
      BY <2>3, RowsUpTo
    <3>3. x \in BrcStat
      BY <2>6 DEF Maps
    <3>4. x = [min |-> x.min, max |-> x.max, sum |-> x.sum, count |-> x.count]
      BY <3>3, StatFields
    <3>5. /\ IsLeast(x.min, A \cup {I32Max}) /\ IsGreatest(x.max, A \cup {I32Min})
          /\ x.sum = g[t] /\ x.count = Cardinality(t)
      BY <2>6 DEF ToldOf
    <3>6. SumFunctionOnSet(f, t) = g[t]
      BY <2>5, <3>2, SumWithin
    <3>7. Min(A \cup {I32Max}) = x.min /\ Max(A \cup {I32Min}) = x.max
      <4>1. A \cup {I32Max} \subseteq Int /\ A \cup {I32Min} \subseteq Int
        BY <3>2, BoundsAre
      <4> QED BY <3>5, <4>1, LeastIs
    <3> HIDE DEF x, t, A, rows, temps
    <3>8. told(s) = [min |-> x.min, max |-> x.max, sum |-> x.sum, count |-> x.count]
      BY <3>1, <3>5, <3>6, <3>7
    <3> QED BY <3>4, <3>8 DEF x
  <2>8. Tally(ls) = [s \in Stations |-> told(s)]
    <3>1. Tally(ls) = [s \in Stations |-> Tally(ls)[s]]
      BY <2>6 DEF Maps
    <3> HIDE DEF told
    <3> QED BY <2>7, <3>1
  <2>9. Told(d) = Tally(ls)
    BY <2>2, <2>8
  <2> QED BY <1>1, <1>3, <2>6, <2>9 DEF ls
<1> QED BY <1>2, <1>3

(***************************************************************************)
(* The run.                                                                *)
(***************************************************************************)
Cs == SplitChunks(mapped, workers)

\* A thread that has ended has the map of its chunk; none that was joined panicked.
BrcInv ==
    /\ mapped \in Files /\ workers \in BrcThreads
    /\ DOMAIN partial = Spawned
    /\ \A t \in Spawned : partial[t] \in {Unset, Aggregate(Cs[t])}
    /\ joins \in Nat
    /\ \A t \in 1 .. joins : t \in Spawned /\ partial[t] \notin {Unset, Panicked}
    /\ AnswerIsTold

LEMMA MapsAreMaps == ASSUME NEW m \in Maps PROVE m # Unset /\ m # Panicked
<1> DEFINE T == [min : Int, max : Int, sum : Int, count : Int]
<1>1. BrcStat \subseteq T
  BY DEF BrcStat
<1>2. m \in [Stations -> T]
  <2> HIDE DEF T
  <2> QED BY <1>1 DEF Maps
<1> QED BY <1>2, BrcAssumption

\* In parallel: what is said of the chunks and of the file.
LEMMA Parallel ==
    ASSUME mapped \in Files, workers \in BrcThreads, workers > 1
    PROVE  /\ mapped \in Seq(Octets) /\ Covers(mapped, Len(mapped), Cs)
           /\ SubSeq(mapped, 1, Len(mapped)) = mapped
           /\ Spawned = 1 .. Len(Cs) /\ Len(Cs) \in Nat /\ DOMAIN Cs = 1 .. Len(Cs)
           /\ \A t \in 1 .. Len(Cs) : Cs[t] \in Seq(Octets)
<1>1. mapped \in Seq(Octets)
  BY BrcAssumption
<1>2. workers \in Nat \ {0} /\ ~(workers <= 1)
  BY BrcAssumption
<1>3. Covers(mapped, Len(mapped), Cs)
  BY <1>1, <1>2, ChunksCover DEF Cs
<1>4. Cs \in Seq(Seq(Octets))
  BY <1>3 DEF Covers
<1>5. Len(Cs) \in Nat /\ DOMAIN Cs = 1 .. Len(Cs) /\ \A t \in 1 .. Len(Cs) : Cs[t] \in Seq(Octets)
  <2> DEFINE c == Cs
  <2>1. c \in Seq(Seq(Octets))
    BY <1>4
  <2> HIDE DEF c
  <2>2. Len(c) \in Nat /\ DOMAIN c = 1 .. Len(c) /\ \A t \in 1 .. Len(c) : c[t] \in Seq(Octets)
    BY <2>1
  <2> QED BY <2>2 DEF c
<1>6. Spawned = DOMAIN Cs
  BY <1>2 DEF Spawned, Cs
<1>7. SubSeq(mapped, 1, Len(mapped)) = mapped
  BY <1>1
<1> QED BY <1>1, <1>3, <1>5, <1>6, <1>7

LEMMA BrcInitInv == BrcInit => BrcInv
<1> SUFFICES ASSUME BrcInit PROVE BrcInv
  OBVIOUS
<1>1. joins = 0 /\ 1 .. 0 = {} /\ 0 \in Nat
  BY DEF BrcInit
<1> QED BY <1>1 DEF BrcInit, BrcInv, AnswerIsTold

\* A chunk that panics is part of a file that does.
LEMMA PanicIsTold ==
    ASSUME BrcInv, workers > 1, NEW t \in Spawned, partial[t] = Panicked
    PROVE  Told(mapped) = Panicked
<1>1. /\ mapped \in Seq(Octets) /\ Covers(mapped, Len(mapped), Cs)
      /\ SubSeq(mapped, 1, Len(mapped)) = mapped
      /\ Spawned = 1 .. Len(Cs) /\ Len(Cs) \in Nat /\ DOMAIN Cs = 1 .. Len(Cs)
      /\ \A u \in 1 .. Len(Cs) : Cs[u] \in Seq(Octets)
  BY Parallel DEF BrcInv
<1>2. Aggregate(Cs[t]) = Panicked
  BY BrcAssumption DEF BrcInv
<1>3. Cs[t] \in Seq(Octets)
  BY <1>1
<1>4. ~AllParse(Terminated(Cs[t]))
  BY <1>2, <1>3, AggregateTells, MapsAreMaps
<1>5. ~AllParse(Terminated(mapped))
  BY <1>1, <1>4 DEF Covers
<1> QED BY <1>1, <1>5, AggregateTells

\* The maps of all chunks, combined in order.
LEMMA MergeIsTold ==
    ASSUME BrcInv, workers > 1, joins = Cardinality(Spawned)
    PROVE  FoldLeft(Combined, Zero, [t \in 1 .. joins |-> partial[t]]) = Told(mapped)
<1>1. /\ mapped \in Seq(Octets) /\ Covers(mapped, Len(mapped), Cs)
      /\ SubSeq(mapped, 1, Len(mapped)) = mapped
      /\ Spawned = 1 .. Len(Cs) /\ Len(Cs) \in Nat /\ DOMAIN Cs = 1 .. Len(Cs)
      /\ \A u \in 1 .. Len(Cs) : Cs[u] \in Seq(Octets)
  BY Parallel DEF BrcInv
<1>2. joins = Len(Cs)
  <2> DEFINE n == Len(Cs)
  <2>1. Spawned = 1 .. n /\ n \in Nat
    BY <1>1
  <2> HIDE DEF n
  <2>2. Cardinality(1 .. n) = n
    BY <2>1, FS_Interval
  <2> QED BY <2>1, <2>2 DEF n
<1>3. ASSUME NEW t \in 1 .. Len(Cs)
      PROVE  AllParse(Terminated(Cs[t])) /\ partial[t] = Tally(Terminated(Cs[t]))
  <2>1. partial[t] = Aggregate(Cs[t]) /\ partial[t] # Panicked
    BY <1>1, <1>2 DEF BrcInv
  <2>2. Cs[t] \in Seq(Octets)
    BY <1>1
  <2> QED BY <2>1, <2>2, AggregateTells
<1>4. [t \in 1 .. joins |-> partial[t]] = Tallies(Cs)
  BY <1>1, <1>2, <1>3 DEF Tallies
<1>5. AllParse(Terminated(mapped)) /\ CombineFold!Left(Zero, Tallies(Cs)) = Tally(Terminated(mapped))
  <2>1. \A i \in DOMAIN Cs : AllParse(Terminated(Cs[i]))
    BY <1>1, <1>3
  <2> HIDE DEF Cs
  <2> QED BY <1>1, <2>1 DEF Covers
<1>6. Told(mapped) = Tally(Terminated(mapped))
  BY <1>1, <1>5, AggregateTells
<1> QED BY <1>4, <1>5, <1>6, CombinedIs

LEMMA BrcStepInv == BrcInv /\ [BrcNext]_brcVars => BrcInv'
<1> SUFFICES ASSUME BrcInv, [BrcNext]_brcVars PROVE BrcInv'
  OBVIOUS
<1>1. mapped' = mapped /\ workers' = workers /\ Spawned' = Spawned /\ Cs' = Cs
  <2>1. mapped' = mapped /\ workers' = workers
    BY DEF BrcNext, brcVars, RunSequential, ThreadEnds, JoinThread, MergeMaps
  <2> QED BY <2>1 DEF Spawned, Cs
<1>2. ASSUME UNCHANGED <<partial, joins>>, answer' # Unset => answer' = Told(mapped) PROVE BrcInv'
  BY <1>1, <1>2 DEF BrcInv, AnswerIsTold
<1>3. CASE RunSequential
  <2>1. mapped \in Seq(Octets)
    BY BrcAssumption DEF BrcInv
  <2>2. answer' = Told(mapped)
    BY <1>3, <2>1, AggregateTells DEF RunSequential
  <2> QED BY <1>2, <1>3, <2>2 DEF RunSequential
<1>4. ASSUME NEW t \in Spawned, ThreadEnds(t) PROVE BrcInv'
  <2>1. /\ partial[t] = Unset /\ partial' = [partial EXCEPT ![t] = Aggregate(Cs[t])]
        /\ UNCHANGED <<joins, answer>>
    BY <1>4 DEF ThreadEnds, Cs
  <2>2. DOMAIN partial' = Spawned /\ \A u \in Spawned : partial'[u] \in {Unset, Aggregate(Cs[u])}
    BY <2>1 DEF BrcInv
  <2>3. \A u \in 1 .. joins : u \in Spawned /\ partial'[u] \notin {Unset, Panicked}
    BY <2>1 DEF BrcInv
  <2> QED BY <1>1, <2>1, <2>2, <2>3 DEF BrcInv, AnswerIsTold
<1>5. CASE JoinThread
  <2>1. workers > 1
    <3>1. ~(workers <= 1)
      BY <1>5 DEF JoinThread, Spawned
    <3> QED BY <3>1, BrcAssumption DEF BrcInv
  <2>2. CASE partial[joins + 1] = Panicked /\ answer' = Panicked /\ UNCHANGED joins
    <3>1. Told(mapped) = Panicked
      BY <1>5, <2>1, <2>2, PanicIsTold DEF JoinThread
    <3> QED BY <1>2, <1>5, <2>2, <3>1 DEF JoinThread
  <2>3. CASE partial[joins + 1] # Panicked /\ joins' = joins + 1 /\ UNCHANGED answer
    <3>1. /\ joins + 1 \in Spawned /\ partial[joins + 1] \notin {Unset, Panicked} /\ UNCHANGED partial
          /\ joins \in Nat
      BY <1>5, <2>3 DEF JoinThread, BrcInv
    <3>2. \A u \in 1 .. joins + 1 : u \in 1 .. joins \/ u = joins + 1
      BY <3>1
    <3>3. \A u \in 1 .. joins + 1 : u \in Spawned /\ partial[u] \notin {Unset, Panicked}
      BY <3>1, <3>2 DEF BrcInv
    <3> QED BY <1>1, <2>3, <3>1, <3>3 DEF BrcInv, AnswerIsTold
  <2> QED BY <1>5, <2>2, <2>3 DEF JoinThread
<1>6. CASE MergeMaps
  <2>1. answer' = Told(mapped)
    BY <1>6, MergeIsTold DEF MergeMaps
  <2> QED BY <1>2, <1>6, <2>1 DEF MergeMaps
<1>7. CASE UNCHANGED brcVars
  BY <1>2, <1>7 DEF brcVars, BrcInv, AnswerIsTold
<1> QED BY <1>3, <1>4, <1>5, <1>6, <1>7 DEF BrcNext

(***************************************************************************)
(* For any files of bytes, any number of threads and in whatever order     *)
(* they end, with overflow checks or without, the answer is what the rows  *)
(* of the file say of each station, those that a line end completes, or a  *)
(* panic if one of them has no semicolon or a temperature of another shape *)
(* (or, with the checks, a digit below '0'); so "the parallel path agrees  *)
(* with the sequential one" (runner.rs).                                   *)
(***************************************************************************)
THEOREM AnswerStaysTold == BrcSpec => []AnswerIsTold
<1>1. BrcInv => AnswerIsTold
  BY DEF BrcInv
<1> QED BY <1>1, BrcInitInv, BrcStepInv, PTL DEF BrcSpec

-----------------------------------------------------------------------------
(***************************************************************************)
(* The expense tracker.                                                    *)
(***************************************************************************)
Expense == [amount : Amounts, category : Categories, date : Nat]

BooksInv ==
    /\ run \in {"off", "prompt", "spinning"} /\ clock \in Nat
    /\ json.list \in Seq(Expense) /\ json = File(json.list)
    /\ \A i \in DOMAIN json.list : json.list[i].date < clock
    /\ OnRecordIn(json.list)
    /\ run # "off" => expenses = json.list

LEMMA FiniteSequence ==
    ASSUME NEW T, NEW s \in Seq(T)
    PROVE  DOMAIN s = 1 .. Len(s) /\ Len(s) \in Nat /\ IsFiniteSet(DOMAIN s) /\ IsFiniteSet(ToSet(s))
<1>1. DOMAIN s = 1 .. Len(s) /\ Len(s) \in Nat
  OBVIOUS
<1>2. IsFiniteSet(DOMAIN s)
  BY <1>1, FS_Interval
<1>3. s \in Surjection(DOMAIN s, ToSet(s))
  BY DEF Surjection, ToSet
<1>4. IsFiniteSet(ToSet(s))
  BY <1>2, <1>3, FS_Surjection
<1> QED BY <1>1, <1>2, <1>4

\* The list without one of its elements.
LEMMA RemovedIs ==
    ASSUME NEW T, NEW s \in Seq(T), NEW i \in 1 .. Len(s)
    PROVE  /\ Removed(s, i) \in Seq(T) /\ Len(Removed(s, i)) = Len(s) - 1
           /\ \A j \in 1 .. Len(s) - 1 : Removed(s, i)[j] = IF j < i THEN s[j] ELSE s[j + 1]
<1> DEFINE front == SubSeq(s, 1, i - 1)
           back  == SubSeq(s, i + 1, Len(s))
           n     == Len(s)
<1>1. n \in Nat /\ i \in Nat /\ 1 <= i /\ i <= n
  OBVIOUS
<1>2. front \in Seq(T) /\ Len(front) = i - 1 /\ \A j \in 1 .. i - 1 : front[j] = s[j]
  OBVIOUS
<1>3. back \in Seq(T) /\ Len(back) = n - i
  OBVIOUS
<1>4. \A j \in 1 .. n - i : back[j] = s[j + i]
  OBVIOUS
<1> DEFINE r == front \o back
<1> HIDE DEF front, back, n
<1>5. r \in Seq(T) /\ Len(r) = n - 1
  <2>1. r \in Seq(T) /\ Len(r) = Len(front) + Len(back)
    BY <1>2, <1>3, ConcatProperties
  <2> HIDE DEF r
  <2> QED BY <1>1, <1>2, <1>3, <2>1
<1>6. \A j \in 1 .. n - 1 : r[j] = IF j <= i - 1 THEN front[j] ELSE back[j - (i - 1)]
  BY <1>1, <1>2, <1>3
<1>7. ASSUME NEW j \in 1 .. n - 1 PROVE r[j] = IF j < i THEN s[j] ELSE s[j + 1]
  <2>1. CASE j < i
    <3>1. j \in 1 .. i - 1 /\ j <= i - 1
      BY <1>1, <2>1
    <3> QED BY <1>2, <1>6, <2>1, <3>1
  <2>2. CASE ~(j < i)
    <3>1. j - (i - 1) \in 1 .. n - i /\ (j - (i - 1)) + i = j + 1 /\ ~(j <= i - 1)
      BY <1>1, <2>2
    <3> QED BY <1>4, <1>6, <2>2, <3>1
  <2> QED BY <2>1, <2>2
<1>8. Removed(s, i) = r
  BY DEF Removed, RemoveAt, front, back, r, n
<1> QED BY <1>5, <1>7, <1>8 DEF n

\* What is on record, for a list and a set that are not the current ones.
ListsAll(list, set) ==
    /\ ToSet(list) = set /\ Len(list) = Cardinality(set)
    /\ \A i, j \in DOMAIN list : i < j => list[i].date < list[j].date

LEMMA RecordAdded ==
    ASSUME NEW list \in Seq(Expense), NEW set, ListsAll(list, set), NEW e \in Expense,
           \A i \in DOMAIN list : list[i].date < e.date
    PROVE  ListsAll(Append(list, e), set \cup {e})
<1> DEFINE n == Len(list)
           l == Append(list, e)
<1>1. DOMAIN list = 1 .. n /\ n \in Nat /\ IsFiniteSet(set)
  BY FiniteSequence DEF ListsAll
<1>2. /\ l \in Seq(Expense) /\ Len(l) = n + 1 /\ DOMAIN l = 1 .. n + 1 /\ l[n + 1] = e
      /\ \A i \in 1 .. n : l[i] = list[i]
  OBVIOUS
<1>3. e \notin set
  <2>1. SUFFICES ASSUME e \in set PROVE FALSE
    OBVIOUS
  <2>2. PICK i \in DOMAIN list : list[i] = e
    BY <2>1 DEF ListsAll, ToSet
  <2>3. e.date < e.date /\ e.date \in Nat
    BY <2>2 DEF Expense
  <2> QED BY <2>3
<1>4. Cardinality(set \cup {e}) = Cardinality(set) + 1
  BY <1>1, <1>3, FS_AddElement
<1>5. Len(l) = Cardinality(set \cup {e})
  BY <1>2, <1>4 DEF ListsAll
<1> HIDE DEF l, n
<1>6. ToSet(l) = set \cup {e}
  <2>1. ToSet(list) = set
    BY DEF ListsAll
  <2>2. ASSUME NEW x \in ToSet(l) PROVE x \in set \cup {e}
    <3>1. PICK i \in 1 .. n + 1 : x = l[i]
      BY <1>2 DEF ToSet
    <3>2. i = n + 1 \/ i \in 1 .. n
      BY <1>1
    <3> QED BY <1>1, <1>2, <2>1, <3>1, <3>2 DEF ToSet
  <2>3. ASSUME NEW x \in set \cup {e} PROVE x \in ToSet(l)
    <3>1. CASE x = e
      <4>1. n + 1 \in DOMAIN l
        BY <1>1, <1>2
      <4> QED BY <1>2, <3>1, <4>1 DEF ToSet
    <3>2. CASE x \in set
      <4>1. PICK i \in 1 .. n : x = list[i]
        BY <1>1, <2>1, <3>2 DEF ToSet
      <4>2. i \in DOMAIN l
        BY <1>1, <1>2
      <4> QED BY <1>2, <4>1, <4>2 DEF ToSet
    <3> QED BY <3>1, <3>2
  <2> QED BY <2>2, <2>3
<1>7. ASSUME NEW i \in DOMAIN l, NEW j \in DOMAIN l, i < j PROVE l[i].date < l[j].date
  <2>1. i \in 1 .. n /\ (j \in 1 .. n \/ j = n + 1)
    BY <1>1, <1>2, <1>7
  <2>2. CASE j \in 1 .. n
    BY <1>1, <1>2, <1>7, <2>1, <2>2 DEF ListsAll
  <2>3. CASE j = n + 1
    BY <1>1, <1>2, <2>1, <2>3
  <2> QED BY <2>1, <2>2, <2>3
<1> QED BY <1>5, <1>6, <1>7 DEF ListsAll, l

LEMMA RecordRemoved ==
    ASSUME NEW list \in Seq(Expense), NEW set, ListsAll(list, set), NEW i \in 1 .. Len(list)
    PROVE  ListsAll(Removed(list, i), set \ {list[i]})
<1> DEFINE n == Len(list)
           l == Removed(list, i)
           x == list[i]
           At(j) == IF j < i THEN j ELSE j + 1
<1>1. DOMAIN list = 1 .. n /\ n \in Nat /\ IsFiniteSet(set) /\ i \in 1 .. n
  BY FiniteSequence DEF ListsAll
<1>2. l \in Seq(Expense) /\ Len(l) = n - 1
  BY RemovedIs
<1>3. DOMAIN l = 1 .. n - 1
  BY <1>2
<1>4. \A j \in 1 .. n - 1 : l[j] = list[At(j)]
  <2>1. \A j \in 1 .. n - 1 : l[j] = IF j < i THEN list[j] ELSE list[j + 1]
    BY RemovedIs
  <2> HIDE DEF l, n
  <2> QED BY <2>1
<1>5. ToSet(list) = set /\ n = Cardinality(set)
      /\ \A j, k \in 1 .. n : j < k => list[j].date < list[k].date
  BY <1>1 DEF ListsAll
<1> HIDE DEF l, n
<1>6. \A j \in 1 .. n : list[j].date \in Nat
  <2>1. \A j \in DOMAIN list : list[j] \in Expense
    OBVIOUS
  <2> QED BY <1>1, <2>1 DEF Expense
<1>7. \A j \in 1 .. n : j # i => list[j] # x
  <2>1. ASSUME NEW j \in 1 .. n, j # i PROVE list[j].date # list[i].date
    <3>1. j < i \/ i < j
      BY <1>1, <2>1
    <3> QED BY <1>1, <1>5, <1>6, <3>1
  <2> QED BY <2>1
<1>8. \A j \in 1 .. n - 1 : At(j) \in 1 .. n /\ At(j) # i
  BY <1>1
<1>9. \A j \in 1 .. n : j # i => \E k \in 1 .. n - 1 : At(k) = j
  <2>1. ASSUME NEW j \in 1 .. n, j < i PROVE \E k \in 1 .. n - 1 : At(k) = j
    <3>1. j \in 1 .. n - 1 /\ At(j) = j
      BY <1>1, <2>1
    <3> QED BY <3>1
  <2>2. ASSUME NEW j \in 1 .. n, i < j PROVE \E k \in 1 .. n - 1 : At(k) = j
    <3>1. j - 1 \in 1 .. n - 1 /\ At(j - 1) = j
      BY <1>1, <2>2
    <3> QED BY <3>1
  <2>3. \A j \in 1 .. n : j # i => j < i \/ i < j
    BY <1>1
  <2> HIDE DEF At
  <2> QED BY <2>1, <2>2, <2>3
<1>10. \A j, k \in 1 .. n - 1 : j < k => At(j) < At(k)
  BY <1>1
<1> HIDE DEF At, x
<1>11. ToSet(l) = set \ {x}
  <2>1. ASSUME NEW y \in ToSet(l) PROVE y \in set \ {x}
    <3>1. PICK j \in 1 .. n - 1 : y = l[j]
      BY <1>3 DEF ToSet
    <3>2. y = list[At(j)] /\ At(j) \in 1 .. n /\ At(j) # i
      BY <1>4, <1>8, <3>1
    <3>3. y \in ToSet(list)
      BY <1>1, <3>2 DEF ToSet
    <3> QED BY <1>5, <1>7, <3>2, <3>3
  <2>2. ASSUME NEW y \in set \ {x} PROVE y \in ToSet(l)
    <3>1. PICK j \in 1 .. n : y = list[j]
      BY <1>1, <1>5 DEF ToSet
    <3>2. j # i
      BY <3>1 DEF x
    <3>3. PICK k \in 1 .. n - 1 : At(k) = j
      BY <1>9, <3>2
    <3>4. y = l[k]
      BY <1>4, <3>1, <3>3
    <3> QED BY <1>3, <3>4 DEF ToSet
  <2> QED BY <2>1, <2>2
<1>12. Len(l) = Cardinality(set \ {x})
  <2>1. x \in set
    BY <1>1, <1>5 DEF x, ToSet
  <2>2. Cardinality(set \ {x}) = Cardinality(set) - 1
    BY <1>1, <2>1, FS_RemoveElement
  <2> QED BY <1>2, <1>5, <2>2
<1>13. \A j, k \in DOMAIN l : j < k => l[j].date < l[k].date
  <2>1. ASSUME NEW j \in 1 .. n - 1, NEW k \in 1 .. n - 1, j < k PROVE l[j].date < l[k].date
    <3>1. At(j) < At(k) /\ At(j) \in 1 .. n /\ At(k) \in 1 .. n
      BY <1>8, <1>10, <2>1
    <3>2. list[At(j)].date < list[At(k)].date
      BY <1>5, <3>1
    <3> QED BY <1>4, <3>2
  <2> QED BY <1>3, <2>1
<1> QED BY <1>11, <1>12, <1>13 DEF ListsAll, l, x

LEMMA OnRecordIs ==
    ASSUME NEW list
    PROVE  OnRecordIn(list) <=> ListsAll(list, onRecord)
BY DEF OnRecordIn, ListsAll

LEMMA OnRecordNext ==
    ASSUME NEW list
    PROVE  OnRecordIn(list)' <=> ListsAll(list, onRecord')
BY DEF OnRecordIn, ListsAll

LEMMA BooksInitInv == ExpensesInit => BooksInv
<1> SUFFICES ASSUME ExpensesInit PROVE BooksInv
  OBVIOUS
<1>1. json = File(<<>>) /\ json.list = <<>> /\ onRecord = {} /\ run = "off" /\ clock = 0
  BY DEF ExpensesInit, File
<1>2. DOMAIN <<>> = {} /\ Len(<<>>) = 0 /\ <<>> \in Seq(Expense)
  OBVIOUS
<1>3. OnRecordIn(<<>>)
  BY <1>1, <1>2, FS_EmptySet DEF OnRecordIn, ToSet
<1> QED BY <1>1, <1>2, <1>3 DEF BooksInv

\* Without mishaps what was saved is the list.
LEMMA SavedIs == ASSUME Mishaps = {}, Saved PROVE run' = run /\ json' = File(expenses')
BY DEF Saved

LEMMA AddKeeps ==
    ASSUME BooksInv, Mishaps = {}, NEW a \in Entered, NEW c \in Categories, AddExpense(a, c)
    PROVE  BooksInv'
<1> DEFINE e == [amount |-> a, category |-> c, date |-> clock]
           list == json.list
           l == Append(list, e)
<1>1. run = "prompt" /\ expenses = list /\ clock \in Nat /\ clock' = clock + 1
  BY DEF BooksInv, AddExpense
<1>2. e \in Expense
  BY <1>1 DEF Expense, Entered
<1>3. expenses' = l /\ onRecord' = onRecord \cup {e} /\ run' = run /\ json' = File(l)
  BY <1>1, SavedIs DEF AddExpense
<1>4. json'.list = l /\ json' = File(json'.list)
  BY <1>3 DEF File
<1>5. list \in Seq(Expense) /\ \A i \in DOMAIN list : list[i].date < clock
  BY DEF BooksInv
<1>6. ListsAll(list, onRecord)
  BY OnRecordIs DEF BooksInv
<1>7. ListsAll(l, onRecord \cup {e})
  <2>1. e.date = clock
    OBVIOUS
  <2> HIDE DEF e, list
  <2> QED BY <1>2, <1>5, <1>6, <2>1, RecordAdded
<1>8. l \in Seq(Expense) /\ \A i \in DOMAIN l : l[i].date < clock + 1
  <2>1. /\ l \in Seq(Expense) /\ DOMAIN l = 1 .. Len(list) + 1 /\ l[Len(list) + 1] = e
        /\ \A i \in 1 .. Len(list) : l[i] = list[i]
    BY <1>2, <1>5
  <2>2. ASSUME NEW i \in DOMAIN l PROVE l[i].date < clock + 1
    <3>1. i = Len(list) + 1 \/ i \in 1 .. Len(list)
      BY <1>5, <2>1
    <3>2. CASE i = Len(list) + 1
      <4>1. l[i].date = clock
        BY <2>1, <3>2
      <4> QED BY <1>1, <4>1
    <3>3. CASE i \in 1 .. Len(list)
      <4>3. l[i] = list[i] /\ i \in DOMAIN list
        BY <1>5, <2>1, <3>3
      <4>4. list[i] \in Expense
        BY <1>5, <4>3
      <4>1. l[i] = list[i] /\ list[i].date < clock /\ list[i].date \in Nat
        BY <1>5, <4>3, <4>4 DEF Expense
      <4>2. l[i].date \in Nat /\ l[i].date < clock
        BY <4>1
      <4> HIDE DEF l
      <4> QED BY <1>1, <4>2
    <3> QED BY <3>1, <3>2, <3>3
  <2> QED BY <2>1, <2>2
<1> HIDE DEF l, e
<1>9. OnRecordIn(json.list)'
  BY <1>3, <1>4, <1>7 DEF OnRecordIn, ListsAll
<1> QED BY <1>1, <1>3, <1>4, <1>8, <1>9 DEF BooksInv

LEMMA DeleteKeeps ==
    ASSUME BooksInv, Mishaps = {}, NEW index \in 0 .. MaxAdds, DeleteExpense(index)
    PROVE  BooksInv'
<1> DEFINE list == json.list
           i == index + 1
           l == Removed(list, i)
<1>1. /\ run = "prompt" /\ expenses = list /\ clock \in Nat /\ clock' = clock
      /\ list \in Seq(Expense) /\ \A k \in DOMAIN list : list[k].date < clock
  BY DEF BooksInv, DeleteExpense
<1>2. i \in 1 .. Len(list)
  <2>1. index < Len(list) /\ Len(list) \in Nat /\ index \in Nat
    BY <1>1, ExpensesAssumption DEF DeleteExpense
  <2> HIDE DEF list
  <2> QED BY <2>1
<1>3. expenses' = l /\ onRecord' = onRecord \ {list[i]} /\ run' = run /\ json' = File(l)
  BY <1>1, SavedIs DEF DeleteExpense
<1>4. json'.list = l /\ json' = File(json'.list)
  BY <1>3 DEF File
<1>6. ListsAll(list, onRecord)
  BY OnRecordIs DEF BooksInv
<1> HIDE DEF list, i
<1>7. ListsAll(l, onRecord \ {list[i]})
  BY <1>1, <1>2, <1>6, RecordRemoved
<1>8. l \in Seq(Expense) /\ \A k \in DOMAIN l : l[k].date < clock
  <2>1. /\ l \in Seq(Expense) /\ Len(l) = Len(list) - 1
        /\ \A k \in 1 .. Len(list) - 1 : l[k] = IF k < i THEN list[k] ELSE list[k + 1]
    BY <1>1, <1>2, RemovedIs
  <2>2. DOMAIN l = 1 .. Len(list) - 1 /\ Len(list) \in Nat /\ DOMAIN list = 1 .. Len(list)
    BY <1>1, <2>1
  <2> HIDE DEF l
  <2>3. ASSUME NEW k \in 1 .. Len(list) - 1 PROVE l[k].date < clock
    <3>1. k \in DOMAIN list /\ k + 1 \in DOMAIN list
      BY <2>2
    <3>2. l[k] = list[k] \/ l[k] = list[k + 1]
      BY <2>1
    <3> QED BY <1>1, <3>1, <3>2
  <2> QED BY <2>1, <2>2, <2>3
<1> HIDE DEF l
<1>9. OnRecordIn(json.list)'
  BY <1>3, <1>4, <1>7 DEF OnRecordIn, ListsAll
<1> QED BY <1>1, <1>3, <1>4, <1>8, <1>9 DEF BooksInv

LEMMA LoadsIt == BooksInv => Loads(json)
<1> SUFFICES ASSUME BooksInv PROVE Loads(json)
  OBVIOUS
<1>1. json.whole /\ \A i \in DOMAIN json.list : json.list[i] \in Expense
  BY DEF BooksInv, File
<1> QED BY <1>1, ExpensesAssumption DEF Loads, Expense

LEMMA BooksStepInv == Mishaps = {} /\ BooksInv /\ [ExpensesNext]_expVars => BooksInv'
<1> SUFFICES ASSUME Mishaps = {}, BooksInv, [ExpensesNext]_expVars PROVE BooksInv'
  OBVIOUS
<1>1. ASSUME UNCHANGED <<clock, json, onRecord>>, run' \in {"off", "prompt", "spinning"},
             run' # "off" => expenses' = json.list
      PROVE  BooksInv'
  BY <1>1 DEF BooksInv, OnRecordIn
<1>2. CASE Start
  BY <1>1, <1>2, LoadsIt DEF Start
<1>3. CASE Ends
  BY <1>1, <1>3 DEF Ends
<1>4. CASE InputEnds
  BY <1>1, <1>4 DEF InputEnds, BooksInv
<1>5. CASE ExportCsv
  BY <1>1, <1>5 DEF ExportCsv, BooksInv
<1>6. ASSUME NEW a \in Entered, NEW c \in Categories, AddExpense(a, c) PROVE BooksInv'
  BY <1>6, AddKeeps
<1>7. ASSUME NEW i \in 0 .. MaxAdds, DeleteExpense(i) PROVE BooksInv'
  BY <1>7, DeleteKeeps
<1>8. CASE UNCHANGED expVars
  BY <1>1, <1>8 DEF expVars, BooksInv
<1> QED BY <1>2, <1>3, <1>4, <1>5, <1>6, <1>7, <1>8 DEF ExpensesNext

(***************************************************************************)
(* If nothing happens that the list is known not to survive (main.rs and   *)
(* expense.rs), what another start would load is what was added and not    *)
(* deleted, and total and summary agree with the whole.                    *)
(***************************************************************************)
THEOREM BooksStayKept == Mishaps = {} => (ExpensesSpec => []BooksKept)
<1>1. BooksInv => BooksKept
  <2> SUFFICES ASSUME BooksInv PROVE BooksKept
    OBVIOUS
  <2> DEFINE list == json.list
             f == AmountsOf(list)
  <2>1. ExpensesSurvive /\ Loads(json) /\ OnRecordIn(json.list)
    BY LoadsIt DEF BooksInv, ExpensesSurvive
  <2>2. list \in Seq(Expense)
    BY DEF BooksInv
  <2>3. DOMAIN f = DOMAIN list /\ IsFiniteSet(DOMAIN f)
    BY <2>2, FiniteSequence DEF AmountsOf
  <2>4. \A i \in DOMAIN f : f[i] \in Int
    <3>1. \A i \in DOMAIN list : list[i] \in Expense
      BY <2>2
    <3> QED BY <2>3, <3>1, ExpensesAssumption DEF AmountsOf, Expense
  <2>5. SumFunction([c \in {list[i].category : i \in DOMAIN list} |-> TotalByCategory(list, c)]) = Sum(list)
    <3> DEFINE key == [i \in DOMAIN f |-> list[i].category]
               total == [c \in {key[i] : i \in DOMAIN f} |->
                           SumFunctionOnSet(f, {i \in DOMAIN f : key[i] = c})]
               asked == [c \in {list[i].category : i \in DOMAIN list} |-> TotalByCategory(list, c)]
    <3>1. SumFunction(total) = SumFunction(f)
      <4> HIDE DEF f, key
      <4> QED BY <2>3, <2>4, SumsByKey
    <3>2. total = asked
      <4>1. {key[i] : i \in DOMAIN f} = {list[i].category : i \in DOMAIN list}
        BY <2>3
      <4>2. ASSUME NEW c
            PROVE  {i \in DOMAIN f : key[i] = c} = {i \in DOMAIN list : list[i].category = c}
        BY <2>3
      <4>3. \A c : SumFunctionOnSet(f, {i \in DOMAIN f : key[i] = c}) = TotalByCategory(list, c)
        BY <4>2 DEF TotalByCategory
      <4> HIDE DEF key, f
      <4> QED BY <4>1, <4>3
    <3> QED BY <3>1, <3>2 DEF Sum
  <2>6. SumFunction(SummaryByMonth(list)) = Sum(list)
    <3> DEFINE key == [i \in DOMAIN f |-> Month(list[i])]
               total == [m \in {key[i] : i \in DOMAIN f} |->
                           SumFunctionOnSet(f, {i \in DOMAIN f : key[i] = m})]
    <3>1. SumFunction(total) = SumFunction(f)
      <4> HIDE DEF f, key
      <4> QED BY <2>3, <2>4, SumsByKey
    <3>2. total = SummaryByMonth(list)
      <4>1. {key[i] : i \in DOMAIN f} = {Month(list[i]) : i \in DOMAIN list}
        BY <2>3
      <4>2. ASSUME NEW m
            PROVE  {i \in DOMAIN f : key[i] = m} = {i \in DOMAIN list : Month(list[i]) = m}
        BY <2>3
      <4>3. \A m : SumFunctionOnSet(f, {i \in DOMAIN f : key[i] = m})
                     = SumFunctionOnSet(f, {i \in DOMAIN list : Month(list[i]) = m})
        BY <4>2
      <4> HIDE DEF key, f
      <4> QED BY <4>1, <4>3 DEF SummaryByMonth, f
    <3> QED BY <3>1, <3>2 DEF Sum
  <2> QED BY <2>1, <2>5, <2>6 DEF BooksKept
<1>2. SUFFICES ASSUME Mishaps = {} PROVE ExpensesSpec => []BooksKept
  OBVIOUS
<1>3. BooksInv /\ [ExpensesNext]_expVars => BooksInv'
  BY <1>2, BooksStepInv
<1> QED BY <1>1, <1>3, BooksInitInv, PTL DEF ExpensesSpec

-----------------------------------------------------------------------------
(***************************************************************************)
(* The environment loader.                                                 *)
(***************************************************************************)

(***************************************************************************)
(* Declarations, as the history keeps them.                                *)
(***************************************************************************)
Hows == {"require", "optional", "optional_or"}

CallOK(c) ==
    /\ c.how \in Hows /\ c.type \in Types /\ c.name \in VarNames \cup BadNames
    /\ c.name \notin VarNames => c.raw = Absent

\* What a declaration does to the errors and to the bag, by what it found.
FailsWith(c, e) ==
    Complaint(c) = {e} /\ Yields(c) = {} /\ problems' = Append(problems, e) /\ values' = values

PutsValue(c, v) ==
    Complaint(c) = {} /\ Yields(c) = {v} /\ problems' = problems /\ Put(c.name, c.type, v)

DoesNothing(c) ==
    Complaint(c) = {} /\ Yields(c) = {} /\ problems' = problems /\ values' = values

LEMMA BadNameCall ==
    ASSUME NEW c, CallOK(c), c.name \in BadNames
    PROVE  Complaint(c) = {Error("InvalidName", c.name)} /\ Yields(c) = {}
<1>1. c.name \notin VarNames /\ c.raw = Absent
  BY EnvAssumption DEF CallOK
<1> QED BY <1>1 DEF Complaint, Yields

LEMMA UnparsedCall ==
    ASSUME NEW c, CallOK(c), c.raw # Absent, ~ParsesAs(c.type, c.raw)
    PROVE  Complaint(c) = {Error("Parse", c.name)} /\ Yields(c) = {}
<1>1. c.name \notin BadNames
  BY EnvAssumption DEF CallOK
<1> QED BY <1>1 DEF Complaint, Yields

LEMMA ParsedCall ==
    ASSUME NEW c, CallOK(c), c.raw # Absent, ParsesAs(c.type, c.raw)
    PROVE  Complaint(c) = {} /\ Yields(c) = {Literal[c.type][c.raw]}
<1>1. c.name \notin BadNames
  BY EnvAssumption DEF CallOK
<1> QED BY <1>1 DEF Complaint, Yields

LEMMA UnsetCall ==
    ASSUME NEW c, CallOK(c), c.name \in VarNames, c.raw = Absent
    PROVE  /\ c.how = "require" => Complaint(c) = {Error("Missing", c.name)} /\ Yields(c) = {}
           /\ c.how = "optional" => Complaint(c) = {} /\ Yields(c) = {}
           /\ c.how = "optional_or" => Complaint(c) = {} /\ Yields(c) = {Defaults[c.type]}
<1>1. c.name \notin BadNames
  BY EnvAssumption DEF CallOK
<1>2. "require" # "optional" /\ "require" # "optional_or" /\ "optional" # "optional_or"
  OBVIOUS
<1> QED BY <1>1, <1>2 DEF Complaint, Yields

Outcome(c) ==
    (\E e : FailsWith(c, e)) \/ (\E v : PutsValue(c, v)) \/ DoesNothing(c)

Declares(c) ==
    /\ CallOK(c) /\ stage = "building" /\ calls' = Append(calls, c)
    /\ UNCHANGED stage /\ Outcome(c)

LEMMA ReadOutcome ==
    ASSUME NEW type \in Types, NEW name \in VarNames \cup BadNames, NEW how \in Hows,
           NEW c, c = [how |-> how, type |-> type, name |-> name, raw |-> Found(name)],
           Reads(type, name)
    PROVE  CallOK(c) /\ Outcome(c)
<1>1. c.how = how /\ c.type = type /\ c.name = name /\ c.raw = Found(name)
  OBVIOUS
<1>2. CallOK(c)
  BY <1>1 DEF CallOK, Found
<1>3. CASE name \in BadNames /\ Fails(Error("InvalidName", name))
  <2>1. FailsWith(c, Error("InvalidName", name))
    BY <1>1, <1>2, <1>3, BadNameCall DEF FailsWith, Fails, Collected
  <2> QED BY <1>2, <2>1 DEF Outcome
<1>4. CASE /\ Found(name) # Absent /\ ~ParsesAs(type, Found(name))
           /\ Fails(Error("Parse", name))
  <2>1. FailsWith(c, Error("Parse", name))
    BY <1>1, <1>2, <1>4, UnparsedCall DEF FailsWith, Fails, Collected
  <2> QED BY <1>2, <2>1 DEF Outcome
<1>5. CASE /\ Found(name) # Absent /\ ParsesAs(type, Found(name))
           /\ Put(name, type, Literal[type][Found(name)])
           /\ UNCHANGED problems
  <2>1. PutsValue(c, Literal[type][Found(name)])
    BY <1>1, <1>2, <1>5, ParsedCall DEF PutsValue
  <2> QED BY <1>2, <2>1 DEF Outcome
<1> QED BY <1>3, <1>4, <1>5 DEF Reads

LEMMA DeclarationOutcome ==
    ASSUME NEW type \in Types, NEW name \in VarNames \cup BadNames,
           Require(type, name) \/ Optional(type, name) \/ OptionalOr(type, name)
    PROVE  \E c : Declares(c)
<1> DEFINE Call(how) == [how |-> how, type |-> type, name |-> name, raw |-> Found(name)]
<1>1. ASSUME NEW how \in Hows, Declared(how, type, name), Reads(type, name)
      PROVE  \E c : Declares(c)
  <2>1. CallOK(Call(how)) /\ Outcome(Call(how))
    BY <1>1, ReadOutcome
  <2>2. stage = "building" /\ calls' = Append(calls, Call(how)) /\ UNCHANGED stage
    BY <1>1 DEF Declared
  <2> HIDE DEF Call
  <2> QED BY <2>1, <2>2 DEF Declares
<1>2. ASSUME NEW how \in Hows, Declared(how, type, name), NotSet(name)
      PROVE  /\ CallOK(Call(how)) /\ Call(how).name = name /\ Call(how).type = type
             /\ Call(how).how = how /\ name \in VarNames /\ Call(how).raw = Absent
             /\ stage = "building" /\ calls' = Append(calls, Call(how)) /\ UNCHANGED stage
  BY <1>2 DEF Declared, NotSet, CallOK
<1>3. CASE Declared("require", type, name) /\ NotSet(name) /\ Fails(Error("Missing", name))
  <2> DEFINE c == Call("require")
  <2>1. /\ CallOK(c) /\ c.name = name /\ c.type = type /\ c.how = "require"
        /\ name \in VarNames /\ c.raw = Absent
        /\ stage = "building" /\ calls' = Append(calls, c) /\ UNCHANGED stage
    BY <1>2, <1>3 DEF Hows
  <2> HIDE DEF c
  <2>2. FailsWith(c, Error("Missing", name))
    BY <1>3, <2>1, UnsetCall DEF FailsWith, Fails, Collected
  <2> QED BY <2>1, <2>2 DEF Declares, Outcome
<1>4. CASE Declared("optional", type, name) /\ NotSet(name) /\ UNCHANGED <<values, problems>>
  <2> DEFINE c == Call("optional")
  <2>1. /\ CallOK(c) /\ c.name = name /\ c.type = type /\ c.how = "optional"
        /\ name \in VarNames /\ c.raw = Absent
        /\ stage = "building" /\ calls' = Append(calls, c) /\ UNCHANGED stage
    BY <1>2, <1>4 DEF Hows
  <2> HIDE DEF c
  <2>2. DoesNothing(c)
    BY <1>4, <2>1, UnsetCall DEF DoesNothing
  <2> QED BY <2>1, <2>2 DEF Declares, Outcome
<1>5. CASE /\ Declared("optional_or", type, name) /\ NotSet(name)
           /\ Put(name, type, Defaults[type]) /\ UNCHANGED problems
  <2> DEFINE c == Call("optional_or")
  <2>1. /\ CallOK(c) /\ c.name = name /\ c.type = type /\ c.how = "optional_or"
        /\ name \in VarNames /\ c.raw = Absent
        /\ stage = "building" /\ calls' = Append(calls, c) /\ UNCHANGED stage
    BY <1>2, <1>5 DEF Hows
  <2> HIDE DEF c
  <2>2. PutsValue(c, Defaults[type])
    BY <1>5, <2>1, UnsetCall DEF PutsValue
  <2> QED BY <2>1, <2>2 DEF Declares, Outcome
<1>6. "require" \in Hows /\ "optional" \in Hows /\ "optional_or" \in Hows
  BY DEF Hows
<1> QED BY <1>1, <1>3, <1>4, <1>5, <1>6 DEF Require, Optional, OptionalOr

(***************************************************************************)
(* The inductive invariant.  Each call with something to report has put    *)
(* its error where its turn is, and the bag has for a name what the last   *)
(* call that yields something for it yields, under that call's type.       *)
(***************************************************************************)
Complaining(cs) == {i \in DOMAIN cs : Complaint(cs[i]) # {}}

UpTo(cs, i) == {j \in 1 .. i : Complaint(cs[j]) # {}}

Complained ==
    /\ Len(problems) = Cardinality(Complaining(calls))
    /\ \A i \in Complaining(calls) : {problems[Cardinality(UpTo(calls, i))]} = Complaint(calls[i])

Giving(cs, name) == {i \in DOMAIN cs : cs[i].name = name /\ Yields(cs[i]) # {}}

\* i is the last of the calls that give the name a value.
LastGiving(cs, name, i) ==
    i \in Giving(cs, name) /\ \A j \in Giving(cs, name) : j <= i

Kept ==
    \A name :
       /\ name \in DOMAIN values <=> \E i : LastGiving(calls, name, i)
       /\ \A i : LastGiving(calls, name, i) =>
             /\ values[name].type = calls[i].type
             /\ {values[name].value} = Yields(calls[i])

Typed ==
    /\ stage \in {"building", "env", "failed"}
    /\ stage = "env" => problems = <<>>
    /\ stage = "failed" => problems # <<>>
    /\ \E S : calls \in Seq(S)
    /\ \E S : problems \in Seq(S)

EnvInv == Typed /\ Complained /\ Kept

LEMMA EnvInitInv == EnvInit => EnvInv
<1> SUFFICES ASSUME EnvInit PROVE EnvInv
  OBVIOUS
<1>1. calls = <<>> /\ problems = <<>> /\ DOMAIN values = {} /\ stage = "building"
  BY DEF EnvInit
<1>2. calls \in Seq({}) /\ problems \in Seq({})
  BY <1>1
<1>3. Typed
  BY <1>1, <1>2 DEF Typed
<1>4. Complaining(calls) = {} /\ \A name : Giving(calls, name) = {}
  BY <1>1 DEF Complaining, Giving
<1>5. Complained
  BY <1>1, <1>4, FS_EmptySet DEF Complained
<1>6. Kept
  BY <1>1, <1>4 DEF Kept, LastGiving
<1> QED BY <1>3, <1>5, <1>6 DEF EnvInv

(***************************************************************************)
(* A declaration keeps the invariant.                                      *)
(***************************************************************************)
LEMMA AppendIs ==
    ASSUME NEW S, NEW s \in Seq(S), NEW x
    PROVE  LET n == Len(s)
               t == Append(s, x)
           IN  /\ n \in Nat /\ DOMAIN s = 1 .. n /\ DOMAIN t = 1 .. n + 1 /\ Len(t) = n + 1
               /\ DOMAIN t = (1 .. n) \cup {n + 1}
               /\ t[n + 1] = x /\ \A i \in 1 .. n : t[i] = s[i]
               /\ t \in Seq(S \cup {x})
<1> DEFINE X == S \cup {x}
<1>1. s \in Seq(X) /\ x \in X
  OBVIOUS
<1> HIDE DEF X
<1>2. /\ Len(s) \in Nat /\ DOMAIN s = 1 .. Len(s) /\ Append(s, x) \in Seq(X)
      /\ Len(Append(s, x)) = Len(s) + 1 /\ DOMAIN Append(s, x) = 1 .. Len(s) + 1
  BY <1>1
<1>3. /\ Append(s, x)[Len(s) + 1] = x
      /\ \A i \in 1 .. Len(s) : Append(s, x)[i] = s[i]
  BY <1>1
<1>4. 1 .. Len(s) + 1 = (1 .. Len(s)) \cup {Len(s) + 1}
  BY <1>2
<1> QED BY <1>2, <1>3, <1>4 DEF X

\* Errors: the calls that complained before keep their places.
LEMMA ToldStep == ASSUME EnvInv, NEW c, Declares(c) PROVE Complained'
<1> DEFINE n == Len(calls)
           old == Complaining(calls)
<1>1. PICK S : calls \in Seq(S)
  BY DEF EnvInv, Typed
<1>2. calls' = Append(calls, c)
  BY DEF Declares
<1>3. /\ n \in Nat /\ DOMAIN calls = 1 .. n /\ DOMAIN calls' = (1 .. n) \cup {n + 1}
      /\ calls'[n + 1] = c /\ \A i \in 1 .. n : calls'[i] = calls[i]
  BY <1>1, <1>2, AppendIs
<1> HIDE DEF n
<1>4. PICK T : problems \in Seq(T)
  BY DEF EnvInv, Typed
<1>5. old \subseteq 1 .. n /\ IsFiniteSet(old) /\ Cardinality(old) \in Nat
  <2>1. old \subseteq 1 .. n
    BY <1>3 DEF Complaining
  <2>2. IsFiniteSet(1 .. n)
    BY <1>3, FS_Interval
  <2>3. IsFiniteSet(old)
    BY <2>1, <2>2, FS_Subset
  <2> QED BY <2>1, <2>3, FS_CardinalityType
<1>6. \A i \in 1 .. n : UpTo(calls', i) = UpTo(calls, i)
  BY <1>3 DEF UpTo
<1>7. UpTo(calls', n + 1) = Complaining(calls')
  BY <1>3 DEF UpTo, Complaining
<1>8. \A i \in old : Cardinality(UpTo(calls, i)) \in 1 .. Cardinality(old)
  <2> SUFFICES ASSUME NEW i \in old PROVE Cardinality(UpTo(calls, i)) \in 1 .. Cardinality(old)
    OBVIOUS
  <2>1. UpTo(calls, i) \in SUBSET old /\ i \in UpTo(calls, i)
    <3>1. i \in 1 .. n
      BY <1>5
    <3>2. \A j \in 1 .. i : j \in 1 .. n
      BY <1>3, <3>1
    <3>3. \A j \in UpTo(calls, i) : j \in old
      BY <1>3, <3>2 DEF UpTo, Complaining
    <3>4. i \in UpTo(calls, i)
      BY <3>1 DEF UpTo, Complaining
    <3> QED BY <3>3, <3>4
  <2> HIDE DEF old
  <2>2. IsFiniteSet(UpTo(calls, i)) /\ Cardinality(UpTo(calls, i)) <= Cardinality(old)
    BY <1>5, <2>1, FS_Subset
  <2>3. Cardinality(UpTo(calls, i)) \in Nat /\ Cardinality(UpTo(calls, i)) # 0
    BY <2>1, <2>2, FS_CardinalityType, FS_EmptySet
  <2> QED BY <1>5, <2>2, <2>3
<1>9. Len(problems) = Cardinality(old)
  BY DEF EnvInv, Complained
<1>10. \A i \in old : {problems[Cardinality(UpTo(calls, i))]} = Complaint(calls[i])
  BY DEF EnvInv, Complained
<1>11. ASSUME NEW e, FailsWith(c, e) PROVE Complained'
  <2> DEFINE m == Len(problems)
  <2>1. Complaint(c) = {e} /\ problems' = Append(problems, e)
    BY <1>11 DEF FailsWith
  <2>2. /\ m \in Nat /\ Len(problems') = m + 1 /\ problems'[m + 1] = e
        /\ \A k \in 1 .. m : problems'[k] = problems[k]
    BY <1>4, <2>1, AppendIs
  <2> HIDE DEF m
  <2>3. Complaining(calls') = old \cup {n + 1} /\ n + 1 \notin old
    <3>1. n + 1 \notin old
      BY <1>3, <1>5
    <3>2. \A i \in 1 .. n : i \in Complaining(calls') <=> i \in old
      BY <1>3 DEF Complaining
    <3>3. n + 1 \in Complaining(calls')
      BY <1>3, <2>1 DEF Complaining
    <3>4. Complaining(calls') \subseteq (1 .. n) \cup {n + 1}
      BY <1>3 DEF Complaining
    <3> QED BY <1>5, <3>1, <3>2, <3>3, <3>4
  <2> HIDE DEF old
  <2>4. Cardinality(Complaining(calls')) = Cardinality(old) + 1
    BY <1>5, <2>3, FS_AddElement
  <2>5. Len(problems') = Cardinality(Complaining(calls'))
    BY <1>9, <2>2, <2>4 DEF m
  <2>6. ASSUME NEW i \in old
        PROVE  {problems'[Cardinality(UpTo(calls', i))]} = Complaint(calls'[i])
    <3>1. i \in 1 .. n /\ Cardinality(UpTo(calls, i)) \in 1 .. m
      BY <1>5, <1>8, <1>9 DEF m
    <3> QED BY <1>3, <1>6, <1>10, <2>2, <3>1
  <2>7. {problems'[Cardinality(UpTo(calls', n + 1))]} = Complaint(calls'[n + 1])
    BY <1>3, <1>7, <1>9, <2>1, <2>2, <2>4 DEF m
  <2> QED BY <2>3, <2>5, <2>6, <2>7 DEF Complained
<1>12. ASSUME Complaint(c) = {}, problems' = problems PROVE Complained'
  <2>1. Complaining(calls') = old
    <3>1. \A i \in 1 .. n : i \in Complaining(calls') <=> i \in old
      BY <1>3 DEF Complaining
    <3>2. n + 1 \notin Complaining(calls')
      BY <1>3, <1>12 DEF Complaining
    <3>3. Complaining(calls') \subseteq (1 .. n) \cup {n + 1}
      BY <1>3 DEF Complaining
    <3> QED BY <1>5, <3>1, <3>2, <3>3
  <2> HIDE DEF old
  <2>2. \A i \in old : {problems'[Cardinality(UpTo(calls', i))]} = Complaint(calls'[i])
    BY <1>3, <1>5, <1>6, <1>10, <1>12
  <2> QED BY <1>9, <1>12, <2>1, <2>2 DEF Complained
<1> QED BY <1>11, <1>12 DEF Declares, Outcome, PutsValue, DoesNothing

\* The bag: the last call that gives a name a value.
LEMMA KeptStep == ASSUME EnvInv, NEW c, Declares(c) PROVE Kept'
<1> DEFINE n == Len(calls)
<1>1. PICK S : calls \in Seq(S)
  BY DEF EnvInv, Typed
<1>2. calls' = Append(calls, c)
  BY DEF Declares
<1>3. /\ n \in Nat /\ DOMAIN calls = 1 .. n /\ DOMAIN calls' = (1 .. n) \cup {n + 1}
      /\ calls'[n + 1] = c /\ \A i \in 1 .. n : calls'[i] = calls[i]
  BY <1>1, <1>2, AppendIs
<1> HIDE DEF n
<1>4. \A name : Giving(calls, name) \subseteq 1 .. n
  BY <1>3 DEF Giving
<1>5. ASSUME NEW name, c.name # name \/ Yields(c) = {}
      PROVE  \A i : /\ LastGiving(calls', name, i) <=> LastGiving(calls, name, i)
                    /\ LastGiving(calls, name, i) => calls'[i] = calls[i]
  <2>1. Giving(calls', name) = Giving(calls, name)
    <3>1. \A i \in 1 .. n : i \in Giving(calls', name) <=> i \in Giving(calls, name)
      BY <1>3 DEF Giving
    <3>2. n + 1 \notin Giving(calls', name)
      BY <1>3, <1>5 DEF Giving
    <3>3. Giving(calls', name) \subseteq (1 .. n) \cup {n + 1}
      BY <1>3 DEF Giving
    <3> QED BY <1>4, <3>1, <3>2, <3>3
  <2> QED BY <1>3, <1>4, <2>1 DEF LastGiving
<1>6. ASSUME NEW v, PutsValue(c, v) PROVE Kept'
  <2>1. Yields(c) = {v} /\ Put(c.name, c.type, v)
    BY <1>6 DEF PutsValue
  <2>2. /\ DOMAIN values' = DOMAIN values \cup {c.name}
        /\ values'[c.name].type = c.type /\ values'[c.name].value = v
        /\ \A name \in DOMAIN values \ {c.name} : values'[name] = values[name]
    BY <2>1 DEF Put
  <2>3. \A i : LastGiving(calls', c.name, i) <=> i = n + 1
    <3>1. n + 1 \in Giving(calls', c.name)
      BY <1>3, <2>1 DEF Giving
    <3>2. \A j \in Giving(calls', c.name) : j \in Int /\ j <= n + 1
      BY <1>3 DEF Giving
    <3> QED BY <1>3, <3>1, <3>2 DEF LastGiving
  <2> SUFFICES ASSUME NEW name
               PROVE  /\ name \in DOMAIN values' <=> \E i : LastGiving(calls', name, i)
                      /\ \A i : LastGiving(calls', name, i) =>
                            /\ values'[name].type = calls'[i].type
                            /\ {values'[name].value} = Yields(calls'[i])
    BY DEF Kept
  <2>4. CASE name = c.name
    BY <1>3, <2>1, <2>2, <2>3, <2>4
  <2>5. CASE name # c.name
    <3>1. name \in DOMAIN values' <=> \E i : LastGiving(calls', name, i)
      BY <1>5, <2>2, <2>5 DEF EnvInv, Kept
    <3>2. ASSUME NEW i, LastGiving(calls', name, i)
          PROVE  values'[name].type = calls'[i].type /\ {values'[name].value} = Yields(calls'[i])
      <4>1. LastGiving(calls, name, i) /\ calls'[i] = calls[i]
        BY <1>5, <2>5, <3>2
      <4>2. /\ name \in DOMAIN values
            /\ values[name].type = calls[i].type /\ {values[name].value} = Yields(calls[i])
        BY <4>1 DEF EnvInv, Kept
      <4> QED BY <2>2, <2>5, <4>1, <4>2
    <3> QED BY <3>1, <3>2
  <2> QED BY <2>4, <2>5
<1>7. ASSUME Yields(c) = {}, values' = values PROVE Kept'
  <2>1. ASSUME NEW name
        PROVE  name \in DOMAIN values' <=> \E i : LastGiving(calls', name, i)
    BY <1>5, <1>7 DEF EnvInv, Kept
  <2>2. ASSUME NEW name, NEW i, LastGiving(calls', name, i)
        PROVE  values'[name].type = calls'[i].type /\ {values'[name].value} = Yields(calls'[i])
    <3>1. LastGiving(calls, name, i) /\ calls'[i] = calls[i]
      BY <1>5, <1>7, <2>2
    <3>2. values[name].type = calls[i].type /\ {values[name].value} = Yields(calls[i])
      BY <3>1 DEF EnvInv, Kept
    <3> QED BY <1>7, <3>1, <3>2
  <2> QED BY <2>1, <2>2 DEF Kept
<1> QED BY <1>6, <1>7 DEF Declares, Outcome, FailsWith, DoesNothing

LEMMA DeclareStep == ASSUME EnvInv, NEW c, Declares(c) PROVE EnvInv'
<1>1. Typed'
  <2>1. stage = "building" /\ stage' = stage
    BY DEF Declares
  <2>2. PICK S : calls \in Seq(S)
    BY DEF EnvInv, Typed
  <2>3. \E X : calls' \in Seq(X)
    BY <2>2, AppendIs DEF Declares
  <2>4. PICK T : problems \in Seq(T)
    BY DEF EnvInv, Typed
  <2>5. \E X : problems' \in Seq(X)
    <3>1. ASSUME NEW e, FailsWith(c, e) PROVE \E X : problems' \in Seq(X)
      BY <2>4, <3>1, AppendIs DEF FailsWith
    <3>2. ASSUME problems' = problems PROVE \E X : problems' \in Seq(X)
      BY <2>4, <3>2
    <3> QED BY <3>1, <3>2 DEF Declares, Outcome, PutsValue, DoesNothing
  <2> QED BY <2>1, <2>3, <2>5 DEF Typed
<1> QED BY <1>1, ToldStep, KeptStep DEF EnvInv

LEMMA EnvStepInv == EnvInv /\ [EnvNext]_envVars => EnvInv'
<1> SUFFICES ASSUME EnvInv, [EnvNext]_envVars PROVE EnvInv'
  OBVIOUS
<1>1. ASSUME NEW type \in Types, NEW name \in VarNames \cup BadNames,
             Require(type, name) \/ Optional(type, name) \/ OptionalOr(type, name)
      PROVE  EnvInv'
  BY <1>1, DeclarationOutcome, DeclareStep
<1>2. CASE Load
  <2>1. Typed'
    BY <1>2 DEF EnvInv, Typed, Load
  <2>2. Complained' /\ Kept'
    BY <1>2 DEF EnvInv, Complained, Kept, Load
  <2> QED BY <2>1, <2>2 DEF EnvInv
<1>3. ASSUME NEW name, NEW raw, SetVar(name, raw) PROVE EnvInv'
  BY <1>3 DEF SetVar, EnvInv, Typed, Complained, Kept
<1>4. CASE UNCHANGED envVars
  BY <1>4 DEF envVars, EnvInv, Typed, Complained, Kept
<1> QED BY <1>1, <1>2, <1>3, <1>4 DEF EnvNext

(***************************************************************************)
(* The loader reports every problem of every declaration, in order, and a  *)
(* loaded Env answers for every name and type what the last declaration    *)
(* that gave the name a value says, whatever the environment did between.  *)
(***************************************************************************)
THEOREM LoaderKeepsItsWord == EnvSpec => []EnvKeepsItsWord
<1>1. EnvInv => EveryProblemTold
  <2> SUFFICES ASSUME EnvInv PROVE EveryProblemTold
    OBVIOUS
  <2>1. Len(problems) = Cardinality({i \in DOMAIN calls : Complaint(calls[i]) # {}})
    BY DEF EnvInv, Complained, Complaining
  <2>2. ASSUME NEW i \in DOMAIN calls, Complaint(calls[i]) # {}
        PROVE  {problems[Cardinality({j \in 1 .. i : Complaint(calls[j]) # {}})]}
                 = Complaint(calls[i])
    <3>1. {problems[Cardinality(UpTo(calls, i))]} = Complaint(calls[i])
      BY <2>2 DEF EnvInv, Complained, Complaining
    <3> QED BY <3>1 DEF UpTo
  <2>3. stage = "failed" <=> stage # "building" /\ problems # <<>>
    BY DEF EnvInv, Typed
  <2> QED BY <2>1, <2>2, <2>3 DEF EveryProblemTold
<1>2. ASSUME EnvInv, NEW name, NEW type
      PROVE  IF \E c \in LastYield(name) : c.type = type
             THEN \E c \in LastYield(name) : {Get(type, name)} = Yields(c)
             ELSE Get(type, name) = Absent
  <2>1. LastYield(name) = {calls[i] : i \in {i \in Giving(calls, name) : LastGiving(calls, name, i)}}
    BY DEF LastYield, Giving, LastGiving
  <2>2. \A c : c \in LastYield(name) <=> \E i : LastGiving(calls, name, i) /\ c = calls[i]
    BY <2>1 DEF LastGiving
  <2>3. /\ name \in DOMAIN values <=> \E c : c \in LastYield(name)
        /\ \A c \in LastYield(name) :
              values[name].type = c.type /\ {values[name].value} = Yields(c)
    <3>1. /\ name \in DOMAIN values <=> \E i : LastGiving(calls, name, i)
          /\ \A i : LastGiving(calls, name, i) =>
                /\ values[name].type = calls[i].type
                /\ {values[name].value} = Yields(calls[i])
      BY <1>2 DEF EnvInv, Kept
    <3>2. name \in DOMAIN values <=> \E c : c \in LastYield(name)
      BY <2>2, <3>1
    <3>3. ASSUME NEW c \in LastYield(name)
          PROVE  values[name].type = c.type /\ {values[name].value} = Yields(c)
      BY <2>2, <3>1
    <3> QED BY <3>2, <3>3
  <2>4. CASE \E c \in LastYield(name) : c.type = type
    BY <2>3, <2>4 DEF Get
  <2>5. CASE ~ \E c \in LastYield(name) : c.type = type
    BY <2>3, <2>5 DEF Get
  <2> QED BY <2>4, <2>5
<1>3. EnvInv => EnvKeepsItsWord
  BY <1>1, <1>2 DEF EnvKeepsItsWord
<1> QED BY <1>3, EnvInitInv, EnvStepInv, PTL DEF EnvSpec

-----------------------------------------------------------------------------
(***************************************************************************)
(* The C interface of the Bloom filter.                                    *)
(***************************************************************************)

\* HeldIsLive is inductive with the shape of the blocks.
BlocksOK ==
    \A p \in DOMAIN heap : DOMAIN heap[p] = {"kind", "size", "content"}

Owned == HeldIsLive /\ BlocksOK

\* Rust gives a block away: C holds it with the length it was allocated with.
LEMMA GivenStep ==
    ASSUME Owned, NEW p, NEW kind, NEW size, NEW content, Given(p, kind, size, size, content)
    PROVE  Owned'
<1> DEFINE block == [kind |-> kind, size |-> size, content |-> content]
           entry == [kind |-> kind, len |-> size]
<1>1. heap' = With(heap, p, block) /\ held' = With(held, p, entry) /\ p \notin DOMAIN heap
  BY DEF Given
<1>2. DOMAIN heap' = DOMAIN heap \cup {p} /\ DOMAIN held' = DOMAIN held \cup {p}
  BY <1>1 DEF With
<1>3. heap'[p] = block /\ \A q \in DOMAIN heap : heap'[q] = heap[q]
  BY <1>1 DEF With
<1>4. held'[p] = entry /\ \A q \in DOMAIN held : held'[q] = held[q]
  BY <1>1 DEF With, Owned, HeldIsLive
<1>5. HeldIsLive'
  BY <1>2, <1>3, <1>4 DEF Owned, HeldIsLive, Buffers
<1>6. BlocksOK'
  BY <1>2, <1>3 DEF Owned, BlocksOK
<1> QED
  BY <1>5, <1>6 DEF Owned

\* C gives a block back.
LEMMA FreedStep == ASSUME Owned, NEW p, Freed(p) PROVE Owned'
<1>1. DOMAIN heap' = DOMAIN heap \ {p} /\ DOMAIN held' = DOMAIN held \ {p}
  BY DEF Freed, Without
<1>2. /\ \A q \in DOMAIN heap \ {p} : heap'[q] = heap[q]
      /\ \A q \in DOMAIN held \ {p} : held'[q] = held[q]
  BY DEF Freed, Without
<1> QED
  BY <1>1, <1>2 DEF Owned, HeldIsLive, Buffers, BlocksOK

\* An addition changes what a filter holds, not where it is.
LEMMA AddStep == ASSUME Owned, NEW p, NEW x \in Items, Add(p, x) PROVE Owned'
<1>1. /\ p \in DOMAIN heap
      /\ heap' = [heap EXCEPT ![p].content = Added(@, x)] /\ held' = held
  BY DEF Add, Owned, HeldIsLive, Handles
<1>2. DOMAIN heap' = DOMAIN heap
  BY <1>1
<1>3. \A q \in DOMAIN heap :
         /\ DOMAIN heap'[q] = DOMAIN heap[q]
         /\ heap'[q].kind = heap[q].kind /\ heap'[q].size = heap[q].size
  <2> DEFINE content == Added(heap[p].content, x)
  <2>1. heap' = [heap EXCEPT ![p] = [heap[p] EXCEPT !.content = content]]
    BY <1>1
  <2> HIDE DEF content
  <2>2. DOMAIN heap[p] = {"kind", "size", "content"}
    BY <1>1 DEF Owned, BlocksOK
  <2> QED
    BY <1>1, <2>1, <2>2
<1> QED
  BY <1>1, <1>2, <1>3 DEF Owned, HeldIsLive, Buffers, BlocksOK

LEMMA OwnedInit == CbloomInit => Owned
BY DEF CbloomInit, Owned, HeldIsLive, Buffers, BlocksOK

LEMMA OwnedStep == Owned /\ [CbloomNext]_cbVars => Owned'
<1> SUFFICES ASSUME Owned, [CbloomNext]_cbVars PROVE Owned'
  OBVIOUS
<1>1. ASSUME NEW p \in Pointers, NEW s \in Sizes, New(p, s) PROVE Owned'
  BY <1>1, GivenStep DEF New
<1>2. ASSUME NEW p \in Pointers, Free(p) \/ BufferFree(p) PROVE Owned'
  BY <1>2, FreedStep DEF Free, BufferFree
<1>3. ASSUME NEW p \in Pointers, NEW x \in Items, Add(p, x) PROVE Owned'
  BY <1>3, AddStep
<1>4. ASSUME NEW p \in Pointers, NEW q \in Pointers, Serialize(p, q) PROVE Owned'
  BY <1>4, GivenStep DEF Serialize, Boxed
<1>5. ASSUME NEW p \in Pointers, NEW q \in Pointers, Deserialize(p, q) PROVE Owned'
  BY <1>5, GivenStep DEF Deserialize
<1>6. CASE UNCHANGED cbVars
  BY <1>6 DEF cbVars, Owned, HeldIsLive, Buffers, BlocksOK
<1> QED
  BY <1>1, <1>2, <1>3, <1>4, <1>5, <1>6 DEF CbloomNext

(***************************************************************************)
(* Whatever the C program calls, in any order and with addresses used      *)
(* again, it holds exactly what is allocated, and every buffer goes back   *)
(* with the size it was allocated with.                                    *)
(***************************************************************************)
THEOREM HeldStaysLive == CbloomSpec => []HeldIsLive
<1>1. Owned => HeldIsLive
  BY DEF Owned
<1> QED
  BY <1>1, OwnedInit, OwnedStep, PTL DEF CbloomSpec

(***************************************************************************)
(* Arithmetic of words and bits.                                           *)
(***************************************************************************)
LEMMA Remainder == ASSUME NEW a \in Int, NEW b \in Nat \ {0} PROVE a % b \in 0 .. b - 1
OBVIOUS

LEMMA Quotient ==
    ASSUME NEW i \in Nat, NEW n \in Nat, NEW b \in Nat \ {0}, i < n * b
    PROVE  i \div b \in 0 .. n - 1 /\ i % b \in 0 .. b - 1 /\ i = (i \div b) * b + (i % b)
<1>1. i = (i \div b) * b + (i % b) /\ i \div b \in Int /\ i % b \in 0 .. b - 1
  OBVIOUS
<1> QED
  BY <1>1

LEMMA WholeWords ==
    ASSUME NEW n \in Nat, NEW b \in Nat \ {0}
    PROVE  /\ (n * b) \div b = n
           /\ n % b = 0 => n = (n \div b) * b /\ n \div b \in Nat
OBVIOUS

(***************************************************************************)
(* A filter has whole words of bits, and those of its items' probes, all   *)
(* of them in range, are set.                                              *)
(***************************************************************************)
Shape ==
    [set: SUBSET Nat, words: Nat, bits: Nat, hashes: Nat, inserted: Nat, items: SUBSET Items]

Probes(f, x) == {Index(f, x, i) : i \in ProbesOf(f, x)}

FilterOK(f) ==
    /\ f \in Shape /\ f.words # 0 /\ f.bits = f.words * W
    /\ \A x \in Items : Probes(f, x) \subseteq 0 .. f.bits - 1
    /\ f.set = UNION {Probes(f, x) : x \in f.items}

BytesOK(b) == \E f \in Shape : FilterOK(f) /\ b = Stored(f)

LEMMA IndexInRange ==
    ASSUME NEW f \in Shape, f.words # 0, f.bits = f.words * W, NEW x \in Items,
           NEW i \in ProbesOf(f, x)
    PROVE  f.bits \in Nat \ {0} /\ Index(f, x, i) \in 0 .. f.bits - 1
<1>1. f.bits \in Nat \ {0}
  BY CbloomAssumption DEF Shape
<1>2. i \in Int /\ H1[x] \in Int /\ H2[x] \in Int
  BY CbloomAssumption DEF ProbesOf, Shape
<1>3. Odd(H2[x]) \in Int
  BY <1>2 DEF Odd
<1>4. i * Odd(H2[x]) \in Int
  BY <1>2, <1>3
<1>5. H1[x] + i * Odd(H2[x]) \in Int
  BY <1>2, <1>4
<1>6. (H1[x] + i * Odd(H2[x])) % U \in Int
  BY <1>5, Remainder, CbloomAssumption
<1> QED
  BY <1>1, <1>6, Remainder DEF Index, BitIndex

LEMMA NoPanics ==
    ASSUME NEW f \in Shape, FilterOK(f), NEW x \in Items PROVE Panics(f, x) = {}
<1>1. \A i \in ProbesOf(f, x) : f.bits # 0 /\ Index(f, x, i) < f.words * W
  <2> SUFFICES ASSUME NEW i \in ProbesOf(f, x)
               PROVE  f.bits # 0 /\ Index(f, x, i) < f.words * W
    OBVIOUS
  <2>1. f.bits \in Nat \ {0} /\ Index(f, x, i) \in 0 .. f.bits - 1 /\ f.bits = f.words * W
    BY IndexInRange DEF FilterOK
  <2> QED
    BY <2>1
<1>2. \A i \in ProbesOf(f, x) : Index(f, x, i) \in Int
  BY IndexInRange DEF FilterOK
<1>3. f.words * W \in Int
  BY CbloomAssumption DEF Shape
<1> QED
  BY <1>1, <1>2, <1>3 DEF Panics

\* A filter reports what was added to it.
LEMMA ReportsItems ==
    ASSUME NEW f \in Shape, FilterOK(f)
    PROVE  /\ \A x \in f.items : Reports(f, x)
           /\ f.set = UNION {{Index(f, x, i) : i \in ProbesOf(f, x)} : x \in f.items}
<1>1. \A x \in f.items : x \in Items /\ Probes(f, x) \subseteq f.set
  BY DEF FilterOK, Shape
<1>2. \A x \in f.items : Reports(f, x)
  BY <1>1, NoPanics DEF Reports, Probes
<1> QED
  BY <1>2 DEF FilterOK, Probes

\* A new filter is one, ...
LEMMA NewFilter ==
    ASSUME NEW n \in Nat, NEW k \in Nat
    PROVE  WithParams(n, k) \in Shape /\ FilterOK(WithParams(n, k))
<1> DEFINE f == WithParams(n, k)
<1>1. Words(n) \in Nat \ {0}
  <2>1. CASE n = 0
    BY <2>1 DEF Words
  <2>2. CASE n # 0
    <3>1. n + W - 1 \in Nat /\ n + W - 1 >= W /\ W \in Nat \ {0}
      BY <2>2, CbloomAssumption
    <3>2. (n + W - 1) \div W \in Nat \ {0}
      BY <3>1
    <3> QED
      BY <2>2, <3>2 DEF Words
  <2> QED
    BY <2>1, <2>2
<1>2. f \in Shape /\ f.words # 0 /\ f.bits = f.words * W /\ f.set = {} /\ f.items = {}
  BY <1>1, CbloomAssumption DEF WithParams, Shape
<1> HIDE DEF f
<1>3. \A x \in Items : Probes(f, x) \subseteq 0 .. f.bits - 1
  BY <1>2, IndexInRange DEF Probes
<1>4. FilterOK(f)
  BY <1>2, <1>3 DEF FilterOK
<1> QED
  BY <1>2, <1>4 DEF f

\* ... with an addition it stays one, ...
LEMMA AddedFilter ==
    ASSUME NEW f \in Shape, FilterOK(f), NEW x \in Items
    PROVE  Added(f, x) \in Shape /\ FilterOK(Added(f, x))
<1> DEFINE g == Added(f, x)
<1>1. Done(f, x) = ProbesOf(f, x)
  BY NoPanics DEF Done
<1>2. g = [f EXCEPT !.set = @ \cup Probes(f, x), !.inserted = @ + 1, !.items = @ \cup {x}]
  BY <1>1, NoPanics DEF Added, Probes
<1>3. /\ f.set \cup Probes(f, x) \in SUBSET Nat /\ f.inserted + 1 \in Nat
      /\ f.items \cup {x} \in SUBSET Items
  BY DEF FilterOK, Shape
<1> HIDE DEF g
<1>4. /\ g \in Shape /\ g.words = f.words /\ g.bits = f.bits /\ g.hashes = f.hashes
      /\ g.set = f.set \cup Probes(f, x) /\ g.items = f.items \cup {x}
  <2> DEFINE set == f.set \cup Probes(f, x)
             inserted == f.inserted + 1
             items == f.items \cup {x}
  <2>1. set \in SUBSET Nat /\ inserted \in Nat /\ items \in SUBSET Items
    BY <1>3
  <2>2. g = [f EXCEPT !.set = set, !.inserted = inserted, !.items = items]
    BY <1>2
  <2> HIDE DEF set, inserted, items
  <2>3. /\ g \in Shape /\ g.words = f.words /\ g.bits = f.bits /\ g.hashes = f.hashes
        /\ g.set = set /\ g.items = items
    BY <2>1, <2>2 DEF Shape
  <2> QED
    BY <2>3 DEF set, items
<1>5. \A y \in Items : Probes(g, y) = Probes(f, y)
  BY <1>4 DEF Probes, ProbesOf, Index
<1>6. f.items \subseteq Items
  BY DEF Shape
<1>7. FilterOK(g)
  BY <1>4, <1>5, <1>6 DEF FilterOK
<1> QED
  BY <1>4, <1>7 DEF g

\* ... and its bits come back from its words.
LEMMA UnpackedPacked ==
    ASSUME NEW f \in Shape, FilterOK(f) PROVE Unpacked(Packed(f)) = f.set
<1>1. W \in Nat \ {0} /\ f.words \in Nat
  BY CbloomAssumption DEF Shape
<1>2. \A i \in f.set : i \in Nat /\ i < f.words * W
  <2>1. f.set \subseteq 0 .. f.bits - 1 /\ f.bits = f.words * W
    BY DEF FilterOK, Shape
  <2>2. f.words * W \in Nat
    BY <1>1
  <2> QED
    BY <2>1, <2>2
<1>3. \A i : i \in Unpacked(Packed(f)) <=>
        \E w \in 0 .. f.words - 1 : \E b \in 0 .. W - 1 : w * W + b \in f.set /\ i = w * W + b
  <2> DEFINE words == Packed(f)
  <2>1. /\ DOMAIN words = 0 .. f.words - 1
        /\ \A w \in 0 .. f.words - 1 : words[w] = {b \in 0 .. W - 1 : w * W + b \in f.set}
    BY DEF Packed
  <2> HIDE DEF words
  <2>2. \A i : i \in Unpacked(words) <=>
          \E w \in DOMAIN words : \E b \in words[w] : i = w * W + b
    BY DEF Unpacked
  <2>3. \A i : i \in Unpacked(words) <=>
          \E w \in 0 .. f.words - 1 : \E b \in 0 .. W - 1 :
             w * W + b \in f.set /\ i = w * W + b
    BY <2>1, <2>2
  <2> QED
    BY <2>3 DEF words
<1>4. ASSUME NEW i \in f.set
      PROVE  \E w \in 0 .. f.words - 1 : \E b \in 0 .. W - 1 : i = w * W + b
  <2>1. i \in Nat /\ i < f.words * W
    BY <1>2
  <2>2. i \div W \in 0 .. f.words - 1 /\ i % W \in 0 .. W - 1 /\ i = (i \div W) * W + (i % W)
    BY <1>1, <2>1, Quotient
  <2> QED
    BY <2>2
<1> QED
  BY <1>3, <1>4

(***************************************************************************)
(* What from_bytes accepts is a filter, if its header has whole words.     *)
(***************************************************************************)
LEMMA ReadBack ==
    ASSUME NEW f \in Shape, FilterOK(f)
    PROVE  FromBytes(Stored(f)) \in Shape /\ FilterOK(FromBytes(Stored(f)))
<1> DEFINE g == FromBytes(Stored(f))
<1>1. f.words \in Nat /\ W \in Nat \ {0} /\ f.bits = f.words * W
  BY CbloomAssumption DEF FilterOK, Shape
<1>2. f.bits \div W = f.words
  BY <1>1, WholeWords
<1>3. /\ g.set = f.set /\ g.words = f.words /\ g.bits = f.bits /\ g.hashes = f.hashes
      /\ g.inserted = f.inserted /\ g.items = f.items
  BY <1>2, UnpackedPacked DEF FromBytes, Stored
<1>4. g \in Shape
  BY <1>3 DEF FromBytes, Shape
<1> HIDE DEF g
<1>5. \A x \in Items : Probes(g, x) = Probes(f, x)
  BY <1>3 DEF Probes, ProbesOf, Index
<1>6. FilterOK(g)
  BY <1>3, <1>4, <1>5 DEF FilterOK, Shape
<1> QED
  BY <1>4, <1>6 DEF g

LEMMA ReadForeign ==
    ASSUME NEW f \in Shape, NEW n \in Nat \ {0}, n % W = 0
    PROVE  LET g == FromBytes(Foreign(Stored(f), n)) IN g \in Shape /\ FilterOK(g)
<1> DEFINE words == [w \in 0 .. (n \div W) - 1 |-> {}]
           g == FromBytes(Foreign(Stored(f), n))
<1>1. /\ n = (n \div W) * W /\ n \div W \in Nat /\ W \in Nat \ {0}
  BY WholeWords, CbloomAssumption
<1>2. n \div W # 0
  BY <1>1
<1>3. Unpacked(words) = {}
  BY DEF Unpacked
<1>4. /\ g.set = Unpacked(words) /\ g.words = n \div W /\ g.bits = n /\ g.hashes = f.hashes
      /\ g.inserted = f.inserted /\ g.items = {}
  BY DEF FromBytes, Foreign, Stored
<1>5. g \in Shape
  BY <1>1, <1>3, <1>4 DEF FromBytes, Shape
<1> HIDE DEF g
<1>6. \A x \in Items : Probes(g, x) \subseteq 0 .. g.bits - 1
  BY <1>1, <1>2, <1>4, <1>5, IndexInRange DEF Probes
<1>7. FilterOK(g)
  BY <1>1, <1>2, <1>3, <1>4, <1>5, <1>6 DEF FilterOK
<1> QED
  BY <1>5, <1>7 DEF g

WholeForeign == \A n \in ForeignBits : n # 0 /\ n % W = 0

LEMMA ReadAny ==
    ASSUME WholeForeign, NEW s, BytesOK(s), NEW b \in {s} \cup Damaged(s), Accepted(b)
    PROVE  FromBytes(b) \in Shape /\ FilterOK(FromBytes(b))
<1>1. PICK f \in Shape : FilterOK(f) /\ s = Stored(f)
  BY DEF BytesOK
<1>2. CASE b = s
  BY <1>1, <1>2, ReadBack
<1>3. CASE \E n \in ForeignBits : b = Foreign(s, n)
  BY <1>1, <1>3, ReadForeign, CbloomAssumption DEF WholeForeign
<1>4. /\ f.words \in Nat /\ f.bits \div W = f.words
  BY <1>1, WholeWords, CbloomAssumption DEF FilterOK, Shape
<1>5. s.len = HeaderLen + 8 * f.words /\ s.bits = f.bits /\ s.magic = TRUE
  BY <1>1 DEF Stored, ByteLen
<1>6. DOMAIN s = {"magic", "bits", "hashes", "inserted", "words", "len", "items"}
  BY <1>1 DEF Stored
<1>7. CASE b = [s EXCEPT !.magic = FALSE]
  BY <1>6, <1>7 DEF Accepted
<1>8. CASE b = [s EXCEPT !.len = @ - 8]
  <2>1. b.len = s.len - 8 /\ b.bits = s.bits
    BY <1>6, <1>8
  <2>2. b.len = HeaderLen + 8 * f.words
    BY <1>4, <1>5, <2>1 DEF Accepted, ByteLen
  <2> QED
    BY <1>4, <1>5, <2>1, <2>2 DEF HeaderLen
<1>9. CASE b = [s EXCEPT !.len = HeaderLen - 1]
  <2>1. b.len = HeaderLen - 1 /\ b.bits = s.bits
    BY <1>6, <1>9
  <2>2. b.len = HeaderLen + 8 * f.words
    BY <1>4, <1>5, <2>1 DEF Accepted, ByteLen
  <2> QED
    BY <1>4, <2>1, <2>2 DEF HeaderLen
<1> QED
  BY <1>2, <1>3, <1>7, <1>8, <1>9 DEF Damaged

(***************************************************************************)
(* Every handle is a filter, and every buffer the bytes of one.            *)
(***************************************************************************)
Sane(block) ==
    /\ block.kind = "filter" => block.content \in Shape /\ FilterOK(block.content)
    /\ block.kind = "bytes" => BytesOK(block.content)

Contents == \A p \in DOMAIN heap : Sane(heap[p])

LEMMA GivenSane ==
    ASSUME Contents, NEW p, NEW kind, NEW size, NEW len, NEW content,
           Given(p, kind, size, len, content),
           kind = "filter" => content \in Shape /\ FilterOK(content),
           kind = "bytes" => BytesOK(content)
    PROVE  Contents'
<1> DEFINE block == [kind |-> kind, size |-> size, content |-> content]
<1>1. heap' = With(heap, p, block)
  BY DEF Given
<1>2. DOMAIN heap' = DOMAIN heap \cup {p}
  BY <1>1 DEF With
<1>3. \A q \in DOMAIN heap' : heap'[q] = IF q = p THEN block ELSE heap[q]
  BY <1>1 DEF With
<1>4. Sane(block)
  BY DEF Sane
<1> HIDE DEF block
<1> QED
  BY <1>2, <1>3, <1>4 DEF Contents

LEMMA SaneStep ==
    ASSUME WholeForeign, Owned, Contents, CbloomNext PROVE Contents'
<1>1. \A p \in Handles : heap[p].content \in Shape /\ FilterOK(heap[p].content)
  BY DEF Handles, Contents, Sane, Owned, HeldIsLive
<1>2. \A q \in Buffers : BytesOK(heap[q].content)
  BY DEF Buffers, Contents, Sane, Owned, HeldIsLive
<1>3. ASSUME NEW p \in Pointers, NEW s \in Sizes, New(p, s) PROVE Contents'
  <2>1. Words(s.bits) * W \in Nat /\ s.hashes \in Nat
    <3>1. s.bits \in Nat /\ s.hashes \in Nat /\ W \in Nat \ {0}
      BY CbloomAssumption
    <3>2. (s.bits + W - 1) \div W \in Nat
      BY <3>1
    <3> QED
      BY <3>1, <3>2 DEF Words
  <2>2. /\ WithParams(Words(s.bits) * W, s.hashes) \in Shape
        /\ FilterOK(WithParams(Words(s.bits) * W, s.hashes))
    BY <2>1, NewFilter
  <2> QED
    BY <1>3, <2>2, GivenSane DEF New
<1>4. ASSUME NEW p \in Pointers, Free(p) \/ BufferFree(p) PROVE Contents'
  BY <1>4 DEF Free, BufferFree, Freed, Without, Contents
<1>5. ASSUME NEW p \in Pointers, NEW x \in Items, Add(p, x) PROVE Contents'
  <2> DEFINE f == Added(heap[p].content, x)
  <2>1. /\ p \in DOMAIN heap /\ heap[p].kind = "filter"
        /\ heap' = [heap EXCEPT ![p] = [heap[p] EXCEPT !.content = f]]
    BY <1>5 DEF Add, Handles, Owned, HeldIsLive
  <2>2. f \in Shape /\ FilterOK(f)
    BY <1>1, <1>5, AddedFilter DEF Add
  <2> HIDE DEF f
  <2>3. DOMAIN heap[p] = {"kind", "size", "content"}
    BY <2>1 DEF Owned, BlocksOK
  <2>4. heap'[p].kind = "filter" /\ heap'[p].content = f
    BY <2>1, <2>3
  <2>5. Sane(heap'[p])
    BY <2>2, <2>4 DEF Sane
  <2> QED
    BY <2>1, <2>5 DEF Contents
<1>6. ASSUME NEW p \in Pointers, NEW q \in Pointers, Serialize(p, q) PROVE Contents'
  <2>1. BytesOK(Stored(heap[p].content))
    BY <1>1, <1>6 DEF Serialize, BytesOK
  <2> QED
    BY <1>6, <2>1, GivenSane DEF Serialize, Filter
<1>7. ASSUME NEW p \in Pointers, NEW q \in Pointers, Deserialize(p, q) PROVE Contents'
  <2>1. PICK b \in {heap[p].content} \cup Damaged(heap[p].content) :
          Accepted(b) /\ Given(q, "filter", 0, 0, FromBytes(b))
    BY <1>7 DEF Deserialize
  <2>2. FromBytes(b) \in Shape /\ FilterOK(FromBytes(b))
    BY <1>2, <1>7, <2>1, ReadAny DEF Deserialize
  <2> QED
    BY <2>1, <2>2, GivenSane
<1> QED
  BY <1>3, <1>4, <1>5, <1>6, <1>7 DEF CbloomNext

LEMMA FiltersStay == ASSUME WholeForeign PROVE CbloomSpec => [](Owned /\ Contents)
<1>1. CbloomInit => Contents
  BY DEF CbloomInit, Contents
<1>2. Owned /\ Contents /\ [CbloomNext]_cbVars => Contents'
  BY SaneStep DEF cbVars, Contents
<1> QED
  BY <1>1, <1>2, OwnedInit, OwnedStep, PTL DEF CbloomSpec

(***************************************************************************)
(* For any two hash functions, word size, filter sizes and sequence of     *)
(* calls, round trips through bytes included: what was added is reported,  *)
(* and no bit is set but for it.  Only bytes whose header does not promise *)
(* whole words, which no filter writes, are left out.                      *)
(***************************************************************************)
THEOREM StaysFaithful == ASSUME WholeForeign PROVE CbloomSpec => []Faithful
<1>1. Owned /\ Contents => Faithful
  <2> SUFFICES ASSUME Owned, Contents, NEW p \in Handles
               PROVE  LET f == Filter(p) IN
                      /\ \A x \in f.items : Reports(f, x)
                      /\ f.set = UNION {{Index(f, x, i) : i \in ProbesOf(f, x)} : x \in f.items}
    BY DEF Faithful, NoFalseNegatives, BitsAreProbes
  <2>1. Filter(p) \in Shape /\ FilterOK(Filter(p))
    BY DEF Handles, Contents, Sane, Owned, HeldIsLive, Filter
  <2> QED
    BY <2>1, ReportsItems
<1> QED
  BY <1>1, FiltersStay, PTL

(***************************************************************************)
(* The probes of an item.                                                  *)
(***************************************************************************)
\* The only odd divisor of a power of two is 1; 64 is one.
PowerOfTwo(w) == \A d, q \in Nat : w = d * q /\ d % 2 = 1 => d = 1

LEMMA OddFactor ==
    ASSUME NEW d \in Nat, NEW q \in Nat, NEW n \in Nat, d % 2 = 1, d * q = 2 * n
    PROVE  \E r \in Nat : d * r = n
<1> DEFINE e == d \div 2
           r == q \div 2
<1>1. d = 2 * e + 1 /\ e \in Nat
  OBVIOUS
<1>2. r \in Nat /\ (q = 2 * r \/ q = 2 * r + 1)
  OBVIOUS
<1> HIDE DEF e, r
<1>3. d * q = 2 * (e * q) + q
  BY <1>1
<1>4. e * q \in Nat
  BY <1>1
<1>5. q = 2 * (n - e * q)
  BY <1>3, <1>4
<1>6. q = 2 * r
  BY <1>2, <1>4, <1>5
<1>7. d * q = 2 * (d * r) /\ d * r \in Nat
  BY <1>2, <1>6
<1>8. d * r = n
  BY <1>7
<1> QED BY <1>2, <1>8

LEMMA SixtyFour == PowerOfTwo(64)
<1> SUFFICES ASSUME NEW d \in Nat, NEW q \in Nat, 64 = d * q, d % 2 = 1 PROVE d = 1
  BY DEF PowerOfTwo
<1>1. d * q = 2 * 32
  OBVIOUS
<1>2. PICK a \in Nat : d * a = 2 * 16
  <2>1. \E r \in Nat : d * r = 32
    BY <1>1, OddFactor
  <2> QED BY <2>1
<1>3. PICK b \in Nat : d * b = 2 * 8
  <2>1. \E r \in Nat : d * r = 16
    BY <1>2, OddFactor
  <2> QED BY <2>1
<1>4. PICK c \in Nat : d * c = 2 * 4
  <2>1. \E r \in Nat : d * r = 8
    BY <1>3, OddFactor
  <2> QED BY <2>1
<1>5. PICK e \in Nat : d * e = 2 * 2
  <2>1. \E r \in Nat : d * r = 4
    BY <1>4, OddFactor
  <2> QED BY <2>1
<1>6. PICK f \in Nat : d * f = 2 * 1
  <2>1. \E r \in Nat : d * r = 2
    BY <1>5, OddFactor
  <2> QED BY <2>1
<1>7. PICK g \in Nat : d * g = 1
  BY <1>6, OddFactor
<1> QED BY <1>7

\* An odd number has W multiples modulo W.
LEMMA OddMultiples ==
    ASSUME NEW w \in Nat \ {0}, PowerOfTwo(w), NEW h \in Nat, h % 2 = 1,
           NEW m \in 1 .. w - 1, NEW c \in Int, m * h = w * c
    PROVE  FALSE
<1> DEFINE T == {a \in Nat \ {0} : \E b \in Int : a * h = w * b}
<1>1. m \in T /\ w \in T
  <2>1. w * h = w * h /\ h \in Int
    OBVIOUS
  <2> QED BY <2>1
<1>2. PICK a \in T : \A x \in T : a <= x
  <2>1. T \subseteq Nat /\ T # {}
    BY <1>1
  <2> HIDE DEF T
  <2> QED BY <2>1, DelimitFold!LeastExists
<1>3. PICK b \in Int : a * h = w * b
  OBVIOUS
<1>4. a \in Nat \ {0} /\ a <= m
  BY <1>1, <1>2
<1> DEFINE q == w \div a
           r == w % a
<1>5. q \in Nat /\ r \in 0 .. a - 1 /\ w = a * q + r
  BY <1>4
<1>6. r * h = w * (h - b * q)
  <2> HIDE DEF q, r, T
  <2>1. r * h = w * h - (a * q) * h
    BY <1>4, <1>5
  <2>2. (a * q) * h = (a * h) * q
    BY <1>4, <1>5
  <2>3. (w * b) * q = w * (b * q)
    BY <1>5
  <2>4. b * q \in Int /\ w * (h - b * q) = w * h - w * (b * q)
    BY <1>5
  <2> QED BY <1>3, <2>1, <2>2, <2>3, <2>4
<1>7. h - b * q \in Int
  BY <1>5
<1> HIDE DEF q, r
<1>8. r = 0
  <2>1. r \in Nat /\ r < a
    BY <1>4, <1>5
  <2>2. r # 0 => r \in T
    BY <1>6, <1>7, <2>1
  <2> HIDE DEF T
  <2> QED BY <1>2, <1>4, <2>1, <2>2
<1> HIDE DEF T
<1>9. w = q * a
  BY <1>4, <1>5, <1>8
<1>10. h = q * b
  <2>1. a * h = a * (q * b)
    BY <1>3, <1>4, <1>5, <1>9
  <2>2. q * b \in Int
    BY <1>5
  <2> QED BY <1>4, <2>1, <2>2
<1>11. q % 2 = 1
  <2>1. CASE q % 2 = 0
    <3>1. PICK p \in Nat : q = 2 * p
      BY <1>5, <2>1
    <3>2. h = 2 * (p * b) /\ p * b \in Int
      BY <1>10, <3>1
    <3> QED BY <3>2
  <2> QED BY <1>5, <2>1
<1>12. q = 1
  BY <1>4, <1>5, <1>9, <1>11 DEF PowerOfTwo
<1> QED BY <1>4, <1>9, <1>12

LEMMA OddIsOdd == ASSUME NEW h \in Nat PROVE Odd(h) \in Nat /\ Odd(h) % 2 = 1
<1>1. CASE h % 2 = 0
  <2>1. Odd(h) = h + 1
    BY <1>1 DEF Odd
  <2>2. (h + 1) % 2 = 1
    BY <1>1
  <2> QED BY <2>1, <2>2
<1>2. CASE h % 2 # 0
  <2>1. Odd(h) = h
    BY <1>2 DEF Odd
  <2>2. h % 2 = 1
    BY <1>2
  <2> QED BY <2>1, <2>2
<1> QED BY <1>1, <1>2

\* Two probes of an item that meet differ by a multiple of a word.
LEMMA ProbesMeet ==
    ASSUME NEW f \in Shape, f.words # 0, f.bits = f.words * W, NEW x \in Items,
           NEW i \in ProbesOf(f, x), NEW j \in ProbesOf(f, x), i < j,
           Index(f, x, i) = Index(f, x, j)
    PROVE  \E c \in Int : (j - i) * Odd(H2[x]) = W * c
<1> DEFINE g == Odd(H2[x])
           a == H1[x] + i * g
           b == H1[x] + j * g
<1>1. /\ i \in Nat /\ j \in Nat /\ H1[x] \in Nat /\ H2[x] \in Nat
      /\ f.words \in Nat \ {0} /\ W \in Nat \ {0} /\ U \in Nat \ {0} /\ U % W = 0
  BY CbloomAssumption DEF ProbesOf, Shape
<1>2. g \in Nat /\ g % 2 = 1
  BY <1>1, OddIsOdd
<1>3. f.bits \in Nat \ {0} /\ (a % U) % f.bits = (b % U) % f.bits
  BY IndexInRange DEF Index, BitIndex
<1> HIDE DEF g
<1>4. a \in Nat /\ b \in Nat /\ b - a = (j - i) * g
  <2>1. i * g \in Nat /\ j * g \in Nat /\ (j - i) * g = j * g - i * g
    BY <1>1, <1>2
  <2> QED BY <1>1, <2>1
<1> HIDE DEF a, b
<1> DEFINE au == a \div U
           bu == b \div U
           am == (a % U) \div f.bits
           bm == (b % U) \div f.bits
           u  == U \div W
<1>5. /\ au \in Int /\ bu \in Int /\ a % U \in Int /\ b % U \in Int
      /\ a = U * au + (a % U) /\ b = U * bu + (b % U)
  BY <1>1, <1>4
<1>6. /\ am \in Int /\ bm \in Int
      /\ a % U = f.bits * am + ((a % U) % f.bits)
      /\ b % U = f.bits * bm + ((b % U) % f.bits)
  BY <1>3, <1>5
<1>7. U = W * u /\ u \in Int
  BY <1>1
<1>8. (a % U) % f.bits \in Int
  BY <1>3, <1>5
<1> HIDE DEF au, bu, am, bm, u
<1>9. b - a = U * (bu - au) + f.bits * (bm - am)
  <2>1. b - a = (U * bu - U * au) + (f.bits * bm - f.bits * am)
    <3> DEFINE r == (a % U) % f.bits
    <3>1. a = U * au + (f.bits * am + r)
      BY <1>5, <1>6
    <3>2. b = U * bu + (f.bits * bm + r)
      BY <1>3, <1>5, <1>6
    <3>3. /\ r \in Int /\ U * au \in Int /\ U * bu \in Int
          /\ f.bits * am \in Int /\ f.bits * bm \in Int
      BY <1>1, <1>3, <1>5, <1>6, <1>8
    <3> HIDE DEF r
    <3> QED BY <3>1, <3>2, <3>3
  <2>2. U * bu - U * au = U * (bu - au) /\ f.bits * bm - f.bits * am = f.bits * (bm - am)
    BY <1>1, <1>3, <1>5, <1>6
  <2> QED BY <2>1, <2>2
<1> DEFINE c == u * (bu - au) + f.words * (bm - am)
<1>10. b - a = W * c /\ c \in Int
  <2>1. U * (bu - au) = W * (u * (bu - au)) /\ u * (bu - au) \in Int
    BY <1>1, <1>5, <1>7
  <2>2. f.bits * (bm - am) = W * (f.words * (bm - am)) /\ f.words * (bm - am) \in Int
    BY <1>1, <1>6
  <2>3. c \in Int
    BY <2>1, <2>2
  <2>4. W * c = W * (u * (bu - au)) + W * (f.words * (bm - am))
    BY <1>1, <2>1, <2>2
  <2> QED BY <1>9, <2>1, <2>2, <2>3, <2>4
<1> HIDE DEF c
<1> QED BY <1>4, <1>10 DEF g

LEMMA DifferentProbes ==
    ASSUME PowerOfTwo(W), NEW f \in Shape, FilterOK(f), NEW x \in Items,
           NEW i \in ProbesOf(f, x), NEW j \in ProbesOf(f, x), i < j, j < W
    PROVE  Index(f, x, i) # Index(f, x, j)
<1> SUFFICES ASSUME Index(f, x, i) = Index(f, x, j) PROVE FALSE
  OBVIOUS
<1>1. PICK c \in Int : (j - i) * Odd(H2[x]) = W * c
  BY ProbesMeet DEF FilterOK
<1>2. j - i \in 1 .. W - 1 /\ W \in Nat \ {0}
  BY CbloomAssumption DEF ProbesOf, Shape
<1>3. H2[x] \in Nat
  BY CbloomAssumption
<1>4. Odd(H2[x]) \in Nat /\ Odd(H2[x]) % 2 = 1
  BY <1>3, OddIsOdd
<1> QED BY <1>1, <1>2, <1>4, OddMultiples

(***************************************************************************)
(* For any two hash functions, any filter sizes, and a word of a power of  *)
(* two bits (64 is one, SixtyFour): as long as an item's probes are no     *)
(* more than a word has bits, they are different bits.  This is what h2    *)
(* is forced odd for (hash.rs): "instead of getting stuck on a small       *)
(* cycle", whether or not the number of bits is itself a power of two.     *)
(***************************************************************************)
THEOREM ProbesStayDifferent ==
    ASSUME WholeForeign, PowerOfTwo(W) PROVE CbloomSpec => []ProbesDiffer
<1>1. Owned /\ Contents => ProbesDiffer
  <2> SUFFICES ASSUME Owned, Contents, NEW p \in Handles, NEW x \in Items,
                      NEW i \in ProbesOf(Filter(p), x), NEW j \in ProbesOf(Filter(p), x),
                      i < j, j < W
               PROVE  Index(Filter(p), x, i) # Index(Filter(p), x, j)
    BY DEF ProbesDiffer
  <2>1. Filter(p) \in Shape /\ FilterOK(Filter(p))
    BY DEF Handles, Contents, Sane, Owned, HeldIsLive, Filter
  <2> QED BY <2>1, DifferentProbes
<1> QED BY <1>1, FiltersStay, PTL

==============================================================================
