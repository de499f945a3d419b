----------------------------- MODULE DataLemmas -----------------------------
(***************************************************************************)
(* What the proofs of the components keep needing of data: what is in a    *)
(* sequence that has grown at its end or lost its head, how to go from a   *)
(* finite set to a larger one, and what a sum over such a set is.          *)
(***************************************************************************)
EXTENDS Integers, Sequences, SequencesExt, SequenceTheorems, WellFoundedInduction, TLAPS,
        FiniteSets, FiniteSetsExt, FiniteSetTheorems

\* A sequence and its elements.
LEMMA SeqFacts ==
  ASSUME NEW S, NEW s \in Seq(S)
  PROVE  /\ Len(s) \in Nat /\ DOMAIN s = 1..Len(s)
         /\ \A k \in 1..Len(s) : s[k] \in S /\ s[k] \in ToSet(s)
         /\ ToSet(s) \subseteq S
         /\ \A e \in ToSet(s) : \E k \in 1..Len(s) : s[k] = e
<1>1. Len(s) \in Nat /\ DOMAIN s = 1..Len(s)
  BY LenProperties
<1>2. \A k \in 1..Len(s) : s[k] \in S
  BY ElementOfSeq
<1> QED BY <1>1, <1>2 DEF ToSet

\* One element more, at the end.
LEMMA AppendFacts ==
  ASSUME NEW S, NEW s \in Seq(S), NEW e \in S
  PROVE  /\ Append(s, e) \in Seq(S) /\ Append(s, e) # <<>>
         /\ Len(Append(s, e)) = Len(s) + 1 /\ Len(s) \in Nat
         /\ \A k \in 1..Len(s) : Append(s, e)[k] = s[k]
         /\ Append(s, e)[Len(s) + 1] = e
         /\ ToSet(Append(s, e)) = ToSet(s) \cup {e}
<1> DEFINE t == Append(s, e)
<1>1. /\ t \in Seq(S) /\ t # <<>> /\ Len(t) = Len(s) + 1 /\ Len(s) \in Nat
      /\ \A k \in 1..Len(s) : t[k] = s[k]
      /\ t[Len(s) + 1] = e
  BY AppendProperties
<1> HIDE DEF t
<1>2. DOMAIN t = 1..Len(s) + 1 /\ DOMAIN s = 1..Len(s)
  BY <1>1, LenProperties
<1>3. \A k \in 1..Len(s) + 1 : k \in 1..Len(s) \/ k = Len(s) + 1
  BY <1>1
<1>4. 1..Len(s) \subseteq 1..Len(s) + 1 /\ Len(s) + 1 \in 1..Len(s) + 1
  BY <1>1
<1>5. ToSet(t) = ToSet(s) \cup {e}
  BY <1>1, <1>2, <1>3, <1>4 DEF ToSet
<1> QED BY <1>1, <1>5 DEF t

\* One element less, at the front.
LEMMA TailFacts ==
  ASSUME NEW S, NEW s \in Seq(S), s # <<>>
  PROVE  /\ Head(s) \in S /\ Head(s) = s[1] /\ Tail(s) \in Seq(S)
         /\ Len(s) \in Nat \ {0} /\ Len(Tail(s)) = Len(s) - 1
         /\ \A k \in 1..Len(s) - 1 : Tail(s)[k] = s[k + 1]
         /\ ToSet(s) = {Head(s)} \cup ToSet(Tail(s))
<1> DEFINE t == Tail(s)
<1>1. /\ Head(s) \in S /\ t \in Seq(S) /\ Len(t) = Len(s) - 1
      /\ \A k \in 1..Len(t) : t[k] = s[k + 1]
  BY HeadTailProperties
<1>2. Head(s) = s[1] /\ Len(s) \in Nat \ {0} /\ DOMAIN s = 1..Len(s)
  BY LenProperties, EmptySeq
<1> HIDE DEF t
<1>3. DOMAIN t = 1..Len(s) - 1
  BY <1>1, <1>2, LenProperties
<1>4. \A k \in 1..Len(s) : k = 1 \/ (k - 1 \in 1..Len(s) - 1 /\ (k - 1) + 1 = k)
  BY <1>2
<1>5. 1 \in 1..Len(s) /\ \A k \in 1..Len(s) - 1 : k + 1 \in 1..Len(s)
  BY <1>2
<1>6. ToSet(s) \subseteq {s[1]} \cup ToSet(t)
  <2> SUFFICES ASSUME NEW k \in 1..Len(s) PROVE s[k] = s[1] \/ s[k] \in ToSet(t)
    BY <1>2 DEF ToSet
  <2>1. CASE k = 1
    BY <2>1
  <2>2. CASE k - 1 \in 1..Len(s) - 1 /\ (k - 1) + 1 = k
    BY <1>1, <1>3, <2>2 DEF ToSet
  <2> QED BY <1>4, <2>1, <2>2
<1>7. {s[1]} \cup ToSet(t) \subseteq ToSet(s)
  BY <1>1, <1>2, <1>3, <1>5 DEF ToSet
<1> QED BY <1>1, <1>2, <1>6, <1>7 DEF t

\* Nothing in nothing.
LEMMA EmptyFacts == ToSet(<<>>) = {} /\ Len(<<>>) = 0 /\ \A S : <<>> \in Seq(S)
  BY DEF ToSet

\* Two sequences in a row.
LEMMA ConcatFacts ==
  ASSUME NEW S, NEW s \in Seq(S), NEW t \in Seq(S)
  PROVE  s \o t \in Seq(S) /\ ToSet(s \o t) = ToSet(s) \cup ToSet(t)
<1> DEFINE u == s \o t
<1>1. /\ u \in Seq(S) /\ Len(u) = Len(s) + Len(t)
      /\ \A i \in 1..Len(s) + Len(t) : u[i] = IF i <= Len(s) THEN s[i] ELSE t[i - Len(s)]
  BY ConcatProperties
<1>2. /\ Len(s) \in Nat /\ DOMAIN s = 1..Len(s) /\ Len(t) \in Nat /\ DOMAIN t = 1..Len(t)
      /\ DOMAIN u = 1..Len(u)
  BY <1>1, LenProperties
<1> HIDE DEF u
<1>3. ASSUME NEW i \in 1..Len(s) PROVE s[i] \in ToSet(u)
  <2>1. i \in 1..Len(s) + Len(t) /\ u[i] = s[i]
    BY <1>1, <1>2
  <2> QED BY <1>1, <1>2, <2>1 DEF ToSet
<1>4. ASSUME NEW i \in 1..Len(t) PROVE t[i] \in ToSet(u)
  <2>1. Len(s) + i \in 1..Len(s) + Len(t) /\ ~(Len(s) + i <= Len(s)) /\ (Len(s) + i) - Len(s) = i
    BY <1>2
  <2>2. u[Len(s) + i] = t[i]
    BY <1>1, <2>1
  <2> QED BY <1>1, <1>2, <2>1, <2>2 DEF ToSet
<1>5. ASSUME NEW i \in 1..Len(u) PROVE u[i] \in ToSet(s) \cup ToSet(t)
  <2>1. CASE i <= Len(s)
    BY <1>1, <1>2, <1>5, <2>1 DEF ToSet
  <2>2. CASE ~(i <= Len(s))
    <3>1. i - Len(s) \in 1..Len(t) /\ u[i] = t[i - Len(s)]
      BY <1>1, <1>2, <1>5, <2>2
    <3> QED BY <1>2, <3>1 DEF ToSet
  <2> QED BY <2>1, <2>2
<1>6. ToSet(u) \subseteq ToSet(s) \cup ToSet(t)
  BY <1>2, <1>5 DEF ToSet
<1>7. ToSet(s) \subseteq ToSet(u) /\ ToSet(t) \subseteq ToSet(u)
  BY <1>2, <1>3, <1>4 DEF ToSet
<1> QED BY <1>1, <1>6, <1>7 DEF u

\* What stands first, of any places there are.
LEMMA LeastOf ==
  ASSUME NEW T \in SUBSET Nat, T # {}
  PROVE  \E x \in T : \A y \in T : x <= y
<1>1. PICK x \in T : \A y \in T : <<y, x>> \notin OpToRel(<, Nat)
  BY NatLessThanWellFounded, WFMin, Zenon
<1>2. ASSUME NEW y \in T PROVE x <= y
  <2>1. <<y, x>> \in Nat \X Nat
    BY <1>1
  <2>2. ~(y < x)
    BY <1>1, <2>1 DEF OpToRel
  <2> QED BY <2>1, <2>2
<1> QED BY <1>1, <1>2

-----------------------------------------------------------------------------
(* Finite sets and sums over them. *)

\* Induction over the subsets of a finite set: the sets that are good have the empty one among
\* them, and a good one stays good when an element joins it.
LEMMA AllSubsets ==
  ASSUME NEW S, IsFiniteSet(S), NEW Good \in SUBSET SUBSET S,
         {} \in Good, \A s \in Good : \A x \in S \ s : s \cup {x} \in Good
  PROVE  Good = SUBSET S
<1> SUFFICES ASSUME NEW t \in SUBSET S, t \notin Good PROVE FALSE
  OBVIOUS
<1> DEFINE Sizes == {n \in Nat : \E s \in SUBSET S : s \notin Good /\ Cardinality(s) = n}
<1>1. \A s \in SUBSET S : IsFiniteSet(s) /\ Cardinality(s) \in Nat
  BY FS_Subset, FS_CardinalityType
<1>2. Sizes # {} /\ Sizes \in SUBSET Nat
  <2>1. Cardinality(t) \in Sizes
    BY <1>1
  <2> QED BY <2>1
<1>3. PICK n \in Sizes : \A m \in Sizes : n <= m
  BY <1>2, LeastOf
<1>4. PICK s \in SUBSET S : s \notin Good /\ Cardinality(s) = n
  BY <1>3
<1>5. PICK x \in s : TRUE
  BY <1>4
<1>6. s \ {x} \in SUBSET S /\ x \in S \ (s \ {x}) /\ (s \ {x}) \cup {x} = s
  BY <1>5
<1>7. Cardinality(s \ {x}) = Cardinality(s) - 1
  BY <1>1, <1>5, FS_RemoveElement
<1>8. s \ {x} \notin Good
  BY <1>4, <1>6
<1>9. Cardinality(s \ {x}) \in Sizes
  BY <1>1, <1>6, <1>8
<1> QED BY <1>1, <1>3, <1>4, <1>6, <1>7, <1>9

\* An element of a set; the recursion of the fold takes it first.
Pick(s) == CHOOSE x \in s : TRUE
\* What the fold of the community modules makes of a sum: g gives each subset of S its own.
Adds(F, S, g) == g = [s \in SUBSET S |-> IF s = {} THEN 0 ELSE F[Pick(s)] + g[s \ {Pick(s)}]]
SumOf(F, S) == (CHOOSE g : Adds(F, S, g))[S]

\* There is such a function, of all sizes up to the one of S.
LEMMA AddsExists ==
  ASSUME NEW S, IsFiniteSet(S), NEW F, \A x \in S : F[x] \in Int
  PROVE  \E g \in [SUBSET S -> Int] : Adds(F, S, g)
<1> DEFINE Next(g, s) == IF s = {} THEN 0 ELSE F[Pick(s)] + g[s \ {Pick(s)}]
           UpTo(n) == \E g \in [SUBSET S -> Int] : \A s \in SUBSET S : Cardinality(s) <= n => g[s] = Next(g, s)
           Missing == {n \in Nat : ~UpTo(n)}
<1>1. \A s \in SUBSET S : IsFiniteSet(s) /\ Cardinality(s) \in Nat /\ (Cardinality(s) = 0 <=> s = {})
  BY FS_Subset, FS_CardinalityType, FS_EmptySet
<1>2. \A s \in SUBSET S : s # {} => /\ Pick(s) \in s /\ s \ {Pick(s)} \in SUBSET S
                                    /\ Cardinality(s \ {Pick(s)}) = Cardinality(s) - 1
  <2> SUFFICES ASSUME NEW s \in SUBSET S, s # {}
               PROVE  /\ Pick(s) \in s /\ s \ {Pick(s)} \in SUBSET S
                      /\ Cardinality(s \ {Pick(s)}) = Cardinality(s) - 1
    OBVIOUS
  <2>1. Pick(s) \in s
    BY DEF Pick
  <2>2. Cardinality(s \ {Pick(s)}) = Cardinality(s) - 1
    BY <1>1, <2>1, FS_RemoveElement
  <2> QED BY <2>1, <2>2
<1>3. UpTo(0)
  <2>1. [s \in SUBSET S |-> 0] \in [SUBSET S -> Int]
    OBVIOUS
  <2> WITNESS [s \in SUBSET S |-> 0] \in [SUBSET S -> Int]
  <2> QED BY <1>1
<1>4. ASSUME NEW n \in Nat, UpTo(n) PROVE UpTo(n + 1)
  <2>1. PICK g \in [SUBSET S -> Int] : \A s \in SUBSET S : Cardinality(s) <= n => g[s] = Next(g, s)
    BY <1>4
  <2> DEFINE h == [s \in SUBSET S |-> IF Cardinality(s) <= n THEN g[s] ELSE Next(g, s)]
  <2>2. \A s \in SUBSET S : Next(g, s) \in Int
    <3> SUFFICES ASSUME NEW s \in SUBSET S, s # {} PROVE F[Pick(s)] + g[s \ {Pick(s)}] \in Int
      OBVIOUS
    <3>1. Pick(s) \in S /\ s \ {Pick(s)} \in SUBSET S
      BY <1>2
    <3>2. F[Pick(s)] \in Int /\ g[s \ {Pick(s)}] \in Int
      BY <2>1, <3>1
    <3> QED BY <3>2
  <2>3. h \in [SUBSET S -> Int]
    BY <2>1, <2>2
  <2>4. ASSUME NEW s \in SUBSET S, Cardinality(s) <= n + 1 PROVE h[s] = Next(h, s)
    <3>1. h[s] = Next(g, s)
      BY <2>1
    <3>2. CASE s = {}
      BY <3>1, <3>2
    <3>3. CASE s # {}
      <4>1. s \ {Pick(s)} \in SUBSET S /\ Cardinality(s \ {Pick(s)}) <= n
        BY <1>1, <1>2, <2>4, <3>3
      <4>2. h[s \ {Pick(s)}] = g[s \ {Pick(s)}]
        BY <4>1
      <4> QED BY <3>1, <3>3, <4>2
    <3> QED BY <3>2, <3>3
  <2> HIDE DEF h
  <2> QED BY <2>3, <2>4
<1>5. \A n \in Nat : UpTo(n)
  <2> SUFFICES ASSUME NEW k \in Nat, ~UpTo(k) PROVE FALSE
    OBVIOUS
  <2>1. Missing # {} /\ Missing \in SUBSET Nat
    OBVIOUS
  <2> HIDE DEF UpTo
  <2>2. PICK n \in Missing : \A m \in Missing : n <= m
    BY <2>1, LeastOf
  <2>3. n # 0 /\ n \in Nat
    BY <1>3, <2>2
  <2>4. n - 1 \in Nat /\ UpTo(n - 1)
    BY <2>2, <2>3
  <2>5. UpTo((n - 1) + 1)
    BY <1>4, <2>4
  <2> QED BY <2>2, <2>3, <2>5
<1>6. PICK g \in [SUBSET S -> Int] :
        \A s \in SUBSET S : Cardinality(s) <= Cardinality(S) => g[s] = Next(g, s)
  BY <1>1, <1>5
<1>7. \A s \in SUBSET S : g[s] = Next(g, s)
  BY <1>1, <1>6, FS_Subset
<1>8. Adds(F, S, g)
  BY <1>6, <1>7 DEF Adds
<1> QED BY <1>6, <1>8

StepsBy(F, S, g) ==
  /\ g \in [SUBSET S -> Int] /\ g[{}] = 0
  /\ \A s \in SUBSET S : \A x \in s : g[s] = F[x] + g[s \ {x}]

\* In whatever order the elements are taken: each may be the first.
LEMMA AddsSteps ==
  ASSUME NEW S, IsFiniteSet(S), NEW F, \A x \in S : F[x] \in Int, NEW g, Adds(F, S, g)
  PROVE  StepsBy(F, S, g)
<1>1. /\ DOMAIN g = SUBSET S /\ g[{}] = 0
      /\ \A s \in SUBSET S : s # {} => g[s] = F[Pick(s)] + g[s \ {Pick(s)}]
  BY DEF Adds
<1>2. \A s \in SUBSET S : IsFiniteSet(s) /\ Cardinality(s) \in Nat
  BY FS_Subset, FS_CardinalityType
<1> DEFINE Right(s) == g[s] \in Int /\ \A x \in s : g[s] = F[x] + g[s \ {x}]
           Wrong == {n \in Nat : \E s \in SUBSET S : Cardinality(s) = n /\ ~Right(s)}
<1>3. \A s \in SUBSET S : Right(s)
  <2> SUFFICES ASSUME NEW t \in SUBSET S, ~Right(t) PROVE FALSE
    OBVIOUS
  <2>1. Wrong # {} /\ Wrong \in SUBSET Nat
    <3>1. Cardinality(t) \in Wrong
      BY <1>2
    <3> QED BY <3>1
  <2>2. PICK n \in Wrong : \A m \in Wrong : n <= m
    BY <2>1, LeastOf
  <2>3. PICK s \in SUBSET S : Cardinality(s) = n /\ ~Right(s)
    BY <2>2
  <2>4. \A u \in SUBSET S : Cardinality(u) < n => Right(u)
    <3> SUFFICES ASSUME NEW u \in SUBSET S, Cardinality(u) < n, ~Right(u) PROVE FALSE
      OBVIOUS
    <3>1. Cardinality(u) \in Wrong
      BY <1>2
    <3> QED BY <1>2, <2>2, <3>1
  <2>5. s # {}
    <3> SUFFICES ASSUME s = {} PROVE FALSE
      OBVIOUS
    <3>1. g[s] \in Int
      BY <1>1
    <3> QED BY <2>3, <3>1
  <2> DEFINE p == Pick(s)
  <2>6. p \in s /\ g[s] = F[p] + g[s \ {p}]
    BY <1>1, <2>5 DEF Pick
  <2> HIDE DEF p
  <2>7. \A x \in s : s \ {x} \in SUBSET S /\ Cardinality(s \ {x}) < n /\ n \in Nat
    BY <1>2, <2>3, FS_RemoveElement
  <2>8. \A x \in s : Right(s \ {x})
    BY <2>4, <2>7
  <2>9. g[s] \in Int
    <3>1. F[p] \in Int /\ g[s \ {p}] \in Int
      BY <2>6, <2>8
    <3> QED BY <2>6, <3>1
  <2>10. ASSUME NEW x \in s PROVE g[s] = F[x] + g[s \ {x}]
    <3>1. CASE x = p
      BY <2>6, <3>1
    <3>2. CASE x # p
      <4>1. g[s \ {p}] = F[x] + g[(s \ {p}) \ {x}]
        BY <2>6, <2>8, <3>2
      <4>2. g[s \ {x}] = F[p] + g[(s \ {x}) \ {p}]
        BY <2>6, <2>8, <3>2
      <4>3. (s \ {p}) \ {x} = (s \ {x}) \ {p}
        OBVIOUS
      <4>4. F[x] \in Int /\ F[p] \in Int
        BY <2>6
      <4>5. g[(s \ {x}) \ {p}] \in Int
        <5>1. (s \ {x}) \ {p} \in SUBSET S /\ Cardinality((s \ {x}) \ {p}) < n
          <6>1. p \in s \ {x} /\ IsFiniteSet(s \ {x}) /\ Cardinality(s \ {x}) \in Nat
            BY <1>2, <2>6, <2>7, <3>2
          <6>2. Cardinality((s \ {x}) \ {p}) = Cardinality(s \ {x}) - 1
            BY <6>1, FS_RemoveElement
          <6> QED BY <2>7, <6>1, <6>2
        <5> QED BY <2>4, <5>1
      <4> DEFINE r == g[(s \ {x}) \ {p}] a == g[s \ {p}] b == g[s \ {x}]
      <4>6. r \in Int /\ a = F[x] + r /\ b = F[p] + r /\ g[s] = F[p] + a
        BY <2>6, <4>1, <4>2, <4>3, <4>5
      <4> HIDE DEF r, a
      <4>7. g[s] = F[x] + b
        BY <4>4, <4>6
      <4> QED BY <4>7
    <3> QED BY <3>1, <3>2
  <2> QED BY <2>3, <2>9, <2>10
<1>4. g = [s \in SUBSET S |-> g[s]]
  BY DEF Adds
<1> QED BY <1>1, <1>3, <1>4 DEF StepsBy

LEMMA AddsOnce ==
  ASSUME NEW S, IsFiniteSet(S), NEW F, \A x \in S : F[x] \in Int, NEW g, Adds(F, S, g), NEW h, Adds(F, S, h)
  PROVE  g = h
<1>0. StepsBy(F, S, g) /\ StepsBy(F, S, h)
  BY AddsSteps
<1>1. /\ g \in [SUBSET S -> Int] /\ g[{}] = 0 /\ \A s \in SUBSET S : \A x \in s : g[s] = F[x] + g[s \ {x}]
      /\ h \in [SUBSET S -> Int] /\ h[{}] = 0 /\ \A s \in SUBSET S : \A x \in s : h[s] = F[x] + h[s \ {x}]
  BY <1>0 DEF StepsBy
<1> DEFINE Good == {s \in SUBSET S : g[s] = h[s]}
<1>2. {} \in Good /\ Good \in SUBSET SUBSET S
  BY <1>1
<1>3. ASSUME NEW s \in Good, NEW x \in S \ s PROVE s \cup {x} \in Good
  <2>1. s \cup {x} \in SUBSET S /\ x \in s \cup {x} /\ (s \cup {x}) \ {x} = s
    OBVIOUS
  <2> QED BY <1>1, <2>1
<1> HIDE DEF Good
<1>4. Good = SUBSET S
  BY <1>2, <1>3, AllSubsets
<1> QED BY <1>1, <1>4 DEF Good

IntsOn(F, S) == \A x \in S : F[x] \in Int

\* One function that is right for every subset at once.
LEMMA SumSteps ==
  ASSUME NEW S, IsFiniteSet(S), NEW F, IntsOn(F, S)
  PROVE  \E g : StepsBy(F, S, g) /\ \A T \in SUBSET S : SumOf(F, T) = g[T]
<1>0. \A x \in S : F[x] \in Int
  BY DEF IntsOn
<1>1. PICK g \in [SUBSET S -> Int] : Adds(F, S, g)
  BY <1>0, AddsExists
<1>2. StepsBy(F, S, g)
  BY <1>0, <1>1, AddsSteps
<1>3. ASSUME NEW T \in SUBSET S PROVE SumOf(F, T) = g[T]
  <2> DEFINE h == CHOOSE k : Adds(F, T, k)
             part == [s \in SUBSET T |-> g[s]]
  <2>1. IsFiniteSet(T) /\ \A x \in T : F[x] \in Int
    BY <1>0, FS_Subset
  <2>2. \E k : Adds(F, T, k)
    BY <2>1, AddsExists
  <2>3. Adds(F, T, h)
    BY <2>2
  <2>4. Adds(F, T, part)
    <3>1. ASSUME NEW s \in SUBSET T
          PROVE  part[s] = IF s = {} THEN 0 ELSE F[Pick(s)] + part[s \ {Pick(s)}]
      <4>1. s \in SUBSET S /\ s \ {Pick(s)} \in SUBSET T
        OBVIOUS
      <4>2. g[s] = IF s = {} THEN 0 ELSE F[Pick(s)] + g[s \ {Pick(s)}]
        BY <1>1, <4>1 DEF Adds
      <4> QED BY <4>1, <4>2
    <3>2. part = [s \in SUBSET T |-> part[s]]
      OBVIOUS
    <3> HIDE DEF part
    <3> QED BY <3>1, <3>2 DEF Adds
  <2>5. h = part
    BY <2>1, <2>3, <2>4, AddsOnce
  <2>6. SumOf(F, T) = h[T]
    BY DEF SumOf
  <2> HIDE DEF h
  <2> QED BY <2>5, <2>6
<1> QED BY <1>2, <1>3

\* What the fold computes is the sum.
LEMMA SumWhole ==
  ASSUME NEW S, IsFiniteSet(S), NEW F, IntsOn(F, S), NEW h, Adds(F, S, h)
  PROVE  h[S] = SumOf(F, S)
<1>0. \A x \in S : F[x] \in Int
  BY DEF IntsOn
<1> DEFINE k == CHOOSE g : Adds(F, S, g)
<1>1. Adds(F, S, k)
  OBVIOUS
<1>2. SumOf(F, S) = k[S]
  BY DEF SumOf
<1> HIDE DEF k
<1>3. h = k
  BY <1>0, <1>1, AddsOnce
<1> QED BY <1>2, <1>3

LEMMA SumEmpty == ASSUME NEW F PROVE SumOf(F, {}) = 0
<1>1. IntsOn(F, {}) /\ IsFiniteSet({})
  BY FS_EmptySet DEF IntsOn
<1>2. PICK g : StepsBy(F, {}, g) /\ \A T \in SUBSET {} : SumOf(F, T) = g[T]
  BY <1>1, SumSteps
<1>3. g[{}] = 0
  BY <1>2 DEF StepsBy
<1> QED BY <1>2, <1>3

LEMMA SumInt ==
  ASSUME NEW S, IsFiniteSet(S), NEW F, IntsOn(F, S)
  PROVE  SumOf(F, S) \in Int
<1>1. PICK g : StepsBy(F, S, g) /\ \A T \in SUBSET S : SumOf(F, T) = g[T]
  BY SumSteps
<1>2. g \in [SUBSET S -> Int]
  BY <1>1 DEF StepsBy
<1> QED BY <1>1, <1>2

LEMMA SumJoin ==
  ASSUME NEW S, IsFiniteSet(S), NEW x, x \notin S, NEW F, IntsOn(F, S \cup {x})
  PROVE  SumOf(F, S \cup {x}) = SumOf(F, S) + F[x]
<1> DEFINE all == S \cup {x}
<1>0. IsFiniteSet(all)
  BY FS_AddElement
<1>1. PICK g : StepsBy(F, all, g) /\ \A T \in SUBSET all : SumOf(F, T) = g[T]
  BY <1>0, SumSteps
<1>2. all \in SUBSET all /\ S \in SUBSET all /\ x \in all /\ all \ {x} = S /\ F[x] \in Int
  BY DEF IntsOn
<1>3. SumOf(F, all) = g[all] /\ SumOf(F, S) = g[S]
  BY <1>1, <1>2
<1>4. g[all] = F[x] + g[all \ {x}] /\ g[S] \in Int
  BY <1>1, <1>2 DEF StepsBy
<1>5. SumOf(F, all) = SumOf(F, S) + F[x]
  <2> DEFINE a == g[S] b == F[x]
  <2>1. a \in Int /\ b \in Int /\ g[all] = b + a
    BY <1>2, <1>4
  <2> HIDE DEF a, b
  <2>2. g[all] = a + b
    BY <2>1
  <2> QED BY <1>3, <2>2 DEF a, b
<1> QED BY <1>5

LEMMA SumLess ==
  ASSUME NEW S, IsFiniteSet(S), NEW F, NEW G, IntsOn(F, S), IntsOn(G, S), \A x \in S : F[x] <= G[x]
  PROVE  SumOf(F, S) <= SumOf(G, S)
<1> DEFINE Good == {s \in SUBSET S : SumOf(F, s) <= SumOf(G, s)}
<1>1. {} \in Good /\ Good \in SUBSET SUBSET S
  BY SumEmpty
<1>2. ASSUME NEW s \in Good, NEW x \in S \ s PROVE s \cup {x} \in Good
  <2>1. /\ IsFiniteSet(s) /\ IntsOn(F, s) /\ IntsOn(G, s)
        /\ IntsOn(F, s \cup {x}) /\ IntsOn(G, s \cup {x}) /\ F[x] \in Int /\ G[x] \in Int
    BY FS_Subset DEF IntsOn
  <2>2. SumOf(F, s \cup {x}) = SumOf(F, s) + F[x] /\ SumOf(G, s \cup {x}) = SumOf(G, s) + G[x]
    BY <2>1, SumJoin
  <2>3. SumOf(F, s) \in Int /\ SumOf(G, s) \in Int
    BY <2>1, SumInt
  <2>4. SumOf(F, s) + F[x] <= SumOf(G, s) + G[x]
    BY <2>1, <2>3
  <2> QED BY <2>2, <2>4
<1> HIDE DEF Good
<1>3. Good = SUBSET S
  BY <1>1, <1>2, AllSubsets
<1> QED BY <1>3 DEF Good

LEMMA SumSame ==
  ASSUME NEW S, IsFiniteSet(S), NEW F, NEW G, IntsOn(F, S), \A x \in S : F[x] = G[x]
  PROVE  SumOf(F, S) = SumOf(G, S)
<1>1. IntsOn(G, S)
  BY DEF IntsOn
<1>2. (\A x \in S : F[x] <= G[x]) /\ (\A x \in S : G[x] <= F[x])
  BY DEF IntsOn
<1>3. SumOf(F, S) <= SumOf(G, S) /\ SumOf(G, S) <= SumOf(F, S)
  BY <1>1, <1>2, SumLess
<1>4. SumOf(F, S) \in Int /\ SumOf(G, S) \in Int
  BY <1>1, SumInt
<1> QED BY <1>3, <1>4

LEMMA SumOnes ==
  ASSUME NEW S, IsFiniteSet(S), NEW F, NEW k \in Int, \A x \in S : F[x] = k
  PROVE  SumOf(F, S) = k * Cardinality(S)
<1> DEFINE Good == {s \in SUBSET S : SumOf(F, s) = k * Cardinality(s)}
<1>1. {} \in Good /\ Good \in SUBSET SUBSET S
  BY SumEmpty, FS_EmptySet
<1>2. ASSUME NEW s \in Good, NEW x \in S \ s PROVE s \cup {x} \in Good
  <2>1. IsFiniteSet(s) /\ IntsOn(F, s \cup {x}) /\ Cardinality(s) \in Nat
    BY FS_Subset, FS_CardinalityType DEF IntsOn
  <2>2. SumOf(F, s \cup {x}) = SumOf(F, s) + F[x] /\ F[x] = k
    BY <2>1, SumJoin
  <2>3. Cardinality(s \cup {x}) = Cardinality(s) + 1
    BY <2>1, FS_AddElement
  <2>4. k * (Cardinality(s) + 1) = k * Cardinality(s) + k
    BY <2>1
  <2>5. SumOf(F, s) = k * Cardinality(s) /\ s \cup {x} \in SUBSET S
    OBVIOUS
  <2> HIDE DEF Good
  <2>6. SumOf(F, s \cup {x}) = k * Cardinality(s \cup {x})
    BY <2>2, <2>3, <2>4, <2>5
  <2> QED BY <2>5, <2>6 DEF Good
<1> HIDE DEF Good
<1>3. Good = SUBSET S
  BY <1>1, <1>2, AllSubsets
<1> QED BY <1>3 DEF Good

LEMMA SumTimes ==
  ASSUME NEW S, IsFiniteSet(S), NEW F, NEW G, NEW k \in Int, IntsOn(F, S), \A x \in S : G[x] = k * F[x]
  PROVE  SumOf(G, S) = k * SumOf(F, S)
<1> DEFINE Good == {s \in SUBSET S : SumOf(G, s) = k * SumOf(F, s)}
<1>1. {} \in Good /\ Good \in SUBSET SUBSET S
  BY SumEmpty
<1>2. ASSUME NEW s \in Good, NEW x \in S \ s PROVE s \cup {x} \in Good
  <2>1. IsFiniteSet(s) /\ IntsOn(F, s) /\ IntsOn(F, s \cup {x}) /\ IntsOn(G, s \cup {x}) /\ F[x] \in Int
    BY FS_Subset DEF IntsOn
  <2>2. SumOf(F, s \cup {x}) = SumOf(F, s) + F[x]
    BY <2>1, SumJoin
  <2>3. SumOf(G, s \cup {x}) = SumOf(G, s) + G[x] /\ G[x] = k * F[x]
    BY <2>1, SumJoin
  <2>4. SumOf(F, s) \in Int
    BY <2>1, SumInt
  <2>5. k * (SumOf(F, s) + F[x]) = k * SumOf(F, s) + k * F[x]
    BY <2>1, <2>4
  <2>6. SumOf(G, s) = k * SumOf(F, s) /\ s \cup {x} \in SUBSET S
    OBVIOUS
  <2> HIDE DEF Good
  <2>7. SumOf(G, s \cup {x}) = k * SumOf(F, s \cup {x})
    BY <2>2, <2>3, <2>5, <2>6
  <2> QED BY <2>6, <2>7 DEF Good
<1> HIDE DEF Good
<1>3. Good = SUBSET S
  BY <1>1, <1>2, AllSubsets
<1> QED BY <1>3 DEF Good

LEMMA SumUnion ==
  ASSUME NEW S, IsFiniteSet(S), NEW T, IsFiniteSet(T), S \cap T = {}, NEW F, IntsOn(F, S), IntsOn(F, T)
  PROVE  SumOf(F, S \cup T) = SumOf(F, S) + SumOf(F, T)
<1> DEFINE Good == {t \in SUBSET T : SumOf(F, S \cup t) = SumOf(F, S) + SumOf(F, t)}
<1>0. SumOf(F, S) \in Int
  BY SumInt
<1>1. {} \in Good /\ Good \in SUBSET SUBSET T
  <2>1. S \cup {} = S
    OBVIOUS
  <2> QED BY <1>0, <2>1, SumEmpty
<1>2. ASSUME NEW t \in Good, NEW x \in T \ t PROVE t \cup {x} \in Good
  <2>1. /\ IsFiniteSet(t) /\ IsFiniteSet(S \cup t) /\ IntsOn(F, t) /\ IntsOn(F, t \cup {x})
        /\ IntsOn(F, (S \cup t) \cup {x}) /\ F[x] \in Int /\ x \notin S \cup t
    BY FS_Subset, FS_Union DEF IntsOn
  <2>2. SumOf(F, t \cup {x}) = SumOf(F, t) + F[x]
    BY <2>1, SumJoin
  <2>3. SumOf(F, (S \cup t) \cup {x}) = SumOf(F, S \cup t) + F[x]
    BY <2>1, SumJoin
  <2>4. SumOf(F, t) \in Int
    BY <2>1, SumInt
  <2>5. SumOf(F, S \cup t) = SumOf(F, S) + SumOf(F, t) /\ t \cup {x} \in SUBSET T
    OBVIOUS
  <2>6. S \cup (t \cup {x}) = (S \cup t) \cup {x}
    OBVIOUS
  <2> HIDE DEF Good
  <2>7. SumOf(F, S \cup (t \cup {x})) = SumOf(F, S) + SumOf(F, t \cup {x})
    <3> DEFINE a == SumOf(F, S) b == SumOf(F, t) c == F[x]
    <3>1. a \in Int /\ b \in Int /\ c \in Int
      BY <1>0, <2>1, <2>4
    <3>2. SumOf(F, S \cup (t \cup {x})) = (a + b) + c /\ SumOf(F, t \cup {x}) = b + c
      BY <2>2, <2>3, <2>5, <2>6
    <3> HIDE DEF a, b, c
    <3>3. SumOf(F, S \cup (t \cup {x})) = a + SumOf(F, t \cup {x})
      BY <3>1, <3>2
    <3> QED BY <3>3 DEF a
  <2> QED BY <2>5, <2>7 DEF Good
<1> HIDE DEF Good
<1>3. Good = SUBSET T
  BY <1>1, <1>2, AllSubsets
<1> QED BY <1>3 DEF Good

PartedBy(P, K) == \A j, k \in K : j # k => P[j] \cap P[k] = {}
WholeOf(P, K) == UNION {P[k] : k \in K}
OneToOne(f, S) == \A x, y \in S : f[x] = f[y] => x = y
ImageOf(f, S) == {f[x] : x \in S}

\* A sum over parts is the sum over the whole.
LEMMA SumParts ==
  ASSUME NEW K, IsFiniteSet(K), NEW P, NEW F, NEW G,
         \A k \in K : IsFiniteSet(P[k]) /\ IntsOn(F, P[k]) /\ G[k] = SumOf(F, P[k]),
         PartedBy(P, K)
  PROVE  /\ IsFiniteSet(WholeOf(P, K))
         /\ SumOf(G, K) = SumOf(F, WholeOf(P, K))
<1> DEFINE Whole(s) == WholeOf(P, s)
           Good == {s \in SUBSET K : IsFiniteSet(Whole(s)) /\ SumOf(G, s) = SumOf(F, Whole(s))}
<1>0. IntsOn(G, K)
  <2> SUFFICES ASSUME NEW k \in K PROVE G[k] \in Int
    BY DEF IntsOn
  <2> QED BY SumInt
<1>1. {} \in Good /\ Good \in SUBSET SUBSET K
  <2>1. Whole({}) = {}
    BY DEF WholeOf
  <2> QED BY <2>1, SumEmpty, FS_EmptySet
<1>2. ASSUME NEW s \in Good, NEW x \in K \ s PROVE s \cup {x} \in Good
  <2>1. /\ IsFiniteSet(Whole(s)) /\ SumOf(G, s) = SumOf(F, Whole(s))
        /\ s \in SUBSET K /\ s \cup {x} \in SUBSET K
    OBVIOUS
  <2>2. Whole(s \cup {x}) = Whole(s) \cup P[x]
    BY DEF WholeOf
  <2>3. Whole(s) \cap P[x] = {}
    BY DEF WholeOf, PartedBy
  <2>4. IntsOn(F, Whole(s)) /\ IntsOn(F, P[x]) /\ IsFiniteSet(P[x])
    BY DEF IntsOn, WholeOf
  <2>5. IsFiniteSet(s) /\ IntsOn(G, s \cup {x})
    BY <1>0, <2>1, FS_Subset DEF IntsOn
  <2> HIDE DEF Good, Whole
  <2>6. SumOf(G, s \cup {x}) = SumOf(G, s) + G[x]
    BY <2>5, SumJoin
  <2>7. SumOf(F, Whole(s) \cup P[x]) = SumOf(F, Whole(s)) + SumOf(F, P[x])
    BY <2>1, <2>3, <2>4, SumUnion
  <2>8. SumOf(G, s \cup {x}) = SumOf(F, Whole(s \cup {x}))
    BY <2>1, <2>2, <2>6, <2>7
  <2>9. IsFiniteSet(Whole(s \cup {x}))
    <3>1. IsFiniteSet(Whole(s) \cup P[x])
      BY <2>1, <2>4, FS_Union
    <3> QED BY <2>2, <3>1
  <2> QED BY <2>1, <2>8, <2>9 DEF Good
<1> HIDE DEF Good
<1>3. Good = SUBSET K
  BY <1>1, <1>2, AllSubsets
<1> QED BY <1>3 DEF Good

\* Nothing changes when the elements get other names.
LEMMA SumImage ==
  ASSUME NEW S, IsFiniteSet(S), NEW f, NEW F, NEW G, IntsOn(G, S),
         \A x \in S : G[x] = F[f[x]], OneToOne(f, S)
  PROVE  /\ IsFiniteSet(ImageOf(f, S)) /\ IntsOn(F, ImageOf(f, S))
         /\ SumOf(F, ImageOf(f, S)) = SumOf(G, S)
<1> DEFINE Of(s) == ImageOf(f, s)
           Good == {s \in SUBSET S : IsFiniteSet(Of(s)) /\ SumOf(F, Of(s)) = SumOf(G, s)}
<1>0. IntsOn(F, Of(S))
  BY DEF IntsOn, ImageOf
<1>1. {} \in Good /\ Good \in SUBSET SUBSET S
  <2>1. Of({}) = {}
    BY DEF ImageOf
  <2> QED BY <2>1, SumEmpty, FS_EmptySet
<1>2. ASSUME NEW s \in Good, NEW x \in S \ s PROVE s \cup {x} \in Good
  <2>1. IsFiniteSet(Of(s)) /\ SumOf(F, Of(s)) = SumOf(G, s) /\ s \in SUBSET S /\ s \cup {x} \in SUBSET S
    OBVIOUS
  <2> DEFINE y == f[x]
  <2>2. Of(s \cup {x}) = Of(s) \cup {y} /\ y \notin Of(s) /\ G[x] = F[y]
    BY DEF ImageOf, OneToOne
  <2>3. IntsOn(F, Of(s) \cup {y}) /\ IntsOn(G, s \cup {x}) /\ IsFiniteSet(s) /\ IsFiniteSet(Of(s))
    BY <2>1, FS_Subset DEF IntsOn, ImageOf
  <2> HIDE DEF Good, Of, y
  <2>4. SumOf(F, Of(s) \cup {y}) = SumOf(F, Of(s)) + F[y]
    <3> DEFINE R == Of(s)
    <3>1. y \notin R /\ IsFiniteSet(R) /\ IntsOn(F, R \cup {y})
      BY <2>2, <2>3
    <3> HIDE DEF R
    <3>2. SumOf(F, R \cup {y}) = SumOf(F, R) + F[y]
      BY <3>1, SumJoin
    <3> QED BY <3>2 DEF R
  <2>5. SumOf(G, s \cup {x}) = SumOf(G, s) + G[x]
    BY <2>3, SumJoin
  <2>6. IsFiniteSet(Of(s \cup {x}))
    <3>1. IsFiniteSet(Of(s) \cup {y})
      BY <2>1, FS_AddElement
    <3> QED BY <2>2, <3>1
  <2> QED BY <2>1, <2>2, <2>4, <2>5, <2>6 DEF Good
<1> HIDE DEF Good
<1>3. Good = SUBSET S
  BY <1>1, <1>2, AllSubsets
<1> QED BY <1>0, <1>3 DEF Good

\* A sum of natural numbers is one, and no less than any of them.
LEMMA SumNat ==
  ASSUME NEW S, IsFiniteSet(S), NEW F, \A x \in S : F[x] \in Nat
  PROVE  SumOf(F, S) \in Nat /\ \A x \in S : F[x] <= SumOf(F, S)
<1>1. \A s \in SUBSET S : IsFiniteSet(s) /\ IntsOn(F, s) /\ SumOf(F, s) \in Nat
  <2> SUFFICES ASSUME NEW s \in SUBSET S PROVE IsFiniteSet(s) /\ IntsOn(F, s) /\ SumOf(F, s) \in Nat
    OBVIOUS
  <2> DEFINE Z == [x \in s |-> 0]
  <2>1. IsFiniteSet(s) /\ IntsOn(F, s) /\ IntsOn(Z, s) /\ \A x \in s : Z[x] <= F[x]
    BY FS_Subset DEF IntsOn
  <2>2. \A x \in s : Z[x] = 0
    OBVIOUS
  <2> HIDE DEF Z
  <2>3. SumOf(Z, s) <= SumOf(F, s)
    BY <2>1, SumLess
  <2>4. SumOf(Z, s) = 0 * Cardinality(s)
    BY <2>1, <2>2, SumOnes
  <2>5. SumOf(F, s) \in Int /\ Cardinality(s) \in Nat
    BY <2>1, SumInt, FS_CardinalityType
  <2> QED BY <2>1, <2>3, <2>4, <2>5
<1>2. ASSUME NEW x \in S PROVE F[x] <= SumOf(F, S)
  <2> DEFINE s == S \ {x}
  <2>1. s \in SUBSET S /\ s \cup {x} = S /\ x \notin s /\ S \in SUBSET S
    OBVIOUS
  <2>2. IsFiniteSet(s) /\ IntsOn(F, S) /\ SumOf(F, s) \in Nat
    BY <1>1, <2>1
  <2> HIDE DEF s
  <2>3. SumOf(F, s \cup {x}) = SumOf(F, s) + F[x]
    BY <2>1, <2>2, SumJoin
  <2>4. SumOf(F, S) = SumOf(F, s) + F[x] /\ F[x] \in Nat
    BY <2>1, <2>3
  <2> QED BY <2>2, <2>4
<1>3. SumOf(F, S) \in Nat
  BY <1>1
<1> QED BY <1>2, <1>3

LEMMA SumPlus ==
  ASSUME NEW S, IsFiniteSet(S), NEW F, NEW G, NEW H, IntsOn(F, S), IntsOn(G, S), \A x \in S : H[x] = F[x] + G[x]
  PROVE  SumOf(H, S) = SumOf(F, S) + SumOf(G, S)
<1> DEFINE Good == {s \in SUBSET S : SumOf(H, s) = SumOf(F, s) + SumOf(G, s)}
<1>1. {} \in Good /\ Good \in SUBSET SUBSET S
  BY SumEmpty
<1>2. ASSUME NEW s \in Good, NEW x \in S \ s PROVE s \cup {x} \in Good
  <2>1. /\ IsFiniteSet(s) /\ IntsOn(F, s) /\ IntsOn(G, s) /\ F[x] \in Int /\ G[x] \in Int
        /\ IntsOn(F, s \cup {x}) /\ IntsOn(G, s \cup {x}) /\ IntsOn(H, s \cup {x})
    BY FS_Subset DEF IntsOn
  <2>2. /\ SumOf(F, s \cup {x}) = SumOf(F, s) + F[x] /\ SumOf(G, s \cup {x}) = SumOf(G, s) + G[x]
        /\ SumOf(H, s \cup {x}) = SumOf(H, s) + H[x] /\ H[x] = F[x] + G[x]
    BY <2>1, SumJoin
  <2>3. SumOf(F, s) \in Int /\ SumOf(G, s) \in Int
    BY <2>1, SumInt
  <2>4. SumOf(H, s) = SumOf(F, s) + SumOf(G, s) /\ s \cup {x} \in SUBSET S
    OBVIOUS
  <2> HIDE DEF Good
  <2>5. SumOf(H, s \cup {x}) = SumOf(F, s \cup {x}) + SumOf(G, s \cup {x})
    <3> DEFINE a == SumOf(F, s) b == SumOf(G, s) c == F[x] d == G[x]
    <3>1. a \in Int /\ b \in Int /\ c \in Int /\ d \in Int
      BY <2>1, <2>3
    <3>2. /\ SumOf(F, s \cup {x}) = a + c /\ SumOf(G, s \cup {x}) = b + d
          /\ SumOf(H, s \cup {x}) = (a + b) + (c + d)
      BY <2>2, <2>4
    <3> HIDE DEF a, b, c, d
    <3> QED BY <3>1, <3>2
  <2> QED BY <2>4, <2>5 DEF Good
<1> HIDE DEF Good
<1>3. Good = SUBSET S
  BY <1>1, <1>2, AllSubsets
<1> QED BY <1>3 DEF Good

\* As many as before, when the elements get other names.
LEMMA SameMany ==
  ASSUME NEW S, IsFiniteSet(S), NEW f, OneToOne(f, S)
  PROVE  IsFiniteSet(ImageOf(f, S)) /\ Cardinality(ImageOf(f, S)) = Cardinality(S)
<1> DEFINE R == ImageOf(f, S)
           F == [y \in R |-> 1]
           G == [x \in S |-> 1]
<1>1. (\A x \in S : G[x] = F[f[x]] /\ G[x] = 1) /\ (\A y \in R : F[y] = 1) /\ IntsOn(G, S)
  BY DEF IntsOn, ImageOf
<1> HIDE DEF F, G
<1>2. IsFiniteSet(R) /\ SumOf(F, R) = SumOf(G, S)
  BY <1>1, SumImage
<1>3. SumOf(G, S) = 1 * Cardinality(S) /\ SumOf(F, R) = 1 * Cardinality(R)
  <2> HIDE DEF R
  <2>1. SumOf(G, S) = 1 * Cardinality(S)
    BY <1>1, SumOnes
  <2>2. SumOf(F, R) = 1 * Cardinality(R)
    BY <1>1, <1>2, SumOnes
  <2> QED BY <2>1, <2>2
<1>4. Cardinality(S) \in Nat /\ Cardinality(R) \in Nat
  BY <1>2, FS_CardinalityType
<1> QED BY <1>2, <1>3, <1>4

\* The size of a whole is the sum of the sizes of its parts.
LEMMA SizeOfParts ==
  ASSUME NEW K, IsFiniteSet(K), NEW P, NEW G,
         \A k \in K : IsFiniteSet(P[k]) /\ G[k] = Cardinality(P[k]),
         PartedBy(P, K)
  PROVE  /\ IsFiniteSet(WholeOf(P, K))
         /\ SumOf(G, K) = Cardinality(WholeOf(P, K))
<1> DEFINE U == WholeOf(P, K)
           F == [x \in U |-> 1]
<1>1. ASSUME NEW k \in K PROVE IntsOn(F, P[k]) /\ G[k] = SumOf(F, P[k])
  <2>1. \A x \in P[k] : F[x] = 1
    BY DEF WholeOf
  <2> HIDE DEF F
  <2>2. SumOf(F, P[k]) = 1 * Cardinality(P[k]) /\ Cardinality(P[k]) \in Nat
    BY <2>1, SumOnes, FS_CardinalityType
  <2> QED BY <2>1, <2>2 DEF IntsOn
<1>2. \A x \in U : F[x] = 1
  OBVIOUS
<1> HIDE DEF F
<1>3. IsFiniteSet(U) /\ SumOf(G, K) = SumOf(F, U)
  BY <1>1, SumParts
<1> HIDE DEF U
<1>4. SumOf(F, U) = 1 * Cardinality(U) /\ Cardinality(U) \in Nat
  BY <1>2, <1>3, SumOnes, FS_CardinalityType
<1> QED BY <1>3, <1>4 DEF U

\* The same when each part has its row with what it comes to.
LEMMA SumRows ==
  ASSUME NEW K, IsFiniteSet(K), NEW P, NEW F, NEW f, OneToOne(f, K), NEW V,
         \A k \in K : IsFiniteSet(P[k]) /\ IntsOn(F, P[k]) /\ V[f[k]] = SumOf(F, P[k]),
         PartedBy(P, K)
  PROVE  /\ IsFiniteSet(ImageOf(f, K)) /\ IntsOn(V, ImageOf(f, K))
         /\ SumOf(V, ImageOf(f, K)) = SumOf(F, WholeOf(P, K))
<1> DEFINE G == [k \in K |-> SumOf(F, P[k])]
<1>1. \A k \in K : G[k] = SumOf(F, P[k]) /\ G[k] = V[f[k]] /\ G[k] \in Int
  BY SumInt
<1> HIDE DEF G
<1>2. SumOf(G, K) = SumOf(F, WholeOf(P, K))
  BY <1>1, SumParts
<1>3. IntsOn(G, K)
  BY <1>1 DEF IntsOn
<1>4. /\ IsFiniteSet(ImageOf(f, K)) /\ IntsOn(V, ImageOf(f, K))
      /\ SumOf(V, ImageOf(f, K)) = SumOf(G, K)
  BY <1>1, <1>3, SumImage
<1> QED BY <1>2, <1>4

\* The same of the size of the whole.
LEMMA CountRows ==
  ASSUME NEW K, IsFiniteSet(K), NEW P, NEW f, OneToOne(f, K), NEW V,
         \A k \in K : IsFiniteSet(P[k]) /\ V[f[k]] = Cardinality(P[k]),
         PartedBy(P, K)
  PROVE  /\ IsFiniteSet(ImageOf(f, K)) /\ IntsOn(V, ImageOf(f, K))
         /\ SumOf(V, ImageOf(f, K)) = Cardinality(WholeOf(P, K))
<1> DEFINE G == [k \in K |-> Cardinality(P[k])]
<1>1. \A k \in K : IsFiniteSet(P[k]) /\ G[k] = Cardinality(P[k]) /\ G[k] = V[f[k]] /\ G[k] \in Int
  BY FS_CardinalityType
<1> HIDE DEF G
<1>2. SumOf(G, K) = Cardinality(WholeOf(P, K))
  BY <1>1, SizeOfParts
<1>3. IntsOn(G, K)
  BY <1>1 DEF IntsOn
<1>4. /\ IsFiniteSet(ImageOf(f, K)) /\ IntsOn(V, ImageOf(f, K))
      /\ SumOf(V, ImageOf(f, K)) = SumOf(G, K)
  BY <1>1, <1>3, SumImage
<1> QED BY <1>2, <1>4

\* An image of a finite set is finite, and no larger.
LEMMA ImageFinite ==
  ASSUME NEW S, IsFiniteSet(S), NEW f
  PROVE  IsFiniteSet(ImageOf(f, S)) /\ Cardinality(ImageOf(f, S)) <= Cardinality(S)
<1> DEFINE R == ImageOf(f, S)
           g == [x \in S |-> f[x]]
<1>1. g \in Surjection(S, R)
  BY DEF Surjection, ImageOf
<1> HIDE DEF g, R
<1>2. IsFiniteSet(R) /\ Cardinality(R) <= Cardinality(S)
  BY <1>1, FS_Surjection
<1> QED BY <1>2 DEF R
=============================================================================
