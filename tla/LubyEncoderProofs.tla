-------------------------- MODULE LubyEncoderProofs --------------------------
(***************************************************************************)
(* Proofs about LubyEncoder for every image length, chunk size, redundancy *)
(* and generator of full period: what the recursive functions of the       *)
(* generator compute, and that the seeds of a ticket give the chunks the   *)
(* wallet hashed.  Inductions go over a set of numbers (InductionOnNat),   *)
(* since the induction rule itself would need an operator as parameter.    *)
(***************************************************************************)
EXTENDS LubyEncoder, FiniteSetTheorems, WellFoundedInduction, TLAPS

-----------------------------------------------------------------------------
(* A set of numbers that is not empty has a least element. *)
LEMMA LeastNumber ==
    ASSUME NEW T, T \subseteq Nat, T # {}
    PROVE  \E m \in T : \A n \in T : m <= n
<1>1. PICK m \in T : \A n \in T : ~(<<n, m>> \in OpToRel(<, Nat))
  <2>1. IsWellFoundedOn(OpToRel(<, Nat), Nat)
    BY NatLessThanWellFounded
  <2>2. QED
    BY <2>1, WFMin
<1>2. ASSUME NEW n \in T PROVE m <= n
  <2>1. ~(n < m)
    BY <1>1 DEF OpToRel
  <2>2. QED
    BY <2>1
<1>3. QED
  BY <1>2

(* Induction, as a statement about the set where the formula holds. *)
LEMMA InductionOnNat ==
    ASSUME NEW T, 0 \in T, \A n \in Nat : n \in T => n + 1 \in T
    PROVE  Nat \subseteq T
<1> SUFFICES ASSUME Nat \ T # {} PROVE FALSE
  OBVIOUS
<1>1. PICK m \in Nat \ T : \A n \in Nat \ T : m <= n
  BY LeastNumber
<1>2. m - 1 \in Nat /\ m - 1 \in T
  BY <1>1
<1>3. QED
  BY <1>1, <1>2

-----------------------------------------------------------------------------
(* Division with remainder. *)
LEMMA Division ==
    ASSUME NEW a \in Int, NEW b \in Nat \ {0}
    PROVE  /\ a \div b \in Int /\ a % b \in 0 .. b - 1
           /\ a = b * (a \div b) + (a % b)
OBVIOUS

(* A positive factor cannot make a number smaller. *)
LEMMA Multiple ==
    ASSUME NEW x \in Int, NEW b \in Nat \ {0}, x > 0
    PROVE  b * x >= b
<1>1. b * (x - 1) >= 0
  OBVIOUS
<1>2. b * x = b * (x - 1) + b
  OBVIOUS
<1>3. QED
  BY <1>1, <1>2

(* There is only one quotient and remainder. *)
LEMMA DivisionUnique ==
    ASSUME NEW b \in Nat \ {0}, NEW q \in Int, NEW r \in 0 .. b - 1
    PROVE  (b * q + r) \div b = q /\ (b * q + r) % b = r
<1> DEFINE a == b * q + r
           p == a \div b
           s == a % b
<1>1. a \in Int /\ p \in Int /\ s \in 0 .. b - 1 /\ a = b * p + s
  <2>1. a \in Int
    OBVIOUS
  <2>2. QED
    BY <2>1, Division
<1>2. b * q + r = b * p + s
  BY <1>1
<1> HIDE DEF p, s
<1>3. ~(p > q)
  <2> SUFFICES ASSUME p > q PROVE FALSE
    OBVIOUS
  <2>1. b * (p - q) >= b
    BY <1>1, Multiple
  <2>2. b * (p - q) = b * p - b * q
    BY <1>1
  <2>3. QED
    BY <1>1, <1>2, <2>1, <2>2
<1>4. ~(q > p)
  <2> SUFFICES ASSUME q > p PROVE FALSE
    OBVIOUS
  <2>1. b * (q - p) >= b
    BY <1>1, Multiple
  <2>2. b * (q - p) = b * q - b * p
    BY <1>1
  <2>3. QED
    BY <1>1, <1>2, <2>1, <2>2
<1>5. p = q /\ s = r
  BY <1>1, <1>2, <1>3, <1>4
<1>6. QED
  BY <1>5 DEF p, s

-----------------------------------------------------------------------------
(* A block holds at least one byte of the image. *)
LEMMA BlockSizePositive == BlockSize \in Nat \ {0}
BY EncoderAssumption DEF BlockSize

(***************************************************************************)
(* The blocks of an image that is not empty, and how many bytes decode     *)
(* puts together from them: the image's own length.                        *)
(***************************************************************************)
LEMMA BlocksOfImage ==
    ASSUME NEW length \in Nat \ {0}
    PROVE  /\ SourceCount(length) \in Nat \ {0}
           /\ (SourceCount(length) - 1) * BlockSize
                 + (IF length % BlockSize = 0 THEN BlockSize
                                              ELSE length % BlockSize) = length
<1> DEFINE b == BlockSize
           q == length \div b
           r == length % b
<1>1. b \in Nat \ {0}
  BY BlockSizePositive
<1>2. q \in Int /\ r \in 0 .. b - 1 /\ length = b * q + r
  BY <1>1, Division
<1>3. q >= 0
  <2> SUFFICES ASSUME q < 0 PROVE FALSE
    BY <1>2
  <2>1. b * (-q) >= b
    BY <1>1, <1>2, Multiple
  <2>2. b * (-q) = -(b * q)
    BY <1>1, <1>2
  <2>3. QED
    BY <1>1, <1>2, <2>1, <2>2
<1>4. SourceCount(length) = (length + b - 1) \div b
  BY DEF SourceCount, CeilDiv
<1> HIDE DEF b, q, r
<1>5. CASE r = 0
  <2>1. length + b - 1 = b * q + (b - 1)
    BY <1>1, <1>2, <1>5
  <2>2. SourceCount(length) = q
    BY <1>1, <1>2, <1>4, <2>1, DivisionUnique
  <2>3. q # 0
    BY <1>1, <1>2, <1>5
  <2>4. (q - 1) * b + b = length
    BY <1>1, <1>2, <1>5
  <2>5. QED
    BY <1>2, <1>3, <1>5, <2>2, <2>3, <2>4 DEF b, r
<1>6. CASE r # 0
  <2>1. length + b - 1 = b * (q + 1) + (r - 1)
    BY <1>1, <1>2
  <2>2. SourceCount(length) = q + 1
    <3>1. q + 1 \in Int /\ r - 1 \in 0 .. b - 1
      BY <1>1, <1>2, <1>6
    <3>2. (b * (q + 1) + (r - 1)) \div b = q + 1
      BY <1>1, <3>1, DivisionUnique
    <3>3. QED
      BY <1>4, <2>1, <3>2
  <2>3. (q + 1 - 1) * b + r = length
    BY <1>1, <1>2
  <2>4. QED
    BY <1>2, <1>3, <1>6, <2>2, <2>3 DEF b, r
<1>7. QED
  BY <1>5, <1>6

(* How many chunks are generated is a number. *)
LEMMA ChunkCountType ==
    ASSUME NEW length \in Nat
    PROVE  ChunkCount(length) \in Nat
<1> DEFINE b == BlockSize
           a == Redundancy * length + b - 1
<1>1. b \in Nat \ {0}
  BY BlockSizePositive
<1>2. Redundancy * length \in Nat
  BY EncoderAssumption
<1>3. a \in Nat
  BY <1>1, <1>2
<1>4. a \div b \in Int /\ a % b \in 0 .. b - 1 /\ a = b * (a \div b) + (a % b)
  <2> HIDE DEF a, b
  <2>1. QED
    BY <1>1, <1>3, Division
<1>5. a \div b >= 0
  <2> DEFINE q == a \div b
  <2> SUFFICES ASSUME ~(q >= 0) PROVE FALSE
    OBVIOUS
  <2> HIDE DEF q, a, b
  <2>1. b * (-q) >= b
    BY <1>1, <1>4, Multiple DEF q
  <2>2. b * (-q) = -(b * q)
    BY <1>1, <1>4 DEF q
  <2>3. QED
    BY <1>1, <1>3, <1>4, <2>1, <2>2 DEF q
<1>6. QED
  BY <1>4, <1>5 DEF ChunkCount, CeilDiv

-----------------------------------------------------------------------------
(* The states of the generator exist up to any number of steps. *)
LEMMA StatesUpTo ==
    ASSUME NEW seed \in Nat, NEW n \in Nat
    PROVE  \E f : f = [i \in 0 .. n |->
                          IF i = 0 THEN seed ELSE NextState(f[i - 1])]
<1> DEFINE F(f, m) == f = [i \in 0 .. m |->
                             IF i = 0 THEN seed ELSE NextState(f[i - 1])]
           T == {m \in Nat : \E f : F(f, m)}
<1>1. 0 \in T
  <2>1. F([i \in 0 .. 0 |-> seed], 0)
    OBVIOUS
  <2>2. QED
    BY <2>1, Zenon
<1>2. ASSUME NEW m \in Nat, m \in T PROVE m + 1 \in T
  <2>1. PICK f : F(f, m)
    BY <1>2
  <2> DEFINE g == [i \in 0 .. m + 1 |->
                     IF i = 0 THEN seed ELSE NextState(f[i - 1])]
  <2>2. \A i \in 0 .. m : g[i] = f[i]
    <3>1. \A i \in 0 .. m :
             f[i] = IF i = 0 THEN seed ELSE NextState(f[i - 1])
      BY <2>1, Zenon
    <3>2. QED
      BY <3>1
  <2>3. F(g, m + 1)
    <3>1. ASSUME NEW i \in 0 .. m + 1, i # 0 PROVE f[i - 1] = g[i - 1]
      <4> HIDE DEF g
      <4>1. QED
        BY <2>2, <3>1
    <3>2. QED
      BY <3>1
  <2>4. \E h : F(h, m + 1)
    BY <2>3, Zenon
  <2> HIDE DEF F
  <2>5. QED
    BY <2>4
<1> HIDE DEF T
<1>3. Nat \subseteq T
  BY <1>1, <1>2, InductionOnNat
<1>4. QED
  BY <1>3, Zenon DEF T

(* The recursion that defines the states has a solution: they are it. *)
LEMMA StatesDefined ==
    ASSUME NEW seed \in Nat
    PROVE  /\ DOMAIN States(seed) = 0 .. Modulus
           /\ States(seed)[0] = seed
           /\ \A i \in 1 .. Modulus :
                 States(seed)[i] = NextState(States(seed)[i - 1])
<1> DEFINE F(f) == f = [i \in 0 .. Modulus |->
                          IF i = 0 THEN seed ELSE NextState(f[i - 1])]
<1>1. Modulus \in Nat
  BY EncoderAssumption
<1>2. \E f : F(f)
  BY <1>1, StatesUpTo
<1>3. F(States(seed))
  <2>1. States(seed) = CHOOSE f : F(f)
    BY DEF States
  <2>2. QED
    BY <1>2, <2>1, Zenon
<1> DEFINE s == States(seed)
<1>4. s = [i \in 0 .. Modulus |->
             IF i = 0 THEN seed ELSE NextState(s[i - 1])]
  BY <1>3, Zenon
<1> HIDE DEF s
<1>5. DOMAIN s = 0 .. Modulus
  BY <1>4
<1>6. \A i \in 0 .. Modulus :
         s[i] = IF i = 0 THEN seed ELSE NextState(s[i - 1])
  BY <1>4, Zenon
<1>7. QED
  BY <1>1, <1>5, <1>6 DEF s

(* Every state after the seed is a residue of the modulus. *)
LEMMA StatesAreResidues ==
    ASSUME NEW seed \in Nat
    PROVE  \A i \in 1 .. Modulus : States(seed)[i] \in 0 .. Modulus - 1
<1> DEFINE T == {n \in Nat :
                   n \in 0 .. Modulus =>
                       /\ States(seed)[n] \in Nat
                       /\ n > 0 => States(seed)[n] \in 0 .. Modulus - 1}
<1>1. Modulus \in Nat \ {0} /\ Multiplier \in Nat
  BY EncoderAssumption
<1>2. 0 \in T
  BY StatesDefined
<1>3. ASSUME NEW n \in Nat, n \in T PROVE n + 1 \in T
  <2> SUFFICES ASSUME n + 1 \in 0 .. Modulus
               PROVE  States(seed)[n + 1] \in 0 .. Modulus - 1
    BY <1>1
  <2>1. States(seed)[n] \in Nat
    BY <1>1, <1>3
  <2>2. States(seed)[n + 1] = NextState(States(seed)[n])
    BY <1>1, StatesDefined
  <2>3. Multiplier * States(seed)[n] \in Int
    BY <1>1, <2>1
  <2>4. QED
    BY <1>1, <2>2, <2>3, Division DEF NextState
<1> HIDE DEF T
<1>4. Nat \subseteq T
  BY <1>2, <1>3, InductionOnNat
<1>5. QED
  BY <1>1, <1>4 DEF T

-----------------------------------------------------------------------------
(* The degree of a chunk is one of those the distribution is about. *)
LEMMA DegreeRange ==
    ASSUME NEW state, NEW k \in Nat \ {0}
    PROVE  Degree(state, k) \in 1 .. k
<1> DEFINE above == {d \in 1 .. k : Cdf[k][d] > state}
<1>1. CASE above = {}
  BY <1>1 DEF Degree
<1>2. CASE above # {}
  <2>1. \E d \in above : \A e \in above : d <= e
    <3>1. above \subseteq Nat
      OBVIOUS
    <3> HIDE DEF above
    <3>2. QED
      BY <1>2, <3>1, LeastNumber
  <2>2. Degree(state, k) = CHOOSE d \in above : \A e \in above : d <= e
    BY <1>2 DEF Degree
  <2>3. Degree(state, k) \in above
    <3> HIDE DEF above
    <3>1. QED
      BY <2>1, <2>2, Zenon
  <2>4. QED
    BY <2>3
<1>3. QED
  BY <1>1, <1>2

-----------------------------------------------------------------------------
(* Each draw adds at most one residue to the set. *)
LEMMA ResiduesGrow ==
    ASSUME NEW s, NEW k, NEW m \in Nat
    PROVE  /\ IsFiniteSet(Residues(s, k, m)) /\ Cardinality(Residues(s, k, m)) \in Nat
           /\ Cardinality(Residues(s, k, m + 1)) <= Cardinality(Residues(s, k, m)) + 1
           /\ m = 1 => Cardinality(Residues(s, k, m)) = 1
<1>1. ASSUME NEW n \in Nat PROVE IsFiniteSet(Residues(s, k, n))
  <2>1. IsFiniteSet(1 .. n)
    BY FS_Interval
  <2> DEFINE f == [i \in 1 .. n |-> s[1 + i] % k]
  <2>2. Residues(s, k, n) = {f[i] : i \in 1 .. n}
    BY DEF Residues
  <2>3. f \in Surjection(1 .. n, {f[i] : i \in 1 .. n})
    BY DEF Surjection
  <2> HIDE DEF f
  <2>4. QED
    BY <2>1, <2>2, <2>3, FS_Surjection
<1>2. IsFiniteSet(Residues(s, k, m)) /\ Cardinality(Residues(s, k, m)) \in Nat
  BY <1>1, FS_CardinalityType
<1>3. Residues(s, k, m + 1) = Residues(s, k, m) \cup {s[1 + (m + 1)] % k}
  BY DEF Residues
<1>4. Cardinality(Residues(s, k, m + 1)) <= Cardinality(Residues(s, k, m)) + 1
  BY <1>2, <1>3, FS_AddElement
<1>5. ASSUME m = 1 PROVE Cardinality(Residues(s, k, m)) = 1
  <2>1. Residues(s, k, m) = {s[1 + 1] % k}
    BY <1>5 DEF Residues
  <2>2. QED
    BY <2>1, FS_Singleton
<1>6. QED
  BY <1>2, <1>4, <1>5

(* The generator goes on from its first state as from a seed. *)
LEMMA StatesShift ==
    ASSUME NEW seed \in Nat
    PROVE  \A i \in 0 .. Modulus - 1 :
              States(seed)[1 + i] = States(States(seed)[1])[i]
<1> DEFINE s == States(seed)
           t == States(s[1])
           T == {n \in Nat : n \in 0 .. Modulus - 1 => s[1 + n] = t[n]}
<1>1. Modulus \in Nat \ {0} /\ s[1] \in Nat
  BY EncoderAssumption, StatesAreResidues
<1>2. /\ \A i \in 1 .. Modulus : s[i] = NextState(s[i - 1])
      /\ t[0] = s[1]
      /\ \A i \in 1 .. Modulus : t[i] = NextState(t[i - 1])
  BY <1>1, StatesDefined
<1> HIDE DEF s, t
<1>3. 0 \in T
  BY <1>2
<1>4. ASSUME NEW n \in Nat, n \in T PROVE n + 1 \in T
  <2> SUFFICES ASSUME n + 1 \in 0 .. Modulus - 1 PROVE s[1 + (n + 1)] = t[n + 1]
    OBVIOUS
  <2>1. s[1 + n] = t[n]
    BY <1>1, <1>4
  <2>2. s[1 + (n + 1)] = NextState(s[1 + n])
    <3>1. 1 + (n + 1) \in 1 .. Modulus /\ (1 + (n + 1)) - 1 = 1 + n
      BY <1>1
    <3>2. QED
      BY <1>2, <3>1
  <2>3. t[n + 1] = NextState(t[n])
    <3>1. n + 1 \in 1 .. Modulus /\ (n + 1) - 1 = n
      BY <1>1
    <3>2. QED
      BY <1>2, <3>1
  <2>4. QED
    BY <2>1, <2>2, <2>3
<1> HIDE DEF T
<1>5. Nat \subseteq T
  BY <1>3, <1>4, InductionOnNat
<1>6. QED
  BY <1>1, <1>5 DEF T, s, t

(* With a full period all residues come, so every degree is reached once. *)
LEMMA FullExists ==
    ASSUME NEW seed \in 1 .. Modulus - 1, NEW k \in 1 .. Modulus - 1
    PROVE  Full(States(seed), k) # {}
<1> DEFINE s == States(seed)
           d == Degree(s[1], k)
           size(m) == Cardinality(Residues(s, k, m))
           T == {m \in 1 .. Modulus - 1 : size(m) >= d}
<1>1. Modulus \in Nat /\ Modulus > 1
  BY EncoderAssumption
<1>2. d \in 1 .. k
  BY DegreeRange
<1>3. \A m \in Nat : /\ size(m) \in Nat
                     /\ size(m + 1) <= size(m) + 1
                     /\ m = 1 => size(m) = 1
  BY ResiduesGrow
<1> HIDE DEF size, d
<1>4. T # {}
  <2>1. s[1] \in 1 .. Modulus - 1
    BY <1>1, GeneratorAssumption
  <2>2. {States(s[1])[i] : i \in 1 .. Modulus - 1} = 1 .. Modulus - 1
    BY <2>1, GeneratorAssumption
  <2>3. \A i \in 1 .. Modulus - 1 : s[1 + i] = States(s[1])[i]
    BY <1>1, StatesShift
  <2>4. 0 .. k - 1 \subseteq Residues(s, k, Modulus - 1)
    <3> SUFFICES ASSUME NEW x \in 0 .. k - 1
                 PROVE  x \in Residues(s, k, Modulus - 1)
      OBVIOUS
    <3>1. PICK j \in 1 .. Modulus - 1 : j % k = x
      <4>1. (k * 1 + 0) % k = 0 /\ (k * 0 + x) % k = x
        BY DivisionUnique
      <4>2. k * 1 + 0 = k /\ k * 0 + x = x
        OBVIOUS
      <4>3. k % k = 0 /\ x % k = x
        BY <4>1, <4>2
      <4>4. CASE x = 0
        BY <4>3, <4>4
      <4>5. CASE x # 0
        <5>1. x \in 1 .. Modulus - 1
          BY <1>1, <4>5
        <5>2. QED
          BY <4>3, <5>1
      <4>6. QED
        BY <4>4, <4>5
    <3>2. PICK i \in 1 .. Modulus - 1 : j = States(s[1])[i]
      BY <2>2
    <3>3. s[1 + i] % k = x
      BY <2>3, <3>1, <3>2
    <3> HIDE DEF s
    <3>4. QED
      BY <3>3 DEF Residues
  <2>5. Cardinality(0 .. k - 1) = k /\ IsFiniteSet(Residues(s, k, Modulus - 1))
    <3>1. Modulus - 1 \in Nat /\ 0 \in Int /\ k - 1 \in Int
      BY <1>1
    <3>2. IsFiniteSet(Residues(s, k, Modulus - 1))
      BY <3>1, ResiduesGrow
    <3>3. Cardinality(0 .. k - 1) = k
      BY <3>1, FS_Interval
    <3>4. QED
      BY <3>2, <3>3
  <2>6. k <= size(Modulus - 1)
    BY <2>4, <2>5, FS_Subset DEF size
  <2>7. Modulus - 1 \in 1 .. Modulus - 1 /\ size(Modulus - 1) \in Nat
    BY <1>1, <1>3
  <2>8. size(Modulus - 1) >= d
    BY <1>2, <2>6, <2>7
  <2>9. QED
    BY <2>7, <2>8
<1>5. PICK m \in T : \A n \in T : m <= n
  <2>1. T \subseteq Nat
    OBVIOUS
  <2> HIDE DEF T
  <2>2. QED
    BY <1>4, <2>1, LeastNumber
<1>6. size(m) = d
  <2>1. CASE m = 1
    BY <1>2, <1>3, <1>5, <2>1
  <2>2. CASE m # 1
    <3>1. m - 1 \in 1 .. Modulus - 1 /\ m - 1 \notin T
      BY <1>1, <1>5, <2>2
    <3>2. size(m - 1) < d /\ size((m - 1) + 1) <= size(m - 1) + 1 /\ (m - 1) + 1 = m
      BY <1>1, <1>2, <1>3, <3>1
    <3>3. size(m) >= d /\ size(m) \in Nat /\ size(m - 1) \in Nat
      BY <1>1, <1>3, <1>5, <3>1
    <3>4. QED
      BY <1>2, <3>2, <3>3
  <2>3. QED
    BY <2>1, <2>2
<1>7. QED
  BY <1>5, <1>6 DEF Full, size, d

(***************************************************************************)
(* What a seed gives: get_src_blocks comes to an end with as many source   *)
(* blocks as the degree says, all of them blocks of the image, and leaves  *)
(* a state of the generator behind.                                        *)
(***************************************************************************)
THEOREM SeedSelectsDegree ==
    ASSUME NEW seed \in 1 .. Modulus - 1, NEW k \in 1 .. Modulus - 1
    PROVE  /\ Cardinality(Draw(seed, k).nodes) = Degree(States(seed)[1], k)
           /\ Draw(seed, k).nodes \in SUBSET (0 .. k - 1)
           /\ Draw(seed, k).next \in 0 .. Modulus - 1
<1> DEFINE s == States(seed)
           full == Full(s, k)
           draws == CHOOSE m \in full : \A l \in full : m <= l
<1>1. Modulus \in Nat \ {0} /\ seed \in Nat
  BY EncoderAssumption
<1>2. full # {} /\ full \subseteq 1 .. Modulus - 1
  <2>1. full # {}
    BY FullExists
  <2>2. QED
    BY <2>1 DEF Full
<1>3. draws \in full
  <2> HIDE DEF full
  <2>1. \E m \in full : \A l \in full : m <= l
    <3>1. full \subseteq Nat
      BY <1>1, <1>2
    <3>2. QED
      BY <1>2, <3>1, LeastNumber
  <2>2. QED
    BY <2>1, Zenon
<1>4. Draw(seed, k) = [seed |-> seed, nodes |-> Residues(s, k, draws), next |-> s[1 + draws]]
  BY DEF Draw
<1> HIDE DEF draws
<1>5. draws \in 1 .. Modulus - 1
  <2> HIDE DEF full
  <2>1. QED
    BY <1>2, <1>3
<1>6. Cardinality(Residues(s, k, draws)) = Degree(s[1], k)
  BY <1>3 DEF Full
<1>7. \A i \in 1 .. Modulus : s[i] \in 0 .. Modulus - 1
  BY <1>1, StatesAreResidues
<1> HIDE DEF s, full
<1>8. Residues(s, k, draws) \subseteq 0 .. k - 1
  <2> SUFFICES ASSUME NEW i \in 1 .. draws PROVE s[1 + i] % k \in 0 .. k - 1
    BY DEF Residues
  <2>1. s[1 + i] \in Int
    BY <1>1, <1>5, <1>7
  <2>2. k \in Nat \ {0}
    BY <1>1
  <2>3. QED
    BY <2>1, <2>2, Division
<1>9. s[1 + draws] \in 0 .. Modulus - 1
  BY <1>1, <1>5, <1>7
<1>10. QED
  BY <1>4, <1>6, <1>8, <1>9 DEF s

(* A draw remembers the seed it started from. *)
LEMMA DrawSeed ==
    \A seed, k : Draw(seed, k).seed = seed
BY DEF Draw

-----------------------------------------------------------------------------
(* f holds the first n draws of encode. *)
Draws(f, first, k, n) ==
    f = [i \in 1 .. n |-> Draw(IF i = 1 THEN first ELSE f[i - 1].next, k)]

(* They exist for any number of chunks. *)
LEMMA DrawsUpTo ==
    ASSUME NEW first, NEW k, NEW n \in Nat
    PROVE  \E f : Draws(f, first, k, n)
<1> DEFINE F(f, m) == f = [i \in 1 .. m |->
                             Draw(IF i = 1 THEN first ELSE f[i - 1].next, k)]
           T == {m \in Nat : \E f : F(f, m)}
<1>1. 0 \in T
  <2>1. F([i \in 1 .. 0 |-> first], 0)
    OBVIOUS
  <2>2. \E f : F(f, 0)
    BY <2>1, Zenon
  <2> HIDE DEF F
  <2>3. QED
    BY <2>2
<1>2. ASSUME NEW m \in Nat, m \in T PROVE m + 1 \in T
  <2>1. PICK f : F(f, m)
    BY <1>2
  <2> DEFINE g == [i \in 1 .. m + 1 |->
                     Draw(IF i = 1 THEN first ELSE f[i - 1].next, k)]
  <2>2. \A i \in 1 .. m : g[i] = f[i]
    <3>1. \A i \in 1 .. m :
             f[i] = Draw(IF i = 1 THEN first ELSE f[i - 1].next, k)
      BY <2>1, Zenon
    <3>2. QED
      BY <3>1
  <2>3. F(g, m + 1)
    <3>1. ASSUME NEW i \in 1 .. m + 1, i # 1 PROVE f[i - 1] = g[i - 1]
      <4> HIDE DEF g
      <4>1. QED
        BY <2>2, <3>1
    <3>2. QED
      BY <3>1
  <2>4. \E h : F(h, m + 1)
    BY <2>3, Zenon
  <2> HIDE DEF F
  <2>5. QED
    BY <2>4
<1> HIDE DEF T
<1>3. Nat \subseteq T
  BY <1>1, <1>2, InductionOnNat
<1>4. QED
  BY <1>3, Zenon DEF T, Draws

(* encode without seeds: each draw starts where the one before ended. *)
LEMMA NewDrawsDefined ==
    ASSUME NEW length \in Nat, NEW first
    PROVE  /\ DOMAIN NewDraws(length, first) = 1 .. ChunkCount(length)
           /\ \A i \in 1 .. ChunkCount(length) :
                 NewDraws(length, first)[i] =
                     Draw(IF i = 1 THEN first ELSE NewDraws(length, first)[i - 1].next,
                          SourceCount(length))
<1> DEFINE k == SourceCount(length)
           n == ChunkCount(length)
           F(f) == Draws(f, first, k, n)
           d == NewDraws(length, first)
<1>1. \E f : F(f)
  <2>1. n \in Nat
    BY ChunkCountType
  <2> HIDE DEF n, k
  <2>2. QED
    BY <2>1, DrawsUpTo
<1>2. d = CHOOSE f : F(f)
  BY DEF NewDraws, Draws
<1>3. F(d)
  BY <1>1, <1>2, Zenon
<1> HIDE DEF d
<1>4. DOMAIN d = 1 .. n
  BY <1>3, Zenon DEF Draws
<1>5. \A i \in 1 .. n : d[i] = Draw(IF i = 1 THEN first ELSE d[i - 1].next, k)
  BY <1>3, Zenon DEF Draws
<1>6. QED
  BY <1>4, <1>5 DEF d

(***************************************************************************)
(* encode with seeds none of which is zero: each draw starts from its own  *)
(* seed, whatever the draws before it left.                                *)
(***************************************************************************)
LEMMA SeededDrawsDefined ==
    ASSUME NEW length \in Nat, NEW seeds,
           \A i \in 1 .. ChunkCount(length) : seeds[i] # 0
    PROVE  SeededDraws(length, seeds) =
              [i \in 1 .. ChunkCount(length) |-> Draw(seeds[i], SourceCount(length))]
<1> DEFINE k == SourceCount(length)
           n == ChunkCount(length)
           G(f) == [i \in 1 .. n |->
                      Draw(IF i = 1 THEN seeds[1] ELSE SeedOr(seeds[i], f[i - 1].next), k)]
           d == [i \in 1 .. n |-> Draw(seeds[i], k)]
<1>1. \A f : G(f) = d
  BY DEF SeedOr
<1>2. SeededDraws(length, seeds) = CHOOSE f : f = G(f)
  BY DEF SeededDraws
<1> HIDE DEF G, d
<1>3. \E f : f = G(f)
  BY <1>1, Zenon
<1>4. SeededDraws(length, seeds) = G(SeededDraws(length, seeds))
  BY <1>2, <1>3, Zenon
<1>5. QED
  BY <1>1, <1>4 DEF d

-----------------------------------------------------------------------------
(* The chunks of encode, one by one. *)
LEMMA NewChunks ==
    ASSUME NEW length \in Nat, NEW first
    PROVE  /\ EncodeNew(length, first) =
                 [i \in 1 .. ChunkCount(length) |-> EncodeNew(length, first)[i]]
           /\ DOMAIN EncodeNew(length, first) = 1 .. ChunkCount(length)
           /\ Len(EncodeNew(length, first)) = ChunkCount(length)
           /\ \A i \in 1 .. ChunkCount(length) :
                 /\ EncodeNew(length, first)[i] = Block(length, NewDraws(length, first)[i])
                 /\ EncodeNew(length, first)[i].length = length
                 /\ EncodeNew(length, first)[i].seed = NewDraws(length, first)[i].seed
                 /\ EncodeNew(length, first)[i].nodes = NewDraws(length, first)[i].nodes
<1> DEFINE n == ChunkCount(length)
           d == NewDraws(length, first)
           c == EncodeNew(length, first)
<1>1. n \in Nat
  BY ChunkCountType
<1>2. c = [i \in 1 .. n |-> Block(length, d[i])]
  BY DEF EncodeNew
<1> HIDE DEF n, d, c
<1>3. c = [i \in 1 .. n |-> c[i]] /\ DOMAIN c = 1 .. n /\ Len(c) = n
  BY <1>1, <1>2
<1>4. \A i \in 1 .. n : /\ c[i] = Block(length, d[i])
                        /\ c[i].length = length
                        /\ c[i].seed = d[i].seed
                        /\ c[i].nodes = d[i].nodes
  BY <1>2 DEF Block
<1>5. QED
  BY <1>3, <1>4 DEF n, d, c

(* Each chunk's draw is the one its seed gives. *)
LEMMA DrawsBySeed ==
    ASSUME NEW length \in Nat, NEW first
    PROVE  /\ \A i \in 1 .. ChunkCount(length) :
                 NewDraws(length, first)[i] =
                     Draw(EncodeNew(length, first)[i].seed, SourceCount(length))
           /\ 1 \in 1 .. ChunkCount(length) => EncodeNew(length, first)[1].seed = first
           /\ \A i \in 2 .. ChunkCount(length) :
                 EncodeNew(length, first)[i].seed = NewDraws(length, first)[i - 1].next
<1> DEFINE n == ChunkCount(length)
           k == SourceCount(length)
           d == NewDraws(length, first)
           c == EncodeNew(length, first)
           start(i) == IF i = 1 THEN first ELSE d[i - 1].next
<1>1. n \in Nat
  BY ChunkCountType
<1>2. \A i \in 1 .. n : d[i] = Draw(start(i), k)
  BY NewDrawsDefined
<1>3. \A i \in 1 .. n : c[i].seed = d[i].seed
  BY NewChunks
<1> HIDE DEF n, k, d, c
<1>4. \A i \in 1 .. n : c[i].seed = start(i)
  BY <1>2, <1>3, DrawSeed
<1>5. \A i \in 1 .. n : d[i] = Draw(c[i].seed, k)
  BY <1>2, <1>4
<1>6. 1 \in 1 .. n => c[1].seed = first
  BY <1>4
<1>7. \A i \in 2 .. n : c[i].seed = d[i - 1].next
  BY <1>1, <1>4
<1>8. QED
  BY <1>5, <1>6, <1>7 DEF n, k, d, c

(***************************************************************************)
(* encode with the seeds of chunks that decode again gives the same        *)
(* chunks: a draw is a function of its seed, and a seed that is not zero   *)
(* does not depend on the draws before it.  With the digests of the same   *)
(* chunks in the ticket, this is why MN0 places the files others ask for.  *)
(***************************************************************************)
THEOREM SeedsGiveTheChunks ==
    ASSUME NEW length \in Nat, NEW first, DrawsAgain(EncodeNew(length, first))
    PROVE  EncodeAgain(length, Seeds(EncodeNew(length, first))) = EncodeNew(length, first)
<1> DEFINE n == ChunkCount(length)
           k == SourceCount(length)
           d == NewDraws(length, first)
           c == EncodeNew(length, first)
           seeds == Seeds(c)
           e == SeededDraws(length, seeds)
<1>1. DOMAIN c = 1 .. n /\ c = [i \in 1 .. n |-> c[i]]
  BY NewChunks
<1>2. \A i \in 1 .. n : c[i] = Block(length, d[i]) /\ d[i] = Draw(c[i].seed, k)
  BY NewChunks, DrawsBySeed
<1>3. \A i \in 1 .. n : seeds[i] = c[i].seed /\ seeds[i] # 0
  BY <1>1 DEF Seeds, DrawsAgain
<1> HIDE DEF seeds
<1>4. e = [i \in 1 .. n |-> Draw(seeds[i], k)]
  BY <1>3, SeededDrawsDefined
<1>5. EncodeAgain(length, seeds) = [i \in 1 .. n |-> Block(length, e[i])]
  BY DEF EncodeAgain
<1> HIDE DEF n, k, d, c, e
<1>6. \A i \in 1 .. n : Block(length, e[i]) = c[i]
  BY <1>2, <1>3, <1>4
<1>7. EncodeAgain(length, seeds) = c
  BY <1>1, <1>5, <1>6
<1>8. QED
  BY <1>7 DEF c, seeds

(* And encode does not raise for them. *)
LEMMA SeedsAreEnough ==
    ASSUME NEW length \in Nat, NEW first \in Nat, DrawsAgain(EncodeNew(length, first)),
           ChunkCount(length) # 0
    PROVE  EncodesAgain(length, Seeds(EncodeNew(length, first)))
<1> DEFINE n == ChunkCount(length)
           c == EncodeNew(length, first)
           seeds == Seeds(c)
<1>1. n \in Nat \ {0}
  BY ChunkCountType
<1>2. DOMAIN c = 1 .. n /\ c[1].seed = first
  BY <1>1, NewChunks, DrawsBySeed
<1>3. seeds = [i \in 1 .. n |-> c[i].seed] /\ c[1].seed # 0
  BY <1>1, <1>2 DEF Seeds, DrawsAgain
<1> HIDE DEF n, c, seeds
<1>4. Len(seeds) = n /\ seeds[1] = first /\ seeds[1] # 0
  BY <1>1, <1>2, <1>3
<1>5. SeedOr(seeds[1], NoState) # NoState
  BY <1>4, EncoderAssumption DEF SeedOr
<1>6. QED
  BY <1>1, <1>4, <1>5 DEF EncodesAgain, n, c, seeds

(***************************************************************************)
(* The chunks an artist may register carry blocks of the image only, each  *)
(* as many as its degree: seeds stay within the generator's period.        *)
(***************************************************************************)
THEOREM ChunksCarryTheImage ==
    ASSUME NEW length \in Nat \ {0}, NEW first \in 0 .. Modulus - 1,
           SourceCount(length) < Modulus, DrawsAgain(EncodeNew(length, first))
    PROVE  \A i \in 1 .. ChunkCount(length) :
              LET chunk == EncodeNew(length, first)[i]
              IN  /\ chunk.nodes \in SUBSET SourcesOf(length)
                  /\ Cardinality(chunk.nodes)
                        = Degree(States(chunk.seed)[1], SourceCount(length))
<1> DEFINE n == ChunkCount(length)
           k == SourceCount(length)
           d == NewDraws(length, first)
           c == EncodeNew(length, first)
           T == {i \in Nat : i + 1 \in 1 .. n => c[i + 1].seed \in 1 .. Modulus - 1}
<1>1. Modulus \in Nat /\ n \in Nat /\ k \in 1 .. Modulus - 1
  BY EncoderAssumption, ChunkCountType, BlocksOfImage
<1>2. \A i \in 1 .. n : d[i] = Draw(c[i].seed, k) /\ c[i].nodes = d[i].nodes
  BY NewChunks, DrawsBySeed
<1>3. /\ 1 \in 1 .. n => c[1].seed = first
      /\ \A i \in 2 .. n : c[i].seed = d[i - 1].next
  BY DrawsBySeed
<1>4. \A i \in 1 .. n : c[i].seed # 0
  <2>1. DOMAIN c = 1 .. n
    BY NewChunks
  <2>2. QED
    BY <2>1 DEF DrawsAgain
<1> HIDE DEF n, d, c
<1>5. 0 \in T
  BY <1>1, <1>3, <1>4
<1>6. ASSUME NEW i \in Nat, i \in T PROVE i + 1 \in T
  <2> SUFFICES ASSUME (i + 1) + 1 \in 1 .. n
               PROVE  c[(i + 1) + 1].seed \in 1 .. Modulus - 1
    OBVIOUS
  <2>1. c[i + 1].seed \in 1 .. Modulus - 1 /\ i + 1 \in 1 .. n
    BY <1>1, <1>6
  <2>2. d[i + 1].next \in 0 .. Modulus - 1
    BY <1>1, <1>2, <2>1, SeedSelectsDegree
  <2>3. (i + 1) + 1 \in 2 .. n /\ ((i + 1) + 1) - 1 = i + 1
    BY <1>1
  <2>4. c[(i + 1) + 1].seed = d[i + 1].next
    BY <1>3, <2>3
  <2>5. QED
    BY <1>1, <1>4, <2>2, <2>3, <2>4
<1> HIDE DEF T
<1>7. Nat \subseteq T
  BY <1>5, <1>6, InductionOnNat
<1>8. ASSUME NEW i \in 1 .. n
      PROVE  /\ c[i].nodes \in SUBSET (0 .. k - 1)
             /\ Cardinality(c[i].nodes) = Degree(States(c[i].seed)[1], k)
  <2>1. i - 1 \in Nat /\ (i - 1) + 1 = i
    BY <1>1
  <2>2. c[i].seed \in 1 .. Modulus - 1
    BY <1>7, <2>1 DEF T
  <2>3. QED
    BY <1>1, <1>2, <2>2, SeedSelectsDegree
<1>9. QED
  BY <1>8 DEF SourcesOf, n, c

=============================================================================
