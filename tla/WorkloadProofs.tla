--------------------------- MODULE WorkloadProofs ---------------------------
(***************************************************************************)
(* The mixgraph generator draws every key range as often as its share of   *)
(* the random numbers says, and gets and seeks in the ratio asked for, for *)
(* any probabilities, number of ranges, keys, ratios and shuffle.          *)
(***************************************************************************)
EXTENDS Workload, FiniteSetTheorems, TLAPS

accesses == AccessOf(mix_keyranges)

(* The shuffle permutes the ranges: each prefix keeps its access, and has
   one position. *)
RangesInv ==
  /\ mix_keyranges \in [1..krn -> [pfx : 1..krn, start : Nat, access : Nat]]
  /\ \A n \in 1..krn : mix_keyranges[n].access = Access(mix_keyranges[n].pfx)
  /\ \A m, n \in 1..krn : mix_keyranges[m].pfx = mix_keyranges[n].pfx => m = n
  /\ \A pfx \in 1..krn : \E n \in 1..krn : mix_keyranges[n].pfx = pfx

TypeInv ==
  /\ weights \in Weights /\ num_items \in NumItems /\ ratios \in Ratios
  /\ rounding \in Roundings
  /\ pc \in {"shuffle", "idle", "search", "drawn"}
  /\ i \in Nat /\ ini_rand \in Nat /\ lo \in Nat /\ hi \in Nat /\ key \in Int

StartsInv ==
  pc # "shuffle" =>
    \A n \in 1..krn : mix_keyranges[n].start = TotalAccess(accesses, 1..n - 1)

(* The number is in the intervals from lo on, and before those from hi on. *)
SearchInv ==
  pc \in {"search", "drawn"} =>
    /\ lo < hi /\ hi <= krn
    /\ mix_keyranges[lo + 1].start <= keyrange_rand
    /\ hi < krn => keyrange_rand < mix_keyranges[hi + 1].start
    /\ pc = "drawn" => hi = lo + 1

WorkloadInv == TypeInv /\ RangesInv /\ StartsInv /\ SearchInv /\ KeyInDrawnRange

-----------------------------------------------------------------------------
(* A set of naturals that is not empty has a least element. *)
LEMMA LeastOf ==
  ASSUME NEW T \in SUBSET Nat, T # {}
  PROVE  \E m \in T : \A n \in T : m <= n
<1>1. PICK m \in T : \A n \in T : ~(<<n, m>> \in OpToRel(<, Nat))
  BY NatLessThanWellFounded, WFMin
<1>2. ASSUME NEW n \in T
      PROVE  m <= n
  <2>1. ~(n < m)
    BY <1>1 DEF OpToRel
  <2> QED
    BY <2>1
<1> QED
  BY <1>2

(* The parameters of the generator are positive, and no access is negative. *)
LEMMA Parameters ==
  ASSUME TypeInv
  PROVE  /\ krn \in Nat /\ krn >= 1
         /\ \A pfx \in 1..krn : weights[pfx] \in Nat
         /\ num_items \in Nat /\ num_items >= 1
         /\ mix_keyrange_size \in Nat /\ mix_keyrange_size >= 1
<1>1. weights \in Seq(Nat) /\ weights # <<>> /\ num_items \in Nat /\ num_items >= 1
  BY WorkloadAssumption DEF TypeInv
<1>2. krn \in Nat /\ krn >= 1 /\ \A pfx \in 1..krn : weights[pfx] \in Nat
  BY <1>1 DEF krn
<1>3. \A a \in Nat, b \in Nat : b >= 1 => a \div b \in Nat
  OBVIOUS
<1>4. num_items \div krn \in Nat
  BY <1>1, <1>2, <1>3
<1> QED
  BY <1>1, <1>2, <1>4 DEF mix_keyrange_size, AtLeastOne

-----------------------------------------------------------------------------
(* The numbers of n ranges are those of n - 1 and the n-th range's own. *)
LEMMA NumberOf ==
  ASSUME NEW access, NEW N, NEW p
  PROVE  p \in Numbers(access, N)
           <=> \E n \in N : \E u \in 1..access[n] : p = <<n, u>>
  BY DEF Numbers

LEMMA NumbersOfNext ==
  ASSUME NEW access, NEW n \in Nat, n >= 1
  PROVE  /\ Numbers(access, 1..n)
              = Numbers(access, 1..n - 1) \cup ({n} \X (1..access[n]))
         /\ Numbers(access, 1..n - 1) \cap ({n} \X (1..access[n])) = {}
<1>1. 1..n = (1..n - 1) \cup {n} /\ n \notin 1..n - 1
  OBVIOUS
<1>2. ASSUME NEW p
      PROVE  p \in {n} \X (1..access[n]) <=> \E u \in 1..access[n] : p = <<n, u>>
  OBVIOUS
<1>3. ASSUME NEW p
      PROVE  p \in Numbers(access, 1..n)
               <=> p \in Numbers(access, 1..n - 1) \/ p \in {n} \X (1..access[n])
  <2>1. p \in Numbers(access, 1..n)
          <=> \E m \in (1..n - 1) \cup {n} : \E u \in 1..access[m] : p = <<m, u>>
    <3>1. p \in Numbers(access, 1..n)
            <=> \E m \in 1..n : \E u \in 1..access[m] : p = <<m, u>>
      BY NumberOf
    <3> QED
      BY <1>1, <3>1, Zenon
  <2>2. p \in Numbers(access, 1..n - 1)
          <=> \E m \in 1..n - 1 : \E u \in 1..access[m] : p = <<m, u>>
    BY NumberOf
  <2> QED
    BY <1>2, <2>1, <2>2, Zenon
<1>4. ASSUME NEW p \in Numbers(access, 1..n - 1), p \in {n} \X (1..access[n])
      PROVE  FALSE
  <2>1. PICK m \in 1..n - 1 : \E u \in 1..access[m] : p = <<m, u>>
    BY NumberOf
  <2>2. p[1] = m /\ p[1] = n
    BY <1>2, <1>4, <2>1
  <2> QED
    BY <1>1, <2>2
<1> QED
  BY <1>3, <1>4

LEMMA NumbersFinite ==
  ASSUME NEW K \in Nat, NEW access \in [1..K -> Nat]
  PROVE  \A n \in 0..K : IsFiniteSet(Numbers(access, 1..n))
<1> DEFINE T == {n \in 0..K : ~IsFiniteSet(Numbers(access, 1..n))}
<1>1. SUFFICES ASSUME T # {} PROVE FALSE
  OBVIOUS
<1>2. PICK n \in T : \A m \in T : n <= m
  <2>1. T \in SUBSET Nat
    OBVIOUS
  <2> QED
    BY <1>1, <2>1, LeastOf
<1>3. n # 0
  <2>1. 1..0 = {}
    OBVIOUS
  <2>2. Numbers(access, 1..0) = {}
    BY <2>1 DEF Numbers
  <2> QED
    BY <1>2, <2>2, FS_EmptySet
<1>4. n - 1 \in 0..K /\ n \in 1..K /\ n - 1 \notin T
  BY <1>2, <1>3
<1>5. IsFiniteSet(Numbers(access, 1..n - 1))
  BY <1>4
<1>6. IsFiniteSet({n} \X (1..access[n]))
  <2>1. IsFiniteSet({n})
    BY FS_Singleton
  <2>2. 1 \in Int /\ access[n] \in Int
    BY <1>4
  <2>3. IsFiniteSet(1..access[n])
    BY <2>2, FS_Interval
  <2> QED
    BY <2>1, <2>3, FS_Product
<1>7. IsFiniteSet(Numbers(access, 1..n))
  <2>1. Numbers(access, 1..n)
          = Numbers(access, 1..n - 1) \cup ({n} \X (1..access[n]))
    BY <1>4, NumbersOfNext
  <2> DEFINE old == Numbers(access, 1..n - 1)
             own == {n} \X (1..access[n])
  <2> HIDE DEF old, own
  <2>2. IsFiniteSet(old \cup own)
    BY <1>5, <1>6, FS_Union DEF old, own
  <2> QED
    BY <2>1, <2>2 DEF old, own
<1> QED
  BY <1>2, <1>7

(* The total access is the running sum of keyrange_start. *)
LEMMA AccessAddsUp ==
  ASSUME NEW K \in Nat, NEW access \in [1..K -> Nat]
  PROVE  /\ TotalAccess(access, 1..0) = 0
         /\ \A n \in 0..K : TotalAccess(access, 1..n) \in Nat
         /\ \A n \in 1..K :
              TotalAccess(access, 1..n) = TotalAccess(access, 1..n - 1) + access[n]
<1>1. TotalAccess(access, 1..0) = 0
  <2>1. Numbers(access, 1..0) = {}
    BY DEF Numbers
  <2> QED
    BY <2>1, FS_EmptySet DEF TotalAccess
<1>2. \A n \in 0..K : TotalAccess(access, 1..n) \in Nat
  BY NumbersFinite, FS_CardinalityType DEF TotalAccess
<1>3. ASSUME NEW n \in 1..K
      PROVE  TotalAccess(access, 1..n) = TotalAccess(access, 1..n - 1) + access[n]
  <2> DEFINE own == {n} \X (1..access[n])
             old == Numbers(access, 1..n - 1)
  <2>1. n - 1 \in 0..K /\ access[n] \in Nat /\ n \in Nat /\ n >= 1
    OBVIOUS
  <2>2. IsFiniteSet(own) /\ Cardinality(own) = access[n]
    <3>1. IsFiniteSet({n}) /\ Cardinality({n}) = 1
      BY FS_Singleton
    <3>2. 1 \in Int /\ access[n] \in Int
      BY <2>1
    <3>3. /\ IsFiniteSet(1..access[n])
          /\ Cardinality(1..access[n])
               = IF 1 > access[n] THEN 0 ELSE access[n] - 1 + 1
      BY <3>2, FS_Interval
    <3>4. /\ IsFiniteSet(own)
          /\ Cardinality(own) = Cardinality({n}) * Cardinality(1..access[n])
      BY <3>1, <3>3, FS_Product
    <3>5. Cardinality(1..access[n]) = access[n]
      BY <2>1, <3>3
    <3> QED
      BY <2>1, <3>1, <3>4, <3>5
  <2>3. IsFiniteSet(old) /\ Cardinality(old) \in Nat
    BY <2>1, NumbersFinite, FS_CardinalityType
  <2>4. Numbers(access, 1..n) = old \cup own /\ old \cap own = {}
    BY <2>1, NumbersOfNext
  <2> HIDE DEF old, own
  <2>5. Cardinality(old \cup own) = Cardinality(old) + Cardinality(own) - 0
    BY <2>2, <2>3, <2>4, FS_Union, FS_EmptySet
  <2>6. TotalAccess(access, 1..n) = Cardinality(old \cup own)
    BY <2>4 DEF TotalAccess
  <2>7. TotalAccess(access, 1..n - 1) = Cardinality(old)
    BY DEF TotalAccess, old
  <2> QED
    BY <2>1, <2>2, <2>3, <2>5, <2>6, <2>7
<1> QED
  BY <1>1, <1>2, <1>3

(* Shuffling the accesses does not change their total. *)
LEMMA TotalPermuted ==
  ASSUME NEW K \in Nat, NEW a \in [1..K -> Nat], NEW b \in [1..K -> Nat],
         NEW p \in [1..K -> 1..K],
         \A m, n \in 1..K : p[m] = p[n] => m = n,
         \A q \in 1..K : \E n \in 1..K : p[n] = q,
         \A n \in 1..K : b[n] = a[p[n]]
  PROVE  TotalAccess(b, 1..K) = TotalAccess(a, 1..K)
<1> DEFINE S == Numbers(b, 1..K)
           T == Numbers(a, 1..K)
           f == [x \in S |-> <<p[x[1]], x[2]>>]
<1>1. f \in [S -> T]
  <2> SUFFICES ASSUME NEW x \in S PROVE <<p[x[1]], x[2]>> \in T
    OBVIOUS
  <2>1. PICK n \in 1..K : \E u \in 1..b[n] : x = <<n, u>>
    BY NumberOf
  <2>2. PICK u \in 1..b[n] : x = <<n, u>>
    BY <2>1
  <2>3. p[n] \in 1..K /\ u \in 1..a[p[n]] /\ x[1] = n /\ x[2] = u
    BY <2>2
  <2> QED
    BY <2>3, NumberOf
<1>2. ASSUME NEW x \in S, NEW y \in S, f[x] = f[y]
      PROVE  x = y
  <2>1. PICK m \in 1..K : \E u \in 1..b[m] : x = <<m, u>>
    BY NumberOf
  <2>2. PICK n \in 1..K : \E u \in 1..b[n] : y = <<n, u>>
    BY NumberOf
  <2>3. PICK u \in 1..b[m] : x = <<m, u>>
    BY <2>1
  <2>4. PICK v \in 1..b[n] : y = <<n, v>>
    BY <2>2
  <2>5. f[x] = <<p[m], u>> /\ f[y] = <<p[n], v>>
    BY <2>3, <2>4
  <2>6. p[m] = p[n] /\ u = v
    BY <1>2, <2>5
  <2> QED
    BY <2>3, <2>4, <2>6
<1>3. ASSUME NEW y \in T
      PROVE  \E x \in S : f[x] = y
  <2>1. PICK q \in 1..K : \E u \in 1..a[q] : y = <<q, u>>
    BY NumberOf
  <2>2. PICK u \in 1..a[q] : y = <<q, u>>
    BY <2>1
  <2>3. PICK n \in 1..K : p[n] = q
    OBVIOUS
  <2>4. <<n, u>> \in S
    BY <2>2, <2>3, NumberOf
  <2>5. f[<<n, u>>] = y
    BY <2>2, <2>3, <2>4
  <2> QED
    BY <2>4, <2>5
<1> HIDE DEF f
<1>4. f \in Bijection(S, T)
  BY <1>1, <1>2, <1>3 DEF Bijection, Injection, Surjection, IsInjective
<1>5. ExistsBijection(S, T) /\ IsFiniteSet(S)
  <2>1. K \in 0..K
    OBVIOUS
  <2> QED
    BY <1>4, <2>1, NumbersFinite DEF ExistsBijection
<1> QED
  BY <1>5, FS_Bijection DEF TotalAccess
-----------------------------------------------------------------------------
(* A quotient lies within one divisor of its dividend, and grows with it. *)
LEMMA Division ==
  ASSUME NEW a \in Nat, NEW d \in Nat, d >= 1
  PROVE  /\ a \div d \in Nat /\ a % d \in 0..d - 1
         /\ d * (a \div d) <= a /\ a < d * (a \div d) + d
         /\ \A q \in Nat : d * q <= a /\ a < d * q + d => a \div d = q
<1>1. a \div d \in Nat /\ a % d \in 0..d - 1 /\ d * (a \div d) <= a
  OBVIOUS
<1>2. a < d * (a \div d) + d
  OBVIOUS
<1>3. ASSUME NEW q \in Nat, d * q <= a, a < d * q + d
      PROVE  a \div d = q
  <2> DEFINE p == a \div d
  <2>1. p \in Nat /\ d * p <= a /\ a < d * p + d
    BY <1>1, <1>2
  <2> HIDE DEF p
  <2>2. ASSUME NEW x \in Nat, NEW y \in Nat, x < y
        PROVE  d * x + d <= d * y
    <3>1. PICK k \in Nat : y = x + 1 + k
      <4>1. y - x - 1 \in Nat /\ y = x + 1 + (y - x - 1)
        BY <2>2
      <4> QED
        BY <4>1
    <3>2. d * (x + 1 + k) = d * x + d + d * k /\ d * k \in Nat
      OBVIOUS
    <3> QED
      BY <3>1, <3>2
  <2>3. ~(p < q)
    <3> SUFFICES ASSUME p < q PROVE FALSE
      OBVIOUS
    <3>1. d * p + d <= d * q /\ d * p \in Nat /\ d * q \in Nat
      BY <2>1, <2>2
    <3> QED
      BY <1>3, <2>1, <3>1
  <2>4. ~(q < p)
    <3> SUFFICES ASSUME q < p PROVE FALSE
      OBVIOUS
    <3>1. d * q + d <= d * p /\ d * p \in Nat /\ d * q \in Nat
      BY <2>1, <2>2
    <3> QED
      BY <1>3, <2>1, <3>1
  <2> QED
    BY <2>1, <2>3, <2>4 DEF p
<1> QED
  BY <1>1, <1>2, <1>3

(* The last prefix with a probability, from which amplify comes. *)
LEMMA LastPositive ==
  ASSUME TypeInv, NEW positive, positive = {pfx \in 1..krn : weights[pfx] > 0},
         positive # {}
  PROVE  /\ Max(positive) \in positive
         /\ \A pfx \in positive : pfx <= Max(positive)
<1> DEFINE T == {krn - pfx : pfx \in positive}
<1>1. krn \in Nat /\ positive \subseteq 1..krn
  BY Parameters
<1>2. T \in SUBSET Nat /\ T # {}
  BY <1>1
<1>3. PICK least \in T : \A n \in T : least <= n
  BY <1>2, LeastOf
<1>4. PICK m \in positive : least = krn - m
  BY <1>3
<1>5. \A pfx \in positive : m >= pfx
  <2> SUFFICES ASSUME NEW pfx \in positive PROVE m >= pfx
    OBVIOUS
  <2>1. krn - pfx \in T
    OBVIOUS
  <2>2. krn - m <= krn - pfx
    BY <1>3, <1>4, <2>1
  <2> QED
    BY <1>1, <2>2
<1>6. /\ Max(positive) \in positive
      /\ \A pfx \in positive : Max(positive) >= pfx
  BY <1>4, <1>5 DEF Max
<1> QED
  BY <1>1, <1>6

(* The factor is 0 only if there is no probability at all. *)
LEMMA AmplifyOf ==
  ASSUME TypeInv
  PROVE  /\ amplify \in Nat
         /\ amplify = 0 <=> \A pfx \in 1..krn : weights[pfx] = 0
         /\ amplify > 0 =>
              \E last \in 1..krn :
                /\ weights[last] > 0 /\ amplify = Amplify(weights[last])
                /\ \A pfx \in 1..krn : weights[pfx] > 0 => pfx <= last
<1> DEFINE positive == {pfx \in 1..krn : weights[pfx] > 0}
<1>1. krn \in Nat /\ \A pfx \in 1..krn : weights[pfx] \in Nat
  BY Parameters
<1>2. CASE positive = {}
  <2>1. amplify = 0
    BY <1>2 DEF amplify
  <2>2. \A pfx \in 1..krn : weights[pfx] = 0
    BY <1>1, <1>2
  <2> QED
    BY <2>1, <2>2
<1>3. CASE positive # {}
  <2>1. /\ Max(positive) \in positive
        /\ \A pfx \in positive : pfx <= Max(positive)
    BY <1>3, LastPositive
  <2>2. amplify = Amplify(weights[Max(positive)])
    BY <1>3 DEF amplify
  <2>3. PICK w \in Nat : w = weights[Max(positive)] /\ w > 0
    BY <1>1, <2>1
  <2>4. Denominator \div w \in Nat
    <3>1. w >= 1 /\ Denominator \in Nat
      BY <2>3, WorkloadAssumption
    <3> QED
      BY <3>1, Division
  <2>5. amplify \in Nat /\ amplify > 0
    BY <2>2, <2>3, <2>4 DEF Amplify
  <2>6. Max(positive) \in 1..krn /\ weights[Max(positive)] > 0
    BY <2>1
  <2> QED
    BY <2>1, <2>2, <2>5, <2>6
<1> QED
  BY <1>2, <1>3

LEMMA AccessType ==
  ASSUME TypeInv
  PROVE  \A pfx \in 1..krn : Access(pfx) \in Nat
<1> SUFFICES ASSUME NEW pfx \in 1..krn PROVE Access(pfx) \in Nat
  OBVIOUS
<1>1. amplify * weights[pfx] \in Nat
  <2>1. amplify \in Nat /\ weights[pfx] \in Nat
    BY AmplifyOf, Parameters
  <2> QED
    BY <2>1
<1>2. \A a \in Nat : a \div Denominator \in Nat
  BY Division, WorkloadAssumption
<1> QED
  BY <1>1, <1>2 DEF Access

(* A likelier range has no smaller access, and one that is as likely as the
   one amplify comes from has an access. *)
LEMMA AccessGrows ==
  ASSUME TypeInv
  PROVE  /\ \A p, q \in 1..krn : weights[p] <= weights[q] => Access(p) <= Access(q)
         /\ \A p, q \in 1..krn :
              weights[q] > 0 /\ amplify = Amplify(weights[q]) /\ weights[q] <= weights[p]
                => Access(p) > 0
<1>1. PICK A \in Nat, D \in Nat : A = amplify /\ D = Denominator /\ D >= 1
  BY AmplifyOf, WorkloadAssumption
<1>2. \A p \in 1..krn : weights[p] \in Nat /\ Access(p) \in Nat
  BY Parameters, AccessType
<1>3. \A p \in 1..krn : Access(p) = (A * weights[p]) \div D
  BY <1>1 DEF Access
<1>4. ASSUME NEW x \in Nat, NEW y \in Nat, x <= y
      PROVE  A * x <= A * y /\ A * x \in Nat /\ A * y \in Nat
  <2>1. PICK k \in Nat : y = x + k
    <3>1. y - x \in Nat /\ y = x + (y - x)
      BY <1>4
    <3> QED
      BY <3>1
  <2>2. A * (x + k) = A * x + A * k /\ A * k \in Nat /\ A * x \in Nat
    OBVIOUS
  <2> QED
    BY <2>1, <2>2
<1>5. ASSUME NEW x \in Nat, NEW y \in Nat, x <= y
      PROVE  x \div D <= y \div D
  <2>1. /\ x \div D \in Nat /\ y \div D \in Nat
        /\ D * (x \div D) <= x /\ y < D * (y \div D) + D
    BY <1>1, Division
  <2>2. PICK a \in Nat, b \in Nat : a = x \div D /\ b = y \div D
    BY <2>1
  <2>3. ~(b < a)
    <3> SUFFICES ASSUME b < a PROVE FALSE
      OBVIOUS
    <3>1. PICK k \in Nat : a = b + 1 + k
      <4>1. a - b - 1 \in Nat /\ a = b + 1 + (a - b - 1)
        BY <2>2
      <4> QED
        BY <4>1
    <3>2. D * (b + 1 + k) = D * b + D + D * k /\ D * k \in Nat /\ D * b \in Nat
      BY <1>1
    <3>3. D * a <= x /\ y < D * b + D
      BY <2>1, <2>2
    <3> QED
      BY <1>1, <1>5, <3>1, <3>2, <3>3
  <2> QED
    BY <2>2, <2>3
<1>6. ASSUME NEW p \in 1..krn, NEW q \in 1..krn, weights[p] <= weights[q]
      PROVE  Access(p) <= Access(q)
  <2>1. PICK x \in Nat, y \in Nat : x = weights[p] /\ y = weights[q]
    BY <1>2
  <2>2. A * x <= A * y /\ A * x \in Nat /\ A * y \in Nat
    BY <1>4, <1>6, <2>1
  <2>3. (A * x) \div D <= (A * y) \div D
    BY <1>5, <2>2
  <2> QED
    BY <1>3, <2>1, <2>3
<1>7. ASSUME NEW p \in 1..krn, NEW q \in 1..krn, weights[q] > 0,
             amplify = Amplify(weights[q]), weights[q] <= weights[p]
      PROVE  Access(p) > 0
  <2>1. PICK w \in Nat : w = weights[q] /\ w >= 1
    BY <1>2, <1>7
  <2>2. A = D \div w + 1
    BY <1>1, <1>7, <2>1 DEF Amplify
  <2>3. PICK k \in Nat : k = D \div w /\ D < w * k + w
    BY <1>1, <2>1, Division
  <2>4. A * w = w * k + w
    BY <2>1, <2>2, <2>3
  <2>5. A * w \in Nat /\ D <= A * w
    BY <1>1, <2>1, <2>3, <2>4
  <2>6. (A * w) \div D \in Nat /\ A * w < D * ((A * w) \div D) + D
    BY <1>1, <2>5, Division
  <2>7. (A * w) \div D # 0
    <3> SUFFICES ASSUME (A * w) \div D = 0 PROVE FALSE
      OBVIOUS
    <3>1. A * w < D * 0 + D
      BY <2>6
    <3> QED
      BY <1>1, <2>5, <3>1
  <2>8. Access(q) > 0
    BY <1>3, <2>1, <2>6, <2>7
  <2> QED
    BY <1>2, <1>6, <1>7, <2>8
<1> QED
  BY <1>6, <1>7

-----------------------------------------------------------------------------
(* The random numbers are as many as the ranges' accesses, in whatever order
   the shuffle has put them. *)
LEMMA RandMax ==
  ASSUME TypeInv, RangesInv
  PROVE  /\ mix_rand_max \in Nat /\ mix_rand_max >= 1
         /\ accesses \in [1..krn -> Nat]
         /\ amplify > 0 => mix_rand_max = TotalAccess(accesses, 1..krn)
<1> DEFINE a == [pfx \in 1..krn |-> Access(pfx)]
           p == [n \in 1..krn |-> mix_keyranges[n].pfx]
<1>1. krn \in Nat /\ krn >= 1 /\ krn \in 0..krn /\ a \in [1..krn -> Nat]
  BY Parameters, AccessType
<1>2. accesses \in [1..krn -> Nat]
  BY DEF accesses, AccessOf, RangesInv
<1>3. /\ p \in [1..krn -> 1..krn]
      /\ \A m, n \in 1..krn : p[m] = p[n] => m = n
      /\ \A q \in 1..krn : \E n \in 1..krn : p[n] = q
      /\ \A n \in 1..krn : accesses[n] = a[p[n]]
  BY DEF accesses, AccessOf, RangesInv
<1> HIDE DEF p
<1>4. TotalAccess(accesses, 1..krn) = TotalAccess(a, 1..krn)
  <2> HIDE DEF a
  <2>1. krn \in Nat
    BY <1>1
  <2> QED
    BY <1>1, <1>2, <1>3, <2>1, TotalPermuted, ZenonT(30)
<1>5. TotalAccess(a, 1..krn) \in Nat
  BY <1>1, AccessAddsUp
<1>6. mix_rand_max = AtLeastOne(TotalAccess(a, 1..krn))
  BY DEF mix_rand_max
<1>7. ASSUME amplify > 0
      PROVE  TotalAccess(a, 1..krn) >= 1
  <2>1. PICK q \in 1..krn : weights[q] > 0 /\ amplify = Amplify(weights[q])
    BY <1>7, AmplifyOf
  <2>2. a[q] \in Nat /\ a[q] >= 1
    <3>1. weights[q] \in Nat /\ weights[q] <= weights[q]
      BY Parameters
    <3> QED
      BY <1>1, <2>1, <3>1, AccessGrows
  <2>3. Cardinality(Numbers(a, 1..krn)) # 0
    <3>1. <<q, 1>> \in Numbers(a, 1..krn)
      <4>1. 1 \in 1..a[q]
        BY <2>2
      <4> HIDE DEF a
      <4> QED
        BY <4>1, NumberOf
    <3>2. IsFiniteSet(Numbers(a, 1..krn))
      BY <1>1, NumbersFinite
    <3> HIDE DEF a
    <3> QED
      BY <3>1, <3>2, FS_EmptySet
  <2> HIDE DEF a
  <2> QED
    BY <1>5, <2>3 DEF TotalAccess
<1> HIDE DEF a
<1> QED
  BY <1>2, <1>4, <1>5, <1>6, <1>7 DEF AtLeastOne
-----------------------------------------------------------------------------
LEMMA InitInv == Init => WorkloadInv
<1> SUFFICES ASSUME Init PROVE WorkloadInv
  OBVIOUS
<1>1. TypeInv
  BY DEF Init, TypeInv
<1>2. krn \in Nat /\ \A pfx \in 1..krn : Access(pfx) \in Nat
  BY <1>1, Parameters, AccessType
<1>3. /\ \A n \in 1..krn : /\ krn + 1 - n \in 1..krn
                           /\ mix_keyranges[n] = [pfx |-> krn + 1 - n, start |-> 0,
                                                  access |-> Access(krn + 1 - n)]
      /\ DOMAIN mix_keyranges = 1..krn
  BY <1>2 DEF Init
<1>4. mix_keyranges \in [1..krn -> [pfx : 1..krn, start : Nat, access : Nat]]
  BY <1>2, <1>3 DEF Init
<1>5. \A n \in 1..krn : /\ mix_keyranges[n].access = Access(mix_keyranges[n].pfx)
                        /\ mix_keyranges[n].pfx = krn + 1 - n
  BY <1>3
<1>6. \A m, n \in 1..krn : mix_keyranges[m].pfx = mix_keyranges[n].pfx => m = n
  BY <1>2, <1>5
<1>7. ASSUME NEW pfx \in 1..krn
      PROVE  \E n \in 1..krn : mix_keyranges[n].pfx = pfx
  <2>1. krn + 1 - pfx \in 1..krn /\ krn + 1 - (krn + 1 - pfx) = pfx
    BY <1>2
  <2> QED
    BY <1>5, <2>1
<1>8. RangesInv
  BY <1>4, <1>5, <1>6, <1>7 DEF RangesInv
<1> QED
  BY <1>1, <1>8 DEF Init, WorkloadInv, StartsInv, SearchInv, KeyInDrawnRange

(* The choices of the rounding depend on the ratios alone. *)
LEMMA RoundingsStay == ASSUME UNCHANGED config PROVE Roundings' = Roundings
BY DEF config, Roundings, MayRoundUp, Ratio, RatioSum

(* A swap keeps each prefix's access and gives it one position; the starts
   are the running sums once they are taken anew. *)
LEMMA ShuffleKeepsInv ==
  ASSUME WorkloadInv, NEW pos \in 0..krn - 1, Shuffle(pos)
  PROVE  WorkloadInv'
<1> DEFINE K == krn
           KeyrangeUnit == [pfx : 1..K, start : Nat, access : Nat]
           m == i + 1
           n == pos + 1
           s == [mix_keyranges EXCEPT ![m] = mix_keyranges[n], ![n] = mix_keyranges[m]]
           turn(x) == IF x = n THEN m ELSE IF x = m THEN n ELSE x
<1>1. /\ krn' = krn /\ amplify' = amplify /\ weights' = weights
      /\ pc = "shuffle" /\ i < krn /\ i' = i + 1
      /\ UNCHANGED <<config, ini_rand, lo, hi, key>>
      /\ \/ mix_keyranges' = WithStarts(s) /\ pc' = "idle"
         \/ mix_keyranges' = s /\ pc' = pc
  BY DEF Shuffle, krn, amplify, config
<1>2. krn \in Nat /\ i \in Nat /\ m \in 1..K /\ n \in 1..K
  BY <1>1, Parameters DEF WorkloadInv, TypeInv
<1>3. TypeInv'
  BY <1>1, <1>2, RoundingsStay DEF WorkloadInv, TypeInv, config
<1>4. mix_keyranges \in [1..K -> KeyrangeUnit]
  BY DEF WorkloadInv, RangesInv
<1>5. \A x \in 1..K : turn(x) \in 1..K /\ turn(turn(x)) = x
  BY <1>2
<1>6. s \in [1..K -> KeyrangeUnit] /\ \A x \in 1..K : s[x] = mix_keyranges[turn(x)]
  BY <1>2, <1>4
<1>7. mix_keyranges' \in [1..K -> KeyrangeUnit]
      /\ \A x \in 1..K : /\ mix_keyranges'[x].pfx = s[x].pfx
                         /\ mix_keyranges'[x].access = s[x].access
  <2>1. CASE mix_keyranges' = WithStarts(s)
    <3>1. AccessOf(s) \in [1..K -> Nat]
      BY <1>6 DEF AccessOf
    <3>2. \A x \in 1..K : TotalAccess(AccessOf(s), 1..x - 1) \in Nat
      <4>1. \A x \in 1..K : x - 1 \in 0..K
        BY <1>2
      <4> QED
        BY <1>2, <3>1, <4>1, AccessAddsUp
    <3> HIDE DEF s
    <3>3. WithStarts(s)
            = [x \in 1..K |->
                 [s[x] EXCEPT !.start = TotalAccess(AccessOf(s), 1..x - 1)]]
      BY DEF WithStarts
    <3>4. ASSUME NEW x \in 1..K
          PROVE  /\ mix_keyranges'[x] \in KeyrangeUnit
                 /\ mix_keyranges'[x].pfx = s[x].pfx
                 /\ mix_keyranges'[x].access = s[x].access
      <4>1. PICK t \in Nat : t = TotalAccess(AccessOf(s), 1..x - 1)
        BY <3>2
      <4>2. mix_keyranges'[x] = [s[x] EXCEPT !.start = t]
        BY <2>1, <3>3, <4>1
      <4>3. s[x] \in KeyrangeUnit
        BY <1>6
      <4> QED
        BY <4>2, <4>3
    <3> QED
      BY <2>1, <3>3, <3>4
  <2>2. CASE mix_keyranges' = s
    BY <1>6, <2>2
  <2> QED
    BY <1>1, <2>1, <2>2
<1>8. RangesInv'
  <2> HIDE DEF s, turn, m, n
  <2>1. \A x \in 1..K : /\ mix_keyranges'[x].pfx = mix_keyranges[turn(x)].pfx
                        /\ mix_keyranges'[x].access = mix_keyranges[turn(x)].access
    BY <1>6, <1>7
  <2>2. \A x \in 1..K : mix_keyranges'[x].access = Access(mix_keyranges'[x].pfx)
    BY <1>5, <2>1 DEF WorkloadInv, RangesInv
  <2>3. ASSUME NEW x \in 1..K, NEW y \in 1..K,
               mix_keyranges'[x].pfx = mix_keyranges'[y].pfx
        PROVE  x = y
    <3>1. turn(x) = turn(y)
      BY <1>5, <2>1, <2>3 DEF WorkloadInv, RangesInv
    <3> QED
      BY <1>5, <3>1
  <2>4. ASSUME NEW q \in 1..K
        PROVE  \E x \in 1..K : mix_keyranges'[x].pfx = q
    <3>1. PICK y \in 1..K : mix_keyranges[y].pfx = q
      BY DEF WorkloadInv, RangesInv
    <3>2. turn(y) \in 1..K /\ turn(turn(y)) = y
      BY <1>5
    <3> QED
      BY <2>1, <3>1, <3>2
  <2>5. mix_keyranges' \in [1..krn' -> [pfx : 1..krn', start : Nat, access : Nat]]
    BY <1>1, <1>7
  <2> QED
    BY <1>1, <2>2, <2>3, <2>4, <2>5 DEF RangesInv, Access
<1>9. StartsInv'
  <2>1. CASE mix_keyranges' = WithStarts(s) /\ pc' = "idle"
    <3> HIDE DEF s
    <3>1. accesses' = AccessOf(s)
      <4>1. accesses' = [x \in 1..K |-> mix_keyranges'[x].access]
        BY <1>1 DEF accesses, AccessOf
      <4>2. AccessOf(s) = [x \in 1..K |-> s[x].access]
        BY DEF AccessOf
      <4> QED
        BY <1>7, <4>1, <4>2
    <3>2. \A x \in 1..K :
            mix_keyranges'[x].start = TotalAccess(AccessOf(s), 1..x - 1)
      BY <1>6, <2>1 DEF WithStarts
    <3>3. \A N : TotalAccess(accesses, N)' = TotalAccess(AccessOf(s), N)
      BY <3>1 DEF TotalAccess, Numbers
    <3> QED
      BY <1>1, <3>1, <3>2, <3>3 DEF StartsInv
  <2>2. CASE pc' = pc
    BY <1>1, <2>2 DEF StartsInv
  <2> QED
    BY <1>1, <2>1, <2>2
<1>10. SearchInv' /\ KeyInDrawnRange'
  BY <1>1 DEF SearchInv, KeyInDrawnRange
<1> QED
  BY <1>3, <1>8, <1>9, <1>10 DEF WorkloadInv

(* Once they are shuffled, the ranges stay. *)
LEMMA RangesStay ==
  ASSUME WorkloadInv, UNCHANGED <<config, mix_keyranges>>, pc # "shuffle"
  PROVE  /\ RangesInv' /\ StartsInv'
         /\ krn' = krn /\ mix_rand_max' = mix_rand_max
         /\ mix_keyrange_size' = mix_keyrange_size /\ num_items' = num_items
<1>1. /\ weights' = weights /\ num_items' = num_items
      /\ mix_keyranges' = mix_keyranges
  BY DEF config
<1>2. krn' = krn /\ amplify' = amplify
  BY <1>1 DEF krn, amplify
<1>3. mix_rand_max' = mix_rand_max
  BY <1>1, <1>2 DEF mix_rand_max, TotalAccess, Numbers, AtLeastOne, Access
<1>4. mix_keyrange_size' = mix_keyrange_size
  BY <1>1, <1>2 DEF mix_keyrange_size, AtLeastOne
<1>5. RangesInv'
  BY <1>1, <1>2 DEF WorkloadInv, RangesInv, Access
<1>6. StartsInv'
  BY <1>1, <1>2 DEF WorkloadInv, StartsInv, accesses, AccessOf, TotalAccess, Numbers
<1> QED
  BY <1>1, <1>2, <1>3, <1>4, <1>5, <1>6

LEMMA NextKeyKeepsInv ==
  ASSUME WorkloadInv, NEW rand \in 0..mix_rand_max * mix_keyrange_size - 1, NextKey(rand)
  PROVE  WorkloadInv'
<1>1. /\ pc \in {"idle", "drawn"} /\ pc' = "search" /\ ini_rand' = rand
      /\ lo' = 0 /\ hi' = krn
      /\ UNCHANGED <<config, i, mix_keyranges, key>>
  BY DEF NextKey
<1>2. /\ RangesInv' /\ StartsInv' /\ krn' = krn /\ mix_rand_max' = mix_rand_max
  BY <1>1, RangesStay
<1>3. krn \in Nat /\ krn >= 1
  BY Parameters DEF WorkloadInv
<1>4. mix_rand_max \in Nat /\ mix_rand_max >= 1 /\ accesses \in [1..krn -> Nat]
  BY RandMax DEF WorkloadInv
<1>5. rand \in Nat
  BY <1>4, Parameters DEF WorkloadInv
<1>6. TypeInv'
  BY <1>1, <1>3, <1>5, RoundingsStay DEF WorkloadInv, TypeInv, config
<1>7. rand % mix_rand_max \in Nat
  BY <1>4, <1>5, Division
<1>8. mix_keyranges[1].start = 0
  <2>1. 1 \in 1..krn /\ 1 - 1 = 0
    BY <1>3
  <2>2. mix_keyranges[1].start = TotalAccess(accesses, 1..0)
    BY <1>1, <2>1 DEF WorkloadInv, StartsInv
  <2> QED
    BY <1>3, <1>4, <2>2, AccessAddsUp
<1>9. SearchInv'
  <2>1. keyrange_rand' = rand % mix_rand_max
    BY <1>1, <1>2 DEF keyrange_rand
  <2>2. mix_keyranges'[lo' + 1].start = 0
    BY <1>1, <1>8
  <2> QED
    BY <1>1, <1>2, <1>3, <1>7, <2>1, <2>2 DEF SearchInv
<1>10. KeyInDrawnRange'
  BY <1>1 DEF KeyInDrawnRange
<1> QED
  BY <1>2, <1>6, <1>9, <1>10 DEF WorkloadInv

LEMMA BisectKeepsInv ==
  ASSUME WorkloadInv, Bisect
  PROVE  WorkloadInv'
<1>1. /\ pc = "search" /\ pc' = pc /\ lo + 1 < hi
      /\ IF Before(Mid) THEN hi' = Mid /\ lo' = lo ELSE lo' = Mid /\ hi' = hi
      /\ UNCHANGED <<config, i, mix_keyranges, ini_rand, key>>
  BY DEF Bisect
<1>2. /\ RangesInv' /\ StartsInv' /\ krn' = krn /\ mix_rand_max' = mix_rand_max
  BY <1>1, RangesStay
<1>3. krn \in Nat /\ lo \in Nat /\ hi \in Nat
  BY Parameters DEF WorkloadInv, TypeInv
<1>4. Mid \in Nat /\ lo < Mid /\ Mid < hi
  <2>1. PICK g \in Nat : g = hi - lo /\ g >= 2
    BY <1>1, <1>3
  <2>2. g \div 2 \in Nat /\ g \div 2 >= 1 /\ g \div 2 < g
    BY <2>1
  <2> QED
    BY <1>3, <2>1, <2>2 DEF Mid
<1>5. TypeInv'
  BY <1>1, <1>4, RoundingsStay DEF WorkloadInv, TypeInv, config
<1>6. keyrange_rand' = keyrange_rand
  BY <1>1, <1>2 DEF keyrange_rand
<1>7. keyrange_rand \in Nat /\ mix_keyranges[Mid + 1].start \in Nat
  <2>1. keyrange_rand \in Nat
    BY RandMax, Division DEF WorkloadInv, TypeInv, keyrange_rand
  <2>2. Mid + 1 \in 1..krn
    BY <1>1, <1>3, <1>4 DEF WorkloadInv, SearchInv
  <2> QED
    BY <2>1, <2>2 DEF WorkloadInv, RangesInv
<1>8. SearchInv'
  <2>1. CASE Before(Mid)
    <3>1. hi' = Mid /\ lo' = lo /\ keyrange_rand < mix_keyranges[Mid + 1].start
      BY <1>1, <2>1 DEF Before
    <3> QED
      BY <1>1, <1>2, <1>3, <1>4, <1>6, <3>1 DEF WorkloadInv, SearchInv
  <2>2. CASE ~Before(Mid)
    <3>1. hi' = hi /\ lo' = Mid /\ mix_keyranges[Mid + 1].start <= keyrange_rand
      BY <1>1, <1>7, <2>2 DEF Before
    <3> QED
      BY <1>1, <1>2, <1>3, <1>4, <1>6, <3>1 DEF WorkloadInv, SearchInv
  <2> QED
    BY <2>1, <2>2
<1>9. KeyInDrawnRange'
  BY <1>1 DEF KeyInDrawnRange
<1> QED
  BY <1>2, <1>5, <1>8, <1>9 DEF WorkloadInv

(* The key that is returned is the drawn range's, or the tree's last key if
   that comes earlier. *)
LEMMA ReturnKeepsInv ==
  ASSUME WorkloadInv, NEW offset \in 0..mix_keyrange_size - 1, Return(offset)
  PROVE  WorkloadInv'
<1>1. /\ pc = "search" /\ pc' = "drawn" /\ lo + 1 >= hi
      /\ key' = Clamped(mix_keyrange_size * lo + offset)
      /\ UNCHANGED <<config, i, mix_keyranges, ini_rand, lo, hi>>
  BY DEF Return
<1>2. /\ RangesInv' /\ StartsInv' /\ krn' = krn /\ mix_rand_max' = mix_rand_max
      /\ mix_keyrange_size' = mix_keyrange_size /\ num_items' = num_items
  BY <1>1, RangesStay
<1>3. PICK z \in Nat, N \in Nat, l \in Nat, o \in Nat :
        /\ z = mix_keyrange_size /\ N = num_items /\ l = lo /\ o = offset
        /\ z >= 1 /\ N >= 1 /\ o < z
  BY Parameters DEF WorkloadInv, TypeInv
<1>4. keyrange_rand' = keyrange_rand
  BY <1>1, <1>2 DEF keyrange_rand
<1>5. SearchInv'
  <2>1. lo \in Nat /\ hi \in Nat /\ lo < hi /\ lo + 1 >= hi
    BY <1>1 DEF WorkloadInv, TypeInv, SearchInv
  <2>2. hi = lo + 1
    BY <2>1
  <2> QED
    BY <1>1, <1>2, <1>4, <2>2 DEF WorkloadInv, SearchInv
<1>6. PICK b \in Nat : b = z * l
  OBVIOUS
<1>7. /\ key' = (IF b + o >= N THEN N - 1 ELSE b + o)
      /\ key' \in 0..N - 1
  <2>1. b + o \in Nat /\ ~(b + o < 0) /\ mix_keyrange_size * lo + offset = b + o
    BY <1>3, <1>6
  <2>2. key' = Clamped(b + o)
    BY <1>1, <2>1
  <2>3. Clamped(b + o) = IF b + o >= N THEN N - 1 ELSE b + o
    BY <1>3, <2>1 DEF Clamped
  <2> QED
    BY <1>3, <2>1, <2>2, <2>3
<1>8. key' \div z = l \/ b >= N
  <2>1. ASSUME ~(b >= N)
        PROVE  key' \in Nat /\ b <= key' /\ key' < b + z
    BY <1>3, <1>7, <2>1
  <2>2. ASSUME ~(b >= N)
        PROVE  key' \div z = l
    BY <1>3, <1>6, <2>1, <2>2, Division
  <2> QED
    BY <2>2
<1>9. KeyInDrawnRange'
  <2>1. /\ key' \in 0..num_items' - 1
        /\ key' \div mix_keyrange_size' = lo' \/ mix_keyrange_size' * lo' >= num_items'
    BY <1>1, <1>2, <1>3, <1>6, <1>7, <1>8
  <2> QED
    BY <2>1 DEF KeyInDrawnRange
<1>10. TypeInv'
  BY <1>1, <1>3, <1>7, RoundingsStay DEF WorkloadInv, TypeInv, config
<1> QED
  BY <1>2, <1>5, <1>9, <1>10 DEF WorkloadInv

LEMMA WorkloadCorrect == Spec => []WorkloadInv
<1>1. ASSUME WorkloadInv, [Next]_vars
      PROVE  WorkloadInv'
  <2>1. CASE Next
    BY <1>1, <2>1, ShuffleKeepsInv, NextKeyKeepsInv, BisectKeepsInv, ReturnKeepsInv DEF Next
  <2>2. CASE UNCHANGED vars
    <3>1. /\ UNCHANGED <<config, mix_keyranges>> /\ weights' = weights
          /\ UNCHANGED <<num_items, ratios, rounding, pc, i, ini_rand, lo, hi, key>>
      BY <2>2 DEF vars, config
    <3>2. krn' = krn /\ amplify' = amplify
      BY <3>1 DEF krn, amplify
    <3>3. mix_rand_max' = mix_rand_max /\ mix_keyrange_size' = mix_keyrange_size
      BY <3>1, <3>2 DEF mix_rand_max, TotalAccess, Numbers, AtLeastOne, Access,
                        mix_keyrange_size
    <3>4. keyrange_rand' = keyrange_rand
      BY <3>1, <3>3 DEF keyrange_rand
    <3>5. TypeInv' /\ RangesInv'
      BY <1>1, <3>1, <3>2, RoundingsStay DEF WorkloadInv, TypeInv, RangesInv, Access,
                                             config
    <3>6. StartsInv'
      BY <1>1, <3>1, <3>2 DEF WorkloadInv, StartsInv, accesses, AccessOf, TotalAccess,
                              Numbers
    <3>7. SearchInv' /\ KeyInDrawnRange'
      BY <1>1, <3>1, <3>2, <3>3, <3>4 DEF WorkloadInv, SearchInv, KeyInDrawnRange
    <3> QED
      BY <3>5, <3>6, <3>7 DEF WorkloadInv
  <2> QED
    BY <1>1, <2>1, <2>2
<1> QED
  BY <1>1, InitInv, PTL DEF Spec

-----------------------------------------------------------------------------
(* The bisection finds the range whose interval holds the number that was
   drawn, so that a range is drawn as often as its access says, and one
   whose probability was rounded to nothing never is. *)
THEOREM DrawsCorrect == Spec => []DrawsFollowAccess
<1>1. ASSUME WorkloadInv
      PROVE  DrawsFollowAccess
  <2> SUFFICES ASSUME pc = "drawn", amplify > 0
               PROVE  LET found == mix_keyranges[lo + 1]
                      IN  /\ found.start <= keyrange_rand
                          /\ keyrange_rand < found.start + found.access
    BY DEF DrawsFollowAccess
  <2>1. /\ lo \in Nat /\ krn \in Nat /\ hi = lo + 1 /\ lo + 1 \in 1..krn
        /\ mix_keyranges[lo + 1].start <= keyrange_rand
        /\ hi < krn => keyrange_rand < mix_keyranges[hi + 1].start
    BY <1>1, Parameters DEF WorkloadInv, TypeInv, SearchInv
  <2>2. /\ mix_rand_max = TotalAccess(accesses, 1..krn)
        /\ mix_rand_max \in Nat /\ mix_rand_max >= 1 /\ accesses \in [1..krn -> Nat]
    BY <1>1, RandMax DEF WorkloadInv
  <2>3. \A n \in 1..krn : mix_keyranges[n].start = TotalAccess(accesses, 1..n - 1)
    BY <1>1 DEF WorkloadInv, StartsInv
  <2>4. /\ mix_keyranges[lo + 1].access = accesses[lo + 1]
        /\ mix_keyranges[lo + 1].start = TotalAccess(accesses, 1..lo)
    <3>1. (lo + 1) - 1 = lo
      BY <2>1
    <3> QED
      BY <2>1, <2>3, <3>1 DEF accesses, AccessOf
  <2>5. TotalAccess(accesses, 1..lo + 1)
          = TotalAccess(accesses, 1..lo) + accesses[lo + 1]
    <3>1. (lo + 1) - 1 = lo
      BY <2>1
    <3> QED
      BY <2>1, <2>2, <3>1, AccessAddsUp
  <2>6. keyrange_rand < TotalAccess(accesses, 1..lo + 1)
    <3>1. CASE hi < krn
      <4>1. hi + 1 \in 1..krn /\ (hi + 1) - 1 = lo + 1
        BY <2>1, <3>1
      <4> QED
        BY <2>1, <2>3, <3>1, <4>1
    <3>2. CASE ~(hi < krn)
      <4>1. lo + 1 = krn
        BY <2>1, <3>2
      <4>2. keyrange_rand \in 0..mix_rand_max - 1
        BY <1>1, <2>2, Division DEF WorkloadInv, TypeInv, keyrange_rand
      <4> QED
        BY <2>2, <4>1, <4>2
    <3> QED
      BY <3>1, <3>2
  <2> QED
    BY <2>1, <2>4, <2>5, <2>6
<1> QED
  BY <1>1, WorkloadCorrect, PTL

(* Every key that is returned is one of the tree's, and lies in the range
   that was drawn unless the tree ends before it. *)
THEOREM KeyCorrect == Spec => []KeyInDrawnRange
<1>1. WorkloadInv => KeyInDrawnRange
  BY DEF WorkloadInv
<1> QED
  BY <1>1, WorkloadCorrect, PTL

(* As long as the probabilities fall from one prefix to the next, no range
   with a probability is rounded away, and no likelier one gets less. *)
THEOREM NoRangeCorrect == Spec => []NoRangeIsLost
<1>1. ASSUME WorkloadInv
      PROVE  NoRangeIsLost
  <2> SUFFICES ASSUME \A m, n \in 1..krn : m < n => weights[n] <= weights[m],
                      NEW a \in 1..krn, NEW b \in 1..krn
               PROVE  LET r == mix_keyranges[a]
                          q == mix_keyranges[b]
                      IN  /\ weights[r.pfx] > 0 => r.access > 0
                          /\ weights[r.pfx] <= weights[q.pfx] => r.access <= q.access
    BY DEF NoRangeIsLost
  <2>1. PICK p \in 1..krn, q \in 1..krn :
          /\ p = mix_keyranges[a].pfx /\ mix_keyranges[a].access = Access(p)
          /\ q = mix_keyranges[b].pfx /\ mix_keyranges[b].access = Access(q)
    <3>1. mix_keyranges[a].pfx \in 1..krn /\ mix_keyranges[b].pfx \in 1..krn
      BY <1>1 DEF WorkloadInv, RangesInv
    <3>2. /\ mix_keyranges[a].access = Access(mix_keyranges[a].pfx)
          /\ mix_keyranges[b].access = Access(mix_keyranges[b].pfx)
      BY <1>1 DEF WorkloadInv, RangesInv
    <3> QED
      BY <3>1, <3>2, Zenon
  <2>2. /\ weights[p] <= weights[q] => Access(p) <= Access(q)
        /\ \A l \in 1..krn :
             weights[l] > 0 /\ amplify = Amplify(weights[l]) /\ weights[l] <= weights[p]
               => Access(p) > 0
    BY <1>1, AccessGrows DEF WorkloadInv
  <2>3. ASSUME weights[p] > 0
        PROVE  Access(p) > 0
    <3>1. krn \in Nat /\ amplify \in Nat /\ \A l \in 1..krn : weights[l] \in Nat
      BY <1>1, Parameters, AmplifyOf DEF WorkloadInv
    <3>2. amplify > 0
      BY <1>1, <2>3, <3>1, AmplifyOf DEF WorkloadInv
    <3>3. PICK last \in 1..krn :
            /\ weights[last] > 0 /\ amplify = Amplify(weights[last])
            /\ \A l \in 1..krn : weights[l] > 0 => l <= last
      BY <1>1, <3>2, AmplifyOf DEF WorkloadInv
    <3>4. p <= last
      BY <2>3, <3>3
    <3>5. weights[last] <= weights[p]
      BY <3>1, <3>4
    <3> QED
      BY <2>2, <3>3, <3>5
  <2> QED
    BY <2>1, <2>2, <2>3
<1> QED
  BY <1>1, WorkloadCorrect, PTL

-----------------------------------------------------------------------------
(* A quotient that is rounded up exceeds the exact one by less than one. *)
LEMMA RoundedUp ==
  ASSUME NEW a \in Nat, NEW d \in Nat, d >= 1
  PROVE  /\ CeilDiv(a, d) \in Nat
         /\ CeilDiv(a, d) * d - a \in 0..d - 1
         /\ CeilDiv(a, d) > 0 <=> a > 0
<1>1. a + d - 1 \in Nat
  OBVIOUS
<1>2. PICK q \in Nat : q = CeilDiv(a, d) /\ d * q <= a + d - 1 /\ a + d - 1 < d * q + d
  BY <1>1, Division DEF CeilDiv
<1>3. PICK m \in Nat : m = q * d /\ m = d * q
  OBVIOUS
<1>4. m - a \in 0..d - 1
  BY <1>2, <1>3
<1>5. q > 0 <=> a > 0
  <2>1. CASE q = 0
    <3>1. m = 0
      BY <1>3, <2>1
    <3> QED
      BY <1>2, <1>3, <2>1, <3>1
  <2>2. CASE q > 0
    <3>1. PICK k \in Nat : q = k + 1
      <4>1. q - 1 \in Nat /\ q = (q - 1) + 1
        BY <2>2
      <4> QED
        BY <4>1
    <3>2. d * (k + 1) = d * k + d /\ d * k \in Nat
      OBVIOUS
    <3>3. m >= d
      BY <1>3, <3>1, <3>2
    <3> QED
      BY <1>2, <1>3, <2>2, <3>3
  <2> QED
    BY <2>1, <2>2
<1> QED
  BY <1>2, <1>3, <1>4, <1>5

(* A threshold exceeds the exact product by one at most, and is 0 only if
   that is. *)
LEMMA CeilingOf ==
  ASSUME TypeInv, NEW type \in Types, NEW D \in Nat, D >= 1, D = RatioSum,
         NEW a \in Nat, a = TypeRange * Ratio(type)
  PROVE  /\ Ceiling(type) \in Nat
         /\ Ceiling(type) * D - a \in 0..D
         /\ Ceiling(type) > 0 <=> a > 0
<1>1. PICK q \in Nat : q = CeilDiv(a, D) /\ q * D - a \in 0..D - 1 /\ (q > 0 <=> a > 0)
  BY RoundedUp
<1>2. rounding[type] \in {0, 1} /\ (rounding[type] = 1 => MayRoundUp(type))
  BY DEF TypeInv, Roundings
<1>3. Ceiling(type) = q + rounding[type]
  BY <1>1 DEF Ceiling
<1>4. CASE rounding[type] = 0
  <2>1. Ceiling(type) = q
    BY <1>1, <1>3, <1>4
  <2> QED
    BY <1>1, <2>1
<1>5. CASE rounding[type] = 1
  <2>1. Ratio(type) >= 1 /\ CeilDiv(a, D) * D = a
    BY <1>2, <1>5 DEF MayRoundUp
  <2>2. Ceiling(type) = q + 1
    BY <1>3, <1>5
  <2>3. q * D = a
    BY <1>1, <2>1
  <2>4. (q + 1) * D = q * D + D
    OBVIOUS
  <2>5. a > 0
    <3>1. PICK t \in Nat : t = TypeRange /\ t >= 1
      BY WorkloadAssumption
    <3>2. Ratio(type) \in Nat
      BY WorkloadAssumption DEF TypeInv, Ratio, Types
    <3>3. PICK r \in Nat : r = Ratio(type) /\ r >= 1
      BY <2>1, <3>2
    <3>4. t * r >= 1
      BY <3>1, <3>3
    <3> QED
      BY <3>1, <3>3, <3>4
  <2> QED
    BY <2>2, <2>3, <2>4, <2>5
<1> QED
  BY <1>2, <1>4, <1>5

(* The numbers below the first threshold are gets, those between the two
   thresholds are seeks, and there are no others. *)
LEMMA DrawsOfTypes ==
  ASSUME NEW g \in Nat, NEW s \in Nat, g = get_thresh, s = seek_thresh, g <= s,
         RatioSum # 0
  PROVE  Draws("GET") = 0..g - 1 /\ Draws("SEEK") = g..s - 1
<1>1. /\ mix_type_thresholds = <<g, s>> /\ mix_type_range = s
      /\ DOMAIN mix_type_thresholds = {1, 2}
      /\ mix_type_thresholds[1] = g /\ mix_type_thresholds[2] = s
  BY DEF mix_type_thresholds, mix_type_range
<1>2. ASSUME NEW pos \in 0..s - 1
      PROVE  OpType(pos) = IF pos < g THEN "GET" ELSE "SEEK"
  <2> DEFINE above == {n \in DOMAIN mix_type_thresholds : pos < mix_type_thresholds[n]}
  <2>1. OpType(pos) = IF above = {} \/ 1 \in above THEN "GET" ELSE "SEEK"
    BY DEF OpType
  <2>2. 2 \in above /\ (1 \in above <=> pos < g)
    BY <1>1
  <2> HIDE DEF above
  <2> QED
    BY <2>1, <2>2
<1>3. Draws("GET") = {pos \in 0..s - 1 : pos < g}
  BY <1>1, <1>2 DEF Draws
<1>4. Draws("SEEK") = {pos \in 0..s - 1 : ~(pos < g)}
  BY <1>1, <1>2 DEF Draws
<1>5. /\ {pos \in 0..s - 1 : pos < g} = 0..g - 1
      /\ {pos \in 0..s - 1 : ~(pos < g)} = g..s - 1
  OBVIOUS
<1> QED
  BY <1>3, <1>4, <1>5

(* Gets and seeks are drawn in the ratio asked for, up to the rounding of
   one draw each. *)
THEOREM OpMixCorrect == Spec => []OpMixAsAsked
<1>1. ASSUME WorkloadInv
      PROVE  OpMixAsAsked
  <2>1. PICK G \in Nat, S \in Nat, T \in Nat :
          /\ G = Ratio("GET") /\ S = Ratio("SEEK") /\ T = TypeRange /\ T >= 1
          /\ RatioSum = G + S
    BY <1>1, WorkloadAssumption DEF WorkloadInv, TypeInv, Ratio, RatioSum
  <2>2. CASE G + S = 0
    <3>1. /\ mix_type_thresholds = <<T>> /\ mix_type_range = T
          /\ DOMAIN mix_type_thresholds = {1} /\ mix_type_thresholds[1] = T
      BY <2>1, <2>2 DEF mix_type_thresholds, mix_type_range
    <3>2. \A pos \in 0..T - 1 : OpType(pos) = "GET"
      BY <3>1 DEF OpType
    <3>3. Draws("SEEK") = {}
      BY <3>1, <3>2 DEF Draws
    <3> QED
      <4>1. ~(RatioSum > 0)
        BY <2>1, <2>2
      <4> QED
        BY <3>3, <4>1, Zenon DEF OpMixAsAsked
  <2>3. CASE G + S # 0
    <3> DEFINE D == G + S
    <3>1. D \in Nat /\ D >= 1 /\ RatioSum = D /\ T * G \in Nat /\ T * S \in Nat
          /\ T * G = G * T /\ T * S = S * T
      BY <2>1, <2>3
    <3> HIDE DEF D
    <3>2. PICK g \in Nat :
            g = get_thresh /\ g * D - T * G \in 0..D /\ (g > 0 <=> T * G > 0)
      BY <1>1, <2>1, <3>1, CeilingOf DEF get_thresh, Types, WorkloadInv
    <3>3. PICK k \in Nat : /\ k = Ceiling("SEEK")
                           /\ k * D - T * S \in 0..D /\ (k > 0 <=> T * S > 0)
      BY <1>1, <2>1, <3>1, CeilingOf DEF Types, WorkloadInv
    <3>4. seek_thresh = g + k
      BY <3>2, <3>3 DEF seek_thresh
    <3>5. Draws("GET") = 0..g - 1 /\ Draws("SEEK") = g..(g + k) - 1
      BY <3>1, <3>2, <3>4, DrawsOfTypes
    <3>6. Cardinality(Draws("GET")) = g /\ Cardinality(Draws("SEEK")) = k
      <4>1. /\ 0 \in Int /\ g - 1 \in Int /\ g \in Int /\ (g + k) - 1 \in Int
        OBVIOUS
      <4>2. Cardinality(0..g - 1) = IF 0 > g - 1 THEN 0 ELSE (g - 1) - 0 + 1
        BY <4>1, FS_Interval
      <4>3. Cardinality(g..(g + k) - 1)
              = IF g > (g + k) - 1 THEN 0 ELSE ((g + k) - 1) - g + 1
        BY <4>1, FS_Interval
      <4> QED
        BY <3>5, <4>2, <4>3
    <3>7. (T * G > 0 <=> G > 0) /\ (T * S > 0 <=> S > 0)
      <4>1. ASSUME NEW x \in Nat
            PROVE  T * x > 0 <=> x > 0
        BY <2>1
      <4> QED
        BY <4>1
    <3>8. LET drawn == Cardinality(Draws("GET"))
          IN  /\ Ratio("GET") > 0 <=> drawn > 0
              /\ drawn * RatioSum - Ratio("GET") * TypeRange \in 0..RatioSum
      BY <2>1, <3>1, <3>2, <3>6, <3>7
    <3>9. LET drawn == Cardinality(Draws("SEEK"))
          IN  /\ Ratio("SEEK") > 0 <=> drawn > 0
              /\ drawn * RatioSum - Ratio("SEEK") * TypeRange \in 0..RatioSum
      BY <2>1, <3>1, <3>3, <3>6, <3>7
    <3> QED
      BY <2>1, <2>3, <3>8, <3>9 DEF OpMixAsAsked, Types
  <2> QED
    BY <2>2, <2>3
<1> QED
  BY <1>1, WorkloadCorrect, PTL
=============================================================================
