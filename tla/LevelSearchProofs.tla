------------------------- MODULE LevelSearchProofs --------------------------
(***************************************************************************)
(* get_ssts_for_key finds exactly the files that cover the key, for every  *)
(* tree whose levels below level 0 can be bisected and for every key, in   *)
(* the order of the levels, and comes to an end.                           *)
(***************************************************************************)
EXTENDS LevelSearch, TLAPS

(* Where a search is, and what it has collected so far. *)
Position ==
  /\ pc = "scan" => lv = 0 /\ hi = Len(levels[0]) /\ lo <= hi + 1
  /\ pc = "bisect" => lv \in 1..NumLevels - 1 /\ hi <= Len(levels[lv])

ScannedHolders ==
  {f \in Files : Covers(f, key) /\ \E i \in 1..lo - 1 : levels[0][i] = f}

Collected ==
  /\ pc = "scan" => Range(out) = ScannedHolders
  /\ pc = "bisect" => Range(out) = Holders(lv)

SearchInv == TypeOK /\ Position /\ KeyStaysInBounds /\ Collected

-----------------------------------------------------------------------------
LEMMA AppendRange ==
  ASSUME NEW S, NEW q \in Seq(S), NEW e \in S
  PROVE  Append(q, e) \in Seq(S) /\ Range(Append(q, e)) = Range(q) \cup {e}
<1>1. /\ Append(q, e) \in Seq(S)
      /\ DOMAIN q = 1..Len(q) /\ Len(q) \in Nat
      /\ DOMAIN Append(q, e) = 1..Len(q) + 1
      /\ Append(q, e)[Len(q) + 1] = e
      /\ \A i \in 1..Len(q) : Append(q, e)[i] = q[i]
  OBVIOUS
<1>2. \A i \in 1..Len(q) + 1 : i = Len(q) + 1 \/ i \in 1..Len(q)
  BY <1>1
<1>3. \A i \in 1..Len(q) : i \in 1..Len(q) + 1
  BY <1>1
<1>4. Len(q) + 1 \in 1..Len(q) + 1
  BY <1>1
<1> QED
  BY <1>1, <1>2, <1>3, <1>4 DEF Range

LEMMA EmptyRange == Range(<<>>) = {}
  BY DEF Range

(* The file at a position of a level. *)
LEMMA LevelFiles ==
  ASSUME levels \in Trees, NEW l \in Levels
  PROVE  /\ levels[l] \in Seq(Files)
         /\ DOMAIN levels[l] = 1..Len(levels[l])
         /\ Len(levels[l]) \in Nat
         /\ \A i \in DOMAIN levels[l] :
              /\ levels[l][i] \in Files
              /\ levels[l][i].min_key \in Int
              /\ levels[l][i].max_key \in Int
              /\ levels[l][i].min_key <= levels[l][i].max_key
<1>1. levels[l] \in Seq(Files)
  BY SearchAssumption
<1>2. \A i \in DOMAIN levels[l] : levels[l][i] \in Files
  BY <1>1
<1> QED
  BY <1>1, <1>2, SearchAssumption

(* A bisected level's files come in key order, so at most one covers a key. *)
LEMMA KeyOrder ==
  ASSUME levels \in Trees, NEW l \in Levels \ {0}, NEW k \in Int,
         NEW i \in DOMAIN levels[l], NEW j \in DOMAIN levels[l]
  PROVE  /\ k < levels[l][j].min_key /\ Covers(levels[l][i], k) => i < j
         /\ k > levels[l][j].max_key /\ Covers(levels[l][i], k) => i > j
         /\ Covers(levels[l][i], k) /\ Covers(levels[l][j], k) => i = j
<1>1. Bisectable(levels[l])
  BY SearchAssumption
<1>2. /\ i \in Nat /\ j \in Nat
      /\ levels[l][i].min_key \in Int /\ levels[l][i].max_key \in Int
      /\ levels[l][j].min_key \in Int /\ levels[l][j].max_key \in Int
      /\ levels[l][i].min_key <= levels[l][i].max_key
      /\ levels[l][j].min_key <= levels[l][j].max_key
  BY LevelFiles
<1>3. /\ i < j => levels[l][i].max_key < levels[l][j].min_key
      /\ j < i => levels[l][j].max_key < levels[l][i].min_key
  BY <1>1 DEF Bisectable
<1> QED
  BY <1>2, <1>3 DEF Covers

LEMMA HoldersOfNextLevel ==
  ASSUME levels \in Trees, NEW n \in Levels
  PROVE  Holders(n + 1) =
           Holders(n) \cup {f \in Range(levels[n]) : Covers(f, key)}
<1>1. \A l \in 0..(n + 1) - 1 : l = n \/ l \in 0..n - 1
  BY SearchAssumption DEF Levels
<1>2. n \in 0..(n + 1) - 1 /\ \A l \in 0..n - 1 : l \in 0..(n + 1) - 1
  BY SearchAssumption DEF Levels
<1> QED
  BY <1>1, <1>2 DEF Holders

LEMMA MidBetween ==
  ASSUME lo \in Nat \ {0}, hi \in Nat, lo <= hi
  PROVE  Mid \in Nat /\ lo <= Mid /\ Mid <= hi
  BY DEF Mid

-----------------------------------------------------------------------------
(* What moving to the next level establishes, given that everything up to
   this level has been collected. *)
LEMMA NextLevelInv ==
  ASSUME TypeOK, NextLevel, lv \in Levels, pc # "ready",
         out' \in Seq(Files), Range(out') = Holders(lv + 1)
  PROVE  /\ SearchInv'
         /\ pc' = "ready" => Range(out') = Holders(NumLevels)
<1>1. /\ levels' = levels /\ key' = key /\ lv' = lv + 1
      /\ lv \in Nat /\ lv + 1 \in 0..NumLevels
  BY SearchAssumption DEF NextLevel, Levels, TypeOK
<1>2. CASE lv + 1 < NumLevels
  <2>1. /\ pc' = "bisect" /\ lo' = 1 /\ hi' = Len(levels[lv + 1])
        /\ lv + 1 \in Levels /\ lv + 1 \in 1..NumLevels - 1
    BY <1>1, <1>2, SearchAssumption DEF NextLevel, Levels
  <2>2. hi' \in Nat /\ DOMAIN levels[lv + 1] = 1..hi'
    BY <2>1, LevelFiles DEF TypeOK
  <2>3. TypeOK'
    BY <1>1, <2>1, <2>2 DEF TypeOK
  <2>4. Position'
    BY <1>1, <2>1, <2>2 DEF Position
  <2>5. KeyStaysInBounds'
    BY <1>1, <2>1, <2>2 DEF KeyStaysInBounds
  <2>6. Collected'
    BY <1>1, <2>1 DEF Collected, Holders
  <2> QED
    BY <2>1, <2>3, <2>4, <2>5, <2>6 DEF SearchInv
<1>3. CASE ~(lv + 1 < NumLevels)
  <2>1. pc' = "ready" /\ lo' = lo /\ hi' = hi /\ lv + 1 = NumLevels
    BY <1>1, <1>3, SearchAssumption DEF NextLevel, Levels
  <2> QED
    BY <1>1, <2>1
    DEF SearchInv, TypeOK, Position, KeyStaysInBounds, Collected
<1> QED
  BY <1>2, <1>3

LEMMA CallInv ==
  ASSUME SearchInv, NEW k \in Keys, Call(k)
  PROVE  SearchInv'
<1>1. 0 \in Levels /\ Len(levels[0]) \in Nat
  BY SearchAssumption, LevelFiles DEF Levels, SearchInv, TypeOK
<1>2. TypeOK' /\ Position' /\ KeyStaysInBounds'
  BY <1>1, SearchAssumption
  DEF Call, SearchInv, TypeOK, Position, KeyStaysInBounds, Cleared
<1>3. Collected'
  BY EmptyRange DEF Call, Collected, ScannedHolders, Cleared
<1> QED
  BY <1>2, <1>3 DEF SearchInv

LEMMA ScanFileInv ==
  ASSUME SearchInv, ScanFile
  PROVE  SearchInv'
<1>1. /\ levels \in Trees /\ out \in Seq(Files) /\ key \in Keys
      /\ lo \in Nat \ {0} /\ lo \in 1..Len(levels[0]) /\ 0 \in Levels
      /\ lv = 0 /\ hi = Len(levels[0]) /\ hi \in Nat
  BY SearchAssumption DEF SearchInv, TypeOK, Position, ScanFile, Levels
<1>2. levels[0][lo] \in Files
  BY <1>1, LevelFiles
<1>3. /\ levels' = levels /\ key' = key /\ lo' = lo + 1 /\ pc' = "scan"
      /\ lv' = lv /\ hi' = hi
  BY DEF ScanFile
<1>4. out' \in Seq(Files)
  BY <1>1, <1>2, AppendRange DEF ScanFile
<1>5. TypeOK' /\ Position' /\ KeyStaysInBounds'
  BY <1>1, <1>3, <1>4
  DEF SearchInv, TypeOK, Position, KeyStaysInBounds
<1>6. Collected'
  <2>1. ScannedHolders' = ScannedHolders \cup
          {f \in {levels[0][lo]} : Covers(f, key)}
    <3>1. \A i \in 1..lo' - 1 : i = lo \/ i \in 1..lo - 1
      BY <1>1, <1>3
    <3>2. lo \in 1..lo' - 1 /\ \A i \in 1..lo - 1 : i \in 1..lo' - 1
      BY <1>1, <1>3
    <3> QED
      BY <1>2, <1>3, <3>1, <3>2 DEF ScannedHolders
  <2>2. Range(out) = ScannedHolders
    BY DEF SearchInv, Collected, ScanFile
  <2>3. Range(out') = Range(out) \cup {f \in {levels[0][lo]} : Covers(f, key)}
    <3>1. CASE Covers(levels[0][lo], key)
      BY <1>1, <1>2, <3>1, AppendRange DEF ScanFile
    <3>2. CASE ~Covers(levels[0][lo], key)
      BY <3>2 DEF ScanFile
    <3> QED
      BY <3>1, <3>2
  <2> QED
    BY <1>3, <2>1, <2>2, <2>3 DEF Collected
<1> QED
  BY <1>5, <1>6 DEF SearchInv

LEMMA EndScanInv ==
  ASSUME SearchInv, EndScan
  PROVE  /\ SearchInv'
         /\ pc' = "ready" => Range(out') = Holders(NumLevels)
<1>1. /\ levels \in Trees /\ 0 \in Levels /\ lv = 0 /\ out' = out
      /\ out \in Seq(Files) /\ NextLevel /\ TypeOK /\ pc # "ready"
      /\ lo - 1 = Len(levels[0])
  BY SearchAssumption DEF SearchInv, TypeOK, Position, EndScan, Levels
<1>2. Holders(1) = {f \in Range(levels[0]) : Covers(f, key)}
  <2>1. Holders(0) = {}
    BY DEF Holders
  <2> QED
    BY <1>1, <2>1, HoldersOfNextLevel
<1>3. ScannedHolders = {f \in Range(levels[0]) : Covers(f, key)}
  <2>1. /\ DOMAIN levels[0] = 1..lo - 1
        /\ \A i \in DOMAIN levels[0] : levels[0][i] \in Files
    BY <1>1, LevelFiles
  <2> QED
    BY <2>1 DEF ScannedHolders, Range
<1>4. Range(out') = Holders(lv + 1)
  <2>1. Range(out) = ScannedHolders
    BY DEF SearchInv, Collected, EndScan
  <2>2. lv + 1 = 1
    BY <1>1
  <2> QED
    BY <1>1, <1>2, <1>3, <2>1, <2>2
<1> QED
  BY <1>1, <1>4, NextLevelInv

(* What every probe of a bisected level knows. *)
LEMMA Probe ==
  ASSUME SearchInv, pc = "bisect"
  PROVE  /\ levels \in Trees /\ lv \in Levels \ {0} /\ lv \in Levels
         /\ key \in Int /\ out \in Seq(Files) /\ Range(out) = Holders(lv)
         /\ lo \in Nat \ {0} /\ hi \in Nat /\ hi <= Len(levels[lv])
         /\ DOMAIN levels[lv] = 1..Len(levels[lv])
         /\ Len(levels[lv]) \in Nat
         /\ lo <= hi => Mid \in DOMAIN levels[lv] /\ lo <= Mid /\ Mid <= hi
<1>1. /\ levels \in Trees /\ lv \in Levels \ {0} /\ lv \in Levels
      /\ key \in Int /\ out \in Seq(Files) /\ Range(out) = Holders(lv)
      /\ lo \in Nat \ {0} /\ hi \in Nat /\ hi <= Len(levels[lv])
  BY SearchAssumption DEF SearchInv, TypeOK, Position, Collected, Levels
<1>2. DOMAIN levels[lv] = 1..Len(levels[lv]) /\ Len(levels[lv]) \in Nat
  BY <1>1, LevelFiles
<1> QED
  BY <1>1, <1>2, MidBetween

LEMMA GoLeftInv ==
  ASSUME SearchInv, GoLeft
  PROVE  SearchInv'
<1>1. pc = "bisect" /\ lo <= hi
  BY DEF GoLeft, Before
<1>2. /\ levels' = levels /\ pc' = pc /\ key' = key /\ out' = out
      /\ lv' = lv /\ lo' = lo /\ hi' = Mid - 1
  BY DEF GoLeft, Before
<1>3. \A i \in DOMAIN levels[lv] : Covers(levels[lv][i], key) => i < Mid
  BY <1>1, Probe, KeyOrder DEF GoLeft, Before
<1>4. KeyStaysInBounds'
  <2>1. \A i \in DOMAIN levels[lv] : Covers(levels[lv][i], key) => i \in lo..hi
    BY <1>1 DEF SearchInv, KeyStaysInBounds
  <2> QED
    BY <1>1, <1>2, <1>3, <2>1, Probe DEF KeyStaysInBounds
<1>5. Mid - 1 \in Nat /\ Mid - 1 <= Len(levels[lv])
  BY <1>1, Probe
<1>6. TypeOK' /\ Position' /\ Collected'
  BY <1>1, <1>2, <1>5
  DEF SearchInv, TypeOK, Position, Collected, Holders
<1> QED
  BY <1>4, <1>6 DEF SearchInv

LEMMA GoRightInv ==
  ASSUME SearchInv, GoRight
  PROVE  SearchInv'
<1>1. pc = "bisect" /\ lo <= hi
  BY DEF GoRight, BehindMid
<1>2. /\ levels' = levels /\ pc' = pc /\ key' = key /\ out' = out
      /\ lv' = lv /\ lo' = Mid + 1 /\ hi' = hi
  BY DEF GoRight, BehindMid
<1>3. \A i \in DOMAIN levels[lv] : Covers(levels[lv][i], key) => i > Mid
  BY <1>1, Probe, KeyOrder DEF GoRight, BehindMid
<1>4. KeyStaysInBounds'
  <2>1. \A i \in DOMAIN levels[lv] : Covers(levels[lv][i], key) => i \in lo..hi
    BY <1>1 DEF SearchInv, KeyStaysInBounds
  <2> QED
    BY <1>1, <1>2, <1>3, <2>1, Probe DEF KeyStaysInBounds
<1>5. Mid + 1 \in Nat \ {0}
  BY <1>1, Probe
<1>6. TypeOK' /\ Position' /\ Collected'
  BY <1>1, <1>2, <1>5
  DEF SearchInv, TypeOK, Position, Collected, Holders
<1> QED
  BY <1>4, <1>6 DEF SearchInv

LEMMA FoundInv ==
  ASSUME SearchInv, Found
  PROVE  /\ SearchInv'
         /\ pc' = "ready" => Range(out') = Holders(NumLevels)
<1> DEFINE f == levels[lv][Mid]
<1>1. pc = "bisect" /\ lo <= hi /\ Covers(f, key) /\ NextLevel
      /\ out' = Append(out, f)
  BY DEF Found
<1>2. Mid \in DOMAIN levels[lv] /\ f \in Files
  BY <1>1, Probe, LevelFiles
<1>3. {g \in Range(levels[lv]) : Covers(g, key)} = {f}
  <2>1. \A i \in DOMAIN levels[lv] : Covers(levels[lv][i], key) => i = Mid
    BY <1>1, <1>2, Probe, KeyOrder
  <2> QED
    BY <1>1, <1>2, <2>1 DEF Range
<1>4. out' \in Seq(Files) /\ Range(out') = Holders(lv) \cup {f}
  BY <1>1, <1>2, Probe, AppendRange
<1>5. Range(out') = Holders(lv + 1)
  BY <1>1, <1>3, <1>4, Probe, HoldersOfNextLevel
<1> QED
  BY <1>1, <1>4, <1>5, Probe, NextLevelInv DEF SearchInv

LEMMA NotFoundInv ==
  ASSUME SearchInv, NotFound
  PROVE  /\ SearchInv'
         /\ pc' = "ready" => Range(out') = Holders(NumLevels)
<1>1. pc = "bisect" /\ lo > hi /\ NextLevel /\ out' = out
  BY DEF NotFound
<1>2. {g \in Range(levels[lv]) : Covers(g, key)} = {}
  <2>1. \A i \in DOMAIN levels[lv] : ~Covers(levels[lv][i], key)
    BY <1>1, Probe DEF SearchInv, KeyStaysInBounds
  <2> QED
    BY <2>1 DEF Range
<1>3. Range(out') = Holders(lv + 1)
  BY <1>1, <1>2, Probe, HoldersOfNextLevel
<1> QED
  BY <1>1, <1>3, Probe, NextLevelInv DEF SearchInv

-----------------------------------------------------------------------------
LEMMA SearchStep ==
  ASSUME SearchInv, Next
  PROVE  /\ SearchInv'
         /\ pc # "ready" /\ pc' = "ready" => Range(out') = Holders(NumLevels)
<1>1. ASSUME NEW k \in Keys, Call(k) PROVE SearchInv' /\ pc = "ready"
  BY <1>1, CallInv DEF Call, Cleared
<1>2. CASE ScanFile
  BY <1>2, ScanFileInv DEF ScanFile
<1>3. CASE EndScan
  BY <1>3, EndScanInv
<1>4. CASE GoLeft
  BY <1>4, GoLeftInv DEF GoLeft, Before
<1>5. CASE GoRight
  BY <1>5, GoRightInv DEF GoRight, BehindMid
<1>6. CASE Found
  BY <1>6, FoundInv
<1>7. CASE NotFound
  BY <1>7, NotFoundInv
<1> QED
  BY <1>1, <1>2, <1>3, <1>4, <1>5, <1>6, <1>7 DEF Next, Step

LEMMA SearchInvCorrect == Spec => []SearchInv
<1>1. Init => SearchInv
  <2> SUFFICES ASSUME Init PROVE SearchInv
    OBVIOUS
  <2> QED
    BY SearchAssumption
    DEF Init, SearchInv, TypeOK, Position, KeyStaysInBounds, Collected
<1>2. SearchInv /\ [Next]_vars => SearchInv'
  <2>1. SearchInv /\ Next => SearchInv'
    BY SearchStep
  <2>2. SearchInv /\ UNCHANGED vars => SearchInv'
    BY DEF vars, SearchInv, TypeOK, Position, KeyStaysInBounds, Collected,
           ScannedHolders, Holders
  <2> QED
    BY <2>1, <2>2
<1> QED
  BY <1>1, <1>2, PTL DEF Spec

(* Bisection never discards the part of a level that holds the key. *)
THEOREM BoundsCorrect == Spec => []KeyStaysInBounds
  BY SearchInvCorrect, PTL DEF SearchInv

(* Every call that returns has found exactly the files that cover the key,
   on every level of the tree. *)
THEOREM SearchCorrect == Spec => FindsEveryHolder
<1>1. SearchInv /\ [Next]_vars =>
        [pc # "ready" /\ pc' = "ready" => Range(out') = Holders(NumLevels)]_vars
  BY SearchStep
<1> QED
  BY <1>1, SearchInvCorrect, PTL DEF Spec, FindsEveryHolder

-----------------------------------------------------------------------------
(* What has been found so far comes from the levels searched so far. *)
FoundSoFar ==
  /\ pc = "scan" => \A i \in DOMAIN out : out[i].level = 0
  /\ pc = "bisect" => \A i \in DOMAIN out : out[i].level \in 0..lv - 1

(* A file of a deeper level, put last, keeps the order; so does one of
   level 0. *)
LEMMA AppendDeeper ==
  ASSUME NEW q \in Seq(Files), NEW f \in Files, NEW l \in Nat, f.level = l,
         \A i \in DOMAIN q : q[i].level = 0 \/ q[i].level \in 0..l - 1,
         \A i, j \in DOMAIN q :
           i < j => q[i].level < q[j].level \/ q[j].level = 0
  PROVE  LET r == Append(q, f)
         IN  /\ \A i \in DOMAIN r : r[i].level \in 0..l
             /\ \A i, j \in DOMAIN r :
                  i < j => r[i].level < r[j].level \/ r[j].level = 0
<1> DEFINE r == Append(q, f)
<1>1. /\ DOMAIN q = 1..Len(q) /\ Len(q) \in Nat
      /\ DOMAIN r = 1..Len(q) + 1
      /\ r[Len(q) + 1] = f
      /\ \A i \in 1..Len(q) : r[i] = q[i]
  OBVIOUS
<1> HIDE DEF r
<1>2. \A i \in 1..Len(q) + 1 : i = Len(q) + 1 \/ i \in 1..Len(q)
  BY <1>1
<1>3. \A i \in DOMAIN r : r[i].level \in 0..l
  BY <1>1, <1>2
<1>4. ASSUME NEW i \in DOMAIN r, NEW j \in DOMAIN r, i < j
      PROVE  r[i].level < r[j].level \/ r[j].level = 0
  <2>1. i \in DOMAIN q /\ r[i] = q[i]
    BY <1>1, <1>4
  <2>2. CASE j = Len(q) + 1
    BY <1>1, <2>1, <2>2
  <2>3. CASE j \in 1..Len(q)
    BY <1>1, <1>4, <2>1, <2>3
  <2> QED
    BY <1>1, <1>2, <2>2, <2>3
<1> QED
  BY <1>3, <1>4 DEF r

LEMMA OrderStep ==
  ASSUME SearchInv, FoundSoFar, ShallowFirst, Next
  PROVE  FoundSoFar' /\ ShallowFirst'
<1>1. /\ out \in Seq(Files) /\ levels \in Trees /\ key \in Keys
      /\ lv \in Nat
  BY SearchAssumption DEF SearchInv, TypeOK
<1>2. ASSUME NEW k \in Keys, Call(k) PROVE FoundSoFar' /\ ShallowFirst'
  BY <1>2 DEF Call, Cleared, FoundSoFar, ShallowFirst
<1>3. CASE ScanFile
  <2>1. /\ pc = "scan" /\ pc' = "scan" /\ lo \in 1..Len(levels[0]) /\ 0 \in Levels
    BY <1>3, SearchAssumption DEF ScanFile, SearchInv, TypeOK, Position, Levels
  <2>2. levels[0][lo] \in Files /\ levels[0][lo].level = 0
    BY <1>1, <2>1, LevelFiles, SearchAssumption
  <2>3. CASE out' = out
    BY <2>1, <2>3 DEF FoundSoFar, ShallowFirst
  <2>4. CASE out' = Append(out, levels[0][lo])
    BY <1>1, <2>1, <2>2, <2>4, AppendDeeper DEF FoundSoFar, ShallowFirst
  <2> QED
    BY <1>3, <2>3, <2>4 DEF ScanFile
<1>4. CASE GoLeft \/ GoRight
  BY <1>4 DEF GoLeft, GoRight, Before, BehindMid, FoundSoFar, ShallowFirst
<1>5. CASE EndScan \/ NotFound
  <2>1. out' = out /\ NextLevel /\ pc \in {"scan", "bisect"}
    BY <1>5 DEF EndScan, NotFound
  <2>2. pc' \in {"bisect", "ready"} /\ lv' = lv + 1
    BY <2>1 DEF NextLevel
  <2>3. pc = "scan" => lv = 0
    BY DEF SearchInv, Position
  <2> QED
    BY <1>1, <2>1, <2>2, <2>3 DEF FoundSoFar, ShallowFirst
<1>6. CASE Found
  <2> DEFINE f == levels[lv][Mid]
  <2>1. pc = "bisect" /\ lo <= hi /\ NextLevel /\ out' = Append(out, f)
    BY <1>6 DEF Found
  <2>2. lv \in Levels /\ Mid \in DOMAIN levels[lv]
    BY <2>1, Probe
  <2>3. f \in Files /\ f.level = lv
    BY <1>1, <2>2, LevelFiles, SearchAssumption
  <2>4. pc' \in {"bisect", "ready"} /\ lv' = lv + 1
    BY <2>1 DEF NextLevel
  <2> HIDE DEF f
  <2>5. /\ \A i \in DOMAIN out' : out'[i].level \in 0..lv
        /\ ShallowFirst'
    BY <1>1, <2>1, <2>3, AppendDeeper DEF FoundSoFar, ShallowFirst
  <2> QED
    BY <1>1, <2>4, <2>5 DEF FoundSoFar
<1> QED
  BY <1>2, <1>3, <1>4, <1>5, <1>6 DEF Next, Step

(* The files that a call returns come level by level and, below level 0, at
   most one from each level, so that the last is the oldest and deepest. *)
THEOREM OrderCorrect == Spec => []ShallowFirst
<1>1. Init => FoundSoFar /\ ShallowFirst
  BY DEF Init, FoundSoFar, ShallowFirst
<1>2. SearchInv /\ FoundSoFar /\ ShallowFirst /\ [Next]_vars
        => FoundSoFar' /\ ShallowFirst'
  BY OrderStep DEF vars, FoundSoFar, ShallowFirst
<1> QED
  BY <1>1, <1>2, SearchInvCorrect, PTL DEF Spec

-----------------------------------------------------------------------------
(* What is left of a search shrinks with every step, and there is always a
   step to take. *)
LeftOf(first, last) == last - first + 1

(* At every position of a search one of its steps is possible, and it is the
   only one. *)
CanGoOn ==
  pc = "bisect" /\ lo <= hi =>
    LET f == levels[lv][Mid]
    IN  /\ Mid \in DOMAIN levels[lv]
        /\ Before(f) \/ key > f.max_key \/ Covers(f, key)

(* A step finishes the level, passes one of its files, or halves the part of
   it that is left. *)
Advances ==
  \/ lv' = lv + 1 /\ lv < NumLevels
  \/ /\ lv' = lv /\ pc = "scan" /\ LeftOf(lo, hi) > 0
     /\ LeftOf(lo', hi') = LeftOf(lo, hi) - 1
  \/ /\ lv' = lv /\ pc = "bisect" /\ LeftOf(lo, hi) > 0
     /\ 2 * LeftOf(lo', hi') <= LeftOf(lo, hi)

LEMMA StepAdvances ==
  ASSUME SearchInv, Step
  PROVE  Advances
<1>1. lo \in Nat \ {0} /\ hi \in Nat
  BY DEF SearchInv, TypeOK
<1>2. CASE ScanFile
  BY <1>1, <1>2 DEF ScanFile, Advances, LeftOf
<1>3. CASE EndScan \/ Found \/ NotFound
  <2>1. pc \in {"scan", "bisect"} /\ lv' = lv + 1
    BY <1>3 DEF EndScan, Found, NotFound, NextLevel
  <2>2. lv < NumLevels
    BY <2>1, SearchAssumption DEF SearchInv, Position
  <2> QED
    BY <2>1, <2>2 DEF Advances
<1>4. CASE GoLeft
  <2>1. pc = "bisect" /\ lo <= hi /\ lv' = lv /\ lo' = lo /\ hi' = Mid - 1
    BY <1>4 DEF GoLeft, Before
  <2>2. 2 * (Mid - 1 - lo + 1) <= hi - lo + 1
    BY <1>1, <2>1 DEF Mid
  <2>3. Mid \in Nat
    BY <1>1, <2>1, MidBetween
  <2> QED
    BY <1>1, <2>1, <2>2, <2>3 DEF Advances, LeftOf
<1>5. CASE GoRight
  <2>1. pc = "bisect" /\ lo <= hi /\ lv' = lv /\ lo' = Mid + 1 /\ hi' = hi
    BY <1>5 DEF GoRight, BehindMid
  <2>2. 2 * (hi - (Mid + 1) + 1) <= hi - lo + 1
    BY <1>1, <2>1 DEF Mid
  <2>3. Mid \in Nat
    BY <1>1, <2>1, MidBetween
  <2> QED
    BY <1>1, <2>1, <2>2, <2>3 DEF Advances, LeftOf
<1> QED
  BY <1>2, <1>3, <1>4, <1>5 DEF Step

(* A search cannot go on for ever: wherever it is it has a step to take, and
   each step finishes a level, passes a file of level 0, or at least halves
   what is left of a level that is bisected. *)
THEOREM SearchGetsShorter == Spec => []CanGoOn /\ [][Step => Advances]_vars
<1>1. SearchInv => CanGoOn
  <2> SUFFICES ASSUME SearchInv, pc = "bisect", lo <= hi PROVE CanGoOn
    BY DEF CanGoOn
  <2>1. /\ levels \in Trees /\ lv \in Levels /\ key \in Int
        /\ Mid \in DOMAIN levels[lv]
    BY Probe
  <2>2. levels[lv][Mid].min_key \in Int /\ levels[lv][Mid].max_key \in Int
    BY <2>1, LevelFiles
  <2> QED
    BY <2>1, <2>2 DEF CanGoOn, Before, Covers
<1>2. SearchInv /\ [Next]_vars => [Step => Advances]_vars
  BY StepAdvances
<1> QED
  BY <1>1, <1>2, SearchInvCorrect, PTL DEF Spec
=============================================================================
