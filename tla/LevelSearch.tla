---------------------------- MODULE LevelSearch -----------------------------
(***************************************************************************)
(* LSMTree::get_ssts_for_key of harness/sim_engine: which SST files may    *)
(* hold a key.  Level 0 is scanned from its first file to its last; each   *)
(* deeper level is searched by bisection.  One iteration of either loop is *)
(* one step.  The function is called again and again on the same tree.     *)
(*                                                                         *)
(* levels is the tree's levels_, a sequence of files for each level, which *)
(* the constructor has bucketed and, from level 1 down, sorted by min_key  *)
(* (LsmTree!BuildLevels).  Positions are counted from 1.                   *)
(***************************************************************************)
EXTENDS Integers, Sequences, Functions

CONSTANTS NumLevels, \* LSMConfig::num_levels
          Files,     \* SST files: records with level, min_key, max_key
          Trees,     \* the values levels_ may have
          Keys       \* the keys looked up

Levels == 0..NumLevels - 1

(* What bisection needs of a level: its files are in the order of their
   keys and no two of them hold the same key. *)
Bisectable(files) ==
  \A i, j \in DOMAIN files : i < j => files[i].max_key < files[j].min_key

ASSUME SearchAssumption ==
  /\ NumLevels \in Nat \ {0}
  /\ Keys \subseteq Int
  /\ \A f \in Files : /\ f.min_key \in Int /\ f.max_key \in Int
                       /\ f.min_key <= f.max_key
  /\ \A t \in Trees : /\ t \in [Levels -> Seq(Files)]
                      /\ \A l \in Levels \ {0} : Bisectable(t[l])
                      /\ \A l \in Levels : \A i \in DOMAIN t[l] :
                            t[l][i].level = l

VARIABLES levels, \* levels_
          pc,     \* where the call is: "ready" when none is running
          key,    \* the key sought
          out,    \* the files found
          lv,     \* the level being searched
          lo, hi  \* the bounds of the search; lo alone scans level 0

vars == <<levels, pc, key, out, lv, lo, hi>>

Covers(f, k) == k >= f.min_key /\ k <= f.max_key

Init ==
  /\ levels \in Trees
  /\ pc = "ready"
  /\ key \in Keys
  /\ out = <<>>
  /\ lv = NumLevels
  /\ lo = 1
  /\ hi = 0

\* Fault: out is not cleared.
OutKept == out

Cleared == <<>>

Call(k) ==
  /\ pc = "ready"
  /\ key' = k
  /\ out' = Cleared
  /\ lv' = 0
  /\ lo' = 1
  /\ hi' = Len(levels[0])
  /\ pc' = "scan"
  /\ UNCHANGED levels

ScanFile ==
  /\ pc = "scan"
  /\ lo <= hi
  /\ out' = IF Covers(levels[0][lo], key) THEN Append(out, levels[0][lo])
                                            ELSE out
  /\ lo' = lo + 1
  /\ UNCHANGED <<levels, pc, key, lv, hi>>

(* The search of a level is over: go on to the next, or return. *)
NextLevel ==
  /\ lv' = lv + 1
  /\ IF lv + 1 < NumLevels
     THEN pc' = "bisect" /\ lo' = 1 /\ hi' = Len(levels[lv + 1])
     ELSE pc' = "ready" /\ UNCHANGED <<lo, hi>>
  /\ UNCHANGED <<levels, key>>

EndScan ==
  /\ pc = "scan"
  /\ lo > hi
  /\ NextLevel
  /\ UNCHANGED out

Mid == (lo + hi) \div 2

\* Fault: a file is left aside for its smallest key.
NotAbove(f) == key <= f.min_key

Before(f) == key < f.min_key

GoLeft ==
  /\ pc = "bisect"
  /\ lo <= hi
  /\ Before(levels[lv][Mid])
  /\ hi' = Mid - 1
  /\ UNCHANGED <<levels, pc, key, out, lv, lo>>

\* Fault: lo stays at mid.
FromMid == Mid

BehindMid == Mid + 1

GoRight ==
  /\ pc = "bisect"
  /\ lo <= hi
  /\ key > levels[lv][Mid].max_key
  /\ lo' = BehindMid
  /\ UNCHANGED <<levels, pc, key, out, lv, hi>>

Found ==
  /\ pc = "bisect"
  /\ lo <= hi
  /\ Covers(levels[lv][Mid], key)
  /\ out' = Append(out, levels[lv][Mid])
  /\ NextLevel

NotFound ==
  /\ pc = "bisect"
  /\ lo > hi
  /\ NextLevel
  /\ UNCHANGED out

Step == ScanFile \/ EndScan \/ GoLeft \/ GoRight \/ Found \/ NotFound

Next == (\E k \in Keys : Call(k)) \/ Step

(* The function runs to its end once called. *)
Spec == Init /\ [][Next]_vars /\ WF_vars(Step)

-----------------------------------------------------------------------------
TypeOK ==
  /\ levels \in Trees
  /\ pc \in {"ready", "scan", "bisect"}
  /\ key \in Keys
  /\ out \in Seq(Files)
  /\ lv \in 0..NumLevels
  /\ lo \in Nat \ {0}
  /\ hi \in Nat

(* The files of the first n levels that hold the key. *)
Holders(n) ==
  UNION {{f \in Range(levels[l]) : Covers(f, key)} : l \in 0..n - 1}

(* A call returns with every file whose range covers the key, on every
   level, and no other: bisection misses none. *)
FindsEveryHolder ==
  [][pc # "ready" /\ pc' = "ready" => Range(out') = Holders(NumLevels)]_vars

(* Bisection never discards the part of the level that holds the key. *)
KeyStaysInBounds ==
  pc = "bisect" =>
    \A i \in DOMAIN levels[lv] : Covers(levels[lv][i], key) => i \in lo..hi

(* The files come level by level, and at most one from each level below
   level 0.  sim_main sorts them by level once more (sim_main.cpp:205), so
   that its choice of the owner, the last file, rests on the second half
   only: one file at most is the deepest, unless all are of level 0. *)
ShallowFirst ==
  \A i, j \in DOMAIN out :
    i < j => out[i].level < out[j].level \/ out[j].level = 0

(* Every call returns. *)
SearchReturns == pc # "ready" ~> pc = "ready"
=============================================================================
