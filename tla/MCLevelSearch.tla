--------------------------- MODULE MCLevelSearch ----------------------------
(***************************************************************************)
(* Three levels over the keys 0..3: one or two overlapping files in level  *)
(* 0, every family of disjoint ranges in level 1, none or one in level 2,  *)
(* and a file of a level the tree does not have.  Keys are looked up below,*)
(* between and above the files too.                                        *)
(***************************************************************************)
EXTENDS LevelSearch, LsmTree, SequencesExt

MCNumLevels == 3
MCKeys == -1..4

RangesOf(level) ==
  {f \in [level : {level}, min_key : 0..3, max_key : 0..3] :
     f.min_key <= f.max_key}
MCFiles == UNION {RangesOf(level) : level \in 0..3}

Disjoint(S) ==
  \A f, g \in S : f # g => f.max_key < g.min_key \/ g.max_key < f.min_key

Families == {S \in SUBSET RangesOf(1) : Disjoint(S)}

Shallow == {<<[level |-> 0, min_key |-> 0, max_key |-> 3]>>,
            <<[level |-> 0, min_key |-> 2, max_key |-> 3],
              [level |-> 0, min_key |-> 1, max_key |-> 2]>>}
Deep == {<<>>, <<[level |-> 2, min_key |-> 1, max_key |-> 3]>>}
Lost == <<[level |-> 3, min_key |-> 0, max_key |-> 3]>>

MCTrees ==
  {BuildLevels(Reverse(SetToSeq(S)) \o d \o Lost \o s, MCNumLevels) :
     S \in Families, s \in Shallow, d \in Deep}
=============================================================================
