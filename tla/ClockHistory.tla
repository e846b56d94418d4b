---------------------------- MODULE ClockHistory ----------------------------
(***************************************************************************)
(* ClockShard with history variables that record, for each resident block, *)
(* what the second-chance policy is about: the countdown its last touch    *)
(* (insert or hit) left it with, how often the hand has passed it since,   *)
(* and which blocks have been resident and untouched for longer.           *)
(* The history never guards a step, so it changes no behaviour.            *)
(***************************************************************************)
EXTENDS ClockShard

VARIABLES touch,  \* countdown right after the last touch
          passes, \* times the hand aged the block since
          elders  \* blocks resident and untouched since before that touch

historyVars == <<touch, passes, elders>>

HistoryInit ==
  /\ Init
  /\ touch = [b \in {} |-> 0]
  /\ passes = [b \in {} |-> 0]
  /\ elders = [b \in {} |-> {}]

(* b is inserted or hit by this step. *)
Touched(b) ==
  /\ b \in DOMAIN entries'
  /\ b \in Resident => entries'[b] > entries[b]

Passed(b) == b \in Resident /\ entries'[b] < entries[b]

RecordHistory ==
  /\ touch' = [b \in DOMAIN entries' |->
                 IF Touched(b) THEN entries'[b] ELSE touch[b]]
  /\ passes' = [b \in DOMAIN entries' |->
                  IF Touched(b) THEN 0
                  ELSE IF Passed(b) THEN passes[b] + 1 ELSE passes[b]]
  /\ elders' = [b \in DOMAIN entries' |->
                  {d \in DOMAIN entries' \ {b} :
                     /\ ~Touched(d)
                     /\ Touched(b) \/ d \in elders[b]}]

HistoryNext == Next /\ RecordHistory

HistorySpec ==
  /\ HistoryInit
  /\ [][HistoryNext]_<<vars, historyVars>>
  /\ Fairness

(* How often the hand must pass a block before it may evict it. *)
Survives(b) == IF touch[b] < MaxCountdown THEN touch[b] ELSE MaxCountdown

Evicted(b) == b \in Resident /\ b \notin DOMAIN entries'

-----------------------------------------------------------------------------
(* The rule the code implements, whose effect no single call shows: a block
   is evicted at the visit after exactly as many passes as the countdown of
   its last touch, three at most.  A cold data block survives two sweeps,
   which is what the comment in insert says (sim_engine.cpp:51), a metadata
   block three, and no number of hits buys more than three.  The repository
   describes it in other ways too; see SweepsAsDeclared. *)
SurvivalIsExact ==
  [][\A b \in Blocks : Evicted(b) => passes[b] = Survives(b)]_vars

(* What sim_engine.hpp:186-189 says of the same rule: "HIGH just takes 3
   sweeps to evict, LOW takes 1", and a hit brings either back to 3. *)
SweepsAsDeclared ==
  [][\A b \in Blocks : Evicted(b) =>
        \/ passes[b] = 3
        \/ b \in DataBlocks /\ passes[b] = 1]_vars

(* Among blocks that nobody has touched, the one with the smaller chance
   goes first: when a block is evicted, no block that has been waiting for
   longer and was owed fewer passes is still resident.  So a cold data block
   never outlives a metadata block inserted after it. *)
WeakerElderGoesFirst ==
  [][\A b \in Blocks : Evicted(b) =>
        \A d \in elders[b] : Survives(d) >= Survives(b)]_vars
=============================================================================
