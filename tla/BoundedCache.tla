---------------------------- MODULE BoundedCache ----------------------------
(***************************************************************************)
(* What a shard of the simulated block cache promises to the I/O model,    *)
(* and nothing of how it chooses its victims: a set of resident blocks     *)
(* whose total size never exceeds the capacity.  A block that was looked   *)
(* up and not found is admitted once enough residents have been dropped,   *)
(* unless it could never fit.  Residents are dropped only to admit another *)
(* block, and only while that block does not fit.                          *)
(***************************************************************************)
EXTENDS BlockSums

VARIABLES cached,  \* the resident blocks
          incoming \* the block being admitted, or None

vars == <<cached, incoming>>

CacheTypeOK ==
  /\ cached \subseteq Blocks
  /\ incoming \in Blocks \cup {None}

Init == cached = {} /\ incoming = None

Fits(b) == TotalSize(cached) + Size[b] <= Capacity

Miss(b) ==
  /\ incoming = None
  /\ b \notin cached
  /\ incoming' = b
  /\ UNCHANGED cached

Drop(victim) ==
  /\ incoming # None
  /\ Size[incoming] <= Capacity
  /\ ~Fits(incoming)
  /\ cached' = cached \ {victim}
  /\ UNCHANGED incoming

Admit ==
  /\ incoming # None
  /\ Fits(incoming)
  /\ cached' = cached \cup {incoming}
  /\ incoming' = None

Reject ==
  /\ incoming # None
  /\ Size[incoming] > Capacity
  /\ incoming' = None
  /\ UNCHANGED cached

Next ==
  \/ \E b \in Blocks : Miss(b)
  \/ \E victim \in cached : Drop(victim)
  \/ Admit
  \/ Reject

SafetySpec == Init /\ [][Next]_vars

(* An admission, once begun, is carried through. *)
Spec ==
  /\ SafetySpec
  /\ WF_vars((\E victim \in cached : Drop(victim)) \/ Admit \/ Reject)

(* The resident blocks never hold more bytes than the capacity. *)
WithinCapacity == TotalSize(cached) <= Capacity
=============================================================================
