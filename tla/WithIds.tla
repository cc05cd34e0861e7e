------------------------------- MODULE WithIds -------------------------------
(***************************************************************************)
(* What RefShardBlocks::with_ids promises for one workchain, as one step:  *)
(* the ids, a shard -> ShardBlockRef map in which a later id for a shard   *)
(* replaces an earlier one, become the workchain's tree when their shards  *)
(* tile the shard space, and the call fails otherwise ("wrong ids" for     *)
(* shards left over, a failed split for a gap).  A workchain without ids   *)
(* gets no tree.  RefShardBlocks, the worklist algorithm of the code,      *)
(* implements this specification.                                          *)
(***************************************************************************)
EXTENDS Naturals, Sequences, FiniteSets, SequencesExt

CONSTANTS Refs, MaxSplitDepth, IdInputs

VARIABLES
    ids,      \* the argument, a sequence of [prefix, ref]
    tree,     \* the tree returned (leaf prefix -> ref), <<>> for none
    phase     \* "pending", "done" or "failed"

Bit == {0, 1}

\* The leaf prefixes P cover every key of length MaxSplitDepth exactly once.
Tiles(P) ==
    \A k \in [1..MaxSplitDepth -> Bit] :
        Cardinality({q \in P : IsPrefix(q, k)}) = 1

\* The map the ids denote: each shard's last ref.
Collected ==
    [p \in {ids[j].prefix : j \in 1..Len(ids)} |->
        ids[CHOOSE j \in 1..Len(ids) :
               ids[j].prefix = p
               /\ \A k \in (j + 1)..Len(ids) : ids[k].prefix # p].ref]

Init == ids \in IdInputs /\ tree = <<>> /\ phase = "pending"

\* The call returns.
Return ==
    /\ phase = "pending"
    /\ IF ids = <<>> \/ Tiles(DOMAIN Collected)
       THEN phase' = "done" /\ tree' = Collected
       ELSE phase' = "failed" /\ UNCHANGED tree
    /\ UNCHANGED ids

\* The call returns: with_ids has no loop that could run forever.
Spec == Init /\ [][Return]_<<ids, tree, phase>> /\ WF_<<ids, tree, phase>>(Return)
=============================================================================
