-------------------------- MODULE MCRefShardBlocks --------------------------
(* Up to three ids over the shards down to depth 2, each carrying one of   *)
(* two refs, so that repeated shards, overlapping shards, gaps and every   *)
(* tiling of the space by at most three shards occur.                      *)
EXTENDS RefShardBlocks

CONSTANTS r1, r2, rdefault

MCRefs == {r1, r2}

\* Every such list except those holding the full shard and another shard,
\* which with_ids answers with the full shard alone (see README).
MCIdInputs ==
    {s \in BoundedSeq(Id, 3) :
        (\E j \in 1..Len(s) : s[j].prefix = <<>>)
            => \A j \in 1..Len(s) : s[j].prefix = <<>>}

\* Lists that hold the full shard and one other shard.
MCIdInputsFullShard ==
    {s \in BoundedSeq(Id, 2) :
        /\ \E j \in 1..Len(s) : s[j].prefix = <<>>
        /\ \E j \in 1..Len(s) : s[j].prefix # <<>>}
=============================================================================
