---------------------------- MODULE ShardHashes ----------------------------
(***************************************************************************)
(* The masterchain's shard topology: ShardHashes in src/master.rs, a       *)
(* dictionary workchain_id -> BinTree<ShardDescr>.  Each workchain's trie  *)
(* is represented by its leaves: a function from the leaf's bit prefix (a *)
(* sequence over {0,1}, left = 0) to the leaf's ShardDescr.  The forks of  *)
(* the trie are the strict prefixes of the leaves.  The BinTree primitives *)
(* (find, get, split, merge, update) live outside src/ and are modelled    *)
(* from the spec; the ShardHashes operations that call them, and the two   *)
(* derived queries get_new_shards and calc_shard_cc_seqno, are modelled    *)
(* from the code.                                                          *)
(*                                                                         *)
(* A ShardDescr is abstracted to the fields the queries read: seq_no (the  *)
(* block id; root/file hashes are folded into it), the split/merge intent  *)
(* flags and next_catchain_seqno.                                          *)
(***************************************************************************)
EXTENDS Naturals, Sequences, FiniteSets, SequencesExt

CONSTANTS
    Workchains,      \* basechain workchain ids that may be added
    MasterchainId,   \* the masterchain's workchain id (-1 in the code)
    MaxSplitDepth,   \* deepest shard the model splits to (a bound, below
                     \* ShardIdent's 60-bit limit, so child masks exist)
    SeqNos,          \* block sequence numbers a descriptor may carry
    CcSeqnos         \* catchain sequence numbers a descriptor may carry

ASSUME MasterchainId \notin Workchains
ASSUME MaxSplitDepth \in Nat

VARIABLE shards

vars == <<shards>>

Bit == {0, 1}
Prefix == UNION {[1..n -> Bit] : n \in 0..MaxSplitDepth}

ShardDescr == [seq_no : SeqNos, before_split : BOOLEAN,
               before_merge : BOOLEAN, next_catchain_seqno : CcSeqnos]

\* ShardDescr::default() with the fields add_workchain sets (reg_mc_seqno,
\* zerostate hashes and collators are not among the modelled fields).
DefaultDescr == [seq_no |-> 0, before_split |-> FALSE,
                 before_merge |-> FALSE, next_catchain_seqno |-> 0]

Ident(wc, p) == [workchain_id |-> wc, prefix |-> p]
Child(p, b) == Append(p, b)
Parent(p) == SubSeq(p, 1, Len(p) - 1)
Sibling(p) == [p EXCEPT ![Len(p)] = 1 - @]

\* Trie order of two leaves of one trie: left subtree before right subtree.
TrieBefore(a, b) ==
    \E i \in 1..Len(a) : i <= Len(b) /\ a[i] < b[i]
                         /\ \A j \in 1..(i - 1) : a[j] = b[j]

\* Leaves whose prefixes cover every key of length n exactly once.
IsPartition(P, n) ==
    \A k \in [1..n -> Bit] : Cardinality({q \in P : IsPrefix(q, k)}) = 1

NoRecord == [found |-> FALSE]

----------------------------------------------------------------------------
(* BinTree primitives, modelled from the spec (section 4.1).              *)

\* find: the leaf reached by descending along key; none when the key is
\* exhausted at a fork.
BtFind(tree, key) ==
    IF \E q \in DOMAIN tree : IsPrefix(q, key)
    THEN LET q == CHOOSE q \in DOMAIN tree : IsPrefix(q, key)
         IN [found |-> TRUE, key |-> q, descr |-> tree[q]]
    ELSE NoRecord

\* get: the value of the leaf exactly at key; none at a fork or below a
\* leaf.
BtGet(tree, key) ==
    IF key \in DOMAIN tree THEN [found |-> TRUE, descr |-> tree[key]]
    ELSE NoRecord

\* split: the leaf exactly at key becomes a fork of two new leaves.
BtSplit(tree, key, l, r) ==
    (Child(key, 0) :> l @@ Child(key, 1) :> r)
        @@ Restrict(tree, DOMAIN tree \ {key})

\* merge: a fork at key whose children are both leaves becomes one leaf.
BtMerge(tree, key, m) ==
    (key :> m) @@ Restrict(tree, DOMAIN tree \ {Child(key, 0), Child(key, 1)})

----------------------------------------------------------------------------
(* ShardHashes operations.                                                *)

TypeOK ==
    /\ DOMAIN shards \subseteq Workchains
    /\ \A wc \in DOMAIN shards :
         /\ DOMAIN shards[wc] \subseteq Prefix
         /\ \A q \in DOMAIN shards[wc] : shards[wc][q] \in ShardDescr
         /\ IsPartition(DOMAIN shards[wc], MaxSplitDepth)

Init == shards = <<>>

\* add_workchain: fails if present, else a single-leaf trie over the whole
\* shard space.
AddWorkchain(wc) ==
    /\ wc \notin DOMAIN shards
    /\ shards' = (wc :> (<<>> :> DefaultDescr)) @@ shards

\* split_shard: the workchain must exist and the leaf be found exactly at
\* the shard's key; the splitter's two descriptors become the children and
\* the whole trie is stored back.  Any failure leaves shards untouched.
SplitShard(wc, s) ==
    /\ wc \in DOMAIN shards
    /\ s \in DOMAIN shards[wc]
    /\ Len(s) < MaxSplitDepth
    /\ \E l, r \in ShardDescr :
         shards' = [shards EXCEPT ![wc] = BtSplit(@, s, l, r)]

\* merge_shards: the node at new_shard's key must be a fork of two leaves.
MergeShards(wc, p) ==
    /\ wc \in DOMAIN shards
    /\ Child(p, 0) \in DOMAIN shards[wc]
    /\ Child(p, 1) \in DOMAIN shards[wc]
    /\ \E m \in ShardDescr :
         shards' = [shards EXCEPT ![wc] = BtMerge(@, p, m)]

\* update_shard: replace the descriptor of the leaf exactly at the key.
UpdateShard(wc, s) ==
    /\ wc \in DOMAIN shards
    /\ s \in DOMAIN shards[wc]
    /\ \E d \in ShardDescr : shards' = [shards EXCEPT ![wc][s] = d]

Next ==
    \/ \E wc \in Workchains : AddWorkchain(wc)
    \/ \E wc \in Workchains, s \in Prefix :
         \/ SplitShard(wc, s)
         \/ MergeShards(wc, s)
         \/ UpdateShard(wc, s)

Spec == Init /\ [][Next]_vars

----------------------------------------------------------------------------
(* Queries.                                                               *)

\* find_shard: the leaf on the path of the shard's key, as a McShardRecord.
FindShard(sh) ==
    IF sh.workchain_id \in DOMAIN shards
    THEN BtFind(shards[sh.workchain_id], sh.prefix)
    ELSE NoRecord

\* find_shard_by_prefix: find_shard with the full key of an account prefix.
FindShardByPrefix(wc, account) ==
    IF wc \in DOMAIN shards THEN BtFind(shards[wc], account) ELSE NoRecord

\* get_shard: the leaf exactly at the shard's key, as a record for the
\* shard asked for (shard.clone()).
GetShard(sh) ==
    LET g == IF sh.workchain_id \in DOMAIN shards
             THEN BtGet(shards[sh.workchain_id], sh.prefix) ELSE NoRecord
    IN  IF g.found THEN [found |-> TRUE, key |-> sh.prefix, descr |-> g.descr]
        ELSE NoRecord

\* The block id of a leaf (McShardRecord::from_shard_descr).
BlockId(wc, q) == [shard |-> Ident(wc, q), seq_no |-> shards[wc][q].seq_no]

\* One iteration of get_new_shards over a leaf; acc.map is the HashMap,
\* acc.ok turns FALSE when shard.merge() fails (the full shard).
NewShardsStepOverwrite(acc, leaf) ==
    LET wc == leaf[1]  q == leaf[2]  d == shards[wc][q]  bid == BlockId(wc, q)
    IN  IF ~acc.ok THEN acc
        ELSE IF d.before_split
        THEN [acc EXCEPT !.map = (Ident(wc, Child(q, 0)) :> <<bid>>
                                  @@ Ident(wc, Child(q, 1)) :> <<bid>>) @@ @]
        ELSE IF d.before_merge
        THEN IF Len(q) = 0 THEN [acc EXCEPT !.ok = FALSE]
             ELSE [acc EXCEPT !.map = (Ident(wc, Parent(q)) :> <<bid>>) @@ @]
        ELSE [acc EXCEPT !.map = (Ident(wc, q) :> <<bid>>) @@ @]

NewShardsStep(acc, leaf) ==
    LET wc == leaf[1]  q == leaf[2]  d == shards[wc][q]  bid == BlockId(wc, q)
        p == Ident(wc, Parent(q))
    IN  IF ~acc.ok THEN acc
        ELSE IF d.before_split
        THEN [acc EXCEPT !.map = (Ident(wc, Child(q, 0)) :> <<bid>>
                                  @@ Ident(wc, Child(q, 1)) :> <<bid>>) @@ @]
        ELSE IF d.before_merge
        THEN IF Len(q) = 0 THEN [acc EXCEPT !.ok = FALSE]
             ELSE [acc EXCEPT !.map =
                     (p :> (IF p \in DOMAIN @ THEN Append(@[p], bid)
                                             ELSE <<bid>>)) @@ @]
        ELSE [acc EXCEPT !.map = (Ident(wc, q) :> <<bid>>) @@ @]

\* Every (workchain, leaf) in iterate_shards order: workchains in turn,
\* each trie left before right.
LeavesInOrder ==
    LET wcs == SetToSeq(DOMAIN shards)
        leavesOf(wc) == SetToSortSeq(DOMAIN shards[wc], TrieBefore)
    IN  FoldLeft(LAMBDA s, wc : s \o [i \in 1..Len(leavesOf(wc)) |->
                                        <<wc, leavesOf(wc)[i]>>],
                 <<>>, wcs)

\* get_new_shards
GetNewShards ==
    FoldLeft(NewShardsStep, [ok |-> TRUE, map |-> <<>>], LeavesInOrder)

\* calc_shard_cc_seqno, with right_ancestor_mask replaced by the left one.
CalcShardCcSeqnoLeftTwice(sh) ==
    LET p == sh.prefix
        s1 == FindShard(Ident(sh.workchain_id, Child(p, 0)))
        s2 == FindShard(Ident(sh.workchain_id, Child(p, 0)))
    IN  IF sh.workchain_id = MasterchainId \/ ~s1.found
        THEN [ok |-> FALSE]
        ELSE IF IsPrefix(s1.key, p)
        THEN [ok |-> TRUE, val |-> s1.descr.next_catchain_seqno]
        ELSE IF s1.key # Child(p, 0) \/ ~s2.found \/ s2.key # Child(p, 1)
        THEN [ok |-> FALSE]
        ELSE [ok |-> TRUE, val |-> Max({s1.descr.next_catchain_seqno,
                                        s2.descr.next_catchain_seqno}) + 1]

\* calc_shard_cc_seqno: shard1 is the leaf on the path of the left child
\* mask; if it is an ancestor of (or equal to) the shard its catchain
\* seqno is returned as is; otherwise both children must be leaves and the
\* result is the larger of their seqnos plus one.
CalcShardCcSeqno(sh) ==
    LET p == sh.prefix
        s1 == FindShard(Ident(sh.workchain_id, Child(p, 0)))
        s2 == FindShard(Ident(sh.workchain_id, Child(p, 1)))
    IN  IF sh.workchain_id = MasterchainId \/ ~s1.found
        THEN [ok |-> FALSE]
        ELSE IF IsPrefix(s1.key, p)
        THEN [ok |-> TRUE, val |-> s1.descr.next_catchain_seqno]
        ELSE IF s1.key # Child(p, 0) \/ ~s2.found \/ s2.key # Child(p, 1)
        THEN [ok |-> FALSE]
        ELSE [ok |-> TRUE, val |-> Max({s1.descr.next_catchain_seqno,
                                        s2.descr.next_catchain_seqno}) + 1]

----------------------------------------------------------------------------
(* Reference definitions of the next shard set.                           *)

\* The intents are consistent when every leaf flagged before_merge (and not
\* before_split, which takes precedence in the code) has a leaf sibling
\* flagged the same way.
MergeIntent(d) == d.before_merge /\ ~d.before_split

ConsistentIntents ==
    \A wc \in DOMAIN shards : \A q \in DOMAIN shards[wc] :
        MergeIntent(shards[wc][q]) =>
            /\ Len(q) > 0
            /\ Sibling(q) \in DOMAIN shards[wc]
            /\ MergeIntent(shards[wc][Sibling(q)])

\* The shards a leaf turns into at the next masterchain block.
Successors(wc, q) ==
    LET d == shards[wc][q] IN
    IF d.before_split THEN {Ident(wc, Child(q, 0)), Ident(wc, Child(q, 1))}
    ELSE IF d.before_merge THEN {Ident(wc, Parent(q))}
    ELSE {Ident(wc, q)}

ExpectedNewShards ==
    LET keys == UNION {UNION {Successors(wc, q) : q \in DOMAIN shards[wc]} :
                         wc \in DOMAIN shards}
        from(k) == SetToSortSeq({q \in DOMAIN shards[k.workchain_id] :
                                   k \in Successors(k.workchain_id, q)},
                                TrieBefore)
    IN  [k \in keys |-> [i \in 1..Len(from(k)) |->
                           BlockId(k.workchain_id, from(k)[i])]]

\* The catchain seqno the new shard's session starts from: the leaf's own
\* for an unchanged or split shard, max of the two plus one after a merge.
ExpectedCcSeqno(k) ==
    LET t == shards[k.workchain_id]
        q == k.prefix
    IN  IF Child(q, 0) \in DOMAIN t
        THEN Max({t[Child(q, 0)].next_catchain_seqno,
                  t[Child(q, 1)].next_catchain_seqno}) + 1
        ELSE t[CHOOSE l \in DOMAIN t : IsPrefix(l, q)].next_catchain_seqno

----------------------------------------------------------------------------
(* Properties.                                                            *)

\* get_new_shards, folding HashMap inserts over the leaves, derives exactly
\* the next shard set the split/merge intents describe: children of split
\* leaves with the parent's block id, one parent per merging pair carrying
\* both block ids left then right, the other leaves as they are; and the
\* result covers each workchain's key space once.  Holds whenever the
\* intents are consistent; the code does not itself check them.
NewShardsCorrect ==
    ConsistentIntents =>
        LET g == GetNewShards IN
        /\ g.ok
        /\ g.map = ExpectedNewShards
        /\ \A wc \in DOMAIN shards :
             IsPartition({k.prefix : k \in {k \in DOMAIN g.map :
                                               k.workchain_id = wc}},
                         MaxSplitDepth + 1)

\* calc_shard_cc_seqno succeeds on every shard get_new_shards yields and
\* returns the parent's seqno for a split child, its own for an unchanged
\* shard and max + 1 for the parent of a merge: the asymmetric ancestor
\* and parent checks in the code must agree with the topology.
CcSeqnoOfNewShards ==
    ConsistentIntents =>
        \A k \in DOMAIN GetNewShards.map :
            LET c == CalcShardCcSeqno(k) IN c.ok /\ c.val = ExpectedCcSeqno(k)

=============================================================================
