--------------------------- MODULE RefShardBlocks ---------------------------
(***************************************************************************)
(* RefShardBlocks::with_ids in src/master.rs, for one workchain (the code  *)
(* builds each workchain's BinTree independently).  The ids are first      *)
(* collected into a HashMap shard -> ShardBlockRef, one insert per id.     *)
(* Then, unless the full shard is among them, a one-leaf tree holding the  *)
(* default ref is split along a worklist (a Vec used as a stack): each     *)
(* popped key is split, and a child whose id is in the map takes that ref  *)
(* (removing it from the map), while a child without one keeps the        *)
(* default ref and is pushed to be split further.  Ids left in the map at  *)
(* the end are "wrong ids".                                                 *)
(*                                                                         *)
(* A ShardBlockRef is a model value of Refs; ShardIdent::split fails below *)
(* MaxSplitDepth (60 bits in the code).  A tree is its leaf-prefix -> ref  *)
(* function, as in ShardHashes.                                            *)
(***************************************************************************)
EXTENDS Naturals, Sequences, FiniteSets, SequencesExt

CONSTANTS
    Refs,           \* ShardBlockRefs the ids carry
    DefaultRef,     \* ShardBlockRef::default()
    MaxSplitDepth,  \* depth below which ShardIdent::split fails
    IdInputs        \* the id sequences with_ids is called with

ASSUME DefaultRef \notin Refs

VARIABLES
    ids,          \* the argument: a sequence of [prefix, ref]
    i,            \* the next id the collecting loop inserts
    shards,       \* the HashMap shard -> ref (prefix -> ref)
    tree,         \* the BinTree being built (prefix -> ref)
    unfinished,   \* unfinished_keys, the worklist (top is the last)
    phase         \* "collect", "build", "done" or "failed"

vars == <<ids, i, shards, tree, unfinished, phase>>

Bit == {0, 1}
Prefix == UNION {[1..n -> Bit] : n \in 0..MaxSplitDepth}
Id == [prefix : Prefix, ref : Refs]

ASSUME IdInputs \subseteq Seq(Id)

Child(p, b) == Append(p, b)

\* The specification with_ids implements: its phase is pending until the
\* call returns, and its tree is what the call returns.
Contract == INSTANCE WithIds
                WITH phase <- IF phase \in {"collect", "build"} THEN "pending"
                              ELSE phase,
                     tree <- IF phase = "done" THEN tree ELSE <<>>

----------------------------------------------------------------------------

TypeOK ==
    /\ ids \in IdInputs /\ i \in 1..(Len(ids) + 1)
    /\ DOMAIN shards \subseteq Prefix /\ \A p \in DOMAIN shards : shards[p] \in Refs
    /\ DOMAIN tree \subseteq Prefix
    /\ \A p \in DOMAIN tree : tree[p] \in Refs \cup {DefaultRef}
    /\ unfinished \in Seq(Prefix)
    /\ phase \in {"collect", "build", "done", "failed"}
    /\ phase \in {"build", "done"} /\ DOMAIN tree # {} => Contract!Tiles(DOMAIN tree)

Init ==
    /\ ids \in IdInputs /\ i = 1
    /\ shards = <<>> /\ tree = <<>> /\ unfinished = <<>>
    /\ phase = "collect"

\* One iteration of the collecting loop: shards.insert(id.shard(), ref),
\* a later id for the same shard replacing the earlier.
Collect ==
    /\ phase = "collect" /\ i <= Len(ids)
    /\ shards' = (ids[i].prefix :> ids[i].ref) @@ shards
    /\ i' = i + 1
    /\ UNCHANGED <<ids, tree, unfinished, phase>>

\* The full shard among the ids becomes the single leaf and nothing else is
\* looked at; otherwise a default leaf and a worklist holding the full
\* shard.  A workchain without ids gets no tree.
StartBuild ==
    /\ phase = "collect" /\ i > Len(ids)
    /\ IF ids = <<>>
       THEN phase' = "done" /\ UNCHANGED <<tree, unfinished>>
       ELSE IF <<>> \in DOMAIN shards
       THEN /\ tree' = (<<>> :> shards[<<>>])
            /\ phase' = "done" /\ UNCHANGED unfinished
       ELSE /\ tree' = (<<>> :> DefaultRef)
            /\ unfinished' = << <<>> >>
            /\ phase' = "build"
    /\ UNCHANGED <<ids, i, shards>>

\* The split closure for one child: its ref, taken out of the map, or the
\* default ref and the child pushed to the worklist.
TakeChild(m, wl, c) ==
    IF c \in DOMAIN m
    THEN [ref |-> m[c], m |-> [p \in DOMAIN m \ {c} |-> m[p]], wl |-> wl]
    ELSE [ref |-> DefaultRef, m |-> m, wl |-> Append(wl, c)]

\* bintree.split(key, closure): the leaf at key becomes a fork.
SplitLeaf(t, key, l, r) ==
    (Child(key, 0) :> l @@ Child(key, 1) :> r)
        @@ [p \in DOMAIN t \ {key} |-> t[p]]

\* One iteration of the worklist loop: pop a key and split it, left child
\* first; key.split() fails at the depth limit and with it with_ids.
SplitStep ==
    /\ phase = "build" /\ unfinished # <<>>
    /\ LET key == Last(unfinished)
           rest == Front(unfinished)
           left == TakeChild(shards, rest, Child(key, 0))
           right == TakeChild(left.m, left.wl, Child(key, 1))
       IN  IF Len(key) = MaxSplitDepth
           THEN phase' = "failed" /\ UNCHANGED <<shards, tree, unfinished>>
           ELSE /\ tree' = SplitLeaf(tree, key, left.ref, right.ref)
                /\ shards' = right.m /\ unfinished' = right.wl
                /\ UNCHANGED phase
    /\ UNCHANGED <<ids, i>>

\* The worklist is empty: ids still in the map are "wrong ids".
FinishNoCheck ==
    /\ phase = "build" /\ unfinished = <<>>
    /\ phase' = "done"
    /\ UNCHANGED <<ids, i, shards, tree, unfinished>>

Finish ==
    /\ phase = "build" /\ unfinished = <<>>
    /\ phase' = IF DOMAIN shards = {} THEN "done" ELSE "failed"
    /\ UNCHANGED <<ids, i, shards, tree, unfinished>>

Next == Collect \/ StartBuild \/ SplitStep \/ Finish

\* with_ids is one call that runs its loops to the end.
Spec == Init /\ [][Next]_vars /\ WF_vars(Next)

----------------------------------------------------------------------------
(* Properties.                                                            *)

\* with_ids implements WithIds: it returns the tree of the ids exactly
\* when their shards tile the shard space (no id is dropped by the worklist
\* or left in a default leaf, and overlapping ids or gaps make it fail),
\* and it always returns.
WithIdsRefined == Contract!Spec
=============================================================================
