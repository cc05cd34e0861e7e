# TLA+ models of the masterchain structures in `src/master.rs`

This directory holds TLA+ models of the masterchain data structures in
`src/src/master.rs`, with TLC configurations that check them. Every
operator is written from the Rust source. The exception is the primitives
that live outside `src/`: `BinTree`, the `HashmapAug` traversal,
`ShardIdent` and the cell builder's 1023-bit capacity. Those are modelled from `spec.md` and marked
`spec_modelled` in `PROJECT.json`.

## 1. The system

`master.rs` is a library of value types with no threads and no I/O. Every
operation is a synchronous function on an immutable-by-replacement value
(spec §5). The parts are:

| Part | Code | State | Operations that change it |
|---|---|---|---|
| Shard topology | `ShardHashes` (l. 40, 93–285) | workchain id → `BinTree<ShardDescr>` | `add_workchain`, `split_shard`, `merge_shards`, `update_shard` |
| Shard queries | same | (reads) | `find_shard`, `get_shard`, `get_neighbours`, `get_new_shards`, `calc_shard_cc_seqno` |
| Key-block index | `OldMcBlocksInfo`, `KeyMaxLt`, `KeyExtBlkRef` (l. 634–847) | seq_no (u32) → (key flag, end_lt, ref), with the aggregate (OR of key flags, max end_lt) at every node | `set` (dictionary), queries `get_prev_key_block`, `get_next_key_block`, `check_key_block` |
| Decaying counters | `Counters`, `umulnexps32` (l. 888–1005) | `last_updated`, `total`, `cnt2048`, `cnt65536` | `increase_by(count, now)` |
| Shard fee ledger | `ShardFees`, `ShardFeeCreated` | shard → fees, summed per subtree | `store_shard_fees` |
| Codecs | `ShardDescr` (tags A–G), `McBlockExtra` (3 tags), `McStateExtra` (flag mask), `ShardCollators` (2 tags), `CollatorRange`, `FutureSplitMerge`, `BlockCreateStats`, `CreatorStats`, `Counters`, mesh and library descriptors | – | `read_from` / `write_to` |
| Referenced shard blocks | `RefShardBlocks::with_ids` (l. 1615–1665) | builds a `BinTree<ShardBlockRef>` per workchain | a split worklist |

How the parts interact: `McBlockExtra` and `McStateExtra` carry a
`ShardHashes`. The validator uses `get_new_shards` to predict the next
shard set, and uses `calc_shard_cc_seqno` on each predicted shard to start
its catchain session. The key-block index is queried by seq_no when a new
validator epoch is looked up. `CreatorStats` holds two `Counters`.

### What makes it hard

Nothing here runs concurrently. What is hard to test is the algorithms
over all shapes of their input:

* **Trie topology.** A sequence of split, merge and update calls must keep
  the leaves a partition of the key space. `get_new_shards` folds HashMap
  inserts over the leaves in trie order: a merged parent accumulates the
  block ids of its two children, while the other shards are inserted or
  overwritten. `calc_shard_cc_seqno` uses asymmetric checks: it finds the
  left child's leaf, accepts it if it is an ancestor of the shard, and
  otherwise demands that both children are leaves.
* **Pruned descent.** `get_prev_key_block` and `get_next_key_block` prune
  on the aggregate key flag. They compare `req >> (d-1)` with `2x` or
  `2x+1` and visit the children in a chosen order. One off-by-one or a
  swapped order returns a wrong key block only for some shapes of the
  trie. `build_key_part` shifts a u32 by `32 - prefix_len`, which is a
  shift by 32 at a root with no common label.
* **Fixed-point counters.** The counters use u64 fields, `count << 32`,
  overflow guards written with `!x`, a saturating `dt`, a reset threshold,
  and a first-observation path with no checks at all.
* **Codecs.** Seven ShardDescr tag generations are chosen by which optional
  parts are present, and the reader must find each part where the writer
  put it under that tag. McStateExtra announces its optional parts in a
  flag mask and reads them back in a fixed order. McBlockExtra encodes its
  serialization options only in the tag, which the caller's options pick.
  ShardCollators picks its tag, and with it whether the ranges' mempools
  are written at all, from a different field (the validator stats).
* **The worklist.** `RefShardBlocks::with_ids` builds a tree from a bag of
  ids by splitting a default leaf until every id has a leaf, popping keys
  from a stack, removing found ids from a map and failing on leftovers.

## 2. Modules

| Module | Models | State | Actions |
|---|---|---|---|
| `ShardHashes` | shard topology and its queries | `shards`: workchain → (leaf prefix ↦ descriptor) | `AddWorkchain`, `SplitShard`, `MergeShards`, `UpdateShard` |
| `KeyBlockIndex` | OldMcBlocksInfo and both key-block queries | `blocks`: seq_no ↦ [key, end_lt] | `SetBlock` |
| `Counters` | `Counters::increase_by`, `is_valid`, `umulnexps32` | the four fields and the last call's result | `IncreaseBy` (four disjuncts: refused invalid, first observation, refused overflow, accumulate) |
| `CellCodec` | cells as the codecs see them: `BuilderData` appends and `SliceData` reads | (operators only) | |
| `ShardDescrCodec` | `ShardDescr::write_to`, `read_from`, `FutureSplitMerge` | `mem`, `stored`, `wire`, `phase` | `Store` (serialize), `Load` (construct_from) |
| `McStateExtraCodec` | `McStateExtra::write_to`, `read_from` | `state_extra`, `state_stored`, `state_wire`, `state_phase` | `StoreStateExtra`, `LoadStateExtra` |
| `McBlockExtraCodec` | `McBlockExtra::write_with_opts`, `write_to`, `read_from` | `block_extra`, `block_stored`, `block_opts`, `block_wire`, `block_phase` | `StoreBlockExtra` (with either option), `LoadBlockExtra` |
| `CollatorsCodec` | `ShardCollators::write_to`, `construct_from`, `CollatorRange::write_with_opts`, `construct_from_with_opts` | `coll_mem`, `coll_stored`, `coll_wire`, `coll_phase` | `StoreCollators`, `LoadCollators` |
| `CreatorStatsCodec` | `BlockCreateStats`, `CreatorStats` and `Counters` `write_to` / `read_from` | `stats_mem`, `stats_stored`, `stats_wire`, `stats_phase` | `StoreStats`, `LoadStats` |
| `McBlockExtraApi` | `McBlockExtra`'s constructors, `write_recover_create_msg`, `write_mint_msg`, `write_copyleft_msgs`, `read_copyleft_msgs` | `api_opts`, `api_recover`, `api_mint`, `copyleft` (key ↦ message), `api_written` | `WriteRecoverCreateMsg`, `WriteMintMsg`, `WriteCopyleftMsgs` |
| `DescriptorCodecs` | `ConnectedNwDescr`, `ConnectedNwOutDescr`, `ConnectedNwDescrExt`, `MsgPackProcessingInfo`, `LibDescr`: `write_to` / `read_from`, and LibDescr's constructors and `publishers_mut` | `desc_mem`, `desc_stored`, `desc_wire`, `desc_phase` | `DescWrite`, `DescRead`, `LibNew`, `LibFromPublisher`, `LibSetPublisher`, `LibRemovePublisher` |
| `RefShardBlocks` | `RefShardBlocks::with_ids` for one workchain | `ids`, `i`, `shards` (the HashMap), `tree`, `unfinished`, `phase` | `Collect`, `StartBuild`, `SplitStep`, `Finish` |
| `WithIds` | what `with_ids` promises, as one step | `ids`, `tree`, `phase` | `Return` |
| `MCValues` | the topology, the six codecs and the counters side by side, one per behaviour | a `part` selector and the parts' variables | each part's actions |
| `MC*` (others) | the instantiations for TLC | | |

**ShardHashes.** A `BinTree` is represented by its leaves: a function from
the leaf's bit prefix to its descriptor. The forks are the strict prefixes
of leaves. `BtFind`, `BtSplit` and `BtMerge` model the primitives of spec
§4.1. Each ShardHashes action translates one method: the guard is the
method's early returns ("Can't find workchain", "... is not found"), and
the splitter, merger or mutator is a nondeterministic choice of
descriptors. A failing call leaves `shards` unchanged, because the code
mutates a copy of the trie and stores it only on success, so no step is
taken. `GetNewShards` is a `FoldLeft` over the leaves in `iterate_shards`
order, with HashMap insert and `entry().or_insert().push()` semantics.
`CalcShardCcSeqno` keeps every branch of the code, including its two
failure branches. A descriptor is reduced to the fields the queries read:
`seq_no`, `before_split`, `before_merge` and `next_catchain_seqno`.
`GetShard` (exact leaf, record for the ident asked for) and
`FindShardByPrefix` (find with an account's full key) are operators over
`BtGet` and `BtFind`. No property checks them: each is one library lookup,
and an agreement between them would follow from the leaves being a
partition, which the BinTree model guarantees.

**KeyBlockIndex.** The dictionary is a Patricia trie, so the traversal
calls the callback only at branching nodes (`NodeAt`, the longest common
prefix under a node) and at leaves. `PrevStep` and `NextStep` are the two
closures, line for line. `AugAt` folds `Calc` (KeyMaxLt::calc) over the
entries under a node. `BuildKeyPart` keeps the shift by 32: the constant
`OverflowChecks` selects the build, where TRUE panics and FALSE masks the
shift. The key width `KeyBits` is 4 instead of 32. The algorithm is the
same for any width, and 4 bits give tries of every shape up to depth 4.

**Counters.** `Width` (64 in the code) and `Shift` (32) are constants.
`Not`, `Scaled` (`count << 32`, which drops high bits) and the guard keep
their width. The additions of the accumulate path are left unbounded, so
TypeOK, which keeps every field in `Word`, says that no `+=` overflows.
`umulnexps32` computes in f64; it is modelled as either integer neighbour
of `x·ExpFactor[k]/2^16`, where `ExpFactor` tabulates `round(2^16·e^{-k/2^16})`
for the `k` the clock values produce. `dt` saturates at 0 when the clock
goes back (`saturating_sub`).

**Codecs.** A cell is a record of data items, read in order, and
references, drained in order (`CellCodec`). A fixed-width integer or hash
is one opaque item, so the model checks the layout, not the bit widths.
An `Option` is `<<>>` or `<<payload>>`, written as a presence bit and the
payload. A `HashmapE` is 0 when empty, else its payload, written as a bit
and a reference. Each codec module is a round trip: `Store` runs the
whole `write_to` on the value in memory (a refusal ends the round trip),
and `Load` runs the whole `read_from` on a default value. The two repeat,
as a state is saved, read and saved again. The property is that what is
loaded equals what was stored. `ShardDescr` keeps the five intents, the
`flags` field, `split_merge_at` and the five optional parts; the other
header integers are one item (`seq_no`). In `McBlockExtra` a message is its
payload, the options its cell was built with and the options its
`ChildCell` will parse it with. The inputs the API can build
(`BlockInputsBuilt`) have the struct's own options in both, because
`write_recover_create_msg` and `write_mint_msg` use them.

`CollatorsCodec` keeps the five ranges (two optional), `updated_at` and the
stats dictionary. A mempool is a sequence of node ids; `MEMPOOL_MAX_LEN`
is the constant `MempoolMaxLen`. `write_to` takes tag 2 and the mempool
option exactly when the stats are non-empty. `CollatorRange::write_with_opts`
refuses a mempool over the bound before it looks at the option
(`WriteCollatorRange`), and writes the length and nodes only under it
(`RangeCell`). The reader mirrors that, with its own bound check. `CollatorsBits` counts
the bits `write_to` appends to its one builder (tag, five ranges, the
option bits, `updated_at`, the stats root), and `WriteCollators` fails
when they exceed the 1023 bits of a cell (`CellBits`); references are
not counted against it.
`CreatorStatsCodec` writes each creator's `CreatorStats` (tag 4 and two
`Counters`, four fields each) into one referenced cell per dictionary
entry, keys in ascending order. `read_from` reads only the dictionary
root, and the entries are parsed when they are accessed. `LoadStats`
parses them all, as iterating the dictionary does.

`DescriptorCodecs` keeps each descriptor's tag, its fields in wire order,
`ConnectedNwOutDescr`'s queue update by reference, the optional
`ConnectedNwDescr` inline after it in `ConnectedNwDescrExt`, and
`LibDescr`'s library by reference ahead of the publisher root. A
descriptor in memory is a kind and a value, read back by the reader of
its kind. `LibDescr::write_to` refuses an empty publisher set; `LibNew`
builds such a value, and `LibRemovePublisher` can return to it.

`McBlockExtraApi` is McBlockExtra as its owner builds it before it is
serialized. The copyleft dictionary is a function from the keys set so
far to messages, so a second `write_copyleft_msgs` with a shorter list
leaves the tail of the first, as the code does. `ReadCopyleftMsgs` is the
read loop over keys `0..len()-1`, failing on a gap. A message carries the
options its cell was built with. The setters never change `serde_opts`, so
every message they build has the struct's options; only `read_from`
changes them, and it is modelled on a default value in
`McBlockExtraCodec`.

**Composition of the value types.** The topology, the codecs and the
counters share no state: each value is its own struct, serialized into
its own cell. `MCValues` therefore checks them as a sum, not a product. A
`part` variable picks one part in `Init`, that part starts from each of
its inputs, and the others stay at their default value (a codec instance
whose input set is `{Default}`, the empty topology, zero counters).
`Next` steps only the picked part. The state space is the sum of the
parts' spaces, where the product of only the two extras was 884k. The constant
`Unrestricted` selects every input (the violation runs) or only the inputs
section 8 round-trips (the pass run).

**RefShardBlocks.** Each loop iteration of `with_ids` is one step:
`Collect` is one `HashMap::insert`. `StartBuild` takes the full-shard
early return or sets up the default leaf and the worklist. `SplitStep` pops
the last key and runs `BinTree::split` with the closure (`TakeChild`,
left then right). `Finish` is the wrong-ids check. `ShardIdent::split`
fails below `MaxSplitDepth` (60 bits in the code, 2 here), which is what
ends the loop for ids that do not cover the space.

`WithIds` states the contract in one step `Return`. The ids denote the
map `Collected`, in which a later id for a shard replaces an earlier one.
When their shards tile the shard space, `Collected` becomes the tree;
otherwise the call fails. A workchain without ids gets no tree.
`RefShardBlocks` implements it under the refinement mapping
`phase <- IF phase ∈ {collect, build} THEN "pending" ELSE phase` and
`tree <- IF phase = "done" THEN tree ELSE <<>>`. Every `Collect`,
`StartBuild` and `SplitStep` step is a stuttering step of the contract, and
the step that ends the call is `Return`. The contract's `WF(Return)`
becomes the liveness claim that the worklist always ends.

## 3. Runs

| Run | Expect | Checks | Shows |
|---|---|---|---|
| `keyblock_index` | pass | `TypeOK`, `PrevKeyBlockCorrect`, `NextKeyBlockCorrect` | Every set of up to 3 entries over 16 keys, with key flags and two end_lts (38k states). Both descents agree with a linear scan for every request. |
| `keyblock_debug` | violation | `PrevKeyBlockCorrect` | With overflow checks, entries {0, 8} (top bits differ) make `build_key_part(_, 0)` panic. |
| `values` | pass | `TypeOK`, `NewShardsCorrect`, `CcSeqnoOfNewShards`, `RoundTrip`, `StateRoundTrip`, `BlockRoundTripOwnOpts`, `MempoolBoundEnforced`, `CollatorsRoundTrip`, `StatsRoundTrip`, `DescriptorsRoundTrip`, `CopyleftReadsLastWrite`, `NoDecayWithoutElapsedTime` | One part per behaviour. **Topology:** every topology of one workchain up to depth 2, with every intent flag and seqno choice. The leaves stay a partition, `get_new_shards` equals the successor set derived from the intents, and `calc_shard_cc_seqno` gives each new shard its parent's seqno (split), its own (unchanged) or max+1 (merge).  **McBlockExtra API:** every sequence of setter calls from either constructor, with copyleft lists of up to two messages: `read_copyleft_msgs` never fails and starts with the last list written. **Codecs:** every ShardDescr over its optional parts, intents, `flags` ∈ {0,1} and `FutureSplitMerge`, except mesh queues together with pack_info; every McStateExtra; every McBlockExtra the API can build; every ShardCollators with mempools of 0, 1 or 2 nodes (bound 1), except a mempool within the bound without stats; every BlockCreateStats over two creators; every mesh and library descriptor over two field values, with the library constructors and publisher edits. Everything section 8 covers reads back equal over repeated cycles; `ShardCollators::write_to` refuses exactly the values with a range over the bound. **Counters:** width 5, shift 2, counts {0,1,5}, clock {0,1000,101000}: the overflow guard prevents every overflow of the accumulate path (`TypeOK`), and a clock that stands still or goes back decays neither window. |
| `shard_descr_mesh` | violation | `RoundTrip` | With mesh queues and pack_info, tag G is written with the mesh appended, and read back without it. |
| `mc_block_serialize` | violation | `BlockRoundTrip` | A McBlockExtra serialized with other options than its own reads back with different `serde_opts`. |
| `collators_mempool` | violation | `CollatorsRoundTrip` | A ShardCollators with a one-node mempool in `next2` and no stats is written under tag 1 and reads back with an empty mempool. |
| `collators_capacity` | violation | `MempoolBoundEnforced` | With `MEMPOOL_MAX_LEN = 9` and validator stats, four ranges of nine nodes need 1054 bits and `write_to` fails on the full builder, although every range is within the bound. |
| `ref_shard_full` | violation | `WithIdsRefined` | The ids [full shard, its left child] make `with_ids` return the one-leaf tree of the full shard; the contract, like the worklist path, fails on overlapping ids. |
| `ref_shard_blocks` | pass | `WithIdsRefined` | Every list of ≤ 3 ids over the 7 shards to depth 2 with two refs, except the full shard beside other shards (15k states). The worklist algorithm implements `WithIds`: it always returns, with the tree of the ids exactly when they tile the space and with an error otherwise. |
| `counters_valid` | violation | `CountersValid` | `increase_by(1, 0)` on a zero counter leaves `total=1, last_updated=0`, which `is_valid` rejects. |
| `counters_wrap` | violation | `NoWrapOnAccept` | The first observation of a count of 2^(Width−Shift) stores windows of 0: `count << 32` wrapped. |
| `counters_reset` | violation | `LongWindowReset` | After `dt ≥ 48·2048` the code zeroes `cnt2048`, not `cnt65536` as spec §4.4 says. |

Every property of a pass run has a mutant in `PROJECT.json`: a plausible bug
in the mapped code (an overflow guard that tests only the total, an
overwrite in place of the push, the left mask used twice, a swapped visit order, an
off-by-one in the prune, a sum in place of the max of end_lt, a swapped tag precedence,
optional parts read out of order, tag 2 taken as common-message, the
mempool bound checked only where the mempool is written, a node loop one
short, the two counter windows read swapped, the wrong-ids check dropped, `dt` taken as an absolute
difference, two ConnectedNwDescr hashes read swapped, copyleft keys counted from 1),
and TLC finds each
one. The counter violation runs and the three codec violation runs use
`MCValues` with `Parts` restricted to the part in question.

### Bounds

* ShardHashes: `MaxSplitDepth = 2` (7 possible leaf prefixes), seq_nos and
  catchain seqnos `{0,1}`, and one workchain. Depth 2 is the smallest
  depth with a merge beside an unsplit sibling and a split below a merge.
  A second workchain only repeats the per-workchain fold.
* KeyBlockIndex: 4-bit keys and up to 3 entries. Every Patricia-trie
  shape with ≤ 3 leaves occurs, at every depth of divergence, including
  the root (label length 0).
* Counters: the width is shrunk to 5 bits and the shift to 2, so that the
  guard bites at the counts used. The clock values give `dt = 0` and a
  clock that goes back, a short decay (1000) and a gap over the reset
  threshold (100000, 101000).

* Codecs: `Values = {0}` (the pass-through fields carry no logic) and
  `Payloads = {1}` or `{1,2}`. Two distinct payloads matter where two
  optional parts could be read from each other's place (McStateExtra's
  dictionaries); McBlockExtra's parts never share a place, so one is used.
  `flags ∈ {0,1}` covers both sides of the `flags & 7` refusal. The field
  itself is never written or read, so a value of 8 or more would come
  back as 0; the domain leaves that out (a hazard in `PROJECT.json`).
  ShardCollators: `MempoolMaxLen = 1` and one node id. Each range then
  holds a mempool below, at and one over the bound; the check is the same
  comparison for 9. `collators_capacity` sets the bound to 9 as in the
  code, with inputs whose ranges hold an empty or a full mempool, so that
  the bit count reaches the cell's capacity. BlockCreateStats: two creators (an empty, a one-entry
  and a two-entry dictionary) and two Counters, one with four distinct
  fields. Mesh and library descriptors: two values per field, so that
  any two fields read from each other's place differ, and two publishers,
  so that a library gains a second one and loses its last.
* McBlockExtra API: two payloads and copyleft lists of length ≤ 2, so
  that a shorter list follows a longer one and a later list differs from
  an earlier one; both constructors give both serde options.
* RefShardBlocks: three ids reach every tiling by ≤ 3 shards, a gap, an
  overlap and a duplicate. The pass run leaves out lists that hold the
  full shard beside other shards (finding 9); `ref_shard_full` checks
  exactly those, of length ≤ 2.

### Fairness

The topology, key-block and counter runs, and the codecs, check safety
only: the code has no waiting, every operation is one synchronous call.
`ref_shard_blocks` assumes weak fairness of `Next`: `with_ids` is one call
whose loops run until they return or fail, so an enabled step is taken.
The contract `WithIds` has weak fairness of `Return`, for the same reason.

## 4. Findings

1. `build_key_part` (l. 843) panics in a build with overflow checks when
   two stored seq_nos differ in the top bit (seq_no ≥ 2^31). Spec §7(e)
   says the lookup returns an Option.
2. `increase_by` on a zero counter with `now = 0` (l. 946) produces a
   counter that violates the spec §3 invariant and refuses forever after.
3. `count << 32` (l. 945) wraps silently on the unchecked first-observation
   path, while spec §7(d) says the counter refuses rather than wraps.
4. The reset for `dt ≥ 48·2048` (l. 960) zeroes the short window; spec §4.4
   and §8 say the long window.

5. `ShardDescr::read_from` reads the mesh queues only under tag F
   (l. 1996), while `write_to` writes them whenever present (l. 2090), also
   under tag G: a descriptor with pack_info and mesh queues loses its mesh
   queues on a round trip.
6. `McBlockExtra::write_to` (l. 589) always writes with empty options, and
   `read_from` takes the options from the tag. The struct's own
   `serde_opts` do not survive `serialize()`; its messages are then parsed
   with options other than those they were built with.

7. `ShardCollators::write_to` (l. 1510) writes the ranges' mempools only
   when the validator stats are non-empty. A value with a mempool and no
   stats reads back with empty mempools and no error. Spec §8 says every
   tag variant round-trips, and spec §7(c) says values are never silently
   coerced.

8. The comment at l. 1398 says nine mempool nodes per range fit because
   all ranges share one cell. Four full ranges under tag 2 take 1054
   bits and five take 1198, more than a cell's 1023, so `write_to` fails
   on values within `MEMPOOL_MAX_LEN` (run `collators_capacity`).
9. `with_ids` returns the full shard alone and ignores every other id when
   the full shard is among them (l. 1634), without the wrong-ids check
   the worklist path makes on overlapping ids (run `ref_shard_full`).

## 5. Not modelled, and the plan

Modelled: the topology, the key-block index, the counters, the
ShardDescr, McStateExtra, McBlockExtra, ShardCollators (with its bit
count), BlockCreateStats and mesh and library descriptor codecs, and
`RefShardBlocks::with_ids` with its contract, and McBlockExtra's setters.

Next:

1. **BinTree refinement**: a recursive Leaf/Fork model of `BinTree`, shown
   to implement the leaf-set abstraction of `ShardHashes` through
   `INSTANCE ... WITH shards <- Leaves(tree)`.
2. `read_from` into a value that was already used (l. 570), which keeps
   the copyleft messages or mesh of tags that do not carry them.

Left out:

* `get_neighbours`: its adjacency test `is_neighbor_for` is outside `src/`.
  `iterate_shards_with_siblings`: `iterate_pairs` is outside `src/` and
  nothing in `src/` calls it.
* The `i as i16` wrap of the copyleft key (l. 513) needs 2^15 messages.
* `ShardFees`: its aggregate sums a `CurrencyCollection`, which is outside
  `src/`.
* `check_key_block`: one lookup and field comparisons.
* The `ShardBlockRef` codec: a fixed tag and pass-through fields. Inside the ShardDescr model the
  collators are an opaque payload; their own codec is `CollatorsCodec`.
* `McBlockExtra::validators_stat`: neither written nor read.
* `dump` and the `Display` implementations: formatting only.
