------------------------------ MODULE MCValues ------------------------------
(***************************************************************************)
(* The value types of src/master.rs side by side: the ShardHashes topology *)
(* that McBlockExtra and McStateExtra carry, the wire formats of           *)
(* ShardDescr, McStateExtra, McBlockExtra, ShardCollators and              *)
(* BlockCreateStats, and the Counters a CreatorStats holds.  Each          *)
(* behaviour picks one part: the topology runs add/split/merge/update from *)
(* no workchain, a codec runs its store/load cycles from every input, the  *)
(* counters run increase_by from zero.  The others stay at                 *)
(* their default values and take no step.  The parts share no state (each  *)
(* value is its own cell, or its own struct), so checking them one at a   *)
(* time covers what checking them together would, in the sum rather than   *)
(* the product of their state spaces.                                      *)
(***************************************************************************)
EXTENDS Integers, Sequences, TLC

CONSTANTS
    Parts,          \* the parts a behaviour may pick
    Unrestricted    \* TRUE: every input; FALSE: the inputs of section 8

VARIABLES
    part,
    mem, stored, wire, phase,
    state_extra, state_stored, state_wire, state_phase,
    block_extra, block_stored, block_opts, block_wire, block_phase,
    coll_mem, coll_stored, coll_wire, coll_phase,
    stats_mem, stats_stored, stats_wire, stats_phase,
    last_updated, total, cnt2048, cnt65536, result,
    shards,
    desc_mem, desc_stored, desc_wire, desc_phase,
    api_opts, api_recover, api_mint, copyleft, api_written

AllParts ==
    {"descr", "state", "block", "collators", "stats", "counters", "shards",
     "mesh", "blockapi"}
DescrOnly == {"descr"}
BlockOnly == {"block"}
CollatorsOnly == {"collators"}
CountersOnly == {"counters"}
MeshOnly == {"mesh"}
BlockApiOnly == {"blockapi"}
ShardsOnly == {"shards"}

\* One basechain, splits down to depth 2 (up to four shards), two block
\* and two catchain sequence numbers per descriptor.
Sh == INSTANCE ShardHashes
          WITH Workchains <- {0}, MasterchainId <- -1, MaxSplitDepth <- 2,
               SeqNos <- 0..1, CcSeqnos <- 0..1

\* Two header values and one payload for ShardDescr; one value and two
\* payloads for McStateExtra, whose optional parts sit side by side in one
\* cell; one payload for McBlockExtra, where no two optional parts share a
\* place on the wire; for ShardCollators one value, one node, and
\* MEMPOOL_MAX_LEN 1, so that mempools of length 0, 1 (at the bound) and 2
\* (over it) occur in each range.
DescrValues == {0, 1}
OnePayload == {1}
StatePayloads == {1, 2}
OneValue == {0}
CollNodes == {1}
CollMempoolMaxLen == 1

\* MEMPOOL_MAX_LEN as in the code, with inputs whose every range holds an
\* empty or a full mempool: the values the comment on it is about.
CollMempoolMaxLenCode == 9
CollRangesAtBound ==
    [collator : OneValue, mempool : {<<>>} \cup [1..CollMempoolMaxLen -> CollNodes],
     start : OneValue, finish : OneValue]
CollInputsAtBound ==
    [prev : CollRangesAtBound, prev2 : {<<>>} \cup {<<r>> : r \in CollRangesAtBound},
     current : CollRangesAtBound, next : CollRangesAtBound,
     next2 : {<<>>} \cup {<<r>> : r \in CollRangesAtBound},
     updated_at : OneValue, stat : {0} \cup OnePayload]

\* Two creators and two Counters, one of them zero and one whose four
\* fields all differ, so that a swapped field shows.
Creators == {1, 2}
StatsCounters ==
    {[last_updated |-> 0, total |-> 0, cnt2048 |-> 0, cnt65536 |-> 0],
     [last_updated |-> 1, total |-> 2, cnt2048 |-> 3, cnt65536 |-> 4]}

\* Counters in a 5-bit word with a 2-bit fixed-point shift, so that the
\* total and the windows meet their overflow guards after a dozen calls.
\* Clock readings 1000 and 101000 give dt = 1000 (both windows decay),
\* dt >= 48 * 2048 (cnt2048 reset) and a clock going back (dt saturates at
\* 0); a reading of 0 on a first observation is what the invalid-state
\* refusal needs.
CtCounts == {0, 1, 5}
CtNows == {0, 1000, 101000}
\* round(2^16 * exp(-k / 2^16)) for every k = dt or dt << 5 these give.
CtExpFactor ==
    (1000 :> 64544) @@ (32000 :> 40218) @@ (100000 :> 14249)
    @@ (101000 :> 14034)
\* Counts up to 2^(Width - Shift) = 8, whose scaled value loses every bit.
CtWrapCounts == {1, 8}

Ct == INSTANCE Counters
          WITH Width <- 5, Shift <- 2, Counts <- CtCounts, Nows <- CtNows,
               ExpFactor <- CtExpFactor

\* The codecs' types, which do not depend on the inputs.
Sd0 == INSTANCE ShardDescrCodec
           WITH Values <- DescrValues, Payloads <- OnePayload, Inputs <- {}
St0 == INSTANCE McStateExtraCodec
           WITH Values <- OneValue, Payloads <- StatePayloads, StateInputs <- {}
Bk0 == INSTANCE McBlockExtraCodec
           WITH Values <- OneValue, Payloads <- OnePayload, BlockInputs <- {}
Co0 == INSTANCE CollatorsCodec
           WITH Values <- OneValue, Nodes <- CollNodes, Payloads <- OnePayload,
                MempoolMaxLen <- CollMempoolMaxLen, CollInputs <- {}

Cs0 == INSTANCE CreatorStatsCodec
           WITH CounterValues <- StatsCounters, StatsInputs <- {}

\* ShardDescr: the pass inputs leave out mesh queues together with
\* pack_info, which tag G cannot carry (finding 5).
DescrInputs ==
    IF Unrestricted THEN Sd0!Descr
    ELSE {d \in Sd0!Descr : ~(d.mesh_msg_queues # 0 /\ d.pack_info # <<>>)}

\* McBlockExtra: values the API can build; every message set through
\* write_recover_create_msg or write_mint_msg carries the struct's options.
BlockInputsBuilt ==
    {x \in Bk0!BlockExtra :
        \A m \in {x.recover_create_msg, x.mint_msg} :
            m # <<>> => m[1].format = x.serde_opts /\ m[1].opts = x.serde_opts}

\* ShardCollators: the pass inputs leave out mempools within the bound
\* without stats, which tag 1 does not carry (finding 7); mempools over the
\* bound stay, with or without stats.
CollInputs ==
    IF Unrestricted THEN Co0!ShardCollators
    ELSE {x \in Co0!ShardCollators :
            x.stat = 0 => \A r \in Co0!Ranges(x) :
                            Len(r.mempool) \notin 1..CollMempoolMaxLen}

\* Each part with its inputs, and at its default value.
Sd == INSTANCE ShardDescrCodec
          WITH Values <- DescrValues, Payloads <- OnePayload, Inputs <- DescrInputs
SdIdle == INSTANCE ShardDescrCodec
          WITH Values <- DescrValues, Payloads <- OnePayload, Inputs <- {Sd0!Default}
St == INSTANCE McStateExtraCodec
          WITH Values <- OneValue, Payloads <- StatePayloads,
               StateInputs <- St0!StateExtra
StIdle == INSTANCE McStateExtraCodec
          WITH Values <- OneValue, Payloads <- StatePayloads,
               StateInputs <- {St0!DefaultStateExtra}
Bk == INSTANCE McBlockExtraCodec
          WITH Values <- OneValue, Payloads <- OnePayload,
               BlockInputs <- BlockInputsBuilt
BkIdle == INSTANCE McBlockExtraCodec
          WITH Values <- OneValue, Payloads <- OnePayload,
               BlockInputs <- {Bk0!DefaultBlockExtra}
Co == INSTANCE CollatorsCodec
          WITH Values <- OneValue, Nodes <- CollNodes, Payloads <- OnePayload,
               MempoolMaxLen <- CollMempoolMaxLen, CollInputs <- CollInputs
CoIdle == INSTANCE CollatorsCodec
          WITH Values <- OneValue, Nodes <- CollNodes, Payloads <- OnePayload,
               MempoolMaxLen <- CollMempoolMaxLen, CollInputs <- {Co0!DefaultCollators}
Cs == INSTANCE CreatorStatsCodec
          WITH CounterValues <- StatsCounters, StatsInputs <- Cs0!BlockCounters
CsIdle == INSTANCE CreatorStatsCodec
          WITH CounterValues <- StatsCounters, StatsInputs <- {<<>>}

\* The mesh and library descriptors: two values per field, so that two
\* swapped fields differ, and two publishers, so that a library may gain
\* a second one and lose its last.
MeshValues == {0, 1}
LibPublishers == {1, 2}
Dc0 == INSTANCE DescriptorCodecs
           WITH DescValues <- MeshValues, Publishers <- LibPublishers,
                DescInputs <- {}
Dc == INSTANCE DescriptorCodecs
          WITH DescValues <- MeshValues, Publishers <- LibPublishers,
               DescInputs <- Dc0!Descriptor
DcIdle == INSTANCE DescriptorCodecs
          WITH DescValues <- MeshValues, Publishers <- LibPublishers,
               DescInputs <- {[kind |-> "pack",
                               val |-> [round |-> 0, last_id |-> 0,
                                        last_partially_included |-> <<>>]]}

\* McBlockExtra built through its setters: two payloads, so that a later
\* list differs from an earlier one, and lists of up to two messages, so
\* that a shorter list follows a longer one.
Api == INSTANCE McBlockExtraApi WITH ApiPayloads <- {1, 2}, MaxCopyleft <- 2

descr_vars == <<mem, stored, wire, phase>>
state_vars == <<state_extra, state_stored, state_wire, state_phase>>
block_vars == <<block_extra, block_stored, block_opts, block_wire, block_phase>>
coll_vars == <<coll_mem, coll_stored, coll_wire, coll_phase>>
stats_vars == <<stats_mem, stats_stored, stats_wire, stats_phase>>
counter_vars == <<last_updated, total, cnt2048, cnt65536, result>>
mesh_vars == <<desc_mem, desc_stored, desc_wire, desc_phase>>
api_vars == <<api_opts, api_recover, api_mint, copyleft, api_written>>
vars == <<part, descr_vars, state_vars, block_vars, coll_vars, stats_vars,
          counter_vars, shards, mesh_vars, api_vars>>

TypeOK ==
    /\ part \in Parts
    /\ Sd!TypeOK /\ St!StateTypeOK /\ Bk!BlockTypeOK /\ Co!CollTypeOK
    /\ Cs!StatsTypeOK /\ Ct!TypeOK /\ Sh!TypeOK /\ Dc!DescTypeOK
    /\ Api!ApiTypeOK

Init ==
    /\ part \in Parts
    /\ IF part = "descr" THEN Sd!Init ELSE SdIdle!Init
    /\ IF part = "state" THEN St!StateInit ELSE StIdle!StateInit
    /\ IF part = "block" THEN Bk!BlockInit ELSE BkIdle!BlockInit
    /\ IF part = "collators" THEN Co!CollInit ELSE CoIdle!CollInit
    /\ IF part = "stats" THEN Cs!StatsInit ELSE CsIdle!StatsInit
    /\ IF part = "mesh" THEN Dc!DescInit ELSE DcIdle!DescInit
    /\ IF part = "blockapi" THEN Api!ApiInit
       ELSE Api!ApiInit /\ api_opts = Api!ApiOptsEmpty
    /\ Ct!Init /\ Sh!Init

Next ==
    \/ part = "descr" /\ Sd!Next
       /\ UNCHANGED <<part, state_vars, block_vars, coll_vars, stats_vars,
                     counter_vars, shards, mesh_vars,
                     api_vars>>
    \/ part = "state" /\ St!StateNext
       /\ UNCHANGED <<part, descr_vars, block_vars, coll_vars, stats_vars,
                     counter_vars, shards, mesh_vars,
                     api_vars>>
    \/ part = "block" /\ Bk!BlockNext
       /\ UNCHANGED <<part, descr_vars, state_vars, coll_vars, stats_vars,
                     counter_vars, shards, mesh_vars,
                     api_vars>>
    \/ part = "collators" /\ Co!CollNext
       /\ UNCHANGED <<part, descr_vars, state_vars, block_vars, stats_vars,
                     counter_vars, shards, mesh_vars,
                     api_vars>>
    \/ part = "stats" /\ Cs!StatsNext
       /\ UNCHANGED <<part, descr_vars, state_vars, block_vars, coll_vars,
                     counter_vars, shards, mesh_vars,
                     api_vars>>
    \/ part = "counters" /\ Ct!Next
       /\ UNCHANGED <<part, descr_vars, state_vars, block_vars, coll_vars,
                     stats_vars, shards, mesh_vars,
                     api_vars>>
    \/ part = "shards" /\ Sh!Next
       /\ UNCHANGED <<part, descr_vars, state_vars, block_vars, coll_vars,
                     stats_vars, counter_vars, mesh_vars,
                     api_vars>>
    \/ part = "mesh" /\ Dc!DescNext
       /\ UNCHANGED <<part, descr_vars, state_vars, block_vars, coll_vars,
                     stats_vars, counter_vars, shards, api_vars>>
    \/ part = "blockapi" /\ Api!ApiNext
       /\ UNCHANGED <<part, descr_vars, state_vars, block_vars, coll_vars,
                     stats_vars, counter_vars, shards, mesh_vars>>

Spec == Init /\ [][Next]_vars

----------------------------------------------------------------------------
(* The parts' properties, each stated in its module.                       *)

\* ShardHashes: see ShardHashes!NewShardsCorrect.
NewShardsCorrect == Sh!NewShardsCorrect

\* ShardHashes: see ShardHashes!CcSeqnoOfNewShards.
CcSeqnoOfNewShards == Sh!CcSeqnoOfNewShards

\* ShardDescr: see ShardDescrCodec!RoundTrip.
RoundTrip == Sd!RoundTrip

\* McStateExtra: see McStateExtraCodec!StateRoundTrip.
StateRoundTrip == St!StateRoundTrip

\* McBlockExtra written with its own options: see
\* McBlockExtraCodec!BlockRoundTripOwnOpts.
BlockRoundTripOwnOpts == Bk!BlockRoundTripOwnOpts

\* McBlockExtra through serialize() as well: see
\* McBlockExtraCodec!BlockRoundTrip.
BlockRoundTrip == Bk!BlockRoundTrip

\* ShardCollators' mempool bound: see CollatorsCodec!MempoolBoundEnforced.
MempoolBoundEnforced == Co!MempoolBoundEnforced

\* ShardCollators: see CollatorsCodec!CollatorsRoundTrip.
CollatorsRoundTrip == Co!CollatorsRoundTrip

\* BlockCreateStats: see CreatorStatsCodec!StatsRoundTrip.
StatsRoundTrip == Cs!StatsRoundTrip

\* Mesh and library descriptors: see
\* DescriptorCodecs!DescriptorsRoundTrip.
DescriptorsRoundTrip == Dc!DescriptorsRoundTrip

\* McBlockExtra's setters: see McBlockExtraApi!CopyleftReadsLastWrite.
CopyleftReadsLastWrite == Api!CopyleftReadsLastWrite

\* Counters: see Counters!NoWrapOnAccept.
NoWrapOnAccept == Ct!NoWrapOnAccept

\* Counters: see Counters!NoDecayWithoutElapsedTime.
NoDecayWithoutElapsedTime == Ct!NoDecayWithoutElapsedTime

\* Counters: see Counters!CountersValid.
CountersValid == Ct!CountersValid

\* Counters: see Counters!LongWindowReset.
LongWindowReset == Ct!LongWindowReset
=============================================================================
