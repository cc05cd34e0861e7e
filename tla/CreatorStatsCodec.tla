------------------------- MODULE CreatorStatsCodec -------------------------
(***************************************************************************)
(* The BlockCreateStats wire format in src/master.rs, which McStateExtra   *)
(* carries under its create-stats flag: an 8-bit tag and a dictionary      *)
(* (HashmapE 256) from block creators to CreatorStats, each a 4-bit tag    *)
(* and two Counters written field by field.  The dictionary's entries are *)
(* parsed when they are accessed, not by read_from; loading here reads    *)
(* the root and then every entry, as iterating the dictionary does.       *)
(*                                                                         *)
(* A dictionary is a function from a set of creators; HashmapE (outside    *)
(* src/) is modelled as its keys in ascending order and one referenced     *)
(* cell per value, in the same order.                                      *)
(***************************************************************************)
EXTENDS Naturals, Sequences, SequencesExt, CellCodec

CONSTANTS
    CounterValues,  \* the Counters a CreatorStats may hold
    Creators,       \* creator keys (256-bit public keys in the code)
    StatsInputs     \* the BlockCreateStats the round trip starts from

VARIABLES
    stats_mem,      \* the BlockCreateStats in memory (its counters map)
    stats_stored,   \* the value the last write_to was called on
    stats_wire,     \* the cell it produced
    stats_phase     \* "mem", "wire", "loaded" or "failed"

stats_vars == <<stats_mem, stats_stored, stats_wire, stats_phase>>

CreatorStats == [mc_blocks : CounterValues, shard_blocks : CounterValues]

BlockCounters == UNION {[K -> CreatorStats] : K \in SUBSET Creators}

CreatorStatsTag == 4         \* CreatorStats::tag(), 4 bits
BlockCreateStatsTag == 23    \* BlockCreateStats::tag(), 0x17 in 8 bits

\* Counters::write_to: the four fields in order.
WriteCounters(c) ==
    Builder(<<c.last_updated, c.total, c.cnt2048, c.cnt65536>>)

\* A reader that takes the two windows in the wrong order.
ReadCountersSwapped(s) ==
    [val |-> [last_updated |-> s.cell.data[s.d], total |-> s.cell.data[s.d + 1],
              cnt2048 |-> s.cell.data[s.d + 3], cnt65536 |-> s.cell.data[s.d + 2]],
     s |-> Skip(s, 4)]

\* Counters::read_from, with no validity check.
ReadCounters(s) ==
    [val |-> [last_updated |-> s.cell.data[s.d], total |-> s.cell.data[s.d + 1],
              cnt2048 |-> s.cell.data[s.d + 2], cnt65536 |-> s.cell.data[s.d + 3]],
     s |-> Skip(s, 4)]

\* CreatorStats::write_to
WriteCreatorStats(x) ==
    Cat(Cat(Builder(<<CreatorStatsTag>>), WriteCounters(x.mc_blocks)),
        WriteCounters(x.shard_blocks))

\* CreatorStats::read_from: an unknown tag fails.
ReadCreatorStats(c) ==
    LET s == Slice(c)
        mc == ReadCounters(Skip(s, 1))
        shard == ReadCounters(mc.s)
    IN  IF Item(s) # CreatorStatsTag THEN [ok |-> FALSE]
        ELSE [ok |-> TRUE, val |-> [mc_blocks |-> mc.val, shard_blocks |-> shard.val]]

\* HashmapE::write_to on the counters: a presence bit, then the entries.
WriteBlockCounters(d) ==
    LET ks == SetToSortSeq(DOMAIN d, <)
    IN  IF ks = <<>> THEN Builder(<<0>>)
        ELSE WithRef(Builder(<<1>>),
                     [data |-> ks,
                      refs |-> [i \in 1..Len(ks) |-> WriteCreatorStats(d[ks[i]])]])

\* HashmapE::read_from, then every entry parsed.
ReadBlockCounters(s) ==
    IF Item(s) = 0 THEN [ok |-> TRUE, val |-> <<>>]
    ELSE LET root == s.cell.refs[s.r]
             entry == [i \in 1..Len(root.data) |-> ReadCreatorStats(root.refs[i])]
         IN  IF \E i \in 1..Len(root.data) : ~entry[i].ok THEN [ok |-> FALSE]
             ELSE [ok |-> TRUE,
                   val |-> [k \in Range(root.data) |->
                               entry[CHOOSE i \in 1..Len(root.data) :
                                        root.data[i] = k].val]]

\* BlockCreateStats::write_to
WriteBlockCreateStats(d) ==
    Cat(Builder(<<BlockCreateStatsTag>>), WriteBlockCounters(d))

\* BlockCreateStats::read_from: an unknown tag fails.
ReadBlockCreateStats(c) ==
    IF Item(Slice(c)) # BlockCreateStatsTag THEN [ok |-> FALSE]
    ELSE ReadBlockCounters(Skip(Slice(c), 1))

----------------------------------------------------------------------------

\* Counters: two u32 and three u64 fields.
CounterType ==
    [last_updated : Nat, total : Nat, cnt2048 : Nat, cnt65536 : Nat]

StatsTypeOK ==
    /\ \A d \in {stats_mem, stats_stored} :
          /\ DOMAIN d \subseteq Creators
          /\ \A k \in DOMAIN d :
                d[k] \in [mc_blocks : CounterType, shard_blocks : CounterType]
    /\ stats_phase \in {"mem", "wire", "loaded", "failed"}

StatsInit ==
    /\ stats_mem \in StatsInputs /\ stats_stored = stats_mem
    /\ stats_wire = NoCell /\ stats_phase = "mem"

\* write_to into a new builder; nothing in it can refuse.
StoreStats ==
    /\ stats_phase \in {"mem", "loaded"}
    /\ stats_wire' = WriteBlockCreateStats(stats_mem)
    /\ stats_stored' = stats_mem /\ stats_phase' = "wire"
    /\ UNCHANGED stats_mem

\* construct_from, and every entry read.
LoadStats ==
    /\ stats_phase = "wire"
    /\ LET r == ReadBlockCreateStats(stats_wire) IN
       IF r.ok THEN stats_mem' = r.val /\ stats_phase' = "loaded"
       ELSE stats_phase' = "failed" /\ UNCHANGED stats_mem
    /\ UNCHANGED <<stats_stored, stats_wire>>

StatsNext == StoreStats \/ LoadStats

----------------------------------------------------------------------------

\* Spec 8: a BlockCreateStats reads back entry for entry, each creator's
\* two Counters field for field and not swapped, over repeated cycles.
StatsRoundTrip == stats_phase = "loaded" => stats_mem = stats_stored
=============================================================================
