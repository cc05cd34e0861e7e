--------------------------- MODULE CollatorsCodec ---------------------------
(***************************************************************************)
(* The ShardCollators wire format in src/master.rs: a 4-bit tag saying     *)
(* whether validator stats are present, five collator ranges (two of them  *)
(* optional) and updated_at inline, and the stats by reference.  The tag   *)
(* also selects the serialization option SERDE_OPTS_MEMPOOL_NODES, under   *)
(* which each CollatorRange carries its mempool (a length byte and the     *)
(* node ids); without it the mempool is not written and reads back empty.  *)
(* MEMPOOL_MAX_LEN (9 in the code) is the constant MempoolMaxLen; the      *)
(* u8::MAX check behind it can never bite and is left out.  Cells are kept *)
(* as items, and the bits write_to appends are counted beside them: a      *)
(* builder refuses to grow past 1023 bits.                                 *)
(***************************************************************************)
EXTENDS Naturals, Sequences, CellCodec

CONSTANTS
    Values,         \* opaque collator ids, block numbers and times
    Nodes,          \* validator indices in a mempool
    Payloads,       \* contents of the validator stats dictionary
    MempoolMaxLen,  \* MEMPOOL_MAX_LEN
    CollInputs      \* the ShardCollators the round trip starts from

VARIABLES
    coll_mem,       \* the ShardCollators in memory
    coll_stored,    \* the value the last write_to was called on
    coll_wire,      \* the cell it produced
    coll_phase      \* "mem", "wire", "loaded", "refused" or "failed"

coll_vars == <<coll_mem, coll_stored, coll_wire, coll_phase>>

SerdeOptsEmpty == 0
SerdeOptsMempoolNodes == 2

\* A SmallVec spills past MEMPOOL_MAX_LEN; one node over the bound is the
\* longest mempool modelled.
Mempools == UNION {[1..n -> Nodes] : n \in 0..(MempoolMaxLen + 1)}

CollatorRange ==
    [collator : Values, mempool : Mempools, start : Values, finish : Values]

ShardCollators ==
    [prev : CollatorRange, prev2 : {<<>>} \cup {<<r>> : r \in CollatorRange},
     current : CollatorRange, next : CollatorRange,
     next2 : {<<>>} \cup {<<r>> : r \in CollatorRange},
     updated_at : Values, stat : {0} \cup Payloads]

\* The derived Default of CollatorRange and ShardCollators.
DefaultRange == [collator |-> 0, mempool |-> <<>>, start |-> 0, finish |-> 0]
DefaultCollators ==
    [prev |-> DefaultRange, prev2 |-> <<>>, current |-> DefaultRange,
     next |-> DefaultRange, next2 |-> <<>>, updated_at |-> 0, stat |-> 0]

\* A cell's data capacity: BuilderData fails an append past it.
CellBits == 1023

ShardCollatorsTag == 1
ShardCollatorsTag2 == 2

\* The ranges a ShardCollators holds.
Ranges(x) ==
    {x.prev, x.current, x.next}
    \cup {x.prev2[i] : i \in DOMAIN x.prev2} \cup {x.next2[i] : i \in DOMAIN x.next2}

\* Some range's mempool is longer than MEMPOOL_MAX_LEN.
TooManyInMempool(x) == \E r \in Ranges(x) : Len(r.mempool) > MempoolMaxLen

----------------------------------------------------------------------------
(* Writing.                                                                *)

\* The fields of a CollatorRange in order, the mempool (its length byte and
\* node ids) only under the option.
RangeCell(r, opts) ==
    Builder(<<r.collator>>
            \o (IF opts = SerdeOptsMempoolNodes
                THEN <<Len(r.mempool)>> \o r.mempool ELSE <<>>)
            \o <<r.start, r.finish>>)

\* The bits write_with_opts appends for a range: collator u16, under the
\* option the u8 length and a u16 per node, then start and finish u32.
RangeBits(r, opts) ==
    16 + (IF opts = SerdeOptsMempoolNodes THEN 8 + 16 * Len(r.mempool) ELSE 0)
    + 32 + 32

\* The bits ShardCollators::write_to appends: the 4-bit tag, the five
\* ranges (an Option adds its presence bit) and updated_at u32; the stats
\* go by reference.
CollatorsBits(x, opts) ==
    LET opt(o) == 1 + (IF o = <<>> THEN 0 ELSE RangeBits(o[1], opts))
    IN  4 + RangeBits(x.prev, opts) + opt(x.prev2) + RangeBits(x.current, opts)
        + RangeBits(x.next, opts) + opt(x.next2) + 32

\* A CollatorRange that checks the mempool length only where it writes it.
WriteCollatorRangeLateCheck(r, opts) ==
    IF opts = SerdeOptsMempoolNodes /\ Len(r.mempool) > MempoolMaxLen
    THEN [ok |-> FALSE] ELSE [ok |-> TRUE, cell |-> RangeCell(r, opts)]

\* CollatorRange::write_with_opts: refuses a mempool over MEMPOOL_MAX_LEN
\* whatever the options.
WriteCollatorRange(r, opts) ==
    IF Len(r.mempool) > MempoolMaxLen
    THEN [ok |-> FALSE] ELSE [ok |-> TRUE, cell |-> RangeCell(r, opts)]

\* Option<CollatorRange>::write_with_opts: a presence bit, then the range.
WriteOptRange(o, opts) ==
    IF o = <<>> THEN [ok |-> TRUE, cell |-> Builder(<<0>>)]
    ELSE LET w == WriteCollatorRange(o[1], opts) IN
         IF w.ok THEN [ok |-> TRUE, cell |-> Cat(Builder(<<1>>), w.cell)]
         ELSE w

\* ShardCollators::write_to: the tag and options from the stats; the
\* stats, when present, as a cell by reference.  It fails when a range
\* fails, or when an append finds the builder full.
WriteCollators(x) ==
    LET hasStat == x.stat # 0
        tag == IF hasStat THEN ShardCollatorsTag2 ELSE ShardCollatorsTag
        opts == IF hasStat THEN SerdeOptsMempoolNodes ELSE SerdeOptsEmpty
        parts == <<WriteCollatorRange(x.prev, opts), WriteOptRange(x.prev2, opts),
                   WriteCollatorRange(x.current, opts),
                   WriteCollatorRange(x.next, opts), WriteOptRange(x.next2, opts)>>
        body == Cat(Cat(Cat(Cat(Cat(Builder(<<tag>>), parts[1].cell),
                                parts[2].cell), parts[3].cell),
                        Cat(parts[4].cell, parts[5].cell)),
                    Builder(<<x.updated_at>>))
    IN  IF \E i \in 1..5 : ~parts[i].ok THEN [ok |-> FALSE]
        ELSE IF CollatorsBits(x, opts) > CellBits THEN [ok |-> FALSE]
        ELSE [ok |-> TRUE,
              cell |-> IF hasStat THEN WithRef(body, WriteDict(x.stat)) ELSE body]

----------------------------------------------------------------------------
(* Reading.                                                                *)

\* A node loop that stops one node short.
ReadMempoolShort(s, n) == SubSeq(s.cell.data, s.d + 2, s.d + n)

\* The loop reading n node ids after the collator and the length byte.
ReadMempool(s, n) == SubSeq(s.cell.data, s.d + 2, s.d + 1 + n)

\* CollatorRange::construct_from_with_opts: a length byte over
\* MEMPOOL_MAX_LEN fails.
ReadCollatorRange(s, opts) ==
    IF opts = SerdeOptsMempoolNodes
    THEN LET n == s.cell.data[s.d + 1] IN
         IF n > MempoolMaxLen THEN [ok |-> FALSE]
         ELSE [ok |-> TRUE,
               val |-> [collator |-> Item(s),
                        mempool |-> ReadMempool(s, n),
                        start |-> s.cell.data[s.d + 2 + n],
                        finish |-> s.cell.data[s.d + 3 + n]],
               s |-> Skip(s, 4 + n)]
    ELSE [ok |-> TRUE,
          val |-> [collator |-> Item(s), mempool |-> <<>>,
                   start |-> s.cell.data[s.d + 1], finish |-> s.cell.data[s.d + 2]],
          s |-> Skip(s, 3)]

\* Option<CollatorRange>::construct_from_with_opts.
ReadOptRange(s, opts) ==
    IF Item(s) = 0 THEN [ok |-> TRUE, val |-> <<>>, s |-> Skip(s, 1)]
    ELSE LET r == ReadCollatorRange(Skip(s, 1), opts) IN
         IF r.ok THEN [r EXCEPT !.val = <<r.val>>] ELSE r

\* ShardCollators::construct_from: an unknown tag fails; tag 2 means the
\* mempool option and the stats by reference.
ReadCollators(c) ==
    LET s == Slice(c)
        tag == Item(s)
        opts == IF tag = ShardCollatorsTag2 THEN SerdeOptsMempoolNodes
                ELSE SerdeOptsEmpty
        r1 == ReadCollatorRange(Skip(s, 1), opts)
        r2 == ReadOptRange(r1.s, opts)
        r3 == ReadCollatorRange(r2.s, opts)
        r4 == ReadCollatorRange(r3.s, opts)
        r5 == ReadOptRange(r4.s, opts)
    IN  IF tag \notin {ShardCollatorsTag, ShardCollatorsTag2} THEN [ok |-> FALSE]
        ELSE IF ~(r1.ok /\ r2.ok /\ r3.ok /\ r4.ok /\ r5.ok) THEN [ok |-> FALSE]
        ELSE [ok |-> TRUE,
              val |-> [prev |-> r1.val, prev2 |-> r2.val, current |-> r3.val,
                       next |-> r4.val, next2 |-> r5.val,
                       updated_at |-> Item(r5.s),
                       stat |-> IF tag = ShardCollatorsTag2
                                THEN ReadDict(DrainRef(r5.s)).val ELSE 0]]

----------------------------------------------------------------------------
(* Storing and loading.                                                   *)

CollTypeOK ==
    /\ coll_mem \in ShardCollators /\ coll_stored \in ShardCollators
    /\ coll_phase \in {"mem", "wire", "loaded", "refused", "failed"}

CollInit ==
    /\ coll_mem \in CollInputs /\ coll_stored = coll_mem
    /\ coll_wire = NoCell /\ coll_phase = "mem"

\* write_to into a new builder; a refusal ends the round trip.
StoreCollators ==
    /\ coll_phase \in {"mem", "loaded"}
    /\ LET w == WriteCollators(coll_mem) IN
       IF w.ok
       THEN coll_wire' = w.cell /\ coll_stored' = coll_mem /\ coll_phase' = "wire"
       ELSE coll_phase' = "refused" /\ UNCHANGED <<coll_wire, coll_stored>>
    /\ UNCHANGED coll_mem

\* construct_from.
LoadCollators ==
    /\ coll_phase = "wire"
    /\ LET r == ReadCollators(coll_wire) IN
       IF r.ok THEN coll_mem' = r.val /\ coll_phase' = "loaded"
       ELSE coll_phase' = "failed" /\ UNCHANGED coll_mem
    /\ UNCHANGED <<coll_stored, coll_wire>>

CollNext == StoreCollators \/ LoadCollators

----------------------------------------------------------------------------
(* Properties.                                                            *)

\* Spec 7(c): too many mempool entries is fatal, never silently coerced;
\* and the comment on MEMPOOL_MAX_LEN: that many nodes per range fit,
\* all ranges sharing one cell.  write_to refuses exactly the values with
\* a range whose mempool is over MEMPOOL_MAX_LEN, in any of the five
\* ranges and whether or not the mempools are written (tag 1 or 2).
MempoolBoundEnforced ==
    /\ coll_phase = "refused" => TooManyInMempool(coll_mem)
    /\ coll_phase = "wire" => ~TooManyInMempool(coll_stored)

\* Spec 8: decode(encode(x)) = x for both tags, over repeated cycles.
CollatorsRoundTrip == coll_phase = "loaded" => coll_mem = coll_stored
=============================================================================
