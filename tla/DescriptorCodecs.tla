-------------------------- MODULE DescriptorCodecs --------------------------
(***************************************************************************)
(* The flat descriptors of src/master.rs and their wire formats:           *)
(* ConnectedNwDescr (an 8-bit tag and five fields), ConnectedNwOutDescr (a *)
(* 4-bit tag, exported, and the queue update by reference),                *)
(* ConnectedNwDescrExt (a 4-bit tag, the out descriptor inline and an      *)
(* optional ConnectedNwDescr), MsgPackProcessingInfo (a 4-bit tag, round,  *)
(* last_id and an optional hash) and LibDescr (a 2-bit tag 0, the library *)
(* cell by reference and the root of a non-empty publisher dictionary).    *)
(* A LibDescr is also changed through its constructors and publishers_mut. *)
(*                                                                         *)
(* A descriptor in memory is a kind and a value; the reader is the one of  *)
(* that kind, as the dictionary that holds the value knows its type.       *)
(***************************************************************************)
EXTENDS Naturals, Sequences, CellCodec

CONSTANTS
    DescValues,     \* opaque field values (hashes, seq_nos, times)
    Publishers,     \* account ids that may publish a library
    DescInputs      \* the descriptors the round trip starts from

VARIABLES
    desc_mem,       \* the descriptor in memory: [kind, val]
    desc_stored,    \* the value the last write_to was called on
    desc_wire,      \* the cell it produced
    desc_phase      \* "mem", "wire", "loaded", "refused" or "failed"

desc_vars == <<desc_mem, desc_stored, desc_wire, desc_phase>>

OptOf(S) == {<<>>} \cup {<<x>> : x \in S}

NwDescr ==
    [seq_no : DescValues, root_hash : DescValues, file_hash : DescValues,
     imported : DescValues, gen_utime : DescValues]
NwOutDescr == [out_queue_update : DescValues, exported : DescValues]
NwDescrExt == [queue_descr : NwOutDescr, descr : OptOf(NwDescr)]
PackInfo ==
    [round : DescValues, last_id : DescValues,
     last_partially_included : OptOf(DescValues)]
LibDescr == [lib : DescValues, publishers : SUBSET Publishers]

Descriptor ==
    {[kind |-> "nw", val |-> v] : v \in NwDescr}
    \cup {[kind |-> "ext", val |-> v] : v \in NwDescrExt}
    \cup {[kind |-> "pack", val |-> v] : v \in PackInfo}
    \cup {[kind |-> "lib", val |-> v] : v \in LibDescr}

ConnectedNwDescrTag == 1       \* 8 bits
ConnectedNwDescrExtTag == 1    \* 4 bits
ConnectedNwQueueDescrTag == 1  \* 4 bits
PackInfoTag == 1               \* 4 bits
LibDescrTag == 0               \* 2 bits

----------------------------------------------------------------------------
(* Writing.                                                                *)

WriteNwDescr(d) ==
    Builder(<<ConnectedNwDescrTag, d.seq_no, d.root_hash, d.file_hash,
              d.imported, d.gen_utime>>)

WriteNwOutDescr(o) ==
    WithRef(Builder(<<ConnectedNwQueueDescrTag, o.exported>>),
            Builder(<<o.out_queue_update>>))

\* The optional descriptor: a presence bit, then the struct inline.
WriteNwDescrExt(x) ==
    Cat(Cat(Builder(<<ConnectedNwDescrExtTag>>), WriteNwOutDescr(x.queue_descr)),
        IF x.descr = <<>> THEN Builder(<<0>>)
        ELSE Cat(Builder(<<1>>), WriteNwDescr(x.descr[1])))

WritePackInfo(p) ==
    Cat(Builder(<<PackInfoTag, p.round, p.last_id>>),
        WriteOpt(p.last_partially_included))

\* LibDescr::write_to: a Hashmap root cannot be empty; the publisher
\* dictionary is written as its root, inline (write_hashmap_root).
WriteLibDescr(l) ==
    IF l.publishers = {} THEN [ok |-> FALSE]
    ELSE [ok |-> TRUE,
          cell |-> Cat(WithRef(Builder(<<LibDescrTag>>), Builder(<<l.lib>>)),
                       Builder(<<l.publishers>>))]

WriteDescriptor(m) ==
    CASE m.kind = "nw"   -> [ok |-> TRUE, cell |-> WriteNwDescr(m.val)]
      [] m.kind = "ext"  -> [ok |-> TRUE, cell |-> WriteNwDescrExt(m.val)]
      [] m.kind = "pack" -> [ok |-> TRUE, cell |-> WritePackInfo(m.val)]
      [] m.kind = "lib"  -> WriteLibDescr(m.val)

----------------------------------------------------------------------------
(* Reading: [ok, val, s], failing on a wrong tag.                         *)

Fail == [ok |-> FALSE]

ReadNwDescrHashesSwapped(s) ==
    IF Item(s) # ConnectedNwDescrTag THEN Fail
    ELSE [ok |-> TRUE, s |-> Skip(s, 6),
          val |-> [seq_no |-> s.cell.data[s.d + 1], root_hash |-> s.cell.data[s.d + 3],
                   file_hash |-> s.cell.data[s.d + 2], imported |-> s.cell.data[s.d + 4],
                   gen_utime |-> s.cell.data[s.d + 5]]]

ReadNwDescr(s) ==
    IF Item(s) # ConnectedNwDescrTag THEN Fail
    ELSE [ok |-> TRUE, s |-> Skip(s, 6),
          val |-> [seq_no |-> s.cell.data[s.d + 1], root_hash |-> s.cell.data[s.d + 2],
                   file_hash |-> s.cell.data[s.d + 3], imported |-> s.cell.data[s.d + 4],
                   gen_utime |-> s.cell.data[s.d + 5]]]

ReadNwOutDescr(s) ==
    IF Item(s) # ConnectedNwQueueDescrTag THEN Fail
    ELSE [ok |-> TRUE, s |-> [Skip(s, 2) EXCEPT !.r = @ + 1],
          val |-> [exported |-> s.cell.data[s.d + 1],
                   out_queue_update |-> Item(DrainRef(s))]]

ReadNwDescrExt(s) ==
    LET q == ReadNwOutDescr(Skip(s, 1))
        o == IF Item(q.s) = 0 THEN [ok |-> TRUE, val |-> <<>>]
             ELSE LET d == ReadNwDescr(Skip(q.s, 1)) IN
                  IF d.ok THEN [ok |-> TRUE, val |-> <<d.val>>] ELSE Fail
    IN  IF Item(s) # ConnectedNwDescrExtTag \/ ~q.ok \/ ~o.ok THEN Fail
        ELSE [ok |-> TRUE, val |-> [queue_descr |-> q.val, descr |-> o.val]]

ReadPackInfo(s) ==
    IF Item(s) # PackInfoTag THEN Fail
    ELSE [ok |-> TRUE,
          val |-> [round |-> s.cell.data[s.d + 1], last_id |-> s.cell.data[s.d + 2],
                   last_partially_included |-> ReadOpt(Skip(s, 3)).val]]

ReadLibDescr(s) ==
    IF Item(s) # LibDescrTag THEN Fail
    ELSE [ok |-> TRUE,
          val |-> [lib |-> Item(DrainRef(s)), publishers |-> s.cell.data[s.d + 1]]]

ReadDescriptor(kind, s) ==
    CASE kind = "nw"   -> ReadNwDescr(s)
      [] kind = "ext"  -> ReadNwDescrExt(s)
      [] kind = "pack" -> ReadPackInfo(s)
      [] kind = "lib"  -> ReadLibDescr(s)

----------------------------------------------------------------------------
(* Operations.                                                             *)

DescInit ==
    /\ desc_mem \in DescInputs
    /\ desc_stored = desc_mem
    /\ desc_wire = NoCell
    /\ desc_phase = "mem"

\* write_to on the descriptor in memory.
DescWrite ==
    LET w == WriteDescriptor(desc_mem) IN
    /\ desc_phase = "mem"
    /\ IF w.ok
          THEN /\ desc_wire' = w.cell
               /\ desc_stored' = desc_mem
               /\ desc_phase' = "wire"
          ELSE /\ desc_phase' = "refused"
               /\ UNCHANGED <<desc_wire, desc_stored>>
    /\ UNCHANGED desc_mem

\* read_from by the reader of the descriptor's kind.
DescRead ==
    LET r == ReadDescriptor(desc_mem.kind, Slice(desc_wire)) IN
    /\ desc_phase = "wire"
    /\ IF r.ok
          THEN /\ desc_mem' = [kind |-> desc_mem.kind, val |-> r.val]
               /\ desc_phase' = "loaded"
          ELSE /\ desc_phase' = "failed"
               /\ UNCHANGED desc_mem
    /\ UNCHANGED <<desc_wire, desc_stored>>

\* A descriptor may be rebuilt in memory whenever no read is pending.
Rebuild(v) ==
    /\ desc_phase \in {"mem", "refused", "loaded"}
    /\ desc_mem' = [kind |-> "lib", val |-> v]
    /\ desc_phase' = "mem"
    /\ UNCHANGED <<desc_wire, desc_stored>>

\* LibDescr::new: no publisher yet.
LibNew(lib) == Rebuild([lib |-> lib, publishers |-> {}])

\* LibDescr::from_lib_data_by_publisher.
LibFromPublisher(lib, p) == Rebuild([lib |-> lib, publishers |-> {p}])

\* publishers_mut().set(p) and publishers_mut().remove(p).
LibSetPublisher(p) ==
    /\ desc_mem.kind = "lib"
    /\ Rebuild([desc_mem.val EXCEPT !.publishers = @ \cup {p}])

LibRemovePublisher(p) ==
    /\ desc_mem.kind = "lib"
    /\ Rebuild([desc_mem.val EXCEPT !.publishers = @ \ {p}])

DescNext ==
    \/ DescWrite
    \/ DescRead
    \/ \E lib \in DescValues : LibNew(lib)
    \/ \E lib \in DescValues, p \in Publishers : LibFromPublisher(lib, p)
    \/ \E p \in Publishers : LibSetPublisher(p) \/ LibRemovePublisher(p)

DescTypeOK ==
    /\ desc_mem \in Descriptor
    /\ desc_stored \in Descriptor
    /\ desc_phase \in {"mem", "wire", "loaded", "refused", "failed"}

(* Every descriptor that write_to accepts is read back by read_from of its  *)
(* kind as the value that was written: the five ConnectedNwDescr fields in  *)
(* their order, the out descriptor's field inline and its queue update by  *)
(* reference, the optional inline descriptor of ConnectedNwDescrExt after  *)
(* the out descriptor's reference, and the library by reference ahead of  *)
(* the publisher root, also after publishers_mut edits.                    *)
DescriptorsRoundTrip ==
    desc_phase = "loaded" => desc_mem = desc_stored
====
