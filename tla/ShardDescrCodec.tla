-------------------------- MODULE ShardDescrCodec --------------------------
(***************************************************************************)
(* The ShardDescr wire format in src/master.rs: write_to picks one of the  *)
(* tag generations A, C, D, E, F, G from the optional parts present and    *)
(* lays the descriptor out over a main cell, a child cell by reference     *)
(* (fees and the tag's extras) and, under tag G, a grandchild (pack_info); *)
(* read_from switches on the tag and reads the same places back.          *)
(*                                                                         *)
(* A cell (a BuilderData or what a SliceData reads) is a record of data   *)
(* items, read in order, and references, drained in order.  An item is a   *)
(* bit (0 or 1) or a whole field: the fixed-width integers and hashes are  *)
(* one opaque item each, so the layout, not the bit widths, is modelled.   *)
(* The descriptor is reduced to one header scalar (seq_no stands for the   *)
(* pass-through integers and hashes), the five intent flags, the flags     *)
(* field, split_merge_at, the fees and the five optional parts, each of    *)
(* which is empty or holds an opaque payload.                              *)
(*                                                                         *)
(* The descriptor is stored and loaded again and again, as a masterchain   *)
(* state is when it is saved, read back and saved again.                   *)
(***************************************************************************)
EXTENDS Naturals, Sequences, Bitwise, CellCodec

CONSTANTS
    Values,     \* header scalars and fees
    Payloads,   \* contents of optional parts and split/merge times
    Inputs      \* the descriptors the round trip starts from

VARIABLES
    mem,        \* the ShardDescr in memory
    stored,     \* the descriptor the last write_to was called on
    wire,       \* the cell write_to produced
    phase       \* "mem", "wire", "loaded", "refused" or "failed"

vars == <<mem, stored, wire, phase>>

\* Option<T> is <<>> or <<payload>>; a dictionary (HashmapE) is 0 when
\* empty, else its payload.
Opt == {<<>>} \cup {<<p>> : p \in Payloads}
Dict == {0} \cup Payloads

\* FutureSplitMerge
Fsm == {[kind |-> "none"]}
       \cup [kind : {"split", "merge"}, utime : Payloads, interval : Payloads]

Descr == [seq_no : Values, before_split : BOOLEAN, before_merge : BOOLEAN,
          want_split : BOOLEAN, want_merge : BOOLEAN, nx_cc_updated : BOOLEAN,
          flags : {0, 1}, split_merge_at : Fsm, fees : Values,
          copyleft_rewards : Dict, proof_chain : Opt, collators : Opt,
          mesh_msg_queues : Dict, pack_info : Opt]

ASSUME Inputs \subseteq Descr

\* ShardDescr::default(), the value read_from fills in.
Default == [seq_no |-> 0,
            before_split |-> FALSE, before_merge |-> FALSE,
            want_split |-> FALSE, want_merge |-> FALSE,
            nx_cc_updated |-> FALSE, flags |-> 0,
            split_merge_at |-> [kind |-> "none"],
            fees |-> 0,
            copyleft_rewards |-> 0, proof_chain |-> <<>>, collators |-> <<>>,
            mesh_msg_queues |-> 0, pack_info |-> <<>>]

TagA == 10
TagB == 11
TagC == 12
TagD == 13
TagE == 14
TagF == 15
TagG == 9
Tags == {TagA, TagB, TagC, TagD, TagE, TagF, TagG}

----------------------------------------------------------------------------
(* FutureSplitMerge::write_to and read_from.                              *)

WriteFsm(f) ==
    CASE f.kind = "none"  -> Builder(<<0>>)
      [] f.kind = "split" -> Builder(<<1, 0, f.utime, f.interval>>)
      [] f.kind = "merge" -> Builder(<<1, 1, f.utime, f.interval>>)

ReadFsm(s) ==
    IF Item(s) = 0 THEN [val |-> [kind |-> "none"], s |-> Skip(s, 1)]
    ELSE [val |-> [kind |-> IF s.cell.data[s.d + 1] = 0 THEN "split"
                            ELSE "merge",
                   utime |-> s.cell.data[s.d + 2],
                   interval |-> s.cell.data[s.d + 3]],
          s |-> Skip(s, 4)]

----------------------------------------------------------------------------
(* ShardDescr::write_to                                                   *)

B(x) == IF x THEN 1 ELSE 0

\* The tag, with collators taking precedence over mesh queues.
ChooseTagCollatorsFirst(d) ==
    CASE d.pack_info # <<>>        -> TagG
      [] d.collators # <<>>        -> TagE
      [] d.mesh_msg_queues # 0     -> TagF
      [] d.proof_chain # <<>>      -> TagD
      [] d.copyleft_rewards # 0    -> TagC
      [] OTHER                     -> TagA

\* The tag: the newest generation whose optional part is present.
ChooseTag(d) ==
    CASE d.pack_info # <<>>        -> TagG
      [] d.mesh_msg_queues # 0     -> TagF
      [] d.collators # <<>>        -> TagE
      [] d.proof_chain # <<>>      -> TagD
      [] d.copyleft_rewards # 0    -> TagC
      [] OTHER                     -> TagA

\* The flags byte: the five intents in bits 7..3.
FlagsByte(d) ==
    128 * B(d.before_split) + 64 * B(d.before_merge) + 32 * B(d.want_split)
    + 16 * B(d.want_merge) + 8 * B(d.nx_cc_updated)

\* The child cell: fees, then what the tag adds.
Child(d, tag) ==
    LET fees == Builder(<<d.fees>>) IN
    CASE tag \in {TagE, TagF, TagG} ->
           LET c == Cat(Cat(fees, WriteOpt(d.proof_chain)),
                        WriteOpt(d.collators))
           IN  IF tag = TagG THEN WithRef(c, WriteOpt(d.pack_info)) ELSE c
      [] tag = TagD ->
           Cat(Cat(fees, IF d.copyleft_rewards # 0
                         THEN Cat(Builder(<<1>>), WriteDict(d.copyleft_rewards))
                         ELSE Builder(<<0>>)),
               Builder(<<d.proof_chain[1]>>))
      [] tag = TagC -> Cat(fees, WriteDict(d.copyleft_rewards))
      [] OTHER -> fees

\* write_to: refuses flags with any of the low three bits set, and
\* copyleft rewards together with collators, mesh queues or pack_info.
WriteTo(d) ==
    LET tag == ChooseTag(d)
        main == Cat(Builder(<<tag, d.seq_no, FlagsByte(d)>>),
                    WriteFsm(d.split_merge_at))
        cell == WithRef(main, Child(d, tag))
    IN  IF (d.flags & 7) # 0 THEN [ok |-> FALSE]
        ELSE IF tag \in {TagE, TagF, TagG} /\ d.copyleft_rewards # 0
        THEN [ok |-> FALSE]
        ELSE [ok |-> TRUE,
              cell |-> IF d.mesh_msg_queues # 0
                       THEN Cat(cell, WriteDict(d.mesh_msg_queues))
                       ELSE cell]

----------------------------------------------------------------------------
(* ShardDescr::read_from                                                  *)

\* The intents from the flags byte.
WithFlags(d, f) ==
    [d EXCEPT !.before_split = (shiftR(f, 7) & 1) = 1,
              !.before_merge = (shiftR(f, 6) & 1) = 1,
              !.want_split = (shiftR(f, 5) & 1) = 1,
              !.want_merge = (shiftR(f, 4) & 1) = 1,
              !.nx_cc_updated = (shiftR(f, 3) & 1) = 1]

\* The tag's part: tag B inline, the others from the child cell.
ReadChild(d, tag, s) ==
    LET c == DrainRef(s)
        fees == [d EXCEPT !.fees = c.cell.data[1]]
        rest == Skip(c, 1)
    IN
    CASE tag = TagB -> [d EXCEPT !.fees = Item(s)]
      [] tag = TagA -> fees
      [] tag = TagC -> [fees EXCEPT !.copyleft_rewards = ReadDict(rest).val]
      [] tag = TagD ->
           LET cl == IF Item(rest) = 1 THEN ReadDict(Skip(rest, 1))
                     ELSE [val |-> 0, s |-> Skip(rest, 1)]
           IN  [fees EXCEPT !.copyleft_rewards = cl.val,
                            !.proof_chain = <<Item(cl.s)>>]
      [] tag \in {TagE, TagF, TagG} ->
           LET pc == ReadOpt(rest)
               co == ReadOpt(pc.s)
               e == [fees EXCEPT !.proof_chain = pc.val, !.collators = co.val]
           IN  IF tag = TagG
               THEN [e EXCEPT !.pack_info = ReadOpt(DrainRef(co.s)).val]
               ELSE e

\* read_from into ShardDescr::default(): a tag outside the seven, or a
\* flags byte with its low three bits set, fails.  The mesh queues are read
\* for tag F only.
ReadFrom(c) ==
    LET s == Slice(c)
        tag == Item(s)
        f == s.cell.data[3]
        fsm == ReadFsm(Skip(s, 3))
        hdr == [WithFlags(Default, f) EXCEPT !.seq_no = s.cell.data[2],
                                             !.split_merge_at = fsm.val]
        d == ReadChild(hdr, tag, fsm.s)
        after == [fsm.s EXCEPT !.r = @ + 1]
    IN  IF tag \notin Tags \/ (f & 7) # 0 THEN [ok |-> FALSE]
        ELSE [ok |-> TRUE,
              val |-> IF tag = TagF
                      THEN [d EXCEPT !.mesh_msg_queues = ReadDict(after).val]
                      ELSE d]

----------------------------------------------------------------------------
(* Storing and loading.                                                   *)

TypeOK ==
    /\ mem \in Descr /\ stored \in Descr
    /\ phase \in {"mem", "wire", "loaded", "refused", "failed"}
    /\ phase = "wire" => wire.data[1] \in Tags

Init ==
    /\ mem \in Inputs /\ stored = mem
    /\ wire = NoCell /\ phase = "mem"

\* Serialize the descriptor in memory (serialize, i.e. write_to into a
\* new builder); a refused write ends the round trip.
Store ==
    /\ phase \in {"mem", "loaded"}
    /\ LET w == WriteTo(mem) IN
       IF w.ok THEN /\ wire' = w.cell /\ stored' = mem /\ phase' = "wire"
       ELSE /\ phase' = "refused" /\ UNCHANGED <<wire, stored>>
    /\ UNCHANGED mem

\* Deserialize the cell (construct_from, i.e. read_from on a default).
Load ==
    /\ phase = "wire"
    /\ LET r == ReadFrom(wire) IN
       IF r.ok THEN mem' = r.val /\ phase' = "loaded"
       ELSE phase' = "failed" /\ UNCHANGED mem
    /\ UNCHANGED <<stored, wire>>

Next == Store \/ Load

Spec == Init /\ [][Next]_vars

----------------------------------------------------------------------------
(* Properties.                                                            *)

\* Spec section 8: decode(encode(x)) = x for every tag variant.  Whatever
\* write_to accepts, read_from gives back field for field (ShardDescr's
\* derived equality), after any number of store/load cycles.
RoundTrip == phase = "loaded" => mem = stored
=============================================================================
