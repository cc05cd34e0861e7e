------------------------- MODULE McBlockExtraCodec -------------------------
(***************************************************************************)
(* The McBlockExtra wire format in src/master.rs: one of three 16-bit tags *)
(* chosen from the copyleft messages and the serialization options passed  *)
(* to write_with_opts, the key-block bit, shard hashes and fees inline, a  *)
(* child cell with the signatures, the recover-create and mint messages   *)
(* and (by tag) the copyleft messages or the mesh, and the config when the *)
(* block is a key block.  read_from derives serde_opts from the tag.       *)
(*                                                                         *)
(* A message (Option<ChildCell<InMsg>>) is its payload, the format its     *)
(* cell was written in, and the options the ChildCell will parse it with;  *)
(* the two agree when the message was set through write_recover_create_msg *)
(* or write_mint_msg, both of which use the struct's serde_opts.           *)
(* validators_stat is neither written nor read by this codec and is left   *)
(* out.                                                                     *)
(***************************************************************************)
EXTENDS Naturals, Sequences, CellCodec

CONSTANTS
    Values,       \* opaque contents of the always-present fields
    Payloads,     \* contents of the optional parts
    BlockInputs   \* the values the round trip starts from

VARIABLES
    block_extra,    \* the McBlockExtra in memory
    block_stored,   \* the value the last write was called on
    block_opts,     \* the options that write was called with
    block_wire,     \* the cell it produced
    block_phase     \* "mem", "wire", "loaded", "refused" or "failed"

block_vars == <<block_extra, block_stored, block_opts, block_wire, block_phase>>

SerdeOptsEmpty == 0
SerdeOptsCommonMessage == 1
SerdeOpts == {SerdeOptsEmpty, SerdeOptsCommonMessage}

BOpt == {<<>>} \cup {<<p>> : p \in Payloads}
BDict == {0} \cup Payloads
Msg == [payload : Payloads, format : SerdeOpts, opts : SerdeOpts]
MsgOpt == {<<>>} \cup {<<m>> : m \in Msg}

BlockExtra ==
    [config : BOpt, shards : Values, fees : Values,
     prev_blk_signatures : BDict,
     recover_create_msg : MsgOpt, mint_msg : MsgOpt, copyleft_msgs : BDict,
     mesh : BDict, serde_opts : SerdeOpts]

ASSUME BlockInputs \subseteq BlockExtra

\* McBlockExtra::default(), which read_from fills in.
DefaultBlockExtra ==
    [config |-> <<>>, shards |-> 0, fees |-> 0, prev_blk_signatures |-> 0,
     recover_create_msg |-> <<>>, mint_msg |-> <<>>, copyleft_msgs |-> 0,
     mesh |-> 0, serde_opts |-> SerdeOptsEmpty]

McBlockExtraTag == 52389     \* 0xCCA5
McBlockExtraTag2 == 56437    \* 0xdc75
McBlockExtraTag3 == 56438    \* 0xdc76

BBit(x) == IF x THEN 1 ELSE 0

----------------------------------------------------------------------------
(* McBlockExtra::write_with_opts                                           *)

\* Option<ChildCell<InMsg>>::write_to: a presence bit and, by reference,
\* the message's cell in the format it was built with.
WriteMsg(m) ==
    IF m = <<>> THEN Builder(<<0>>)
    ELSE WithRef(Builder(<<1>>), Builder(<<m[1].payload, m[1].format>>))

\* write_with_opts(opts); write_to is write_with_opts(SERDE_OPTS_EMPTY).
WriteBlockExtra(x, opts) ==
    LET copyleft == x.copyleft_msgs # 0
        common == opts = SerdeOptsCommonMessage
        tag == IF copyleft THEN McBlockExtraTag2
               ELSE IF common THEN McBlockExtraTag3 ELSE McBlockExtraTag
        cell1 == Cat(Cat(Cat(WriteDict(x.prev_blk_signatures),
                             WriteMsg(x.recover_create_msg)),
                         WriteMsg(x.mint_msg)),
                     IF copyleft THEN WriteDict(x.copyleft_msgs)
                     ELSE IF common THEN WriteDict(x.mesh) ELSE Builder(<<>>))
        main == WithRef(Builder(<<tag, BBit(x.config # <<>>), x.shards,
                                 x.fees>>),
                        cell1)
    IN  IF copyleft /\ common THEN [ok |-> FALSE]
        ELSE IF x.mesh # 0 /\ ~common THEN [ok |-> FALSE]
        ELSE [ok |-> TRUE,
              cell |-> IF x.config # <<>>
                       THEN Cat(main, Builder(<<x.config[1]>>)) ELSE main]

----------------------------------------------------------------------------
(* McBlockExtra::read_from                                                 *)

\* serde_opts as read_from derives it from the tag, with tag 2 taken as the
\* common-message generation too.
SerdeOptsOfTagNewer(tag) ==
    IF tag = McBlockExtraTag THEN SerdeOptsEmpty ELSE SerdeOptsCommonMessage

\* serde_opts as read_from derives it from the tag.
SerdeOptsOfTag(tag) ==
    IF tag = McBlockExtraTag3 THEN SerdeOptsCommonMessage ELSE SerdeOptsEmpty

\* read_from_with_opts on Option<ChildCell<InMsg>>: the cell is kept as it
\* is and will be parsed with the given options.
ReadMsg(s, opts) ==
    IF Item(s) = 0 THEN [val |-> <<>>, s |-> Skip(s, 1)]
    ELSE LET c == s.cell.refs[s.r] IN
         [val |-> <<[payload |-> c.data[1], format |-> c.data[2],
                     opts |-> opts]>>,
          s |-> [Skip(s, 1) EXCEPT !.r = @ + 1]]

\* read_from: fails on an unknown tag; the copyleft messages are read for
\* tag 2, the mesh for tag 3.
ReadBlockExtra(c) ==
    LET s == Slice(c)
        tag == Item(s)
        opts == SerdeOptsOfTag(tag)
        key_block == c.data[2] = 1
        c1 == DrainRef(Skip(s, 4))
        sigs == ReadDict(c1)
        rc == ReadMsg(sigs.s, opts)
        mm == ReadMsg(rc.s, opts)
        x == [DefaultBlockExtra EXCEPT
                !.serde_opts = opts, !.shards = c.data[3], !.fees = c.data[4],
                !.prev_blk_signatures = sigs.val,
                !.recover_create_msg = rc.val, !.mint_msg = mm.val,
                !.copyleft_msgs = IF tag = McBlockExtraTag2
                                  THEN ReadDict(mm.s).val ELSE 0,
                !.mesh = IF tag = McBlockExtraTag3
                         THEN ReadDict(mm.s).val ELSE 0,
                !.config = IF key_block THEN <<c.data[5]>> ELSE <<>>]
    IN  IF tag \notin {McBlockExtraTag, McBlockExtraTag2, McBlockExtraTag3}
        THEN [ok |-> FALSE]
        ELSE [ok |-> TRUE, val |-> x]

----------------------------------------------------------------------------
(* Storing and loading.                                                   *)

BlockTypeOK ==
    /\ block_extra \in BlockExtra /\ block_stored \in BlockExtra
    /\ block_opts \in SerdeOpts
    /\ block_phase \in {"mem", "wire", "loaded", "refused", "failed"}

BlockInit ==
    /\ block_extra \in BlockInputs /\ block_stored = block_extra
    /\ block_opts = SerdeOptsEmpty
    /\ block_wire = NoCell /\ block_phase = "mem"

\* serialize_with_opts(opts), or serialize() with opts empty; a refusal
\* ends the round trip.
StoreBlockExtra ==
    /\ block_phase \in {"mem", "loaded"}
    /\ \E opts \in SerdeOpts :
         LET w == WriteBlockExtra(block_extra, opts) IN
         IF w.ok
         THEN /\ block_wire' = w.cell /\ block_stored' = block_extra
              /\ block_opts' = opts /\ block_phase' = "wire"
         ELSE /\ block_phase' = "refused"
              /\ UNCHANGED <<block_wire, block_stored, block_opts>>
    /\ UNCHANGED block_extra

\* construct_from: read_from on a default value.
LoadBlockExtra ==
    /\ block_phase = "wire"
    /\ LET r == ReadBlockExtra(block_wire) IN
       IF r.ok THEN block_extra' = r.val /\ block_phase' = "loaded"
       ELSE block_phase' = "failed" /\ UNCHANGED block_extra
    /\ UNCHANGED <<block_stored, block_opts, block_wire>>

BlockNext == StoreBlockExtra \/ LoadBlockExtra

----------------------------------------------------------------------------
(* Properties.                                                            *)

\* Written with its own serde_opts, a McBlockExtra reads back field for
\* field: the tag carries the options, and each message keeps the options
\* its cell was built with.
BlockRoundTripOwnOpts ==
    block_phase = "loaded" /\ block_opts = block_stored.serde_opts
        => block_extra = block_stored

\* Spec section 8: decode(encode(x)) = x, whatever options the value was
\* serialized with (serialize() being write_to, i.e. no options).
BlockRoundTrip == block_phase = "loaded" => block_extra = block_stored
=============================================================================
