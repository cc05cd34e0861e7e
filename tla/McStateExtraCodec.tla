------------------------- MODULE McStateExtraCodec -------------------------
(***************************************************************************)
(* The McStateExtra wire format in src/master.rs: a fixed tag, the shard   *)
(* hashes and config inline, then a child cell that opens with a 16-bit    *)
(* flag mask saying which of four optional parts follow (block create      *)
(* stats, copyleft rewards, mesh hashes, validators stats), and the global *)
(* balance after the reference.  The shard hashes, config, validator info, *)
(* old blocks and global balance are opaque items; after_key_block and     *)
(* last_key_block are read unconditionally and kept.                       *)
(***************************************************************************)
EXTENDS Naturals, Sequences, Bitwise, CellCodec

CONSTANTS
    Values,     \* opaque contents of the always-present fields
    Payloads,   \* contents of the optional parts
    StateInputs \* the values the round trip starts from

VARIABLES
    state_extra,    \* the McStateExtra in memory
    state_stored,   \* the value the last write_to was called on
    state_wire,     \* the cell write_to produced
    state_phase     \* "mem", "wire", "loaded", "refused" or "failed"

state_vars == <<state_extra, state_stored, state_wire, state_phase>>

Opt == {<<>>} \cup {<<p>> : p \in Payloads}
Dict == {0} \cup Payloads

StateExtra ==
    [shards : Values, after_key_block : BOOLEAN, last_key_block : Opt,
     block_create_stats : Opt, state_copyleft_rewards : Dict, mesh : Dict,
     validators_stat : Dict, global_balance : Values]

ASSUME StateInputs \subseteq StateExtra

\* McStateExtra::default(), which read_from fills in.
DefaultStateExtra ==
    [shards |-> 0, after_key_block |-> FALSE, last_key_block |-> <<>>,
     block_create_stats |-> <<>>, state_copyleft_rewards |-> 0, mesh |-> 0,
     validators_stat |-> 0, global_balance |-> 0]

McStateExtraTag == 52262     \* 0xcc26
CreateStatsFlag == 1
CopyleftFlag == 2
MeshFlag == 4
ValStatFlag == 8

B(x) == IF x THEN 1 ELSE 0

----------------------------------------------------------------------------
(* McStateExtra::write_to                                                  *)

\* The flag mask: one bit per optional part present.
FlagsOf(x) ==
    CreateStatsFlag * B(x.block_create_stats # <<>>)
    + CopyleftFlag * B(x.state_copyleft_rewards # 0)
    + MeshFlag * B(x.mesh # 0)
    + ValStatFlag * B(x.validators_stat # 0)

\* write_to: refuses copyleft rewards together with validators stats.
\* Block create stats are written inline, with no presence bit; the
\* dictionaries with theirs.
WriteStateExtra(x) ==
    LET c1 == Cat(Cat(Cat(Cat(Builder(<<FlagsOf(x), B(x.after_key_block)>>),
                              WriteOpt(x.last_key_block)),
                          IF x.block_create_stats # <<>>
                          THEN Builder(<<x.block_create_stats[1]>>)
                          ELSE Builder(<<>>)),
                      IF x.state_copyleft_rewards # 0
                      THEN WriteDict(x.state_copyleft_rewards)
                      ELSE Builder(<<>>)),
                  Cat(IF x.mesh # 0 THEN WriteDict(x.mesh) ELSE Builder(<<>>),
                      IF x.validators_stat # 0
                      THEN WriteDict(x.validators_stat) ELSE Builder(<<>>)))
        main == WithRef(Builder(<<McStateExtraTag, x.shards>>), c1)
    IN  IF x.state_copyleft_rewards # 0 /\ x.validators_stat # 0
        THEN [ok |-> FALSE]
        ELSE [ok |-> TRUE, cell |-> Cat(main, Builder(<<x.global_balance>>))]

----------------------------------------------------------------------------
(* McStateExtra::read_from                                                 *)

\* The optional parts, with the mesh hashes read before the copyleft rewards.
ReadOptionalPartsMeshFirst(x, flags, s0) ==
    LET st == IF (flags & CreateStatsFlag) = 0 THEN [val |-> <<>>, s |-> s0]
              ELSE [val |-> <<Item(s0)>>, s |-> Skip(s0, 1)]
        me == IF (flags & MeshFlag) # 0 THEN ReadDict(st.s)
              ELSE [val |-> 0, s |-> st.s]
        cl == IF (flags & CopyleftFlag) # 0 THEN ReadDict(me.s)
              ELSE [val |-> 0, s |-> me.s]
        vs == IF (flags & ValStatFlag) # 0 THEN ReadDict(cl.s)
              ELSE [val |-> 0, s |-> cl.s]
    IN  [x EXCEPT !.block_create_stats = st.val,
                  !.state_copyleft_rewards = cl.val,
                  !.mesh = me.val, !.validators_stat = vs.val]

\* The parts after last_key_block, in the order the flags announce them.
ReadOptionalParts(x, flags, s0) ==
    LET st == IF (flags & CreateStatsFlag) = 0 THEN [val |-> <<>>, s |-> s0]
              ELSE [val |-> <<Item(s0)>>, s |-> Skip(s0, 1)]
        cl == IF (flags & CopyleftFlag) # 0 THEN ReadDict(st.s)
              ELSE [val |-> 0, s |-> st.s]
        me == IF (flags & MeshFlag) # 0 THEN ReadDict(cl.s)
              ELSE [val |-> 0, s |-> cl.s]
        vs == IF (flags & ValStatFlag) # 0 THEN ReadDict(me.s)
              ELSE [val |-> 0, s |-> me.s]
    IN  [x EXCEPT !.block_create_stats = st.val,
                  !.state_copyleft_rewards = cl.val,
                  !.mesh = me.val, !.validators_stat = vs.val]

\* read_from: fails on a wrong tag, a flag mask above 15, and copyleft
\* together with validators stats.
ReadStateExtra(c) ==
    LET s == Slice(c)
        c1 == DrainRef(Skip(s, 2))
        flags == Item(c1)
        lkb == ReadOpt(Skip(c1, 2))
        x == [DefaultStateExtra EXCEPT
                !.shards = c.data[2], !.after_key_block = (Item(Skip(c1, 1)) = 1),
                !.last_key_block = lkb.val, !.global_balance = c.data[3]]
    IN  IF Item(s) # McStateExtraTag \/ flags > 15 THEN [ok |-> FALSE]
        ELSE IF (flags & CopyleftFlag) # 0 /\ (flags & ValStatFlag) # 0
        THEN [ok |-> FALSE]
        ELSE [ok |-> TRUE, val |-> ReadOptionalParts(x, flags, lkb.s)]

----------------------------------------------------------------------------
(* Storing and loading.                                                   *)

StateTypeOK ==
    /\ state_extra \in StateExtra /\ state_stored \in StateExtra
    /\ state_phase \in {"mem", "wire", "loaded", "refused", "failed"}
    /\ state_phase = "wire" => state_wire.refs[1].data[1] \in 0..15

StateInit ==
    /\ state_extra \in StateInputs /\ state_stored = state_extra
    /\ state_wire = NoCell /\ state_phase = "mem"

\* serialize(): write_to into a new builder; a refusal ends the round trip.
StoreStateExtra ==
    /\ state_phase \in {"mem", "loaded"}
    /\ LET w == WriteStateExtra(state_extra) IN
       IF w.ok
       THEN /\ state_wire' = w.cell /\ state_stored' = state_extra
            /\ state_phase' = "wire"
       ELSE /\ state_phase' = "refused"
            /\ UNCHANGED <<state_wire, state_stored>>
    /\ UNCHANGED state_extra

\* construct_from: read_from on a default value.
LoadStateExtra ==
    /\ state_phase = "wire"
    /\ LET r == ReadStateExtra(state_wire) IN
       IF r.ok THEN state_extra' = r.val /\ state_phase' = "loaded"
       ELSE state_phase' = "failed" /\ UNCHANGED state_extra
    /\ UNCHANGED <<state_stored, state_wire>>

StateNext == StoreStateExtra \/ LoadStateExtra

----------------------------------------------------------------------------
(* Properties.                                                            *)

\* Spec section 8: what McStateExtra::write_to accepts, read_from returns
\* field for field, over repeated store/load cycles: the flag mask written
\* announces exactly the parts written, in the order they are read back.
StateRoundTrip == state_phase = "loaded" => state_extra = state_stored
=============================================================================
