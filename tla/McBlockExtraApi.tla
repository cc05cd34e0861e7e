-------------------------- MODULE McBlockExtraApi --------------------------
(***************************************************************************)
(* McBlockExtra as its owner builds it in src/master.rs: created by        *)
(* default() or with_common_message_support(), then changed through       *)
(* write_recover_create_msg, write_mint_msg and write_copyleft_msgs, and  *)
(* read back through read_copyleft_msgs.  A message is its payload and the *)
(* serde options its cell was built with.  The copyleft dictionary         *)
(* (CopyleftMessages, HashmapE keyed by U15) is a function from the keys  *)
(* set so far to messages.                                                 *)
(*                                                                         *)
(* read_from, which replaces serde_opts from the tag, is modelled in       *)
(* McBlockExtraCodec on a default value only.                              *)
(***************************************************************************)
EXTENDS Naturals, Sequences, FiniteSets
LOCAL INSTANCE SequencesExt

CONSTANTS
    ApiPayloads,    \* the InMsg values a caller passes
    MaxCopyleft     \* the longest list passed to write_copyleft_msgs

VARIABLES
    api_opts,       \* serde_opts
    api_recover,    \* recover_create_msg: <<>> or <<message>>
    api_mint,       \* mint_msg
    copyleft,       \* copyleft_msgs: key |-> message
    api_written     \* the list of the last write_copyleft_msgs call

api_vars == <<api_opts, api_recover, api_mint, copyleft, api_written>>

ApiOptsEmpty == 0           \* SERDE_OPTS_EMPTY
ApiOptsCommonMessage == 1   \* SERDE_OPTS_COMMON_MESSAGE

ApiMsg == [payload : ApiPayloads, format : {ApiOptsEmpty, ApiOptsCommonMessage}]
CopyleftLists == BoundedSeq(ApiPayloads, MaxCopyleft)

\* ChildCell::with_struct_and_opts(v, self.serde_opts), and
\* rec.serialize_with_opts(self.serde_opts).
Built(payload, opts) == [payload |-> payload, format |-> opts]

\* Option<&InMsg> mapped to an optional child cell.
BuiltOpt(v, opts) == IF v = <<>> THEN <<>> ELSE <<Built(v[1], opts)>>

\* read_copyleft_msgs: looks up the keys 0 .. len()-1 in turn and fails
\* with "Cant find index" on the first one that is missing.
ReadCopyleftMsgs(dict) ==
    LET n == Cardinality(DOMAIN dict) IN
    IF \E i \in 0..(n - 1) : i \notin DOMAIN dict THEN [ok |-> FALSE]
    ELSE [ok |-> TRUE, val |-> [j \in 1..n |-> dict[j - 1].payload]]

----------------------------------------------------------------------------
(* Operations.                                                             *)

ApiInit ==
    /\ api_opts \in {ApiOptsEmpty, ApiOptsCommonMessage}
    /\ api_recover = <<>> /\ api_mint = <<>>
    /\ copyleft = <<>>    \* the empty function: no key set
    /\ api_written = <<>>

WriteRecoverCreateMsg(v) ==
    /\ api_recover' = BuiltOpt(v, api_opts)
    /\ UNCHANGED <<api_opts, api_mint, copyleft, api_written>>

WriteMintMsg(v) ==
    /\ api_mint' = BuiltOpt(v, api_opts)
    /\ UNCHANGED <<api_opts, api_recover, copyleft, api_written>>

\* The keys the loop of write_copyleft_msgs sets: enumerate() from 1.
CopyleftKeysFromOne(list) == [i \in 1..Len(list) |-> i]

\* The keys the loop of write_copyleft_msgs sets: U15(i as i16) for the
\* enumerate() index i, from 0.
CopyleftKeys(list) == [i \in 1..Len(list) |-> i - 1]

\* write_copyleft_msgs: setref for each element in turn; the keys set
\* before and not overwritten stay.
WriteCopyleftMsgs(list) ==
    LET keys == CopyleftKeys(list)
        new == {keys[i] : i \in 1..Len(list)}
    IN  /\ copyleft' =
              [k \in DOMAIN copyleft \cup new |->
                  IF \E i \in 1..Len(list) : keys[i] = k
                  THEN Built(list[CHOOSE i \in 1..Len(list) : keys[i] = k],
                             api_opts)
                  ELSE copyleft[k]]
        /\ api_written' = list
        /\ UNCHANGED <<api_opts, api_recover, api_mint>>

ApiNext ==
    \/ \E v \in {<<>>} \cup {<<p>> : p \in ApiPayloads} :
          WriteRecoverCreateMsg(v) \/ WriteMintMsg(v)
    \/ \E list \in CopyleftLists : WriteCopyleftMsgs(list)

ApiTypeOK ==
    /\ api_opts \in {ApiOptsEmpty, ApiOptsCommonMessage}
    /\ api_recover \in {<<>>} \cup {<<m>> : m \in ApiMsg}
    /\ api_mint \in {<<>>} \cup {<<m>> : m \in ApiMsg}
    /\ DOMAIN copyleft \subseteq 0..(MaxCopyleft - 1)
    /\ \A k \in DOMAIN copyleft : copyleft[k] \in ApiMsg
    /\ api_written \in CopyleftLists

----------------------------------------------------------------------------
(* Properties.                                                            *)

(* After any sequence of write_copyleft_msgs calls of any lengths,         *)
(* read_copyleft_msgs succeeds (the keys set are always 0 .. len()-1, so  *)
(* no "Cant find index" error) and returns the last list written as its   *)
(* prefix.  What follows the prefix is the tail of a longer earlier list,  *)
(* which the code never clears.                                            *)
CopyleftReadsLastWrite ==
    LET r == ReadCopyleftMsgs(copyleft) IN
    /\ r.ok
    /\ Len(r.val) >= Len(api_written)
    /\ SubSeq(r.val, 1, Len(api_written)) = api_written

============================================================================
