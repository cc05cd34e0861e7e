--------------------------- MODULE KeyBlockIndex ---------------------------
(***************************************************************************)
(* OldMcBlocksInfo in src/master.rs: a HashmapAugE keyed by the 32-bit     *)
(* masterchain seq_no, value KeyExtBlkRef (key flag, end_lt, block ref),   *)
(* aggregate KeyMaxLt (key flags OR-ed, end_lt max-ed), and the two        *)
(* queries get_prev_key_block / get_next_key_block that walk the trie with *)
(* a pruning callback.                                                     *)
(*                                                                         *)
(* The key width 32 is the constant KeyBits.  The dictionary is a          *)
(* Patricia trie (hm_label edges), so the traversal, which lives outside   *)
(* src/ and is modelled from the spec, calls the callback only at          *)
(* branching nodes and at leaves, with the prefix of every bit consumed so *)
(* far.  The callbacks and KeyMaxLt::calc are modelled from the code.      *)
(***************************************************************************)
EXTENDS Naturals, FiniteSets, FiniteSetsExt, TLC

CONSTANTS
    KeyBits,         \* width of the seq_no key (32 in the code)
    Lts,             \* end_lt values a block may carry
    MaxBlocks,       \* bound on the number of entries stored
    OverflowChecks   \* TRUE for a build with overflow checks (debug)

ASSUME KeyBits \in Nat \ {0}
ASSUME OverflowChecks \in BOOLEAN

VARIABLE blocks      \* seq_no -> [key, end_lt] (the KeyExtBlkRef)

vars == <<blocks>>

SeqNo == 0..(2^KeyBits - 1)
KeyExtBlkRef == [key : BOOLEAN, end_lt : Lts]

NotFound == [kind |-> "none"]
Found(s) == [kind |-> "found", seq_no |-> s]
Panicked == [kind |-> "panic"]

\* The first l bits of a key, as an integer.
Top(k, l) == k \div 2^(KeyBits - l)

----------------------------------------------------------------------------
(* Aggregates.                                                            *)

\* KeyExtBlkRef::aug
Aug(v) == [key |-> v.key, max_end_lt |-> v.end_lt]

\* KeyMaxLt::calc: fold other into self.
CalcSumLt(self, other) ==
    [key |-> self.key \/ other.key,
     max_end_lt |-> self.max_end_lt + other.max_end_lt]

CalcNoKey(self, other) ==
    [key |-> self.key,
     max_end_lt |-> IF self.max_end_lt < other.max_end_lt
                    THEN other.max_end_lt ELSE self.max_end_lt]

Calc(self, other) ==
    [key |-> self.key \/ other.key,
     max_end_lt |-> IF self.max_end_lt < other.max_end_lt
                    THEN other.max_end_lt ELSE self.max_end_lt]

\* The aggregate the dictionary keeps at the node for prefix (p, l).
AugAt(p, l) ==
    FoldSet(LAMBDA k, acc : Calc(acc, Aug(blocks[k])),
            [key |-> FALSE, max_end_lt |-> 0],
            {k \in DOMAIN blocks : Top(k, l) = p})

----------------------------------------------------------------------------
(* The Patricia trie's nodes.                                             *)

\* Keys stored under prefix (p, l).
Under(p, l) == {k \in DOMAIN blocks : Top(k, l) = p}

\* The node reached after following prefix (p, l) and the label below it:
\* the longest prefix all keys under (p, l) share.
NodeAt(p, l) ==
    LET S == Under(p, l)
        m == CHOOSE m \in l..KeyBits :
               /\ \A a, b \in S : Top(a, m) = Top(b, m)
               /\ m = KeyBits \/ \E a, b \in S : Top(a, m + 1) # Top(b, m + 1)
    IN  <<Top(CHOOSE k \in S : TRUE, m), m>>

----------------------------------------------------------------------------
(* The callbacks.                                                         *)

\* build_key_part: the prefix bits left-aligned in a u32, shifted right by
\* 32 - key_prefix_len.  For the empty prefix the shift amount equals the
\* width: a build with overflow checks panics, one without masks the shift
\* to zero and returns the (all-zero) buffer.
BuildKeyPart(p, l) ==
    IF l = 0 THEN [ok |-> ~OverflowChecks, val |-> 0]
    ELSE [ok |-> TRUE, val |-> p]

\* The get_prev_key_block closure.
PrevStepOneZeroSwapped(req, p, l, aug) ==
    IF ~aug.key THEN "Stop"
    ELSE LET x == BuildKeyPart(p, l).val  d == KeyBits - l IN
      IF ~BuildKeyPart(p, l).ok THEN "Panic"
      ELSE IF d = 0 THEN (IF x <= req THEN "End" ELSE "Stop")
      ELSE LET y == req \div 2^(d - 1) IN
        IF y < 2 * x THEN "Stop"
        ELSE IF y = 2 * x THEN "VisitZero"
        ELSE "VisitZeroOne"

PrevStep(req, p, l, aug) ==
    IF ~aug.key THEN "Stop"
    ELSE LET x == BuildKeyPart(p, l).val  d == KeyBits - l IN
      IF ~BuildKeyPart(p, l).ok THEN "Panic"
      ELSE IF d = 0 THEN (IF x <= req THEN "End" ELSE "Stop")
      ELSE LET y == req \div 2^(d - 1) IN
        IF y < 2 * x THEN "Stop"
        ELSE IF y = 2 * x THEN "VisitZero"
        ELSE "VisitOneZero"

\* The get_next_key_block closure, with the comparison against 2x.
NextStepOffByOne(req, p, l, aug) ==
    IF ~aug.key THEN "Stop"
    ELSE LET x == BuildKeyPart(p, l).val  d == KeyBits - l IN
      IF ~BuildKeyPart(p, l).ok THEN "Panic"
      ELSE IF d = 0 THEN (IF x >= req THEN "End" ELSE "Stop")
      ELSE LET y == req \div 2^(d - 1) IN
        IF y > 2 * x THEN "Stop"
        ELSE IF y = 2 * x THEN "VisitOne"
        ELSE "VisitZeroOne"

NextStep(req, p, l, aug) ==
    IF ~aug.key THEN "Stop"
    ELSE LET x == BuildKeyPart(p, l).val  d == KeyBits - l IN
      IF ~BuildKeyPart(p, l).ok THEN "Panic"
      ELSE IF d = 0 THEN (IF x >= req THEN "End" ELSE "Stop")
      ELSE LET y == req \div 2^(d - 1) IN
        IF y > 2 * x + 1 THEN "Stop"
        ELSE IF y = 2 * x + 1 THEN "VisitOne"
        ELSE "VisitZeroOne"

Step(dir, req, p, l) ==
    IF dir = "prev" THEN PrevStep(req, p, l, AugAt(p, l))
    ELSE NextStep(req, p, l, AugAt(p, l))

----------------------------------------------------------------------------
(* HashmapAug::traverse, modelled from the spec (section 4.3).            *)

RECURSIVE Walk(_, _, _, _), Descend(_, _, _, _, _)

\* Visit the node at prefix (p, l); End returns the node's value.
Walk(dir, req, p, l) ==
    LET step == Step(dir, req, p, l)
        first(b) == Descend(dir, req, p, l, b)
        thenOther(b) == IF first(b) = NotFound
                        THEN Descend(dir, req, p, l, 1 - b) ELSE first(b)
    IN  CASE step = "Stop"         -> NotFound
          [] step = "End"          -> Found(p)
          [] step = "Panic"        -> Panicked
          [] step = "VisitZero"    -> first(0)
          [] step = "VisitOne"     -> first(1)
          [] step = "VisitZeroOne" -> thenOther(0)
          [] step = "VisitOneZero" -> thenOther(1)

Descend(dir, req, p, l, b) ==
    LET n == NodeAt(2 * p + b, l + 1) IN Walk(dir, req, n[1], n[2])

Traverse(dir, req) ==
    IF DOMAIN blocks = {} THEN NotFound
    ELSE LET root == NodeAt(0, 0) IN Walk(dir, req, root[1], root[2])

\* get_prev_key_block / get_next_key_block
GetPrevKeyBlock(req) == Traverse("prev", req)
GetNextKeyBlock(req) == Traverse("next", req)

----------------------------------------------------------------------------
(* The index as a state machine: blocks are recorded one by one.          *)

TypeOK ==
    /\ DOMAIN blocks \subseteq SeqNo
    /\ \A s \in DOMAIN blocks : blocks[s] \in KeyExtBlkRef
    /\ AugAt(0, 0) \in [key : BOOLEAN, max_end_lt : Lts \cup {0}]

Init == blocks = <<>>

\* set(seq_no, KeyExtBlkRef): record (or overwrite) the block's entry, the
\* dictionary recomputing the aggregates on the path to it.  New entries
\* are bounded by MaxBlocks.
SetBlock(s, v) ==
    /\ s \in DOMAIN blocks \/ Cardinality(DOMAIN blocks) < MaxBlocks
    /\ blocks' = (s :> v) @@ blocks

Next == \E s \in SeqNo, v \in KeyExtBlkRef : SetBlock(s, v)

Spec == Init /\ [][Next]_vars

----------------------------------------------------------------------------
(* Reference definitions: linear scans.                                   *)

KeyBlocks == {s \in DOMAIN blocks : blocks[s].key}

PrevRef(req) ==
    IF \E s \in KeyBlocks : s <= req
    THEN Found(Max({s \in KeyBlocks : s <= req})) ELSE NotFound

NextRef(req) ==
    IF \E s \in KeyBlocks : s >= req
    THEN Found(Min({s \in KeyBlocks : s >= req})) ELSE NotFound

----------------------------------------------------------------------------
(* Properties.                                                            *)

\* get_prev_key_block's pruned descent returns, for every request seq_no,
\* the key block with the largest seq_no <= req, or none: the same answer
\* as a scan of every entry, whatever set of blocks the index holds.
PrevKeyBlockCorrect == \A req \in SeqNo : GetPrevKeyBlock(req) = PrevRef(req)

\* get_next_key_block returns the key block with the smallest seq_no >=
\* req, or none, as a scan of every entry would.
NextKeyBlockCorrect == \A req \in SeqNo : GetNextKeyBlock(req) = NextRef(req)
=============================================================================
