----------------------------- MODULE Counters ------------------------------
(***************************************************************************)
(* Counters in src/master.rs: a block creator's decayed statistics, with   *)
(* two exponentially decaying windows (half-lives ~2048 and ~65536         *)
(* seconds) kept in fixed point (the count shifted left by 32 bits) in     *)
(* u64s, mutated only by increase_by(count, now), which returns whether it *)
(* accepted the update.                                                    *)
(*                                                                         *)
(* The u64 width and the 32-bit scaling shift are the constants Width and  *)
(* Shift; the arithmetic keeps them (bitwise not, a shift that drops high *)
(* bits, wrapping addition).  umulnexps32(x, k) = round(x * exp(-k/2^16)) *)
(* is computed in f64; it is modelled by a table ExpFactor[k] =           *)
(* round(2^16 * exp(-k/2^16)) and either integer neighbour of              *)
(* x * ExpFactor[k] / 2^16, the code's rounding error being below one.     *)
(***************************************************************************)
EXTENDS Naturals

CONSTANTS
    Width,        \* bits of total, cnt2048 and cnt65536 (64 in the code)
    Shift,        \* fixed-point shift of a count (32 in the code)
    Counts,       \* counts increase_by is called with
    Nows,         \* unix times increase_by is called with
    ExpFactor     \* k -> round(2^16 * exp(-k / 2^16)) for the k that occur

ASSUME Shift < Width

VARIABLES
    last_updated, total, cnt2048, cnt65536,
    result        \* the last call: its arguments and the bool it returned

vars == <<last_updated, total, cnt2048, cnt65536, result>>

Word == 0..(2^Width - 1)
ResetAfter == 48 * 2048       \* dt from which cnt2048 is taken as zero

\* !x on a Width-bit unsigned integer.
Not(x) == 2^Width - 1 - x

\* count << 32 on a u64: the bits shifted past the width are lost.
Scaled(count) == (count * 2^Shift) % 2^Width

\* umulnexps32(x, k): the values the f64 computation can round to.
Umulnexps32(x, k) ==
    {(x * ExpFactor[k]) \div 2^16, (x * ExpFactor[k] + 2^16 - 1) \div 2^16}

----------------------------------------------------------------------------

\* is_valid
IsValid ==
    IF total = 0 THEN cnt2048 = 0 /\ cnt65536 = 0
    ELSE last_updated # 0

\* The u64 fields stay within their width: no += of increase_by overflows.
TypeOK ==
    /\ last_updated \in Nows \cup {0}
    /\ total \in Word /\ cnt2048 \in Word /\ cnt65536 \in Word
    /\ result \in [count : Counts \cup {0}, now : Nows \cup {0}, ok : BOOLEAN]

\* Counters::default()
Init ==
    /\ last_updated = 0 /\ total = 0 /\ cnt2048 = 0 /\ cnt65536 = 0
    /\ result = [count |-> 0, now |-> 0, ok |-> FALSE]

Refuse(count, now) ==
    /\ result' = [count |-> count, now |-> now, ok |-> FALSE]
    /\ UNCHANGED <<last_updated, total, cnt2048, cnt65536>>

Accept(count, now) == result' = [count |-> count, now |-> now, ok |-> TRUE]

\* The first observation of a zero counter: no overflow check at all.
FirstObservation(count, now) ==
    /\ last_updated' = now
    /\ total' = count
    /\ cnt2048' = Scaled(count) /\ cnt65536' = Scaled(count)

\* The refusal test: the total, or either window before decay, would
\* overflow.
WouldOverflowTotalOnly(count) ==
    count > Not(total)

WouldOverflow(count) ==
    \/ count > Not(total)
    \/ cnt2048 > Not(Scaled(count))
    \/ cnt65536 > Not(Scaled(count))

\* An Accumulate that takes the distance between the clock readings as dt,
\* whichever way the clock went.
AccumulateAbsDt(count, now) ==
    LET dt == IF now >= last_updated THEN now - last_updated ELSE last_updated - now
        d2048 == IF dt = 0 THEN {cnt2048}
                 ELSE IF dt >= ResetAfter THEN {0}
                 ELSE Umulnexps32(cnt2048, dt * 32)
        d65536 == IF dt = 0 THEN {cnt65536} ELSE Umulnexps32(cnt65536, dt)
    IN  /\ total' = total + count
        /\ \E a \in d2048 : cnt2048' = a + Scaled(count)
        /\ \E b \in d65536 : cnt65536' = b + Scaled(count)
        /\ last_updated' = now

\* Decay both windows over dt (dt saturates at zero when the clock goes
\* back), add the scaled count and stamp the update.  The three += are
\* left unbounded: a sum past Word is an overflow (a panic in a debug
\* build, a wrap in a release one), which TypeOK rules out.
Accumulate(count, now) ==
    LET dt == IF now >= last_updated THEN now - last_updated ELSE 0
        d2048 == IF dt = 0 THEN {cnt2048}
                 ELSE IF dt >= ResetAfter THEN {0}
                 ELSE Umulnexps32(cnt2048, dt * 32)
        d65536 == IF dt = 0 THEN {cnt65536} ELSE Umulnexps32(cnt65536, dt)
    IN  /\ total' = total + count
        /\ \E a \in d2048 : cnt2048' = a + Scaled(count)
        /\ \E b \in d65536 : cnt65536' = b + Scaled(count)
        /\ last_updated' = now

\* increase_by(count, now)
IncreaseBy(count, now) ==
    \/ /\ ~IsValid
       /\ Refuse(count, now)
    \/ /\ IsValid /\ total = 0
       /\ FirstObservation(count, now)
       /\ Accept(count, now)
    \/ /\ IsValid /\ total # 0 /\ WouldOverflow(count)
       /\ Refuse(count, now)
    \/ /\ IsValid /\ total # 0 /\ ~WouldOverflow(count)
       /\ Accumulate(count, now)
       /\ Accept(count, now)

Next == \E count \in Counts, now \in Nows : IncreaseBy(count, now)

Spec == Init /\ [][Next]_vars

----------------------------------------------------------------------------
(* Properties.                                                            *)

\* The counter never reaches a state is_valid rejects (spec: total = 0
\* implies both windows are 0, total # 0 implies last_updated # 0); an
\* invalid counter refuses every later increase_by.
CountersValid == IsValid

\* increase_by refuses rather than wraps (spec section 7(d)): a call that
\* returns true adds exactly count to total and leaves each window holding
\* at least count << 32, with no bit lost to the u64 width, over any
\* sequence of counts and clock readings.
NoWrapOnAccept ==
    [][result'.ok =>
         /\ total' = total + result'.count
         /\ cnt2048' >= result'.count * 2^Shift
         /\ cnt65536' >= result'.count * 2^Shift]_vars

\* A clock that goes back or stands still decays nothing (spec 4.4: dt
\* saturates at 0): an accepted increase_by on a counter last updated at or
\* after now adds the scaled count to both windows undecayed, even though
\* it then moves last_updated back to now.
NoDecayWithoutElapsedTime ==
    [][result'.ok /\ total # 0 /\ result'.now <= last_updated
         => /\ cnt2048' = cnt2048 + result'.count * 2^Shift
            /\ cnt65536' = cnt65536 + result'.count * 2^Shift]_vars

\* Spec section 4.4: once dt >= 48 * 2048, the long window (cnt65536) is
\* reset before the new count is added.
LongWindowReset ==
    [][result'.ok /\ total # 0 /\ result'.now >= last_updated + ResetAfter
         => cnt65536' = result'.count * 2^Shift]_vars
=============================================================================
