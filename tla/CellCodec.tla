----------------------------- MODULE CellCodec ------------------------------
(***************************************************************************)
(* The cell codec the structures of src/master.rs serialize through        *)
(* (BuilderData, SliceData, Option<T> and HashmapE), which lives outside    *)
(* src/ and is modelled from the spec (section 6).  A cell is a record of  *)
(* data items, read in order, and references to cells, drained in order;  *)
(* an item is a bit (0 or 1) or a whole field taken as one opaque value.   *)
(* Option<T> is <<>> or <<payload>>; a dictionary (HashmapE) is 0 when     *)
(* empty, else its contents as one value.                                  *)
(***************************************************************************)
EXTENDS Naturals, Sequences

Builder(items) == [data |-> items, refs |-> <<>>]
Cat(a, b) == [data |-> a.data \o b.data, refs |-> a.refs \o b.refs]
WithRef(a, c) == [a EXCEPT !.refs = Append(@, c)]

\* Option<T>::write_to: a presence bit, then the value.
WriteOpt(o) == IF o = <<>> THEN Builder(<<0>>) ELSE Builder(<<1, o[1]>>)

\* HashmapE::write_to: a presence bit, then the root by reference.
WriteDict(x) ==
    IF x = 0 THEN Builder(<<0>>) ELSE WithRef(Builder(<<1>>), Builder(<<x>>))

\* A slice: a cell with a cursor into its data and its references.
Slice(c) == [cell |-> c, d |-> 1, r |-> 1]
Item(s) == s.cell.data[s.d]
Skip(s, n) == [s EXCEPT !.d = @ + n]

ReadOpt(s) ==
    IF Item(s) = 0 THEN [val |-> <<>>, s |-> Skip(s, 1)]
    ELSE [val |-> <<s.cell.data[s.d + 1]>>, s |-> Skip(s, 2)]

ReadDict(s) ==
    IF Item(s) = 0 THEN [val |-> 0, s |-> Skip(s, 1)]
    ELSE [val |-> s.cell.refs[s.r].data[1],
          s |-> [Skip(s, 1) EXCEPT !.r = @ + 1]]

\* checked_drain_reference: the next reference, as a slice of its own.
DrainRef(s) == Slice(s.cell.refs[s.r])

\* A builder with nothing written to it.
NoCell == Builder(<<>>)
=============================================================================
