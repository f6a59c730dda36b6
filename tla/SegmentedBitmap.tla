--------------------------- MODULE SegmentedBitmap ---------------------------
(***************************************************************************)
(* The duplicate checker of a thread (src/src/utils.h, SegmentedBitmap on  *)
(* AtomicBitmap): a bitmap that grows by segments of L bits when a bit     *)
(* beyond its end is set.  Which byte of a segment a bit is in does not    *)
(* matter here: the operations on a byte are atomic and leave the other    *)
(* bits alone.                                                             *)
(***************************************************************************)
EXTENDS Integers, FiniteSetsExt

\* The constructor for n bits; new segments are all zero.
NewBitmap(n, L) == [segments |-> (n + L - 1) \div L, bits |-> {}]

Size(b, L) == b.segments * L

GetBit(b, pos, L) == pos < Size(b, L) /\ pos \in b.bits

SetBit(b, pos, L) ==
    [segments |-> IF pos >= Size(b, L) THEN (pos + L) \div L ELSE b.segments,
     bits |-> b.bits \cup {pos}]

ClearBit(b, pos, L) == IF pos >= Size(b, L) THEN b ELSE [b EXCEPT !.bits = @ \ {pos}]

\* One SetBit, or one ClearBit, for every position of a finite set, in any order.
SetBits(b, P, L) ==
    [segments |-> Max({b.segments} \cup {(p + L) \div L : p \in P}), bits |-> b.bits \cup P]

ClearBits(b, P, L) == [b EXCEPT !.bits = {p \in @ : p >= Size(b, L) \/ p \notin P}]
=============================================================================
