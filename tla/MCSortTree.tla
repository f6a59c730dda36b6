----------------------------- MODULE MCSortTree -----------------------------
(* Small instances of SortTree for TLC. *)
EXTENDS SortTreeProperties

\* Trees of two to four bits, designed for one ID, for few and for most of them.
EstimatesSmall ==
    {<<1, 2, 2>>, <<3, 2, 2>>, <<4, 3, 3>>, <<3, 4, 2>>}

\* Arrays by hand: several levels, an empty level, fewer and more bits.
DesignsSmall == {<<1, 1>>, <<2, 1>>, <<1, 2>>, <<1, 1, 1>>, <<0, 3>>, <<1, 1, 2>>}
=============================================================================
