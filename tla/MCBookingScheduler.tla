-------------------------- MODULE MCBookingScheduler -------------------------
(* Small instances of BookingScheduler for TLC.                             *)
EXTENDS BookingScheduler, TLC

\* Slots that touch.  At instant 0 the first has no confirmation deadline to
\* come any more, and the second has.
MCSlots == {<<1, 3>>, <<3, 4>>}

Symmetric == Permutations(Ids) \union Permutations(TVs)
==============================================================================
