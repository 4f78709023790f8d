----------------------------- MODULE MCBookings ------------------------------
(* Small instances of Bookings for TLC.                                     *)
EXTENDS Bookings, TLC

\* Slots that touch, overlap and lie one within another.
MCSlots == {<<0, 1>>, <<1, 3>>, <<0, 2>>}

\* Booking ids, TVs and tasks are interchangeable.
Symmetric == Permutations(Ids) \union Permutations(TVs) \union Permutations(Workers)
==============================================================================
