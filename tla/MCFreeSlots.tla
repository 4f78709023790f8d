----------------------------- MODULE MCFreeSlots -----------------------------
(* Small instances of FreeSlots for TLC.                                    *)
EXTENDS FreeSlots

\* A long slot, one inside it, and one that touches that and sticks out of it.
MCSlots == {<<0, 3>>, <<1, 2>>, <<2, 4>>}

\* Windows that cut bookings at either end, and one that holds them all.
MCWindows == {<<0, 4>>, <<1, 3>>, <<2, 5>>}

Symmetric == Permutations(Ids) \union Permutations(TVs)
==============================================================================
