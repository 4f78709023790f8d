------------------------------ MODULE FreeSlots ------------------------------
(***************************************************************************)
(* list_free_slots: the gaps between the bookings of a TV in a window of   *)
(* time, found by sweeping a cursor over the bookings in the order in      *)
(* which they start.  It is a query on the state of Bookings.              *)
(***************************************************************************)
EXTENDS Bookings, SequencesExt

CONSTANT Windows  \* <<from_dt, to_dt>> pairs that are asked for

ASSUME WindowsAreIntervals == \A x \in Windows : x \in Int \X Int /\ x[1] < x[2]

Earlier(s, t) == IF s < t THEN s ELSE t
Later(s, t)   == IF s < t THEN t ELSE s

\* The bookings the query returns.  They are those that conflict with the window.
BlockedIn(d, x) ==
  {i \in Ids : /\ tv[i] = d
               /\ status[i] \in Blocking
               /\ slot[i][2] > x[1]
               /\ slot[i][1] < x[2]}

\* The orders in which ORDER BY booking_start may return them.
StartOrders(S) ==
  {order \in SetToSeqs(S) :
     \A k \in 1..(Len(order) - 1) : slot[order[k]][1] <= slot[order[k + 1]][1]}

\* Mutant: the cursor goes back to the end of a booking within another.
SweepBack(acc, i, to) ==
  [free   |-> IF slot[i][1] > acc.cursor
              THEN Append(acc.free, <<acc.cursor, Earlier(slot[i][1], to)>>)
              ELSE acc.free,
   cursor |-> slot[i][2]]

\* One turn of the loop, for booking i.
Sweep(acc, i, to) ==
  [free   |-> IF slot[i][1] > acc.cursor
              THEN Append(acc.free, <<acc.cursor, Earlier(slot[i][1], to)>>)
              ELSE acc.free,
   cursor |-> Later(acc.cursor, slot[i][2])]

\* What the loop has after each number of turns.
Swept(order, x) ==
  LET after[k \in 0..Len(order)] ==
        IF k = 0 THEN [free |-> <<>>, cursor |-> x[1]]
        ELSE Sweep(after[k - 1], order[k], x[2])
  IN after

list_free_slots(order, x) ==
  LET last == Swept(order, x)[Len(order)]
  IN IF last.cursor < x[2] THEN Append(last.free, <<last.cursor, x[2]>>) ELSE last.free

------------------------------------------------------------------------------
\* Every answer list_free_slots can give in this state, for a TV and a window.
AllAnswers(P(_, _, _)) ==
  \A d \in TVs, x \in Windows : \A order \in StartOrders(BlockedIn(d, x)) :
    P(d, x, list_free_slots(order, x))

\* What the service shows as free is what it would let one book: a slot in the
\* window lies inside a listed gap exactly when create_booking finds nothing in
\* its way, also when bookings overlap or lie one within another.
FreeSlotsAreBookable ==
  LET exact(d, x, free) ==
        \A p \in Slots : x[1] <= p[1] /\ p[2] <= x[2] =>
          (Conflicts(d, p) = {} <=> \E gap \in Range(free) : gap[1] <= p[1] /\ p[2] <= gap[2])
  IN AllAnswers(exact)

\* The gaps are real intervals of the window, in order, with something booked
\* between any two of them.
GapsAreApart ==
  LET apart(d, x, free) ==
        /\ \A k \in DOMAIN free : x[1] <= free[k][1] /\ free[k][1] < free[k][2]
                                  /\ free[k][2] <= x[2]
        /\ \A k \in 1..(Len(free) - 1) : free[k][2] < free[k + 1][1]
  IN AllAnswers(apart)

\* list_free_slots answers with all that is free and nothing else, as slots
\* that do not overlap (services/bookings.py:192).
FreeSlotsCorrect == FreeSlotsAreBookable /\ GapsAreApart
==============================================================================
