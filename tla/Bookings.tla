------------------------------ MODULE Bookings -------------------------------
(***************************************************************************)
(* The booking service: who holds which TV when.                           *)
(*                                                                         *)
(* create_booking first looks for bookings in the way and inserts its own  *)
(* a few awaits later, so it is two steps here; every other operation is   *)
(* one transaction.  Time is a set of instants; a booking holds its TV     *)
(* from booking_start up to, but not including, booking_end.               *)
(***************************************************************************)
EXTENDS Integers, FiniteSets

CONSTANTS
  Ids,          \* bookings.id values: bounds how many bookings are made
  TVs,          \* tv_devices
  Slots,        \* <<booking_start, booking_end>> pairs that are asked for
  None,
  Workers,      \* tasks that can be inside create_booking at the same time
  Serial        \* TRUE: create_booking calls do not overlap

ASSUME SlotsAreIntervals == \A p \in Slots : p \in Int \X Int /\ p[1] < p[2]
ASSUME NoneIsNoRequest == None \notin TVs \X Slots
ASSUME SerialIsBoolean == Serial \in BOOLEAN

VARIABLES
  status,     \* bookings.status, "none" where there is no row yet
  tv,         \* bookings.tv_device_id
  slot,       \* <<bookings.booking_start, bookings.booking_end>>
  request,    \* what each task's create_booking has found free and will insert
  reply,      \* how the last create_booking ended
  unchecked   \* history: bookings that hold their slot without a check

held == <<tv, slot>>
vars == <<status, held, request, reply, unchecked>>

Statuses == {"none", "pending", "confirmed", "active", "overrun", "completed",
             "cancelled", "expired", "failed"}
Finished == {"completed", "cancelled", "expired"}

\* The statuses that reserve the slot.
Blocking == {"active", "confirmed", "pending"}

\* Mutant: pending bookings do not count, as the docstring could be read.
ConflictsUnconfirmed(d, p) ==
  {i \in Ids : /\ status[i] \in {"active", "confirmed"}
               /\ tv[i] = d
               /\ slot[i][1] < p[2]
               /\ slot[i][2] > p[1]}

\* The bookings create_booking's query returns: (start1 < end2) and (start2 < end1).
Conflicts(d, p) ==
  {i \in Ids : /\ status[i] \in Blocking
               /\ tv[i] = d
               /\ slot[i][1] < p[2]
               /\ slot[i][2] > p[1]}

Init ==
  /\ status = [i \in Ids |-> "none"]
  /\ tv = [i \in Ids |-> None]
  /\ slot = [i \in Ids |-> None]
  /\ request = [w \in Workers |-> None]
  /\ reply = "none"
  /\ unchecked = {}

------------------------------------------------------------------------------
\* The conflict query.  scalar_one_or_none accepts one row at most: with two
\* bookings in the way it raises MultipleResultsFound instead.
check_conflicts(w, d, p) ==
  /\ request[w] = None
  /\ Serial => \A v \in Workers : request[v] = None
  /\ LET found == Cardinality(Conflicts(d, p)) IN
       \/ /\ Conflicts(d, p) = {}
          /\ request' = [request EXCEPT ![w] = <<d, p>>]
          /\ UNCHANGED reply
       \/ /\ Conflicts(d, p) # {}
          /\ reply' = IF found = 1 THEN "BookingConflictError" ELSE "MultipleResultsFound"
          /\ UNCHANGED request
  /\ UNCHANGED <<status, held, unchecked>>

\* The INSERT at the end of create_booking.
insert_booking(w, i) ==
  /\ request[w] # None
  /\ status[i] = "none"
  /\ status' = [status EXCEPT ![i] = "pending"]
  /\ tv' = [tv EXCEPT ![i] = request[w][1]]
  /\ slot' = [slot EXCEPT ![i] = request[w][2]]
  /\ request' = [request EXCEPT ![w] = None]
  /\ reply' = "created"
  /\ UNCHANGED unchecked

\* Calls that fail, or whose process stops, before the INSERT is committed.
abandon(W) ==
  /\ request' = [w \in Workers |-> IF w \in W THEN None ELSE request[w]]
  /\ UNCHANGED <<status, held, reply, unchecked>>

Move(i, from, to) ==
  /\ status[i] \in from
  /\ status' = [status EXCEPT ![i] = to]
  /\ UNCHANGED <<held, request, reply>>

cancel_booking(i)   == Move(i, Statuses \ (Finished \union {"none"}), "cancelled") /\ UNCHANGED unchecked
confirm_booking(i)  == Move(i, {"pending"}, "confirmed")  /\ UNCHANGED unchecked
activate_booking(i) == Move(i, {"confirmed"}, "active")   /\ UNCHANGED unchecked
complete_booking(i) == Move(i, {"active"}, "completed")   /\ UNCHANGED unchecked
set_booking_overrun(i) == Move(i, {"active"}, "overrun")  /\ UNCHANGED unchecked

\* services.scheduler._expire_pending_booking, for one booking.
expire_booking(i) == Move(i, {"pending"}, "expired") /\ UNCHANGED unchecked

\* An overrun gave the slot up; resolving it takes the slot back unasked.
resolve_overrun(i) ==
  /\ Move(i, {"overrun"}, "active")
  /\ unchecked' = unchecked \union {i}

expire_pending_bookings(before) ==
  /\ status' = [i \in Ids |-> IF status[i] = "pending" /\ slot[i][1] <= before
                              THEN "expired" ELSE status[i]]
  /\ UNCHANGED <<held, request, reply, unchecked>>

Next ==
  \/ \E w \in Workers, d \in TVs, p \in Slots : check_conflicts(w, d, p)
  \/ \E w \in Workers, i \in Ids : insert_booking(w, i)
  \/ \E W \in SUBSET Workers : abandon(W)
  \/ \E i \in Ids : cancel_booking(i)
  \/ \E i \in Ids : confirm_booking(i)
  \/ \E i \in Ids : activate_booking(i)
  \/ \E i \in Ids : complete_booking(i)
  \/ \E i \in Ids : set_booking_overrun(i)
  \/ \E i \in Ids : resolve_overrun(i)
  \/ \E i \in Ids : expire_booking(i)
  \/ \E p \in Slots : expire_pending_bookings(p[1])

Spec == Init /\ [][Next]_vars

------------------------------------------------------------------------------
\* Every column holds values of its type.
TypeOK ==
  /\ status \in [Ids -> Statuses]
  /\ tv \in [Ids -> TVs \union {None}]
  /\ slot \in [Ids -> Slots \union {None}]
  /\ request \in [Workers -> (TVs \X Slots) \union {None}]
  /\ reply \in {"none", "created", "BookingConflictError", "MultipleResultsFound"}
  /\ unchecked \subseteq Ids

\* The instants at which a requested slot begins.  Slots that share any instant
\* share the later of their beginnings, so these are all that need looking at.
Instants == {p[1] : p \in Slots}

\* Booking i reserves its TV at instant t.
Holds(i, t) == status[i] \in Blocking /\ slot[i][1] <= t /\ t < slot[i][2]

\* A TV is never held twice at one instant by bookings that were checked:
\* confirming, activating, expiring, cancelling and overrunning, in whatever
\* order, between any check and its insert, do not open a gap.
CheckedBookingsExclusive ==
  \A i, j \in Ids \ unchecked :
    i # j /\ tv[i] = tv[j] => \A t \in Instants : ~(Holds(i, t) /\ Holds(j, t))

------------------------------------------------------------------------------
(* What the code's words promise and the code does not keep.                *)

\* services/bookings.py:56: no overlap on one TV, however it came about.
SlotExclusive ==
  \A i, j \in Ids :
    i # j /\ tv[i] = tv[j] =>
      ~(/\ status[i] \in Blocking /\ status[j] \in Blocking
        /\ slot[i][1] < slot[j][2] /\ slot[j][1] < slot[i][2])

\* services/bookings.py:22: an overlap is answered by BookingConflictError.
ConflictIsReported == reply # "MultipleResultsFound"
==============================================================================
