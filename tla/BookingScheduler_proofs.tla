----------------------- MODULE BookingScheduler_proofs -----------------------
(***************************************************************************)
(* Theorems about the booking service and its free slots, and about        *)
(* bookings driven by the clock, for any bookings, TVs, slots, windows and *)
(* horizon, with restarts at any time.                                     *)
(*                                                                         *)
(* The service alone: CheckedBookingsExclusive is not inductive, since     *)
(* between a check and its insert the slot that was found free must stay   *)
(* free.  Disjoint says it with intervals, Reserved extends it to the      *)
(* requests on their way, and OneRequest is what serial calls add.         *)
(* Without Serial, OneRequest fails and so does the theorem: see the run   *)
(* "race".                                                                 *)
(*                                                                         *)
(* The free slots: SweptSoFar is the invariant of list_free_slots' loop.   *)
(* That the loop is well defined and keeps its invariant is an induction   *)
(* over its turns, by a smallest counterexample (UpTo).                    *)
(*                                                                         *)
(* The scheduler's steps are steps of Bookings or leave its rows alone, so *)
(* the theorem about serial calls carries over.  Fresh, JobTimes, Armed,   *)
(* KeptOrRun and Booked say when, for whom and where jobs can exist, and   *)
(* how one can be lost: they make its safety properties inductive.         *)
(***************************************************************************)
EXTENDS BookingScheduler, FreeSlots, FiniteSetTheorems, WellFoundedInduction, TLAPS

------------------------------------------------------------------------------
(* The booking service.                                                     *)

\* Booking i, if checked, does not stand in the way of slot p of TV d.
Clear(i, d, p) ==
  i \in unchecked \/ i \notin Conflicts(d, p)

Disjoint ==
  \A i, j \in Ids :
    i # j /\ status[i] \in Blocking /\ i \notin unchecked => Clear(j, tv[i], slot[i])

Reserved ==
  \A w \in Workers : request[w] # None =>
    \A i \in Ids : Clear(i, request[w][1], request[w][2])

OneRequest == \A v, w \in Workers :
  request[v] # None /\ request[w] # None => v = w

\* A row that exists has its TV and its slot.
RowsAreComplete ==
  \A i \in Ids : status[i] # "none" => tv[i] \in TVs /\ slot[i] \in Slots

------------------------------------------------------------------------------
\* Cancelling, confirming, activating, completing, overrunning and resolving
\* an overrun move one booking from a set of statuses to another status.
MoveStep(i) ==
  \E from \in SUBSET (Statuses \ {"none"}), to \in Statuses \ {"none"} :
    /\ Move(i, from, to)
    /\ unchecked' \in {unchecked, unchecked \union {i}}
    /\ to \in Blocking => from \subseteq Blocking \/ i \in unchecked'

\* Whatever service function or callback changes a booking's status, it moves that
\* one row and marks it unchecked when it takes the slot back.
LEMMA MovesAreMoveSteps ==
  ASSUME NEW i \in Ids,
         \/ cancel_booking(i) \/ confirm_booking(i) \/ activate_booking(i)
         \/ complete_booking(i) \/ set_booking_overrun(i) \/ resolve_overrun(i)
         \/ expire_booking(i)
  PROVE  MoveStep(i)
<1> USE DEF Statuses, Finished, Blocking, MoveStep
<1>1. CASE cancel_booking(i)
  BY <1>1 DEF cancel_booking
<1>2. CASE confirm_booking(i)
  BY <1>2 DEF confirm_booking
<1>3. CASE activate_booking(i)
  BY <1>3 DEF activate_booking
<1>4. CASE complete_booking(i)
  BY <1>4 DEF complete_booking
<1>5. CASE set_booking_overrun(i)
  BY <1>5 DEF set_booking_overrun
<1>6. CASE resolve_overrun(i)
  BY <1>6 DEF resolve_overrun
<1>7. CASE expire_booking(i)
  BY <1>7 DEF expire_booking
<1>8. QED
  BY <1>1, <1>2, <1>3, <1>4, <1>5, <1>6, <1>7

------------------------------------------------------------------------------
\* Every step of the booking service keeps the types and the completeness of rows.
LEMMA TypeStep == TypeOK /\ RowsAreComplete /\ [Next]_vars => (TypeOK /\ RowsAreComplete)'
<1> SUFFICES ASSUME TypeOK, RowsAreComplete, [Next]_vars
             PROVE  TypeOK' /\ RowsAreComplete'
  OBVIOUS
<1> USE DEF TypeOK, RowsAreComplete
<1>1. ASSUME NEW w \in Workers, NEW d \in TVs, NEW p \in Slots, check_conflicts(w, d, p)
      PROVE  TypeOK' /\ RowsAreComplete'
  BY <1>1 DEF check_conflicts, held
<1>2. ASSUME NEW w \in Workers, NEW i \in Ids, insert_booking(w, i)
      PROVE  TypeOK' /\ RowsAreComplete'
  <2>1. request[w][1] \in TVs /\ request[w][2] \in Slots
    BY <1>2 DEF insert_booking
  <2>2. QED
    BY <1>2, <2>1 DEF insert_booking, Statuses
<1>3. ASSUME NEW i \in Ids, MoveStep(i) PROVE TypeOK' /\ RowsAreComplete'
  BY <1>3 DEF MoveStep, Move, held
<1>4. ASSUME NEW p \in Slots, expire_pending_bookings(p[1])
      PROVE  TypeOK' /\ RowsAreComplete'
  BY <1>4 DEF expire_pending_bookings, held, Statuses
<1>5. CASE UNCHANGED vars
  BY <1>5 DEF vars, held
<1>6. ASSUME NEW W \in SUBSET Workers, abandon(W) PROVE TypeOK' /\ RowsAreComplete'
  BY <1>6 DEF abandon, held
<1>7. QED
  BY <1>1, <1>2, <1>3, <1>4, <1>5, <1>6, MovesAreMoveSteps DEF Next

\* The empty table has the types and no incomplete row.
LEMMA TypeInit == Init => TypeOK /\ RowsAreComplete
  BY DEF Init, TypeOK, RowsAreComplete, Statuses

\* Columns, requests and answers keep their types, and a row that exists has
\* its TV and its slot.
THEOREM TypeCorrect == Spec => [](TypeOK /\ RowsAreComplete)
  BY TypeInit, TypeStep, PTL DEF Spec

------------------------------------------------------------------------------
\* Serial calls of create_booking are on their way one at a time, and the slot
\* one of them found free stays free of checked bookings until it is inserted.
THEOREM ReservationHolds ==
  ASSUME Serial PROVE Spec => [](OneRequest /\ Reserved /\ Disjoint)
<1> DEFINE Safe == OneRequest /\ Reserved /\ Disjoint
<1>1. Init => Safe
  BY DEF Init, OneRequest, Reserved, Disjoint, Blocking
<1>2. TypeOK /\ RowsAreComplete /\ Safe /\ [Next]_vars => Safe'
  <2> SUFFICES ASSUME TypeOK, RowsAreComplete, Safe, [Next]_vars PROVE Safe'
    OBVIOUS
  <2> USE DEF TypeOK, RowsAreComplete, OneRequest
  <2>1. ASSUME NEW w \in Workers, NEW d \in TVs, NEW p \in Slots, check_conflicts(w, d, p)
        PROVE  Safe'
    BY <2>1 DEF check_conflicts, held, Reserved, Disjoint, Clear, Conflicts
  <2>2. ASSUME NEW w \in Workers, NEW i \in Ids, insert_booking(w, i) PROVE Safe'
    <3>1. request[w][1] \in TVs /\ request[w][2] \in Slots
      BY <2>2 DEF insert_booking
    <3>2. \A v \in Workers : request'[v] = None
      BY <2>2 DEF insert_booking
    <3>3. Disjoint'
      BY <2>2, <3>1, SlotsAreIntervals DEF insert_booking, Reserved, Disjoint, Clear, Conflicts
    <3>4. QED
      BY <3>2, <3>3 DEF Reserved
  <2>3. ASSUME NEW i \in Ids, MoveStep(i) PROVE Safe'
    BY <2>3 DEF MoveStep, Move, held, Reserved, Disjoint, Clear, Conflicts
  <2>4. ASSUME NEW p \in Slots, expire_pending_bookings(p[1]) PROVE Safe'
    BY <2>4 DEF expire_pending_bookings, held, Reserved, Disjoint, Clear, Conflicts, Blocking
  <2>5. CASE UNCHANGED vars
    BY <2>5 DEF vars, held, Reserved, Disjoint, Clear, Conflicts
  <2>6. ASSUME NEW W \in SUBSET Workers, abandon(W) PROVE Safe'
    BY <2>6 DEF abandon, held, Reserved, Disjoint, Clear, Conflicts
  <2>7. QED
    BY <2>1, <2>2, <2>3, <2>4, <2>5, <2>6, MovesAreMoveSteps DEF Next
<1>3. QED
  BY <1>1, <1>2, TypeCorrect, PTL DEF Spec

\* As long as create_booking calls do not overlap, two checked bookings never
\* hold one TV at the same instant, whatever else is done with bookings.
THEOREM NoDoubleBooking == ASSUME Serial PROVE Spec => []CheckedBookingsExclusive
<1>1. TypeOK /\ RowsAreComplete /\ Disjoint => CheckedBookingsExclusive
  BY SlotsAreIntervals
  DEF TypeOK, RowsAreComplete, Disjoint, Clear, Conflicts, CheckedBookingsExclusive,
      Holds, Instants, Blocking
<1>2. QED
  BY <1>1, TypeCorrect, ReservationHolds, PTL

------------------------------------------------------------------------------
(* The free slots.                                                          *)

\* Among sets of subsets of a finite set, one has no other below it.
LEMMA LeastSubset ==
  ASSUME NEW S, IsFiniteSet(S), NEW C \in SUBSET SUBSET S, C # {}
  PROVE  \E T \in C : \A U \in C : U \subseteq T => U = T
<1>1. IsWellFoundedOn(StrictSubsetOrdering(S), SUBSET S)
  BY FS_StrictSubsetOrderingWellFounded, FS_FiniteSubsetsOfFinite
<1>2. PICK T \in C : \A U \in C : <<U, T>> \notin StrictSubsetOrdering(S)
  BY <1>1, WFMin
<1> QED
  BY <1>2 DEF StrictSubsetOrdering

\* Induction up to a bound: a set that has 0, and with every number below n the
\* next one, has them all.
LEMMA UpTo ==
  ASSUME NEW n \in Nat, NEW G, 0 \in G, \A k \in 0..(n - 1) : k \in G => k + 1 \in G
  PROVE  \A k \in 0..n : k \in G
<1> DEFINE Out == {k \in 0..n : k \notin G}
<1> SUFFICES ASSUME Out # {} PROVE FALSE
  OBVIOUS
<1>1. PICK m \in Out : \A k \in Out : 0..k \subseteq 0..m => 0..k = 0..m
  <2> DEFINE N == 0..n
             C == {0..k : k \in Out}
  <2>1. C \in SUBSET SUBSET N /\ C # {}
    OBVIOUS
  <2>2. IsFiniteSet(N)
    BY FS_Interval
  <2>3. PICK T \in C : \A U \in C : U \subseteq T => U = T
    <3> HIDE DEF C, N
    <3> QED BY <2>1, <2>2, LeastSubset
  <2>4. PICK m \in Out : T = 0..m
    BY <2>3
  <2>5. ASSUME NEW k \in Out, 0..k \subseteq 0..m PROVE 0..k = 0..m
    <3>1. 0..k \in C
      OBVIOUS
    <3> HIDE DEF C, Out
    <3> QED BY <2>3, <2>4, <2>5, <3>1
  <2> QED
    BY <2>5
<1>2. m \in 0..n /\ m # 0 /\ m - 1 \in 0..(n - 1) /\ m - 1 \in 0..n
  OBVIOUS
<1>3. m - 1 \in Out
  BY <1>2
<1>4. 0..(m - 1) \subseteq 0..m /\ m \in 0..m /\ m \notin 0..(m - 1)
  BY <1>2
<1> QED
  BY <1>1, <1>3, <1>4

\* What the loop has, turn by turn, up to the n-th.
Turns(f, order, x, n) ==
  f = [k \in 0..n |-> IF k = 0 THEN [free |-> <<>>, cursor |-> x[1]]
                      ELSE Sweep(f[k - 1], order[k], x[2])]

\* The recursion of the loop means what it says, if anything satisfies it.
LEMMA SweptUnfolds ==
  ASSUME NEW order, NEW x, NEW f, Turns(f, order, x, Len(order))
  PROVE  Turns(Swept(order, x), order, x, Len(order))
  BY Zenon DEF Swept, Turns

\* Something does: the loop begins at the window's beginning and takes one turn after
\* another.
LEMMA SweptTurns ==
  ASSUME NEW order, NEW x, Len(order) \in Nat
  PROVE  /\ Swept(order, x)[0] = [free |-> <<>>, cursor |-> x[1]]
         /\ \A k \in 1..Len(order) :
              Swept(order, x)[k] = Sweep(Swept(order, x)[k - 1], order[k], x[2])
<1> DEFINE first == [free |-> <<>>, cursor |-> x[1]]
           G == {n \in 0..Len(order) : \E f : Turns(f, order, x, n)}
<1>1. 0 \in G
  <2> DEFINE f == [k \in 0..0 |-> first]
  <2>1. Turns(f, order, x, 0)
    BY DEF Turns
  <2> HIDE DEF f
  <2> QED
    BY <2>1
<1>2. ASSUME NEW n \in 0..(Len(order) - 1), n \in G PROVE n + 1 \in G
  <2>1. PICK f : Turns(f, order, x, n)
    BY <1>2
  <2> HIDE DEF first
  <2> DEFINE h == [k \in 0..(n + 1) |-> IF k = n + 1 THEN Sweep(f[n], order[n + 1], x[2]) ELSE f[k]]
  <2>2. ASSUME NEW k \in 0..(n + 1)
        PROVE  h[k] = IF k = 0 THEN first ELSE Sweep(h[k - 1], order[k], x[2])
    <3>1. CASE k = n + 1
      BY <3>1
    <3>2. CASE k # n + 1
      <4>1. k \in 0..n
        BY <3>2
      <4>2. f[k] = IF k = 0 THEN first ELSE Sweep(f[k - 1], order[k], x[2])
        <5> HIDE DEF h
        <5> QED BY <2>1, <4>1 DEF Turns, first
      <4>3. h[k] = f[k] /\ (k # 0 => h[k - 1] = f[k - 1])
        BY <4>1, <3>2
      <4> QED
        BY <4>1, <4>2, <4>3
    <3> QED
      BY <3>1, <3>2
  <2>3. Turns(h, order, x, n + 1)
    BY <2>2 DEF Turns, first
  <2>4. n + 1 \in 0..Len(order)
    OBVIOUS
  <2> HIDE DEF h
  <2> QED
    BY <2>3, <2>4
<1>3. Len(order) \in G
  <2>1. \A n \in 0..(Len(order) - 1) : n \in G => n + 1 \in G
    BY <1>2
  <2> HIDE DEF G
  <2> DEFINE N == Len(order)
  <2>2. N \in Nat /\ 0 \in G /\ \A n \in 0..(N - 1) : n \in G => n + 1 \in G
    BY <1>1, <2>1
  <2> HIDE DEF N
  <2>3. \A n \in 0..N : n \in G
    BY <2>2, UpTo
  <2> QED BY <2>2, <2>3 DEF N
<1>4. PICK f : Turns(f, order, x, Len(order))
  BY <1>3
<1>5. Turns(Swept(order, x), order, x, Len(order))
  BY <1>4, SweptUnfolds
<1>6. ASSUME NEW k \in 0..Len(order)
      PROVE  Swept(order, x)[k] =
               IF k = 0 THEN first ELSE Sweep(Swept(order, x)[k - 1], order[k], x[2])
  <2> DEFINE all == Swept(order, x)
  <2>1. Turns(all, order, x, Len(order))
    BY <1>5
  <2> HIDE DEF all
  <2>2. all[k] = IF k = 0 THEN first ELSE Sweep(all[k - 1], order[k], x[2])
    BY <2>1 DEF Turns
  <2> QED
    BY <2>2 DEF all
<1> QED
  BY <1>6

\* The query's result lists the bookings in the window, each once, by their start.
LEMMA OrderSorted ==
  ASSUME TypeOK, RowsAreComplete, NEW d, NEW x, IsFiniteSet(BlockedIn(d, x)),
         NEW order \in StartOrders(BlockedIn(d, x))
  PROVE  /\ Len(order) \in Nat
         /\ \A k \in 1..Len(order) : order[k] \in BlockedIn(d, x)
         /\ \A i \in BlockedIn(d, x) : \E k \in 1..Len(order) : order[k] = i
         /\ \A k \in 1..Len(order) : \A j \in 1..k : slot[order[j]][1] <= slot[order[k]][1]
<1> DEFINE B == BlockedIn(d, x)
           K == Cardinality(B)
<1>1. K \in Nat
  BY FS_CardinalityType
<1>2. order \in [1..K -> B] /\ \A i, j \in 1..K : i # j => order[i] # order[j]
  BY DEF StartOrders, SetToSeqs
<1>3. Len(order) = K
  <2> HIDE DEF K, B
  <2> QED BY <1>1, <1>2
<1>4. \A i \in B : \E k \in 1..K : order[k] = i
  <2>1. IsFiniteSet(1..K) /\ Cardinality(1..K) = K
    BY <1>1, FS_Interval
  <2>2. order \in Injection(1..K, B)
    BY <1>2 DEF Injection, IsInjective
  <2>3. order \in Surjection(1..K, B)
    <3> HIDE DEF K, B
    <3> QED BY <1>1, <2>1, <2>2, FS_Injection DEF K, B
  <2> QED
    BY <2>3 DEF Surjection
<1>5. ASSUME NEW k \in 1..K PROVE \A j \in 1..k : slot[order[j]][1] <= slot[order[k]][1]
  <2>1. \A n \in 1..K : slot[order[n]][1] \in Int
    BY <1>2, SlotsAreIntervals DEF RowsAreComplete, BlockedIn, Blocking
  <2>2. \A n \in 1..(K - 1) : slot[order[n]][1] <= slot[order[n + 1]][1]
    BY <1>3 DEF StartOrders
  <2> DEFINE G == {n \in 0..k : \A j \in 1..n : slot[order[j]][1] <= slot[order[n]][1]}
  <2>3. 0 \in G
    OBVIOUS
  <2>4. \A n \in 0..(k - 1) : n \in G => n + 1 \in G
    <3> HIDE DEF K
    <3> QED BY <1>1, <2>1, <2>2
  <2>5. k \in G
    <3> HIDE DEF G, K
    <3> QED BY <1>1, <2>3, <2>4, UpTo
  <2> QED
    BY <2>5
<1> QED
  BY <1>1, <1>2, <1>3, <1>4, <1>5

------------------------------------------------------------------------------
\* Nothing is booked from a to b in the first k bookings of the order.
NothingIn(order, k, a, b) ==
  \A j \in 1..k : ~(slot[order[j]][1] < b /\ slot[order[j]][2] > a)

\* The loop invariant.  Up to the cursor everything is decided: the gaps are intervals
\* of the window, apart from each other and before the cursor, free of every booking
\* that is to come too, and whatever begins before the cursor and meets no booking
\* lies in one of them.
SweptSoFar(order, x, k, cursor, free) ==
  /\ cursor \in Int /\ x[1] <= cursor
  /\ \A j \in 1..k : slot[order[j]][2] <= cursor
  /\ free \in Seq(Int \X Int)
  /\ \A m \in 1..Len(free) :
       /\ x[1] <= free[m][1] /\ free[m][1] < free[m][2] /\ free[m][2] <= x[2]
       /\ free[m][2] < cursor
       /\ NothingIn(order, Len(order), free[m][1], free[m][2])
  /\ \A m \in 1..(Len(free) - 1) : free[m][2] < free[m + 1][1]
  /\ \A a, b \in Int :
       x[1] <= a /\ a < b /\ a < cursor /\ NothingIn(order, k, a, b) =>
         \E m \in 1..Len(free) : free[m][1] <= a /\ b <= free[m][2]


\* What the loop's turns rest on: a list of intervals by their start, each in the window.
Listed(order, x) ==
  /\ Len(order) \in Nat
  /\ x[1] \in Int /\ x[2] \in Int /\ x[1] < x[2]
  /\ \A k \in 1..Len(order) :
       /\ slot[order[k]][1] \in Int /\ slot[order[k]][2] \in Int
       /\ slot[order[k]][1] < slot[order[k]][2]
       /\ slot[order[k]][1] < x[2]
  /\ \A k \in 1..Len(order) : \A j \in 1..k : slot[order[j]][1] <= slot[order[k]][1]

\* A turn of the loop keeps its invariant.
LEMMA TurnKeeps ==
  ASSUME NEW order, NEW x, Listed(order, x), NEW k \in 0..(Len(order) - 1), NEW acc,
         SweptSoFar(order, x, k, acc.cursor, acc.free)
  PROVE  LET next == Sweep(acc, order[k + 1], x[2])
         IN SweptSoFar(order, x, k + 1, next.cursor, next.free)
<1> DEFINE s == slot[order[k + 1]][1]
           e == slot[order[k + 1]][2]
           c == acc.cursor
           F == acc.free
           G == IF s > c THEN Append(F, <<c, s>>) ELSE F
           n == IF e > c THEN e ELSE c
           next == Sweep(acc, order[k + 1], x[2])
<1>1. /\ k + 1 \in 1..Len(order) /\ k \in Nat /\ Len(order) \in Nat
      /\ s \in Int /\ e \in Int /\ s < e /\ s < x[2]
      /\ x[1] \in Int /\ x[2] \in Int
  BY DEF Listed
<1>2. /\ c \in Int /\ x[1] <= c /\ F \in Seq(Int \X Int)
      /\ \A j \in 1..k : slot[order[j]][2] <= c
  BY DEF SweptSoFar
<1>3. next.cursor = n /\ next.free = G
  <2>1. Earlier(s, x[2]) = s /\ Later(c, e) = n
    BY <1>1, <1>2 DEF Earlier, Later
  <2> HIDE DEF s, e, c, F, n
  <2>2. next = [free |-> IF s > c THEN Append(F, <<c, Earlier(s, x[2])>>) ELSE F,
                cursor |-> Later(c, e)]
    BY DEF Sweep, s, e, c, F
  <2> HIDE DEF next
  <2> QED
    BY <2>1, <2>2
<1>4. NothingIn(order, Len(order), c, s)
  <2> SUFFICES ASSUME NEW j \in 1..Len(order)
               PROVE  ~(slot[order[j]][1] < s /\ slot[order[j]][2] > c)
    BY DEF NothingIn
  <2>1. slot[order[j]][1] \in Int /\ slot[order[j]][2] \in Int
    BY DEF Listed
  <2>2. CASE j \in 1..k
    <3>1. slot[order[j]][2] <= c /\ c \in Int
      BY <2>2, <1>2
    <3> HIDE DEF c, s
    <3> QED
      BY <2>1, <3>1
  <2>3. CASE j \notin 1..k
    <3>1. k + 1 \in 1..j
      BY <1>1, <2>3
    <3>2. s <= slot[order[j]][1]
      BY <3>1 DEF Listed
    <3> QED
      BY <3>2, <2>1, <1>1
  <2> QED
    BY <2>2, <2>3
<1>5. /\ n \in Int /\ x[1] <= n /\ c <= n /\ e <= n
      /\ \A j \in 1..(k + 1) : slot[order[j]][2] <= n
  <2>1. n \in Int /\ x[1] <= n /\ c <= n /\ e <= n
    BY <1>1, <1>2
  <2>2. ASSUME NEW j \in 1..(k + 1) PROVE slot[order[j]][2] <= n
    <3>1. j \in 1..Len(order) /\ slot[order[j]][2] \in Int
      BY <1>1 DEF Listed
    <3>2. CASE j = k + 1
      BY <2>1, <3>2
    <3>3. CASE j # k + 1
      <4>1. slot[order[j]][2] <= c
        BY <3>3, <1>1, <1>2
      <4> QED
        BY <4>1, <3>1, <2>1, <1>2
    <3> QED
      BY <3>2, <3>3
  <2> QED
    BY <2>1, <2>2
<1>6. CASE ~(s > c)
  <2>1. G = F
    BY <1>6
  <2>2. \A m \in 1..Len(F) : F[m][2] \in Int /\ F[m][2] < c
    BY <1>2 DEF SweptSoFar
  <2>3. \A m \in 1..Len(F) : F[m][2] < n
    <3>1. c \in Int /\ n \in Int /\ c <= n
      BY <1>1, <1>2
    <3> HIDE DEF c, n, F
    <3> QED
      BY <2>2, <3>1
  <2>4. ASSUME NEW a \in Int, NEW b \in Int, x[1] <= a, a < b, a < n,
               NothingIn(order, k + 1, a, b)
        PROVE  \E m \in 1..Len(F) : F[m][1] <= a /\ b <= F[m][2]
    <3>1. NothingIn(order, k, a, b) /\ ~(s < b /\ e > a)
      BY <2>4, <1>1 DEF NothingIn
    <3>2. a < c
      BY <3>1, <2>4, <1>1, <1>2, <1>6
    <3> QED
      BY <3>1, <3>2, <2>4 DEF SweptSoFar
  <2> HIDE DEF n, c, F, G
  <2>5. SweptSoFar(order, x, k + 1, n, F)
    BY <1>2, <1>5, <2>3, <2>4 DEF SweptSoFar, c, F
  <2> QED
    BY <2>1, <2>5, <1>3
<1>7. CASE s > c
  <2>1. G = Append(F, <<c, s>>)
    BY <1>7
  <2>2. /\ G \in Seq(Int \X Int) /\ Len(G) = Len(F) + 1 /\ Len(F) \in Nat
        /\ \A m \in 1..Len(F) : G[m] = F[m]
        /\ G[Len(G)] = <<c, s>>
    <3>1. <<c, s>> \in Int \X Int
      BY <1>1, <1>2
    <3> HIDE DEF c, s, F, G
    <3> QED BY <3>1, <2>1, <1>2
  <2>3. \A m \in 1..Len(F) : F[m][1] \in Int /\ F[m][2] \in Int /\ F[m][2] < c
    BY <1>2 DEF SweptSoFar
  <2>4. ASSUME NEW m \in 1..Len(G)
        PROVE  /\ x[1] <= G[m][1] /\ G[m][1] < G[m][2] /\ G[m][2] <= x[2]
               /\ G[m][2] < n
               /\ NothingIn(order, Len(order), G[m][1], G[m][2])
    <3> HIDE DEF s, e, c, n, F, G
    <3>1. CASE m \in 1..Len(F)
      <4>1. G[m] = F[m] /\ F[m][2] \in Int /\ F[m][2] < c
        BY <3>1, <2>2, <2>3
      <4>2. /\ x[1] <= F[m][1] /\ F[m][1] < F[m][2] /\ F[m][2] <= x[2]
            /\ NothingIn(order, Len(order), F[m][1], F[m][2])
        BY <3>1 DEF SweptSoFar, F
      <4> QED
        BY <4>1, <4>2, <1>2, <1>5
    <3>2. CASE m \notin 1..Len(F)
      <4>1. G[m] = <<c, s>>
        BY <3>2, <2>2
      <4> QED
        BY <4>1, <1>1, <1>2, <1>4, <1>5, <1>7
    <3> QED
      BY <3>1, <3>2
  <2>5. ASSUME NEW m \in 1..(Len(G) - 1) PROVE G[m][2] < G[m + 1][1]
    <3> HIDE DEF s, e, c, n, F, G
    <3>1. m \in 1..Len(F)
      BY <2>2
    <3>2. CASE m = Len(F)
      BY <3>1, <3>2, <2>2, <2>3
    <3>3. CASE m # Len(F)
      <4>1. m \in 1..(Len(F) - 1) /\ m + 1 \in 1..Len(F)
        BY <3>1, <3>3, <2>2
      <4>2. F[m][2] < F[m + 1][1]
        BY <4>1 DEF SweptSoFar, F
      <4> QED
        BY <4>1, <4>2, <2>2, <3>1
    <3> QED
      BY <3>2, <3>3
  <2>6. ASSUME NEW a \in Int, NEW b \in Int, x[1] <= a, a < b, a < n,
               NothingIn(order, k + 1, a, b)
        PROVE  \E m \in 1..Len(G) : G[m][1] <= a /\ b <= G[m][2]
    <3>1. NothingIn(order, k, a, b) /\ ~(s < b /\ e > a)
      BY <2>6, <1>1 DEF NothingIn
    <3>2. CASE a < c
      <4>1. PICK m \in 1..Len(F) : F[m][1] <= a /\ b <= F[m][2]
        BY <3>1, <3>2, <2>6 DEF SweptSoFar
      <4>2. m \in 1..Len(G) /\ G[m] = F[m]
        <5> HIDE DEF F, G, c, s
        <5> QED BY <2>2
      <4> HIDE DEF F, G, c, s
      <4> QED
        BY <4>1, <4>2
    <3>3. CASE ~(a < c)
      <4>1. c <= a /\ b <= s
        BY <3>1, <3>3, <2>6, <1>1, <1>2
      <4>2. G[Len(F) + 1][1] <= a /\ b <= G[Len(F) + 1][2]
        <5> HIDE DEF F, G, c, s
        <5> QED BY <4>1, <2>2
      <4>3. Len(F) + 1 \in 1..Len(G)
        <5> HIDE DEF F, G
        <5> QED BY <2>2
      <4> HIDE DEF F, G, c, s
      <4> QED
        BY <4>2, <4>3
    <3> QED
      BY <3>2, <3>3
  <2> HIDE DEF n, c, F, G
  <2>7. SweptSoFar(order, x, k + 1, n, G)
    BY <1>5, <2>2, <2>4, <2>5, <2>6 DEF SweptSoFar
  <2> QED
    BY <2>7, <1>3
<1> QED
  BY <1>6, <1>7

\* So its invariant holds when the loop is over.
LEMMA LoopIsOver ==
  ASSUME NEW order, NEW x, Listed(order, x)
  PROVE  LET last == Swept(order, x)[Len(order)]
         IN SweptSoFar(order, x, Len(order), last.cursor, last.free)
<1> DEFINE N == Len(order)
           at(k) == Swept(order, x)[k]
           G == {k \in 0..N : SweptSoFar(order, x, k, at(k).cursor, at(k).free)}
<1>1. N \in Nat /\ x[1] \in Int
  BY DEF Listed
<1>2. /\ at(0) = [free |-> <<>>, cursor |-> x[1]]
      /\ \A k \in 1..N : at(k) = Sweep(at(k - 1), order[k], x[2])
  BY <1>1, SweptTurns
<1> HIDE DEF at
<1>3. 0 \in G
  <2>1. SweptSoFar(order, x, 0, x[1], <<>>)
    BY <1>1 DEF SweptSoFar
  <2> QED
    BY <2>1, <1>1, <1>2
<1>4. ASSUME NEW k \in 0..(N - 1), k \in G PROVE k + 1 \in G
  <2>1. at(k + 1) = Sweep(at(k), order[k + 1], x[2]) /\ k + 1 \in 0..N
    BY <1>1, <1>2
  <2>2. SweptSoFar(order, x, k + 1, at(k + 1).cursor, at(k + 1).free)
    BY <1>4, <2>1, TurnKeeps
  <2> QED
    BY <2>1, <2>2
<1>5. N \in G
  <2>1. \A k \in 0..(N - 1) : k \in G => k + 1 \in G
    BY <1>4
  <2> HIDE DEF G, N
  <2> QED BY <1>1, <1>3, <2>1, UpTo
<1> QED
  BY <1>5 DEF at

\* The bookings the query returns are such a list.
LEMMA QueryIsListed ==
  ASSUME TypeOK, RowsAreComplete, NEW d, NEW x \in Windows, IsFiniteSet(BlockedIn(d, x)),
         NEW order \in StartOrders(BlockedIn(d, x))
  PROVE  Listed(order, x)
<1>1. \A i \in BlockedIn(d, x) :
        /\ slot[i] \in Int \X Int /\ slot[i][1] < slot[i][2] /\ slot[i][1] < x[2]
  BY SlotsAreIntervals DEF RowsAreComplete, BlockedIn, Blocking
<1> QED
  BY <1>1, OrderSorted, WindowsAreIntervals DEF Listed

\* The answer is right, whatever the table and the order in which it is read.
LEMMA AnswerIsRight ==
  ASSUME TypeOK, RowsAreComplete, NEW d, NEW x \in Windows, IsFiniteSet(BlockedIn(d, x)),
         NEW order \in StartOrders(BlockedIn(d, x))
  PROVE  LET free == list_free_slots(order, x)
         IN /\ free \in Seq(Int \X Int)
            /\ \A k \in 1..Len(free) :
                 x[1] <= free[k][1] /\ free[k][1] < free[k][2] /\ free[k][2] <= x[2]
            /\ \A k \in 1..(Len(free) - 1) : free[k][2] < free[k + 1][1]
            /\ \A p \in Slots : x[1] <= p[1] /\ p[2] <= x[2] =>
                 (Conflicts(d, p) = {}
                    <=> \E k \in 1..Len(free) : free[k][1] <= p[1] /\ p[2] <= free[k][2])
<1> DEFINE N == Len(order)
           last == Swept(order, x)[N]
           c == last.cursor
           F == last.free
           free == list_free_slots(order, x)
<1>1. Listed(order, x)
  BY QueryIsListed
<1>2. SweptSoFar(order, x, N, c, F)
  BY <1>1, LoopIsOver
<1>3. free = IF c < x[2] THEN Append(F, <<c, x[2]>>) ELSE F
  BY DEF list_free_slots
<1>4. x[1] \in Int /\ x[2] \in Int /\ c \in Int /\ x[1] <= c /\ F \in Seq(Int \X Int)
  BY <1>1, <1>2 DEF Listed, SweptSoFar
<1> HIDE DEF N, last, c, F, free
<1>5. /\ free \in Seq(Int \X Int) /\ Len(F) \in Nat /\ Len(F) <= Len(free)
      /\ \A k \in 1..Len(F) : free[k] = F[k]
      /\ Len(free) = IF c < x[2] THEN Len(F) + 1 ELSE Len(F)
      /\ c < x[2] => free[Len(free)] = <<c, x[2]>>
  <2>1. <<c, x[2]>> \in Int \X Int
    BY <1>4
  <2> QED
    BY <2>1, <1>3, <1>4
<1>6. ASSUME NEW k \in 1..Len(free)
      PROVE  \/ k \in 1..Len(F) /\ free[k] = F[k]
             \/ k = Len(F) + 1 /\ k = Len(free) /\ c < x[2] /\ free[k] = <<c, x[2]>>
  BY <1>5
<1>7. \A k \in 1..Len(F) : k \in 1..Len(free) /\ free[k] = F[k]
  <2>1. Len(free) \in Nat /\ Len(F) \in Nat /\ Len(F) <= Len(free)
    BY <1>5
  <2>2. \A k \in 1..Len(F) : free[k] = F[k]
    BY <1>5
  <2> QED
    BY <2>1, <2>2
<1>8. ASSUME NEW k \in 1..Len(free)
      PROVE  /\ x[1] <= free[k][1] /\ free[k][1] < free[k][2] /\ free[k][2] <= x[2]
             /\ NothingIn(order, N, free[k][1], free[k][2])
  <2>1. CASE k \in 1..Len(F) /\ free[k] = F[k]
    BY <2>1, <1>2 DEF SweptSoFar, N
  <2>2. CASE c < x[2] /\ free[k] = <<c, x[2]>>
    <3>1. NothingIn(order, N, c, x[2])
      <4> SUFFICES ASSUME NEW j \in 1..N PROVE ~(slot[order[j]][2] > c)
        BY DEF NothingIn
      <4>1. slot[order[j]][2] <= c /\ slot[order[j]][2] \in Int
        BY <1>1, <1>2 DEF SweptSoFar, Listed, N
      <4> QED
        BY <4>1, <1>4
    <3> QED
      BY <2>2, <3>1, <1>4
  <2> QED
    BY <2>1, <2>2, <1>6
<1>9. ASSUME NEW k \in 1..(Len(free) - 1) PROVE free[k][2] < free[k + 1][1]
  <2>1. k \in 1..Len(F) /\ free[k] = F[k] /\ k + 1 \in 1..Len(free)
    BY <1>5
  <2>2. CASE k + 1 \in 1..Len(F)
    <3>1. k \in 1..(Len(F) - 1) /\ free[k + 1] = F[k + 1]
      BY <2>1, <2>2, <1>5
    <3> QED
      BY <3>1, <2>1, <1>2 DEF SweptSoFar
  <2>3. CASE free[k + 1] = <<c, x[2]>>
    BY <2>1, <2>3, <1>2 DEF SweptSoFar
  <2> QED
    BY <2>1, <2>2, <2>3, <1>6
<1>10. ASSUME NEW p \in Slots, x[1] <= p[1], p[2] <= x[2]
       PROVE  Conflicts(d, p) = {}
                <=> \E k \in 1..Len(free) : free[k][1] <= p[1] /\ p[2] <= free[k][2]
  <2>1. p[1] \in Int /\ p[2] \in Int /\ p[1] < p[2]
    BY SlotsAreIntervals
  <2>2. Conflicts(d, p) = {} <=> NothingIn(order, N, p[1], p[2])
    <3>1. \A i \in BlockedIn(d, x) : \E j \in 1..N : order[j] = i
      BY OrderSorted DEF N
    <3>2. \A j \in 1..N : order[j] \in BlockedIn(d, x)
      BY OrderSorted DEF N
    <3>3. \A i \in Conflicts(d, p) : i \in BlockedIn(d, x)
      <4> SUFFICES ASSUME NEW i \in Conflicts(d, p) PROVE i \in BlockedIn(d, x)
        OBVIOUS
      <4>1. slot[i] \in Int \X Int /\ slot[i][1] < p[2] /\ slot[i][2] > p[1]
        BY SlotsAreIntervals DEF Conflicts, RowsAreComplete, Blocking
      <4>2. slot[i][1] < x[2] /\ slot[i][2] > x[1]
        BY <4>1, <2>1, <1>4, <1>10
      <4> QED
        BY <4>2 DEF Conflicts, BlockedIn
    <3>4. ASSUME NEW i \in BlockedIn(d, x)
          PROVE  i \in Conflicts(d, p) <=> slot[i][1] < p[2] /\ slot[i][2] > p[1]
      BY DEF Conflicts, BlockedIn
    <3> QED
      BY <3>1, <3>2, <3>3, <3>4 DEF NothingIn
  <2>3. ASSUME NothingIn(order, N, p[1], p[2])
        PROVE  \E k \in 1..Len(free) : free[k][1] <= p[1] /\ p[2] <= free[k][2]
    <3>1. CASE p[1] < c
      <4>1. PICK k \in 1..Len(F) : F[k][1] <= p[1] /\ p[2] <= F[k][2]
        BY <3>1, <2>1, <2>3, <1>2, <1>10 DEF SweptSoFar
      <4>2. k \in 1..Len(free) /\ free[k] = F[k]
        BY <1>7
      <4> QED
        BY <4>1, <4>2
    <3>2. CASE ~(p[1] < c)
      <4>1. c < x[2] /\ c <= p[1]
        BY <3>2, <2>1, <1>4, <1>10
      <4>2. Len(free) \in 1..Len(free) /\ free[Len(free)] = <<c, x[2]>>
        BY <4>1, <1>5
      <4> QED
        BY <4>1, <4>2, <1>10
    <3> QED
      BY <3>1, <3>2
  <2>4. ASSUME NEW k \in 1..Len(free), free[k][1] <= p[1], p[2] <= free[k][2]
        PROVE  NothingIn(order, N, p[1], p[2])
    <3> SUFFICES ASSUME NEW j \in 1..N
                 PROVE  ~(slot[order[j]][1] < p[2] /\ slot[order[j]][2] > p[1])
      BY DEF NothingIn
    <3>1. ~(slot[order[j]][1] < free[k][2] /\ slot[order[j]][2] > free[k][1])
      BY <1>8 DEF NothingIn
    <3>2. slot[order[j]][1] \in Int /\ slot[order[j]][2] \in Int
      BY <1>1 DEF Listed, N
    <3>3. free[k][1] \in Int /\ free[k][2] \in Int
      BY <1>5
    <3> QED
      BY <3>1, <3>2, <3>3, <2>1, <2>4
  <2> QED
    BY <2>2, <2>3, <2>4
<1> QED
  BY <1>5, <1>8, <1>9, <1>10 DEF free

\* The table has finitely many rows at any time: each call inserts one.
Rows == {i \in Ids : status[i] # "none"}

LEMMA RowsFinite == Spec => []IsFiniteSet(Rows)
<1>1. Init => IsFiniteSet(Rows)
  <2> SUFFICES ASSUME Init PROVE IsFiniteSet(Rows)
    OBVIOUS
  <2>1. Rows = {}
    BY DEF Init, Rows
  <2> QED
    BY <2>1, FS_EmptySet
<1>2. TypeOK /\ IsFiniteSet(Rows) /\ [Next]_vars => IsFiniteSet(Rows)'
  <2> SUFFICES ASSUME TypeOK, IsFiniteSet(Rows), [Next]_vars PROVE IsFiniteSet(Rows')
    BY DEF Rows
  <2>1. \E i : Rows' \subseteq Rows \union {i}
    <3>1. ASSUME NEW w \in Workers, NEW i \in Ids, insert_booking(w, i)
          PROVE  Rows' \subseteq Rows \union {i}
      BY <3>1 DEF insert_booking, Rows, TypeOK
    <3>2. ASSUME NEW i \in Ids, MoveStep(i) PROVE Rows' \subseteq Rows
      BY <3>2 DEF MoveStep, Move, Rows, TypeOK
    <3>3. ASSUME NEW p \in Slots, expire_pending_bookings(p[1]) PROVE Rows' \subseteq Rows
      BY <3>3 DEF expire_pending_bookings, Rows, TypeOK
    <3>4. ASSUME status' = status PROVE Rows' \subseteq Rows
      BY <3>4 DEF Rows
    <3>5. Rows' \subseteq Rows \/ \E i : Rows' \subseteq Rows \union {i}
      BY <3>1, <3>2, <3>3, <3>4, MovesAreMoveSteps DEF Next, vars, check_conflicts, abandon
    <3> QED
      BY <3>5
  <2>2. PICK i : Rows' \subseteq Rows \union {i}
    BY <2>1
  <2>3. IsFiniteSet(Rows \union {i})
    BY FS_AddElement
  <2> QED
    BY <2>2, <2>3, FS_Subset
<1> QED
  BY <1>1, <1>2, TypeCorrect, PTL DEF Spec

\* list_free_slots shows what create_booking would let one book, all of it and
\* nothing else, as separate intervals in order, however bookings overlap.
THEOREM FreeSlotsHold == Spec => []FreeSlotsCorrect
<1>1. TypeOK /\ RowsAreComplete /\ IsFiniteSet(Rows) => FreeSlotsCorrect
  <2> SUFFICES ASSUME TypeOK, RowsAreComplete, IsFiniteSet(Rows),
                      NEW d \in TVs, NEW x \in Windows,
                      NEW order \in StartOrders(BlockedIn(d, x))
               PROVE  LET free == list_free_slots(order, x)
                      IN /\ \A k \in DOMAIN free :
                              x[1] <= free[k][1] /\ free[k][1] < free[k][2] /\ free[k][2] <= x[2]
                         /\ \A k \in 1..(Len(free) - 1) : free[k][2] < free[k + 1][1]
                         /\ \A p \in Slots : x[1] <= p[1] /\ p[2] <= x[2] =>
                              (Conflicts(d, p) = {}
                                 <=> \E gap \in Range(free) : gap[1] <= p[1] /\ p[2] <= gap[2])
    BY DEF FreeSlotsCorrect, FreeSlotsAreBookable, GapsAreApart, AllAnswers
  <2>1. IsFiniteSet(BlockedIn(d, x))
    <3>1. BlockedIn(d, x) \subseteq Rows
      BY DEF BlockedIn, Rows, Blocking
    <3> QED
      BY <3>1, FS_Subset
  <2> DEFINE free == list_free_slots(order, x)
  <2>2. /\ free \in Seq(Int \X Int)
        /\ \A k \in 1..Len(free) :
             x[1] <= free[k][1] /\ free[k][1] < free[k][2] /\ free[k][2] <= x[2]
        /\ \A k \in 1..(Len(free) - 1) : free[k][2] < free[k + 1][1]
        /\ \A p \in Slots : x[1] <= p[1] /\ p[2] <= x[2] =>
             (Conflicts(d, p) = {}
                <=> \E k \in 1..Len(free) : free[k][1] <= p[1] /\ p[2] <= free[k][2])
    BY <2>1, AnswerIsRight
  <2> HIDE DEF free
  <2>3. DOMAIN free = 1..Len(free) /\ Range(free) = {free[k] : k \in 1..Len(free)}
    BY <2>2 DEF Range
  <2> QED
    BY <2>2, <2>3 DEF free
<1> QED
  BY <1>1, TypeCorrect, RowsFinite, PTL

------------------------------------------------------------------------------
(* The clock, the jobs and the restarts.                                    *)

\* Every step of the clock, the jobs, the calls and the restarts is a step of
\* Bookings or leaves the bookings alone.
LEMMA StepsOfBookings ==
  ASSUME TypeOKScheduler, [NextScheduler]_allVars PROVE [Next]_vars
<1>1. CASE UserCall
  BY <1>1 DEF UserCall, Next
<1>2. ASSUME NEW job \in JobIds, run_job(job) PROVE [Next]_vars
  <2>1. CASE Callback(job[1], memory[job])
    <3>1. memory[job] \in Ids
      BY <1>2 DEF TypeOKScheduler, run_job, Due
    <3>2. QED
      BY <2>1, <3>1 DEF Callback, Next
  <2>2. QED
    BY <1>2, <2>1 DEF run_job
<1>3. CASE crash
  BY <1>3 DEF crash, Next
<1>4. QED
  BY <1>1, <1>2, <1>3
  DEF NextScheduler, allVars, schedule_booking_jobs, schedule_at, persist, cancel_job, start, tick

\* The jobs of a booking that exists have ids of the right form.
LEMMA BookingJobsType ==
  ASSUME TypeOKScheduler, RowsAreComplete, NEW i \in Ids, status[i] # "none"
  PROVE  BookingJobs(i) \subseteq JobIds
<1>1. slot[i] \in Slots
  BY DEF RowsAreComplete
<1>2. slot[i][1] \in Int /\ slot[i][2] \in Int /\ slot[i][1] < slot[i][2]
      /\ 0 <= slot[i][1] /\ slot[i][2] <= Horizon
  BY <1>1, SlotsAreIntervals, SlotsWithinHorizon
<1>3. now \in 0..Horizon /\ Horizon \in Nat
  BY SlotsWithinHorizon DEF TypeOKScheduler
<1>4. QED
  BY <1>2, <1>3 DEF BookingJobs, OwnJobs, JobIds

------------------------------------------------------------------------------
\* Every column, job and history keeps its type.
THEOREM SchedulerTypes == SpecScheduler => [](TypeOKScheduler /\ RowsAreComplete)
<1> DEFINE Inv == TypeOKScheduler /\ RowsAreComplete
<1>1. InitScheduler => Inv
  <2>1. InitScheduler => TypeOK /\ RowsAreComplete
    BY TypeInit DEF InitScheduler
  <2>2. QED
    BY <2>1, SlotsWithinHorizon DEF InitScheduler, TypeOKScheduler
<1>2. Inv /\ [NextScheduler]_allVars => Inv'
  <2> SUFFICES ASSUME Inv, [NextScheduler]_allVars PROVE Inv'
    OBVIOUS
  <2>0. TypeOK' /\ RowsAreComplete'
    BY StepsOfBookings, TypeStep DEF TypeOKScheduler
  <2> SUFFICES TypeOKScheduler'
    BY <2>0
  <2> USE <2>0 DEF TypeOKScheduler
  <2>1. CASE UserCall
    BY <2>1 DEF UserCall, schedule
  <2>2. ASSUME NEW i \in Ids, schedule_booking_jobs(i) PROVE TypeOKScheduler'
    BY <2>2, BookingJobsType DEF schedule_booking_jobs
  <2>3. ASSUME NEW i \in Ids, schedule_at(i) PROVE TypeOKScheduler'
    BY <2>3 DEF schedule_at, First
  <2>4. ASSUME NEW i \in Ids, persist(i) PROVE TypeOKScheduler'
    BY <2>4 DEF persist, First
  <2>5. ASSUME NEW job \in JobIds, cancel_job(job) PROVE TypeOKScheduler'
    BY <2>5 DEF cancel_job
  <2>6. ASSUME NEW job \in JobIds, run_job(job) PROVE TypeOKScheduler'
    BY <2>6 DEF run_job
  <2>7. CASE crash
    BY <2>7 DEF crash, AtStake
  <2>8. CASE start
    BY <2>8 DEF start
  <2>9. CASE tick
    <3>1. now + 1 \in 0..Horizon /\ now' = now + 1
      BY <2>9, SlotsWithinHorizon DEF tick
    <3>2. downAt' \subseteq downAt \union {now + 1}
      BY <2>9, <3>1 DEF tick, AtStake
    <3>3. QED
      BY <2>9, <3>1, <3>2 DEF tick
  <2>10. CASE UNCHANGED allVars
    BY <2>10 DEF allVars, schedule
  <2>11. QED
    BY <2>1, <2>2, <2>3, <2>4, <2>5, <2>6, <2>7, <2>8, <2>9, <2>10 DEF NextScheduler
<1>3. QED
  BY <1>1, <1>2, PTL DEF SpecScheduler

\* What holds of the booking service alone holds of it under the clock.
LEMMA RefinesBookings == SpecScheduler => Spec
<1>1. InitScheduler => Init
  BY DEF InitScheduler
<1>2. QED
  BY <1>1, StepsOfBookings, SchedulerTypes, PTL DEF SpecScheduler, Spec

\* Serial calls to create_booking leave no double booking, whatever the jobs
\* and restarts do.
COROLLARY NoDoubleBookingInTime ==
  ASSUME Serial PROVE SpecScheduler => []CheckedBookingsExclusive
  BY RefinesBookings, NoDoubleBooking, PTL

------------------------------------------------------------------------------
\* A job still to be scheduled is still to come, and a job that was run is
\* over and out of memory.
Fresh ==
  /\ \A i \in Ids, job \in JobIds : job \in todo[i] => job[2] > now
  /\ \A job \in JobIds : runs[job] <= 1
  /\ \A job \in JobIds : runs[job] = 1 => memory[job] = None /\ job[2] <= now

\* No job has run before its time, in every state of the scheduler.
LEMMA FreshAlways == SpecScheduler => []Fresh
<1> DEFINE Inv == TypeOKScheduler /\ RowsAreComplete
<1>1. InitScheduler => Fresh
  BY DEF InitScheduler, Fresh
<1>2. Inv /\ Fresh /\ [NextScheduler]_allVars => Fresh'
  <2> SUFFICES ASSUME Inv, Fresh, [NextScheduler]_allVars PROVE Fresh'
    OBVIOUS
  <2>j. \A job \in JobIds : job[2] \in Int
    BY SlotsWithinHorizon DEF JobIds
  <2> USE <2>j DEF TypeOKScheduler, Fresh
  <2>1. CASE UserCall
    BY <2>1 DEF UserCall, schedule
  <2>2. ASSUME NEW i \in Ids, schedule_booking_jobs(i) PROVE Fresh'
    <3>1. \A job \in BookingJobs(i) : job[2] > now
      BY DEF BookingJobs, OwnJobs
    <3>2. QED
      BY <2>2, <3>1 DEF schedule_booking_jobs
  <2>3. ASSUME NEW i \in Ids, schedule_at(i) PROVE Fresh'
    <3>1. PICK job \in First(todo[i]) : memory' = [memory EXCEPT ![job] = i]
      BY <2>3 DEF schedule_at
    <3>2. job \in JobIds /\ job[2] > now /\ runs[job] # 1
      BY <3>1 DEF First
    <3>3. QED
      BY <2>3, <3>1, <3>2 DEF schedule_at
  <2>4. ASSUME NEW i \in Ids, persist(i) PROVE Fresh'
    BY <2>4 DEF persist, First
  <2>5. ASSUME NEW job \in JobIds, cancel_job(job) PROVE Fresh'
    BY <2>5 DEF cancel_job
  <2>6. ASSUME NEW job \in JobIds, run_job(job) PROVE Fresh'
    <3>1. runs[job] = 0 /\ job[2] <= now
      BY <2>6 DEF run_job, Due
    <3>2. QED
      BY <2>6, <3>1 DEF run_job
  <2>7. CASE crash
    BY <2>7 DEF crash
  <2>8. CASE start
    BY <2>8 DEF start
  <2>9. CASE tick
    BY <2>9 DEF tick, schedule
  <2>10. CASE UNCHANGED allVars
    BY <2>10 DEF allVars, schedule
  <2>11. QED
    BY <2>1, <2>2, <2>3, <2>4, <2>5, <2>6, <2>7, <2>8, <2>9, <2>10 DEF NextScheduler
<1>3. QED
  BY <1>1, <1>2, SchedulerTypes, PTL DEF SpecScheduler

\* No restart and no shared id makes a job run twice.
THEOREM RunOnce == SpecScheduler => []NoJobRunsTwice
<1>1. Fresh => NoJobRunsTwice
  BY DEF Fresh, NoJobRunsTwice
<1>2. QED
  BY <1>1, FreshAlways, PTL

------------------------------------------------------------------------------
\* Job job is kept somewhere for booking i.
Kept(job, i) == memory[job] = i \/ scheduled_jobs[job] = i \/ job \in todo[i]

\* An activation job is for a booking that exists and begins at its time, and
\* a booking that is or was active has begun.
JobTimes ==
  /\ \A job \in JobIds, i \in Ids : Kept(job, i) =>
       status[i] # "none" /\ (job[1] = "activate_booking" => job[2] = slot[i][1])
  /\ \A i \in Ids : status[i] \in {"active", "overrun"} => slot[i][1] <= now

\* A booking that exists keeps its slot and does not come to be missing again,
\* and without a callback no booking becomes active that was not in overrun.
LEMMA SlotsStay ==
  ASSUME TypeOKScheduler, RowsAreComplete, UserCall, NEW i \in Ids
  PROVE  /\ status[i] # "none" => status'[i] # "none" /\ slot'[i] = slot[i]
         /\ status'[i] \in {"active", "overrun"} => status[i] \in {"active", "overrun"}
                                                    /\ slot'[i] = slot[i]
BY DEF UserCall, check_conflicts, insert_booking, cancel_booking, confirm_booking,
       set_booking_overrun, resolve_overrun, Move, held, TypeOKScheduler, TypeOK,
       Statuses, Finished

\* A callback changes no slot, and activates only the booking it is called for.
LEMMA CallbacksMoveOne ==
  ASSUME TypeOKScheduler, NEW name, NEW i \in Ids, Callback(name, i), NEW j \in Ids
  PROVE  /\ slot' = slot
         /\ status[j] # "none" => status'[j] # "none"
         /\ status'[j] \in {"active", "overrun"} =>
              status[j] \in {"active", "overrun"} \/ (j = i /\ name = "activate_booking")
BY DEF Callback, expire_booking, activate_booking, complete_booking, Move, held, vars,
       TypeOKScheduler, TypeOK

\* A job in memory or table carries its booking's time, in every state.
LEMMA JobTimesHold == SpecScheduler => []JobTimes
<1> DEFINE Inv == TypeOKScheduler /\ RowsAreComplete
<1>1. InitScheduler => JobTimes
  BY NoneIsNoId DEF InitScheduler, Init, JobTimes, Kept
<1>2. Inv /\ JobTimes /\ [NextScheduler]_allVars => JobTimes'
  <2> SUFFICES ASSUME Inv, JobTimes, [NextScheduler]_allVars PROVE JobTimes'
    OBVIOUS
  <2> USE DEF TypeOKScheduler, JobTimes, Kept
  <2>s. \A i \in Ids : status[i] # "none" => slot[i][1] \in Int
    BY SlotsAreIntervals DEF RowsAreComplete
  <2>1. CASE UserCall
    <3>1. /\ memory' = memory /\ scheduled_jobs' = scheduled_jobs
          /\ todo' = todo /\ now' = now
      BY <2>1 DEF UserCall, schedule
    <3>2. ASSUME NEW i \in Ids
          PROVE  /\ status[i] # "none" => status'[i] # "none" /\ slot'[i] = slot[i]
                 /\ status'[i] \in {"active", "overrun"} =>
                      status[i] \in {"active", "overrun"} /\ slot'[i] = slot[i]
      BY <2>1, SlotsStay
    <3>3. QED
      BY <3>1, <3>2
  <2>2. ASSUME NEW i \in Ids, schedule_booking_jobs(i) PROVE JobTimes'
    <3>1. ASSUME NEW job \in BookingJobs(i), job[1] = "activate_booking"
          PROVE  job[2] = slot[i][1]
      BY <3>1 DEF BookingJobs, OwnJobs
    <3>2. /\ status' = status /\ slot' = slot /\ now' = now
          /\ memory' = memory /\ scheduled_jobs' = scheduled_jobs
          /\ status[i] # "none"
          /\ todo' = [todo EXCEPT ![i] = BookingJobs(i)]
      BY <2>2 DEF schedule_booking_jobs, vars, held
    <3>3. ASSUME NEW job \in JobIds, NEW j \in Ids, Kept(job, j)'
          PROVE  Kept(job, j) \/ (j = i /\ job \in BookingJobs(i))
      BY <3>2, <3>3
    <3>4. QED
      BY <3>1, <3>2, <3>3
  <2>3. ASSUME NEW i \in Ids, schedule_at(i) PROVE JobTimes'
    BY <2>3 DEF schedule_at, First, vars, held
  <2>4. ASSUME NEW i \in Ids, persist(i) PROVE JobTimes'
    BY <2>4 DEF persist, First, vars, held
  <2>5. ASSUME NEW job \in JobIds, cancel_job(job) PROVE JobTimes'
    BY <2>5, NoneIsNoId DEF cancel_job, vars, held
  <2>6. ASSUME NEW job \in JobIds, run_job(job) PROVE JobTimes'
    <3>1. memory[job] \in Ids /\ job[2] <= now
      BY <2>6 DEF run_job, Due
    <3>2. CASE UNCHANGED vars
      BY <2>6, <3>2, NoneIsNoId DEF run_job, vars, held
    <3>3. CASE Callback(job[1], memory[job])
      <4>1. \A k \in JobIds, i \in Ids : Kept(k, i)' => Kept(k, i)
        BY <2>6, NoneIsNoId DEF run_job
      <4>2. job[1] = "activate_booking" => slot[memory[job]][1] <= now
        BY <3>1
      <4>3. ASSUME NEW i \in Ids
            PROVE  /\ slot' = slot
                   /\ status[i] # "none" => status'[i] # "none"
                   /\ status'[i] \in {"active", "overrun"} => slot[i][1] <= now
        BY <3>1, <3>3, <4>2, CallbacksMoveOne
      <4>4. now' = now
        BY <2>6 DEF run_job
      <4>5. QED
        BY <4>1, <4>3, <4>4
    <3>4. QED
      BY <2>6, <3>2, <3>3 DEF run_job
  <2>7. CASE crash
    BY <2>7, NoneIsNoId DEF crash, abandon, held
  <2>8. CASE start
    BY <2>8, NoneIsNoId DEF start, vars, held
  <2>9. CASE tick
    BY <2>9, <2>s, SlotsWithinHorizon DEF tick, schedule, vars, held, TypeOK
  <2>10. CASE UNCHANGED allVars
    BY <2>10 DEF allVars, schedule, vars, held
  <2>11. QED
    BY <2>1, <2>2, <2>3, <2>4, <2>5, <2>6, <2>7, <2>8, <2>9, <2>10 DEF NextScheduler
<1>3. QED
  BY <1>1, <1>2, SchedulerTypes, PTL DEF SpecScheduler

\* Of two active bookings of one TV, one is past its end.
THEOREM OneAtATime == ASSUME Serial PROVE SpecScheduler => []OneActiveInTime
<1>1. TypeOKScheduler /\ RowsAreComplete /\ JobTimes /\ Disjoint => OneActiveInTime
  <2> SUFFICES ASSUME TypeOKScheduler, RowsAreComplete, JobTimes, Disjoint,
                      NEW i \in Ids \ unchecked, NEW j \in Ids \ unchecked,
                      i # j, tv[i] = tv[j], status[i] = "active", status[j] = "active"
               PROVE  slot[i][2] <= now \/ slot[j][2] <= now
    BY DEF OneActiveInTime
  <2>1. slot[i] \in Int \X Int /\ slot[j] \in Int \X Int /\ now \in Int
    BY SlotsAreIntervals, SlotsWithinHorizon DEF RowsAreComplete, TypeOKScheduler
  <2>2. slot[i][1] <= now /\ slot[j][1] <= now
    BY DEF JobTimes
  <2>3. ~(slot[j][1] < slot[i][2] /\ slot[j][2] > slot[i][1])
    BY DEF Disjoint, Clear, Conflicts, Blocking
  <2>4. QED
    BY <2>1, <2>2, <2>3
<1>2. SpecScheduler => []Disjoint
  BY RefinesBookings, ReservationHolds, PTL
<1>3. QED
  BY <1>1, <1>2, SchedulerTypes, JobTimesHold, PTL

------------------------------------------------------------------------------
\* What is still to be scheduled has one first job, and between the halves of
\* schedule_at that job is in memory, unless its id has a row already.
HalfDone ==
  /\ half \subseteq planned
  /\ \A i \in Ids : todo[i] # {} => i \in planned
  /\ \A i \in Ids : \A j, k \in todo[i] : j[2] = k[2] => j = k
  /\ \A i \in half : \A job \in First(todo[i]) :
       scheduled_jobs[job] = None => memory[job] # None

\* A job of the table that nobody cancelled.
Wanted(job) == scheduled_jobs[job] # None /\ <<job, scheduled_jobs[job]>> \notin dropped

\* The process has nothing half done while it is down, and up it has every
\* wanted job that is still to come in memory.
Armed ==
  /\ ~up => half = {} /\ \A i \in Ids : todo[i] = {}
  /\ \A job \in JobIds : up /\ job[2] > now /\ Wanted(job) => memory[job] # None

\* A wanted job whose time has come is in memory in that instant, until it has
\* run or a crash has taken it.
KeptOrRun ==
  \A job \in JobIds : Wanted(job) /\ job[2] <= now =>
    \/ up /\ job[2] = now /\ memory[job] # None
    \/ runs[job] > 0
    \/ job[2] \in downAt

\* Every row of a job still to come is armed in memory while the process runs,
\* through crashes between the halves of schedule_at and through shared ids.
LEMMA ArmedStep ==
  TypeOKScheduler /\ RowsAreComplete /\ Fresh /\ HalfDone /\ Armed /\ KeptOrRun
    /\ [NextScheduler]_allVars => HalfDone' /\ Armed' /\ KeptOrRun'
<1> SUFFICES ASSUME TypeOKScheduler, RowsAreComplete, Fresh, HalfDone, Armed, KeptOrRun,
                    [NextScheduler]_allVars
             PROVE  HalfDone' /\ Armed' /\ KeptOrRun'
  OBVIOUS
<1>t. /\ now \in Int /\ up \in BOOLEAN /\ Crashes \in BOOLEAN
      /\ memory \in [JobIds -> Ids \union {None}]
      /\ scheduled_jobs \in [JobIds -> Ids \union {None}]
      /\ todo \in [Ids -> SUBSET JobIds]
      /\ half \subseteq Ids /\ planned \subseteq Ids
      /\ runs \in [JobIds -> Nat] /\ downAt \subseteq 0..Horizon
      /\ \A job \in JobIds : job[2] \in Int
  BY SlotsWithinHorizon, SchedulerModes DEF TypeOKScheduler, JobIds
<1>1. CASE UserCall
  BY <1>1 DEF UserCall, schedule, HalfDone, Armed, KeptOrRun, Wanted, First
<1>2. ASSUME NEW i \in Ids, schedule_booking_jobs(i) PROVE HalfDone' /\ Armed' /\ KeptOrRun'
  <2>1. \A j, k \in BookingJobs(i) : j[2] = k[2] => j = k
    <3>1. slot[i] \in Slots
      BY <1>2 DEF schedule_booking_jobs, RowsAreComplete
    <3>2. slot[i][1] \in Int /\ slot[i][2] \in Int /\ slot[i][1] < slot[i][2]
      BY <3>1, SlotsAreIntervals
    <3> QED
      BY <3>2 DEF BookingJobs, OwnJobs
  <2>2. i \notin half
    BY <1>2 DEF schedule_booking_jobs, HalfDone
  <2>3. \A k \in Ids : todo'[k] = IF k = i THEN BookingJobs(i) ELSE todo[k]
    BY <1>2, <1>t DEF schedule_booking_jobs
  <2>4. HalfDone'
    BY <1>2, <1>t, <2>1, <2>2, <2>3 DEF schedule_booking_jobs, HalfDone, First
  <2>5. Armed' /\ KeptOrRun'
    BY <1>2 DEF schedule_booking_jobs, Armed, KeptOrRun, Wanted
  <2> QED
    BY <2>4, <2>5
<1>3. ASSUME NEW i \in Ids, schedule_at(i) PROVE HalfDone' /\ Armed' /\ KeptOrRun'
  <2>1. PICK job \in First(todo[i]) : memory' = [memory EXCEPT ![job] = i]
    BY <1>3 DEF schedule_at
  <2>2. job \in todo[i] /\ job \in JobIds
    BY <1>t DEF First
  <2>3. \A k \in First(todo[i]) : k = job
    <3>1. ASSUME NEW k \in First(todo[i]) PROVE k = job
      <4>1. k \in todo[i] /\ k \in JobIds /\ k[2] <= job[2] /\ job[2] <= k[2]
        BY <2>2, <1>t DEF First
      <4>2. k[2] = job[2]
        BY <4>1, <2>2, <1>t
      <4> QED
        BY <4>1, <4>2, <2>2 DEF HalfDone
    <3> QED
      BY <3>1
  <2>4. \A k \in JobIds : memory[k] # None \/ k = job => memory'[k] # None
    BY <2>1, <1>t, NoneIsNoId
  <2>5. i \in planned
    BY <2>2 DEF HalfDone
  <2>6. half' = half \union {i} /\ UNCHANGED <<now, up, scheduled_jobs, todo, planned, dropped, runs, downAt>>
    BY <1>3 DEF schedule_at
  <2>7. HalfDone'
    <3>1. ASSUME NEW k \in half', NEW x \in First(todo'[k]), scheduled_jobs'[x] = None
          PROVE  memory'[x] # None
      <4>1. k \in Ids /\ todo'[k] = todo[k] /\ x \in First(todo[k]) /\ scheduled_jobs[x] = None
        BY <2>6, <3>1, <1>t
      <4>2. x \in JobIds
        BY <4>1, <1>t DEF First
      <4>3. CASE k = i
        BY <4>1, <4>2, <4>3, <2>3, <2>4
      <4>4. CASE k # i
        BY <4>1, <4>2, <4>4, <2>4, <2>6 DEF HalfDone
      <4> QED
        BY <4>3, <4>4
    <3>2. half' \subseteq planned'
      BY <2>5, <2>6 DEF HalfDone
    <3> QED
      BY <2>6, <3>1, <3>2 DEF HalfDone
  <2>8. up
    BY <2>2 DEF Armed
  <2>9. Armed' /\ KeptOrRun'
    BY <2>4, <2>6, <2>8 DEF Armed, KeptOrRun, Wanted
  <2> QED
    BY <2>7, <2>9
<1>4. ASSUME NEW i \in Ids, persist(i) PROVE HalfDone' /\ Armed' /\ KeptOrRun'
  <2>1. PICK job \in First(todo[i]) :
          \/ /\ scheduled_jobs[job] = None
             /\ scheduled_jobs' = [scheduled_jobs EXCEPT ![job] = i]
             /\ todo' = [todo EXCEPT ![i] = @ \ {job}]
          \/ /\ scheduled_jobs[job] # None
             /\ todo' = [todo EXCEPT ![i] = {}]
             /\ UNCHANGED scheduled_jobs
    BY <1>4 DEF persist
  <2>2. /\ i \in half /\ half' = half \ {i} /\ UNCHANGED <<vars, now, up, memory, planned, dropped, runs, downAt>>
    BY <1>4 DEF persist
  <2>3. job \in todo[i] /\ job \in JobIds /\ job[2] > now /\ up
    BY <1>t DEF First, Armed, Fresh
  <2>4. \A k \in JobIds : k # job => scheduled_jobs'[k] = scheduled_jobs[k]
    BY <2>1, <1>t
  <2>5. scheduled_jobs'[job] # None
    BY <2>1, <2>3, <1>t, NoneIsNoId
  <2>6. scheduled_jobs[job] = None => memory[job] # None
    BY <2>1, <2>2 DEF HalfDone
  <2>7. \A k \in Ids : todo'[k] \subseteq todo[k] /\ (k # i => todo'[k] = todo[k])
    BY <2>1, <1>t
  <2>8. HalfDone'
    <3>1. half' \subseteq planned' /\ \A k \in Ids : todo'[k] # {} => k \in planned'
      BY <2>2, <2>7 DEF HalfDone
    <3>2. \A k \in Ids : \A x, y \in todo'[k] : x[2] = y[2] => x = y
      BY <2>7 DEF HalfDone
    <3>3. ASSUME NEW k \in half', NEW x \in First(todo'[k]), scheduled_jobs'[x] = None
          PROVE  memory'[x] # None
      <4>1. k # i /\ k \in half /\ k \in Ids /\ x \in First(todo[k]) /\ x \in JobIds
        BY <2>2, <2>7, <1>t DEF First
      <4>2. scheduled_jobs[x] = None
        BY <4>1, <3>3, <2>4, <2>5
      <4> QED
        BY <4>1, <4>2, <2>2 DEF HalfDone
    <3> QED
      BY <3>1, <3>2, <3>3 DEF HalfDone
  <2>9. \A k \in JobIds : Wanted(k)' => k = job \/ Wanted(k)
    BY <2>2, <2>4 DEF Wanted
  <2>10. Wanted(job)' => memory[job] # None
    <3>1. CASE scheduled_jobs[job] = None
      BY <3>1, <2>6
    <3>2. CASE scheduled_jobs[job] # None
      BY <3>2, <2>1, <2>2, <2>3 DEF Wanted, Armed
    <3> QED
      BY <3>1, <3>2
  <2>11. Armed'
    BY <2>2, <2>3, <2>9, <2>10 DEF Armed
  <2>12. KeptOrRun'
    BY <2>2, <2>3, <2>9, <2>10, <1>t DEF KeptOrRun
  <2> QED
    BY <2>8, <2>11, <2>12
<1>5. ASSUME NEW job \in JobIds, cancel_job(job) PROVE HalfDone' /\ Armed' /\ KeptOrRun'
  <2>1. \A k \in JobIds : k # job => memory'[k] = memory[k]
    BY <1>5, <1>t DEF cancel_job
  <2>2. scheduled_jobs[job] # None /\ ~Wanted(job)' /\ \A k \in JobIds : Wanted(k)' => Wanted(k)
    BY <1>5 DEF cancel_job, Wanted
  <2>3. UNCHANGED <<now, up, scheduled_jobs, todo, half, planned, runs, downAt>>
    BY <1>5 DEF cancel_job
  <2>4. \A i \in half : First(todo'[i]) = First(todo[i]) /\ First(todo[i]) \subseteq JobIds
    BY <2>3, <1>t DEF First
  <2>5. HalfDone'
    BY <2>1, <2>2, <2>3, <2>4 DEF HalfDone
  <2> QED
    BY <2>1, <2>2, <2>3, <2>5 DEF Armed, KeptOrRun
<1>6. ASSUME NEW job \in JobIds, run_job(job) PROVE HalfDone' /\ Armed' /\ KeptOrRun'
  <2>1. \A k \in JobIds : k # job => memory'[k] = memory[k] /\ runs'[k] = runs[k]
    BY <1>6, <1>t DEF run_job
  <2>2. runs'[job] > 0 /\ job[2] <= now
    BY <1>6, <1>t DEF run_job, Due
  <2>3. UNCHANGED <<now, up, scheduled_jobs, todo, half, planned, dropped, downAt>>
    BY <1>6 DEF run_job
  <2>4. \A i \in half : First(todo'[i]) = First(todo[i]) /\ job \notin First(todo[i])
                       /\ First(todo[i]) \subseteq JobIds
    BY <2>2, <2>3, <1>t DEF First, Fresh
  <2>5. HalfDone'
    BY <2>1, <2>3, <2>4 DEF HalfDone
  <2>6. Armed'
    BY <2>1, <2>2, <2>3, <1>t DEF Armed, Wanted
  <2>7. KeptOrRun'
    BY <2>1, <2>2, <2>3 DEF KeptOrRun, Wanted
  <2> QED
    BY <2>5, <2>6, <2>7
<1>7. CASE crash
  <2>1. HalfDone' /\ Armed'
    BY <1>7, <1>t DEF crash, HalfDone, Armed, First
  <2>2. UNCHANGED <<now, scheduled_jobs, dropped, runs>> /\ downAt' = downAt \union AtStake(now)
    BY <1>7 DEF crash
  <2>3. ASSUME NEW k \in JobIds, Wanted(k)', k[2] <= now PROVE runs[k] > 0 \/ k[2] \in downAt'
    BY <2>2, <2>3, <1>t DEF KeptOrRun, Wanted, AtStake
  <2> QED
    BY <2>1, <2>2, <2>3 DEF KeptOrRun
<1>8. CASE start
  <2>1. half = {} /\ ~up
    BY <1>8 DEF start, Armed
  <2>2. \A k \in JobIds : k[2] > now => memory'[k] = scheduled_jobs[k]
    BY <1>8, <1>t DEF start
  <2>3. UNCHANGED <<now, scheduled_jobs, todo, half, planned, dropped, runs, downAt>>
    BY <1>8 DEF start
  <2>4. HalfDone'
    BY <2>1, <2>3 DEF HalfDone
  <2>5. Armed'
    BY <1>8, <2>2, <2>3 DEF start, Armed, Wanted
  <2> QED
    BY <2>1, <2>3, <2>4, <2>5 DEF KeptOrRun, Wanted
<1>9. CASE tick
  <2>1. /\ \A k \in JobIds : k[2] <= now => memory[k] = None
        /\ now' = now + 1
        /\ UNCHANGED <<up, memory, scheduled_jobs, todo, half, planned, dropped, runs>>
        /\ downAt' = IF up THEN downAt ELSE downAt \union AtStake(now + 1)
    BY <1>9, <1>t DEF tick, Due, schedule, AtStake
  <2>2. HalfDone'
    BY <2>1 DEF HalfDone, First
  <2>3. Armed'
    BY <2>1, <1>t DEF Armed, Wanted
  <2>4. KeptOrRun'
    <3> SUFFICES ASSUME NEW k \in JobIds, Wanted(k), k[2] <= now + 1
                 PROVE  \/ up /\ k[2] = now + 1 /\ memory[k] # None
                        \/ runs[k] > 0
                        \/ k[2] \in downAt'
      BY <2>1 DEF KeptOrRun, Wanted
    <3>1. k[2] <= now \/ k[2] = now + 1
      BY <1>t
    <3>2. CASE k[2] <= now
      BY <2>1, <3>2 DEF KeptOrRun
    <3>3. CASE k[2] = now + 1 /\ up
      BY <3>3, <1>t DEF Armed
    <3>4. CASE k[2] = now + 1 /\ ~up
      <4>1. runs[k] = 0 => k[2] \in AtStake(now + 1)
        BY <3>4 DEF AtStake, Wanted
      <4> QED
        BY <2>1, <3>4, <4>1, <1>t
    <3> QED
      BY <3>1, <3>2, <3>3, <3>4
  <2> QED
    BY <2>2, <2>3, <2>4
<1>10. CASE UNCHANGED allVars
  BY <1>10 DEF allVars, schedule, HalfDone, Armed, KeptOrRun, Wanted, First
<1> QED
  BY <1>1, <1>2, <1>3, <1>4, <1>5, <1>6, <1>7, <1>8, <1>9, <1>10 DEF NextScheduler

\* What is half written, still wanted or kept stays accounted for, in every state of
\* the scheduler, crashes included.
LEMMA ArmedAlways == SpecScheduler => [](HalfDone /\ Armed /\ KeptOrRun)
<1>1. InitScheduler => HalfDone /\ Armed /\ KeptOrRun
  BY DEF InitScheduler, HalfDone, Armed, KeptOrRun, Wanted
<1>2. QED
  BY <1>1, ArmedStep, SchedulerTypes, FreshAlways, PTL DEF SpecScheduler

------------------------------------------------------------------------------
\* The id of an earlier job of booking i is that of another booking's row: the
\* error of that insert ends the scheduling of i before job.
Overtaken(i, job) ==
  \E k \in OwnJobs(i) \intersect JobIds :
    k[2] < job[2] /\ scheduled_jobs[k] \notin {i, None}

\* What was planned for a booking and not cut off by a crash is still to be
\* scheduled, has a row of its id, or was given up for the reason above.
Booked ==
  /\ \A i \in planned : status[i] # "none"
  /\ \A job \in JobIds : scheduled_jobs[job] # None => scheduled_jobs[job] \in planned
  /\ \A i \in Ids : \A job \in todo[i] : job \in OwnJobs(i) /\ scheduled_jobs[job] # i
  /\ \A i \in planned \ cut : \A job \in BookingJobs(i) :
       job \in todo[i] \/ scheduled_jobs[job] # None \/ Overtaken(i, job)

\* A step that leaves table and plans as they are, and every booking its slot,
\* keeps the account of the jobs.
LEMMA BookedStays ==
  ASSUME TypeOKScheduler, RowsAreComplete, HalfDone, Booked,
         scheduled_jobs' = scheduled_jobs, todo' = todo, planned' = planned, cut' = cut,
         now' \in {now, now + 1},
         \A i \in Ids : status[i] # "none" => status'[i] # "none" /\ slot'[i] = slot[i]
  PROVE  Booked'
<1>1. \A i \in planned : i \in Ids /\ status[i] # "none"
  BY DEF Booked, TypeOKScheduler
<1>2. \A i \in planned : OwnJobs(i)' = OwnJobs(i)
  BY <1>1 DEF OwnJobs
<1>3. \A i \in planned : BookingJobs(i)' \subseteq BookingJobs(i)
  <2>1. ASSUME NEW i \in planned, NEW job \in OwnJobs(i) PROVE job[2] \in Int
    <3>1. slot[i] \in Slots
      BY <1>1 DEF RowsAreComplete
    <3> QED
      BY <3>1, SlotsAreIntervals DEF OwnJobs
  <2>2. now \in Int
    BY SlotsWithinHorizon DEF TypeOKScheduler
  <2> QED
    BY <1>2, <2>1, <2>2 DEF BookingJobs
<1>4. \A i \in planned : \A job : Overtaken(i, job) => Overtaken(i, job)'
  BY <1>2 DEF Overtaken
<1>5. \A i \in Ids : todo[i] # {} => i \in planned
  BY DEF HalfDone
<1> QED
  BY <1>1, <1>2, <1>3, <1>4, <1>5 DEF Booked

\* Every step keeps the account of the planned jobs.
LEMMA BookedStep ==
  ASSUME TypeOKScheduler, RowsAreComplete, Fresh, HalfDone, Booked, [NextScheduler]_allVars
  PROVE  Booked'
<1>t. /\ now \in Int
      /\ scheduled_jobs \in [JobIds -> Ids \union {None}]
      /\ todo \in [Ids -> SUBSET JobIds]
      /\ half \subseteq Ids /\ planned \subseteq Ids /\ cut \subseteq Ids
      /\ \A job \in JobIds : job[2] \in Int
  BY SlotsWithinHorizon DEF TypeOKScheduler, JobIds
<1>1. CASE UserCall
  BY <1>1, SlotsStay, BookedStays DEF UserCall, schedule
<1>2. ASSUME NEW i \in Ids, schedule_booking_jobs(i) PROVE Booked'
  <2>1. /\ i \notin planned /\ status[i] # "none" /\ planned' = planned \union {i}
        /\ UNCHANGED <<status, slot, now, scheduled_jobs, cut>>
    BY <1>2 DEF schedule_booking_jobs, vars, held
  <2>2. \A k \in Ids : todo'[k] = IF k = i THEN BookingJobs(i) ELSE todo[k]
    BY <1>2, <1>t DEF schedule_booking_jobs
  <2>3. \A k \in Ids : OwnJobs(k)' = OwnJobs(k) /\ BookingJobs(k)' = BookingJobs(k)
    BY <2>1 DEF OwnJobs, BookingJobs
  <2>4. \A job \in BookingJobs(i) : job \in OwnJobs(i) /\ job \in JobIds /\ scheduled_jobs[job] # i
    BY <2>1, BookingJobsType, NoneIsNoId DEF BookingJobs, Booked
  <2>5. \A k \in Ids : \A job : Overtaken(k, job) => Overtaken(k, job)'
    BY <2>1, <2>3 DEF Overtaken
  <2> QED
    BY <2>1, <2>2, <2>3, <2>4, <2>5, <1>t DEF Booked
<1>3. ASSUME NEW i \in Ids, schedule_at(i) PROVE Booked'
  BY <1>3, BookedStays DEF schedule_at, vars, held
<1>4. ASSUME NEW i \in Ids, persist(i) PROVE Booked'
  <2>1. PICK job \in First(todo[i]) :
          \/ /\ scheduled_jobs[job] = None
             /\ scheduled_jobs' = [scheduled_jobs EXCEPT ![job] = i]
             /\ todo' = [todo EXCEPT ![i] = @ \ {job}]
          \/ /\ scheduled_jobs[job] # None
             /\ todo' = [todo EXCEPT ![i] = {}]
             /\ UNCHANGED scheduled_jobs
    BY <1>4 DEF persist
  <2>2. i \in half /\ i \in planned /\ UNCHANGED <<status, slot, now, planned, cut>>
    BY <1>4 DEF persist, HalfDone, vars, held
  <2>3. job \in todo[i] /\ job \in JobIds /\ job \in OwnJobs(i) /\ scheduled_jobs[job] # i
    BY <2>1, <1>t DEF First, Booked
  <2>4. \A k \in todo[i] : k = job \/ job[2] < k[2]
    <3>1. ASSUME NEW k \in todo[i], k # job PROVE job[2] < k[2]
      <4>1. job[2] <= k[2] /\ job[2] # k[2] /\ job[2] \in Int /\ k[2] \in Int
        BY <3>1, <2>3, <1>t DEF First, HalfDone
      <4> QED
        BY <4>1
    <3> QED
      BY <3>1
  <2>5. \A k \in Ids : OwnJobs(k)' = OwnJobs(k) /\ BookingJobs(k)' = BookingJobs(k)
    BY <2>2 DEF OwnJobs, BookingJobs
  <2>6. \A k \in JobIds :
          /\ k # job => scheduled_jobs'[k] = scheduled_jobs[k]
          /\ scheduled_jobs[k] # None => scheduled_jobs'[k] = scheduled_jobs[k]
    BY <2>1, <2>3, <1>t
  <2>7. scheduled_jobs'[job] # None
    BY <2>1, <2>3, <1>t, NoneIsNoId
  <2>8. \A k \in JobIds : scheduled_jobs'[k] # None => scheduled_jobs'[k] \in planned
    BY <2>1, <2>2, <2>3, <1>t DEF Booked
  <2>9. \A k \in Ids : todo'[k] \subseteq todo[k] /\ (k # i => todo'[k] = todo[k])
    BY <2>1, <1>t
  <2>10. job \notin todo'[i]
    BY <2>1, <1>t
  <2>11. \A k \in Ids : \A x : Overtaken(k, x) => Overtaken(k, x)'
    BY <2>5, <2>6 DEF Overtaken
  <2>12. ASSUME NEW k \in Ids, NEW x \in todo'[k]
         PROVE  x \in OwnJobs(k)' /\ scheduled_jobs'[x] # k
    <3>1. x \in todo[k] /\ x \in JobIds
      BY <2>9, <1>t
    <3>2. CASE x # job
      BY <3>1, <3>2, <2>5, <2>6 DEF Booked
    <3>3. CASE x = job
      BY <3>1, <3>3, <2>1, <2>3, <2>5, <2>10, <1>t DEF Booked
    <3> QED
      BY <3>2, <3>3
  <2>13. ASSUME NEW k \in planned \ cut, NEW x \in BookingJobs(k),
                x \notin todo'[k], scheduled_jobs'[x] = None
         PROVE  Overtaken(k, x)'
    <3>1. k \in Ids /\ x \in JobIds
      BY <1>t, BookingJobsType DEF Booked
    <3>2. scheduled_jobs[x] = None /\ x # job
      BY <3>1, <2>13, <2>6, <2>7
    <3>3. CASE x \in todo[k]
      <4>1. k = i
        BY <3>1, <3>3, <2>13, <2>9
      <4>2. scheduled_jobs[job] # None /\ job[2] < x[2] /\ scheduled_jobs' = scheduled_jobs
        BY <4>1, <3>2, <3>3, <2>13, <2>1, <2>4, <1>t
      <4>3. Overtaken(i, x)
        BY <4>2, <2>3 DEF Overtaken
      <4> QED
        BY <4>1, <4>3, <2>11
    <3>4. CASE x \notin todo[k]
      BY <3>1, <3>2, <3>4, <2>11 DEF Booked
    <3> QED
      BY <3>3, <3>4
  <2>14. \A k \in planned' : status'[k] # "none"
    BY <2>2 DEF Booked
  <2>15. \A k \in planned' \ cut' : \A x \in BookingJobs(k)' :
           x \in todo'[k] \/ scheduled_jobs'[x] # None \/ Overtaken(k, x)'
    BY <2>2, <2>5, <2>13, <1>t
  <2> QED
    BY <2>8, <2>2, <2>12, <2>14, <2>15 DEF Booked
<1>5. ASSUME NEW job \in JobIds, cancel_job(job) PROVE Booked'
  BY <1>5, BookedStays DEF cancel_job, vars, held
<1>6. ASSUME NEW job \in JobIds, run_job(job) PROVE Booked'
  <2>1. memory[job] \in Ids
    BY <1>6 DEF run_job, Due, TypeOKScheduler
  <2>2. \A i \in Ids : status[i] # "none" => status'[i] # "none" /\ slot'[i] = slot[i]
    BY <1>6, <2>1, CallbacksMoveOne DEF run_job, vars, held
  <2> QED
    BY <1>6, <2>2, BookedStays DEF run_job
<1>7. CASE crash
  <2>1. /\ UNCHANGED <<status, slot, now, scheduled_jobs, planned>>
        /\ \A k \in Ids : todo'[k] = {}
        /\ \A k \in Ids : k \notin cut' => k \notin cut /\ todo[k] = {}
    BY <1>7 DEF crash, abandon, held
  <2>2. \A k \in Ids : OwnJobs(k)' = OwnJobs(k) /\ BookingJobs(k)' = BookingJobs(k)
    BY <2>1 DEF OwnJobs, BookingJobs
  <2>3. \A k \in Ids : \A x : Overtaken(k, x) => Overtaken(k, x)'
    BY <2>1, <2>2 DEF Overtaken
  <2> QED
    BY <2>1, <2>2, <2>3, <1>t DEF Booked
<1>8. CASE start
  BY <1>8, BookedStays DEF start, vars, held
<1>9. CASE tick
  BY <1>9, BookedStays DEF tick, vars, held
<1>10. CASE UNCHANGED allVars
  BY <1>10, BookedStays DEF allVars, schedule, vars, held
<1> QED
  BY <1>1, <1>2, <1>3, <1>4, <1>5, <1>6, <1>7, <1>8, <1>9, <1>10 DEF NextScheduler

\* The planned jobs stay accounted for, in every state.
LEMMA BookedAlways == SpecScheduler => []Booked
<1>1. InitScheduler => Booked
  BY DEF InitScheduler, Booked
<1>2. QED
  BY <1>1, BookedStep, SchedulerTypes, FreshAlways, ArmedAlways, PTL DEF SpecScheduler
\* No job to come is forgotten.  A booking whose jobs are scheduled has them armed
\* while the process runs, through any crashes and starts, but for one a crash in
\* the middle of the scheduling, cancel_job or a booking of the same time has
\* taken; and every job of the table is armed, whatever was cut off.
THEOREM FutureArmed == SpecScheduler => []FutureJobsAreArmed
<1>1. TypeOKScheduler /\ RowsAreComplete /\ Armed /\ Booked => BookedJobsAreArmed
  <2> SUFFICES ASSUME TypeOKScheduler, RowsAreComplete, Armed, Booked,
                      NEW i \in planned \ cut, up, todo[i] = {}, NEW job \in BookingJobs(i)
               PROVE  \/ memory[job] = i
                      \/ \E j \in Ids : <<job, j>> \in dropped
                      \/ \E j \in Ids \ {i} :
                           \/ memory[job] = j
                           \/ \E k \in OwnJobs(i) \intersect JobIds :
                                k[2] < job[2] /\ scheduled_jobs[k] = j
    BY DEF BookedJobsAreArmed
  <2>1. i \in Ids /\ job \in JobIds /\ job[2] > now
    BY BookingJobsType DEF Booked, BookingJobs, TypeOKScheduler
  <2>2. /\ memory \in [JobIds -> Ids \union {None}]
        /\ scheduled_jobs \in [JobIds -> Ids \union {None}]
    BY DEF TypeOKScheduler
  <2>3. CASE Wanted(job)
    BY <2>1, <2>2, <2>3 DEF Armed
  <2>4. CASE scheduled_jobs[job] # None /\ ~Wanted(job)
    BY <2>1, <2>2, <2>4 DEF Wanted
  <2>5. CASE Overtaken(i, job)
    BY <2>1, <2>2, <2>5 DEF Overtaken
  <2> QED
    BY <2>1, <2>3, <2>4, <2>5 DEF Booked
<1>2. Armed => RowsAreArmed
  BY DEF Armed, Wanted, RowsAreArmed
<1>3. QED
  BY <1>1, <1>2, SchedulerTypes, ArmedAlways, BookedAlways, PTL DEF FutureJobsAreArmed

\* A job of the table that nobody cancelled and that has not run in its time was
\* missed because the process was down in that instant, for nothing else.
THEOREM MissedDown == SpecScheduler => []MissedOnlyWhileDown
<1>1. TypeOKScheduler /\ KeptOrRun => MissedOnlyWhileDown
  BY SlotsWithinHorizon DEF KeptOrRun, Wanted, MissedOnlyWhileDown, TypeOKScheduler, JobIds
<1>2. QED
  BY <1>1, SchedulerTypes, ArmedAlways, PTL
=============================================================================
