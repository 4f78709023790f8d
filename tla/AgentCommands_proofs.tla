------------------------ MODULE AgentCommands_proofs ------------------------
(***************************************************************************)
(* Theorems about an agent and its command queue, for any number of        *)
(* commands, late and lost reports and restarts of the agent.              *)
(*                                                                         *)
(* None of the three safety properties is inductive.  Tickets, which name  *)
(* commands for good, and ids, which start over with the backend, have to  *)
(* be tied together: Order does it for whatever the backend does, Numbers  *)
(* for a backend that does not stop.                                       *)
(***************************************************************************)
EXTENDS AgentCommands, TLAPS

\* What the agent and the backend know is typed.
THEOREM TypeCorrect == Spec => []TypeOK
<1> DEFINE Vlcs == [current_command_id : Nat, process : {"none", "launched", "started", "exited"}]
<1>a. NoVlc \in Vlcs
  BY DEF NoVlc
<1>b. <<>> \in Seq(Nat)
  OBVIOUS
<1>1. Init => TypeOK
  <2> SUFFICES ASSUME Init PROVE TypeOK
    OBVIOUS
  <2>1. vlc \in Vlcs /\ life \in Seq(Nat) /\ up \in BOOLEAN
    BY <1>a, <1>b DEF Init, InitBackend, InitAgent
  <2>2. counter \in Nat /\ issued \in Nat /\ last_command_id \in Nat
    BY DEF Init, InitBackend, InitAgent
  <2>3. /\ queue \subseteq Commands /\ batch \subseteq Commands /\ waiting \subseteq Commands
        /\ network \subseteq Reports /\ before \subseteq Nat /\ played \subseteq PlaybackIds
    BY DEF Init, InitBackend, InitAgent
  <2> QED BY <2>1, <2>2, <2>3 DEF TypeOK
<1>2. TypeOK /\ [Next]_vars => TypeOK'
  <2> SUFFICES ASSUME TypeOK, [Next]_vars PROVE TypeOK'
    OBVIOUS
  <2> USE DEF TypeOK, backend, memory
  <2>1. CASE queue_command
    <3>1. ASSUME NEW p \in PlaybackIds, add_command("start_playback", p) PROVE TypeOK'
      <4>1. [id |-> counter + 1, type |-> "start_playback",
             playback_command_id |-> p, ticket |-> issued + 1] \in Commands
        BY DEF Commands
      <4> QED BY <3>1, <4>1 DEF add_command
    <3>2. ASSUME NEW type \in Types \ {"start_playback"}, add_command(type, 0) PROVE TypeOK'
      <4>1. [id |-> counter + 1, type |-> type,
             playback_command_id |-> 0, ticket |-> issued + 1] \in Commands
        BY DEF Commands
      <4> QED BY <3>2, <4>1 DEF add_command
    <3> QED BY <2>1, <3>1, <3>2 DEF queue_command
  <2>2. ASSUME NEW r \in network, report_result(r) PROVE TypeOK'
    BY <2>2 DEF report_result
  <2>3. CASE restart_backend
    BY <2>3 DEF restart_backend
  <2>4. CASE poll_commands
    BY <2>4 DEF poll_commands
  <2>5. ASSUME NEW c \in batch, execute_command(c) PROVE TypeOK'
    <3>1. /\ c \in Commands /\ c.id \in Nat /\ c.ticket \in Nat
          /\ c.type = "start_playback" => c.playback_command_id \in Nat
      BY PlaybackIdsArePositive DEF Commands, Types
    <3>2. \A success \in BOOLEAN : report(c.id, success) \in Reports
      BY <3>1 DEF report, Reports
    <3>3. last_command_id' \in Nat /\ life' \in Seq(Nat) /\ batch' \subseteq Commands
      BY <2>5, <3>1 DEF execute_command, Greater
    <3>4. /\ vlc' \in Vlcs
          /\ waiting' \subseteq Commands
          /\ network' \subseteq Reports
          /\ played' \subseteq PlaybackIds
      <4>1. CASE play(c)
        <5> DEFINE id == IF c.type = "start_playback" THEN c.playback_command_id ELSE c.id
        <5>1. id \in Nat
          BY <3>1
        <5>2. \A process \in {"launched", "none"} :
                [current_command_id |-> id, process |-> process] \in Vlcs
          BY <5>1
        <5>3. /\ \/ vlc' = vlc
                 \/ \E process \in {"launched", "none"} :
                      vlc' = [current_command_id |-> id, process |-> process]
              /\ waiting' \in {waiting, {c}}
              /\ network' \in {network, network \union {report(c.id, FALSE)}}
          BY <4>1 DEF play
        <5>4. played' \subseteq PlaybackIds
          <6>1. c.type = "start_playback" => c.playback_command_id \in PlaybackIds
            BY <3>1 DEF Commands, Types
          <6> QED BY <4>1, <6>1 DEF play
        <5>5. vlc' \in Vlcs
          BY <5>2, <5>3
        <5> QED BY <3>1, <3>2, <5>3, <5>4, <5>5
      <4>2. CASE ~play(c)
        BY <2>5, <3>2, <4>2, <1>a DEF execute_command, stop, other
      <4> QED BY <4>1, <4>2
    <3> QED BY <2>5, <3>3, <3>4 DEF execute_command
  <2>6. CASE play_returns
    <3> PICK c \in waiting, success \in BOOLEAN :
          /\ waiting' = {}
          /\ network' = network \union {report(c.id, success)}
          /\ UNCHANGED <<backend, up, last_command_id, batch, vlc, life, before, played>>
      BY <2>6 DEF play_returns
    <3>1. report(c.id, success) \in Reports
      BY DEF report, Reports, Commands
    <3> QED BY <3>1
  <2>7. CASE playback_started \/ playback_ended
    <3>1. report(vlc.current_command_id, TRUE) \in Reports
      BY DEF report, Reports
    <3> QED BY <2>7, <3>1 DEF playback_started, playback_ended, report_playback
  <2>8. CASE start_agent
    BY <2>8 DEF start_agent
  <2>9. CASE stop_agent
    <3>1. Begun \subseteq Nat
      BY DEF Begun
    <3> QED BY <2>9, <3>1, <1>a, <1>b DEF stop_agent
  <2>10. CASE UNCHANGED vars
    BY <2>10 DEF vars
  <2> QED BY <2>1, <2>2, <2>3, <2>4, <2>5, <2>6, <2>7, <2>8, <2>9, <2>10 DEF Next
<1> QED BY <1>1, <1>2, PTL DEF Spec

------------------------------------------------------------------------------
\* Ids order commands as tickets do: within the queue, within the batch, and
\* from the batch to the queue; what the agent can still take up is younger
\* than all it has begun.
Sorted(S) == \A c, d \in S : /\ c.id < d.id => c.ticket < d.ticket
                             /\ c.id = d.id => c = d

Order ==
  /\ Sorted(queue) /\ Sorted(batch)
  /\ \A c \in queue : c.id <= counter /\ c.ticket <= issued
  /\ \A b \in batch : b.ticket <= issued
  /\ \A b \in batch, c \in queue : b.id < c.id => b.ticket < c.ticket
  /\ \A i \in DOMAIN life :
       /\ life[i] <= issued
       /\ \A b \in batch : life[i] < b.ticket
       /\ \A c \in queue : c.id > last_command_id => life[i] < c.ticket

\* In one life the agent executes commands in the order they were queued and
\* none twice, through lost reports and restarts of the backend.
THEOREM Ordered == Spec => []InOrderOnce
<1>1. Init => Order /\ InOrderOnce
  BY DEF Init, InitBackend, InitAgent, Order, Sorted, InOrderOnce
<1>2. TypeOK /\ Order /\ InOrderOnce /\ [Next]_vars => (Order /\ InOrderOnce)'
  <2> SUFFICES ASSUME TypeOK, Order, InOrderOnce, [Next]_vars
               PROVE  Order' /\ InOrderOnce'
    OBVIOUS
  <2>a. /\ \A c \in queue \union batch : c.id \in Nat /\ c.ticket \in Nat
        /\ \A i \in DOMAIN life : life[i] \in Nat
        /\ counter \in Nat /\ issued \in Nat /\ last_command_id \in Nat
    BY DEF TypeOK, Commands
  <2>1. ASSUME NEW type, NEW p, add_command(type, p) PROVE Order' /\ InOrderOnce'
    BY <2>1, <2>a DEF add_command, memory, Order, Sorted, InOrderOnce
  <2>2. ASSUME NEW r \in network, report_result(r) PROVE Order' /\ InOrderOnce'
    BY <2>2, <2>a DEF report_result, memory, Order, Sorted, InOrderOnce
  <2>3. CASE restart_backend
    BY <2>3, <2>a DEF restart_backend, memory, Order, Sorted, InOrderOnce
  <2>4. CASE poll_commands
    BY <2>4, <2>a DEF poll_commands, backend, Order, Sorted, InOrderOnce
  <2>5. ASSUME NEW c \in batch, execute_command(c) PROVE Order' /\ InOrderOnce'
    <3>1. /\ last_command_id' >= last_command_id /\ last_command_id' >= c.id
          /\ last_command_id' \in Nat
          /\ batch' = batch \ {c} /\ life' = Append(life, c.ticket)
          /\ UNCHANGED <<counter, queue, issued>>
      BY <2>5, <2>a DEF execute_command, Greater, backend
    <3>2. \A d \in batch' : c.ticket < d.ticket
      BY <2>5, <2>a, <3>1 DEF execute_command, Order, Sorted
    <3>3. \A i \in DOMAIN life' :
            \/ i \in DOMAIN life /\ life'[i] = life[i]
            \/ i = Len(life) + 1 /\ life'[i] = c.ticket
      BY <3>1, <2>a DEF TypeOK
    <3>4. DOMAIN life = 1..Len(life) /\ Len(life) \in Nat
      BY DEF TypeOK
    <3>5. InOrderOnce'
      BY <3>3, <3>4, <2>a DEF InOrderOnce, Order
    <3>6. Order'
      BY <3>1, <3>2, <3>3, <2>a DEF Order, Sorted
    <3> QED BY <3>5, <3>6
  <2>6. CASE play_returns \/ playback_started \/ playback_ended \/ start_agent \/ UNCHANGED vars
    <3>1. UNCHANGED <<counter, queue, issued, batch, life, last_command_id>>
      BY <2>6 DEF play_returns, playback_started, playback_ended, start_agent, vars,
                  backend, memory
    <3> QED BY <3>1 DEF Order, Sorted, InOrderOnce
  <2>7. CASE stop_agent
    BY <2>7, <2>a DEF stop_agent, backend, Order, Sorted, InOrderOnce
  <2> QED BY <2>1, <2>2, <2>3, <2>4, <2>5, <2>6, <2>7 DEF Next, queue_command
<1> QED BY <1>1, <1>2, TypeCorrect, PTL DEF Spec

------------------------------------------------------------------------------
\* While the backend does not stop, a command's id is its ticket, and the
\* agent has heard of no number that was not given out.
Numbers ==
  /\ counter = issued /\ issued <= MaxIssued
  /\ \A c \in queue \union batch \union waiting : c.id = c.ticket /\ c.id \in 1..issued
  /\ last_command_id <= counter

\* Executing a command adds it to those begun.
LEMMA BegunGrows ==
  ASSUME TypeOK, NEW c \in batch, life' = Append(life, c.ticket)
  PROVE  Begun' = Begun \union {c.ticket}
<1>1. life \in Seq(Nat) /\ c.ticket \in Nat
  BY DEF TypeOK, Commands
<1>2. /\ Len(life) \in Nat /\ DOMAIN life = 1..Len(life)
      /\ DOMAIN life' = 1..Len(life) + 1
      /\ \A i \in DOMAIN life : life'[i] = life[i]
      /\ life'[Len(life) + 1] = c.ticket
  BY <1>1
<1>3. \A x : x \in Begun' <=> x \in Begun \union {c.ticket}
  BY <1>2 DEF Begun
<1> QED BY <1>3

LEMMA NumbersHold == ASSUME ~BackendStops PROVE Spec => []Numbers
<1>1. Init => Numbers
  BY MaxIssuedIsNat DEF Init, InitBackend, InitAgent, Numbers
<1>2. TypeOK /\ Numbers /\ [Next]_vars => Numbers'
  <2> SUFFICES ASSUME TypeOK, Numbers, [Next]_vars PROVE Numbers'
    OBVIOUS
  <2>a. counter \in Nat /\ issued \in Nat /\ last_command_id \in Nat /\ MaxIssued \in Nat
    BY MaxIssuedIsNat DEF TypeOK
  <2>1. ASSUME NEW type, NEW p, add_command(type, p) PROVE Numbers'
    BY <2>1, <2>a DEF add_command, memory, Numbers
  <2>2. ASSUME NEW r \in network, report_result(r) PROVE Numbers'
    BY <2>2 DEF report_result, memory, Numbers
  <2>3. CASE poll_commands
    BY <2>3 DEF poll_commands, backend, Numbers
  <2>4. ASSUME NEW c \in batch, execute_command(c) PROVE Numbers'
    <3>1. waiting' \in {waiting, {c}} /\ batch' \subseteq batch
      BY <2>4 DEF execute_command, play, stop, other
    <3>2. last_command_id' <= counter
      BY <2>4, <2>a DEF execute_command, Greater, Numbers
    <3> QED BY <2>4, <3>1, <3>2 DEF execute_command, backend, Numbers
  <2>5. CASE play_returns \/ playback_started \/ playback_ended \/ start_agent \/ UNCHANGED vars
    <3>1. /\ UNCHANGED <<counter, queue, issued, batch, last_command_id>>
          /\ waiting' \in {waiting, {}}
      BY <2>5 DEF play_returns, playback_started, playback_ended, start_agent, vars,
                  backend, memory
    <3> QED BY <3>1 DEF Numbers
  <2>6. CASE stop_agent
    BY <2>6, <2>a DEF stop_agent, backend, Numbers
  <2> QED BY <2>1, <2>2, <2>3, <2>4, <2>5, <2>6 DEF Next, queue_command, restart_backend
<1> QED BY <1>1, <1>2, TypeCorrect, PTL DEF Spec

\* A command in the queue was begun, is about to be, or lies behind all of those.
Reachable ==
  \A c \in queue : \/ c.ticket \in Begun
                   \/ c \in batch
                   \/ c.id > last_command_id /\ \A b \in batch : b.id < c.id

\* While the backend does not stop, the next poll returns every command the
\* agent has not taken up, also after the agent was started again.
THEOREM Pollable == ASSUME ~BackendStops PROVE Spec => []UnfetchedIsPollable
<1>1. Init => Reachable
  BY DEF Init, InitBackend, InitAgent, Reachable
<1>2. TypeOK /\ Numbers /\ Reachable /\ [Next]_vars => Reachable'
  <2> SUFFICES ASSUME TypeOK, Numbers, Reachable, [Next]_vars PROVE Reachable'
    OBVIOUS
  <2>a. /\ \A c \in queue \union batch : c.id \in Nat /\ c.id > 0 /\ c.id <= counter
        /\ counter \in Nat /\ last_command_id \in Nat /\ last_command_id <= counter
    BY DEF TypeOK, Numbers
  <2>1. ASSUME NEW type, NEW p, add_command(type, p) PROVE Reachable'
    BY <2>1, <2>a DEF add_command, memory, Reachable, Begun
  <2>2. ASSUME NEW r \in network, report_result(r) PROVE Reachable'
    BY <2>2 DEF report_result, memory, Reachable, Begun
  <2>3. CASE poll_commands
    BY <2>3 DEF poll_commands, backend, Reachable, Begun
  <2>4. ASSUME NEW c \in batch, execute_command(c) PROVE Reachable'
    <3>1. Begun' = Begun \union {c.ticket}
      BY <2>4, BegunGrows DEF execute_command
    <3>2. /\ last_command_id' \in {last_command_id, c.id} /\ batch' = batch \ {c}
          /\ queue' = queue
      BY <2>4 DEF execute_command, Greater, backend
    <3> QED BY <3>1, <3>2 DEF Reachable
  <2>5. CASE play_returns \/ playback_started \/ playback_ended \/ start_agent \/ UNCHANGED vars
    <3>1. UNCHANGED <<queue, batch, last_command_id, life>>
      BY <2>5 DEF play_returns, playback_started, playback_ended, start_agent, vars,
                  backend, memory
    <3> QED BY <3>1 DEF Reachable, Begun
  <2>6. CASE stop_agent
    BY <2>6, <2>a DEF stop_agent, backend, Reachable
  <2> QED BY <2>1, <2>2, <2>3, <2>4, <2>5, <2>6 DEF Next, queue_command, restart_backend
<1>3. Reachable => UnfetchedIsPollable
  BY DEF Reachable, UnfetchedIsPollable
<1> QED BY <1>1, <1>2, <1>3, TypeCorrect, NumbersHold, PTL DEF Spec

------------------------------------------------------------------------------
\* Every number VLC plays under, or a report carries, is that of a playback
\* VLC was launched for, or of a command that was begun.
Told == played \union {0} \union Begun \union before

Reported ==
  /\ vlc.process \in {"launched", "started"} => vlc.current_command_id \in Told
  /\ \A c \in waiting : c.ticket \in Told
  /\ \A r \in network : r.command_id \in Told

\* While the backend does not stop, a command leaves the queue only once the
\* agent has begun it, or has launched VLC for a playback of the same number.
THEOREM KeptInQueue == ASSUME ~BackendStops PROVE Spec => []KeptUntilBegun
<1>1. Init => Reported /\ KeptUntilBegun
  BY DEF Init, InitBackend, InitAgent, Reported, Told, KeptUntilBegun, NoVlc
<1>2. TypeOK /\ Numbers /\ Reported /\ KeptUntilBegun /\ [Next]_vars
        => (Reported /\ KeptUntilBegun)'
  <2> SUFFICES ASSUME TypeOK, Numbers, Reported, KeptUntilBegun, [Next]_vars
               PROVE  Reported' /\ KeptUntilBegun'
    OBVIOUS
  <2>a. issued \in Nat /\ issued <= MaxIssued /\ MaxIssued \in Nat
    BY MaxIssuedIsNat DEF TypeOK, Numbers
  <2>1. ASSUME NEW type, NEW p, add_command(type, p) PROVE Reported' /\ KeptUntilBegun'
    <3>1. Reported'
      BY <2>1 DEF add_command, memory, Reported, Told, Begun
    <3>2. \A t \in 1..issued' : t \in 1..issued \/ t = issued + 1
      BY <2>1, <2>a DEF add_command
    <3>3. \E c \in queue' : c.ticket = issued + 1
      <4> DEFINE new == [id |-> counter + 1, type |-> type,
                         playback_command_id |-> p, ticket |-> issued + 1]
      <4>1. new \in queue' /\ new.ticket = issued + 1
        BY <2>1 DEF add_command
      <4> QED BY <4>1
    <3>4. queue \subseteq queue' /\ Begun' = Begun /\ before' = before /\ played' = played
      BY <2>1 DEF add_command, memory, Begun
    <3>5. KeptUntilBegun'
      BY <3>2, <3>3, <3>4 DEF KeptUntilBegun
    <3> QED BY <3>1, <3>5
  <2>2. ASSUME NEW r \in network, report_result(r) PROVE Reported' /\ KeptUntilBegun'
    <3>1. /\ Reported' /\ Begun' = Begun /\ before' = before /\ issued' = issued
          /\ played' = played
      BY <2>2 DEF report_result, memory, Reported, Told, Begun
    <3>2. \A c \in queue : \/ c \in queue'
                           \/ c.ticket = r.command_id /\ c.ticket \in 1..issued
      BY <2>2 DEF report_result, Numbers
    <3>3. r.command_id \in 1..issued => r.command_id \in Begun \union before \union played
      BY <2>a DEF Reported, Told
    <3> QED BY <3>1, <3>2, <3>3 DEF KeptUntilBegun
  <2>3. CASE poll_commands \/ start_agent \/ UNCHANGED vars
    BY <2>3 DEF poll_commands, start_agent, vars, backend, memory, Reported, Told, Begun,
                KeptUntilBegun
  <2>4. ASSUME NEW c \in batch, execute_command(c) PROVE Reported' /\ KeptUntilBegun'
    <3>1. Begun' = Begun \union {c.ticket} /\ before' = before
      BY <2>4, BegunGrows DEF execute_command
    <3>2. played \subseteq played'
      <4>1. CASE play(c)
        BY <4>1 DEF play
      <4> QED BY <2>4, <4>1 DEF execute_command, stop, other
    <3>3. Told \union {c.ticket} \subseteq Told'
      BY <3>1, <3>2 DEF Told
    <3>4. c.id = c.ticket
      BY DEF Numbers
    <3>5. \A success : report(c.id, success).command_id \in Told'
      BY <3>3, <3>4 DEF report
    <3>6. Reported'
      <4>1. CASE play(c)
        <5> DEFINE starts == c.type = "start_playback"
                   id == IF starts THEN c.playback_command_id ELSE c.id
        <5>1. /\ waiting' \in {waiting, {c}}
              /\ network' \in {network, network \union {report(c.id, FALSE)}}
          BY <4>1 DEF play
        <5>2. \/ vlc' = [current_command_id |-> id, process |-> "launched"]
                 /\ played' = IF starts THEN played \union {id} ELSE played
              \/ vlc' = [current_command_id |-> id, process |-> "none"]
              \/ vlc' = vlc
          BY <4>1 DEF play
        <5>3. vlc' = [current_command_id |-> id, process |-> "launched"]
                /\ played' = (IF starts THEN played \union {id} ELSE played)
                => id \in Told'
          BY <3>3, <3>4 DEF Told
        <5>4. vlc'.process \in {"launched", "started"} => vlc'.current_command_id \in Told'
          <6> HIDE DEF id, starts
          <6> QED BY <3>3, <5>2, <5>3 DEF Reported
        <5> QED BY <3>3, <3>5, <5>1, <5>4 DEF Reported
      <4>2. CASE ~play(c)
        <5>1. /\ vlc' \in {vlc, NoVlc} /\ waiting' = waiting
              /\ \E success \in BOOLEAN : network' = network \union {report(c.id, success)}
          BY <2>4, <4>2 DEF execute_command, stop, other
        <5> QED BY <3>3, <3>5, <5>1 DEF Reported, NoVlc
      <4> QED BY <4>1, <4>2
    <3>7. KeptUntilBegun'
      BY <2>4, <3>1, <3>2 DEF execute_command, backend, KeptUntilBegun
    <3> QED BY <3>6, <3>7
  <2>5. CASE play_returns
    <3> PICK c \in waiting, success \in BOOLEAN :
          /\ waiting' = {}
          /\ network' = network \union {report(c.id, success)}
          /\ UNCHANGED <<backend, up, last_command_id, batch, vlc, life, before, played>>
      BY <2>5 DEF play_returns
    <3>1. report(c.id, success).command_id \in Told
      BY DEF report, Reported, Numbers
    <3> QED BY <3>1 DEF backend, Reported, Told, Begun, KeptUntilBegun
  <2>6. CASE playback_started \/ playback_ended
    <3>1. report(vlc.current_command_id, TRUE).command_id \in Told
      BY <2>6 DEF report, Reported, playback_started, playback_ended
    <3>2. /\ vlc'.current_command_id = vlc.current_command_id
          /\ vlc.process \in {"launched", "started"}
      BY <2>6 DEF playback_started, playback_ended, TypeOK
    <3>3. /\ network' \in {network, network \union {report(vlc.current_command_id, TRUE)}}
          /\ UNCHANGED <<queue, issued, waiting, life, before, played>>
      BY <2>6 DEF playback_started, playback_ended, report_playback, backend
    <3> QED BY <3>1, <3>2, <3>3 DEF Reported, Told, Begun, KeptUntilBegun
  <2>7. CASE stop_agent
    <3>1. /\ Begun' = {} /\ before' = before \union Begun /\ waiting' = {}
          /\ vlc' = NoVlc /\ UNCHANGED <<queue, issued, network, played>>
      BY <2>7 DEF stop_agent, backend, Begun
    <3> QED BY <3>1 DEF Reported, Told, KeptUntilBegun, NoVlc
  <2> QED BY <2>1, <2>2, <2>3, <2>4, <2>5, <2>6, <2>7 DEF Next, queue_command, restart_backend
<1> QED BY <1>1, <1>2, TypeCorrect, NumbersHold, PTL DEF Spec
==============================================================================
