---------------------------- MODULE Devices_proofs ----------------------------
(***************************************************************************)
(* Types, the registration race and the watchdog's race of Devices, for    *)
(* any number of requests, any hostnames and any threshold.                *)
(***************************************************************************)
EXTENDS Devices, TLAPS

\* A request past its look-up has read a row.
HasRead(c) ==
  \/ c.at \in {"merge", "merge_commit", "exit"}
  \/ c.at = "commit" /\ c.op # "register"
  \/ c.at = "commit" /\ c.status # "none"

\* And rows do not go away.
HasDevice == \A r \in Requests : HasRead(call[r]) => device # NoDevice

\* A request that has the row has read its status, and the watchdog a row.
HasStatus ==
  /\ \A r \in Requests :
       call[r].op # "register" /\ call[r].at \in {"commit", "merge_commit"}
         => call[r].status # "none"
  /\ watchdog => device # NoDevice

\* What a run of the watchdog overlaps is known; a request that it has not
\* overlapped knows of an online device that it is online, or has made it so.
Crossing ==
  \A r \in Requests :
    /\ watchdog /\ call[r].at \notin {"none", "begun"} => r \in crossed
    /\ r \notin crossed =>
         /\ call[r].at \in {"commit", "merge_commit"} /\ call[r].status = "online"
              => device.status = "online"
         /\ call[r].at = "exit" => device.status = "online"

\* The device the watchdog has selected is silent, unless a request it overlaps
\* has been committed since.
SelectedIsSilent == watchdog => device.age = Stale \/ raced

IInv == /\ TypeOK /\ HasDevice /\ HasStatus /\ AgentIsLetIn
        /\ Crossing /\ SelectedIsSilent /\ OfflineIsSilent

LEMMA AgeType == 0 \in Ages /\ Stale \in Ages /\ \A age \in Ages : Older(age) \in Ages
BY ThresholdIsNat DEF Ages, Stale, Older

LEMMA NoCallType == NoCall \in Calls /\ NoCall.at = "none" /\ NoCall.op = "none"
<1>1. (CHOOSE h \in Hosts : TRUE) \in Hosts
  BY SomeHost
<1> QED
  BY <1>1, AgeType DEF NoCall, Calls

\* An UPDATE of the row leaves a row, with the token it had; it is online after
\* it, unless it was taken offline since the request read that it is online.
LEMMA RefreshedType ==
  ASSUME device \in Devices, NEW c \in Calls
  PROVE  /\ refreshed(c) \in Devices
         /\ refreshed(c) # NoDevice
         /\ refreshed(c).token = device.token
         /\ refreshed(c).status = IF c.status = "online" THEN device.status ELSE "online"
<1>1. c.age \in Ages /\ c.hostname \in Hosts /\ c.renames \in BOOLEAN
  BY DEF Calls
<1>2. device.status \in {"online", "offline"} /\ device.hostname \in Hosts
  BY DEF Devices
<1>3. /\ refreshed(c) \in Devices
      /\ refreshed(c).token = device.token
      /\ refreshed(c).status = IF c.status = "online" THEN device.status ELSE "online"
  BY <1>1, <1>2 DEF refreshed, Devices
<1> QED
  BY <1>3, NoDeviceIsNoDevice

\* What a step may do when the row has been there: replace it by a row with the
\* same token, and move one request on.
LEMMA RowUpdated ==
  ASSUME IInv, device # NoDevice, NEW r \in Requests, NEW c \in Calls, NEW d \in Devices,
         d.token = device.token, d.status \in {"online", device.status},
         r \notin crossed => d.status = "online",
         device' = d, call' = [call EXCEPT ![r] = c],
         call[r].at \notin {"none", "begun"}, c.at \in {"none", "merge", "exit"},
         raced' = (r \in crossed),
         crossed' = IF c.at = "none" THEN crossed \ {r} ELSE crossed,
         answers' \subseteq answers \union {device.token},
         UNCHANGED <<watchdog, agent_token>>
  PROVE  IInv'
<1>1. device' # NoDevice /\ device.token \in Requests
  BY NoDeviceIsNoDevice DEF IInv, TypeOK, Devices
<1>2. \A u \in Requests : call'[u] = IF u = r THEN c ELSE call[u]
  BY DEF IInv, TypeOK
<1>3. TypeOK'
  BY <1>1 DEF IInv, TypeOK
<1>4. HasDevice' /\ HasStatus'
  BY <1>1, <1>2 DEF IInv, HasDevice, HasRead, HasStatus
<1>5. AgentIsLetIn'
  BY <1>1 DEF IInv, AgentIsLetIn
<1>6. Crossing'
  <2> SUFFICES ASSUME NEW u \in Requests
               PROVE  /\ watchdog /\ call'[u].at \notin {"none", "begun"} => u \in crossed'
                      /\ u \notin crossed' =>
                           /\ call'[u].at \in {"commit", "merge_commit"}
                                /\ call'[u].status = "online" => d.status = "online"
                           /\ call'[u].at = "exit" => d.status = "online"
    BY DEF Crossing
  <2>1. CASE u = r
    BY <1>2, <2>1 DEF IInv, Crossing
  <2>2. CASE u # r
    BY <1>2, <2>2 DEF IInv, Crossing
  <2> QED
    BY <2>1, <2>2
<1>7. SelectedIsSilent' /\ OfflineIsSilent'
  BY DEF IInv, Crossing, SelectedIsSilent, OfflineIsSilent
<1> QED
  BY <1>3, <1>4, <1>5, <1>6, <1>7 DEF IInv

\* A step of a request that leaves the row alone.
LEMMA CallMoved ==
  ASSUME IInv, NEW r \in Requests, NEW c \in Calls, call' = [call EXCEPT ![r] = c],
         UNCHANGED <<device, watchdog, answers, agent_token, raced>>,
         crossed' \subseteq Requests, \A u \in Requests \ {r} : u \in crossed => u \in crossed',
         watchdog /\ c.at \notin {"none", "begun"} => r \in crossed',
         c.at \in {"commit", "merge_commit"} /\ c.status = "online" => device.status = "online",
         c.at # "exit",
         HasRead(c) => device # NoDevice,
         c.op # "register" /\ c.at \in {"commit", "merge_commit"} => c.status # "none"
  PROVE  IInv'
<1>1. \A u \in Requests : call'[u] = IF u = r THEN c ELSE call[u]
  BY DEF IInv, TypeOK
<1>2. TypeOK'
  BY DEF IInv, TypeOK
<1>3. HasDevice' /\ HasStatus'
  BY <1>1 DEF IInv, HasDevice, HasRead, HasStatus
<1>4. Crossing'
  <2> SUFFICES ASSUME NEW u \in Requests
               PROVE  /\ watchdog /\ call'[u].at \notin {"none", "begun"} => u \in crossed'
                      /\ u \notin crossed' =>
                           /\ call'[u].at \in {"commit", "merge_commit"}
                                /\ call'[u].status = "online" => device.status = "online"
                           /\ call'[u].at = "exit" => device.status = "online"
    BY DEF Crossing
  <2>1. CASE u = r
    BY <1>1, <2>1
  <2>2. CASE u # r
    BY <1>1, <2>2 DEF IInv, Crossing
  <2> QED
    BY <2>1, <2>2
<1> QED
  BY <1>2, <1>3, <1>4 DEF IInv, AgentIsLetIn, SelectedIsSilent, OfflineIsSilent

------------------------------------------------------------------------------
LEMMA Registering ==
  ASSUME IInv, NEW r \in Requests, NEW h \in Hosts, register(r, h)
  PROVE  IInv'
<1> DEFINE c == [op |-> "register", at |-> "commit", age |-> 0, hostname |-> h,
                 status |-> IF device = NoDevice THEN "none" ELSE device.status,
                 renames |-> device # NoDevice /\ device.hostname # h]
<1>1. c \in Calls
  BY AgeType DEF IInv, TypeOK, Devices, Calls
<1>2. /\ c.status # "none" => device # NoDevice
      /\ c.status = "online" => device.status = "online"
  OBVIOUS
<1>3. call' = [call EXCEPT ![r] = c] /\ c.op = "register" /\ c.at = "commit"
      /\ UNCHANGED <<device, watchdog, answers, agent_token, raced>>
  BY DEF register
<1>4. /\ crossed' \subseteq Requests /\ crossed \subseteq crossed'
      /\ watchdog => r \in crossed'
  BY DEF register, Reads, IInv, TypeOK
<1> HIDE DEF c
<1> QED
  BY <1>1, <1>2, <1>3, <1>4, CallMoved DEF HasRead

LEMMA RegisterUpdates ==
  ASSUME IInv, NEW r \in Requests, register_update(r)
  PROVE  IInv'
<1> DEFINE d == refreshed(call[r])
<1>1. /\ device # NoDevice /\ device \in Devices /\ call[r] \in Calls
      /\ call[r].at = "commit"
  BY DEF IInv, TypeOK, HasDevice, HasRead, register_update, At
<1>2. device.status \in {"online", "offline"}
  BY <1>1 DEF Devices
<1>3. /\ d \in Devices /\ d.token = device.token /\ d.status \in {"online", device.status}
      /\ r \notin crossed => d.status = "online"
  BY <1>1, <1>2, RefreshedType DEF IInv, Crossing
<1>4. /\ device' = d /\ call' = [call EXCEPT ![r] = NoCall] /\ UNCHANGED <<watchdog, agent_token>>
      /\ answers' \subseteq answers \union {device.token}
      /\ crossed' = crossed \ {r} /\ raced' = (r \in crossed)
  BY DEF register_update, Ends, answered
<1> HIDE DEF d
<1> QED
  BY <1>1, <1>3, <1>4, NoCallType, RowUpdated

\* The first of two registrations that found no row makes it, and the second
\* fails; no other token has been answered.
LEMMA RegisterInserts ==
  ASSUME IInv, NEW r \in Requests, register_insert(r)
  PROVE  IInv'
<1>1. /\ call' = [call EXCEPT ![r] = NoCall] /\ crossed' = crossed \ {r}
      /\ UNCHANGED <<watchdog, agent_token>>
  BY DEF register_insert, Ends
<1>2. CASE device # NoDevice
  <2>1. UNCHANGED <<device, answers, raced>>
    BY <1>2 DEF register_insert
  <2>2. crossed' \subseteq Requests
    BY <1>1 DEF IInv, TypeOK
  <2> QED
    BY <1>1, <2>1, <2>2, NoCallType, CallMoved DEF HasRead
<1>3. CASE device = NoDevice
  <2>1. call[r] \in Calls
    BY DEF IInv, TypeOK
  <2>2. device' \in Devices /\ device'.token = r /\ answers' \subseteq answers \union {r}
        /\ device'.status = "online" /\ raced' = (r \in crossed)
    BY <1>3, <2>1 DEF register_insert, Devices, Calls, answered
  <2>3. answers = {} /\ ~watchdog
    BY <1>3 DEF IInv, AgentIsLetIn, HasStatus
  <2>4. \A u \in Requests : call'[u] = IF u = r THEN NoCall ELSE call[u]
    BY <1>1 DEF IInv, TypeOK
  <2>5. device' # NoDevice
    BY <2>2, NoDeviceIsNoDevice
  <2>6. TypeOK'
    BY <1>1, <2>2, <2>3, NoCallType DEF IInv, TypeOK
  <2>7. HasDevice' /\ HasStatus'
    BY <1>1, <2>4, <2>5, NoCallType DEF IInv, HasDevice, HasRead, HasStatus
  <2>8. AgentIsLetIn'
    BY <2>2, <2>3, <2>5 DEF AgentIsLetIn
  <2>9. Crossing' /\ SelectedIsSilent' /\ OfflineIsSilent'
    BY <1>1, <2>2, <2>3 DEF Crossing, SelectedIsSilent, OfflineIsSilent
  <2> QED
    BY <2>6, <2>7, <2>8, <2>9 DEF IInv
<1> QED
  BY <1>2, <1>3

LEMMA Requesting ==
  ASSUME IInv, NEW r \in Requests, NEW op \in {"heartbeat", "other"}, request(r, op)
  PROVE  IInv'
<1> DEFINE c == [call[r] EXCEPT !.op = op, !.at = "begun"]
<1>1. call[r] \in Calls /\ crossed \subseteq Requests
  BY DEF IInv, TypeOK
<1>2. c \in Calls /\ c.at = "begun"
  BY <1>1 DEF Calls
<1>3. call' = [call EXCEPT ![r] = c]
      /\ UNCHANGED <<device, watchdog, answers, agent_token, crossed, raced>>
  BY <1>1 DEF request, IInv, TypeOK, Calls
<1> HIDE DEF c
<1> QED
  BY <1>1, <1>2, <1>3, CallMoved DEF HasRead

LEMMA Verifying ==
  ASSUME IInv, NEW r \in Requests, verify_agent_token(r)
  PROVE  IInv'
<1>1. CASE device # NoDevice /\ device.token = agent_token
  <2> DEFINE c == [call[r] EXCEPT !.at = "commit", !.status = device.status,
                                  !.hostname = device.hostname, !.age = 0]
  <2>1. call[r] \in Calls /\ device \in Devices
    BY <1>1 DEF IInv, TypeOK
  <2>2. device.status \in {"online", "offline"} /\ device.hostname \in Hosts
    BY <2>1 DEF Devices
  <2>3. c \in Calls /\ c.at = "commit" /\ c.status # "none" /\ c.status = device.status
    BY <2>1, <2>2, AgeType DEF Calls
  <2>4. CASE /\ call' = [call EXCEPT ![r].at = "commit", ![r].status = device.status,
                                     ![r].hostname = device.hostname, ![r].age = 0]
             /\ Reads(r)
    <3>1. call' = [call EXCEPT ![r] = c]
      BY <2>1, <2>4 DEF IInv, TypeOK, Calls
    <3>2. /\ crossed' \subseteq Requests /\ crossed \subseteq crossed'
          /\ watchdog => r \in crossed'
      BY <2>4 DEF Reads, IInv, TypeOK
    <3>3. UNCHANGED <<device, watchdog, answers, agent_token, raced>>
      BY DEF verify_agent_token
    <3> HIDE DEF c
    <3> QED
      BY <1>1, <2>3, <3>1, <3>2, <3>3, CallMoved
  <2> QED
    BY <1>1, <2>4 DEF verify_agent_token
<1>2. CASE ~(device # NoDevice /\ device.token = agent_token)
  <2>1. /\ call' = [call EXCEPT ![r] = NoCall] /\ crossed' = crossed \ {r}
        /\ UNCHANGED <<device, watchdog, answers, agent_token, raced>>
        /\ crossed' \subseteq Requests
    BY <1>2 DEF verify_agent_token, Ends, IInv, TypeOK
  <2> QED
    BY <2>1, NoCallType, CallMoved DEF HasRead
<1> QED
  BY <1>1, <1>2

LEMMA VerifyCommits ==
  ASSUME IInv, NEW r \in Requests, verify_commit(r)
  PROVE  IInv'
<1> DEFINE d == refreshed(call[r])
<1>1. /\ device # NoDevice /\ device \in Devices /\ call[r] \in Calls
      /\ call[r].at = "commit"
  BY DEF IInv, TypeOK, HasDevice, HasRead, verify_commit
<1>2. device.status \in {"online", "offline"}
  BY <1>1 DEF Devices
<1>3. /\ d \in Devices /\ d.token = device.token /\ d.status \in {"online", device.status}
      /\ r \notin crossed => d.status = "online"
  BY <1>1, <1>2, RefreshedType DEF IInv, Crossing
<1>4. device' = d /\ raced' = (r \in crossed) /\ UNCHANGED <<watchdog, answers, agent_token>>
  BY DEF verify_commit
<1>5. PICK c \in Calls : /\ call' = [call EXCEPT ![r] = c] /\ c.at \in {"none", "merge"}
                         /\ crossed' = IF c.at = "none" THEN crossed \ {r} ELSE crossed
  <2>1. CASE call[r].op = "heartbeat"
    <3> DEFINE c == [call[r] EXCEPT !.at = "merge", !.age = 0]
    <3>1. c \in Calls /\ c.at = "merge"
      BY <1>1, AgeType DEF Calls
    <3>2. call' = [call EXCEPT ![r] = c] /\ crossed' = crossed
      BY <1>1, <2>1 DEF verify_commit, IInv, TypeOK, Calls
    <3> HIDE DEF c
    <3> QED
      BY <3>1, <3>2
  <2>2. CASE call[r].op # "heartbeat"
    BY <2>2, NoCallType DEF verify_commit, Ends
  <2> QED
    BY <2>1, <2>2
<1> HIDE DEF d
<1> QED
  BY <1>1, <1>3, <1>4, <1>5, RowUpdated

LEMMA Merging ==
  ASSUME IInv, NEW r \in Requests,
         heartbeat_merge(r) \/ heartbeat_commit(r) \/ heartbeat_exit(r)
  PROVE  IInv'
<1>1. /\ device # NoDevice /\ device \in Devices /\ call[r] \in Calls
      /\ call[r].at \in {"merge", "merge_commit", "exit"}
      /\ UNCHANGED <<watchdog, answers, agent_token>>
  BY DEF IInv, TypeOK, HasDevice, HasRead, heartbeat_merge, heartbeat_commit,
         heartbeat_exit, At
<1>2. device.status \in {"online", "offline"} /\ call[r].age \in Ages
  BY <1>1 DEF Devices, Calls
<1>3. CASE heartbeat_merge(r)
  <2> DEFINE c == [call[r] EXCEPT !.at = "merge_commit", !.status = device.status,
                                  !.renames = (device.hostname # call[r].hostname)]
  <2>1. c \in Calls /\ c.at = "merge_commit" /\ c.status # "none" /\ c.status = device.status
    BY <1>1, <1>2 DEF Calls
  <2>2. call' = [call EXCEPT ![r] = c] /\ UNCHANGED <<device, crossed, raced>>
    BY <1>1, <1>3 DEF heartbeat_merge, IInv, TypeOK, Calls
  <2>3. crossed \subseteq Requests /\ (watchdog => r \in crossed)
    BY <1>1 DEF IInv, TypeOK, Crossing
  <2> HIDE DEF c
  <2> QED
    BY <1>1, <2>1, <2>2, <2>3, CallMoved
<1>4. CASE heartbeat_commit(r)
  <2> DEFINE d == refreshed(call[r])
             c == [call[r] EXCEPT !.at = "exit"]
  <2>1. call[r].at = "merge_commit"
    BY <1>4 DEF heartbeat_commit, At
  <2>2. /\ d \in Devices /\ d.token = device.token /\ d.status \in {"online", device.status}
        /\ r \notin crossed => d.status = "online"
    BY <1>1, <1>2, <2>1, RefreshedType DEF IInv, Crossing
  <2>3. c \in Calls /\ c.at = "exit"
    BY <1>1 DEF Calls
  <2>4. /\ call' = [call EXCEPT ![r] = c] /\ device' = d
        /\ crossed' = crossed /\ raced' = (r \in crossed)
    BY <1>1, <1>4 DEF heartbeat_commit, Goes, Calls, IInv, TypeOK
  <2> HIDE DEF c, d
  <2> QED
    BY <1>1, <2>2, <2>3, <2>4, RowUpdated
<1>5. CASE heartbeat_exit(r)
  <2> DEFINE d == [device EXCEPT !.age = call[r].age]
  <2>1. d \in Devices /\ d.token = device.token /\ d.status = device.status
    BY <1>1, <1>2 DEF Devices
  <2>2. /\ device' = d /\ call' = [call EXCEPT ![r] = NoCall] /\ call[r].at = "exit"
        /\ crossed' = crossed \ {r} /\ raced' = (r \in crossed)
    BY <1>5 DEF heartbeat_exit, Ends, At
  <2>3. r \notin crossed => d.status = "online"
    BY <2>1, <2>2 DEF IInv, Crossing
  <2> HIDE DEF d
  <2> QED
    BY <1>1, <2>1, <2>2, <2>3, NoCallType, RowUpdated
<1> QED
  BY <1>3, <1>4, <1>5

LEMMA WatchdogSteps ==
  ASSUME IInv, check_agent_heartbeats \/ check_agent_heartbeats_commit
  PROVE  IInv'
<1>1. CASE check_agent_heartbeats
  <2>1. /\ UNCHANGED <<device, call, answers, agent_token, raced>>
        /\ watchdog' = TRUE /\ crossed' = UnderWay /\ ~watchdog
        /\ device # NoDevice /\ device.status = "online" /\ device.age = Stale
    BY <1>1 DEF check_agent_heartbeats
  <2>2. TypeOK'
    BY <2>1 DEF IInv, TypeOK, UnderWay
  <2>3. HasDevice' /\ HasStatus' /\ AgentIsLetIn'
    BY <2>1 DEF IInv, HasDevice, HasRead, HasStatus, AgentIsLetIn
  <2>4. Crossing' /\ SelectedIsSilent' /\ OfflineIsSilent'
    BY <2>1 DEF Crossing, SelectedIsSilent, OfflineIsSilent, UnderWay
  <2> QED
    BY <2>2, <2>3, <2>4 DEF IInv
<1>2. CASE check_agent_heartbeats_commit
  <2>1. /\ watchdog /\ watchdog' = FALSE
        /\ device' = [device EXCEPT !.status = "offline"]
        /\ UNCHANGED <<call, answers, agent_token, crossed, raced>>
    BY <1>2 DEF check_agent_heartbeats_commit
  <2>2. device # NoDevice /\ device \in Devices
    BY <2>1 DEF IInv, TypeOK, HasStatus
  <2>3. /\ device' \in Devices /\ device'.token = device.token /\ device'.age = device.age
    BY <2>1, <2>2 DEF Devices
  <2>4. device' # NoDevice
    BY <2>3, NoDeviceIsNoDevice
  <2>5. TypeOK'
    BY <2>1, <2>3 DEF IInv, TypeOK
  <2>6. HasDevice' /\ HasStatus' /\ AgentIsLetIn'
    BY <2>1, <2>2, <2>3, <2>4 DEF IInv, HasDevice, HasRead, HasStatus, AgentIsLetIn
  <2>7. Crossing'
    BY <2>1 DEF IInv, Crossing
  <2>8. SelectedIsSilent' /\ OfflineIsSilent'
    BY <2>1, <2>3 DEF IInv, SelectedIsSilent, OfflineIsSilent
  <2> QED
    BY <2>5, <2>6, <2>7, <2>8 DEF IInv
<1> QED
  BY <1>1, <1>2

LEMMA TimePasses ==
  ASSUME IInv, Tick
  PROVE  IInv'
<1>1. \A r \in Requests : /\ call'[r] \in Calls
                          /\ call'[r].op = call[r].op /\ call'[r].at = call[r].at
                          /\ call'[r].status = call[r].status
  <2> SUFFICES ASSUME NEW r \in Requests
               PROVE  /\ call'[r] \in Calls
                      /\ call'[r].op = call[r].op /\ call'[r].at = call[r].at
                      /\ call'[r].status = call[r].status
    OBVIOUS
  <2>1. call[r] \in Calls /\ Older(call[r].age) \in Ages
    BY AgeType DEF IInv, TypeOK, Calls
  <2> QED
    BY <2>1 DEF Tick, Calls
<1>2. UNCHANGED <<watchdog, answers, agent_token, crossed, raced>>
  BY DEF Tick
<1>3. CASE device = NoDevice
  <2>1. device' = NoDevice
    BY <1>3 DEF Tick
  <2>2. TypeOK'
    BY <1>1, <1>2, <2>1 DEF Tick, IInv, TypeOK
  <2>3. HasDevice' /\ HasStatus' /\ AgentIsLetIn'
    BY <1>1, <1>2, <1>3, <2>1 DEF IInv, HasDevice, HasRead, HasStatus, AgentIsLetIn
  <2>4. Crossing' /\ SelectedIsSilent' /\ OfflineIsSilent'
    BY <1>1, <1>2, <1>3, <2>1 DEF IInv, Crossing, SelectedIsSilent, OfflineIsSilent
  <2> QED
    BY <2>2, <2>3, <2>4 DEF IInv
<1>4. CASE device # NoDevice
  <2>1. device \in Devices /\ Older(device.age) \in Ages
    BY <1>4, AgeType DEF IInv, TypeOK, Devices
  <2>2. /\ device' \in Devices /\ device'.token = device.token
        /\ device'.status = device.status /\ device'.age = Older(device.age)
    BY <1>4, <2>1 DEF Tick, Devices
  <2>3. device' # NoDevice
    BY <2>2, NoDeviceIsNoDevice
  <2>4. TypeOK'
    BY <1>1, <1>2, <2>2 DEF Tick, IInv, TypeOK
  <2>5. HasDevice' /\ HasStatus' /\ AgentIsLetIn'
    BY <1>1, <1>2, <1>4, <2>2, <2>3 DEF IInv, HasDevice, HasRead, HasStatus, AgentIsLetIn
  <2>6. Crossing'
    BY <1>1, <1>2, <2>2 DEF IInv, Crossing
  <2>7. SelectedIsSilent' /\ OfflineIsSilent'
    BY <1>2, <1>4, <2>2 DEF IInv, SelectedIsSilent, OfflineIsSilent, Older
  <2> QED
    BY <2>4, <2>5, <2>6, <2>7 DEF IInv
<1> QED
  BY <1>3, <1>4

------------------------------------------------------------------------------
LEMMA InitInvariant == Init => IInv
<1> SUFFICES ASSUME Init PROVE IInv
  OBVIOUS
<1>1. \A r \in Requests : call[r] = NoCall
  BY DEF Init
<1>2. TypeOK
  BY NoCallType DEF Init, TypeOK
<1> QED
  BY <1>1, <1>2, NoCallType
     DEF Init, IInv, HasDevice, HasRead, HasStatus, AgentIsLetIn, Crossing, SelectedIsSilent,
         OfflineIsSilent

LEMMA StepInvariant == IInv /\ [Next]_vars => IInv'
<1> SUFFICES ASSUME IInv, [Next]_vars PROVE IInv'
  OBVIOUS
<1>1. ASSUME NEW r \in Requests, NEW h \in Hosts, register(r, h) PROVE IInv'
  BY <1>1, Registering
<1>2. ASSUME NEW r \in Requests, NEW op \in {"heartbeat", "other"}, request(r, op) PROVE IInv'
  BY <1>2, Requesting
<1>3. ASSUME NEW r \in Requests, Served(r) PROVE IInv'
  BY <1>3, RegisterUpdates, RegisterInserts, Verifying, VerifyCommits, Merging DEF Served
<1>4. ASSUME NEW token \in answers, configure_token(token) PROVE IInv'
  <2>1. TypeOK'
    BY <1>4 DEF configure_token, IInv, TypeOK
  <2> QED
    BY <1>4, <2>1
       DEF configure_token, IInv, HasDevice, HasRead, HasStatus, AgentIsLetIn, Crossing,
           SelectedIsSilent, OfflineIsSilent
<1>5. CASE UNCHANGED vars
  BY <1>5 DEF vars, IInv, TypeOK, HasDevice, HasRead, HasStatus, AgentIsLetIn, Crossing,
              SelectedIsSilent, OfflineIsSilent
<1> QED
  BY <1>1, <1>2, <1>3, <1>4, <1>5, WatchdogSteps, TimePasses DEF Next

\* The inductive invariant holds in every behaviour.
THEOREM Invariant == Spec => []IInv
BY InitInvariant, StepInvariant, PTL DEF Spec

\* Row, requests, tokens and ages keep their types, and no request updates a
\* row that is not there.
THEOREM TypeCorrect == Spec => []TypeOK
BY Invariant, PTL DEF IInv

\* However many registrations of a new TV overlap, every token that was answered
\* is the row's, and it stays the row's through all later requests.
THEOREM LetIn == Spec => []AgentIsLetIn
BY Invariant, PTL DEF IInv

\* The watchdog decides before it commits, and requests write what differs from
\* what they read; still a device that is offline was silent, or was heard last
\* by a request that a run of the watchdog overlapped.
THEOREM OfflineSilent == Spec => []OfflineIsSilent
BY Invariant, PTL DEF IInv
==============================================================================
