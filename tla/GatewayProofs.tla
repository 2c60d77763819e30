---------------------------- MODULE GatewayProofs ----------------------------
(* Theorems about Gateway, for every bound on faults and on the queues.    *)
EXTENDS Gateway, TLAPS

USE DEF flagVars, resumeVars, netVars, hbVars, ingestVars, uiVars, srvVars

\* A queued signal or payload keeps the type of the UI thread's queue.
LEMMA PostType ==
  ASSUME DataTypeOK, NEW e \in Payload \cup Signal, Post(e)
  PROVE  uiQueue' \in Seq(Payload \cup Signal)
BY DEF DataTypeOK, Post

\* A pushed payload keeps the type of the ingest queue.
LEMMA PushType ==
  ASSUME DataTypeOK, NEW p \in Payload, Push(p)
  PROVE  ingestQ' \in Seq(Payload)
<1>1. ingestQ \in Seq(Payload)
  BY DEF DataTypeOK
<1> QED
  BY <1>1 DEF Push

\* The flags stay Boolean.
LEMMA FlagsStep == FlagsTypeOK /\ [Next]_vars => FlagsTypeOK'
<1> SUFFICES ASSUME FlagsTypeOK, [Next]_vars PROVE FlagsTypeOK'
  OBVIOUS
<1>1. CASE Start
  BY <1>1, ZenonT(60) DEF FlagsTypeOK, Start
<1>2. CASE Stop
  BY <1>2, ZenonT(60) DEF FlagsTypeOK, Stop
<1>3. CASE Destroy
  BY <1>3, ZenonT(60) DEF FlagsTypeOK, Destroy
<1>4. CASE UISend
  BY <1>4, ZenonT(60) DEF FlagsTypeOK, UISend
<1>5. CASE HardStopJoinNetwork
  BY <1>5, ZenonT(60) DEF FlagsTypeOK, HardStopJoinNetwork
<1>6. CASE HardStopJoinHeartbeat
  BY <1>6, ZenonT(60) DEF FlagsTypeOK, HardStopJoinHeartbeat
<1>7. CASE UISendRecheck
  BY <1>7, ZenonT(60) DEF FlagsTypeOK, UISendRecheck
<1>8. CASE ChooseHandshake
  BY <1>8, ZenonT(60) DEF FlagsTypeOK, ChooseHandshake
<1>9. CASE SendHandshake
  BY <1>9, ZenonT(60) DEF FlagsTypeOK, SendHandshake
<1>10. CASE ClearResuming
  BY <1>10, ZenonT(60) DEF FlagsTypeOK, ClearResuming
<1>11. CASE SpawnHeartbeat
  BY <1>11, ZenonT(60) DEF FlagsTypeOK, SpawnHeartbeat
<1>12. CASE DropPayload
  BY <1>12, ZenonT(60) DEF FlagsTypeOK, DropPayload
<1>13. CASE HandleHello
  BY <1>13, ZenonT(60) DEF FlagsTypeOK, HandleHello, Accepting
<1>14. CASE HandleReady
  BY <1>14, ZenonT(60) DEF FlagsTypeOK, HandleReady, Accepting
<1>15. CASE HandleResumed
  BY <1>15, ZenonT(60) DEF FlagsTypeOK, HandleResumed, Accepting
<1>16. CASE HandleOpcode
  BY <1>16, ZenonT(60) DEF FlagsTypeOK, HandleOpcode, Accepting
<1>17. CASE HandleDecompError
  BY <1>17, ZenonT(60) DEF FlagsTypeOK, HandleDecompError
<1>18. CASE HandleReconnecting
  BY <1>18, ZenonT(60) DEF FlagsTypeOK, HandleReconnecting
<1>19. CASE HandleDisconnected
  BY <1>19, ZenonT(60) DEF FlagsTypeOK, HandleDisconnected
<1>20. CASE NetTop
  BY <1>20, ZenonT(60) DEF FlagsTypeOK, NetTop
<1>21. CASE NetConnected
  BY <1>21, ZenonT(60) DEF FlagsTypeOK, NetConnected
<1>22. CASE NetRetryWait
  BY <1>22, ZenonT(60) DEF FlagsTypeOK, NetRetryWait, Accepting
<1>23. CASE NetLeaveRecv
  BY <1>23, ZenonT(60) DEF FlagsTypeOK, NetLeaveRecv
<1>24. CASE NetSendClose
  BY <1>24, ZenonT(60) DEF FlagsTypeOK, NetSendClose, Receiving
<1>25. CASE NetClearSession
  BY <1>25, ZenonT(60) DEF FlagsTypeOK, NetClearSession, MayReconnect
<1>26. CASE NetCleanup
  BY <1>26, ZenonT(60) DEF FlagsTypeOK, NetCleanup
<1>27. CASE NetCheck
  BY <1>27, ZenonT(60) DEF FlagsTypeOK, NetCheck
<1>28. CASE NetLockHeartbeat
  BY <1>28, ZenonT(60) DEF FlagsTypeOK, NetLockHeartbeat
<1>29. CASE NetJoinHeartbeat
  BY <1>29, ZenonT(60) DEF FlagsTypeOK, NetJoinHeartbeat
<1>30. CASE NetReset
  BY <1>30, ZenonT(60) DEF FlagsTypeOK, NetReset
<1>31. CASE NetBackoff
  BY <1>31, ZenonT(60) DEF FlagsTypeOK, NetBackoff, Accepting
<1>32. CASE NetWhile
  BY <1>32, ZenonT(60) DEF FlagsTypeOK, NetWhile
<1>33. CASE NetData
  BY <1>33, ZenonT(60) DEF FlagsTypeOK, NetData, Receiving
<1>34. CASE \E code \in CloseCode : NetCloseFrame(code)
  BY <1>34, ZenonT(60) DEF FlagsTypeOK, NetCloseFrame, Receiving, MayReconnect
<1>35. CASE NetCloseTimeout
  BY <1>35, ZenonT(60) DEF FlagsTypeOK, NetCloseTimeout, Receiving
<1>36. CASE NetInitFails
  BY <1>36, ZenonT(60) DEF FlagsTypeOK, NetInitFails
<1>37. CASE NetConnectFails
  BY <1>37, ZenonT(60) DEF FlagsTypeOK, NetConnectFails
<1>38. CASE NetDeadSocket
  BY <1>38, ZenonT(60) DEF FlagsTypeOK, NetDeadSocket, Receiving, MayReconnect
<1>39. CASE SrvFallsSilent
  BY <1>39, ZenonT(60) DEF FlagsTypeOK, SrvFallsSilent
<1>40. CASE HbBeat
  BY <1>40, ZenonT(60) DEF FlagsTypeOK, HbBeat
<1>41. CASE HbSend
  BY <1>41, ZenonT(60) DEF FlagsTypeOK, HbSend
<1>42. CASE HbRecheck
  BY <1>42, ZenonT(60) DEF FlagsTypeOK, HbRecheck
<1>43. CASE HbWait
  BY <1>43, ZenonT(60) DEF FlagsTypeOK, HbWait
<1>44. CASE Ingest
  BY <1>44, ZenonT(60) DEF FlagsTypeOK, Ingest
<1>45. CASE Destroyed
  BY <1>45, ZenonT(60) DEF FlagsTypeOK, Destroyed, vars
<1>46. CASE UNCHANGED vars
  BY <1>46, ZenonT(60) DEF FlagsTypeOK, vars
<1> QED
  BY <1>1, <1>2, <1>3, <1>4, <1>5, <1>6, <1>7, <1>8, <1>9, <1>10, <1>11, <1>12, <1>13, <1>14, <1>15, <1>16, <1>17, <1>18, <1>19, <1>20, <1>21, <1>22, <1>23, <1>24, <1>25, <1>26, <1>27, <1>28, <1>29, <1>30, <1>31, <1>32, <1>33, <1>34, <1>35, <1>36, <1>37, <1>38, <1>39, <1>40, <1>41, <1>42, <1>43, <1>44, <1>45, <1>46
     DEF Next, User, HardStop, UIStep, UIEvent, NetStep, NetFrame, NetFault, HbStep

\* Every thread stays at a place of its code.
LEMMA ControlStep == ControlTypeOK /\ [Next]_vars => ControlTypeOK'
<1> SUFFICES ASSUME ControlTypeOK, [Next]_vars PROVE ControlTypeOK'
  OBVIOUS
<1>1. CASE Start
  BY <1>1 DEF ControlTypeOK, Start
<1>2. CASE Stop
  BY <1>2 DEF ControlTypeOK, Stop
<1>3. CASE Destroy
  BY <1>3 DEF ControlTypeOK, Destroy
<1>4. CASE UISend
  BY <1>4 DEF ControlTypeOK, UISend, SendFails
<1>5. CASE HardStopJoinNetwork
  BY <1>5 DEF ControlTypeOK, HardStopJoinNetwork
<1>6. CASE HardStopJoinHeartbeat
  BY <1>6 DEF ControlTypeOK, HardStopJoinHeartbeat
<1>7. CASE UISendRecheck
  BY <1>7 DEF ControlTypeOK, UISendRecheck
<1>8. CASE ChooseHandshake
  BY <1>8 DEF ControlTypeOK, ChooseHandshake
<1>9. CASE SendHandshake
  BY <1>9 DEF ControlTypeOK, SendHandshake, SendFails, SrvOnHandshake
<1>10. CASE ClearResuming
  BY <1>10 DEF ControlTypeOK, ClearResuming
<1>11. CASE SpawnHeartbeat
  BY <1>11 DEF ControlTypeOK, SpawnHeartbeat
<1>12. CASE DropPayload
  BY <1>12 DEF ControlTypeOK, DropPayload
<1>13. CASE HandleHello
  BY <1>13 DEF ControlTypeOK, HandleHello
<1>14. CASE HandleReady
  BY <1>14 DEF ControlTypeOK, HandleReady, RepeatPresence, SendFails
<1>15. CASE HandleResumed
  BY <1>15 DEF ControlTypeOK, HandleResumed, RepeatPresence, SendFails
<1>16. CASE HandleOpcode
  BY <1>16 DEF ControlTypeOK, HandleOpcode
<1>17. CASE HandleDecompError
  BY <1>17 DEF ControlTypeOK, HandleDecompError
<1>18. CASE HandleReconnecting
  BY <1>18 DEF ControlTypeOK, HandleReconnecting
<1>19. CASE HandleDisconnected
  BY <1>19 DEF ControlTypeOK, HandleDisconnected
<1>20. CASE NetTop
  BY <1>20 DEF ControlTypeOK, NetTop
<1>21. CASE NetConnected
  BY <1>21 DEF ControlTypeOK, NetConnected
<1>22. CASE NetRetryWait
  BY <1>22 DEF ControlTypeOK, NetRetryWait
<1>23. CASE NetLeaveRecv
  BY <1>23 DEF ControlTypeOK, NetLeaveRecv
<1>24. CASE NetSendClose
  BY <1>24 DEF ControlTypeOK, NetSendClose
<1>25. CASE NetClearSession
  BY <1>25 DEF ControlTypeOK, NetClearSession
<1>26. CASE NetCleanup
  BY <1>26 DEF ControlTypeOK, NetCleanup
<1>27. CASE NetCheck
  BY <1>27 DEF ControlTypeOK, NetCheck
<1>28. CASE NetLockHeartbeat
  BY <1>28 DEF ControlTypeOK, NetLockHeartbeat
<1>29. CASE NetJoinHeartbeat
  BY <1>29 DEF ControlTypeOK, NetJoinHeartbeat
<1>30. CASE NetReset
  BY <1>30 DEF ControlTypeOK, NetReset
<1>31. CASE NetBackoff
  BY <1>31 DEF ControlTypeOK, NetBackoff
<1>32. CASE NetWhile
  BY <1>32 DEF ControlTypeOK, NetWhile
<1>33. CASE NetData
  BY <1>33 DEF ControlTypeOK, NetData, Receiving
<1>34. CASE \E code \in CloseCode : NetCloseFrame(code)
  BY <1>34 DEF ControlTypeOK, NetCloseFrame
<1>35. CASE NetCloseTimeout
  BY <1>35 DEF ControlTypeOK, NetCloseTimeout
<1>36. CASE NetInitFails
  BY <1>36 DEF ControlTypeOK, NetInitFails
<1>37. CASE NetConnectFails
  BY <1>37 DEF ControlTypeOK, NetConnectFails
<1>38. CASE NetDeadSocket
  BY <1>38 DEF ControlTypeOK, NetDeadSocket
<1>39. CASE SrvFallsSilent
  BY <1>39 DEF ControlTypeOK, SrvFallsSilent
<1>40. CASE HbBeat
  BY <1>40 DEF ControlTypeOK, HbBeat
<1>41. CASE HbSend
  BY <1>41 DEF ControlTypeOK, HbSend
<1>42. CASE HbRecheck
  BY <1>42 DEF ControlTypeOK, HbRecheck
<1>43. CASE HbWait
  BY <1>43 DEF ControlTypeOK, HbWait
<1>44. CASE Ingest
  BY <1>44 DEF ControlTypeOK, Ingest
<1>45. CASE Destroyed
  BY <1>45 DEF ControlTypeOK, Destroyed, vars
<1>46. CASE UNCHANGED vars
  BY <1>46 DEF ControlTypeOK, vars
<1> QED
  BY <1>1, <1>2, <1>3, <1>4, <1>5, <1>6, <1>7, <1>8, <1>9, <1>10, <1>11, <1>12, <1>13, <1>14, <1>15, <1>16, <1>17, <1>18, <1>19, <1>20, <1>21, <1>22, <1>23, <1>24, <1>25, <1>26, <1>27, <1>28, <1>29, <1>30, <1>31, <1>32, <1>33, <1>34, <1>35, <1>36, <1>37, <1>38, <1>39, <1>40, <1>41, <1>42, <1>43, <1>44, <1>45, <1>46
     DEF Next, User, HardStop, UIStep, UIEvent, NetStep, NetFrame, NetFault, HbStep

\* The queues, the count of missed ACKs and the count of faults keep their types.
LEMMA DataStep == DataTypeOK /\ [Next]_vars => DataTypeOK'
<1> SUFFICES ASSUME DataTypeOK, [Next]_vars PROVE DataTypeOK'
  OBVIOUS
<1> USE BoundsAssumption
<1>1. CASE Start
  BY <1>1 DEF DataTypeOK, Start
<1>2. CASE Stop
  BY <1>2 DEF DataTypeOK, Stop
<1>3. CASE Destroy
  BY <1>3 DEF DataTypeOK, Destroy
<1>4. CASE UISend
  BY <1>4 DEF DataTypeOK, UISend, SendFails, Fault
<1>5. CASE HardStopJoinNetwork
  BY <1>5 DEF DataTypeOK, HardStopJoinNetwork
<1>6. CASE HardStopJoinHeartbeat
  BY <1>6 DEF DataTypeOK, HardStopJoinHeartbeat
<1>7. CASE UISendRecheck
  BY <1>7 DEF DataTypeOK, UISendRecheck
<1>8. CASE ChooseHandshake
  BY <1>8 DEF DataTypeOK, ChooseHandshake
<1>9. CASE SendHandshake
  BY <1>9 DEF DataTypeOK, SendHandshake, SendFails, SrvOnHandshake, Fault
<1>10. CASE ClearResuming
  BY <1>10 DEF DataTypeOK, ClearResuming
<1>11. CASE SpawnHeartbeat
  BY <1>11 DEF DataTypeOK, SpawnHeartbeat
<1>12. CASE DropPayload
  BY <1>12 DEF DataTypeOK, DropPayload, Take, Payload
<1>13. CASE HandleHello
  BY <1>13 DEF DataTypeOK, HandleHello, Take
<1>14. CASE HandleReady
  BY <1>14 DEF DataTypeOK, HandleReady, Take, RepeatPresence, SendFails, Fault
<1>15. CASE HandleResumed
  BY <1>15 DEF DataTypeOK, HandleResumed, Take, RepeatPresence, SendFails, Fault
<1>16. CASE HandleOpcode
  BY <1>16 DEF DataTypeOK, HandleOpcode, Take
<1>17. CASE HandleDecompError
  BY <1>17 DEF DataTypeOK, HandleDecompError, Take
<1>18. CASE HandleReconnecting
  BY <1>18 DEF DataTypeOK, HandleReconnecting, Take
<1>19. CASE HandleDisconnected
  BY <1>19 DEF DataTypeOK, HandleDisconnected, Take
<1>20. CASE NetTop
  BY <1>20 DEF DataTypeOK, NetTop
<1>21. CASE NetConnected
  BY <1>21 DEF DataTypeOK, NetConnected, Race
<1>22. CASE NetRetryWait
  BY <1>22 DEF DataTypeOK, NetRetryWait
<1>23. CASE NetLeaveRecv
  BY <1>23 DEF DataTypeOK, NetLeaveRecv
<1>24. CASE NetSendClose
  BY <1>24 DEF DataTypeOK, NetSendClose
<1>25. CASE NetClearSession
  BY <1>25 DEF DataTypeOK, NetClearSession
<1>26. CASE NetCleanup
  BY <1>26 DEF DataTypeOK, NetCleanup
<1>27. CASE NetCheck
  BY <1>27 DEF DataTypeOK, NetCheck
<1>28. CASE NetLockHeartbeat
  BY <1>28 DEF DataTypeOK, NetLockHeartbeat
<1>29. CASE NetJoinHeartbeat
  BY <1>29 DEF DataTypeOK, NetJoinHeartbeat
<1>30. CASE NetReset
  BY <1>30 DEF DataTypeOK, NetReset, Post, Signal, Payload
<1>31. CASE NetBackoff
  BY <1>31 DEF DataTypeOK, NetBackoff
<1>32. CASE NetWhile
  BY <1>32 DEF DataTypeOK, NetWhile
<1>33. CASE NetData
  <2>1. \E p \in Payload : Push(p)
    BY <1>33 DEF NetData, Payload
  <2>2. ingestQ' \in Seq(Payload)
    BY <2>1, PushType
  <2>3. faults' \in 0..MaxFaults /\ UNCHANGED <<missed, uiQueue, races>>
    BY <1>33 DEF DataTypeOK, NetData, Fault
  <2> QED
    BY <2>2, <2>3 DEF DataTypeOK
<1>34. CASE \E code \in CloseCode : NetCloseFrame(code)
  <2>1. PICK code \in CloseCode : NetCloseFrame(code)
    BY <1>34
  <2>2. \E e \in Payload \cup Signal : Post(e)
    BY <2>1 DEF NetCloseFrame, Signal
  <2>3. uiQueue' \in Seq(Payload \cup Signal)
    BY <2>2, PostType
  <2>4. faults' \in 0..MaxFaults /\ UNCHANGED <<missed, ingestQ, races>>
    BY <2>1 DEF DataTypeOK, NetCloseFrame, Fault
  <2> QED
    BY <2>3, <2>4 DEF DataTypeOK
<1>35. CASE NetCloseTimeout
  BY <1>35 DEF DataTypeOK, NetCloseTimeout, Post, Signal, Payload
<1>36. CASE NetInitFails
  BY <1>36 DEF DataTypeOK, NetInitFails, Fault, Post, Signal, Payload
<1>37. CASE NetConnectFails
  BY <1>37 DEF DataTypeOK, NetConnectFails, Fault, Post, Signal, Payload
<1>38. CASE NetDeadSocket
  BY <1>38 DEF DataTypeOK, NetDeadSocket, Fault, Post, Signal, Payload
<1>39. CASE SrvFallsSilent
  BY <1>39 DEF DataTypeOK, SrvFallsSilent, Fault
<1>40. CASE HbBeat
  BY <1>40 DEF DataTypeOK, HbBeat, OneMoreMissed, ZombieLimit
<1>41. CASE HbSend
  BY <1>41 DEF DataTypeOK, HbSend, Fault
<1>42. CASE HbRecheck
  BY <1>42 DEF DataTypeOK, HbRecheck
<1>43. CASE HbWait
  BY <1>43 DEF DataTypeOK, HbWait, Fault
<1>44. CASE Ingest
  <2>1. Head(ingestQ) \in Payload /\ ingestQ' \in Seq(Payload)
    BY <1>44 DEF DataTypeOK, Ingest
  <2>2. Post(Head(ingestQ)) \/ Post("decompError")
    BY <1>44, Zenon DEF Ingest
  <2>3. uiQueue' \in Seq(Payload \cup Signal)
    BY <2>1, <2>2, PostType DEF Signal
  <2>4. UNCHANGED <<missed, races>>
    BY <1>44 DEF Ingest
  <2>5. faults' \in 0..MaxFaults
    BY <1>44 DEF DataTypeOK, Ingest, Fault
  <2> QED
    BY <2>1, <2>3, <2>4, <2>5 DEF DataTypeOK
<1>45. CASE Destroyed
  BY <1>45 DEF DataTypeOK, Destroyed, vars
<1>46. CASE UNCHANGED vars
  BY <1>46 DEF DataTypeOK, vars
<1> QED
  BY <1>1, <1>2, <1>3, <1>4, <1>5, <1>6, <1>7, <1>8, <1>9, <1>10, <1>11, <1>12, <1>13, <1>14, <1>15, <1>16, <1>17, <1>18, <1>19, <1>20, <1>21, <1>22, <1>23, <1>24, <1>25, <1>26, <1>27, <1>28, <1>29, <1>30, <1>31, <1>32, <1>33, <1>34, <1>35, <1>36, <1>37, <1>38, <1>39, <1>40, <1>41, <1>42, <1>43, <1>44, <1>45, <1>46
     DEF Next, User, HardStop, UIStep, UIEvent, NetStep, NetFrame, NetFault, HbStep

\* Every variable of the gateway keeps its type, whatever thread moves.
THEOREM TypeCorrect == Spec => []TypeOK
<1>1. Init => TypeOK
  <2> SUFFICES ASSUME Init PROVE TypeOK
    OBVIOUS
  <2>1. FlagsTypeOK
    BY Zenon DEF Init, FlagsTypeOK
  <2>2. ControlTypeOK
    BY DEF Init, ControlTypeOK
  <2>3. DataTypeOK
    BY BoundsAssumption DEF Init, DataTypeOK
  <2> QED
    BY <2>1, <2>2, <2>3 DEF TypeOK
<1>2. TypeOK /\ [Next]_vars => TypeOK'
  BY FlagsStep, ControlStep, DataStep DEF TypeOK
<1> QED
  BY <1>1, <1>2, PTL DEF Spec

\* Only the calls and handlers named here touch what NeverConnectedAfterStop is about.
LEMMA OnlyHandlersReport ==
  [Next]_vars => \/ Start \/ Stop \/ (HandleReady \/ HandleResumed)
                 \/ HandleReconnecting \/ HandleDisconnected
                 \/ UNCHANGED <<wantToClose, clientState>>
<1> SUFFICES ASSUME [Next]_vars PROVE
               \/ Start \/ Stop \/ (HandleReady \/ HandleResumed)
               \/ HandleReconnecting \/ HandleDisconnected
               \/ UNCHANGED <<wantToClose, clientState>>
  OBVIOUS

<1>1. CASE Destroy
  BY <1>1 DEF Destroy
<1>2. CASE UISend
  BY <1>2 DEF UISend
<1>3. CASE HardStopJoinNetwork
  BY <1>3 DEF HardStopJoinNetwork
<1>4. CASE HardStopJoinHeartbeat
  BY <1>4 DEF HardStopJoinHeartbeat
<1>5. CASE UISendRecheck
  BY <1>5 DEF UISendRecheck
<1>6. CASE ChooseHandshake
  BY <1>6 DEF ChooseHandshake
<1>7. CASE SendHandshake
  BY <1>7 DEF SendHandshake
<1>8. CASE ClearResuming
  BY <1>8 DEF ClearResuming
<1>9. CASE SpawnHeartbeat
  BY <1>9 DEF SpawnHeartbeat
<1>10. CASE DropPayload
  BY <1>10 DEF DropPayload
<1>11. CASE HandleHello
  BY <1>11 DEF HandleHello
<1>12. CASE HandleOpcode
  BY <1>12 DEF HandleOpcode
<1>13. CASE HandleDecompError
  BY <1>13 DEF HandleDecompError
<1>14. CASE NetTop
  BY <1>14 DEF NetTop
<1>15. CASE NetConnected
  BY <1>15 DEF NetConnected
<1>16. CASE NetRetryWait
  BY <1>16 DEF NetRetryWait
<1>17. CASE NetLeaveRecv
  BY <1>17 DEF NetLeaveRecv
<1>18. CASE NetSendClose
  BY <1>18 DEF NetSendClose
<1>19. CASE NetClearSession
  BY <1>19 DEF NetClearSession
<1>20. CASE NetCleanup
  BY <1>20 DEF NetCleanup
<1>21. CASE NetCheck
  BY <1>21 DEF NetCheck
<1>22. CASE NetLockHeartbeat
  BY <1>22 DEF NetLockHeartbeat
<1>23. CASE NetJoinHeartbeat
  BY <1>23 DEF NetJoinHeartbeat
<1>24. CASE NetReset
  BY <1>24 DEF NetReset
<1>25. CASE NetBackoff
  BY <1>25 DEF NetBackoff
<1>26. CASE NetWhile
  BY <1>26 DEF NetWhile
<1>27. CASE NetData
  BY <1>27 DEF NetData
<1>28. CASE \E code \in CloseCode : NetCloseFrame(code)
  BY <1>28 DEF NetCloseFrame
<1>29. CASE NetCloseTimeout
  BY <1>29 DEF NetCloseTimeout
<1>30. CASE NetInitFails
  BY <1>30 DEF NetInitFails
<1>31. CASE NetConnectFails
  BY <1>31 DEF NetConnectFails
<1>32. CASE NetDeadSocket
  BY <1>32 DEF NetDeadSocket
<1>33. CASE SrvFallsSilent
  BY <1>33 DEF SrvFallsSilent
<1>34. CASE HbBeat
  BY <1>34 DEF HbBeat
<1>35. CASE HbSend
  BY <1>35 DEF HbSend
<1>36. CASE HbRecheck
  BY <1>36 DEF HbRecheck
<1>37. CASE HbWait
  BY <1>37 DEF HbWait
<1>38. CASE Ingest
  BY <1>38 DEF Ingest
<1>39. CASE Destroyed
  BY <1>39 DEF Destroyed, vars
<1>40. CASE UNCHANGED vars
  BY <1>40 DEF vars
<1> QED
  BY <1>1, <1>2, <1>3, <1>4, <1>5, <1>6, <1>7, <1>8, <1>9, <1>10, <1>11, <1>12, <1>13, <1>14, <1>15, <1>16, <1>17, <1>18, <1>19, <1>20, <1>21, <1>22, <1>23, <1>24, <1>25, <1>26, <1>27, <1>28, <1>29, <1>30, <1>31, <1>32, <1>33, <1>34, <1>35, <1>36, <1>37, <1>38, <1>39, <1>40
     DEF Next, User, HardStop, UIStep, UIEvent, NetStep, NetFrame, NetFault, HbStep

\* A payload queued before stop() never turns the account back to Connected.
THEOREM NoConnectedAfterStop == Spec => []NeverConnectedAfterStop
<1>1. Init => NeverConnectedAfterStop
  BY DEF Init, NeverConnectedAfterStop
<1>2. NeverConnectedAfterStop /\ [Next]_vars => NeverConnectedAfterStop'
  <2> SUFFICES ASSUME NeverConnectedAfterStop, [Next]_vars PROVE NeverConnectedAfterStop'
    OBVIOUS
  <2>1. CASE Start
    BY <2>1 DEF NeverConnectedAfterStop, Start
  <2>2. CASE Stop
    BY <2>2 DEF NeverConnectedAfterStop, Stop
  <2>3. CASE HandleReady \/ HandleResumed
    BY <2>3 DEF NeverConnectedAfterStop, HandleReady, HandleResumed, Accepting
  <2>4. CASE HandleReconnecting
    BY <2>4 DEF NeverConnectedAfterStop, HandleReconnecting
  <2>5. CASE HandleDisconnected
    BY <2>5 DEF NeverConnectedAfterStop, HandleDisconnected
  <2>6. CASE UNCHANGED <<wantToClose, clientState>>
    BY <2>6 DEF NeverConnectedAfterStop
  <2> QED
    BY <2>1, <2>2, <2>3, <2>4, <2>5, <2>6, OnlyHandlersReport
<1> QED
  BY <1>1, <1>2, PTL DEF Spec

\* The inductive invariant behind JoinedOnDestroy: each join that ~Client has done
\* stays done, because the event loop that could start a thread is gone.
JoinsDone ==
  /\ ui = "joinHb" => npc = "joined"
  /\ ui = "destroyed" => npc = "joined" /\ hb = "none" /\ ~ingestOn

\* Each step keeps what the joins have established.
LEMMA JoinsStep == JoinsDone /\ [Next]_vars => JoinsDone'
<1> SUFFICES ASSUME JoinsDone, [Next]_vars PROVE JoinsDone'
  OBVIOUS

<1>1. CASE Start
  BY <1>1 DEF JoinsDone, Start
<1>2. CASE Stop
  BY <1>2 DEF JoinsDone, Stop
<1>3. CASE Destroy
  BY <1>3 DEF JoinsDone, Destroy
<1>4. CASE UISend
  BY <1>4 DEF JoinsDone, UISend, SendFails
<1>5. CASE HardStopJoinNetwork
  BY <1>5 DEF JoinsDone, HardStopJoinNetwork
<1>6. CASE HardStopJoinHeartbeat
  BY <1>6 DEF JoinsDone, HardStopJoinHeartbeat
<1>7. CASE UISendRecheck
  BY <1>7 DEF JoinsDone, UISendRecheck
<1>8. CASE ChooseHandshake
  BY <1>8 DEF JoinsDone, ChooseHandshake
<1>9. CASE SendHandshake
  BY <1>9 DEF JoinsDone, SendHandshake, SendFails
<1>10. CASE ClearResuming
  BY <1>10 DEF JoinsDone, ClearResuming
<1>11. CASE SpawnHeartbeat
  BY <1>11 DEF JoinsDone, SpawnHeartbeat
<1>12. CASE DropPayload
  BY <1>12 DEF JoinsDone, DropPayload, Take
<1>13. CASE HandleHello
  BY <1>13 DEF JoinsDone, HandleHello, Take
<1>14. CASE HandleReady
  BY <1>14 DEF JoinsDone, HandleReady, Take, RepeatPresence, SendFails
<1>15. CASE HandleResumed
  BY <1>15 DEF JoinsDone, HandleResumed, Take, RepeatPresence, SendFails
<1>16. CASE HandleOpcode
  BY <1>16 DEF JoinsDone, HandleOpcode, Take
<1>17. CASE HandleDecompError
  BY <1>17 DEF JoinsDone, HandleDecompError, Take
<1>18. CASE HandleReconnecting
  BY <1>18 DEF JoinsDone, HandleReconnecting, Take
<1>19. CASE HandleDisconnected
  BY <1>19 DEF JoinsDone, HandleDisconnected, Take
<1>20. CASE NetTop
  BY <1>20 DEF JoinsDone, NetTop
<1>21. CASE NetConnected
  BY <1>21 DEF JoinsDone, NetConnected
<1>22. CASE NetRetryWait
  BY <1>22 DEF JoinsDone, NetRetryWait
<1>23. CASE NetLeaveRecv
  BY <1>23 DEF JoinsDone, NetLeaveRecv
<1>24. CASE NetSendClose
  BY <1>24 DEF JoinsDone, NetSendClose, Receiving
<1>25. CASE NetClearSession
  BY <1>25 DEF JoinsDone, NetClearSession
<1>26. CASE NetCleanup
  BY <1>26 DEF JoinsDone, NetCleanup
<1>27. CASE NetCheck
  BY <1>27 DEF JoinsDone, NetCheck
<1>28. CASE NetLockHeartbeat
  BY <1>28 DEF JoinsDone, NetLockHeartbeat
<1>29. CASE NetJoinHeartbeat
  BY <1>29 DEF JoinsDone, NetJoinHeartbeat
<1>30. CASE NetReset
  BY <1>30 DEF JoinsDone, NetReset
<1>31. CASE NetBackoff
  BY <1>31 DEF JoinsDone, NetBackoff
<1>32. CASE NetWhile
  BY <1>32 DEF JoinsDone, NetWhile
<1>33. CASE NetData
  BY <1>33 DEF JoinsDone, NetData, Receiving
<1>34. CASE \E code \in CloseCode : NetCloseFrame(code)
  BY <1>34 DEF JoinsDone, NetCloseFrame, Receiving
<1>35. CASE NetCloseTimeout
  BY <1>35 DEF JoinsDone, NetCloseTimeout, Receiving
<1>36. CASE NetInitFails
  BY <1>36 DEF JoinsDone, NetInitFails
<1>37. CASE NetConnectFails
  BY <1>37 DEF JoinsDone, NetConnectFails
<1>38. CASE NetDeadSocket
  BY <1>38 DEF JoinsDone, NetDeadSocket, Receiving
<1>39. CASE SrvFallsSilent
  BY <1>39 DEF JoinsDone, SrvFallsSilent
<1>40. CASE HbBeat
  BY <1>40 DEF JoinsDone, HbBeat
<1>41. CASE HbSend
  BY <1>41 DEF JoinsDone, HbSend
<1>42. CASE HbRecheck
  BY <1>42 DEF JoinsDone, HbRecheck
<1>43. CASE HbWait
  BY <1>43 DEF JoinsDone, HbWait
<1>44. CASE Ingest
  BY <1>44 DEF JoinsDone, Ingest
<1>45. CASE Destroyed
  BY <1>45 DEF JoinsDone, Destroyed, vars
<1>46. CASE UNCHANGED vars
  BY <1>46 DEF JoinsDone, vars
<1> QED
  BY <1>1, <1>2, <1>3, <1>4, <1>5, <1>6, <1>7, <1>8, <1>9, <1>10, <1>11, <1>12, <1>13, <1>14, <1>15, <1>16, <1>17, <1>18, <1>19, <1>20, <1>21, <1>22, <1>23, <1>24, <1>25, <1>26, <1>27, <1>28, <1>29, <1>30, <1>31, <1>32, <1>33, <1>34, <1>35, <1>36, <1>37, <1>38, <1>39, <1>40, <1>41, <1>42, <1>43, <1>44, <1>45, <1>46
     DEF Next, User, HardStop, UIStep, UIEvent, NetStep, NetFrame, NetFault, HbStep

\* When ~Client returns, no thread of the gateway is left to touch it.
THEOREM NoThreadSurvives == Spec => []JoinedOnDestroy
<1>1. Init => JoinsDone
  BY DEF Init, JoinsDone
<1>2. JoinsDone => JoinedOnDestroy
  BY DEF JoinsDone, JoinedOnDestroy
<1> QED
  BY <1>1, <1>2, JoinsStep, PTL DEF Spec

\* What the runs check of stop() and ~Client together, for every bound.
THEOREM StopIsFinal == Spec => []Inv
  BY TypeCorrect, NoConnectedAfterStop, NoThreadSurvives, PTL DEF Inv

-----------------------------------------------------------------------------
(* The gateway left to itself.                                             *)

\* The network thread has not connected yet, so nothing has been received.
Fresh ==
  /\ npc \in {"none", "top", "connecting"}
  /\ ~closeSent /\ ~curl /\ srv = "none" /\ ~srvHello /\ hb = "none" /\ heartbeatAck
  /\ ui \in {"idle", "skipped", "joinNet"} /\ handshake = "none" /\ ~stream /\ ingestQ = <<>> /\ uiQueue = <<>>

\* It has connected, once: without a fault there is no second connection.
Up ==
  /\ npc \in {"recv", "cleanup", "check", "while", "tail", "tailJoin", "exited", "joined"}
  /\ closeSent => wantToClose
  /\ curl <=> npc \in {"recv", "cleanup"}
  /\ srv \in IF curl THEN {"wait", "ready", "live"} ELSE {"none"}
  /\ ui # "failed" /\ (ui = "skipped" \/ hb = "recheck" => ~curl)

\* No HELLO, at most one HELLO in a queue.
NoHello(w) == \A i \in 1..Len(w) : w[i] # "hello"
OneHello(w) == \A i, j \in 1..Len(w) : w[i] = "hello" /\ w[j] = "hello" => i = j

\* There is one HELLO, in one place, before all else the connection brings and before the handshake.
HelloFirst ==
  /\ srvHello => ~stream /\ ingestQ = <<>>
  /\ ~stream => NoHello(uiQueue) /\ ui \notin {"hello", "handshake"}
  /\ ~stream /\ ingestQ # <<>> => Head(ingestQ) = "hello" /\ NoHello(Tail(ingestQ))
  /\ stream => NoHello(ingestQ)
  /\ ui \in {"hello", "handshake"} => NoHello(uiQueue)
  /\ OneHello(uiQueue)
  /\ ~stream \/ ~NoHello(uiQueue) \/ ui \in {"hello", "handshake"} => srv \in {"none", "wait"}
  /\ curl /\ ~srvHello /\ ~stream /\ ingestQ = <<>> => ~ingestOn

\* A beat is only sent when the last one was answered.
Beats ==
  /\ running /\ hb \in {"none", "loop"} => heartbeatAck
  /\ npc \in {"tailJoin", "exited", "joined"} \/ Destroying => ~running

\* Nothing that asks for a reconnection is under way.
Quiet == {"hello", "ready", "ack"}
NothingAsked ==
  /\ ~shouldReconnect /\ ~isResuming /\ handshake # "resume"
  /\ ingestQ \in Seq(Quiet)
  /\ uiQueue \in Seq(Quiet \cup {"internalClose", "otherClose"})

\* The gateway's life when nothing disturbs it.
Phase == Fresh \/ (Up /\ HelloFirst)
Calm == faults = 0 /\ races = 0 => NothingAsked /\ Beats /\ Phase

\* The context of the steps below.
Undisturbed == TypeOK /\ faults = 0 /\ faults' = 0 /\ races = 0 /\ races' = 0

\* What a queue holds, its head and its rest are of.
LEMMA Parts ==
  ASSUME NEW S, NEW w \in Seq(S), w # <<>>
  PROVE  Head(w) \in S /\ Tail(w) \in Seq(S) /\ Len(w) > 0
  OBVIOUS

\* Taking the head leaves no HELLO where there was none, and none after the only one.
LEMMA HelloTaken ==
  ASSUME NEW S, NEW w \in Seq(S), w # <<>>
  PROVE  /\ NoHello(w) => Head(w) # "hello" /\ NoHello(Tail(w))
         /\ OneHello(w) => OneHello(Tail(w)) /\ (Head(w) = "hello" => NoHello(Tail(w)))
<1>1. Head(w) = w[1] /\ Len(w) \in Nat /\ Len(w) >= 1 /\ Len(Tail(w)) = Len(w) - 1
  OBVIOUS
<1>2. \A i \in 1..Len(Tail(w)) : i + 1 \in 1..Len(w) /\ i + 1 # 1 /\ Tail(w)[i] = w[i + 1]
  BY <1>1
<1>3. ASSUME NoHello(w) PROVE Head(w) # "hello" /\ NoHello(Tail(w))
  BY <1>1, <1>2, <1>3 DEF NoHello
<1>4. ASSUME OneHello(w) PROVE OneHello(Tail(w)) /\ (Head(w) = "hello" => NoHello(Tail(w)))
  <2>1. OneHello(Tail(w))
    <3> SUFFICES ASSUME NEW i \in 1..Len(Tail(w)), NEW j \in 1..Len(Tail(w)),
                        Tail(w)[i] = "hello", Tail(w)[j] = "hello"
                 PROVE  i = j
      BY DEF OneHello
    <3>1. i + 1 = j + 1
      BY <1>2, <1>4 DEF OneHello
    <3> QED
      BY <3>1, <1>1
  <2>2. ASSUME Head(w) = "hello" PROVE NoHello(Tail(w))
    <3> SUFFICES ASSUME NEW i \in 1..Len(Tail(w)), Tail(w)[i] = "hello" PROVE FALSE
      BY DEF NoHello
    <3>1. 1 \in 1..Len(w) /\ w[1] = "hello" /\ w[i + 1] = "hello" /\ i + 1 \in 1..Len(w) /\ i + 1 # 1
      BY <1>1, <1>2, <2>2
    <3> QED
      BY <3>1, <1>4 DEF OneHello
  <2> QED
    BY <2>1, <2>2
<1> QED
  BY <1>3, <1>4

\* Appending something else adds no HELLO; appending to a queue without one adds the only one.
LEMMA HelloAppended ==
  ASSUME NEW S, NEW w \in Seq(S), NEW e \in S
  PROVE  /\ Append(w, e) \in Seq(S) /\ Append(w, e) # <<>>
         /\ NoHello(w) /\ e # "hello" => NoHello(Append(w, e))
         /\ NoHello(w) => OneHello(Append(w, e))
         /\ OneHello(w) /\ e # "hello" => OneHello(Append(w, e))
<1>1. Append(w, e) \in Seq(S) /\ Append(w, e) # <<>> /\ Len(w) \in Nat /\ Len(Append(w, e)) = Len(w) + 1
  OBVIOUS
<1>2. \A i \in 1..Len(Append(w, e)) : \/ i \in 1..Len(w) /\ Append(w, e)[i] = w[i]
                                      \/ i = Len(w) + 1 /\ Append(w, e)[i] = e
  OBVIOUS
<1> QED
  BY <1>1, <1>2 DEF NoHello, OneHello

\* Nothing in the queue is no HELLO.
LEMMA HelloNone == NoHello(<<>>) /\ OneHello(<<>>)
  BY DEF NoHello, OneHello

\* What the UI thread queues to itself or others queue to it.
Told == Quiet \cup {"internalClose", "otherClose"}

\* What the UI thread takes was one of these, and no second HELLO follows a first.
LEMMA Taken ==
  ASSUME NothingAsked, Phase, NEW e, Take(e)
  PROVE  /\ Up /\ HelloFirst /\ e \in Told /\ uiQueue' \in Seq(Told)
         /\ NoHello(uiQueue) => e # "hello" /\ NoHello(uiQueue')
         /\ OneHello(uiQueue') /\ (e = "hello" => NoHello(uiQueue'))
<1>1. uiQueue # <<>> /\ e = Head(uiQueue) /\ uiQueue' = Tail(uiQueue)
  BY DEF Take
<1>2. Up /\ HelloFirst
  BY <1>1 DEF Phase, Fresh
<1>3. uiQueue \in Seq(Told)
  BY DEF NothingAsked, Told
<1>4. e \in Told /\ uiQueue' \in Seq(Told)
  BY <1>1, <1>3, Parts
<1>5. OneHello(uiQueue)
  BY <1>2 DEF HelloFirst
<1> QED
  BY <1>1, <1>2, <1>3, <1>4, <1>5, HelloTaken

\* A signal or payload queued to the UI thread.
LEMMA Posted ==
  ASSUME NothingAsked, NEW e \in Told, Post(e)
  PROVE  /\ uiQueue' \in Seq(Told)
         /\ NoHello(uiQueue) /\ e # "hello" => NoHello(uiQueue')
         /\ NoHello(uiQueue) => OneHello(uiQueue')
         /\ OneHello(uiQueue) /\ e # "hello" => OneHello(uiQueue')
<1>1. uiQueue \in Seq(Told)
  BY DEF NothingAsked, Told
<1>2. CASE uiQueue' = uiQueue
  BY <1>1, <1>2 DEF NoHello, OneHello
<1>3. CASE uiQueue' = Append(uiQueue, e)
  BY <1>1, <1>3, HelloAppended
<1> QED
  BY <1>2, <1>3 DEF Post

\* A payload pushed to the ingest worker.
LEMMA Pushed ==
  ASSUME NothingAsked, NEW p \in Quiet, Push(p)
  PROVE  /\ ingestQ' \in Seq(Quiet)
         /\ NoHello(ingestQ) /\ p # "hello" => NoHello(ingestQ')
         /\ ingestQ # <<>> => ingestQ' # <<>> /\ Head(ingestQ') = Head(ingestQ)
         /\ ingestQ # <<>> /\ NoHello(Tail(ingestQ)) /\ p # "hello" => NoHello(Tail(ingestQ'))
         /\ ingestQ = <<>> => IF ingestOn THEN ingestQ' = <<p>> ELSE ingestQ' = <<>>
<1>1. ingestQ \in Seq(Quiet)
  BY DEF NothingAsked
<1>2. CASE ~ingestOn
  BY <1>1, <1>2 DEF Push
<1>3. CASE ingestOn
  <2>1. ingestQ' = Append(ingestQ, p)
    BY <1>3 DEF Push
  <2>2. ingestQ' \in Seq(Quiet) /\ (NoHello(ingestQ) /\ p # "hello" => NoHello(ingestQ'))
    BY <1>1, <2>1, HelloAppended
  <2>3. ASSUME ingestQ # <<>>
        PROVE  /\ ingestQ' # <<>> /\ Head(ingestQ') = Head(ingestQ)
               /\ Tail(ingestQ') = Append(Tail(ingestQ), p) /\ Tail(ingestQ) \in Seq(Quiet)
    BY <1>1, <2>1, <2>3
  <2>4. ASSUME ingestQ # <<>>, NoHello(Tail(ingestQ)), p # "hello" PROVE NoHello(Tail(ingestQ'))
    BY <2>3, <2>4, HelloAppended
  <2>5. ingestQ = <<>> => ingestQ' = <<p>>
    BY <2>1
  <2> QED
    BY <1>3, <2>2, <2>3, <2>4, <2>5
<1> QED
  BY <1>2, <1>3

\* Undisturbed, no step asks for a reconnection or queues what would.
LEMMA AskedStep ==
  ASSUME Undisturbed, NothingAsked, Beats, Phase, [Next]_vars
  PROVE  NothingAsked'
<1>1. CASE Start
  BY <1>1 DEF Undisturbed, NothingAsked, Beats, Phase, Fresh, Up, HelloFirst, Quiet, Start
<1>2. CASE Stop
  BY <1>2 DEF Undisturbed, NothingAsked, Beats, Phase, Fresh, Up, HelloFirst, Quiet, Stop
<1>3. CASE Destroy
  BY <1>3 DEF Undisturbed, NothingAsked, Beats, Phase, Fresh, Up, HelloFirst, Quiet, Destroy
<1>4. CASE UISend
  BY <1>4 DEF Undisturbed, NothingAsked, Beats, Phase, Fresh, Up, HelloFirst, Quiet, UISend, SendFails, Fault
<1>5. CASE HardStopJoinNetwork
  BY <1>5 DEF Undisturbed, NothingAsked, Beats, Phase, Fresh, Up, HelloFirst, Quiet, HardStopJoinNetwork
<1>6. CASE HardStopJoinHeartbeat
  BY <1>6 DEF Undisturbed, NothingAsked, Beats, Phase, Fresh, Up, HelloFirst, Quiet, HardStopJoinHeartbeat
<1>7. CASE UISendRecheck
  BY <1>7 DEF Undisturbed, NothingAsked, Beats, Phase, Fresh, Up, HelloFirst, Quiet, UISendRecheck
<1>8. CASE ChooseHandshake
  BY <1>8 DEF Undisturbed, NothingAsked, Beats, Phase, Fresh, Up, HelloFirst, Quiet, ChooseHandshake, ResumeAsked
<1>9. CASE SendHandshake
  BY <1>9 DEF Undisturbed, NothingAsked, Beats, Phase, Fresh, Up, HelloFirst, Quiet, SendHandshake, SendFails, SrvOnHandshake, Fault, ResumeAsked
<1>10. CASE ClearResuming
  BY <1>10 DEF Undisturbed, NothingAsked, Beats, Phase, Fresh, Up, HelloFirst, Quiet, ClearResuming
<1>11. CASE SpawnHeartbeat
  BY <1>11 DEF Undisturbed, NothingAsked, Beats, Phase, Fresh, Up, HelloFirst, Quiet, SpawnHeartbeat
<1>12. CASE DropPayload
  BY <1>12 DEF Undisturbed, NothingAsked, Beats, Phase, Fresh, Up, HelloFirst, Quiet, DropPayload, Take, Accepting, Payload
<1>13. CASE HandleHello
  BY <1>13 DEF Undisturbed, NothingAsked, Beats, Phase, Fresh, Up, HelloFirst, Quiet, HandleHello, Take, Accepting
<1>14. CASE HandleReady
  BY <1>14 DEF Undisturbed, NothingAsked, Beats, Phase, Fresh, Up, HelloFirst, Quiet, HandleReady, Take, RepeatPresence, SendFails, Fault, Accepting
<1>15. CASE HandleResumed
  BY <1>15 DEF Undisturbed, NothingAsked, Beats, Phase, Fresh, Up, HelloFirst, Quiet, HandleResumed, Take, RepeatPresence, SendFails, Fault, Accepting
<1>16. CASE HandleOpcode
  <2>1. \A p \in {"reconnect", "invalidResumable", "invalid"} : ~Take(p)
    BY Taken DEF Told, Quiet
  <2>2. Take("ack") /\ UNCHANGED <<shouldReconnect, isResuming, handshake, ingestQ>>
    BY <1>16, <2>1 DEF HandleOpcode
  <2> QED
    BY <2>2, Taken DEF NothingAsked, Told
<1>17. CASE HandleDecompError
  BY <1>17 DEF Undisturbed, NothingAsked, Beats, Phase, Fresh, Up, HelloFirst, Quiet, HandleDecompError, Take
<1>18. CASE HandleReconnecting
  BY <1>18 DEF Undisturbed, NothingAsked, Beats, Phase, Fresh, Up, HelloFirst, Quiet, HandleReconnecting, Take
<1>19. CASE HandleDisconnected
  BY <1>19 DEF Undisturbed, NothingAsked, Beats, Phase, Fresh, Up, HelloFirst, Quiet, HandleDisconnected, Take
<1>20. CASE NetTop
  BY <1>20 DEF Undisturbed, NothingAsked, Beats, Phase, Fresh, Up, HelloFirst, Quiet, NetTop
<1>21. CASE NetConnected
  BY <1>21 DEF Undisturbed, NothingAsked, Beats, Phase, Fresh, Up, HelloFirst, Quiet, NetConnected, Race
<1>22. CASE NetRetryWait
  BY <1>22 DEF Undisturbed, NothingAsked, Beats, Phase, Fresh, Up, HelloFirst, Quiet, NetRetryWait, Accepting
<1>23. CASE NetLeaveRecv
  BY <1>23 DEF Undisturbed, NothingAsked, Beats, Phase, Fresh, Up, HelloFirst, Quiet, NetLeaveRecv
<1>24. CASE NetSendClose
  BY <1>24 DEF Undisturbed, NothingAsked, Beats, Phase, Fresh, Up, HelloFirst, Quiet, NetSendClose, Receiving
<1>25. CASE NetClearSession
  BY <1>25 DEF Undisturbed, NothingAsked, Beats, Phase, Fresh, Up, HelloFirst, Quiet, NetClearSession, MayReconnect
<1>26. CASE NetCleanup
  BY <1>26 DEF Undisturbed, NothingAsked, Beats, Phase, Fresh, Up, HelloFirst, Quiet, NetCleanup
<1>27. CASE NetCheck
  BY <1>27 DEF Undisturbed, NothingAsked, Beats, Phase, Fresh, Up, HelloFirst, Quiet, NetCheck
<1>28. CASE NetLockHeartbeat
  BY <1>28 DEF Undisturbed, NothingAsked, Beats, Phase, Fresh, Up, HelloFirst, Quiet, NetLockHeartbeat
<1>29. CASE NetJoinHeartbeat
  BY <1>29 DEF Undisturbed, NothingAsked, Beats, Phase, Fresh, Up, HelloFirst, Quiet, NetJoinHeartbeat, HeartbeatAlive
<1>30. CASE NetReset
  BY <1>30 DEF Undisturbed, NothingAsked, Beats, Phase, Fresh, Up, HelloFirst, Quiet, NetReset, Post, Destroying
<1>31. CASE NetBackoff
  BY <1>31 DEF Undisturbed, NothingAsked, Beats, Phase, Fresh, Up, HelloFirst, Quiet, NetBackoff, Accepting
<1>32. CASE NetWhile
  BY <1>32 DEF Undisturbed, NothingAsked, Beats, Phase, Fresh, Up, HelloFirst, Quiet, NetWhile
<1>33. CASE NetData
  <2>1. Up
    BY <1>33 DEF Phase, Fresh, NetData, Receiving
  <2>2. \E p \in Quiet : Push(p)
    BY <1>33, <2>1 DEF Up, NetData, Undisturbed, Fault, Quiet
  <2> QED
    BY <1>33, <2>2, Pushed DEF NothingAsked, NetData
<1>34. CASE \E code \in CloseCode : NetCloseFrame(code)
  <2>1. Up
    BY <1>34 DEF Phase, Fresh, NetCloseFrame, Receiving
  <2>2. Post("otherClose") /\ wantToClose
    BY <1>34, <2>1 DEF Up, NetCloseFrame, Receiving, Undisturbed, Fault
  <2>3. uiQueue' \in Seq(Told)
    BY <2>2, Posted DEF Told
  <2>4. shouldReconnect' = FALSE
    BY <1>34, <2>2 DEF NetCloseFrame, MayReconnect
  <2> QED
    BY <1>34, <2>3, <2>4 DEF NothingAsked, NetCloseFrame, Told
<1>35. CASE NetCloseTimeout
  BY <1>35 DEF Undisturbed, NothingAsked, Beats, Phase, Fresh, Up, HelloFirst, Quiet, NetCloseTimeout, Receiving, Post
<1>36. CASE NetInitFails
  BY <1>36 DEF Undisturbed, NothingAsked, Beats, Phase, Fresh, Up, HelloFirst, Quiet, NetInitFails, Fault
<1>37. CASE NetConnectFails
  BY <1>37 DEF Undisturbed, NothingAsked, Beats, Phase, Fresh, Up, HelloFirst, Quiet, NetConnectFails, Fault
<1>38. CASE NetDeadSocket
  BY <1>38 DEF Undisturbed, NothingAsked, Beats, Phase, Fresh, Up, HelloFirst, Quiet, NetDeadSocket, Receiving, Fault
<1>39. CASE SrvFallsSilent
  BY <1>39 DEF Undisturbed, NothingAsked, Beats, Phase, Fresh, Up, HelloFirst, Quiet, SrvFallsSilent, Fault
<1>40. CASE HbBeat
  BY <1>40 DEF Undisturbed, NothingAsked, Beats, Phase, Fresh, Up, HelloFirst, Quiet, HbBeat, OneMoreMissed, ZombieLimit
<1>41. CASE HbSend
  BY <1>41 DEF Undisturbed, NothingAsked, Beats, Phase, Fresh, Up, HelloFirst, Quiet, HbSend, Fault
<1>42. CASE HbRecheck
  BY <1>42 DEF Undisturbed, NothingAsked, Beats, Phase, Fresh, Up, HelloFirst, Quiet, HbRecheck
<1>43. CASE HbWait
  BY <1>43 DEF Undisturbed, NothingAsked, Beats, Phase, Fresh, Up, HelloFirst, Quiet, HbWait, Fault
<1>44. CASE Ingest
  <2>1. Up /\ HelloFirst /\ ingestQ # <<>> /\ ingestQ \in Seq(Quiet)
    BY <1>44 DEF Phase, Fresh, Ingest, NothingAsked
  <2>2. Inflates(Head(ingestQ))
    BY <2>1, HelloTaken DEF HelloFirst, Inflates
  <2>3. Post(Head(ingestQ)) /\ ingestQ' = Tail(ingestQ)
    BY <1>44, <2>2 DEF Ingest, Undisturbed, Fault
  <2>4. Head(ingestQ) \in Told /\ ingestQ' \in Seq(Quiet)
    BY <2>1, <2>3, Parts DEF Told
  <2>5. uiQueue' \in Seq(Told)
    BY <2>3, <2>4, Posted
  <2> QED
    BY <1>44, <2>4, <2>5 DEF NothingAsked, Ingest, Told
<1>45. CASE Destroyed
  BY <1>45 DEF Undisturbed, NothingAsked, Beats, Phase, Fresh, Up, HelloFirst, Quiet, Destroyed, vars
<1>46. CASE UNCHANGED vars
  BY <1>46 DEF Undisturbed, NothingAsked, Beats, Phase, Fresh, Up, HelloFirst, Quiet, vars
<1> QED
  BY <1>1, <1>2, <1>3, <1>4, <1>5, <1>6, <1>7, <1>8, <1>9, <1>10, <1>11, <1>12, <1>13, <1>14, <1>15, <1>16, <1>17, <1>18, <1>19, <1>20, <1>21, <1>22, <1>23, <1>24, <1>25, <1>26, <1>27, <1>28, <1>29, <1>30, <1>31, <1>32, <1>33, <1>34, <1>35, <1>36, <1>37, <1>38, <1>39, <1>40, <1>41, <1>42, <1>43, <1>44, <1>45, <1>46
     DEF Next, User, HardStop, UIStep, UIEvent, NetStep, NetFrame, NetFault, HbStep

\* Undisturbed, a beat waits for the answer to the last, and the threads that ended had been told to.
LEMMA BeatsStep ==
  ASSUME Undisturbed, NothingAsked, Beats, Phase, [Next]_vars
  PROVE  Beats'
<1>1. CASE Start
  BY <1>1 DEF Undisturbed, NothingAsked, Beats, Phase, Fresh, Up, Destroying, Start
<1>2. CASE Stop
  BY <1>2 DEF Undisturbed, NothingAsked, Beats, Phase, Fresh, Up, Destroying, Stop
<1>3. CASE Destroy
  BY <1>3 DEF Undisturbed, NothingAsked, Beats, Phase, Fresh, Up, Destroying, Destroy
<1>4. CASE UISend
  BY <1>4 DEF Undisturbed, NothingAsked, Beats, Phase, Fresh, Up, Destroying, UISend, SendFails, Fault
<1>5. CASE HardStopJoinNetwork
  BY <1>5 DEF Undisturbed, NothingAsked, Beats, Phase, Fresh, Up, Destroying, HardStopJoinNetwork
<1>6. CASE HardStopJoinHeartbeat
  BY <1>6 DEF Undisturbed, NothingAsked, Beats, Phase, Fresh, Up, Destroying, HardStopJoinHeartbeat
<1>7. CASE UISendRecheck
  BY <1>7 DEF Undisturbed, NothingAsked, Beats, Phase, Fresh, Up, Destroying, UISendRecheck
<1>8. CASE ChooseHandshake
  BY <1>8 DEF Undisturbed, NothingAsked, Beats, Phase, Fresh, Up, Destroying, ChooseHandshake, ResumeAsked
<1>9. CASE SendHandshake
  BY <1>9 DEF Undisturbed, NothingAsked, Beats, Phase, Fresh, Up, Destroying, SendHandshake, SendFails, SrvOnHandshake, Fault, ResumeAsked
<1>10. CASE ClearResuming
  BY <1>10 DEF Undisturbed, NothingAsked, Beats, Phase, Fresh, Up, Destroying, ClearResuming
<1>11. CASE SpawnHeartbeat
  BY <1>11 DEF Undisturbed, NothingAsked, Beats, Phase, Fresh, Up, Destroying, SpawnHeartbeat
<1>12. CASE DropPayload
  BY <1>12 DEF Undisturbed, NothingAsked, Beats, Phase, Fresh, Up, Destroying, DropPayload, Take, Accepting, Payload
<1>13. CASE HandleHello
  BY <1>13 DEF Undisturbed, NothingAsked, Beats, Phase, Fresh, Up, Destroying, HandleHello, Take, Accepting
<1>14. CASE HandleReady
  BY <1>14 DEF Undisturbed, NothingAsked, Beats, Phase, Fresh, Up, Destroying, HandleReady, Take, RepeatPresence, SendFails, Fault, Accepting
<1>15. CASE HandleResumed
  BY <1>15 DEF Undisturbed, NothingAsked, Beats, Phase, Fresh, Up, Destroying, HandleResumed, Take, RepeatPresence, SendFails, Fault, Accepting
<1>16. CASE HandleOpcode
  BY <1>16 DEF Undisturbed, NothingAsked, Beats, Phase, Fresh, Up, Destroying, HandleOpcode, Take, Accepting
<1>17. CASE HandleDecompError
  BY <1>17 DEF Undisturbed, NothingAsked, Beats, Phase, Fresh, Up, Destroying, HandleDecompError, Take
<1>18. CASE HandleReconnecting
  BY <1>18 DEF Undisturbed, NothingAsked, Beats, Phase, Fresh, Up, Destroying, HandleReconnecting, Take
<1>19. CASE HandleDisconnected
  BY <1>19 DEF Undisturbed, NothingAsked, Beats, Phase, Fresh, Up, Destroying, HandleDisconnected, Take
<1>20. CASE NetTop
  BY <1>20 DEF Undisturbed, NothingAsked, Beats, Phase, Fresh, Up, Destroying, NetTop
<1>21. CASE NetConnected
  BY <1>21 DEF Undisturbed, NothingAsked, Beats, Phase, Fresh, Up, Destroying, NetConnected, Race
<1>22. CASE NetRetryWait
  BY <1>22 DEF Undisturbed, NothingAsked, Beats, Phase, Fresh, Up, Destroying, NetRetryWait, Accepting
<1>23. CASE NetLeaveRecv
  BY <1>23 DEF Undisturbed, NothingAsked, Beats, Phase, Fresh, Up, Destroying, NetLeaveRecv
<1>24. CASE NetSendClose
  BY <1>24 DEF Undisturbed, NothingAsked, Beats, Phase, Fresh, Up, Destroying, NetSendClose, Receiving
<1>25. CASE NetClearSession
  BY <1>25 DEF Undisturbed, NothingAsked, Beats, Phase, Fresh, Up, Destroying, NetClearSession, MayReconnect
<1>26. CASE NetCleanup
  BY <1>26 DEF Undisturbed, NothingAsked, Beats, Phase, Fresh, Up, Destroying, NetCleanup
<1>27. CASE NetCheck
  BY <1>27 DEF Undisturbed, NothingAsked, Beats, Phase, Fresh, Up, Destroying, NetCheck
<1>28. CASE NetLockHeartbeat
  BY <1>28 DEF Undisturbed, NothingAsked, Beats, Phase, Fresh, Up, Destroying, NetLockHeartbeat
<1>29. CASE NetJoinHeartbeat
  BY <1>29 DEF Undisturbed, NothingAsked, Beats, Phase, Fresh, Up, Destroying, NetJoinHeartbeat, HeartbeatAlive
<1>30. CASE NetReset
  BY <1>30 DEF Undisturbed, NothingAsked, Beats, Phase, Fresh, Up, Destroying, NetReset, Post, Destroying
<1>31. CASE NetBackoff
  BY <1>31 DEF Undisturbed, NothingAsked, Beats, Phase, Fresh, Up, Destroying, NetBackoff, Accepting
<1>32. CASE NetWhile
  BY <1>32 DEF Undisturbed, NothingAsked, Beats, Phase, Fresh, Up, Destroying, NetWhile
<1>33. CASE NetData
  BY <1>33 DEF Undisturbed, NothingAsked, Beats, Phase, Fresh, Up, Destroying, NetData, Receiving, Push, Fault
<1>34. CASE \E code \in CloseCode : NetCloseFrame(code)
  BY <1>34 DEF Undisturbed, NothingAsked, Beats, Phase, Fresh, Up, Destroying, NetCloseFrame, Receiving, Fault, Post, MayReconnect
<1>35. CASE NetCloseTimeout
  BY <1>35 DEF Undisturbed, NothingAsked, Beats, Phase, Fresh, Up, Destroying, NetCloseTimeout, Receiving, Post
<1>36. CASE NetInitFails
  BY <1>36 DEF Undisturbed, NothingAsked, Beats, Phase, Fresh, Up, Destroying, NetInitFails, Fault
<1>37. CASE NetConnectFails
  BY <1>37 DEF Undisturbed, NothingAsked, Beats, Phase, Fresh, Up, Destroying, NetConnectFails, Fault
<1>38. CASE NetDeadSocket
  BY <1>38 DEF Undisturbed, NothingAsked, Beats, Phase, Fresh, Up, Destroying, NetDeadSocket, Receiving, Fault
<1>39. CASE SrvFallsSilent
  BY <1>39 DEF Undisturbed, NothingAsked, Beats, Phase, Fresh, Up, Destroying, SrvFallsSilent, Fault
<1>40. CASE HbBeat
  BY <1>40 DEF Undisturbed, NothingAsked, Beats, Phase, Fresh, Up, Destroying, HbBeat, OneMoreMissed, ZombieLimit
<1>41. CASE HbSend
  BY <1>41 DEF Undisturbed, NothingAsked, Beats, Phase, Fresh, Up, Destroying, HbSend, Fault
<1>42. CASE HbRecheck
  BY <1>42 DEF Undisturbed, NothingAsked, Beats, Phase, Fresh, Up, Destroying, HbRecheck
<1>43. CASE HbWait
  BY <1>43 DEF Undisturbed, NothingAsked, Beats, Phase, Fresh, Up, Destroying, HbWait, Fault
<1>44. CASE Ingest
  <2>1. heartbeatAck => heartbeatAck'
    BY <1>44 DEF Ingest, Undisturbed, TypeOK, FlagsTypeOK
  <2> QED
    BY <1>44, <2>1 DEF Beats, Destroying, Ingest
<1>45. CASE Destroyed
  BY <1>45 DEF Undisturbed, NothingAsked, Beats, Phase, Fresh, Up, Destroying, Destroyed, vars
<1>46. CASE UNCHANGED vars
  BY <1>46 DEF Undisturbed, NothingAsked, Beats, Phase, Fresh, Up, Destroying, vars
<1> QED
  BY <1>1, <1>2, <1>3, <1>4, <1>5, <1>6, <1>7, <1>8, <1>9, <1>10, <1>11, <1>12, <1>13, <1>14, <1>15, <1>16, <1>17, <1>18, <1>19, <1>20, <1>21, <1>22, <1>23, <1>24, <1>25, <1>26, <1>27, <1>28, <1>29, <1>30, <1>31, <1>32, <1>33, <1>34, <1>35, <1>36, <1>37, <1>38, <1>39, <1>40, <1>41, <1>42, <1>43, <1>44, <1>45, <1>46
     DEF Next, User, HardStop, UIStep, UIEvent, NetStep, NetFrame, NetFault, HbStep

\* Undisturbed, the one connection is opened once and its HELLO comes first.
LEMMA PhaseStep ==
  ASSUME Undisturbed, NothingAsked, Beats, Phase, [Next]_vars
  PROVE  Phase'
<1>1. CASE Start
  BY <1>1 DEF Undisturbed, NothingAsked, Beats, Phase, Fresh, Up, HelloFirst, Quiet, Destroying, Start
<1>2. CASE Stop
  BY <1>2 DEF Undisturbed, NothingAsked, Beats, Phase, Fresh, Up, HelloFirst, Quiet, Destroying, Stop
<1>3. CASE Destroy
  <2>1. NoHello(uiQueue') /\ OneHello(uiQueue')
    BY <1>3, HelloNone DEF Destroy
  <2> QED
    BY <1>3, <2>1 DEF Phase, Fresh, Up, HelloFirst, Destroy
<1>4. CASE UISend
  BY <1>4 DEF Undisturbed, NothingAsked, Beats, Phase, Fresh, Up, HelloFirst, Quiet, Destroying, UISend, SendFails, Fault
<1>5. CASE HardStopJoinNetwork
  BY <1>5 DEF Undisturbed, NothingAsked, Beats, Phase, Fresh, Up, HelloFirst, Quiet, Destroying, HardStopJoinNetwork
<1>6. CASE HardStopJoinHeartbeat
  BY <1>6 DEF Undisturbed, NothingAsked, Beats, Phase, Fresh, Up, HelloFirst, Quiet, Destroying, HardStopJoinHeartbeat
<1>7. CASE UISendRecheck
  BY <1>7 DEF Undisturbed, NothingAsked, Beats, Phase, Fresh, Up, HelloFirst, Quiet, Destroying, UISendRecheck
<1>8. CASE ChooseHandshake
  BY <1>8 DEF Undisturbed, NothingAsked, Beats, Phase, Fresh, Up, HelloFirst, Quiet, Destroying, ChooseHandshake, ResumeAsked
<1>9. CASE SendHandshake
  BY <1>9 DEF Undisturbed, NothingAsked, Beats, Phase, Fresh, Up, HelloFirst, Quiet, Destroying, SendHandshake, SendFails, SrvOnHandshake, Fault, ResumeAsked
<1>10. CASE ClearResuming
  BY <1>10 DEF Undisturbed, NothingAsked, Beats, Phase, Fresh, Up, HelloFirst, Quiet, Destroying, ClearResuming
<1>11. CASE SpawnHeartbeat
  BY <1>11 DEF Undisturbed, NothingAsked, Beats, Phase, Fresh, Up, HelloFirst, Quiet, Destroying, SpawnHeartbeat
<1>12. CASE DropPayload
  <2>1. PICK e \in Payload : Take(e)
    BY <1>12 DEF DropPayload
  <2>2. /\ Up /\ HelloFirst /\ ui = "idle"
        /\ NoHello(uiQueue) => e # "hello" /\ NoHello(uiQueue')
        /\ OneHello(uiQueue') /\ (e = "hello" => NoHello(uiQueue'))
    BY <2>1, Taken DEF Take
  <2>3. Up'
    BY <1>12, <2>2 DEF Up, DropPayload, Undisturbed, Fault
  <2>4. HelloFirst'
    BY <1>12, <2>2 DEF HelloFirst, DropPayload, Undisturbed, Fault
  <2> QED
    BY <2>3, <2>4 DEF Phase
<1>13. CASE HandleHello
  <2>1. Take("hello") /\ ui = "idle"
    BY <1>13 DEF HandleHello, Take
  <2>2. Up /\ HelloFirst /\ ~NoHello(uiQueue) /\ NoHello(uiQueue') /\ OneHello(uiQueue')
    BY <2>1, Taken
  <2>3. Up'
    BY <1>13, <2>2 DEF Up, HandleHello
  <2>4. HelloFirst'
    BY <1>13, <2>2 DEF HelloFirst, HandleHello
  <2> QED
    BY <2>3, <2>4 DEF Phase
<1>14. CASE HandleReady
  <2>1. PICK e \in {"ready"} : Take(e)
    BY <1>14 DEF HandleReady
  <2>2. /\ Up /\ HelloFirst /\ ui = "idle"
        /\ NoHello(uiQueue) => e # "hello" /\ NoHello(uiQueue')
        /\ OneHello(uiQueue') /\ (e = "hello" => NoHello(uiQueue'))
    BY <2>1, Taken DEF Take
  <2>3. Up'
    BY <1>14, <2>2 DEF Up, HandleReady, Undisturbed, Fault, RepeatPresence, SendFails
  <2>4. HelloFirst'
    BY <1>14, <2>2 DEF HelloFirst, HandleReady, Undisturbed, Fault, RepeatPresence, SendFails
  <2> QED
    BY <2>3, <2>4 DEF Phase
<1>15. CASE HandleResumed
  <2>1. PICK e \in {"resumed"} : Take(e)
    BY <1>15 DEF HandleResumed
  <2>2. /\ Up /\ HelloFirst /\ ui = "idle"
        /\ NoHello(uiQueue) => e # "hello" /\ NoHello(uiQueue')
        /\ OneHello(uiQueue') /\ (e = "hello" => NoHello(uiQueue'))
    BY <2>1, Taken DEF Take
  <2>3. Up'
    BY <1>15, <2>2 DEF Up, HandleResumed, Undisturbed, Fault, RepeatPresence, SendFails
  <2>4. HelloFirst'
    BY <1>15, <2>2 DEF HelloFirst, HandleResumed, Undisturbed, Fault, RepeatPresence, SendFails
  <2> QED
    BY <2>3, <2>4 DEF Phase
<1>16. CASE HandleOpcode
  <2>1. PICK e \in Payload : Take(e)
    BY <1>16 DEF HandleOpcode, Payload
  <2>2. /\ Up /\ HelloFirst /\ ui = "idle"
        /\ NoHello(uiQueue) => e # "hello" /\ NoHello(uiQueue')
        /\ OneHello(uiQueue') /\ (e = "hello" => NoHello(uiQueue'))
    BY <2>1, Taken DEF Take
  <2>3. Up'
    BY <1>16, <2>2 DEF Up, HandleOpcode, Undisturbed, Fault
  <2>4. HelloFirst'
    BY <1>16, <2>2 DEF HelloFirst, HandleOpcode, Undisturbed, Fault
  <2> QED
    BY <2>3, <2>4 DEF Phase
<1>17. CASE HandleDecompError
  BY <1>17 DEF Undisturbed, NothingAsked, Beats, Phase, Fresh, Up, HelloFirst, Quiet, Destroying, HandleDecompError, Take
<1>18. CASE HandleReconnecting
  BY <1>18 DEF Undisturbed, NothingAsked, Beats, Phase, Fresh, Up, HelloFirst, Quiet, Destroying, HandleReconnecting, Take
<1>19. CASE HandleDisconnected
  <2>1. PICK e \in Signal : Take(e)
    BY <1>19 DEF HandleDisconnected, Signal
  <2>2. /\ Up /\ HelloFirst /\ ui = "idle"
        /\ NoHello(uiQueue) => e # "hello" /\ NoHello(uiQueue')
        /\ OneHello(uiQueue') /\ (e = "hello" => NoHello(uiQueue'))
    BY <2>1, Taken DEF Take
  <2>3. Up'
    BY <1>19, <2>2 DEF Up, HandleDisconnected, Undisturbed, Fault
  <2>4. HelloFirst'
    BY <1>19, <2>2 DEF HelloFirst, HandleDisconnected, Undisturbed, Fault
  <2> QED
    BY <2>3, <2>4 DEF Phase
<1>20. CASE NetTop
  BY <1>20 DEF Undisturbed, NothingAsked, Beats, Phase, Fresh, Up, HelloFirst, Quiet, Destroying, NetTop
<1>21. CASE NetConnected
  <2>1. Fresh
    BY <1>21 DEF Phase, Up, NetConnected
  <2>2. NoHello(uiQueue') /\ OneHello(uiQueue')
    BY <1>21, <2>1, HelloNone DEF Fresh, NetConnected
  <2>3. Up'
    BY <1>21, <2>1 DEF Fresh, Up, NetConnected, Race, Undisturbed
  <2>4. HelloFirst'
    BY <1>21, <2>1, <2>2 DEF Fresh, HelloFirst, NetConnected
  <2> QED
    BY <2>3, <2>4 DEF Phase
<1>22. CASE NetRetryWait
  BY <1>22 DEF Undisturbed, NothingAsked, Beats, Phase, Fresh, Up, HelloFirst, Quiet, Destroying, NetRetryWait, Accepting
<1>23. CASE NetLeaveRecv
  BY <1>23 DEF Undisturbed, NothingAsked, Beats, Phase, Fresh, Up, HelloFirst, Quiet, Destroying, NetLeaveRecv
<1>24. CASE NetSendClose
  BY <1>24 DEF Undisturbed, NothingAsked, Beats, Phase, Fresh, Up, HelloFirst, Quiet, Destroying, NetSendClose, Receiving
<1>25. CASE NetClearSession
  BY <1>25 DEF Undisturbed, NothingAsked, Beats, Phase, Fresh, Up, HelloFirst, Quiet, Destroying, NetClearSession, MayReconnect
<1>26. CASE NetCleanup
  BY <1>26 DEF Undisturbed, NothingAsked, Beats, Phase, Fresh, Up, HelloFirst, Quiet, Destroying, NetCleanup
<1>27. CASE NetCheck
  BY <1>27 DEF Undisturbed, NothingAsked, Beats, Phase, Fresh, Up, HelloFirst, Quiet, Destroying, NetCheck
<1>28. CASE NetLockHeartbeat
  BY <1>28 DEF Undisturbed, NothingAsked, Beats, Phase, Fresh, Up, HelloFirst, Quiet, Destroying, NetLockHeartbeat
<1>29. CASE NetJoinHeartbeat
  BY <1>29 DEF Undisturbed, NothingAsked, Beats, Phase, Fresh, Up, HelloFirst, Quiet, Destroying, NetJoinHeartbeat, HeartbeatAlive
<1>30. CASE NetReset
  BY <1>30 DEF Undisturbed, NothingAsked, Beats, Phase, Fresh, Up, HelloFirst, Quiet, Destroying, NetReset, Post, Destroying
<1>31. CASE NetBackoff
  BY <1>31 DEF Undisturbed, NothingAsked, Beats, Phase, Fresh, Up, HelloFirst, Quiet, Destroying, NetBackoff, Accepting
<1>32. CASE NetWhile
  BY <1>32 DEF Undisturbed, NothingAsked, Beats, Phase, Fresh, Up, HelloFirst, Quiet, Destroying, NetWhile
<1>33. CASE NetData
  <2>1. Up /\ HelloFirst /\ curl
    BY <1>33 DEF Phase, Fresh, Up, NetData, Receiving
  <2>2. Up'
    BY <1>33, <2>1 DEF Up, NetData, Undisturbed, Fault
  <2>3. ASSUME srvHello, ~srvHello', Push("hello"), UNCHANGED <<srv, ui, uiQueue, stream, ingestOn, curl>> PROVE HelloFirst'
    <3>1. ~stream /\ ingestQ = <<>> /\ ingestQ' = IF ingestOn THEN <<"hello">> ELSE <<>>
      BY <2>1, <2>3, Pushed DEF HelloFirst, Quiet
    <3>2. ingestQ' # <<>> => Head(ingestQ') = "hello" /\ NoHello(Tail(ingestQ'))
      BY <3>1, HelloNone
    <3> QED
      BY <2>1, <2>3, <3>1, <3>2 DEF HelloFirst
  <2>4. ASSUME NEW p \in {"ready", "ack"}, ~srvHello, ~srvHello', Push(p),
               srv \in {"none", "wait"} => srv' = srv, UNCHANGED <<ui, uiQueue, stream, ingestOn, curl>>
        PROVE  HelloFirst'
    <3>1. p \in Quiet /\ p # "hello"
      BY <2>4 DEF Quiet
    <3>2. stream => NoHello(ingestQ')
      BY <2>1, <2>4, <3>1, Pushed DEF HelloFirst
    <3>3. ~stream /\ ingestQ # <<>> =>
           ingestQ' # <<>> /\ Head(ingestQ') = "hello" /\ NoHello(Tail(ingestQ'))
      BY <2>1, <2>4, <3>1, Pushed DEF HelloFirst
    <3>4. ~stream /\ ingestQ = <<>> => ingestQ' = <<>> /\ ~ingestOn
      BY <2>1, <2>4, <3>1, Pushed DEF HelloFirst
    <3> QED
      BY <2>1, <2>4, <3>2, <3>3, <3>4 DEF HelloFirst
  <2>5. \/ srvHello /\ ~srvHello' /\ Push("hello") /\ srv' = srv
        \/ \E p \in {"ready", "ack"} : /\ ~srvHello /\ ~srvHello' /\ Push(p)
                                       /\ srv \in {"none", "wait"} => srv' = srv
    BY <1>33, <2>1 DEF Up, NetData, Undisturbed, Fault
  <2>6. UNCHANGED <<ui, uiQueue, stream, ingestOn, curl>>
    BY <1>33 DEF NetData
  <2> QED
    BY <2>2, <2>3, <2>4, <2>5, <2>6 DEF Phase
<1>34. CASE \E code \in CloseCode : NetCloseFrame(code)
  <2>1. Up /\ HelloFirst /\ curl
    BY <1>34 DEF Phase, Fresh, Up, NetCloseFrame, Receiving
  <2>2. Post("otherClose") /\ npc' = "cleanup"
    BY <1>34, <2>1 DEF Up, NetCloseFrame, Undisturbed, Fault
  <2>3. (NoHello(uiQueue) => NoHello(uiQueue')) /\ OneHello(uiQueue')
    BY <2>1, <2>2, Posted DEF Told, HelloFirst
  <2>4. Up'
    BY <1>34, <2>1, <2>2 DEF Up, NetCloseFrame
  <2>5. HelloFirst'
    BY <1>34, <2>1, <2>3 DEF HelloFirst, NetCloseFrame
  <2> QED
    BY <2>4, <2>5 DEF Phase
<1>35. CASE NetCloseTimeout
  <2>1. Up /\ HelloFirst /\ curl
    BY <1>35 DEF Phase, Fresh, Up, NetCloseTimeout, Receiving
  <2>2. Post("internalClose")
    BY <1>35 DEF NetCloseTimeout
  <2>3. (NoHello(uiQueue) => NoHello(uiQueue')) /\ OneHello(uiQueue')
    BY <2>1, <2>2, Posted DEF Told, HelloFirst
  <2>4. Up'
    BY <1>35, <2>1 DEF Up, NetCloseTimeout
  <2>5. HelloFirst'
    BY <1>35, <2>1, <2>3 DEF HelloFirst, NetCloseTimeout
  <2> QED
    BY <2>4, <2>5 DEF Phase
<1>36. CASE NetInitFails
  BY <1>36 DEF Undisturbed, NothingAsked, Beats, Phase, Fresh, Up, HelloFirst, Quiet, Destroying, NetInitFails, Fault
<1>37. CASE NetConnectFails
  BY <1>37 DEF Undisturbed, NothingAsked, Beats, Phase, Fresh, Up, HelloFirst, Quiet, Destroying, NetConnectFails, Fault
<1>38. CASE NetDeadSocket
  BY <1>38 DEF Undisturbed, NothingAsked, Beats, Phase, Fresh, Up, HelloFirst, Quiet, Destroying, NetDeadSocket, Receiving, Fault
<1>39. CASE SrvFallsSilent
  BY <1>39 DEF Undisturbed, NothingAsked, Beats, Phase, Fresh, Up, HelloFirst, Quiet, Destroying, SrvFallsSilent, Fault
<1>40. CASE HbBeat
  BY <1>40 DEF Undisturbed, NothingAsked, Beats, Phase, Fresh, Up, HelloFirst, Quiet, Destroying, HbBeat, OneMoreMissed, ZombieLimit
<1>41. CASE HbSend
  BY <1>41 DEF Undisturbed, NothingAsked, Beats, Phase, Fresh, Up, HelloFirst, Quiet, Destroying, HbSend, Fault
<1>42. CASE HbRecheck
  BY <1>42 DEF Undisturbed, NothingAsked, Beats, Phase, Fresh, Up, HelloFirst, Quiet, Destroying, HbRecheck
<1>43. CASE HbWait
  BY <1>43 DEF Undisturbed, NothingAsked, Beats, Phase, Fresh, Up, HelloFirst, Quiet, Destroying, HbWait, Fault
<1>44. CASE Ingest
  <2>1. Up /\ HelloFirst /\ ingestQ # <<>> /\ ingestQ \in Seq(Quiet)
    BY <1>44 DEF Phase, Fresh, Ingest, NothingAsked
  <2>2. Inflates(Head(ingestQ))
    BY <2>1, HelloTaken DEF HelloFirst, Inflates
  <2>3. Post(Head(ingestQ)) /\ ingestQ' = Tail(ingestQ) /\ stream' = TRUE /\ ~srvHello
    BY <1>44, <2>1, <2>2 DEF Ingest, Undisturbed, Fault, HelloFirst
  <2>4. Head(ingestQ) \in Told
    BY <2>1, Parts DEF Told
  <2>5. NoHello(ingestQ')
    BY <2>1, <2>3, HelloTaken DEF HelloFirst
  <2>6. CASE stream
    <3>1. Head(ingestQ) # "hello"
      BY <2>2, <2>6 DEF Inflates
    <3>2. (NoHello(uiQueue) => NoHello(uiQueue')) /\ OneHello(uiQueue')
      BY <2>1, <2>3, <2>4, <3>1, Posted DEF HelloFirst
    <3> QED
      BY <1>44, <2>1, <2>3, <2>5, <2>6, <3>2 DEF Phase, Up, HelloFirst, Ingest
  <2>7. CASE ~stream
    <3>1. OneHello(uiQueue') /\ ui \notin {"hello", "handshake"} /\ srv \in {"none", "wait"}
      BY <2>1, <2>3, <2>4, <2>7, Posted DEF HelloFirst
    <3> QED
      BY <1>44, <2>1, <2>3, <2>5, <3>1 DEF Phase, Up, HelloFirst, Ingest
  <2> QED
    BY <2>6, <2>7
<1>45. CASE Destroyed
  BY <1>45 DEF Undisturbed, NothingAsked, Beats, Phase, Fresh, Up, HelloFirst, Quiet, Destroying, Destroyed, vars
<1>46. CASE UNCHANGED vars
  BY <1>46 DEF Undisturbed, NothingAsked, Beats, Phase, Fresh, Up, HelloFirst, Quiet, Destroying, vars
<1> QED
  BY <1>1, <1>2, <1>3, <1>4, <1>5, <1>6, <1>7, <1>8, <1>9, <1>10, <1>11, <1>12, <1>13, <1>14, <1>15, <1>16, <1>17, <1>18, <1>19, <1>20, <1>21, <1>22, <1>23, <1>24, <1>25, <1>26, <1>27, <1>28, <1>29, <1>30, <1>31, <1>32, <1>33, <1>34, <1>35, <1>36, <1>37, <1>38, <1>39, <1>40, <1>41, <1>42, <1>43, <1>44, <1>45, <1>46
     DEF Next, User, HardStop, UIStep, UIEvent, NetStep, NetFrame, NetFault, HbStep

\* Faults and races are counted and never forgotten.
LEMMA FaultsCounted ==
  [Next]_vars => faults' \in {faults, faults + 1} /\ races' \in {races, races + 1}
<1> SUFFICES ASSUME [Next]_vars PROVE faults' \in {faults, faults + 1} /\ races' \in {races, races + 1}
  OBVIOUS
<1>1. CASE User
  BY <1>1 DEF Fault, User, Start, Stop, Destroy, UISend, SendFails
<1>2. CASE HardStop
  BY <1>2 DEF Fault, HardStop, HardStopJoinNetwork, HardStopJoinHeartbeat
<1>3. CASE UIStep
  BY <1>3 DEF Fault, UIStep, UISendRecheck, ChooseHandshake, SendHandshake, SrvOnHandshake, SendFails, ClearResuming, SpawnHeartbeat
<1>4. CASE UIEvent
  BY <1>4 DEF Fault, UIEvent, DropPayload, HandleHello, HandleReady, HandleResumed, RepeatPresence, SendFails, HandleOpcode, HandleDecompError, HandleReconnecting, HandleDisconnected
<1>5. CASE NetStep
  BY <1>5 DEF Fault, NetStep, NetTop, NetConnected, Race, NetRetryWait, NetLeaveRecv, NetSendClose, NetClearSession, NetCleanup, NetCheck, NetLockHeartbeat, NetJoinHeartbeat, NetReset, NetBackoff, NetWhile
<1>6. CASE NetFrame
  BY <1>6 DEF Fault, NetFrame, NetData, NetCloseFrame
<1>7. CASE NetCloseTimeout
  BY <1>7 DEF Fault, NetCloseTimeout
<1>8. CASE NetFault
  BY <1>8 DEF Fault, NetFault, NetInitFails, NetConnectFails, NetDeadSocket, SrvFallsSilent
<1>9. CASE HbStep
  BY <1>9 DEF Fault, HbStep, HbBeat, HbSend, HbRecheck, HbWait
<1>10. CASE Ingest
  BY <1>10 DEF Fault, Ingest
<1>11. CASE Destroyed
  BY <1>11 DEF Fault, Destroyed, vars
<1>12. CASE UNCHANGED vars
  BY <1>12 DEF Fault, vars
<1> QED
  BY <1>1, <1>2, <1>3, <1>4, <1>5, <1>6, <1>7, <1>8, <1>9, <1>10, <1>11, <1>12 DEF Next

\* Each step keeps the undisturbed gateway calm.
LEMMA CalmStep == TypeOK /\ Calm /\ [Next]_vars => Calm'
<1> SUFFICES ASSUME TypeOK, Calm, [Next]_vars, faults' = 0, races' = 0
             PROVE  (NothingAsked /\ Beats /\ Phase)'
  BY DEF Calm
<1>1. Undisturbed
  BY FaultsCounted DEF Undisturbed, TypeOK, DataTypeOK
<1>2. NothingAsked /\ Beats /\ Phase
  BY <1>1 DEF Calm, Undisturbed
<1> QED
  BY <1>1, <1>2, AskedStep, BeatsStep, PhaseStep

\* Without a fault the threads talk each other into a reconnect in one way only: a
\* connect between the two halves of a skipped send.
THEOREM NeverOnItsOwn == Spec => []NoSpontaneousReconnect
<1>1. Init => Calm
  BY DEF Init, Calm, NothingAsked, Beats, Phase, Fresh, Destroying
<1>2. Calm => NoSpontaneousReconnect
  BY DEF Calm, NothingAsked, NoSpontaneousReconnect
<1> QED
  BY <1>1, <1>2, CalmStep, TypeCorrect, PTL DEF Spec

=============================================================================
