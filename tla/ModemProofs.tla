---------------------------- MODULE ModemProofs -----------------------------
(***************************************************************************)
(* Proofs about the modem driver, for any settings, any clock and any      *)
(* order of failures.                                                      *)
(***************************************************************************)
EXTENDS Modem, TLAPS

\* The driver starts in a state of the inductive invariant.
LEMMA InitModemInv == Init => ModemInv
<1> SUFFICES ASSUME Init PROVE ModemInv
  OBVIOUS
<1>1. ClockModulus \in Nat \ {0} /\ MaxClock \in 1 .. ClockModulus - 1
  BY ModemConstantsOK
<1>2. 1 \in 1 .. MaxClock /\ 0 \in 0 .. ClockModulus - 1
  BY <1>1
<1>3. TypeOK
  <2>1. /\ net \in BOOLEAN /\ broker \in BOOLEAN /\ fix \in BOOLEAN
        /\ handed \in BOOLEAN /\ published \in BOOLEAN
    BY DEF Init
  <2>2. clock \in 1 .. MaxClock /\ lastFix \in 0 .. ClockModulus - 1
    BY <1>2 DEF Init
  <2>3. tries \in 0 .. 6 /\ gpsFails \in 0 .. 3
    BY DEF Init
  <2>4. QED
    BY <2>1, <2>2, <2>3 DEF Init, TypeOK
<1>4. LockMatchesCode /\ CallMatchesCode /\ TriesInRange /\ KeepaliveCreated
  BY DEF Init, LockMatchesCode, Locked, CallMatchesCode, TriesInRange, InMqtt,
         KeepaliveCreated, Resumable, GpsPart
<1>5. QED
  BY <1>3, <1>4 DEF ModemInv

\* The configuration is what it was when the driver was made.
LEMMA ConfigurationKept == [Next]_vars => enabled' = enabled
<1> USE DEF vars, world
<1>1. CallInit \/ CallSend \/ CallerLocks => enabled' = enabled
  BY DEF CallInit, BeginInit, CallSend, Begin, CallerLocks, EnterGprs, EnterMqtt, EnterGps,
     EnterReconnect, ActualPosition, SendMessage
<1>2. SetUpGprs \/ WaitForNetwork \/ AttachFails \/ Attach => enabled' = enabled
  BY DEF SetUpGprs, RestartModem, GprsFailed, WaitForNetwork, AttachFails, Attach
<1>3. MqttConnect \/ MqttConnectFails \/ MqttConnected => enabled' = enabled
  BY DEF MqttConnect, MqttConnectFails, MqttConnected
<1>4. StartGps \/ SaveFastFix \/ FixLacking \/ FixAcquired => enabled' = enabled
  BY DEF StartGps, WakeUp, SaveFastFix, FixLacking, FixAcquired
<1>5. Check \/ CheckGprs \/ CheckGps \/ CheckMqtt => enabled' = enabled
  BY DEF Check, WakeUp, CheckGprs, CheckGps, CheckMqtt
<1>6. Update \/ Deliver \/ Acknowledged \/ PublishFails => enabled' = enabled
  BY DEF Update, Deliver, Acknowledged, PublishFails
<1>7. Sleep \/ MqttWakes \/ MqttLocks \/ MqttUnlocks \/ Drops \/ FixFound \/ Tick
        => enabled' = enabled
  BY DEF Sleep, MqttWakes, MqttLocks, MqttUnlocks, Drops, FixFound, Tick
<1>8. PowerDown \/ Panics => enabled' = enabled
  BY DEF PowerDown, Panics, ChipReset
<1>9. QED
  BY <1>1, <1>2, <1>3, <1>4, <1>5, <1>6, <1>7, <1>8 DEF Next, CallerStep

\* Every step of the driver keeps the inductive invariant.
LEMMA StepModemInv == ModemInv /\ [Next]_vars => ModemInv'
<1> SUFFICES ASSUME ModemInv, [Next]_vars PROVE ModemInv'
  OBVIOUS
<1>0. enabled' = enabled /\ GsmEnabled' = GsmEnabled
  BY ConfigurationKept DEF GsmEnabled
<1> USE <1>0 DEF ModemInv, TypeOK, LockMatchesCode, Locked, CallMatchesCode, TriesInRange,
            InMqtt, MqttAttempts, KeepaliveCreated, Resumable, GpsPart,
            world, locks, sim, local, Goto
<1>1. CASE UNCHANGED vars
  BY <1>1 DEF vars
<1>2. CASE CallInit
  <2>1. handed' \in BOOLEAN /\ published' \in BOOLEAN
    BY <1>2 DEF CallInit, BeginInit, Begin
  <2>2. tries' \in 0 .. 6 /\ gpsFails' \in 0 .. 3
    BY <1>2 DEF CallInit, BeginInit, Begin
  <2>3. TypeOK'
    BY <2>1, <2>2, <1>2 DEF CallInit, BeginInit, Begin
  <2>4. (LockMatchesCode /\ CallMatchesCode /\ TriesInRange /\ KeepaliveCreated)'
    BY <1>2 DEF CallInit, BeginInit, Begin
  <2>5. QED
    BY <2>3, <2>4
<1>3. CASE CallSend
  <2>1. handed' \in BOOLEAN /\ published' \in BOOLEAN
    BY <1>3 DEF CallSend, Begin
  <2>2. tries' \in 0 .. 6 /\ gpsFails' \in 0 .. 3
    BY <1>3 DEF CallSend, Begin
  <2>3. TypeOK'
    BY <2>1, <2>2, <1>3 DEF CallSend, Begin
  <2>4. (LockMatchesCode /\ CallMatchesCode /\ TriesInRange /\ KeepaliveCreated)'
    BY <1>3 DEF CallSend, Begin
  <2>5. QED
    BY <2>3, <2>4
<1>4. CASE EnterGprs
  BY <1>4 DEF EnterGprs, Acquire
<1>5. CASE EnterMqtt
  BY <1>5 DEF EnterMqtt, Acquire
<1>6. CASE EnterGps
  BY <1>6 DEF EnterGps, Acquire, Return
<1>7. CASE EnterReconnect
  BY <1>7 DEF EnterReconnect, Acquire
<1>8. CASE ActualPosition
  BY <1>8 DEF ActualPosition, PositionCodes, Return
<1>9. CASE SendMessage
  <2>1. CASE Acquire /\ pc' = "sending"
    BY <1>9, <2>1 DEF SendMessage, Acquire, Return
  <2>2. CASE Return("SENDING_DATA_FAILED")
    BY <1>9, <2>2 DEF SendMessage, Return
  <2>3. QED
    BY <1>9, <2>1, <2>2 DEF SendMessage
<1>10. CASE SetUpGprs
  <2>1. net' \in BOOLEAN /\ broker' \in BOOLEAN /\ fix' \in BOOLEAN
    BY <1>10 DEF SetUpGprs, RestartModem
  <2>2. CASE GprsFailed
    BY <1>10, <2>1, <2>2 DEF SetUpGprs, GprsFailed, Release, Return
  <2>3. CASE ~GprsFailed
    BY <1>10, <2>1, <2>3 DEF SetUpGprs
  <2>4. QED
    BY <2>2, <2>3
<1>11. CASE WaitForNetwork
  BY <1>11 DEF WaitForNetwork, GprsFailed, Release, Return
<1>12. CASE AttachFails
  BY <1>12 DEF AttachFails
<1>13. CASE Attach
  BY <1>13 DEF Attach, Release
<1>14. CASE MqttConnect
  BY <1>14 DEF MqttConnect
<1>15. CASE MqttConnectFails
  BY <1>15 DEF MqttConnectFails, Release, Return
<1>16. CASE MqttConnected
  BY <1>16 DEF MqttConnected, CreateMqttTask
<1>17. CASE StartGps
  BY <1>17 DEF StartGps, GpsFailed, WakeUp, Release, Return
<1>18. CASE SaveFastFix
  <2>1. lastFix' \in 0 .. ClockModulus - 1
    BY <1>18, ModemConstantsOK DEF SaveFastFix, ActTime
  <2>2. pc = "save" /\ pc' = "waitFix" /\ UNCHANGED <<world, locks, sim, tries, gpsFails>>
    BY <1>18 DEF SaveFastFix, ActTime
  <2>3. QED
    BY <2>1, <2>2
<1>19. CASE FixLacking
  BY <1>19 DEF FixLacking, GpsFailed, Release, Return
<1>20. CASE FixAcquired
  BY <1>20 DEF FixAcquired, Release, Return
<1>21. CASE Check
  BY <1>21 DEF Check, WakeUp, Release
<1>22. CASE CheckGprs
  BY <1>22 DEF CheckGprs
<1>23. CASE CheckGps
  BY <1>23 DEF CheckGps
<1>24. CASE CheckMqtt
  BY <1>24 DEF CheckMqtt
<1>25. CASE Update
  BY <1>25 DEF Update
<1>26. CASE Deliver
  BY <1>26 DEF Deliver
<1>27. CASE Acknowledged
  BY <1>27 DEF Acknowledged, Release, Return
<1>28. CASE PublishFails
  BY <1>28 DEF PublishFails, Release, Return
<1>29. CASE Sleep
  BY <1>29 DEF Sleep
<1>30. CASE MqttWakes \/ MqttLocks
  BY <1>30 DEF MqttWakes, MqttLocks
<1>31. CASE MqttUnlocks
  <2>1. net' \in BOOLEAN /\ broker' \in BOOLEAN /\ fix' \in BOOLEAN
    BY <1>31 DEF MqttUnlocks
  <2>2. lock = "mqtt" /\ lock' = "free" /\ UNCHANGED <<modem, clock, mqttTask, sim, pc, local>>
    BY <1>31 DEF MqttUnlocks
  <2>3. QED
    BY <2>1, <2>2
<1>32. CASE Drops
  <2>1. net' \in BOOLEAN /\ broker' \in BOOLEAN /\ fix' \in BOOLEAN
    BY <1>32 DEF Drops
  <2>2. UNCHANGED <<modem, clock, locks, sim, pc, local>>
    BY <1>32 DEF Drops
  <2>3. QED
    BY <2>1, <2>2
<1>33. CASE FixFound
  BY <1>33 DEF FixFound
<1>34. CASE Tick
  <2>1. clock' \in 1 .. MaxClock
    BY <1>34, ModemConstantsOK DEF Tick
  <2>2. UNCHANGED <<net, broker, fix, modem, locks, sim, pc, local>>
    BY <1>34 DEF Tick
  <2>3. QED
    BY <2>1, <2>2
<1>35. CASE PowerDown \/ Panics
  <2>1. /\ net' \in BOOLEAN /\ broker' \in BOOLEAN /\ fix' \in BOOLEAN
        /\ handed' \in BOOLEAN /\ published' \in BOOLEAN
    BY <1>35 DEF PowerDown, Panics, ChipReset
  <2>2. tries' \in 0 .. 6 /\ gpsFails' \in 0 .. 3 /\ lastFix' \in 0 .. ClockModulus - 1
    <3>1. {0} \union 1 .. clock \union ActTime \subseteq 0 .. ClockModulus - 1
      BY ModemConstantsOK DEF ActTime
    <3>2. lastFix' \in {0} \union 1 .. clock \union ActTime /\ tries' = 0 /\ gpsFails' = 0
      BY <1>35 DEF PowerDown, Panics, ChipReset
    <3>3. QED
      BY <3>1, <3>2
  <2>3. /\ lock' = "free" /\ mqttTask' = "none" /\ call' = "none" /\ res' = "none"
        /\ pc' = "idle" /\ UNCHANGED <<modem, clock>>
    BY <1>35 DEF PowerDown, Panics, ChipReset
  <2>4. QED
    BY <2>1, <2>2, <2>3
<1>36. QED
  BY <1>1, <1>2, <1>3, <1>4, <1>5, <1>6, <1>7, <1>8, <1>9, <1>10, <1>11, <1>12,
     <1>13, <1>14, <1>15, <1>16, <1>17, <1>18, <1>19, <1>20, <1>21, <1>22, <1>23,
     <1>24, <1>25, <1>26, <1>27, <1>28, <1>29, <1>30, <1>31, <1>32, <1>33, <1>34,
     <1>35 DEF Next, CallerLocks, CallerStep

\* The same of init() on a chip whose state manager has just loaded whatever
\* timestamp its file held.
LEMMA BeginInitInv ==
  ASSUME ModemInv, OffOnlyBeforeWakeUp, BeginInit, lastFix' \in 0 .. ClockModulus - 1
  PROVE  ModemInv' /\ OffOnlyBeforeWakeUp'
<1> USE DEF ModemInv, TypeOK, LockMatchesCode, Locked, CallMatchesCode, TriesInRange,
            InMqtt, MqttAttempts, KeepaliveCreated, Resumable, GpsPart,
            world, locks, Goto, BeginInit, Begin
<1>1. enabled' = enabled /\ GsmEnabled' = GsmEnabled
  BY DEF GsmEnabled
<1>2. handed' \in BOOLEAN /\ published' \in BOOLEAN
  OBVIOUS
<1>3. tries' \in 0 .. 6 /\ gpsFails' \in 0 .. 3
  OBVIOUS
<1>4. TypeOK'
  BY <1>1, <1>2, <1>3
<1>5. (LockMatchesCode /\ CallMatchesCode /\ TriesInRange /\ KeepaliveCreated)'
  BY <1>1
<1>6. OffOnlyBeforeWakeUp'
  BY <1>1 DEF OffOnlyBeforeWakeUp
<1>7. QED
  BY <1>4, <1>5, <1>6

\* The inductive invariant holds of every behaviour of the driver.
THEOREM ModemInvHolds == Spec => []ModemInv
<1>1. ModemInv /\ [Next]_vars => ModemInv'
  BY StepModemInv
<1>2. QED
  BY <1>1, InitModemInv, PTL DEF Spec

\* The driver's variables keep their types: the counters of attempts their
\* limits, and the timestamp the width of an unsigned long.
THEOREM ModemTypeCorrect == Spec => []TypeOK
<1>1. ModemInv => TypeOK
  BY DEF ModemInv
<1>2. QED
  BY <1>1, ModemInvHolds, PTL

\* Every path through init() and sendActPosition() that takes SERIAL_LOCK
\* gives it back, and nothing between its entry and return runs without it.
THEOREM LockGivenBack == Spec => []LockMatchesCode
<1>1. ModemInv => LockMatchesCode
  BY DEF ModemInv
<1>2. QED
  BY <1>1, ModemInvHolds, PTL

\* No order of failures in init() leads to a sendActPosition() without the
\* keepalive task of MqttClient::begin().
THEOREM SendsWithKeepalive == Spec => []KeepaliveExists
<1>1. ModemInv => KeepaliveExists
  BY DEF ModemInv, KeepaliveCreated, KeepaliveExists
<1>2. QED
  BY <1>1, ModemInvHolds, PTL

-----------------------------------------------------------------------------
(* The power of the modem *)

\* A modem that is off when init() has succeeded was never woken up, which
\* takes a configuration with neither GSM nor GPS.
LEMMA StepOff ==
  ASSUME ModemInv, OffOnlyBeforeWakeUp, [Next]_vars
  PROVE  /\ OffOnlyBeforeWakeUp'
         /\ modem = "off" /\ modem' # "off" /\ enabled # {} => call = "init"
<1>0. /\ call = "none" <=> pc = "idle"
      /\ pc \in {"gprsEnter", "mqttEnter", "gpsEnter"} => call = "init"
      /\ pc \in {"reconnect", "check", "checkGprs", "checkGps", "checkMqtt", "mqttAgain",
                 "position", "update", "publish", "sending", "sent"} => call = "send"
      /\ call \in {"none", "init", "send"}
      /\ enabled' = enabled /\ GsmEnabled' = GsmEnabled
      /\ enabled # {} => GsmEnabled \/ GpsEnabled
  <2>1. enabled \in SUBSET {"GSM", "GPS"}
    BY DEF ModemInv, TypeOK
  <2>2. enabled # {} => GsmEnabled \/ GpsEnabled
    BY <2>1 DEF GsmEnabled, GpsEnabled
  <2>3. QED
    BY <2>2, ConfigurationKept DEF ModemInv, CallMatchesCode, TypeOK, GsmEnabled
<1> USE DEF OffOnlyBeforeWakeUp, Resumable, Goto, InMqtt, world, locks, sim, local
<1>1. CASE UNCHANGED vars
  BY <1>1, <1>0 DEF vars
<1>2. CASE CallInit \/ CallSend
  BY <1>2, <1>0 DEF CallInit, BeginInit, CallSend, Begin
<1>3. CASE EnterGprs \/ EnterMqtt \/ EnterReconnect
  BY <1>3, <1>0 DEF EnterGprs, EnterMqtt, EnterReconnect, Acquire
<1>4. CASE EnterGps
  BY <1>4, <1>0 DEF EnterGps, Acquire, Return
<1>5. CASE ActualPosition
  BY <1>5, <1>0 DEF ActualPosition, PositionCodes, Return
<1>6. CASE SendMessage
  BY <1>6, <1>0 DEF SendMessage, Acquire, Return
<1>7. CASE SetUpGprs
  BY <1>7, <1>0 DEF SetUpGprs, RestartModem, GprsFailed, Release, Return
<1>8. CASE WaitForNetwork
  BY <1>8, <1>0 DEF WaitForNetwork, GprsFailed, Release, Return
<1>9. CASE AttachFails \/ Attach
  BY <1>9, <1>0 DEF AttachFails, Attach, Release
<1>10. CASE MqttConnect \/ MqttConnected
  BY <1>10, <1>0 DEF MqttConnect, MqttConnected, CreateMqttTask
<1>11. CASE MqttConnectFails
  BY <1>11, <1>0 DEF MqttConnectFails, Release, Return
<1>12. CASE StartGps
  BY <1>12, <1>0 DEF StartGps, GpsFailed, WakeUp, Release, Return
<1>13. CASE SaveFastFix
  BY <1>13, <1>0 DEF SaveFastFix
<1>14. CASE FixLacking
  BY <1>14, <1>0 DEF FixLacking, GpsFailed, Release, Return
<1>15. CASE FixAcquired
  BY <1>15, <1>0 DEF FixAcquired, Release, Return
<1>16. CASE Check \/ CheckGprs \/ CheckGps \/ CheckMqtt
  BY <1>16, <1>0 DEF Check, CheckGprs, CheckGps, CheckMqtt, WakeUp, Release
<1>17. CASE Update \/ Deliver
  BY <1>17, <1>0 DEF Update, Deliver
<1>18. CASE Acknowledged \/ PublishFails
  BY <1>18, <1>0 DEF Acknowledged, PublishFails, Release, Return
<1>19. CASE Sleep
  BY <1>19, <1>0 DEF Sleep
<1>20. CASE MqttWakes \/ MqttLocks \/ MqttUnlocks
  BY <1>20, <1>0 DEF MqttWakes, MqttLocks, MqttUnlocks
<1>21. CASE Drops \/ FixFound \/ Tick
  BY <1>21, <1>0 DEF Drops, FixFound, Tick
<1>22. CASE PowerDown \/ Panics
  BY <1>22, <1>0 DEF PowerDown, Panics, ChipReset
<1>23. QED
  BY <1>1, <1>2, <1>3, <1>4, <1>5, <1>6, <1>7, <1>8, <1>9, <1>10, <1>11, <1>12, <1>13,
     <1>14, <1>15, <1>16, <1>17, <1>18, <1>19, <1>20, <1>21, <1>22
     DEF Next, CallerLocks, CallerStep

\* With a network or a receiver to look after, a modem that is off is
\* switched on by init() only, however the calls before it ended.
THEOREM PoweredOffForGood == Spec => PowerOffIsFinal
<1>1. Init => OffOnlyBeforeWakeUp
  BY DEF Init, OffOnlyBeforeWakeUp, Resumable
<1>2. ModemInv /\ OffOnlyBeforeWakeUp /\ [Next]_vars =>
        /\ OffOnlyBeforeWakeUp'
        /\ [modem = "off" /\ modem' # "off" /\ enabled # {} => call = "init"]_vars
  BY StepOff
<1>3. QED
  BY <1>1, <1>2, ModemInvHolds, PTL DEF Spec, PowerOffIsFinal

-----------------------------------------------------------------------------
(* GSM disabled *)

\* The queries over a line that was never opened keep the caller inside
\* reconnect(), and the client that was never set up does not connect.
LEMMA StepWithoutGsm ==
  ASSUME ModemInv, NothingWithoutGsm, NeverConnected, [Next]_vars
  PROVE  NothingWithoutGsm' /\ NeverConnected'
<1>e. CASE GsmEnabled
  BY <1>e, ConfigurationKept DEF NothingWithoutGsm, NeverConnected, GsmEnabled
<1>n. CASE ~GsmEnabled
  <2>0. /\ ~GsmEnabled
        /\ call = "none" <=> pc = "idle"
        /\ broker = FALSE /\ ~handed
        /\ pc \notin {"position", "update", "publish", "sending", "sent"}
    BY <1>n DEF ModemInv, TypeOK, CallMatchesCode, NothingWithoutGsm, NeverConnected
  <2> USE DEF NothingWithoutGsm, NeverConnected, GsmEnabled, Goto, world, locks, sim, local
  <2>1. CASE UNCHANGED vars
    BY <2>1, <2>0 DEF vars
  <2>2. CASE CallInit \/ CallSend
    BY <2>2, <2>0 DEF CallInit, BeginInit, CallSend, Begin
  <2>3. CASE EnterGprs \/ EnterMqtt \/ EnterReconnect
    BY <2>3, <2>0 DEF EnterGprs, EnterMqtt, EnterReconnect, Acquire
  <2>4. CASE EnterGps
    BY <2>4, <2>0 DEF EnterGps, Acquire, Return
  <2>5. CASE ActualPosition \/ SendMessage \/ Update \/ Deliver \/ Acknowledged \/ PublishFails
    BY <2>5, <2>0 DEF ActualPosition, SendMessage, Update, Deliver, Acknowledged, PublishFails
  <2>6. CASE SetUpGprs
    BY <2>6, <2>0 DEF SetUpGprs, RestartModem, GprsFailed, Release, Return
  <2>7. CASE WaitForNetwork
    BY <2>7, <2>0 DEF WaitForNetwork, GprsFailed, Release, Return
  <2>8. CASE AttachFails \/ Attach
    BY <2>8, <2>0 DEF AttachFails, Attach, Release
  <2>9. CASE MqttConnect \/ MqttConnectFails \/ MqttConnected
    BY <2>9, <2>0 DEF MqttConnect, MqttConnectFails, MqttConnected, ClientSetUp
  <2>10. CASE StartGps
    BY <2>10, <2>0 DEF StartGps, SerialBegun, GpsFailed, WakeUp, Release, Return
  <2>11. CASE SaveFastFix
    BY <2>11, <2>0 DEF SaveFastFix
  <2>12. CASE FixLacking
    BY <2>12, <2>0 DEF FixLacking, GpsFailed, Release, Return
  <2>13. CASE FixAcquired
    BY <2>13, <2>0 DEF FixAcquired, Release, Return
  <2>14. CASE Check
    BY <2>14, <2>0 DEF Check, Answer, SerialBegun, WakeUp
  <2>15. CASE CheckGprs \/ CheckGps \/ CheckMqtt
    BY <2>15, <2>0 DEF CheckGprs, CheckGps, CheckMqtt
  <2>16. CASE Sleep \/ MqttWakes \/ MqttLocks
    BY <2>16, <2>0 DEF Sleep, MqttWakes, MqttLocks
  <2>17. CASE MqttUnlocks
    <3>1. ~broker' /\ UNCHANGED <<pc, handed>>
      BY <2>17, <2>0 DEF MqttUnlocks
    <3>2. QED
      BY <3>1, <2>0
  <2>18. CASE Drops \/ FixFound \/ Tick
    BY <2>18, <2>0 DEF Drops, FixFound, Tick
  <2>19. CASE PowerDown \/ Panics
    BY <2>19, <2>0 DEF PowerDown, Panics, ChipReset
  <2>20. QED
    BY <2>1, <2>2, <2>3, <2>4, <2>5, <2>6, <2>7, <2>8, <2>9, <2>10, <2>11, <2>12, <2>13,
       <2>14, <2>15, <2>16, <2>17, <2>18, <2>19 DEF Next, CallerLocks, CallerStep
<1>q. QED
  BY <1>e, <1>n

\* With GSM disabled the broker is never connected and no position is ever
\* handed over, whatever the GPS setting.
THEOREM GsmIsNeeded == Spec => []NothingWithoutGsm
<1>1. Init => NothingWithoutGsm /\ NeverConnected
  BY DEF Init, NothingWithoutGsm, NeverConnected
<1>2. ModemInv /\ NothingWithoutGsm /\ NeverConnected /\ [Next]_vars
        => NothingWithoutGsm' /\ NeverConnected'
  BY StepWithoutGsm
<1>3. QED
  BY <1>1, <1>2, ModemInvHolds, PTL DEF Spec

-----------------------------------------------------------------------------
(* The interface *)

\* Every step of the driver is a step of the interface or none.
LEMMA StepISim == ModemInv /\ [Next]_vars => [S!Next]_S!vars
<1> SUFFICES ASSUME ModemInv, [Next]_vars PROVE [S!Next]_S!vars
  OBVIOUS
<1>0. /\ call = "none" <=> pc = "idle"
      /\ pc \in {"gprsEnter", "mqttEnter", "gpsEnter"} => call = "init"
      /\ pc \in {"reconnect", "check", "checkGprs", "checkGps", "checkMqtt", "mqttAgain",
                 "position", "update", "publish", "sending", "sent"} => call = "send"
      /\ call \in {"none", "init", "send"}
      /\ call = "send" => /\ handed <=> pc \in {"publish", "sending", "sent"}
                          /\ published <=> pc = "sent"
  BY DEF ModemInv, CallMatchesCode, TypeOK
\* The codes that the calls may return, place by place.
<1>a. ASSUME NEW c \in S!InitCodes, call = "init", Return(c)
      PROVE  S!Next
  BY <1>a DEF Return, S!Next, S!Return, S!Codes, S!ReturnCodes
<1>b. ASSUME NEW c \in S!NoPositionCodes, call = "send", ~handed, Return(c)
      PROVE  S!Next
  BY <1>b DEF Return, S!Next, S!Return, S!Codes, S!ReturnCodes
<1>c. ASSUME call = "send", handed, Return("SENDING_DATA_FAILED")
      PROVE  S!Next
  BY <1>c DEF Return, S!Next, S!Return, S!Codes, S!ReturnCodes
<1>d. ASSUME call = "send", handed, published, Return("Ok")
      PROVE  S!Next
  BY <1>d DEF Return, S!Next, S!Return, S!Codes, S!InitCodes, S!ReturnCodes
<1>1. CASE UNCHANGED sim
  BY <1>1 DEF sim, S!vars
<1>2. CASE CallInit \/ CallSend
  BY <1>2 DEF CallInit, BeginInit, CallSend, Begin, S!Next, S!Call
<1>3. CASE EnterGps
  BY <1>3, <1>0, <1>1, <1>a DEF EnterGps, S!InitCodes
<1>4. CASE ActualPosition
  BY <1>4, <1>0, <1>1, <1>b DEF ActualPosition, PositionCodes, S!NoPositionCodes
<1>5. CASE SendMessage
  BY <1>5, <1>0, <1>1, <1>c DEF SendMessage
<1>6. CASE GprsFailed /\ pc \in {"gprs", "network"}
  BY <1>6, <1>0, <1>a, <1>b DEF GprsFailed, S!InitCodes, S!NoPositionCodes
<1>7. CASE MqttConnectFails
  BY <1>7, <1>0, <1>1, <1>a, <1>b
     DEF MqttConnectFails, InMqtt, sim, S!InitCodes, S!NoPositionCodes
<1>8. CASE GpsFailed /\ pc \in {"gps", "waitFix"}
  BY <1>8, <1>0, <1>1, <1>a, <1>b DEF GpsFailed, S!InitCodes, S!NoPositionCodes
<1>9. CASE FixAcquired
  BY <1>9, <1>0, <1>1, <1>a DEF FixAcquired, S!InitCodes
<1>10. CASE Update
  BY <1>10, <1>0 DEF Update, S!Next, S!HandPosition
<1>11. CASE Deliver
  BY <1>11, <1>0 DEF Deliver, S!Next, S!Publish
<1>12. CASE Acknowledged
  BY <1>12, <1>0, <1>d DEF Acknowledged
<1>13. CASE PublishFails
  BY <1>13, <1>0, <1>c DEF PublishFails
<1>14. CASE PowerDown \/ Panics
  BY <1>14 DEF PowerDown, Panics, ChipReset, S!Next, S!PowerDown
<1>15. CASE SetUpGprs \/ WaitForNetwork
  BY <1>15, <1>1, <1>6 DEF SetUpGprs, WaitForNetwork, sim
<1>16. CASE StartGps \/ FixLacking
  BY <1>16, <1>1, <1>8 DEF StartGps, FixLacking, sim
<1>17. CASE EnterGprs \/ EnterMqtt \/ EnterReconnect \/ AttachFails \/ Attach \/ MqttConnect
            \/ MqttConnected \/ SaveFastFix \/ Check \/ CheckGprs \/ CheckGps \/ CheckMqtt
  BY <1>17, <1>1 DEF EnterGprs, EnterMqtt, EnterReconnect, AttachFails, Attach, MqttConnect,
     MqttConnected, SaveFastFix, Check, CheckGprs, CheckGps, CheckMqtt
<1>18. CASE Sleep \/ MqttWakes \/ MqttLocks \/ MqttUnlocks \/ Drops \/ FixFound \/ Tick
  BY <1>18, <1>1 DEF Sleep, MqttWakes, MqttLocks, MqttUnlocks, Drops, FixFound, Tick
<1>19. CASE UNCHANGED vars
  BY <1>19, <1>1 DEF vars
<1>20. QED
  BY <1>2, <1>3, <1>4, <1>5, <1>7, <1>9, <1>10, <1>11, <1>12, <1>13, <1>14, <1>15, <1>16,
     <1>17, <1>18, <1>19 DEF Next, CallerLocks, CallerStep

\* The driver implements the interface that the tracker is built on: a status
\* code means what ISim says it means, whatever fails in between.
THEOREM ModemIsISim == Spec => ImplementsISim
<1>1. Init => S!Init
  BY DEF Init, S!Init
<1>2. ModemInv /\ [Next]_vars => [S!Next]_S!vars
  BY StepISim
<1>3. QED
  BY <1>1, <1>2, ModemInvHolds, PTL DEF Spec, ImplementsISim, S!Spec

-----------------------------------------------------------------------------
(* The age of the GPS assistance file *)

\* A difference of two unsigned longs is their distance, one way or round.
LEMMA UnsignedDifference ==
  ASSUME NEW a \in 0 .. ClockModulus - 1, NEW b \in 0 .. ClockModulus - 1
  PROVE  (a - b) % ClockModulus = IF b <= a THEN a - b ELSE ClockModulus - (b - a)
<1>0. ClockModulus \in Nat \ {0}
  BY ModemConstantsOK
<1>1. CASE b <= a
  <2>1. a - b \in 0 .. ClockModulus - 1
    BY <1>0, <1>1
  <2>2. \A x \in 0 .. ClockModulus - 1 : x % ClockModulus = x
    BY <1>0
  <2>3. QED
    BY <1>1, <2>1, <2>2
<1>2. CASE ~(b <= a)
  <2> DEFINE x == ClockModulus - (b - a)
  <2>1. x \in 0 .. ClockModulus - 1 /\ a - b = x - ClockModulus
    BY <1>0, <1>2
  <2>2. \A y \in 0 .. ClockModulus - 1 : (y - ClockModulus) % ClockModulus = y
    BY <1>0
  <2>3. QED
    BY <1>2, <2>1, <2>2
<1>3. QED
  BY <1>1, <1>2

\* With the operands the way round the code has them, a file is due when it
\* is young: unless it is of this very second, or more than ClockModulus -
\* FastFixAge old, which is 136 years less two days and a half.
LEMMA DueWhenYoung ==
  ASSUME NEW now \in 0 .. ClockModulus - 1, lastFix \in 0 .. ClockModulus - 1, lastFix < now
  PROVE  FastFixDue(now) <=> FastFix /\ now - lastFix <= ClockModulus - FastFixAge
<1>1. (lastFix - now) % ClockModulus = ClockModulus - (now - lastFix)
  BY UnsignedDifference
<1>2. QED
  BY <1>1, ModemConstantsOK DEF FastFixDue

\* Of the clock and the timestamp only these change, and how.
LEMMA ClockSteps ==
  [Next]_vars => \/ UNCHANGED <<clock, lastFix>>
                 \/ SaveFastFix /\ UNCHANGED clock
                 \/ Tick
                 \/ UNCHANGED clock /\ lastFix' \in {0} \union 1 .. clock \union ActTime
<1> SUFFICES ASSUME [Next]_vars, ~SaveFastFix, ~Tick
             PROVE  /\ UNCHANGED clock
                    /\ lastFix' = lastFix \/ lastFix' \in {0} \union 1 .. clock \union ActTime
  BY DEF SaveFastFix, world
<1> USE DEF world, locks, sim, local
<1>1. CASE CallInit \/ CallSend \/ CallerLocks
  BY <1>1 DEF CallInit, BeginInit, CallSend, Begin, CallerLocks, EnterGprs, EnterMqtt, EnterGps,
     EnterReconnect, ActualPosition, SendMessage
<1>2. CASE SetUpGprs \/ WaitForNetwork \/ AttachFails \/ Attach
  BY <1>2 DEF SetUpGprs, RestartModem, GprsFailed, WaitForNetwork, AttachFails, Attach
<1>3. CASE MqttConnect \/ MqttConnectFails \/ MqttConnected
  BY <1>3 DEF MqttConnect, MqttConnectFails, MqttConnected
<1>4. CASE StartGps \/ FixLacking \/ FixAcquired
  BY <1>4 DEF StartGps, WakeUp, GpsFailed, FixLacking, FixAcquired
<1>5. CASE Check \/ CheckGprs \/ CheckGps \/ CheckMqtt
  BY <1>5 DEF Check, WakeUp, CheckGprs, CheckGps, CheckMqtt
<1>6. CASE Update \/ Deliver \/ Acknowledged \/ PublishFails
  BY <1>6 DEF Update, Deliver, Acknowledged, PublishFails
<1>7. CASE Sleep \/ MqttWakes \/ MqttLocks \/ MqttUnlocks \/ Drops \/ FixFound
  BY <1>7 DEF Sleep, MqttWakes, MqttLocks, MqttUnlocks, Drops, FixFound
<1>8. CASE PowerDown \/ Panics
  BY <1>8 DEF PowerDown, Panics, ChipReset
<1>9. CASE UNCHANGED vars
  BY <1>9 DEF vars
<1>10. QED
  BY <1>1, <1>2, <1>3, <1>4, <1>5, <1>6, <1>7, <1>8, <1>9 DEF Next, CallerStep

\* The timestamp is not from the future.
TimestampPast == lastFix <= clock

\* Of a clock that works it never is.
LEMMA ClockAhead ==
  /\ Init => TimestampPast
  /\ ~ClockMayFail /\ TypeOK /\ TimestampPast /\ [Next]_vars => TimestampPast'
<1>1. Init => TimestampPast
  BY DEF Init, TimestampPast
<1>2. ASSUME ~ClockMayFail, TypeOK, TimestampPast, [Next]_vars PROVE TimestampPast'
  <2>1. clock \in Nat /\ lastFix \in Nat
    BY <1>2, ModemConstantsOK DEF TypeOK
  <2>2. SaveFastFix => lastFix' = clock
    BY <1>2 DEF SaveFastFix, ActTime
  <2>3. Tick => clock' = clock + 1 /\ lastFix' = lastFix
    BY DEF Tick, local
  <2>4. ActTime = {clock}
    BY <1>2 DEF ActTime
  <2>5. QED
    BY <1>2, <2>1, <2>2, <2>3, <2>4, ClockSteps DEF TimestampPast
<1>3. QED
  BY <1>1, <1>2

\* Nobody starts the GPS but StartGps.
LEMMA OnlyStartGpsStarts ==
  [Next]_vars /\ pc = "gps" /\ pc' = "waitFix" => StartGps
<1> SUFFICES ASSUME [Next]_vars, pc = "gps", pc' = "waitFix", ~StartGps PROVE FALSE
  OBVIOUS
<1> USE DEF Goto, InMqtt, Return
<1>1. CASE CallInit \/ CallSend \/ CallerLocks
  BY <1>1 DEF CallInit, BeginInit, CallSend, Begin, CallerLocks, EnterGprs, EnterMqtt, EnterGps,
     EnterReconnect, ActualPosition, SendMessage
<1>2. CASE SetUpGprs \/ WaitForNetwork \/ AttachFails \/ Attach
  BY <1>2 DEF SetUpGprs, WaitForNetwork, AttachFails, Attach
<1>3. CASE MqttConnect \/ MqttConnectFails \/ MqttConnected \/ SaveFastFix \/ FixLacking
           \/ FixAcquired
  BY <1>3 DEF MqttConnect, MqttConnectFails, MqttConnected, SaveFastFix, FixLacking, FixAcquired
<1>4. CASE Check \/ CheckGprs \/ CheckGps \/ CheckMqtt
  BY <1>4 DEF Check, CheckGprs, CheckGps, CheckMqtt
<1>5. CASE Update \/ Deliver \/ Acknowledged \/ PublishFails
  BY <1>5 DEF Update, Deliver, Acknowledged, PublishFails
<1>6. CASE Sleep \/ MqttWakes \/ MqttLocks \/ MqttUnlocks \/ Drops \/ FixFound \/ Tick
  BY <1>6 DEF Sleep, MqttWakes, MqttLocks, MqttUnlocks, Drops, FixFound, Tick
<1>7. CASE PowerDown \/ Panics
  BY <1>7 DEF PowerDown, Panics, ChipReset
<1>8. CASE UNCHANGED vars
  BY <1>8 DEF vars
<1>9. QED
  BY <1>1, <1>2, <1>3, <1>4, <1>5, <1>6, <1>7, <1>8 DEF Next, CallerStep

\* However long the device runs on a clock that works, the file it has is
\* used for a hot start only in the very second of its download: every other
\* start of the GPS fetches it again.  The run FastFixOnlyWhenOld shows one
\* download too many; this is how far the exception goes.
THEOREM FastFixNeverReused ==
  ASSUME FastFix, ~ClockMayFail, MaxClock + FastFixAge <= ClockModulus
  PROVE  Spec => [][pc = "gps" /\ pc' = "waitFix" => lastFix = clock]_vars
<1>1. ASSUME TypeOK, TimestampPast, [Next]_vars, pc = "gps", pc' = "waitFix"
      PROVE  lastFix = clock
  <2> SUFFICES ASSUME lastFix < clock PROVE FALSE
    BY <1>1, ModemConstantsOK DEF TypeOK, TimestampPast
  <2>1. /\ clock \in 0 .. ClockModulus - 1 /\ lastFix \in 0 .. ClockModulus - 1
        /\ clock - lastFix <= ClockModulus - FastFixAge
    BY <1>1, ModemConstantsOK DEF TypeOK
  <2>2. FastFixDue(clock)
    BY <2>1, DueWhenYoung
  <2>3. StartGps
    BY <1>1, OnlyStartGpsStarts
  <2>4. \E now \in ActTime : ~FastFixDue(now)
    BY <1>1, <2>3 DEF StartGps, GpsFailed, Goto, Return
  <2>5. QED
    BY <2>2, <2>4 DEF ActTime
<1>2. TypeOK /\ TimestampPast /\ [Next]_vars =>
        [pc = "gps" /\ pc' = "waitFix" => lastFix = clock]_vars
  BY <1>1
<1>3. TypeOK /\ TimestampPast /\ [Next]_vars => TimestampPast'
  BY ClockAhead
<1>4. Init => TimestampPast
  BY ClockAhead
<1>5. QED
  BY <1>2, <1>3, <1>4, ModemTypeCorrect, PTL DEF Spec

-----------------------------------------------------------------------------
(* Calls that return *)

\* The modem is awake in the loops, from the wakeUp() before each of them.
AwakeInLoops ==
  pc \in {"network", "attach", "mqttEnter", "mqtt", "mqttAgain", "save", "waitFix",
          "checkGprs", "checkGps", "checkMqtt"} => modem = "on"

\* What is known during a call.
CallInv == ModemInv /\ NothingWithoutGsm /\ NeverConnected /\ AwakeInLoops

\* Each loop is entered through a wakeUp() or from another loop.
LEMMA StepAwake == CallInv /\ [Next]_vars => AwakeInLoops'
<1> SUFFICES ASSUME CallInv, [Next]_vars PROVE AwakeInLoops'
  OBVIOUS
<1>0. call = "none" <=> pc = "idle"
  BY DEF CallInv, ModemInv, CallMatchesCode
<1> USE <1>0 DEF CallInv, AwakeInLoops, InMqtt, Goto, Return, world, sim, local, locks
<1>1. CASE CallInit \/ CallSend
  BY <1>1 DEF CallInit, BeginInit, CallSend, Begin
<1>2. CASE CallerLocks
  BY <1>2 DEF CallerLocks, EnterGprs, EnterMqtt, EnterGps, EnterReconnect, ActualPosition,
     SendMessage
<1>3. CASE SetUpGprs
  BY <1>3 DEF SetUpGprs, RestartModem, GprsFailed
<1>4. CASE WaitForNetwork
  BY <1>4 DEF WaitForNetwork, GprsFailed
<1>5. CASE AttachFails \/ Attach
  BY <1>5 DEF AttachFails, Attach
<1>6. CASE MqttConnect \/ MqttConnectFails \/ MqttConnected
  BY <1>6 DEF MqttConnect, MqttConnectFails, MqttConnected
<1>7. CASE StartGps
  BY <1>7 DEF StartGps, WakeUp, GpsFailed
<1>8. CASE SaveFastFix \/ FixLacking \/ FixAcquired
  BY <1>8 DEF SaveFastFix, FixLacking, FixAcquired, GpsFailed
<1>9. CASE Check \/ CheckGprs \/ CheckGps \/ CheckMqtt
  BY <1>9 DEF Check, WakeUp, CheckGprs, CheckGps, CheckMqtt
<1>10. CASE Update \/ Deliver \/ Acknowledged \/ PublishFails
  BY <1>10 DEF Update, Deliver, Acknowledged, PublishFails
<1>11. CASE Sleep
  BY <1>11 DEF Sleep
<1>12. CASE MqttWakes \/ MqttLocks \/ MqttUnlocks \/ Drops \/ FixFound \/ Tick
  BY <1>12 DEF MqttWakes, MqttLocks, MqttUnlocks, Drops, FixFound, Tick
<1>13. CASE PowerDown \/ Panics
  BY <1>13 DEF PowerDown, Panics, ChipReset
<1>14. CASE UNCHANGED vars
  BY <1>14 DEF vars
<1>15. QED
  BY <1>1, <1>2, <1>3, <1>4, <1>5, <1>6, <1>7, <1>8, <1>9, <1>10, <1>11, <1>12, <1>13, <1>14
     DEF Next, CallerStep

\* So it is known in every call.
LEMMA CallInvHolds == Init /\ [][Next]_vars => []CallInv
<1>1. Init => CallInv
  BY InitModemInv DEF Init, CallInv, NothingWithoutGsm, NeverConnected, AwakeInLoops
<1>2. CallInv /\ [Next]_vars => CallInv'
  BY StepModemInv, StepWithoutGsm, StepAwake DEF CallInv
<1>3. QED
  BY <1>1, <1>2, PTL

\* While a call is under way and no link is lost, what others do leaves the
\* caller where it is and takes nothing from it.
Over == call = "none"

\* Neither the mqtt task nor the world moves the caller.
LEMMA OthersInCall ==
  ASSUME CallInv, [Next]_vars, [~Drops]_vars, ~Over, ~Over', ~CallerStep, ~CallerLocks
  PROVE  /\ UNCHANGED <<pc, call, tries, gpsFails, modem>>
         /\ net => net'
         /\ fix => fix'
         /\ broker /\ lock = "caller" => broker'
<1> USE DEF Over, world, sim, local, locks
<1>1. CASE CallInit \/ CallSend \/ Sleep \/ PowerDown
  BY <1>1 DEF CallInit, BeginInit, CallSend, Begin, Sleep, PowerDown, ChipReset
<1>2. CASE MqttWakes \/ MqttLocks \/ FixFound \/ Tick
  BY <1>2 DEF MqttWakes, MqttLocks, FixFound, Tick
<1>3. CASE MqttUnlocks
  BY <1>3 DEF MqttUnlocks
<1>4. CASE UNCHANGED vars
  BY <1>4 DEF vars
<1>5. QED
  BY <1>1, <1>2, <1>3, <1>4 DEF Next, Drops, vars

\* What the caller's own steps do, that do not end the call.  Entering:
LEMMA CallerLocksInCall ==
  ASSUME CallInv, CallerLocks, ~Over, ~Over'
  PROVE  /\ pc = "gprsEnter" => pc' = "gprs"
         /\ pc = "mqttEnter" => pc' = "mqtt"
         /\ pc = "gpsEnter" => pc' = "gps"
         /\ pc = "reconnect" => pc' = "check"
         /\ pc = "position" => pc' = "update"
         /\ pc = "publish" => pc' = "sending"
         /\ pc \in {"gprsEnter", "mqttEnter", "gpsEnter", "reconnect", "position", "publish"}
         /\ lock = "free"
         /\ UNCHANGED <<call, tries, gpsFails, net, fix, broker, modem>>
BY DEF Over, CallerLocks, EnterGprs, EnterMqtt, EnterGps, EnterReconnect, ActualPosition,
   SendMessage, Acquire, Goto, Return, world, sim, local, locks, PositionCodes

\* In connectGPRS(), whose failure ends every call.
LEMMA GprsInCall ==
  ASSUME CallInv, SetUpGprs \/ WaitForNetwork \/ AttachFails \/ Attach, ~Over, ~Over'
  PROVE  /\ UNCHANGED <<call, gpsFails>>
         /\ pc # "gprs" => UNCHANGED <<fix, broker>> /\ (net => net')
         /\ \/ pc = "gprs" /\ pc' = "network" /\ tries' = 0
            \/ pc = "network" /\ pc' = "network" /\ tries <= 3 /\ tries' = tries + 1
            \/ pc = "network" /\ pc' = "attach" /\ tries' = tries
            \/ pc = "attach" /\ pc' = "network" /\ tries' = tries /\ ~Attach
            \/ /\ pc = "attach" /\ Attach /\ net' /\ tries' = 0
               /\ pc' = IF call = "init" THEN "mqttEnter" ELSE "mqtt"
<1> USE DEF Over, Goto, Return, world, sim, local, locks
<1>1. ~GprsFailed
  BY DEF GprsFailed
<1>2. CASE SetUpGprs
  BY <1>1, <1>2 DEF SetUpGprs, RestartModem
<1>3. CASE WaitForNetwork
  BY <1>1, <1>3 DEF WaitForNetwork
<1>4. CASE AttachFails
  BY <1>4 DEF AttachFails, Attach
<1>5. CASE Attach
  BY <1>5 DEF Attach
<1>6. QED
  BY <1>2, <1>3, <1>4, <1>5

\* In MqttClient::reconnect(), which fails at last or leaves a broker.
LEMMA MqttInCall ==
  ASSUME CallInv, MqttConnect \/ MqttConnectFails \/ MqttConnected \/ Panics, ~Over, ~Over'
  PROVE  /\ InMqtt
         /\ UNCHANGED <<call, gpsFails, fix, net>> /\ (broker => broker')
         /\ \/ ~broker /\ broker' /\ UNCHANGED <<pc, tries>>
            \/ ~broker /\ pc' = pc /\ tries' = tries + 1 /\ tries' <= MqttAttempts
            \/ /\ broker /\ tries' = 0
               /\ pc' = IF call = "init" THEN "gpsEnter"
                        ELSE IF pc = "mqtt" THEN "checkGps" ELSE "check"
<1> USE DEF Over, Goto, Return, world, sim, local, locks
<1>1. CASE MqttConnect
  BY <1>1 DEF MqttConnect
<1>2. CASE MqttConnectFails
  <2>1. tries \in 0 .. 6 /\ MqttAttempts \in {2, 5}
    BY DEF CallInv, ModemInv, TypeOK, MqttAttempts
  <2>2. tries' <= MqttAttempts
    BY <1>2, <2>1 DEF MqttConnectFails
  <2>3. QED
    BY <1>2, <2>1, <2>2 DEF MqttConnectFails
<1>3. CASE MqttConnected
  BY <1>3 DEF MqttConnected, InMqtt
<1>4. CASE Panics
  BY <1>4 DEF Panics, PowerDown, ChipReset
<1>5. QED
  BY <1>1, <1>2, <1>3, <1>4

\* In connectGPS(): a failure ends sendActPosition(), and is counted by
\* init().
LEMMA GpsInCall ==
  ASSUME CallInv, StartGps \/ SaveFastFix \/ FixLacking \/ FixAcquired, ~Over, ~Over'
  PROVE  /\ UNCHANGED <<call, tries, fix, net, broker>>
         /\ \/ pc = "gps" /\ pc' \in {"save", "waitFix"} /\ gpsFails' = gpsFails
            \/ pc = "save" /\ pc' = "waitFix" /\ gpsFails' = gpsFails
            \/ /\ pc = "gps" \/ (pc = "waitFix" /\ ~fix)
               /\ pc' = "gpsEnter" /\ call = "init" /\ gpsFails < 3 /\ gpsFails' = gpsFails + 1
            \/ pc = "waitFix" /\ fix /\ pc' = "checkMqtt" /\ call = "send" /\ gpsFails' = gpsFails
<1> USE DEF Over, Goto, Return, world, sim, local, locks
<1>0. call \in {"init", "send"}
  BY DEF CallInv, ModemInv, TypeOK
<1>1. GpsFailed => /\ pc' = "gpsEnter" /\ call = "init" /\ gpsFails < 3
                   /\ gpsFails' = gpsFails + 1 /\ UNCHANGED <<call, tries>>
  BY DEF GpsFailed
<1>2. CASE StartGps
  <2>1. CASE WakeUp /\ GpsFailed
    BY <1>1, <1>2, <2>1 DEF StartGps, WakeUp
  <2>2. CASE ~GpsFailed
    <3>1. pc' \in {"save", "waitFix"}
      BY <1>2, <2>2 DEF StartGps
    <3>2. QED
      BY <1>2, <2>2, <3>1 DEF StartGps, WakeUp
  <2>3. QED
    BY <1>2, <2>1, <2>2 DEF StartGps
<1>3. CASE SaveFastFix
  BY <1>3 DEF SaveFastFix
<1>4. CASE FixLacking
  BY <1>1, <1>4 DEF FixLacking
<1>5. CASE FixAcquired
  BY <1>0, <1>5 DEF FixAcquired
<1>6. QED
  BY <1>2, <1>3, <1>4, <1>5

\* In the loop of reconnect(), which ends when nothing is missing.
LEMMA ReconnectInCall ==
  ASSUME CallInv, Check \/ CheckGprs \/ CheckGps \/ CheckMqtt
  PROVE  /\ UNCHANGED <<call, tries, gpsFails, fix, net, broker>>
         /\ \/ pc = "check" /\ pc' = "position"
            \/ pc = "check" /\ pc' = "checkGprs" /\ ~(net /\ broker /\ fix /\ modem = "on")
            \/ pc = "checkGprs" /\ (pc' = "gprs" \/ (pc' = "checkGps" /\ net))
            \/ pc = "checkGps" /\ (pc' = "gps" \/ (pc' = "checkMqtt" /\ fix))
            \/ pc = "checkMqtt" /\ pc' = IF broker THEN "check" ELSE "mqttAgain"
<1> USE DEF Goto, world, sim, local, locks
<1>1. CASE Check
  <2>1. broker => SerialBegun
    BY DEF CallInv, NothingWithoutGsm, SerialBegun
  <2>2. net \in BOOLEAN /\ fix \in BOOLEAN /\ broker \in BOOLEAN
    BY DEF CallInv, ModemInv, TypeOK
  <2>3. net /\ broker /\ fix /\ modem = "on" => Answer(net) = {TRUE} /\ Answer(fix) = {TRUE}
    BY <2>1, <2>2 DEF Answer
  <2>4. pc' = "checkGprs" => ~(net /\ broker /\ fix /\ modem = "on")
    BY <1>1, <2>2, <2>3 DEF Check
  <2>5. QED
    BY <1>1, <2>4 DEF Check, WakeUp
<1>a. ASSUME NEW x \in BOOLEAN, NEW y \in Answer(x) PROVE y = FALSE \/ y = x
  BY <1>a DEF Answer
<1>b. net \in BOOLEAN /\ fix \in BOOLEAN
  BY DEF CallInv, ModemInv, TypeOK
<1>2. CASE CheckGprs
  <2>1. PICK up \in Answer(net) : pc' = IF up THEN "checkGps" ELSE "gprs"
    BY <1>2 DEF CheckGprs
  <2>2. QED
    BY <1>a, <1>b, <1>2, <2>1 DEF CheckGprs
<1>3. CASE CheckGps
  <2>1. PICK found \in Answer(fix) : pc' = IF found THEN "checkMqtt" ELSE "gps"
    BY <1>3 DEF CheckGps
  <2>2. QED
    BY <1>a, <1>b, <1>3, <2>1 DEF CheckGps
<1>4. CASE CheckMqtt
  BY <1>4 DEF CheckMqtt
<1>5. QED
  BY <1>1, <1>2, <1>3, <1>4

\* After it, nothing waits for anything.
LEMMA SendInCall ==
  ASSUME CallInv, Update \/ Deliver \/ Acknowledged \/ PublishFails, ~Over, ~Over'
  PROVE  /\ call' = call
         /\ \/ pc = "update" /\ pc' = "publish"
            \/ pc = "sending" /\ pc' = "sent"
<1>1. ~Acknowledged /\ ~PublishFails
  BY DEF Over, Acknowledged, PublishFails, Return
<1>2. QED
  BY <1>1 DEF Update, Deliver, Goto

\* The fairness of Spec with the guards for ENABLED.
Moving ==
  \/ pc \in {"gprs", "network", "attach", "mqtt", "mqttAgain", "gps", "save", "check",
             "checkGprs", "checkGps", "checkMqtt", "update", "sending", "sent"}
  \/ pc = "waitFix" /\ fix
AtDoor == pc \in {"gprsEnter", "mqttEnter", "gpsEnter", "reconnect", "position", "publish"}
Asking == AtDoor /\ lock = "free"
MqttInside == lock = "mqtt"
MqttAsks == mqttTask = "waiting" /\ lock = "free"
Searching == modem # "off" /\ ~fix
Attaching == pc = "attach"

DriverGoesOn ==
  /\ []<>~Moving \/ []<><<CallerStep>>_vars
  /\ <>[]~Asking \/ []<><<CallerLocks>>_vars
  /\ <>[]~MqttAsks \/ []<><<MqttLocks>>_vars
  /\ []<>~MqttInside \/ []<><<MqttUnlocks>>_vars
  /\ []<>~Searching \/ []<><<FixFound>>_vars
  /\ <>[]~Attaching \/ []<><<Attach>>_vars

\* From some time on, as KeepaliveServed and CallReturns suppose.
QuietRun == []CallInv /\ [][Next]_vars /\ [][~Drops]_vars /\ DriverGoesOn

\* The caller gets the lock.
LEMMA DoorsOpen == QuietRun => (AtDoor ~> Over \/ ~AtDoor)
<1>1. CallInv /\ AtDoor /\ ~Asking => MqttInside
  BY DEF CallInv, ModemInv, TypeOK, LockMatchesCode, Locked, AtDoor, Asking, MqttInside
<1>2. <<MqttUnlocks>>_vars => ~MqttInside'
  BY DEF MqttUnlocks, MqttInside
<1>3. CallInv /\ AtDoor /\ ~Over /\ ~Over' /\ <<CallerLocks>>_vars => ~AtDoor'
  BY CallerLocksInCall DEF AtDoor
<1>4. QED
  BY <1>1, <1>2, <1>3, PTL DEF QuietRun, DriverGoesOn

\* A place in connectGPRS(), and how far it got.
InGprs == pc \in {"gprs", "network", "attach"}
HasAttached == net /\ pc \in {"mqttEnter", "mqtt"}

\* It is left by attaching; in between, attempts are only counted up.
LEMMA StepInGprs ==
  ASSUME CallInv, [Next]_vars, [~Drops]_vars, ~Over, ~Over', InGprs
  PROVE  /\ UNCHANGED call
         /\ pc # "gprs" => (net => net') /\ (fix => fix')
         /\ InGprs' \/ HasAttached'
         /\ pc' = "mqttEnter" => call = "init"
         /\ pc = "gprs" /\ CallerStep => pc' = "network"
         /\ pc # "gprs" => pc' # "gprs"
         /\ pc = "network" => \/ pc' = "network" /\ tries' = tries /\ ~CallerStep
                              \/ pc' = "network" /\ tries' = tries + 1 /\ tries <= 3
                              \/ pc' = "attach" 
         /\ Attach => HasAttached'
<1> USE DEF InGprs, HasAttached
<1>1. CASE CallerStep
  <2>1. SetUpGprs \/ WaitForNetwork \/ AttachFails \/ Attach
    BY <1>1 DEF CallerStep, MqttConnect, MqttConnectFails, MqttConnected, InMqtt, StartGps,
       SaveFastFix, FixLacking, FixAcquired, Check, CheckGprs, CheckGps, CheckMqtt, Update,
       Deliver, Acknowledged, PublishFails, Panics
  <2>2. Attach => pc = "attach"
    BY DEF Attach
  <2>3. QED
    BY <1>1, <2>1, <2>2, GprsInCall
<1>2. ~CallerLocks
  BY CallerLocksInCall
<1>3. CASE ~CallerStep
  BY <1>2, <1>3, OthersInCall DEF CallerStep
<1>4. QED
  BY <1>1, <1>3

\* The attempts are limited, or attach() is tried again and again.
LEMMA GprsEnds == QuietRun => (InGprs ~> Over \/ HasAttached)
<1> DEFINE Asleep == pc = "gprs"
           Net == pc = "network"
           T0 == tries = 0
           T1 == tries = 1
           T2 == tries = 2
           T3 == tries = 3
           T4 == tries = 4
<1>1. CallInv /\ Net => T0 \/ T1 \/ T2 \/ T3 \/ T4
  BY DEF CallInv, ModemInv, TypeOK, TriesInRange
<1>2. CallInv /\ [Next]_vars /\ [~Drops]_vars /\ ~Over /\ ~Over' /\ InGprs =>
        /\ InGprs' \/ HasAttached'
        /\ Asleep /\ <<CallerStep>>_vars => ~Asleep'
        /\ ~Asleep => ~Asleep'
        /\ <<Attach>>_vars => HasAttached'
  BY StepInGprs
<1>3. CallInv /\ [Next]_vars /\ [~Drops]_vars /\ ~Over /\ ~Over' /\ Net /\ Net' =>
        /\ T0 => (T0' /\ ~<<CallerStep>>_vars) \/ T1'
        /\ T1 => (T1' /\ ~<<CallerStep>>_vars) \/ T2'
        /\ T2 => (T2' /\ ~<<CallerStep>>_vars) \/ T3'
        /\ T3 => (T3' /\ ~<<CallerStep>>_vars) \/ T4'
        /\ T4 => (T4' /\ ~<<CallerStep>>_vars)
  BY StepInGprs DEF InGprs
<1>4. InGprs => Asleep \/ Net \/ Attaching
  BY DEF InGprs, Attaching
<1>5. InGprs => Moving
  BY DEF InGprs, Moving
<1> HIDE DEF Asleep, Net, T0, T1, T2, T3, T4
<1>6. QED
  BY <1>1, <1>2, <1>3, <1>4, <1>5, PTL DEF QuietRun, DriverGoesOn

\* A place in MqttClient::reconnect(): either way out, the broker is there.
LEMMA StepInMqtt ==
  ASSUME CallInv, [Next]_vars, [~Drops]_vars, ~Over, ~Over', InMqtt
  PROVE  /\ call' = call /\ gpsFails' = gpsFails
         /\ (net => net') /\ (fix => fix')
         /\ \/ pc' = pc /\ tries' = tries /\ ~CallerStep /\ (broker => broker')
            \/ pc' = pc /\ tries' = tries /\ broker'
            \/ pc' = pc /\ ~broker /\ tries' = tries + 1 /\ tries' <= MqttAttempts
            \/ /\ broker'
               /\ pc' = IF call = "init" THEN "gpsEnter"
                        ELSE IF pc = "mqtt" THEN "checkGps" ELSE "check"
         /\ broker /\ CallerStep => pc' # pc
<1> USE DEF InMqtt
<1>1. CASE CallerStep
  <2>1. MqttConnect \/ MqttConnectFails \/ MqttConnected \/ Panics
    BY <1>1 DEF CallerStep, SetUpGprs, WaitForNetwork, AttachFails, Attach, StartGps,
       SaveFastFix, FixLacking, FixAcquired, Check, CheckGprs, CheckGps, CheckMqtt, Update,
       Deliver, Acknowledged, PublishFails
  <2>2. QED
    BY <1>1, <2>1, MqttInCall
<1>2. lock = "caller" /\ ~CallerLocks
  BY CallerLocksInCall DEF CallInv, ModemInv, LockMatchesCode, Locked
<1>3. CASE ~CallerStep
  BY <1>2, <1>3, OthersInCall
<1>4. QED
  BY <1>1, <1>3

\* It is left: its attempts are limited, and a broker found is kept.
LEMMA MqttEnds == QuietRun => (InMqtt ~> Over \/ ~InMqtt)
<1> DEFINE T0 == tries = 0
           T1 == tries = 1
           T2 == tries = 2
           T3 == tries = 3
           T4 == tries = 4
           T5 == tries = 5
<1>1. CallInv /\ InMqtt => T0 \/ T1 \/ T2 \/ T3 \/ T4 \/ T5
  BY DEF CallInv, ModemInv, TypeOK, TriesInRange, MqttAttempts
<1>2. CallInv /\ [Next]_vars /\ [~Drops]_vars /\ ~Over /\ ~Over' /\ InMqtt /\ InMqtt' =>
        /\ broker => broker' /\ ~<<CallerStep>>_vars
        /\ T0 => broker' \/ (T0' /\ ~<<CallerStep>>_vars) \/ T1'
        /\ T1 => broker' \/ (T1' /\ ~<<CallerStep>>_vars) \/ T2'
        /\ T2 => broker' \/ (T2' /\ ~<<CallerStep>>_vars) \/ T3'
        /\ T3 => broker' \/ (T3' /\ ~<<CallerStep>>_vars) \/ T4'
        /\ T4 => broker' \/ (T4' /\ ~<<CallerStep>>_vars) \/ T5'
        /\ T5 => broker' \/ (T5' /\ ~<<CallerStep>>_vars)
  BY StepInMqtt DEF InMqtt, MqttAttempts
<1>3. InMqtt => Moving
  BY DEF InMqtt, Moving
<1> HIDE DEF T0, T1, T2, T3, T4, T5
<1>4. QED
  BY <1>1, <1>2, <1>3, PTL DEF QuietRun, DriverGoesOn

\* A place in connectGPS(): who waits for a fix gets one, or the network is
\* not there and the call fails.
InGps == pc \in {"gps", "save", "waitFix"}

\* It is left for a failure or with a fix.
LEMMA StepInGps ==
  ASSUME CallInv, [Next]_vars, [~Drops]_vars, ~Over, ~Over', InGps
  PROVE  /\ call' = call
         /\ (net => net') /\ (fix => fix')
         /\ \/ pc' = pc /\ gpsFails' = gpsFails /\ ~CallerStep
            \/ pc = "gps" /\ pc' \in {"save", "waitFix"} /\ gpsFails' = gpsFails
            \/ pc = "save" /\ pc' = "waitFix" /\ gpsFails' = gpsFails
            \/ pc' = "gpsEnter" /\ call = "init" /\ gpsFails < 3 /\ gpsFails' = gpsFails + 1
            \/ pc' = "checkMqtt" /\ fix' /\ call = "send"
<1> USE DEF InGps
<1>1. CASE CallerStep
  <2>1. StartGps \/ SaveFastFix \/ FixLacking \/ FixAcquired
    BY <1>1 DEF CallerStep, SetUpGprs, WaitForNetwork, AttachFails, Attach, MqttConnect,
       MqttConnectFails, MqttConnected, InMqtt, Check, CheckGprs, CheckGps, CheckMqtt, Update,
       Deliver, Acknowledged, PublishFails, Panics
  <2>2. QED
    BY <1>1, <2>1, GpsInCall
<1>2. ~CallerLocks
  BY CallerLocksInCall
<1>3. CASE ~CallerStep
  BY <1>2, <1>3, OthersInCall
<1>4. QED
  BY <1>1, <1>3

\* It is left: the receiver finds a fix if the network lasts.
LEMMA GpsEnds == QuietRun => (InGps ~> Over \/ ~InGps)
<1> DEFINE Starts == pc = "gps"
           Saves == pc = "save"
           Waits == pc = "waitFix"
<1>1. InGps => Starts \/ Saves \/ Waits
  BY DEF InGps
<1>2. CallInv /\ [Next]_vars /\ [~Drops]_vars /\ ~Over /\ ~Over' /\ InGps /\ InGps' =>
        /\ Starts => (Starts' /\ ~<<CallerStep>>_vars) \/ Saves' \/ Waits'
        /\ Saves => (Saves' /\ ~<<CallerStep>>_vars) \/ Waits'
        /\ Waits => Waits' /\ ~<<CallerStep>>_vars
        /\ fix => fix'
  BY StepInGps DEF InGps
<1>3. /\ Starts \/ Saves \/ (Waits /\ fix) => Moving
      /\ CallInv /\ Waits /\ ~fix => Searching
      /\ <<FixFound>>_vars => fix'
  BY DEF Moving, CallInv, AwakeInLoops, Searching, FixFound
<1> HIDE DEF Starts, Saves, Waits
<1>4. QED
  BY <1>1, <1>2, <1>3, PTL DEF QuietRun, DriverGoesOn

\* init() returns: its loop calls connectGPS() four times at most.
LEMMA StepInInit ==
  ASSUME CallInv, [Next]_vars, [~Drops]_vars, ~Over, ~Over', call = "init"
  PROVE  /\ call' = "init"
         /\ pc = "gprsEnter" => pc' = "gprsEnter" \/ InGprs'
         /\ InGprs => InGprs' \/ pc' \in {"mqttEnter", "mqtt"}
         /\ pc = "mqttEnter" => pc' = "mqttEnter" \/ InMqtt'
         /\ InMqtt => InMqtt' \/ pc' = "gpsEnter"
         /\ pc = "gpsEnter" => (pc' = "gpsEnter" \/ InGps') /\ gpsFails' = gpsFails
         /\ InGps => \/ InGps' /\ gpsFails' = gpsFails
                     \/ pc' = "gpsEnter" /\ gpsFails < 3 /\ gpsFails' = gpsFails + 1
         /\ pc = "gprsEnter" \/ InGprs \/ pc = "mqttEnter" \/ InMqtt \/ pc = "gpsEnter" \/ InGps
<1>1. pc = "gprsEnter" \/ InGprs \/ pc = "mqttEnter" \/ InMqtt \/ pc = "gpsEnter" \/ InGps
  BY DEF CallInv, ModemInv, TypeOK, Locked, CallMatchesCode, InGprs, InMqtt, InGps
<1>2. CASE InGprs
  BY <1>2, StepInGprs DEF InGprs, HasAttached, InMqtt, InGps
<1>3. CASE InMqtt
  BY <1>3, StepInMqtt DEF InGprs, InMqtt, InGps
<1>4. CASE InGps
  BY <1>4, StepInGps DEF InGprs, InMqtt, InGps
<1>5. CASE pc \in {"gprsEnter", "mqttEnter", "gpsEnter"}
  <2>1. ~CallerStep
    BY <1>5 DEF CallerStep, SetUpGprs, WaitForNetwork, AttachFails, Attach, MqttConnect,
       MqttConnectFails, MqttConnected, InMqtt, StartGps, SaveFastFix, FixLacking, FixAcquired,
       Check, CheckGprs, CheckGps, CheckMqtt, Update, Deliver, Acknowledged, PublishFails, Panics
  <2>2. QED
    BY <1>5, <2>1, OthersInCall, CallerLocksInCall DEF InGprs, InMqtt, InGps
<1>6. QED
  BY <1>1, <1>2, <1>3, <1>4, <1>5

\* From door to door, each with its counter.
LEMMA InitReturns == QuietRun => (call = "init" ~> Over)
<1> DEFINE Init0 == call = "init"
           D1 == pc = "gprsEnter"
           D2 == pc = "mqttEnter"
           D3 == pc = "gpsEnter"
           F0 == gpsFails = 0
           F1 == gpsFails = 1
           F2 == gpsFails = 2
           F3 == gpsFails = 3
<1>1. /\ D1 \/ D2 \/ D3 => AtDoor
      /\ CallInv => F0 \/ F1 \/ F2 \/ F3
      /\ InGprs \/ InMqtt \/ InGps => ~AtDoor
      /\ InGprs => ~InMqtt /\ ~HasAttached
      /\ InMqtt => ~InGps
  BY DEF AtDoor, CallInv, ModemInv, TypeOK, InGprs, InMqtt, InGps, HasAttached
<1>2. CallInv /\ Init0 => D1 \/ InGprs \/ D2 \/ InMqtt \/ D3 \/ InGps
  BY DEF CallInv, ModemInv, TypeOK, Locked, CallMatchesCode, InGprs, InMqtt, InGps
<1>3. CallInv /\ [Next]_vars /\ [~Drops]_vars /\ ~Over /\ ~Over' /\ Init0 =>
        /\ Init0'
        /\ D1 => D1' \/ InGprs'
        /\ InGprs => InGprs' \/ D2' \/ InMqtt'
        /\ D2 => D2' \/ InMqtt'
        /\ InMqtt => InMqtt' \/ D3'
  BY StepInInit DEF InMqtt
<1>4. CallInv /\ [Next]_vars /\ [~Drops]_vars /\ ~Over /\ ~Over' /\ Init0 /\ D3 =>
        /\ D3' \/ InGps'
        /\ F0 => F0'
        /\ F1 => F1'
        /\ F2 => F2'
        /\ F3 => F3'
  BY StepInInit
<1>5. CallInv /\ [Next]_vars /\ [~Drops]_vars /\ ~Over /\ ~Over' /\ Init0 /\ InGps =>
        /\ F0 => (InGps' /\ F0') \/ (D3' /\ F1')
        /\ F1 => (InGps' /\ F1') \/ (D3' /\ F2')
        /\ F2 => (InGps' /\ F2') \/ (D3' /\ F3')
        /\ F3 => InGps' /\ F3'
  BY StepInInit
<1> HIDE DEF Init0, D1, D2, D3, F0, F1, F2, F3
<1>6. QuietRun => (Init0 ~> Over)
  BY <1>1, <1>2, <1>3, <1>4, <1>5, DoorsOpen, GprsEnds, MqttEnds, GpsEnds, PTL DEF QuietRun
<1>7. QED
  BY <1>6 DEF Init0

\* sendActPosition() returns: a round of reconnect() finds or mends all three
\* connections, one after the other, and the next test of its loop is the
\* last.
Connected == net /\ broker /\ fix /\ modem = "on"

\* What one step of it does, and what the next place can rely on.
LEMMA StepInSend ==
  ASSUME CallInv, [Next]_vars, [~Drops]_vars, ~Over, ~Over', call = "send"
  PROVE  /\ call' = "send"
         /\ pc # "gprs" => (net => net') /\ (fix => fix')
         /\ pc = "reconnect" => pc' = "reconnect" \/ pc' = "check"
         /\ pc = "check" => \/ pc' = "check" /\ ~CallerStep /\ (Connected => Connected')
                            \/ pc' = "position"
                            \/ pc' = "checkGprs" /\ ~Connected
         /\ pc = "checkGprs" => \/ pc' = "checkGprs" /\ ~CallerStep
                                \/ pc' = "gprs"
                                \/ pc' = "checkGps" /\ net'
         /\ InGprs => InGprs' \/ (pc' = "mqtt" /\ net')
         /\ pc = "mqtt" => pc' = "mqtt" \/ pc' = "checkGps"
         /\ pc = "checkGps" => \/ pc' = "checkGps" /\ ~CallerStep
                               \/ pc' = "gps"
                               \/ pc' = "checkMqtt" /\ fix'
         /\ InGps => InGps' \/ (pc' = "checkMqtt" /\ fix')
         /\ pc = "checkMqtt" => \/ pc' = "checkMqtt" /\ ~CallerStep
                                \/ pc' = "mqttAgain"
                                \/ pc' = "check" /\ (net /\ fix => Connected')
         /\ pc = "mqttAgain" => \/ pc' = "mqttAgain"
                                \/ pc' = "check" /\ (net /\ fix => Connected')
         /\ pc = "position" => pc' = "position" \/ pc' = "update"
         /\ pc = "update" => (pc' = "update" /\ ~CallerStep) \/ pc' = "publish"
         /\ pc = "publish" => pc' = "publish" \/ pc' = "sending"
         /\ pc = "sending" => (pc' = "sending" /\ ~CallerStep) \/ pc' = "sent"
         /\ pc = "sent" => pc' = "sent" /\ ~CallerStep
<1>0. AwakeInLoops /\ (pc \in Locked => lock = "caller")
  BY DEF CallInv, ModemInv, LockMatchesCode
<1>a. AwakeInLoops'
  BY StepAwake
<1> USE DEF InGprs, InGps, Connected
<1>1. CASE InGprs
  BY <1>1, StepInGprs DEF HasAttached
<1>2. CASE InMqtt
  <2>1. pc' = "check" => modem' = "on"
    <3>1. CASE CallerStep
      BY <1>0, <1>2, <3>1
         DEF AwakeInLoops, CallerStep, SetUpGprs, WaitForNetwork, AttachFails, Attach, InMqtt,
             MqttConnect, MqttConnectFails, MqttConnected, StartGps, SaveFastFix, FixLacking,
             FixAcquired, Check, CheckGprs, CheckGps, CheckMqtt, Update, Deliver, Acknowledged,
             PublishFails, Panics, PowerDown, ChipReset, world, Over
    <3>2. QED
      BY <1>2, <3>1, OthersInCall, CallerLocksInCall DEF InMqtt
  <2>2. QED
    BY <1>2, <2>1, StepInMqtt DEF InMqtt
<1>3. CASE InGps
  BY <1>3, StepInGps
<1>4. CASE CallerLocks
  BY <1>4, CallerLocksInCall
<1>5. CASE ~CallerStep /\ ~CallerLocks
  BY <1>0, <1>5, OthersInCall DEF Locked
<1>6. CASE CallerStep /\ ~InGprs /\ ~InMqtt /\ ~InGps
  <2>1. CASE Check \/ CheckGprs \/ CheckGps \/ CheckMqtt
    <3>1. pc = "checkMqtt" => modem' = "on"
      BY <1>0, <2>1 DEF AwakeInLoops, Check, CheckGprs, CheckGps, CheckMqtt, world
    <3>2. QED
      BY <2>1, <3>1, ReconnectInCall
  <2>2. CASE Update \/ Deliver \/ Acknowledged \/ PublishFails
    <3>1. net' = net /\ fix' = fix
      BY <2>2 DEF Update, Deliver, Acknowledged, PublishFails, world
    <3>2. QED
      BY <2>2, <3>1, SendInCall
  <2>3. QED
    BY <1>6, <2>1, <2>2
       DEF CallerStep, SetUpGprs, WaitForNetwork, AttachFails, Attach, InMqtt, MqttConnect,
           MqttConnectFails, MqttConnected, StartGps, SaveFastFix, FixLacking, FixAcquired, Panics
<1>7. QED
  BY <1>1, <1>2, <1>3, <1>4, <1>5, <1>6

\* From any place of it, through a whole round at most, to its end.
LEMMA SendReturns == QuietRun => (call = "send" ~> Over)
<1> DEFINE Send == call = "send"
           P0 == pc = "gprs"
           P1 == pc = "reconnect"
           P2 == pc = "check"
           P3 == pc = "checkGprs"
           P4 == pc = "mqtt"
           P5 == pc = "checkGps"
           P6 == pc = "checkMqtt"
           P7 == pc = "mqttAgain"
           P8 == pc = "position"
           P9 == pc = "update"
           P10 == pc = "publish"
           P11 == pc = "sending"
           P12 == pc = "sent"
<1>1. /\ P1 \/ P8 \/ P10 => AtDoor
      /\ P4 \/ P7 => InMqtt
      /\ P2 \/ P3 \/ P5 \/ P6 \/ P9 \/ P11 \/ P12 => Moving
  BY DEF AtDoor, InMqtt, Moving
<1>2. /\ P2 \/ P9 \/ P11 => ~AtDoor
      /\ P5 \/ P2 => ~InMqtt
      /\ P6 => ~InGps
      /\ P4 => ~InGprs
      /\ HasAttached => ~InGprs
      /\ P2 \/ P3 \/ P4 \/ P5 \/ InGps \/ P6 \/ P7 => ~P0
  BY DEF AtDoor, InMqtt, InGps, InGprs, HasAttached
<1>3. CallInv /\ Send => P1 \/ P2 \/ P3 \/ InGprs \/ P4 \/ P5 \/ InGps \/ P6 \/ P7 \/ P8 \/ P9
                         \/ P10 \/ P11 \/ P12
  BY DEF CallInv, ModemInv, TypeOK, Locked, CallMatchesCode, InGprs, InGps
<1>4. CallInv /\ [Next]_vars /\ [~Drops]_vars /\ ~Over /\ ~Over' /\ Send =>
        /\ Send'
        /\ ~P0 => (net => net') /\ (fix => fix')
        /\ P1 => P1' \/ P2'
        /\ P2 => \/ P2' /\ ~<<CallerStep>>_vars /\ (Connected => Connected')
                 \/ P8'
                 \/ P3' /\ ~Connected
        /\ P3 => (P3' /\ ~<<CallerStep>>_vars) \/ InGprs' \/ (P5' /\ net')
        /\ InGprs => InGprs' \/ (P4' /\ net')
  BY StepInSend DEF InGprs
<1>5. CallInv /\ [Next]_vars /\ [~Drops]_vars /\ ~Over /\ ~Over' /\ Send =>
        /\ P4 => P4' \/ P5'
        /\ P5 => (P5' /\ ~<<CallerStep>>_vars) \/ InGps' \/ (P6' /\ fix')
        /\ InGps => InGps' \/ (P6' /\ fix')
        /\ P6 => (P6' /\ ~<<CallerStep>>_vars) \/ P7' \/ (P2' /\ (net /\ fix => Connected'))
        /\ P7 => P7' \/ (P2' /\ (net /\ fix => Connected'))
  BY StepInSend DEF InGps
<1>6. CallInv /\ [Next]_vars /\ [~Drops]_vars /\ ~Over /\ ~Over' /\ Send =>
        /\ P8 => P8' \/ P9'
        /\ P9 => (P9' /\ ~<<CallerStep>>_vars) \/ P10'
        /\ P10 => P10' \/ P11'
        /\ P11 => (P11' /\ ~<<CallerStep>>_vars) \/ P12'
        /\ P12 => P12' /\ ~<<CallerStep>>_vars
  BY StepInSend
<1> HIDE DEF Send, P0, P1, P2, P3, P4, P5, P6, P7, P8, P9, P10, P11, P12
\* After the loop ...
<1>7. QuietRun => (Send /\ (P8 \/ P9 \/ P10 \/ P11 \/ P12) ~> Over)
  BY <1>1, <1>2, <1>6, <1>4, DoorsOpen, PTL DEF QuietRun, DriverGoesOn
\* ... from any place of it to its condition ...
<1>8. QuietRun => (Send ~> Over \/ (Send /\ P2))
  BY <1>1, <1>2, <1>3, <1>4, <1>5, <1>7, DoorsOpen, GprsEnds, MqttEnds, GpsEnds, PTL
     DEF QuietRun, DriverGoesOn
\* ... and a whole round.
<1>9. QuietRun => (Send /\ P2 ~> Over \/ (Send /\ P2 /\ Connected))
  BY <1>1, <1>2, <1>4, <1>5, <1>7, GprsEnds, MqttEnds, GpsEnds, PTL DEF QuietRun, DriverGoesOn
<1>10. QuietRun => (Send /\ P2 /\ Connected ~> Over)
  BY <1>1, <1>4, <1>7, PTL DEF QuietRun, DriverGoesOn
<1>11. QuietRun => (Send ~> Over)
  BY <1>8, <1>9, <1>10, PTL DEF QuietRun
<1>12. QED
  BY <1>11 DEF Send

\* What the guards say of ENABLED, of which the provers know nothing.
DriverGuardsEnable ==
  /\ Moving => ENABLED <<CallerStep>>_vars
  /\ Asking => ENABLED <<CallerLocks>>_vars
  /\ MqttAsks => ENABLED <<MqttLocks>>_vars
  /\ MqttInside => ENABLED <<MqttUnlocks>>_vars
  /\ Searching => ENABLED <<FixFound>>_vars
  /\ Attaching => ENABLED <<Attach>>_vars

\* The guards and Spec's fairness together.
LEMMA DriverIsScheduled ==
  Spec /\ []DriverGuardsEnable => []CallInv /\ [][Next]_vars /\ DriverGoesOn
<1>1. Spec /\ []DriverGuardsEnable => DriverGoesOn
  BY PTL DEF Spec, Fairness, DriverGuardsEnable, DriverGoesOn
<1>2. Spec => Init /\ [][Next]_vars
  BY PTL DEF Spec
<1>3. QED
  BY <1>1, <1>2, CallInvHolds, PTL

\* init() and sendActPosition() return once the network stops failing, for
\* every configuration and any clock: each loop is left, by success, by its
\* limit of attempts, or, where connectGPRS() does not count them, because
\* the network attaches in the end.
THEOREM CallsReturn == Spec /\ []DriverGuardsEnable => CallReturns
<1>1. CallInv /\ ~Over => call = "init" \/ call = "send"
  BY DEF CallInv, ModemInv, TypeOK, Over
<1>2. QuietRun => (~Over ~> Over)
  BY <1>1, InitReturns, SendReturns, PTL DEF QuietRun
<1>3. []CallInv /\ [][Next]_vars /\ DriverGoesOn => (<>[][~Drops]_vars => (~Over ~> Over))
  <2>1. DriverGoesOn => []DriverGoesOn
    BY PTL DEF DriverGoesOn
  <2>2. []CallInv /\ [][Next]_vars /\ []DriverGoesOn /\ <>[][~Drops]_vars => <>QuietRun
    BY PTL DEF QuietRun
  <2>3. <>QuietRun => <>(~Over ~> Over)
    BY <1>2, PTL
  <2>4. QED
    BY <2>1, <2>2, <2>3, PTL
<1>4. (call # "none" => ~Over) /\ (Over => call = "none")
  BY DEF Over
<1>5. QED
  BY <1>3, <1>4, DriverIsScheduled, PTL DEF CallReturns

\* begin() of the MQTT client runs once between two restarts, and so creates
\* one keepalive task.
OneKeepalive ==
  /\ call = "send" => res # "none"
  /\ call = "init" => res = "none"
  /\ res = "none" /\ ~GpsPart => mqttTask = "none"

\* Each restart ends the task before init() can create the next.
LEMMA StepOneKeepalive == CallInv /\ OneKeepalive /\ [Next]_vars => OneKeepalive'
<1> SUFFICES ASSUME CallInv, OneKeepalive, [Next]_vars PROVE OneKeepalive'
  OBVIOUS
<1>0. call = "none" <=> pc = "idle"
  BY DEF CallInv, ModemInv, CallMatchesCode
<1> USE <1>0 DEF OneKeepalive, GpsPart, InMqtt, Goto, Return, Release, Acquire, locks, sim
<1>1. CASE CallInit \/ CallSend
  BY <1>1 DEF CallInit, BeginInit, CallSend, Begin, Resumable
<1>2. CASE CallerLocks
  BY <1>2 DEF CallerLocks, EnterGprs, EnterMqtt, EnterGps, EnterReconnect, ActualPosition,
     SendMessage, PositionCodes
<1>3. CASE SetUpGprs \/ WaitForNetwork \/ AttachFails \/ Attach
  BY <1>3 DEF SetUpGprs, WaitForNetwork, GprsFailed, AttachFails, Attach
<1>4. CASE MqttConnect \/ MqttConnectFails \/ MqttConnected
  BY <1>4 DEF MqttConnect, MqttConnectFails, MqttConnected, CallInv, ModemInv, TypeOK
<1>5. CASE StartGps \/ SaveFastFix \/ FixLacking \/ FixAcquired
  BY <1>5 DEF StartGps, GpsFailed, SaveFastFix, FixLacking, FixAcquired, CallInv, ModemInv,
     TypeOK
<1>6. CASE Check \/ CheckGprs \/ CheckGps \/ CheckMqtt
  BY <1>6 DEF Check, CheckGprs, CheckGps, CheckMqtt, CallInv, ModemInv, CallMatchesCode
<1>7. CASE Update \/ Deliver \/ Acknowledged \/ PublishFails
  BY <1>7 DEF Update, Deliver, Acknowledged, PublishFails
<1>8. CASE Sleep \/ MqttWakes \/ MqttLocks \/ MqttUnlocks \/ Drops \/ FixFound \/ Tick
  BY <1>8 DEF Sleep, MqttWakes, MqttLocks, MqttUnlocks, Drops, FixFound, Tick
<1>9. CASE PowerDown \/ Panics
  BY <1>9 DEF PowerDown, Panics, ChipReset
<1>10. CASE UNCHANGED vars
  BY <1>10 DEF vars
<1>11. QED
  BY <1>1, <1>2, <1>3, <1>4, <1>5, <1>6, <1>7, <1>8, <1>9, <1>10 DEF Next, CallerStep

\* Who waits for the lock at its task waits until it has it or is no more.
LEMMA StepAsking ==
  ASSUME CallInv, OneKeepalive, [Next]_vars, mqttTask = "waiting"
  PROVE  mqttTask' = "waiting" \/ lock' = "mqtt" \/ mqttTask' = "none"
<1> USE DEF locks, Release, Acquire
<1>1. CASE SetUpGprs \/ WaitForNetwork \/ AttachFails \/ Attach
  BY <1>1 DEF SetUpGprs, WaitForNetwork, GprsFailed, AttachFails, Attach
<1>2. ~(MqttConnected /\ call = "init")
  BY DEF OneKeepalive, MqttConnected, InMqtt, GpsPart
<1>3. CASE MqttConnect \/ MqttConnectFails \/ MqttConnected
  BY <1>2, <1>3 DEF MqttConnect, MqttConnectFails, MqttConnected
<1>4. CASE StartGps \/ SaveFastFix \/ FixLacking \/ FixAcquired
  BY <1>4 DEF StartGps, GpsFailed, SaveFastFix, FixLacking, FixAcquired
<1>5. CASE Check \/ CheckGprs \/ CheckGps \/ CheckMqtt
  BY <1>5 DEF Check, CheckGprs, CheckGps, CheckMqtt
<1>6. CASE Update \/ Deliver \/ Acknowledged \/ PublishFails
  BY <1>6 DEF Update, Deliver, Acknowledged, PublishFails
<1>7. CASE CallInit \/ CallSend \/ CallerLocks
  BY <1>7 DEF CallInit, BeginInit, CallSend, Begin, CallerLocks, EnterGprs, EnterMqtt,
     EnterGps, EnterReconnect, ActualPosition, SendMessage
<1>8. CASE Sleep \/ MqttWakes \/ MqttLocks \/ MqttUnlocks \/ Drops \/ FixFound \/ Tick
  BY <1>8 DEF Sleep, MqttWakes, MqttLocks, MqttUnlocks, Drops, FixFound, Tick
<1>9. CASE PowerDown \/ Panics
  BY <1>9 DEF PowerDown, Panics, ChipReset
<1>10. CASE UNCHANGED vars
  BY <1>10 DEF vars
<1>11. QED
  BY <1>1, <1>3, <1>4, <1>5, <1>6, <1>7, <1>8, <1>9, <1>10 DEF Next, CallerStep

\* And the keepalive task gets the lock then, as often as it asks for it.
THEOREM KeepaliveIsServed == Spec /\ []DriverGuardsEnable => KeepaliveServed
<1> DEFINE Asks == mqttTask = "waiting"
           Served == lock = "mqtt" \/ mqttTask = "none"
<1>1. CallInv /\ OneKeepalive /\ [Next]_vars /\ Asks => Asks' \/ Served'
  BY StepAsking
<1>2. CallInv /\ Over /\ Asks => MqttAsks \/ Served
  BY DEF CallInv, ModemInv, TypeOK, LockMatchesCode, Locked, CallMatchesCode, Over, MqttAsks
<1>3. <<MqttLocks>>_vars => Served'
  BY DEF MqttLocks
<1>4. Init => OneKeepalive
  BY DEF Init, OneKeepalive
<1>5. (Over => ~(call # "none")) /\ (~Over => call # "none") /\ (call = "none" => Over)
  BY DEF Over
<1> HIDE DEF Asks, Served
<1>6. Spec /\ []DriverGuardsEnable => []OneKeepalive
  BY <1>4, StepOneKeepalive, DriverIsScheduled, PTL DEF Spec
<1>7. Spec /\ []DriverGuardsEnable => (<>[][~Drops]_vars => (~Over ~> Over))
  BY <1>5, CallsReturn, PTL DEF CallReturns
<1>8. Spec /\ []DriverGuardsEnable => (<>[][~Drops]_vars => (Asks ~> Served))
  BY <1>1, <1>2, <1>3, <1>6, <1>7, DriverIsScheduled, PTL DEF DriverGoesOn
<1>9. QED
  BY <1>8, PTL DEF Asks, Served, KeepaliveServed

=============================================================================
