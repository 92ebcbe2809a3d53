------------------------------- MODULE Modem --------------------------------
(***************************************************************************)
(* The SIM7000G driver and the MQTT client (src/networking/SIM7000G.cpp,   *)
(* MqttClient.cpp): init(), sendActPosition() with its reconnect(),        *)
(* sleep(), and the "mqtt" task that keeps the connection to the broker    *)
(* alive.  The tracker's thread ("caller": setup() first, the loop task    *)
(* later) and the mqtt task share the serial line under SERIAL_LOCK.       *)
(*                                                                         *)
(* The lock is recursive and every function holds it from entry to return, *)
(* so only the outermost acquisition and release are steps.  What the      *)
(* hardware and the network do is external: net, broker and fix may drop   *)
(* between any two steps, and every command may fail.                      *)
(***************************************************************************)
EXTENDS Integers

CONSTANTS
  FastFix,                 \* GPS_CONFIG.fastFix
  ClockModulus,            \* 2^32, the range of Timestamp (unsigned long)
  FastFixAge,              \* 216000, in seconds
  MaxClock,                \* bound: the network time
  ClockMayFail             \* whether getNetworkTime may leave garbage

ASSUME ModemConstantsOK ==
  /\ FastFix \in BOOLEAN
  /\ ClockModulus \in Nat \ {0} /\ FastFixAge \in Nat
  /\ MaxClock \in 1 .. ClockModulus - 1
  /\ ClockMayFail \in BOOLEAN

VARIABLES
  enabled,   \* the parts with GSM_CONFIG.enable and GPS_CONFIG.enable set
  net,       \* modem.isNetworkConnected() && modem.isGprsConnected()
  broker,    \* mqttClient.connected()
  fix,       \* modem.getGPS() has a position
  modem,     \* "off", "on" or "sleep"
  clock,     \* the network time
  lock,      \* owner of SERIAL_LOCK: "free", "caller" or "mqtt"
  mqttTask,  \* "none" until begin() succeeds, then "delay" or "waiting";
             \* it is inside its loop when it owns the lock
  call, handed, published, res,   \* as in ISim
  pc,        \* where the caller is
  tries,     \* failedAttempts / errorAttempts of the loop the caller is in
  gpsFails,  \* init()'s failedConnection
  lastFix    \* stateManager's lastFastFixFileUpdate

world == <<enabled, net, broker, fix, modem, clock>>
locks == <<lock, mqttTask>>
sim   == <<call, handed, published, res>>
local == <<tries, gpsFails, lastFix>>
vars  == <<world, locks, sim, pc, local>>

\* Mutant: one attempt too many.
OneAttemptMore == IF call = "init" THEN 6 ELSE 3

MqttAttempts == IF call = "init" THEN 5 ELSE 2   \* maxAttempts

\* What is on between entry and return of the outermost locking function.
Locked == {"gprs", "network", "attach", "mqtt", "mqttAgain", "gps", "save",
           "waitFix", "check", "checkGprs", "checkGps", "checkMqtt", "sending", "sent"}

GsmEnabled == "GSM" \in enabled
GpsEnabled == "GPS" \in enabled

TypeOK ==
  /\ enabled \in SUBSET {"GSM", "GPS"}
  /\ net \in BOOLEAN /\ broker \in BOOLEAN /\ fix \in BOOLEAN
  /\ modem \in {"off", "on", "sleep"}
  /\ clock \in 1 .. MaxClock
  /\ lock \in {"free", "caller", "mqtt"}
  /\ mqttTask \in {"none", "delay", "waiting"}
  /\ call \in {"none", "init", "send"}
  /\ handed \in BOOLEAN /\ published \in BOOLEAN
  /\ pc \in Locked \union
       {"idle", "gprsEnter", "mqttEnter", "gpsEnter", "reconnect",
        "position", "update", "publish"}
  /\ tries \in 0 .. 6
  /\ gpsFails \in 0 .. 3
  /\ lastFix \in 0 .. ClockModulus - 1

\* The driver has its own copy of the configuration, made before setup().
Init ==
  /\ enabled \in SUBSET {"GSM", "GPS"}
  /\ net = FALSE /\ broker = FALSE /\ fix = FALSE
  /\ modem = "off"
  /\ clock = 1
  /\ lock = "free" /\ mqttTask = "none"
  /\ call = "none" /\ handed = FALSE /\ published = FALSE /\ res = "none"
  /\ pc = "idle"
  /\ tries = 0 /\ gpsFails = 0 /\ lastFix = 0

-----------------------------------------------------------------------------
(* The outside world *)

\* SerialAT.begin() is called in connectGPRS() and nowhere else, and each
\* boot that gets so far with GSM disabled ends there (see Panics): nothing
\* is asked over an open line then.
SerialBegun == GsmEnabled

\* A line that is not open gives no answer; a sleeping modem answers late
\* or not at all.
Answer(x) ==
  IF ~SerialBegun THEN {FALSE} ELSE IF modem = "on" THEN {x} ELSE {x, FALSE}

Drops ==
  /\ \/ net /\ net' = FALSE /\ UNCHANGED <<broker, fix>>
     \/ broker /\ broker' = FALSE /\ UNCHANGED <<net, fix>>
     \/ fix /\ fix' = FALSE /\ UNCHANGED <<net, broker>>
  /\ UNCHANGED <<enabled, modem, clock, locks, sim, pc, local>>

FixFound ==
  /\ ~fix /\ modem # "off"
  /\ fix' = TRUE
  /\ UNCHANGED <<enabled, net, broker, modem, clock, locks, sim, pc, local>>

Tick ==
  /\ clock < MaxClock
  /\ clock' = clock + 1
  /\ UNCHANGED <<enabled, net, broker, fix, modem, locks, sim, pc, local>>

-----------------------------------------------------------------------------
(* Entering and leaving *)

Goto(l) == pc' = l

\* The outermost lock_guard, and its destructor.
Acquire == lock = "free" /\ lock' = "caller" /\ UNCHANGED mqttTask
Release == lock' = "free" /\ UNCHANGED mqttTask

\* sim->init() or sim->sendActPosition() returns code.
Return(code) ==
  /\ call' = "none" /\ res' = code
  /\ Goto("idle")
  /\ UNCHANGED <<handed, published>>

\* wakeUp(); its result is not looked at.
WakeUp == modem' = "on" /\ UNCHANGED <<enabled, net, broker, fix, clock>>

Begin(c, l) ==
  /\ call = "none"
  /\ call' = c /\ handed' = FALSE /\ published' = FALSE
  /\ tries' = 0 /\ gpsFails' = 0
  /\ Goto(l)
  /\ UNCHANGED <<world, locks, res>>

\* init(); called once, by Tracker::initModem.
BeginInit ==
  /\ res = "none"
  /\ Begin("init", IF GsmEnabled THEN "gprsEnter" ELSE "gpsEnter")

CallInit == BeginInit /\ UNCHANGED lastFix

\* Of the codes that are returned, those after which the tracker's loop goes
\* on; any other restarts the chip.
Resumable == {"Ok", "GPS_ACCURACY_TOO_LOW", "SENDING_DATA_FAILED"}

\* sendActPosition(), from the tracker's loop.
CallSend ==
  /\ res \in Resumable
  /\ Begin("send", "reconnect")
  /\ UNCHANGED lastFix

-----------------------------------------------------------------------------
(* connectGPRS() *)

\* Entered from init(); reconnect() has the lock already.
EnterGprs ==
  /\ pc = "gprsEnter"
  /\ Acquire /\ Goto("gprs")
  /\ UNCHANGED <<world, sim, local>>

\* Mutant: the modem is powered off but reconnect() goes on.
GprsFailedGoingOn ==
  /\ IF call = "init"
       THEN Release /\ Return("GSM_CONNECTION_ERROR") /\ modem' = "on"
       ELSE Goto("check") /\ modem' = "off" /\ UNCHANGED <<locks, sim>>
  /\ UNCHANGED <<enabled, clock, local>>

\* connectGPRS() returns FALSE.  reconnect() then powers the modem off.
GprsFailed ==
  /\ Release
  /\ IF call = "init"
       THEN Return("GSM_CONNECTION_ERROR") /\ modem' = "on"
       ELSE Return("UNKNOWN_ERROR") /\ modem' = "off"
  /\ UNCHANGED <<enabled, clock, local>>

\* modem.restart() drops the links, though the socket may not know it yet.  It
\* is left out if the chip last woke up by its timer, and it may fail.
RestartModem ==
  \/ net' = FALSE /\ fix' = FALSE /\ broker' \in {broker, FALSE}
  \/ UNCHANGED <<net, fix, broker>>

\* wakeUp(), restart, setNetworkMode, setPreferredMode.
SetUpGprs ==
  /\ pc = "gprs"
  /\ RestartModem
  /\ \/ modem' = "on" /\ Goto("network") /\ tries' = 0
        /\ UNCHANGED <<enabled, clock, locks, sim, gpsFails, lastFix>>
     \/ GprsFailed

\* Mutant: out of attempts, the loop starts over.
WaitStartsOver ==
  /\ pc = "network"
  /\ \/ tries' = (tries + 1) % 4 /\ UNCHANGED <<world, locks, sim, pc, gpsFails, lastFix>>
     \/ Goto("attach") /\ UNCHANGED <<world, locks, sim, local>>

\* The top of the loop, and waitForNetwork(25000).
WaitForNetwork ==
  /\ pc = "network"
  /\ \/ tries > 3 /\ GprsFailed /\ UNCHANGED <<net, broker, fix>>
     \/ tries <= 3 /\ tries' = tries + 1 /\ UNCHANGED <<world, locks, sim, pc, gpsFails, lastFix>>
     \/ tries <= 3 /\ Goto("attach") /\ UNCHANGED <<world, locks, sim, local>>

\* gprsConnect fails: back to the top, without counting the attempt.
AttachFails ==
  /\ pc = "attach"
  /\ Goto("network")
  /\ UNCHANGED <<world, locks, sim, local>>

\* connectGPRS() returns TRUE; reconnect() goes on to mqttClient.reconnect(2).
Attach ==
  /\ pc = "attach"
  /\ net' = TRUE /\ tries' = 0
  /\ IF call = "init" THEN Release /\ Goto("mqttEnter")
                      ELSE UNCHANGED locks /\ Goto("mqtt")
  /\ UNCHANGED <<enabled, broker, fix, modem, clock, sim, gpsFails, lastFix>>

-----------------------------------------------------------------------------
(* MqttClient::reconnect(maxAttempts) *)

\* init() and begin() of the client, whose connect() calls reconnect().
EnterMqtt ==
  /\ pc = "mqttEnter"
  /\ Acquire /\ Goto("mqtt")
  /\ UNCHANGED <<world, sim, local>>

\* Both places of SIM7000G::reconnect(), and MqttClient::begin().
InMqtt == pc \in {"mqtt", "mqttAgain"}

\* Mutant: the client is set up whether GSM is enabled or not.
ClientAlwaysSetUp == TRUE

\* init() and begin() of the client are called with GSM enabled only.
ClientSetUp == GsmEnabled

\* mqttClient.connect() succeeds.
MqttConnect ==
  /\ InMqtt /\ ClientSetUp /\ ~broker
  /\ net
  /\ broker' = TRUE
  /\ UNCHANGED <<enabled, net, fix, modem, clock, locks, sim, pc, local>>

MqttConnectFails ==
  /\ InMqtt /\ ClientSetUp /\ ~broker
  /\ tries' = tries + 1
  /\ IF tries' > MqttAttempts
       THEN Release /\ Return(IF call = "init" THEN "MQTT_CONNECTION_ERROR" ELSE "UNKNOWN_ERROR")
       ELSE UNCHANGED <<locks, sim, pc>>
  /\ UNCHANGED <<world, gpsFails, lastFix>>

\* Mutant: begin() connects and creates no task.
CreateNothing == mqttTask' = mqttTask

\* DefaultTasker.loopEvery("mqtt", 100, ...)
CreateMqttTask == mqttTask' = "delay"

\* reconnect() returns TRUE.  In init(), begin() then creates the mqtt task.
MqttConnected ==
  /\ InMqtt /\ broker
  /\ tries' = 0
  /\ IF call = "init"
       THEN lock' = "free" /\ CreateMqttTask /\ Goto("gpsEnter")
       ELSE UNCHANGED locks /\ Goto(IF pc = "mqtt" THEN "checkGps" ELSE "check")
  /\ UNCHANGED <<world, sim, gpsFails, lastFix>>

-----------------------------------------------------------------------------
(* connectGPS() *)

\* init(), second half: its loop calls connectGPS() up to four times.
EnterGps ==
  /\ pc = "gpsEnter"
  /\ IF GpsEnabled THEN Acquire /\ Goto("gps") /\ UNCHANGED sim
                   ELSE Return("Ok") /\ UNCHANGED locks
  /\ UNCHANGED <<world, local>>

\* Mutant: an early return that leaves SERIAL_LOCK taken.
GpsFailedLocked ==
  /\ Return(IF call = "init" THEN "GPS_CONNECTION_ERROR" ELSE "UNKNOWN_ERROR")
  /\ UNCHANGED <<locks, local>>

\* connectGPS() returns FALSE.
GpsFailed ==
  /\ Release
  /\ IF call = "init" /\ gpsFails < 3
       THEN gpsFails' = gpsFails + 1 /\ Goto("gpsEnter") /\ UNCHANGED sim
       ELSE /\ Return(IF call = "init" THEN "GPS_CONNECTION_ERROR" ELSE "UNKNOWN_ERROR")
            /\ UNCHANGED gpsFails
  /\ UNCHANGED <<tries, lastFix>>

\* What getActTime() may give: a failed getNetworkTime goes unnoticed.
ActTime == {clock} \union (IF ClockMayFail THEN 0 .. ClockModulus - 1 ELSE {})

\* The subtraction is of unsigned longs.
FastFixDue(now) == FastFix /\ (lastFix - now) % ClockModulus >= FastFixAge

\* wakeUp(), +SGPIO and enableGPS(), then a cold start with a new XTRA file
\* or a hot start with the one at hand.
StartGps ==
  /\ pc = "gps"
  /\ \/ /\ SerialBegun /\ WakeUp
        /\ \E now \in ActTime : Goto(IF FastFixDue(now) THEN "save" ELSE "waitFix")
        /\ UNCHANGED <<locks, sim, local>>
     \/ WakeUp /\ GpsFailed

\* setLastFastFixFileUpdate(getActTime()) after the download.
SaveFastFix ==
  /\ pc = "save"
  /\ lastFix' \in ActTime
  /\ Goto("waitFix")
  /\ UNCHANGED <<world, locks, sim, tries, gpsFails>>

\* getGPS() fails: wait for as long as there is a network.
FixLacking ==
  /\ pc = "waitFix" /\ ~fix
  /\ FALSE \in Answer(net)
  /\ GpsFailed
  /\ UNCHANGED world

\* connectGPS() returns TRUE.
FixAcquired ==
  /\ pc = "waitFix" /\ fix
  /\ IF call = "init" THEN Release /\ Return("Ok")
                      ELSE UNCHANGED <<locks, sim>> /\ Goto("checkMqtt")
  /\ UNCHANGED <<world, local>>

-----------------------------------------------------------------------------
(* reconnect() *)

EnterReconnect ==
  /\ pc = "reconnect"
  /\ Acquire /\ Goto("check")
  /\ UNCHANGED <<world, sim, local>>

\* The condition of the loop, and wakeUp() at the top of its body.
Check ==
  /\ pc = "check"
  /\ \/ /\ TRUE \in Answer(net) /\ broker /\ TRUE \in Answer(fix)
        /\ Release /\ Goto("position")
        /\ UNCHANGED world
     \/ /\ FALSE \in Answer(net) \union {broker} \union Answer(fix)
        /\ WakeUp /\ Goto("checkGprs")
        /\ UNCHANGED locks
  /\ UNCHANGED <<sim, local>>

\* The three tests of the loop's body; each sends the caller to mend what
\* it finds missing, or on to the next.
CheckGprs ==
  /\ pc = "checkGprs"
  /\ \E up \in Answer(net) : Goto(IF up THEN "checkGps" ELSE "gprs")
  /\ UNCHANGED <<world, locks, sim, local>>

CheckGps ==
  /\ pc = "checkGps"
  /\ \E found \in Answer(fix) : Goto(IF found THEN "checkMqtt" ELSE "gps")
  /\ UNCHANGED <<world, locks, sim, local>>

\* Mutant: a broker lost on its own is left to the next round of the loop.
CheckMqttLater ==
  /\ pc = "checkMqtt"
  /\ Goto("check")
  /\ UNCHANGED <<world, locks, sim, local>>

CheckMqtt ==
  /\ pc = "checkMqtt"
  /\ Goto(IF broker THEN "check" ELSE "mqttAgain")
  /\ UNCHANGED <<world, locks, sim, local>>

-----------------------------------------------------------------------------
(* The rest of sendActPosition() *)

\* actualPosition(): the connection is asked for again, under the lock.
PositionCodes ==
  {c \in {"MODEM_NOT_CONNECTED"} : FALSE \in Answer(net)} \union
  {c \in {"READ_GPS_COORDINATES_FAILED"} : FALSE \in Answer(fix)} \union
  {c \in {"GPS_COORDINATES_OUT_OF_RANGE", "GPS_ACCURACY_TOO_LOW", "Ok"} : fix /\ net}

ActualPosition ==
  /\ pc = "position" /\ lock = "free"
  /\ \E c \in PositionCodes :
       IF c = "Ok" THEN Goto("update") /\ UNCHANGED sim ELSE Return(c)
  /\ UNCHANGED <<world, locks, local>>

\* stateManager->updatePosition()
Update ==
  /\ pc = "update"
  /\ handed' = TRUE
  /\ Goto("publish")
  /\ UNCHANGED <<world, locks, call, published, res, local>>

\* sendMessage() up to sendString()'s lock; serialize() may give nothing.
SendMessage ==
  /\ pc = "publish"
  /\ \/ Acquire /\ Goto("sending") /\ UNCHANGED sim
     \/ Return("SENDING_DATA_FAILED") /\ UNCHANGED locks
  /\ UNCHANGED <<world, local>>

\* publish() with QoS 1: the message arrives ...
Deliver ==
  /\ pc = "sending" /\ broker
  /\ published' = TRUE
  /\ Goto("sent")
  /\ UNCHANGED <<world, locks, call, handed, res, local>>

\* ... and is acknowledged.
Acknowledged ==
  /\ pc = "sent"
  /\ Release /\ Return("Ok")
  /\ UNCHANGED <<world, local>>

\* Mutant: the result of publish() is not looked at.
PublishFailsUnnoticed ==
  /\ pc \in {"sending", "sent"}
  /\ Release /\ Return("Ok")
  /\ UNCHANGED <<world, local>>

\* Not connected, or no acknowledgement, of a message that did or did not
\* arrive.
PublishFails ==
  /\ pc \in {"sending", "sent"}
  /\ Release /\ Return("SENDING_DATA_FAILED")
  /\ UNCHANGED <<world, local>>

-----------------------------------------------------------------------------
(* sleep(), the mqtt task, and the power supply *)

\* Called by the tracker's loop between two sends, without SERIAL_LOCK;
\* never after a send that failed.
Sleep ==
  /\ call = "none" /\ res \in {"Ok", "GPS_ACCURACY_TOO_LOW"}
  /\ modem' = "sleep"
  /\ UNCHANGED <<enabled, net, broker, fix, clock, locks, sim, pc, local>>

\* loopEvery("mqtt", 100): the delay is over, the task asks for the lock.
MqttWakes ==
  /\ mqttTask = "delay" /\ lock # "mqtt"
  /\ mqttTask' = "waiting"
  /\ UNCHANGED <<world, lock, sim, pc, local>>

MqttLocks ==
  /\ mqttTask = "waiting" /\ lock = "free"
  /\ lock' = "mqtt" /\ mqttTask' = "delay"
  /\ UNCHANGED <<world, sim, pc, local>>

\* mqttClient.loop() returns, with the connection as it is or closed.
MqttUnlocks ==
  /\ lock = "mqtt"
  /\ lock' = "free"
  /\ broker' \in {broker, FALSE}
  /\ UNCHANGED <<enabled, net, fix, modem, clock, mqttTask, sim, pc, local>>

\* The chip is reset; the modem, on a supply of its own, is not.
ChipReset ==
  /\ lock' = "free" /\ mqttTask' = "none" /\ broker' = FALSE
  /\ call' = "none" /\ handed' = FALSE /\ published' = FALSE /\ res' = "none"
  /\ pc' = "idle" /\ tries' = 0 /\ gpsFails' = 0
  /\ UNCHANGED <<enabled, net, fix, modem, clock>>

\* The state file gives back nothing, or a timestamp saved before, which is not
\* always the last one.
PowerDown == ChipReset /\ lastFix' \in {0} \union 1 .. clock \union ActTime

\* reconnect(2) of a client that was never set up: it has no logger and no
\* network client, and what it calls through them resets the chip.
Panics == InMqtt /\ ~ClientSetUp /\ PowerDown

-----------------------------------------------------------------------------
CallerStep ==
  \/ SetUpGprs \/ WaitForNetwork \/ AttachFails \/ Attach
  \/ MqttConnect \/ MqttConnectFails \/ MqttConnected
  \/ StartGps \/ SaveFastFix \/ FixLacking \/ FixAcquired
  \/ Check \/ CheckGprs \/ CheckGps \/ CheckMqtt
  \/ Update \/ Deliver \/ Acknowledged \/ PublishFails
  \/ Panics

\* The steps that wait for SERIAL_LOCK.
CallerLocks ==
  EnterGprs \/ EnterMqtt \/ EnterGps \/ EnterReconnect \/ ActualPosition \/ SendMessage

Next ==
  \/ CallInit \/ CallSend \/ CallerLocks \/ CallerStep \/ Sleep
  \/ MqttWakes \/ MqttLocks \/ MqttUnlocks
  \/ Drops \/ FixFound \/ Tick
  \/ PowerDown

\* Both tasks are scheduled; FreeRTOS gives a mutex to those who wait for
\* it again and again; a GPS receiver that is on finds a fix in the end,
\* and a network that is asked again and again to attach attaches.
Fairness ==
  /\ WF_vars(CallerStep) /\ SF_vars(CallerLocks)
  /\ WF_vars(MqttWakes) /\ SF_vars(MqttLocks) /\ WF_vars(MqttUnlocks)
  /\ WF_vars(FixFound) /\ SF_vars(Attach)

Spec == Init /\ [][Next]_vars /\ Fairness

-----------------------------------------------------------------------------
(* Properties *)

S == INSTANCE ISim

\* What a call of the driver does, and what its status code says of it, is
\* what ISim says: among others, that Ok from sendActPosition() means that
\* a position was handed over and the message about it reached the broker.
ImplementsISim == S!Spec

\* Positions are only sent while the keepalive task exists.
KeepaliveExists == call = "send" /\ GsmEnabled => mqttTask # "none"

\* If the network stops failing, the keepalive task is never kept from
\* SERIAL_LOCK for ever, neither by a caller that waits for a network or a
\* fix while it holds the lock nor by one that takes it again and again.
KeepaliveServed ==
  <>[][~Drops]_vars =>
     (mqttTask = "waiting" ~> lock = "mqtt" \/ mqttTask = "none")

\* Every call returns if the network stops failing: no loop of reconnect(),
\* connectGPRS() or connectGPS() goes round for ever then.
CallReturns == <>[][~Drops]_vars => (call # "none" ~> call = "none")

\* SERIAL_LOCK is the caller's exactly in the code between its entries and
\* its returns, on every path through the nested calls.
LockMatchesCode == lock = "caller" <=> pc \in Locked

\* A modem that reconnect() gave up and powered off is switched on again by
\* init() only: the chip is restarted in between.
PowerOffIsFinal ==
  [][modem = "off" /\ modem' # "off" /\ enabled # {} => call = "init"]_vars

\* The two switches of the configuration are not independent: without GSM no
\* position is ever given to the state manager, GPS or not, so that nothing
\* the tracker is for can happen.
NothingWithoutGsm == ~GsmEnabled => ~handed /\ ~broker

\* What makes these inductive: which call the caller is in at each place,
\* and what that call has done by then ...
CallMatchesCode ==
  /\ call = "none" <=> pc = "idle"
  /\ pc \in {"gprsEnter", "mqttEnter", "gpsEnter"} => call = "init"
  /\ pc \in {"reconnect", "check", "checkGprs", "checkGps", "checkMqtt", "mqttAgain",
             "position", "update", "publish", "sending", "sent"} => call = "send"
  /\ call = "send" => /\ handed <=> pc \in {"publish", "sending", "sent"}
                      /\ published <=> pc = "sent"

\* ... that each loop starts counting its attempts at 0 ...
TriesInRange ==
  /\ pc = "network" => tries <= 4
  /\ pc = "attach"  => tries <= 3
  /\ InMqtt => tries <= MqttAttempts
  /\ pc \notin {"idle", "network", "attach", "mqtt", "mqttAgain"} => tries = 0

\* ... and that init() is past begin() of the MQTT client, and past wakeUp(),
\* when it can succeed.
GpsPart == pc \in {"gpsEnter", "gps", "save", "waitFix"}

KeepaliveCreated ==
  GsmEnabled /\ (call = "send" \/ res \in Resumable \/ (call = "init" /\ GpsPart))
    => mqttTask # "none"

\* Makes NothingWithoutGsm inductive: the loop of reconnect() is not left.
NeverConnected ==
  ~GsmEnabled => pc \notin {"position", "update", "publish", "sending", "sent"}

ModemInv ==
  TypeOK /\ LockMatchesCode /\ CallMatchesCode /\ TriesInRange /\ KeepaliveCreated

\* The same for the power of the modem.
OffOnlyBeforeWakeUp ==
  modem = "off" /\ enabled # {} =>
    /\ call # "send" /\ res \notin Resumable
    /\ call = "init" => \/ pc \in {"gprsEnter", "gprs"}
                        \/ ~GsmEnabled /\ pc \in {"gpsEnter", "gps"}

\* SIM7000G.cpp:158 "update file for fast fix once for 2.5 days", SIM7000G.h:80
\* "Call this once ever every three days": no file younger than FastFixAge
\* is downloaded again.
FastFixOnlyWhenOld ==
  [][SaveFastFix => lastFix = 0 \/ clock - lastFix >= FastFixAge]_vars

=============================================================================
