------------------------------- MODULE Device -------------------------------
(***************************************************************************)
(* The whole device: main.cpp's setup() in front of the tracker.  Every    *)
(* reset, the tracker's own esp_restart() or a cut of the power, leads     *)
(* through the reset counter before a tracker runs again.                  *)
(***************************************************************************)
EXTENDS Tracker

CONSTANTS ServiceResets, MaxResets   \* as in Boot

ASSUME DeviceConstantsOK ==
  ServiceResets \in Nat \ {0} /\ MaxResets \in Nat /\ MaxResets > ServiceResets

VARIABLES bootPc, rc, quick

bootVars == <<bootPc, rc, quick>>

B == INSTANCE Boot

DeviceInit == Init /\ B!Init

\* setup() on its way to the tracker or to the service mode.
BootStep ==
  /\ B!PowerOn \/ B!EnterService \/ B!LeaveWindow
  /\ UNCHANGED vars

\* tracker.begin() and the loop task.
TrackerStep ==
  /\ bootPc = "tracker"
  /\ Run
  /\ UNCHANGED bootVars

\* esp_restart() of a tracker that gave up.
SelfRestart == Restart /\ B!Cut

\* The power is cut while a tracker runs, or at any moment of setup() or of
\* the service mode.
DevicePowerCut ==
  /\ B!Cut
  /\ PowerCut \/ (loopPc = "off" /\ UNCHANGED vars)

DeviceNext == BootStep \/ TrackerStep \/ SelfRestart \/ DevicePowerCut

DeviceVars == <<vars, bootVars>>

\* setup() runs, and esp_restart() restarts.
DeviceFairness == WF_DeviceVars(BootStep) /\ WF_DeviceVars(SelfRestart)

DeviceSpec == DeviceInit /\ [][DeviceNext]_DeviceVars /\ DeviceFairness

-----------------------------------------------------------------------------
(* Properties *)

ServiceIffQuickResets == B!ServiceIffQuickResets

\* A tracker that restarts itself is back at begin() without anyone's help,
\* however often it does so, unless the power is cut in the half second
\* before: its own restarts never end in the service mode.
TrackerComesBack ==
  loopPc = "restart" ~> (bootPc = "tracker" /\ loopPc = "off") \/ quick > 0
=============================================================================
