------------------------------ MODULE MCLibrary ------------------------------
(***************************************************************************)
(* The parts of the library that share nothing, side by side.  Each        *)
(* behaviour runs one of them, so that TLC adds their states up and does   *)
(* not multiply them.                                                      *)
(***************************************************************************)
EXTENDS DriveTool, SdoTransfer, FaultName, Utility, ConfigPxi, TcpServer, Framing,
        LogBuffers

VARIABLE part         \* the part that runs

Part == {"drive", "sdo", "name", "loop", "ntp", "config", "tcp", "frame", "buffers"}

libVars == <<part, driveVars, sdoVars, name, loopVars, ntpVars, confVars, tcpVars,
             frameVars, bufferVars>>

Init ==
  /\ part \in Part
  /\ DriveInit /\ SdoInit /\ FaultNameInit
  /\ LoopInit /\ NtpInit /\ ConfInit /\ TcpInit /\ FrameInit /\ BufferInit
  /\ part # "sdo" => object = CHOOSE v \in Value : TRUE

\* Only p runs: what the other parts keep is unchanged.
Alone(p) ==
  /\ part = p /\ UNCHANGED part
  /\ p # "drive" => UNCHANGED driveVars
  /\ p # "sdo" => UNCHANGED sdoVars
  /\ p # "name" => UNCHANGED name
  /\ p # "loop" => UNCHANGED loopVars
  /\ p # "ntp" => UNCHANGED ntpVars
  /\ p # "config" => UNCHANGED confVars
  /\ p # "tcp" => UNCHANGED tcpVars
  /\ p # "frame" => UNCHANGED frameVars
  /\ p # "buffers" => UNCHANGED bufferVars

Next ==
  \/ Alone("drive") /\ DriveNext
  \/ Alone("sdo") /\ SdoNext
  \/ Alone("name") /\ FaultNameNext
  \/ Alone("loop") /\ LoopNext
  \/ Alone("ntp") /\ NtpNext
  \/ Alone("config") /\ ConfNext
  \/ Alone("tcp") /\ TcpNext
  \/ Alone("frame") /\ FrameNext
  \/ Alone("buffers") /\ BufferNext

\* The controller's cycle goes on, the drives obey and finish what they do by
\* themselves, but one in quick stop may stay there.
DriveFairness ==
  /\ WF_libVars(Alone("drive") /\ ReadStatus)
  /\ WF_libVars(Alone("drive") /\ WriteControl)
  /\ \A d \in Drive :
       /\ WF_libVars(Alone("drive") /\ Obey(d))
       /\ WF_libVars(Alone("drive") /\ Proceed(d) /\ drive[d] # "QUICK_STOP_ACTIVE")

\* The caller polls on, and the master answers or times out.
SdoFairness ==
  /\ WF_libVars(Alone("sdo") /\ CallerStep)
  /\ WF_libVars(Alone("sdo") /\ Answer)

\* sleep() returns, and the caller runs on.
NtpFairness == WF_libVars(Alone("ntp") /\ (Sleep \/ WaitEnds))

LibrarySpec == Init /\ [][Next]_libVars /\ DriveFairness /\ SdoFairness /\ NtpFairness

-----------------------------------------------------------------------------
\* GoalReached, which only the part with the drives has to keep: a goal that stays
\* is reached by every drive that does not remain in FAULT, from wherever faults,
\* quick stops and earlier goals have left it (driveTool_nextCommandToGoalState()).
DrivesReachGoal == part = "drive" => GoalReached
=============================================================================
