--------------------------- MODULE DriveToolProofs ---------------------------
(***************************************************************************)
(* Proofs about the two models of driveTool.c.                             *)
(*                                                                         *)
(* DriveTool, for any number of drives, goals and faults: its types, and   *)
(* that a command never takes a drive further than its goal asked for,     *)
(* however stale the state was that the command was chosen for.            *)
(*                                                                         *)
(* SdoTransfer, for any values, any width of a parameter, and any number   *)
(* of calls and tries: a read returns what the parameter was during the    *)
(* call, and a download tells the truth about its tries.                   *)
(***************************************************************************)
EXTENDS DriveTool, SdoTransfer, TLAPS

USE DEF NOCHANGE, SHUTDOWN, SWITCH_ON, DISABLE_VOLTAGE, DISABLE_OPERATION,
        ENABLE_OPERATION, RESET_FAULT, Unknown

\* The commands that give power, or clear a fault, and the goals they serve.
AsksFor(word, g) ==
  /\ word = RESET_FAULT => g = "SWITCH_ON_DISABLED"
  /\ word = SWITCH_ON => g \in {"SWITCHED_ON", "OPERATION_ENABLED"}
  /\ word = ENABLE_OPERATION => g = "OPERATION_ENABLED"

\* What the code relies on without saying so: the word in a drive, fresh or not,
\* is one its goal asks for.
Asked == \A d \in Drive : AsksFor(control[d], asked[d])

DriveInvariant == DriveTypeOK /\ Asked

\* From any state to any goal, driveTool_nextCommandToGoalState() answers with a
\* command the goal asks for, or with -1.
LEMMA CommandIsAskedFor ==
  ASSUME NEW s \in Ds402State \cup {"START"}, NEW g \in Goal
  PROVE  /\ nextCommandToGoalState(s, g) \in Command \cup {Unknown}
         /\ AsksFor(nextCommandToGoalState(s, g), g)
<1>1. CASE s = "SWITCH_ON_DISABLED"
  BY <1>1 DEF nextCommandToGoalState, nextCommandFromDisabled, Command, AsksFor, Goal
<1>2. CASE s = "READY_TO_SWITCH_ON"
  BY <1>2 DEF nextCommandToGoalState, nextCommandFromReadyToSwitchOn, Command, AsksFor, Goal
<1>3. CASE s = "SWITCHED_ON"
  BY <1>3 DEF nextCommandToGoalState, nextCommandFromSwitchedOn, Command, AsksFor, Goal
<1>4. CASE s = "OPERATION_ENABLED"
  BY <1>4 DEF nextCommandToGoalState, nextCommandFromEnabled, Command, AsksFor, Goal
<1>5. CASE s \in {"FAULT", "FAULT_REACTION_ACTIVE"}
  BY <1>5 DEF nextCommandToGoalState, nextCommandFromFault, Command, AsksFor, Goal
<1>6. CASE s = "QUICK_STOP_ACTIVE"
  BY <1>6 DEF nextCommandToGoalState, Command, AsksFor
<1>7. CASE s \in {"NOT_READY_TO_SWITCH_ON", "START"}
  BY <1>7 DEF nextCommandToGoalState, Command, AsksFor
<1> QED
  BY <1>1, <1>2, <1>3, <1>4, <1>5, <1>6, <1>7 DEF Ds402State

\* The decoder knows every word.
LEMMA DecodedIsState ==
  ASSUME NEW word
  PROVE  ds402_status_to_state(word) \in Ds402State
BY DEF ds402_status_to_state, Ds402State

\* A drive obeys within its states.
LEMMA ObeyedIsState ==
  ASSUME NEW s \in Ds402State, NEW word, NEW edge \in BOOLEAN
  PROVE  Obeyed(s, word, edge) \in Ds402State
BY DEF Obeyed, Ds402State, Powered

\* Only these commands take a drive up, and only an edge of bit 7 out of FAULT.
LEMMA ObeyedIsAsked ==
  ASSUME NEW s \in Ds402State, NEW word, NEW edge \in BOOLEAN
  PROVE  /\ s # "OPERATION_ENABLED" /\ Obeyed(s, word, edge) = "OPERATION_ENABLED"
              => word = ENABLE_OPERATION
         /\ s # "SWITCHED_ON" /\ Obeyed(s, word, edge) = "SWITCHED_ON" => word = SWITCH_ON
         /\ s = "FAULT" /\ Obeyed(s, word, edge) # "FAULT" => edge
BY DEF Obeyed, Ds402State, Powered

\* By itself a drive only switches off or falls into FAULT (Proceed).
LEMMA BySelfIsState ==
  ASSUME NEW s \in DOMAIN BySelf
  PROVE  /\ s \notin {"FAULT", "OPERATION_ENABLED", "SWITCHED_ON"}
         /\ BySelf[s] \in {"SWITCH_ON_DISABLED", "FAULT"}
BY DEF BySelf

\* No word has been sent at the start (DriveInit).
LEMMA DriveInitInvariant == DriveInit => DriveInvariant
BY DriveAssumption
DEF DriveInit, DriveInvariant, DriveTypeOK, Asked, AsksFor, Ds402State, Command, Goal

\* The types, and what the words were asked for, are kept by every step.
LEMMA DriveStepInvariant ==
  ASSUME DriveInvariant, [DriveNext]_driveVars
  PROVE  DriveInvariant'
<1> USE DriveAssumption DEF DriveInvariant, DriveTypeOK
<1>1. ASSUME NEW g \in Goal, SetGoal(g)
      PROVE  DriveInvariant'
  BY <1>1 DEF SetGoal, Asked, AsksFor
<1>2. CASE ReadStatus
  <2>1. states' \in [Drive -> Ds402State \cup {"START"}]
    BY <1>2, DecodedIsState DEF ReadStatus
  <2> QED
    BY <1>2, <2>1 DEF ReadStatus, Asked, AsksFor
<1>3. CASE WriteControl
  <2>1. \A d \in Drive : /\ NextCommand(d) \in Command \cup {Unknown}
                         /\ AsksFor(NextCommand(d), goal)
    BY CommandIsAskedFor DEF NextCommand
  <2>2. control' \in [Drive -> Command] /\ asked' \in [Drive -> Goal]
    BY <1>3, <2>1 DEF WriteControl
  <2>3. Asked'
    <3> SUFFICES ASSUME NEW d \in Drive PROVE AsksFor(control'[d], asked'[d])
      BY DEF Asked, AsksFor
    <3>1. CASE NextCommand(d) = Unknown
      <4>1. control'[d] = control[d] /\ asked'[d] = asked[d]
        BY <1>3, <3>1 DEF WriteControl
      <4> QED
        BY <4>1 DEF Asked, AsksFor
    <3>2. CASE NextCommand(d) # Unknown
      <4>1. control'[d] = NextCommand(d) /\ asked'[d] = goal
        BY <1>3, <3>2 DEF WriteControl
      <4> QED
        BY <4>1, <2>1 DEF AsksFor
    <3> QED
      BY <3>1, <3>2
  <2> QED
    BY <1>3, <2>2, <2>3 DEF WriteControl
<1>4. ASSUME NEW d \in Drive, Obey(d)
      PROVE  DriveInvariant'
  <2> DEFINE edge == control[d] = RESET_FAULT /\ ~hadReset[d]
  <2>1. drive' = [drive EXCEPT ![d] = Obeyed(drive[d], control[d], edge)]
    BY <1>4 DEF Obey
  <2>2. edge \in BOOLEAN
    OBVIOUS
  <2> HIDE DEF edge
  <2>3. Obeyed(drive[d], control[d], edge) \in Ds402State
    BY <2>2, ObeyedIsState
  <2>4. drive' \in [Drive -> Ds402State]
    BY <2>1, <2>3
  <2>5. hadReset' \in [Drive -> BOOLEAN]
    BY <1>4 DEF Obey
  <2> QED
    BY <1>4, <2>4, <2>5 DEF Obey, Asked, AsksFor
<1>5. ASSUME NEW d \in Drive, Proceed(d)
      PROVE  DriveInvariant'
  <2>1. drive' \in [Drive -> Ds402State]
    BY <1>5, BySelfIsState DEF Proceed, Ds402State
  <2> QED
    BY <1>5, <2>1 DEF Proceed, Asked, AsksFor
<1>6. ASSUME NEW d \in Drive, Upset(d)
      PROVE  DriveInvariant'
  <2>1. drive' \in [Drive -> Ds402State]
    BY <1>6 DEF Upset, Ds402State
  <2> QED
    BY <1>6, <2>1 DEF Upset, Asked, AsksFor
<1>7. CASE UNCHANGED driveVars
  BY <1>7 DEF driveVars, Asked, AsksFor
<1> QED
  BY <1>1, <1>2, <1>3, <1>4, <1>5, <1>6, <1>7 DEF DriveNext

\* Every word sent is a DS402 command, every state decoded a DS402 state
\* (driveTool_nextCommandToGoalState(), ds402_status_to_state()).
THEOREM DriveTyped == DriveSpec => []DriveTypeOK
<1>1. DriveInvariant => DriveTypeOK
  BY DEF DriveInvariant
<1> QED
  BY <1>1, DriveInitInvariant, DriveStepInvariant, PTL DEF DriveSpec

\* One step of DriveSpec, as OnlyAsAsked says it.
AsAsked ==
  \A d \in Drive :
    /\ Enters(d, "OPERATION_ENABLED") => asked[d] = "OPERATION_ENABLED"
    /\ Enters(d, "SWITCHED_ON") => asked[d] \in {"SWITCHED_ON", "OPERATION_ENABLED"}
    /\ Leaves(d, "FAULT") => asked[d] = "SWITCH_ON_DISABLED"

\* From the invariant, a step takes a drive up, or out of FAULT, only as asked.
LEMMA StepAsAsked ==
  ASSUME DriveInvariant, DriveNext
  PROVE  AsAsked
<1> USE DEF DriveInvariant, DriveTypeOK, Enters, Leaves
<1>1. CASE UNCHANGED drive
  BY <1>1 DEF AsAsked
<1>2. ASSUME NEW d \in Drive, Obey(d)
      PROVE  AsAsked
  <2> DEFINE edge == control[d] = RESET_FAULT /\ ~hadReset[d]
  <2>1. \A x \in Drive \ {d} : drive'[x] = drive[x]
    BY <1>2 DEF Obey
  <2>2. drive'[d] = Obeyed(drive[d], control[d], edge)
    BY <1>2 DEF Obey
  <2>3. edge \in BOOLEAN /\ (edge => control[d] = RESET_FAULT)
    OBVIOUS
  <2>4. AsksFor(control[d], asked[d])
    BY DEF Asked
  <2> HIDE DEF edge
  <2>5. /\ Enters(d, "OPERATION_ENABLED") => control[d] = ENABLE_OPERATION
        /\ Enters(d, "SWITCHED_ON") => control[d] = SWITCH_ON
        /\ Leaves(d, "FAULT") => control[d] = RESET_FAULT
    BY <2>2, <2>3, ObeyedIsAsked
  <2> QED
    BY <2>1, <2>4, <2>5 DEF AsAsked, AsksFor
<1>3. ASSUME NEW d \in Drive, Proceed(d)
      PROVE  AsAsked
  <2>1. \A x \in Drive \ {d} : drive'[x] = drive[x]
    BY <1>3 DEF Proceed
  <2>2. /\ drive[d] # "FAULT"
        /\ drive'[d] \in {"SWITCH_ON_DISABLED", "FAULT"}
    BY <1>3, BySelfIsState DEF Proceed
  <2> QED
    BY <2>1, <2>2 DEF AsAsked
<1>4. ASSUME NEW d \in Drive, Upset(d)
      PROVE  AsAsked
  <2>1. \A x \in Drive \ {d} : drive'[x] = drive[x]
    BY <1>4 DEF Upset
  <2>2. /\ drive[d] # "FAULT"
        /\ drive'[d] \in {"FAULT_REACTION_ACTIVE", "QUICK_STOP_ACTIVE"}
    BY <1>4 DEF Upset
  <2> QED
    BY <2>1, <2>2 DEF AsAsked
<1> QED
  BY <1>1, <1>2, <1>3, <1>4 DEF DriveNext, SetGoal, ReadStatus, WriteControl

\* Whatever happened since a drive's state was read, no command gives it more
\* power than its goal asks for or clears its fault for another goal than
\* SWITCH_ON_DISABLED (driveTool_nextCommandToGoalState()).
THEOREM DrivesOnlyAsAsked == DriveSpec => OnlyAsAsked
<1>1. DriveInvariant /\ [DriveNext]_driveVars => [AsAsked]_driveVars
  BY StepAsAsked
<1> QED
  BY <1>1, DriveInitInvariant, DriveStepInvariant, PTL DEF DriveSpec, OnlyAsAsked, AsAsked

\* Of every status word that DS402 allows a state to show, the decoder tells that
\* state, whatever the bits that do not matter are.
LEMMA DecodedIsShown ==
  ASSUME NEW s \in Ds402State, NEW word \in StatusWord(s)
  PROVE  ds402_status_to_state(word) = s
<1>1. PICK q \in SUBSET {"quick_stop"} :
        /\ word = Bits[s] \cup q
        /\ s \in Powered => q = {"quick_stop"}
        /\ s = "QUICK_STOP_ACTIVE" => q = {}
  BY DEF StatusWord, Powered
<1>2. CASE s = "QUICK_STOP_ACTIVE"
  BY <1>1, <1>2 DEF ds402_status_to_state, isQuickStop, Bits, Nibble
<1>3. CASE s = "OPERATION_ENABLED"
  <2>1. word = {"ready_to_switch_on", "switched_on", "operation_enabled", "quick_stop"}
    BY <1>1, <1>3 DEF Powered, Bits, Nibble
  <2>2. "quick_stop" \in word /\ "quick_stop" \notin Nibble
    BY <2>1 DEF Nibble
  <2> QED
    BY <1>3, <2>1, <2>2 DEF ds402_status_to_state, isQuickStop, Nibble
<1>4. CASE s \in {"FAULT_REACTION_ACTIVE", "FAULT"}
  BY <1>1, <1>4 DEF ds402_status_to_state, Bits, Nibble
<1>5. CASE s \in {"NOT_READY_TO_SWITCH_ON", "SWITCH_ON_DISABLED", "READY_TO_SWITCH_ON", "SWITCHED_ON"}
  <2>1. "operation_enabled" \notin word /\ "fault" \notin word
    BY <1>1, <1>5 DEF Bits
  <2> QED
    BY <1>1, <1>5, <2>1 DEF ds402_status_to_state, isQuickStop, Bits, Nibble
<1> QED
  BY <1>2, <1>3, <1>4, <1>5 DEF Ds402State

\* The states that the controller believes all drives to be in once it has read
\* them are those they all were in.
SeenNow ==
  cyclePc' = "write" /\ cyclePc = "read" =>
    \A s \in Ds402State : areTargetState(s)' <=> \A d \in Drive : drive[d] = s

\* Only reading the status words opens a cycle, and then every drive is decoded
\* from a word of its own state.
LEMMA StepSeen == DriveInvariant /\ [DriveNext]_driveVars => [SeenNow]_driveVars
<1> SUFFICES ASSUME DriveTypeOK, DriveNext
             PROVE  SeenNow
  BY DEF DriveInvariant
<1>1. CASE ReadStatus
  <2>1. \A d \in Drive : states'[d] = drive[d]
    BY <1>1, DecodedIsShown DEF ReadStatus, DriveTypeOK
  <2> QED
    BY <2>1 DEF SeenNow, areTargetState
<1>2. CASE ~ReadStatus
  <2>1. ~(cyclePc' = "write" /\ cyclePc = "read")
    BY <1>2 DEF DriveNext, SetGoal, WriteControl, Obey, Proceed, Upset
  <2> QED
    BY <2>1 DEF SeenNow
<1> QED
  BY <1>1, <1>2

\* The controller takes no state for another: all drives are decoded to be in a
\* state exactly when they were in it (ds402_status_to_state(),
\* driveTool_areOperationEnabled(), driveTool_areSwitchOnDisabled()).
THEOREM StatesSeenAsTheyAre == DriveSpec => SeenAsIs
<1>1. DriveInvariant /\ [DriveNext]_driveVars => [SeenNow]_driveVars
  BY StepSeen
<1> QED
  BY <1>1, DriveInitInvariant, DriveStepInvariant, PTL DEF DriveSpec, SeenAsIs, SeenNow

-----------------------------------------------------------------------------
(* The SDO requests (SdoTransfer).                                         *)

\* What a polling caller relies on: the answer it is about to take is one to its
\* own request, and of a value the parameter had since the call began.
Fresh ==
  sdoPc = "poll" => /\ object \in seen
                    /\ request = "SUCCESS" => data \in seen

\* While it tries, no try was confirmed, and the error is that of the last try.
Untold ==
  sdoPc = "download" => /\ applied # "told"
                        /\ call.answer = 0 <=> call.count = 0

SdoInvariant == SdoTypeOK /\ Fresh /\ Untold

Calls == [isSigned : BOOLEAN, value : -Half .. 2 * Half - 1, answer : {0, -1, -2},
          maxRetryTimes : -1 .. MaxRetry, count : 0 .. MaxRetry]

\* The sign is within the width.
LEMMA ReadInRange ==
  ASSUME NEW raw \in 0 .. 2 * Half - 1, NEW isSigned \in BOOLEAN
  PROVE  Read(raw, isSigned) \in -Half .. 2 * Half - 1
BY HalfAssumption DEF Read

\* No request at the start (SdoInit).
LEMMA SdoInitInvariant == SdoInit => SdoInvariant
BY HalfAssumption, CallAssumption DEF SdoInit, SdoInvariant, SdoTypeOK, Fresh, Untold

\* No step of the caller, the master or the drive disturbs it (SdoNext).
LEMMA SdoStepInvariant ==
  ASSUME SdoInvariant, [SdoNext]_sdoVars
  PROVE  SdoInvariant'
<1> USE HalfAssumption, CallAssumption DEF SdoInvariant, SdoTypeOK
<1>1. ASSUME NEW isSigned \in BOOLEAN, GetSdoParam(isSigned)
      PROVE  SdoInvariant'
  BY <1>1 DEF GetSdoParam, Call, NewRequest, Fresh, Untold
<1>2. CASE GetSdoParamFails
  BY <1>2 DEF GetSdoParamFails, Call, Fresh, Untold
<1>3. ASSUME NEW max \in -1 .. MaxRetry, SdoDownload(max)
      PROVE  SdoInvariant'
  <2>1. call' = [isSigned |-> call.isSigned, value |-> call.value, answer |-> 0,
                 maxRetryTimes |-> max, count |-> 0]
    BY <1>3 DEF SdoDownload
  <2>2. call' \in Calls /\ call'.answer = 0 /\ call'.count = 0
    BY <2>1 DEF Calls
  <2> QED
    BY <1>3, <2>2 DEF SdoDownload, Call, Calls, Fresh, Untold
<1>4. CASE Trigger
  BY <1>4 DEF Trigger, Fresh, Untold
<1>5. CASE ReadData
  <2>1. Read(data, call.isSigned) \in -Half .. 2 * Half - 1
    BY ReadInRange
  <2>2. call' \in Calls /\ UNCHANGED <<call.count, call.maxRetryTimes>>
    BY <1>5, <2>1 DEF ReadData, Calls
  <2> QED
    BY <1>5, <2>2 DEF ReadData, Calls, Fresh, Untold
<1>6. CASE ReadError
  BY <1>6 DEF ReadError, Fresh, Untold
<1>7. ASSUME NEW v \in Value, DownloadSucceeds(v)
      PROVE  SdoInvariant'
  BY <1>7 DEF DownloadSucceeds, Fresh, Untold
<1>8. ASSUME NEW v \in Value, DownloadFails(v)
      PROVE  SdoInvariant'
  <2>1. /\ call \in Calls /\ call.count \in 0 .. MaxRetry
        /\ call.maxRetryTimes \in -1 .. MaxRetry /\ call.count < call.maxRetryTimes
    BY <1>8 DEF DownloadFails, MayTry, Calls
  <2>2. call.count + 1 \in 0 .. MaxRetry
    BY <2>1
  <2>3. call' = [isSigned |-> call.isSigned, value |-> call.value, answer |-> -2,
                 maxRetryTimes |-> call.maxRetryTimes, count |-> call.count + 1]
    BY <1>8 DEF DownloadFails
  <2>4. call' \in Calls /\ call'.count <= call'.maxRetryTimes
    BY <2>1, <2>2, <2>3 DEF Calls
  <2>5. applied' \in {"no", "lost", "told"} /\ object' \in Value
    BY <1>8 DEF DownloadFails
  <2>6. Untold'
    BY <1>8 DEF DownloadFails, MayTry, Untold
  <2> QED
    BY <1>8, <2>4, <2>5, <2>6 DEF DownloadFails, Calls, Fresh
<1>9. CASE DownloadReturn
  BY <1>9 DEF DownloadReturn, Fresh, Untold
<1>10. CASE Answer
  BY <1>10 DEF Answer, Fresh, Untold
<1>11. ASSUME NEW v \in Value, Change(v)
       PROVE  SdoInvariant'
  BY <1>11 DEF Change, Fresh, Untold
<1>12. CASE UNCHANGED sdoVars
  BY <1>12 DEF sdoVars, Fresh, Untold
<1> QED
  BY <1>1, <1>2, <1>3, <1>4, <1>5, <1>6, <1>7, <1>8, <1>9, <1>10, <1>11, <1>12
  DEF SdoNext, CallerStep

\* The types, and no more tries than maxRetryTimes (driveTool_sdoDownload()).
THEOREM SdoTyped == SdoSpec => []SdoTypeOK
<1>1. SdoInvariant => SdoTypeOK
  BY DEF SdoInvariant
<1> QED
  BY <1>1, SdoInitInvariant, SdoStepInvariant, PTL DEF SdoSpec

-----------------------------------------------------------------------------
(* One step, as ReadFresh and DownloadTold say it.                         *)

IsFresh ==
  Returns("poll") =>
    IF call'.answer = 0 THEN call'.value \in {Read(v, call.isSigned) : v \in seen}
    ELSE call'.value = call.value

IsTold ==
  Returns("download") /\ call.maxRetryTimes > 0 =>
    /\ call'.answer = 0 <=> applied' = "told"
    /\ call'.answer # 0 => call'.count = call.maxRetryTimes

\* Only these steps return.
LEMMA Returning ==
  ASSUME SdoNext
  PROVE  /\ Returns("poll") => ReadData \/ ReadError
         /\ Returns("download") =>
              (\E v \in Value : DownloadSucceeds(v)) \/ DownloadReturn
BY DEF SdoNext, CallerStep, Returns, GetSdoParam, GetSdoParamFails, SdoDownload, Call,
       Trigger, ReadData, ReadError, DownloadSucceeds, DownloadFails, DownloadReturn,
       Answer, Change

\* The step in which a read returns takes the data of its own request (ReadData).
LEMMA StepIsFresh ==
  ASSUME SdoInvariant, SdoNext
  PROVE  IsFresh
<1>1. CASE ReadData
  <2>1. call'.value = Read(data, call.isSigned) /\ data \in seen /\ call'.answer = 0
    BY <1>1 DEF ReadData, SdoInvariant, SdoTypeOK, Fresh
  <2> QED
    BY <2>1 DEF IsFresh
<1>2. CASE ReadError
  BY <1>2 DEF ReadError, IsFresh, SdoInvariant, SdoTypeOK
<1> QED
  BY <1>1, <1>2, Returning DEF IsFresh

\* The step in which a download returns says what became of its tries (DownloadReturn).
LEMMA StepIsTold ==
  ASSUME SdoInvariant, SdoNext
  PROVE  IsTold
<1>1. ASSUME NEW v \in Value, DownloadSucceeds(v)
      PROVE  IsTold
  BY <1>1 DEF DownloadSucceeds, IsTold, SdoInvariant, SdoTypeOK
<1>2. CASE DownloadReturn
  <2>1. /\ call' = call /\ applied' = applied /\ ~(call.count < call.maxRetryTimes)
        /\ applied # "told"
        /\ call.answer = 0 <=> call.count = 0
    BY <1>2 DEF DownloadReturn, MayTry, SdoInvariant, Untold
  <2>2. /\ call.count \in 0 .. MaxRetry /\ call.maxRetryTimes \in -1 .. MaxRetry
        /\ call.count > 0 => call.count <= call.maxRetryTimes
    BY DEF SdoInvariant, SdoTypeOK
  <2>3. call.maxRetryTimes > 0 => call.count > 0 /\ call.count = call.maxRetryTimes
    BY <2>1, <2>2, CallAssumption
  <2> QED
    BY <2>1, <2>3 DEF IsTold
<1> QED
  BY <1>1, <1>2, Returning DEF IsTold

\* A read gives a value the parameter had during the call, or leaves *pValue alone
\* (driveTool_getSdoParam() and those that call it).
THEOREM ReadsAreFresh == SdoSpec => ReadFresh
<1>1. SdoInvariant /\ [SdoNext]_sdoVars => [IsFresh]_sdoVars
  BY StepIsFresh
<1> QED
  BY <1>1, SdoInitInvariant, SdoStepInvariant, PTL DEF SdoSpec, ReadFresh, IsFresh

\* A download that is allowed a try says 0 exactly when one was confirmed
\* (driveTool_sdoDownload()).
THEOREM DownloadsAreTold == SdoSpec => DownloadTold
<1>1. SdoInvariant /\ [SdoNext]_sdoVars => [IsTold]_sdoVars
  BY StepIsTold
<1> QED
  BY <1>1, SdoInitInvariant, SdoStepInvariant, PTL DEF SdoSpec, DownloadTold, IsTold
=============================================================================
