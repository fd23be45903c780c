------------------------------ MODULE DriveTool ------------------------------
(***************************************************************************)
(* src/drives/driveTool.c and include/drives/ds402.h: how the controller   *)
(* brings its drives to a goal state of DS402, the state machine of CANopen *)
(* drives.  In each cycle it reads the status words, decodes them, and      *)
(* writes the next command on the way to the goal.  The drives follow in    *)
(* their own time, so that the state a command was chosen for may be over  *)
(* when the drive obeys it.                                                *)
(***************************************************************************)
EXTENDS Integers

CONSTANTS Drive,      \* the drives
          MaxGoal,    \* bound: how often the controller changes its goal
          MaxUpset    \* bound: how often a drive faults or stops by itself

ASSUME DriveAssumption == Drive # {} /\ {MaxGoal, MaxUpset} \subseteq Nat

VARIABLES drive,      \* the state each drive is in
          control,    \* the control word in each drive
          hadReset,   \* was bit 7 already set when the drive last looked
          states,     \* the states the controller has decoded
          goal,       \* the state it wants
          asked,      \* history: the goal each control word was chosen for
          cyclePc, goals, upsets

driveVars == <<drive, control, hadReset, states, goal, asked, cyclePc, goals, upsets>>

Ds402State == {"NOT_READY_TO_SWITCH_ON", "SWITCH_ON_DISABLED", "READY_TO_SWITCH_ON",
               "SWITCHED_ON", "OPERATION_ENABLED", "QUICK_STOP_ACTIVE",
               "FAULT_REACTION_ACTIVE", "FAULT"}
\* What a caller asks for; FAULT is how it takes back a reset.
Goal == {"SWITCH_ON_DISABLED", "READY_TO_SWITCH_ON", "SWITCHED_ON", "OPERATION_ENABLED", "FAULT"}

NOCHANGE == 0
SHUTDOWN == 6
SWITCH_ON == 7
DISABLE_VOLTAGE == 4
\* The value of DS402_COMMAND_QUICK_STOP.
DISABLE_OPERATION_Swapped == 11
DISABLE_OPERATION == 7
ENABLE_OPERATION == 15
RESET_FAULT == 128
Command == {NOCHANGE, SHUTDOWN, SWITCH_ON, DISABLE_VOLTAGE, ENABLE_OPERATION, RESET_FAULT}
Unknown == -1

-----------------------------------------------------------------------------
(* ds402.h: a status word is the set of its bits, as far as they matter.   *)

Nibble == {"ready_to_switch_on", "switched_on", "operation_enabled", "fault"}

\* The mask 0x4f instead of 0x6f.
isQuickStop_SmallMask(word) == word \ {"quick_stop"} = Nibble \ {"fault"}
isQuickStop(word) == word = Nibble \ {"fault"}

\* The first rule that fits.
ds402_status_to_state(word) ==
  IF Nibble \subseteq word THEN "FAULT_REACTION_ACTIVE"
  ELSE IF "fault" \in word THEN "FAULT"
  ELSE IF isQuickStop(word) THEN "QUICK_STOP_ACTIVE"
  ELSE IF "switch_on_disabled" \in word THEN "SWITCH_ON_DISABLED"
  ELSE IF "operation_enabled" \in word THEN "OPERATION_ENABLED"
  ELSE IF "switched_on" \in word THEN "SWITCHED_ON"
  ELSE IF "ready_to_switch_on" \in word THEN "READY_TO_SWITCH_ON"
  ELSE "NOT_READY_TO_SWITCH_ON"

\* DS402: the bits that tell a state; quick_stop is high in a powered drive, low in
\* one that stops quickly, and of no meaning in another.
Powered == {"READY_TO_SWITCH_ON", "SWITCHED_ON", "OPERATION_ENABLED"}
Bits == [NOT_READY_TO_SWITCH_ON |-> {},
         SWITCH_ON_DISABLED |-> {"switch_on_disabled"},
         READY_TO_SWITCH_ON |-> {"ready_to_switch_on"},
         SWITCHED_ON |-> {"ready_to_switch_on", "switched_on"},
         OPERATION_ENABLED |-> Nibble \ {"fault"},
         QUICK_STOP_ACTIVE |-> Nibble \ {"fault"},
         FAULT_REACTION_ACTIVE |-> Nibble,
         FAULT |-> {"fault"}]
StatusWord(s) ==
  {Bits[s] \cup q : q \in CASE s \in Powered -> {{"quick_stop"}}
                            [] s = "QUICK_STOP_ACTIVE" -> {{}}
                            [] OTHER -> SUBSET {"quick_stop"}}

-----------------------------------------------------------------------------
(* The next command from each state; any other goal is logged as an error. *)

nextCommandFromDisabled(g) ==
  IF g = "SWITCH_ON_DISABLED" THEN DISABLE_VOLTAGE ELSE SHUTDOWN

\* The last step to the operation was forgotten.
nextCommandFromReadyToSwitchOn_Stops(g) ==
  CASE g = "SWITCH_ON_DISABLED" -> DISABLE_VOLTAGE
    [] g = "SWITCHED_ON" -> SWITCH_ON
    [] OTHER -> SHUTDOWN
nextCommandFromReadyToSwitchOn(g) ==
  CASE g = "SWITCH_ON_DISABLED" -> DISABLE_VOLTAGE
    [] g \in {"SWITCHED_ON", "OPERATION_ENABLED"} -> SWITCH_ON
    [] OTHER -> SHUTDOWN

nextCommandFromSwitchedOn(g) ==
  CASE g = "SWITCHED_ON" -> SWITCH_ON
    [] g = "OPERATION_ENABLED" -> ENABLE_OPERATION
    [] OTHER -> SHUTDOWN

nextCommandFromEnabled(g) ==
  CASE g = "SWITCHED_ON" -> DISABLE_OPERATION
    [] g = "OPERATION_ENABLED" -> ENABLE_OPERATION
    [] OTHER -> SHUTDOWN

\* A fault reset on the way to any goal, or to none.
nextCommandFromFault_Always(g) == IF g = "FAULT" THEN SHUTDOWN ELSE RESET_FAULT
nextCommandFromFault_Never(g) == IF g = "FAULT" THEN SHUTDOWN ELSE NOCHANGE
nextCommandFromFault(g) ==
  CASE g = "FAULT" -> SHUTDOWN
    [] g = "SWITCH_ON_DISABLED" -> RESET_FAULT
    [] OTHER -> NOCHANGE

nextCommandToGoalState(s, g) ==
  CASE s = "SWITCH_ON_DISABLED" -> nextCommandFromDisabled(g)
    [] s = "READY_TO_SWITCH_ON" -> nextCommandFromReadyToSwitchOn(g)
    [] s = "SWITCHED_ON" -> nextCommandFromSwitchedOn(g)
    [] s = "OPERATION_ENABLED" -> nextCommandFromEnabled(g)
    [] s \in {"FAULT", "FAULT_REACTION_ACTIVE"} -> nextCommandFromFault(g)
    [] s = "QUICK_STOP_ACTIVE" -> NOCHANGE
    [] OTHER -> Unknown

\* areOperationEnabled() and areSwitchOnDisabled()
areTargetState(target) == \A d \in Drive : states[d] = target

-----------------------------------------------------------------------------
DriveInit ==
  /\ drive = [d \in Drive |-> "NOT_READY_TO_SWITCH_ON"]
  /\ control = [d \in Drive |-> NOCHANGE]
  /\ hadReset = [d \in Drive |-> FALSE]
  /\ states = [d \in Drive |-> "START"]
  /\ goal = "SWITCH_ON_DISABLED"
  /\ asked = [d \in Drive |-> "SWITCH_ON_DISABLED"]
  /\ cyclePc = "read"
  /\ goals = 0
  /\ upsets = 0

SetGoal(g) ==
  /\ goals < MaxGoal
  /\ goals' = goals + 1
  /\ goal' = g
  /\ UNCHANGED <<drive, control, hadReset, states, asked, cyclePc, upsets>>

\* The status words arrive in one frame.
ReadStatus ==
  /\ cyclePc = "read"
  /\ cyclePc' = "write"
  /\ \E word \in [Drive -> UNION {StatusWord(s) : s \in Ds402State}] :
       /\ \A d \in Drive : word[d] \in StatusWord(drive[d])
       /\ states' = [d \in Drive |-> ds402_status_to_state(word[d])]
  /\ UNCHANGED <<drive, control, hadReset, goal, asked, goals, upsets>>

\* The commands leave in the next one; -1 is no command.
NextCommand(d) == nextCommandToGoalState(states[d], goal)
WriteControl ==
  /\ cyclePc = "write"
  /\ cyclePc' = "read"
  /\ control' = [d \in Drive |-> IF NextCommand(d) = Unknown THEN control[d] ELSE NextCommand(d)]
  /\ asked' = [d \in Drive |-> IF NextCommand(d) = Unknown THEN asked[d] ELSE goal]
  /\ UNCHANGED <<drive, hadReset, states, goal, goals, upsets>>

\* DS402: where a control word takes a drive.  A fault is reset by the rising
\* edge of bit 7; a word without bit 1 takes the voltage away.
Obeyed(s, word, edge) ==
  CASE word = SHUTDOWN /\ s \in {"SWITCH_ON_DISABLED", "SWITCHED_ON", "OPERATION_ENABLED"} ->
         "READY_TO_SWITCH_ON"
    [] word = SWITCH_ON /\ s \in {"READY_TO_SWITCH_ON", "OPERATION_ENABLED"} -> "SWITCHED_ON"
    [] word = ENABLE_OPERATION /\ s = "SWITCHED_ON" -> "OPERATION_ENABLED"
    [] word \in {NOCHANGE, DISABLE_VOLTAGE, RESET_FAULT} /\ s \in Powered \cup {"QUICK_STOP_ACTIVE"} ->
         "SWITCH_ON_DISABLED"
    [] edge /\ s = "FAULT" -> "SWITCH_ON_DISABLED"
    [] OTHER -> s

Obey(d) ==
  /\ drive' = [drive EXCEPT ![d] = Obeyed(@, control[d], control[d] = RESET_FAULT /\ ~hadReset[d])]
  /\ hadReset' = [hadReset EXCEPT ![d] = control[d] = RESET_FAULT]
  /\ UNCHANGED <<control, states, goal, asked, cyclePc, goals, upsets>>

\* What a drive does by itself.
BySelf == [NOT_READY_TO_SWITCH_ON |-> "SWITCH_ON_DISABLED",
           QUICK_STOP_ACTIVE |-> "SWITCH_ON_DISABLED",
           FAULT_REACTION_ACTIVE |-> "FAULT"]
Proceed(d) ==
  /\ drive[d] \in DOMAIN BySelf
  /\ drive' = [drive EXCEPT ![d] = BySelf[@]]
  /\ UNCHANGED <<control, hadReset, states, goal, asked, cyclePc, goals, upsets>>

\* It faults, or its quick stop is pressed.
Upset(d) ==
  /\ upsets < MaxUpset
  /\ upsets' = upsets + 1
  /\ \/ /\ drive[d] \notin {"FAULT", "FAULT_REACTION_ACTIVE"}
        /\ drive' = [drive EXCEPT ![d] = "FAULT_REACTION_ACTIVE"]
     \/ /\ drive[d] = "OPERATION_ENABLED"
        /\ drive' = [drive EXCEPT ![d] = "QUICK_STOP_ACTIVE"]
  /\ UNCHANGED <<control, hadReset, states, goal, asked, cyclePc, goals>>

DriveNext ==
  \/ \E g \in Goal : SetGoal(g)
  \/ ReadStatus \/ WriteControl
  \/ \E d \in Drive : Obey(d) \/ Proceed(d) \/ Upset(d)

DriveSpec == DriveInit /\ [][DriveNext]_driveVars

-----------------------------------------------------------------------------
DriveTypeOK ==
  /\ drive \in [Drive -> Ds402State]
  /\ control \in [Drive -> Command]
  /\ hadReset \in [Drive -> BOOLEAN]
  /\ states \in [Drive -> Ds402State \cup {"START"}]
  /\ goal \in Goal
  /\ asked \in [Drive -> Goal]
  /\ cyclePc \in {"read", "write"}
  /\ goals \in 0 .. MaxGoal
  /\ upsets \in 0 .. MaxUpset

\* The controller takes no state for another, whatever the bits that do not
\* matter are, and so believes that all drives have reached a state exactly when
\* they were in it as it read them (ds402_status_to_state(), areTargetState()).
SeenAsIs ==
  [][cyclePc' = "write" /\ cyclePc = "read" =>
       \A s \in Ds402State : areTargetState(s)' <=> \A d \in Drive : drive[d] = s]_driveVars

Enters(d, s) == drive[d] # s /\ drive'[d] = s
Leaves(d, s) == drive[d] = s /\ drive'[d] # s

\* Whatever a drive did since its state was read, a command never makes it gain
\* more power than its goal asks for, and never clears a fault unless the goal
\* was SWITCH_ON_DISABLED (nextCommandToGoalState()).
OnlyAsAsked ==
  [][\A d \in Drive :
       /\ Enters(d, "OPERATION_ENABLED") => asked[d] = "OPERATION_ENABLED"
       /\ Enters(d, "SWITCHED_ON") => asked[d] \in {"SWITCHED_ON", "OPERATION_ENABLED"}
       /\ Leaves(d, "FAULT") => asked[d] = "SWITCH_ON_DISABLED"]_driveVars

\* A goal that stays is reached by every drive that does not remain in FAULT,
\* from wherever faults, quick stops and earlier goals have left it.
GoalReached ==
  \A g \in Goal \ {"FAULT"} :
    <>[](goal = g) => <>[](\A d \in Drive : drive[d] \in {g, "FAULT"})

\* Asking for SWITCH_ON_DISABLED clears a fault, if bit 7 of the control word was
\* low when the drive faulted: the code raises it already while the drive still
\* reacts to the fault, and never lowers it for this goal.
FaultCleared ==
  \A d \in Drive :
    drive[d] = "FAULT" /\ goal = "SWITCH_ON_DISABLED" /\ control[d] # RESET_FAULT /\ ~hadReset[d]
      ~> drive[d] # "FAULT" \/ goal # "SWITCH_ON_DISABLED"
=============================================================================
