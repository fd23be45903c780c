------------------------------ MODULE FaultName ------------------------------
(***************************************************************************)
(* src/drives/driveTool.c, driveTool_getFaultName(): the controller keeps  *)
(* one buffer for the name of the last fault of a drive.                   *)
(***************************************************************************)
EXTENDS Integers, Sequences, TLC

CONSTANTS NameSize,   \* the size of the buffer
          OtherCode   \* some codes that have no name

ASSUME NameSizeAssumption == NameSize \in Nat \ {0}

VARIABLES name        \* the buffer: the code it is about, the text up to the
                      \* first NUL, and whether its last byte is a NUL

\* copley.h
Name == 0 :> "no error" @@ \h2320 :> "short circuit" @@ \h4210 :> "amp overtemp"
        @@ \h3110 :> "amp overvoltage" @@ \h3120 :> "amp undervoltage"
        @@ \h4300 :> "motor overtemp" @@ \h2280 :> "feedback error"
        @@ \h7122 :> "phasing error" @@ \h2310 :> "current limit"
        @@ \h3310 :> "voltage limit" @@ \h7380 :> "- limit switch"
        @@ \h7381 :> "+ limit switch" @@ \h7390 :> "position tracking"
        @@ \h73A0 :> "position wrap" @@ \h5080 :> "generic fault"
        @@ \h8130 :> "node guarding error" @@ \h61FF :> "command error"
        @@ \h5440 :> "interlock open"

Digit(d) == SubSeq("0123456789abcdef", d + 1, d + 1)
Hex[n \in Nat] == IF n < 16 THEN Digit(n) ELSE Hex[n \div 16] \o Digit(n % 16)
UnknownName(code) == "unknown code 0x" \o Hex[code]

Text(code) == IF code \in DOMAIN Name THEN Name[code] ELSE UnknownName(code)

\* strncpy() of at most n characters fills up with NULs to n.
CopySize_All == NameSize
CopySize == NameSize - 1

FaultNameInit == name = [code |-> 0, text |-> "", terminated |-> TRUE]

getFaultName(code) ==
  LET text == Text(code)
      copied == IF Len(text) > CopySize THEN SubSeq(text, 1, CopySize) ELSE text
  IN  name' = [code |-> code, text |-> copied,
               terminated |-> IF CopySize < NameSize THEN name.terminated
                              ELSE Len(copied) < NameSize]

FaultNameNext == \E code \in DOMAIN Name \cup OtherCode : getFaultName(code)

-----------------------------------------------------------------------------
\* A buffer zeroed once holds a string after every call, and a string that is not
\* cut tells which fault it is: no two codes share a name.
FaultNameTells ==
  /\ name.terminated
  /\ Len(name.text) < NameSize - 1 /\ name.text # "" =>
       \A code \in DOMAIN Name \cup OtherCode : Text(code) = name.text => code = name.code
=============================================================================
