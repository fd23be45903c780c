----------------------------- MODULE SdoTransfer -----------------------------
(***************************************************************************)
(* src/drives/driveTool.c: reading and writing a parameter of a drive by   *)
(* SDO.  The caller creates a request, triggers it and polls it until the  *)
(* EtherCAT master has an answer; a download is one blocking call of the   *)
(* master, tried again when it fails.  The parameter may change meanwhile, *)
(* and a download whose answer is lost has changed it all the same.        *)
(***************************************************************************)
EXTENDS Integers

CONSTANTS Value,      \* the raw values the parameter may have
          Half,       \* 2^15 or 2^31: half of the range of the parameter
          MaxCall,    \* bound: how many calls there are
          MaxRetry    \* bound: of maxRetryTimes, which may be negative too

ASSUME HalfAssumption == Half \in Nat \ {0} /\ Value \subseteq 0 .. 2 * Half - 1
ASSUME CallAssumption == MaxCall \in Nat /\ MaxRetry \in Nat

VARIABLES object,     \* the parameter in the drive
          sdoPc,      \* in which function the caller is
          request,    \* the state of its last request
          data,       \* and the memory of that one
          call,       \* its arguments, *pValue and what it returned
          seen,       \* history: the values the parameter had during this call
          applied,    \* history: has this call written it, and was it told so
          calls

sdoVars == <<object, sdoPc, request, data, call, seen, applied, calls>>

\* EC_READ_U16() and EC_READ_S16(), or their kin of 32 bits.
Read(raw, isSigned) == IF isSigned /\ raw >= Half THEN raw - 2 * Half ELSE raw

SdoInit ==
  /\ object \in Value
  /\ sdoPc = "idle"
  /\ request = "UNUSED"
  /\ data = 0
  /\ call = [isSigned |-> FALSE, value |-> 0, answer |-> 0, maxRetryTimes |-> 0, count |-> 0]
  /\ seen = {}
  /\ applied = "no"
  /\ calls = 0

Call(to) ==
  /\ sdoPc = "idle" /\ sdoPc' = to
  /\ calls < MaxCall /\ calls' = calls + 1

\* The state of the request to poll, if the last one served again.
NewRequest_Reused == request
NewRequest == "UNUSED"
\* driveTool_getSdoParam()
GetSdoParam(isSigned) ==
  /\ Call("poll")
  /\ request' = NewRequest
  /\ call' = [call EXCEPT !.isSigned = isSigned]
  /\ seen' = {object}
  /\ UNCHANGED <<object, data, applied>>

\* The request cannot be created, or not be given its timeout of 500 ms.
GetSdoParamFails ==
  /\ Call("idle")
  /\ call' = [call EXCEPT !.answer = -1]
  /\ UNCHANGED <<object, request, data, seen, applied>>

\* driveTool_readSdoData(), every 50 ms.  A request that is only looked at.
Trigger_Forgotten ==
  /\ sdoPc = "poll" /\ request = "UNUSED"
  /\ UNCHANGED sdoVars
Trigger ==
  /\ sdoPc = "poll" /\ request = "UNUSED"
  /\ request' = "BUSY"
  /\ UNCHANGED <<object, sdoPc, data, call, seen, applied, calls>>

ReadData ==
  /\ sdoPc = "poll" /\ request = "SUCCESS"
  /\ sdoPc' = "idle"
  /\ call' = [call EXCEPT !.value = Read(data, call.isSigned), !.answer = 0]
  /\ UNCHANGED <<object, request, data, seen, applied, calls>>

ReadError ==
  /\ sdoPc = "poll" /\ request = "ERROR"
  /\ sdoPc' = "idle"
  /\ call' = [call EXCEPT !.answer = -1]
  /\ UNCHANGED <<object, request, data, seen, applied, calls>>

SdoDownload(maxRetryTimes) ==
  /\ Call("download")
  /\ call' = [call EXCEPT !.answer = 0, !.maxRetryTimes = maxRetryTimes, !.count = 0]
  /\ applied' = "no"
  /\ UNCHANGED <<object, request, data, seen>>

\* One try more.
MayTry_Again == call.count <= call.maxRetryTimes
MayTry == call.count < call.maxRetryTimes

\* Without the break.
DownloadSucceeds_GoesOn(v) ==
  /\ sdoPc = "download" /\ MayTry
  /\ object' = v
  /\ applied' = "told"
  /\ call' = [call EXCEPT !.answer = 0, !.count = @ + 1]
  /\ UNCHANGED <<sdoPc, request, data, seen, calls>>
DownloadSucceeds(v) ==
  /\ sdoPc = "download" /\ MayTry
  /\ sdoPc' = "idle"
  /\ object' = v
  /\ applied' = "told"
  /\ call' = [call EXCEPT !.answer = 0]
  /\ UNCHANGED <<request, data, seen, calls>>

\* An error, although the drive may have got the value.
DownloadFails(v) ==
  /\ sdoPc = "download" /\ MayTry
  /\ call' = [call EXCEPT !.answer = -2, !.count = @ + 1]
  /\ \/ UNCHANGED <<object, applied>>
     \/ object' = v /\ applied' = IF applied = "told" THEN "told" ELSE "lost"
  /\ UNCHANGED <<sdoPc, request, data, seen, calls>>

DownloadReturn ==
  /\ sdoPc = "download" /\ ~MayTry
  /\ sdoPc' = "idle"
  /\ UNCHANGED <<object, request, data, call, seen, applied, calls>>

\* The master answers a request, or times it out.
Answer ==
  /\ request = "BUSY"
  /\ \/ request' = "SUCCESS" /\ data' = object
     \/ request' = "ERROR" /\ UNCHANGED data
  /\ UNCHANGED <<object, sdoPc, call, seen, applied, calls>>

\* The drive runs on while it is read.
Change(v) ==
  /\ sdoPc = "poll"
  /\ object' = v
  /\ seen' = seen \cup {v}
  /\ UNCHANGED <<sdoPc, request, data, call, applied, calls>>

CallerStep ==
  \/ Trigger \/ ReadData \/ ReadError
  \/ (\E v \in Value : DownloadSucceeds(v) \/ DownloadFails(v)) \/ DownloadReturn

SdoNext ==
  \/ (\E isSigned \in BOOLEAN : GetSdoParam(isSigned)) \/ GetSdoParamFails
  \/ \E max \in -1 .. MaxRetry : SdoDownload(max)
  \/ CallerStep \/ Answer
  \/ \E v \in Value : Change(v)

SdoSpec == SdoInit /\ [][SdoNext]_sdoVars

-----------------------------------------------------------------------------
\* Among the types: no download is tried more than maxRetryTimes times.
SdoTypeOK ==
  /\ object \in Value
  /\ sdoPc \in {"idle", "poll", "download"}
  /\ request \in {"UNUSED", "BUSY", "SUCCESS", "ERROR"}
  /\ data \in Value \cup {0}
  /\ call \in [isSigned : BOOLEAN, value : -Half .. 2 * Half - 1, answer : {0, -1, -2},
               maxRetryTimes : -1 .. MaxRetry, count : 0 .. MaxRetry]
  /\ call.count > 0 => call.count <= call.maxRetryTimes
  /\ seen \subseteq Value
  /\ applied \in {"no", "lost", "told"}
  /\ calls \in 0 .. MaxCall

Returns(from) == sdoPc = from /\ sdoPc' = "idle"

\* A read that returns 0 gives a value the parameter had during this call, never
\* what an earlier request left in memory; one that fails leaves *pValue alone
\* (driveTool_getSdoParamU16() and its kin).
ReadFresh ==
  [][Returns("poll") =>
       IF call'.answer = 0 THEN call'.value \in {Read(v, call.isSigned) : v \in seen}
       ELSE call'.value = call.value]_sdoVars

\* A download that is allowed a try returns 0 exactly when the master has confirmed
\* one, and an error only after all of them, the tries whose answer was lost
\* included (driveTool_sdoDownload()).
DownloadTold ==
  [][Returns("download") /\ call.maxRetryTimes > 0 =>
       /\ call'.answer = 0 <=> applied' = "told"
       /\ call'.answer # 0 => call'.count = call.maxRetryTimes]_sdoVars

\* Every call returns, as the master answers each request or times it out.
CallAnswered == sdoPc # "idle" ~> sdoPc = "idle"
=============================================================================
