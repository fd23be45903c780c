------------------------------- MODULE Utility -------------------------------
(***************************************************************************)
(* src/utility.c: the time arithmetic, as a control loop uses it to start  *)
(* its cycles at a fixed pace, and the wait for the leap seconds that the  *)
(* NTP daemon tells the kernel.                                            *)
(***************************************************************************)
EXTENDS Integers

CONSTANTS SEC_TO_NS,   \* nanoseconds in a second
          MaxTimeInNs, \* the length of a cycle
          MaxNow,      \* bound: no cycle ends after it, in nanoseconds
          LeapSeconds, \* what the NTP daemon will set
          MaxTimeout   \* bound: of timeout and checkInterval

ASSUME SecAssumption == SEC_TO_NS \in Nat \ {0}
ASSUME TimeAssumption == MaxTimeInNs \in Nat \ {0} /\ {MaxNow, MaxTimeout} \subseteq Nat
ASSUME LeapAssumption == LeapSeconds \in Nat \ {0}

VARIABLES now, start,  \* the clock, and when this cycle started
          left,        \* the time left in it, and calcTimeLeft()'s answer
          loopPc,
          leap,        \* the leap seconds in the kernel
          leapSeconds, timeout, checkInterval,  \* local to waitNtpLeapSeconds()
          ntpAnswer, ntpPc,
          overslept    \* history: were they there when the last sleep began

loopVars == <<now, start, left, loopPc>>
ntpVars == <<leap, leapSeconds, timeout, checkInterval, ntpAnswer, ntpPc, overslept>>

-----------------------------------------------------------------------------
(* Time.                                                                   *)

Timespec == [sec : Int, nsec : 0 .. SEC_TO_NS - 1]
Ns(t) == t.sec * SEC_TO_NS + t.nsec
Time(ns) == [sec |-> ns \div SEC_TO_NS, nsec |-> ns % SEC_TO_NS]

\* The second is not borrowed.
calcTimeDiff_NoBorrow(from, to) ==
  [sec |-> to.sec - from.sec, nsec |-> (to.nsec - from.nsec) % SEC_TO_NS]
calcTimeDiff(from, to) ==
  IF to.nsec - from.nsec < 0
  THEN [sec |-> to.sec - from.sec - 1, nsec |-> SEC_TO_NS + to.nsec - from.nsec]
  ELSE [sec |-> to.sec - from.sec, nsec |-> to.nsec - from.nsec]

calcTimeLeft(passed, maxTimeInNs) ==
  IF Ns(passed) >= maxTimeInNs
  THEN [time |-> Time(0), answer |-> -1]
  ELSE [time |-> Time(maxTimeInNs - Ns(passed)), answer |-> 0]

LoopInit ==
  /\ now = Time(0)
  /\ start = Time(0)
  /\ left = [time |-> Time(0), answer |-> 0]
  /\ loopPc = "work"

Work ==
  /\ loopPc = "work"
  /\ Ns(now) < MaxNow
  /\ now' = Time(Ns(now) + 1)
  /\ UNCHANGED <<start, left, loopPc>>

EndOfWork ==
  /\ loopPc = "work" /\ loopPc' = "sleep"
  /\ Ns(now) < MaxNow
  /\ left' = calcTimeLeft(calcTimeDiff(start, now), MaxTimeInNs)
  /\ UNCHANGED <<now, start>>

NextCycle ==
  /\ loopPc = "sleep" /\ loopPc' = "work"
  /\ now' = Time(Ns(now) + Ns(left.time))
  /\ start' = now'
  /\ UNCHANGED left

LoopNext == Work \/ EndOfWork \/ NextCycle

LoopSpec == LoopInit /\ [][LoopNext]_loopVars

-----------------------------------------------------------------------------
(* waitNtpLeapSeconds()                                                    *)

NtpInit ==
  /\ leap = 0
  /\ leapSeconds = 0
  /\ timeout = 0
  /\ checkInterval = 1
  /\ ntpAnswer = -1
  /\ ntpPc = "idle"
  /\ overslept = FALSE

\* getLeapSeconds(): CLOCK_TAI, read first, less CLOCK_REALTIME, between which a
\* second may begin, or -1 when a clock fails.
WaitNtpLeapSeconds(t, interval) ==
  /\ ntpPc = "idle" /\ ntpPc' = "wait"
  /\ leapSeconds' \in {leap, leap - 1, -1}
  /\ timeout' = t
  /\ checkInterval' = interval
  /\ overslept' = FALSE
  /\ UNCHANGED <<leap, ntpAnswer>>

\* timeout never changes.
Sleep_Forever ==
  /\ ntpPc = "wait" /\ timeout > 0 /\ leapSeconds = 0
  /\ overslept' = (leap > 0)
  /\ UNCHANGED <<leap, leapSeconds, timeout, checkInterval, ntpAnswer, ntpPc>>
Sleep ==
  /\ ntpPc = "wait" /\ timeout > 0 /\ leapSeconds = 0
  /\ timeout' = timeout - checkInterval
  /\ overslept' = (leap > 0)
  /\ UNCHANGED <<leap, leapSeconds, checkInterval, ntpAnswer, ntpPc>>

WaitEnds ==
  /\ ntpPc = "wait" /\ (timeout <= 0 \/ leapSeconds # 0)
  /\ ntpPc' = "idle"
  /\ ntpAnswer' = IF leapSeconds > 0 THEN leapSeconds ELSE -1
  /\ UNCHANGED <<leap, leapSeconds, timeout, checkInterval, overslept>>

\* The NTP daemon synchronizes the clock.
Synchronize ==
  /\ leap = 0
  /\ leap' = LeapSeconds
  /\ UNCHANGED <<leapSeconds, timeout, checkInterval, ntpAnswer, ntpPc, overslept>>

NtpNext ==
  \/ \E t \in 0 .. MaxTimeout, interval \in 1 .. MaxTimeout : WaitNtpLeapSeconds(t, interval)
  \/ Sleep \/ WaitEnds \/ Synchronize

-----------------------------------------------------------------------------
\* Cycles start MaxTimeInNs apart, or at once after one that took longer, however
\* their times lie across the seconds (calcTimeDiff(), calcTimeLeft()).
CyclesInTime ==
  [][loopPc = "sleep" /\ loopPc' = "work" =>
       IF left.answer = 0
       THEN Ns(start') - Ns(start) = MaxTimeInNs
       ELSE now' = now /\ Ns(now) - Ns(start) >= MaxTimeInNs]_loopVars

\* The wait for the leap seconds ends, for a positive checkInterval.
WaitReturns == ntpPc = "wait" ~> ntpPc = "idle"

\* What the documentation says, and the code does not do: "Check the leap seconds
\* every checkInterval seconds before the timeout" (utility.h line 38).  When the
\* wait fails, they were not there one checkInterval ago.
CheckedEveryInterval ==
  [][ntpPc = "wait" /\ ntpPc' = "idle" /\ ntpAnswer' = -1 => ~overslept]_ntpVars
=============================================================================
