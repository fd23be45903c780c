----------------------------- MODULE LibraryProofs -----------------------------
(***************************************************************************)
(* For any second, any length of a cycle and any clock: calcTimeDiff() and *)
(* calcTimeLeft() compute on timespecs what they stand for in nanoseconds, *)
(* and so the cycles of a loop that sleeps for the time left are in time.  *)
(* For a configuration file of any length: what configPxi.c makes of the   *)
(* events of the parser is what the file's mapping holds.                  *)
(***************************************************************************)
EXTENDS Utility, ConfigPxi, TLAPS

-----------------------------------------------------------------------------
(* src/utility.c.                                                          *)

\* The seconds and the rest of a number of nanoseconds (Time).
LEMMA DivMod ==
  ASSUME NEW ns \in Int
  PROVE  /\ ns \div SEC_TO_NS \in Int /\ ns % SEC_TO_NS \in 0 .. SEC_TO_NS - 1
         /\ ns = SEC_TO_NS * (ns \div SEC_TO_NS) + (ns % SEC_TO_NS)
BY SecAssumption

\* A timespec stands for its nanoseconds, and each number for one timespec.
LEMMA TimeOfNs ==
  ASSUME NEW ns \in Int
  PROVE  Time(ns) \in Timespec /\ Ns(Time(ns)) = ns
BY DivMod, SecAssumption DEF Time, Timespec, Ns

\* The timespec of a timespec's nanoseconds is that timespec (Time, Ns).
LEMMA NsOfTime ==
  ASSUME NEW t \in Timespec
  PROVE  Time(Ns(t)) = t
<1> DEFINE S == SEC_TO_NS
           q == t.sec
           r == t.nsec
           ns == q * S + r
           x == ns \div S
           y == ns % S
<1>1. /\ S \in Nat \ {0} /\ q \in Int /\ r \in 0 .. S - 1 /\ ns \in Int
      /\ t = [sec |-> q, nsec |-> r]
  BY SecAssumption DEF Timespec
<1>2. x \in Int /\ y \in 0 .. S - 1 /\ ns = S * x + y
  BY <1>1, DivMod
<1>3. S * (x - q) = r - y
  <2>1. q * S + r = S * x + y
    BY <1>2
  <2> HIDE DEF x, y, q, r, S, ns
  <2> QED
    BY <2>1, <1>1, <1>2
<1> HIDE DEF x, y, q, r, S, ns
<1>4. ~(x - q >= 1)
  <2> SUFFICES ASSUME x - q >= 1
               PROVE  FALSE
    OBVIOUS
  <2>1. S * (x - q) >= S
    BY <1>1, <1>2
  <2> QED
    BY <1>1, <1>2, <1>3, <2>1
<1>5. ~(q - x >= 1)
  <2> SUFFICES ASSUME q - x >= 1
               PROVE  FALSE
    OBVIOUS
  <2>1. S * (q - x) >= S
    BY <1>1, <1>2
  <2>2. S * (q - x) = y - r
    BY <1>1, <1>2, <1>3
  <2> QED
    BY <1>1, <1>2, <2>1, <2>2
<1>6. x = q /\ y = r
  <2>1. x = q
    BY <1>1, <1>2, <1>4, <1>5
  <2> QED
    BY <1>1, <1>2, <1>3, <2>1
<1>7. Time(Ns(t)) = [sec |-> x, nsec |-> y]
  BY DEF Time, Ns, x, y, ns, q, r, S
<1> QED
  BY <1>1, <1>6, <1>7

\* The nanoseconds of a timespec are a number (Ns).
LEMMA NsIsInt ==
  ASSUME NEW t \in Timespec
  PROVE  Ns(t) \in Int
BY SecAssumption DEF Timespec, Ns

\* The borrow of a second, which is right wherever the two times lie in theirs.
LEMMA DiffIsExact ==
  ASSUME NEW from \in Timespec, NEW to \in Timespec
  PROVE  /\ calcTimeDiff(from, to) \in Timespec
         /\ Ns(calcTimeDiff(from, to)) = Ns(to) - Ns(from)
<1> DEFINE a == from.sec
           b == to.sec
           m == from.nsec
           n == to.nsec
<1>1. a \in Int /\ b \in Int /\ m \in 0 .. SEC_TO_NS - 1 /\ n \in 0 .. SEC_TO_NS - 1
  BY DEF Timespec
<1>2. /\ (b - a) * SEC_TO_NS = b * SEC_TO_NS - a * SEC_TO_NS
      /\ (b - a - 1) * SEC_TO_NS = b * SEC_TO_NS - a * SEC_TO_NS - SEC_TO_NS
      /\ a * SEC_TO_NS \in Int /\ b * SEC_TO_NS \in Int
  BY <1>1, SecAssumption
<1>3. CASE n - m < 0
  <2>1. calcTimeDiff(from, to) = [sec |-> b - a - 1, nsec |-> SEC_TO_NS + n - m]
    BY <1>3 DEF calcTimeDiff
  <2>2. SEC_TO_NS + n - m \in 0 .. SEC_TO_NS - 1
    BY <1>1, <1>3, SecAssumption
  <2> QED
    BY <1>1, <1>2, <2>1, <2>2, SecAssumption DEF Timespec, Ns
<1>4. CASE ~(n - m < 0)
  <2>1. calcTimeDiff(from, to) = [sec |-> b - a, nsec |-> n - m]
    BY <1>4 DEF calcTimeDiff
  <2>2. n - m \in 0 .. SEC_TO_NS - 1
    BY <1>1, <1>4, SecAssumption
  <2> QED
    BY <1>1, <1>2, <2>1, <2>2, SecAssumption DEF Timespec, Ns
<1> QED
  BY <1>3, <1>4

\* calcTimeLeft() gives what is missing to the maximum, or 0 and the answer -1.
LEMMA LeftIsExact ==
  ASSUME NEW passed \in Timespec
  PROVE  /\ calcTimeLeft(passed, MaxTimeInNs).time \in Timespec
         /\ IF Ns(passed) >= MaxTimeInNs
            THEN /\ calcTimeLeft(passed, MaxTimeInNs).answer = -1
                 /\ Ns(calcTimeLeft(passed, MaxTimeInNs).time) = 0
            ELSE /\ calcTimeLeft(passed, MaxTimeInNs).answer = 0
                 /\ Ns(calcTimeLeft(passed, MaxTimeInNs).time) = MaxTimeInNs - Ns(passed)
<1>1. Ns(passed) \in Int /\ MaxTimeInNs - Ns(passed) \in Int /\ 0 \in Int
  BY NsIsInt, TimeAssumption
<1> QED
  BY <1>1, TimeOfNs, TimeAssumption DEF calcTimeLeft

-----------------------------------------------------------------------------
\* While the loop sleeps, left is what calcTimeLeft() said of this cycle.
LoopInvariant ==
  /\ now \in Timespec /\ start \in Timespec
  /\ left.time \in Timespec
  /\ loopPc \in {"work", "sleep"}
  /\ loopPc = "sleep" => left = calcTimeLeft(calcTimeDiff(start, now), MaxTimeInNs)

\* The loop starts with work (LoopInit).
LEMMA LoopInitInvariant == LoopInit => LoopInvariant
BY TimeOfNs DEF LoopInit, LoopInvariant

\* The time left is, while the loop sleeps, that of this cycle (LoopNext).
LEMMA LoopStepInvariant ==
  ASSUME LoopInvariant, [LoopNext]_loopVars
  PROVE  LoopInvariant'
<1> USE DEF LoopInvariant
<1>1. CASE Work
  <2>1. Ns(now) + 1 \in Int
    BY NsIsInt
  <2> QED
    BY <1>1, <2>1, TimeOfNs DEF Work
<1>2. CASE EndOfWork
  <2>1. calcTimeDiff(start, now) \in Timespec
    BY DiffIsExact
  <2> QED
    BY <1>2, <2>1, LeftIsExact DEF EndOfWork
<1>3. CASE NextCycle
  <2>1. Ns(now) + Ns(left.time) \in Int
    BY NsIsInt
  <2> QED
    BY <1>3, <2>1, TimeOfNs DEF NextCycle
<1>4. CASE UNCHANGED loopVars
  BY <1>4 DEF loopVars
<1> QED
  BY <1>1, <1>2, <1>3, <1>4 DEF LoopNext

\* One step, as CyclesInTime says it.
InTime ==
  loopPc = "sleep" /\ loopPc' = "work" =>
    IF left.answer = 0
    THEN Ns(start') - Ns(start) = MaxTimeInNs
    ELSE now' = now /\ Ns(now) - Ns(start) >= MaxTimeInNs

\* The step to the next cycle is in time (NextCycle).
LEMMA StepInTime ==
  ASSUME LoopInvariant, LoopNext
  PROVE  InTime
<1> SUFFICES ASSUME NextCycle
             PROVE  InTime
  BY DEF LoopNext, Work, EndOfWork, InTime
<1> DEFINE passed == calcTimeDiff(start, now)
<1>1. /\ now \in Timespec /\ start \in Timespec /\ left.time \in Timespec
      /\ left = calcTimeLeft(passed, MaxTimeInNs)
  BY DEF LoopInvariant, NextCycle
<1>2. passed \in Timespec /\ Ns(passed) = Ns(now) - Ns(start)
  BY <1>1, DiffIsExact
<1>3. Ns(now) \in Int /\ Ns(start) \in Int /\ Ns(left.time) \in Int
  BY <1>1, NsIsInt
<1>4. /\ now' = Time(Ns(now) + Ns(left.time)) /\ start' = now'
      /\ Ns(now') = Ns(now) + Ns(left.time)
  <2>1. Ns(now) + Ns(left.time) \in Int
    BY <1>3
  <2> QED
    BY <2>1, TimeOfNs DEF NextCycle
<1> HIDE DEF passed
<1>5. CASE Ns(passed) >= MaxTimeInNs
  <2>1. left.answer = -1 /\ Ns(left.time) = 0
    BY <1>1, <1>2, <1>5, LeftIsExact
  <2>2. Ns(now') = Ns(now) /\ now' = Time(Ns(now))
    BY <1>3, <1>4, <2>1
  <2>3. Time(Ns(now)) = now
    BY <1>1, NsOfTime
  <2> QED
    BY <1>2, <1>5, <2>1, <2>2, <2>3 DEF InTime
<1>6. CASE ~(Ns(passed) >= MaxTimeInNs)
  <2>1. left.answer = 0 /\ Ns(left.time) = MaxTimeInNs - Ns(passed)
    BY <1>1, <1>2, <1>6, LeftIsExact
  <2> QED
    BY <1>2, <1>3, <1>4, <2>1, TimeAssumption DEF InTime
<1> QED
  BY <1>5, <1>6

\* Cycles start a whole cycle apart, or at once after one that took longer,
\* wherever in a second they start and end (calcTimeDiff(), calcTimeLeft()).
THEOREM CyclesAreInTime == LoopSpec => CyclesInTime
<1>1. LoopInvariant /\ [LoopNext]_loopVars => [InTime]_loopVars
  BY StepInTime
<1> QED
  BY <1>1, LoopInitInvariant, LoopStepInvariant, PTL DEF LoopSpec, CyclesInTime, InTime

-----------------------------------------------------------------------------
(* src/configPxi.c.                                                        *)

\* The file holds pairs.
LEMMA FileIs ==
  ASSUME NEW file \in File
  PROVE  /\ Len(file) \in Nat /\ DOMAIN file = 1 .. Len(file)
         /\ \A i \in DOMAIN file : file[i] \in Content
         /\ Len(file) = 0 => file = <<>>
<1>1. PICK m \in 0 .. MaxPair : file \in [1 .. m -> Content]
  BY DEF File, BoundedSeq, SeqOf
<1>2. m \in Nat
  BY PairAssumption
<1>3. file \in Seq(Content)
  BY <1>1, <1>2
<1>4. Len(file) = m
  BY <1>1, <1>2, <1>3
<1> QED BY <1>1, <1>2, <1>3, <1>4

\* The first pair with the name is the one that is looked up.
LEMMA LookupIs ==
  ASSUME NEW file \in File, NEW n
  PROVE  /\ (\A j \in DOMAIN file : file[j].key # n) => Lookup(file, n) = ""
         /\ \A i \in DOMAIN file :
              file[i].key = n /\ (\A j \in DOMAIN file : j < i => file[j].key # n)
              => Lookup(file, n) = IF file[i].isList THEN "" ELSE file[i].value
<1> DEFINE I == {i \in 1 .. Len(file) : file[i].key = n}
           first == IF I # {} THEN Min(I) ELSE 0
<1>1. Lookup(file, n) = IF first = 0 \/ file[first].isList THEN "" ELSE file[first].value
  BY DEF Lookup, SelectInSeq
<1>2. DOMAIN file = 1 .. Len(file) /\ Len(file) \in Nat
  BY FileIs
<1>3. ASSUME \A j \in DOMAIN file : file[j].key # n PROVE first = 0
  BY <1>2, <1>3
<1>4. ASSUME NEW i \in DOMAIN file, file[i].key = n, \A j \in DOMAIN file : j < i => file[j].key # n
      PROVE  first = i /\ i # 0
  <2>1. i \in I /\ i # 0
    BY <1>2, <1>4
  <2>2. \A j \in I : i <= j
    BY <1>2, <1>4
  <2>3. \A j \in I : (\A k \in I : j <= k) => j = i
    BY <1>2, <2>1, <2>2
  <2> HIDE DEF I
  <2>4. Min(I) = i
    BY <2>1, <2>2, <2>3 DEF Min
  <2> QED BY <2>1, <2>4
<1> HIDE DEF first
<1> QED BY <1>1, <1>3, <1>4

\* No value looks like the name, and no pair before the i-th has it.
Clean == \A i \in DOMAIN configFile : configFile[i].value # setting
Before(i) == \A j \in DOMAIN configFile : j < i => configFile[j].key # setting

ConfTyped ==
  /\ configFile \in File \cup {NoFile}
  /\ confPc \in {"idle", "parse", "free", "exit"}
  /\ confPc = "parse" => configFile \in File
  /\ foundKey \in BOOLEAN
  /\ position \in [item : Nat, event : Nat]

\* Where the scan is before it has found the name ...
Searching ==
  /\ position.item \in 0 .. Len(configFile) + 1
  /\ position.event \in 1 .. Len(Events(configFile, position.item))
  /\ Before(position.item)
  /\ position.item \in DOMAIN configFile /\ position.event > 1
     => configFile[position.item].key # setting
  /\ strSetting = IF \/ position.item = 0 \/ configFile = <<>>
                     \/ position.item = 1 /\ position.event = 1
                  THEN NULL ELSE ""
\* ... and when it has.
Found ==
  /\ position.item \in DOMAIN configFile /\ position.event = 2
  /\ configFile[position.item].key = setting /\ Before(position.item)
  /\ strSetting = IF position.item = 1 THEN NULL ELSE ""

ConfInvariant ==
  /\ ConfTyped
  /\ confPc = "parse" /\ Clean => (foundKey => Found) /\ (~foundKey => Searching)
  /\ SettingRead

\* The events of the items.
LEMMA EventsAre ==
  ASSUME NEW file \in File, NEW i \in 0 .. Len(file) + 1
  PROVE  /\ i = 0 => Events(file, i) = <<Other, Other, Other>>
         /\ i \in DOMAIN file /\ file[i].isList =>
              Events(file, i) = <<ScalarEvent(file[i].key), Other, ScalarEvent(file[i].value), Other>>
         /\ i \in DOMAIN file /\ ~file[i].isList =>
              Events(file, i) = <<ScalarEvent(file[i].key), ScalarEvent(file[i].value)>>
         /\ i = Len(file) + 1 => Events(file, i) = <<Other, Other, StreamEnd>>
<1>1. DOMAIN file = 1 .. Len(file) /\ Len(file) \in Nat
  BY FileIs
<1> QED BY <1>1 DEF Events, EventsOf

\* The event the parser is at, of which only a key is a scalar with the name.
Seen ==
  LET i == position.item
      e == position.event
  IN  \/ i = 0 /\ e \in 1 .. 3 /\ Event = Other /\ Len(Events(configFile, i)) = 3
      \/ /\ i \in DOMAIN configFile /\ e = 1 /\ Event = ScalarEvent(configFile[i].key)
         /\ Len(Events(configFile, i)) \in {2, 4}
      \/ /\ i \in DOMAIN configFile /\ configFile[i].isList /\ e \in {2, 3, 4}
         /\ Event \in {Other, ScalarEvent(configFile[i].value)} /\ (e = 2 => Event = Other)
         /\ Len(Events(configFile, i)) = 4
      \/ /\ i \in DOMAIN configFile /\ ~configFile[i].isList /\ e = 2
         /\ Event = ScalarEvent(configFile[i].value)
         /\ Len(Events(configFile, i)) = 2
      \/ /\ i = Len(configFile) + 1 /\ e \in 1 .. 3
         /\ Event = IF e = 3 THEN StreamEnd ELSE Other
         /\ Len(Events(configFile, i)) = 3

LEMMA EventSeen ==
  ASSUME configFile \in File, position.item \in 0 .. Len(configFile) + 1,
         position.event \in 1 .. Len(Events(configFile, position.item))
  PROVE  Seen
<1> DEFINE i == position.item
           e == position.event
           all == Events(configFile, i)
<1>1. Event = all[e]
  BY DEF Event
<1>2. DOMAIN configFile = 1 .. Len(configFile) /\ Len(configFile) \in Nat
  BY FileIs
<1>3. CASE i = 0
  <2>1. all = <<Other, Other, Other>>
    BY <1>3, EventsAre
  <2>2. Len(all) = 3 /\ all[1] = Other /\ all[2] = Other /\ all[3] = Other
    BY <2>1
  <2>3. e \in 1 .. 3
    BY <2>2
  <2> HIDE DEF all
  <2> QED BY <1>1, <1>3, <2>2, <2>3 DEF Seen, all
<1>4. CASE i \in DOMAIN configFile /\ configFile[i].isList
  <2>1. all = <<ScalarEvent(configFile[i].key), Other, ScalarEvent(configFile[i].value), Other>>
    BY <1>4, EventsAre
  <2>2. /\ Len(all) = 4 /\ all[1] = ScalarEvent(configFile[i].key) /\ all[2] = Other
        /\ all[3] = ScalarEvent(configFile[i].value) /\ all[4] = Other
    BY <2>1
  <2>3. e \in 1 .. 4
    BY <2>2
  <2> HIDE DEF all
  <2> QED BY <1>1, <1>4, <2>2, <2>3 DEF Seen, all
<1>5. CASE i \in DOMAIN configFile /\ ~configFile[i].isList
  <2>1. all = <<ScalarEvent(configFile[i].key), ScalarEvent(configFile[i].value)>>
    BY <1>5, EventsAre
  <2>2. /\ Len(all) = 2 /\ all[1] = ScalarEvent(configFile[i].key)
        /\ all[2] = ScalarEvent(configFile[i].value)
    BY <2>1
  <2>3. e \in 1 .. 2
    BY <2>2
  <2> HIDE DEF all
  <2> QED BY <1>1, <1>5, <2>2, <2>3 DEF Seen, all
<1>6. CASE i = Len(configFile) + 1
  <2>1. all = <<Other, Other, StreamEnd>>
    BY <1>6, EventsAre
  <2>2. Len(all) = 3 /\ all[1] = Other /\ all[2] = Other /\ all[3] = StreamEnd
    BY <2>1
  <2>3. e \in 1 .. 3
    BY <2>2
  <2> HIDE DEF all
  <2> QED BY <1>1, <1>6, <2>2, <2>3 DEF Seen, all
<1> QED BY <1>2, <1>3, <1>4, <1>5, <1>6

\* A scalar that is the name, is a key.
LEMMA KeyIsKey ==
  ASSUME Seen, Clean, IsKey
  PROVE  /\ position.item \in DOMAIN configFile /\ position.event = 1
         /\ configFile[position.item].key = setting
         /\ 1 < Len(Events(configFile, position.item))
<1>1. \A v : ScalarEvent(v).type = "scalar" /\ ScalarEvent(v).value = v
  BY DEF ScalarEvent
<1>2. Other.type = "other" /\ StreamEnd.type = "end"
  BY DEF Other, StreamEnd
<1> QED BY <1>1, <1>2, SMTT(40) DEF Seen, Clean, IsKey

\* After the key there is an event of its value.
LEMMA FoundSeen ==
  ASSUME configFile \in File, Found
  PROVE  Seen
<1>1. DOMAIN configFile = 1 .. Len(configFile) /\ Len(configFile) \in Nat
  BY FileIs
<1>2. position.item \in DOMAIN configFile /\ position.event = 2
  BY DEF Found
<1>3. position.item \in 0 .. Len(configFile) + 1
  BY <1>1, <1>2
<1>4. Len(Events(configFile, position.item)) \in {2, 4}
  <2>1. CASE configFile[position.item].isList
    BY <1>2, <1>3, <2>1, EventsAre
  <2>2. CASE ~configFile[position.item].isList
    BY <1>2, <1>3, <2>2, EventsAre
  <2> QED BY <2>1, <2>2
<1>5. position.event \in 1 .. Len(Events(configFile, position.item))
  <2> DEFINE e == position.event
             n == Len(Events(configFile, position.item))
  <2>1. e = 2 /\ n \in {2, 4}
    BY <1>2, <1>4
  <2> HIDE DEF e, n
  <2>2. e \in 1 .. n
    BY <2>1
  <2> QED BY <2>2 DEF e, n
<1> QED BY <1>3, <1>5, EventSeen

\* The parser is at an event of an item after every step (Parse).
LEMMA ParseTyped ==
  ASSUME ConfTyped, Parse
  PROVE  position' \in [item : Nat, event : Nat]
BY DEF ConfTyped, Parse

\* With the key the scan has found the pair of the name (FindKey).
LEMMA FindKeyFinds ==
  ASSUME ConfTyped, confPc = "parse", Clean, foundKey => Found, ~foundKey => Searching, FindKey
  PROVE  Found'
<1>1. configFile \in File /\ UNCHANGED <<configFile, setting, strSetting>>
  BY DEF ConfTyped, FindKey
<1>2. /\ DOMAIN configFile = 1 .. Len(configFile) /\ Len(configFile) \in Nat
      /\ Len(configFile) = 0 => configFile = <<>>
  BY <1>1, FileIs
<1>3. CASE foundKey
  <2>1. position.item \in DOMAIN configFile /\ position.event = 2
    BY <1>3 DEF Found
  <2>2. Seen
    BY <1>1, <1>3, FoundSeen
  <2> QED BY <1>2, <2>1, <2>2, KeyIsKey DEF FindKey
<1>4. CASE ~foundKey
  <2>1. Seen
    BY <1>1, <1>4, EventSeen DEF Searching
  <2>2. /\ position.item \in DOMAIN configFile /\ position.event = 1
        /\ configFile[position.item].key = setting
        /\ 1 < Len(Events(configFile, position.item))
    BY <2>1, KeyIsKey DEF FindKey
  <2>3. position'.item = position.item /\ position'.event = 2
    BY <2>2 DEF FindKey, Parse, ConfTyped
  <2>4. strSetting = IF position.item = 1 THEN NULL ELSE ""
    <3>1. position.item # 0 /\ configFile # <<>>
      <4>1. DOMAIN configFile # {}
        BY <2>2
      <4> QED BY <1>2, <2>2, <4>1
    <3> QED BY <1>4, <2>2, <3>1 DEF Searching
  <2> QED BY <1>1, <1>4, <2>2, <2>3, <2>4 DEF Found, Searching, Before
<1> QED BY <1>3, <1>4

\* The event after the key is its value, or the start of a list.
LEMMA ValueIsRead ==
  ASSUME ConfTyped, confPc = "parse", Clean, foundKey, Found, NextEvent
  PROVE  confPc' = "free" /\ SettingRead'
<1>1. configFile \in File /\ UNCHANGED <<configFile, setting>> /\ confPc' = "free"
  BY DEF ConfTyped, NextEvent
<1>2. DOMAIN configFile = 1 .. Len(configFile) /\ Len(configFile) \in Nat
  BY <1>1, FileIs
<1>3. /\ position.item \in DOMAIN configFile /\ position.event = 2
      /\ configFile[position.item].key = setting /\ Before(position.item)
  BY DEF Found
<1>4. Lookup(configFile, setting) = IF configFile[position.item].isList THEN ""
                                    ELSE configFile[position.item].value
  BY <1>1, <1>3, LookupIs DEF Before
<1>5. Seen
  BY <1>1, FoundSeen
<1>6. CASE configFile[position.item].isList
  <2>1. Event = Other
    BY <1>2, <1>3, <1>5, <1>6 DEF Seen
  <2>2. strSetting' = strSetting
    <3>1. Event.type # "scalar"
      BY <2>1 DEF Other
    <3> QED BY <3>1 DEF NextEvent
  <2> QED BY <1>1, <1>3, <1>4, <1>6, <2>2 DEF Found, SettingRead
<1>7. CASE ~configFile[position.item].isList
  <2>1. Event = ScalarEvent(configFile[position.item].value)
    BY <1>2, <1>3, <1>5, <1>7 DEF Seen
  <2>2. strSetting' = configFile[position.item].value
    BY <2>1 DEF NextEvent, ScalarEvent
  <2> QED BY <1>1, <1>4, <1>7, <2>2 DEF SettingRead
<1> QED BY <1>6, <1>7

\* Other events are passed over, until the stream ends without the name.
LEMMA SearchGoesOn ==
  ASSUME ConfTyped, confPc = "parse", Clean, ~foundKey, Searching, NextEvent
  PROVE  \/ confPc' = "parse" /\ Searching'
         \/ confPc' = "free" /\ SettingRead'
<1> DEFINE i == position.item
           e == position.event
           n == Len(Events(configFile, i))
           m == Len(Events(configFile, i + 1))
           L == Len(configFile)
           none == configFile = <<>>
           type == Event.type
           next == position'.item
           at == position'.event
           key(j) == configFile[j].key
<1>1. configFile \in File /\ UNCHANGED <<configFile, setting, foundKey>>
  BY DEF ConfTyped, NextEvent
<1>2. DOMAIN configFile = 1 .. L /\ L \in Nat /\ (none <=> L = 0)
  BY <1>1, FileIs
<1>3. Seen
  BY <1>1, EventSeen DEF Searching
<1>4. /\ i \in 0 .. L + 1 /\ n \in Nat /\ e \in 1 .. n
      /\ i \in 1 .. L /\ e > 1 => key(i) # setting
  <2>1. i \in 0 .. L + 1 /\ e \in 1 .. n /\ (i \in 1 .. L /\ e > 1 => key(i) # setting)
    BY <1>2 DEF Searching
  <2>2. n \in Nat
    <3>1. i = 0 \/ i \in DOMAIN configFile \/ i = L + 1
      BY <1>2, <2>1
    <3>2. n \in {2, 3, 4}
      BY <1>1, <1>2, <2>1, <3>1, EventsAre
    <3> QED BY <3>2
  <2> QED BY <2>1, <2>2
<1>5. /\ i = 0 \/ none \/ (i = 1 /\ e = 1) => strSetting = NULL
      /\ ~(i = 0 \/ none \/ (i = 1 /\ e = 1)) => strSetting = ""
  BY DEF Searching
<1>6. \A j \in 1 .. L : j < i => key(j) # setting
  BY <1>2 DEF Searching, Before
<1>7. next = (IF e < n THEN i ELSE i + 1) /\ at = IF e < n THEN e + 1 ELSE 1
  BY DEF NextEvent, Parse, ConfTyped
<1>8. /\ type # "scalar" => strSetting' = strSetting
      /\ type = "scalar" => strSetting' = ""
      /\ confPc' = IF type = "end" THEN "free" ELSE "parse"
      /\ ~(type = "scalar" /\ Event.value = setting)
  BY DEF NextEvent, IsKey
<1>9. /\ i = 0 \/ (i = L + 1 /\ e # 3) => type = "other" /\ n = 3
      /\ i = L + 1 /\ e = 3 => type = "end"
      /\ i \in 1 .. L => type # "end" /\ n \in {2, 4}
      /\ i \in 1 .. L /\ e = 1 => type = "scalar" /\ Event.value = key(i)
      /\ i = L + 1 => n = 3
  <2>1. \A v : ScalarEvent(v).type = "scalar" /\ ScalarEvent(v).value = v
    BY DEF ScalarEvent
  <2>2. Other.type = "other" /\ StreamEnd.type = "end"
    BY DEF Other, StreamEnd
  <2> HIDE DEF n, L
  <2> QED BY <1>2, <1>3, <2>1, <2>2 DEF Seen, n, L
<1>10. i + 1 \in 1 .. L => m \in {2, 4}
  <2>1. ASSUME i + 1 \in 1 .. L PROVE i + 1 \in DOMAIN configFile /\ i + 1 \in 0 .. L + 1
    BY <1>2, <2>1
  <2> QED BY <1>1, <2>1, EventsAre
<1>11. i + 1 = L + 1 => m = 3
  <2>1. L + 1 \in 0 .. L + 1
    BY <1>2
  <2> QED BY <1>1, <2>1, EventsAre
<1> HIDE DEF i, e, n, m, L, none, type, next, at, key
<1>12. ASSUME i \in 1 .. L PROVE key(i) # setting
  <2>1. CASE e = 1
    BY <1>8, <1>9, <1>12, <2>1
  <2>2. CASE e # 1
    <3>1. e > 1
      BY <1>4, <2>2
    <3> QED BY <1>4, <1>12, <3>1
  <2> QED BY <2>1, <2>2
<1>13. CASE i = L + 1 /\ e = 3
  <2>1. confPc' = "free" /\ strSetting' = strSetting
    BY <1>8, <1>9, <1>13
  <2>2. i # 0 /\ e # 1
    BY <1>2, <1>13
  <2>3. \A j \in 1 .. L : key(j) # setting
    BY <1>2, <1>6, <1>13
  <2>4. Lookup(configFile, setting) = ""
    BY <1>1, <1>2, <2>3, LookupIs DEF key
  <2> QED BY <1>1, <1>5, <2>1, <2>2, <2>4 DEF SettingRead, none
<1>14. CASE ~(i = L + 1 /\ e = 3)
  <2>1. i = 0 \/ i \in 1 .. L \/ i = L + 1
    BY <1>2, <1>4
  <2>2. confPc' = "parse"
    BY <1>8, <1>9, <1>14, <2>1
  <2>3. i = 0 \/ none => strSetting' = NULL
    <3>1. none => ~(i \in 1 .. L)
      BY <1>2
    <3>2. i = 0 \/ none => type = "other"
      BY <1>9, <1>14, <2>1, <3>1
    <3> QED BY <1>5, <1>8, <3>2
  <2>4. ~(i = 0 \/ none) => strSetting' = ""
    <3>1. CASE i \in 1 .. L /\ e = 1
      BY <1>8, <1>9, <3>1
    <3>2. CASE ~(i \in 1 .. L /\ e = 1)
      <4>1. ~none => ~(i = 1 /\ e = 1)
        BY <1>2, <2>1, <3>2
      <4> QED BY <1>5, <1>8, <4>1
    <3> QED BY <3>1, <3>2
  <2>5. CASE e < n
    <3>1. next = i /\ at = e + 1 /\ at \in 1 .. n /\ at # 1
      BY <1>2, <1>4, <1>7, <1>9, <2>5
    <3>2. /\ next \in 0 .. L + 1 /\ at \in 1 .. Len(Events(configFile, next))
          /\ \A j \in 1 .. L : j < next => key(j) # setting
          /\ next \in 1 .. L => key(next) # setting
          /\ strSetting' = IF next = 0 \/ none \/ (next = 1 /\ at = 1) THEN NULL ELSE ""
      BY <1>4, <1>6, <1>12, <2>3, <2>4, <3>1 DEF n
    <3> QED BY <1>1, <1>2, <2>2, <3>2 DEF Searching, Before, next, at, L, none, key
  <2>6. CASE ~(e < n)
    <3>1. next = i + 1 /\ at = 1 /\ e = n /\ i \in 0 .. L /\ n \in {2, 3, 4}
      BY <1>2, <1>4, <1>7, <1>9, <1>14, <2>6
    <3>2. (next = 1 <=> i = 0) /\ next # 0
      BY <1>2, <3>1
    <3>3. next \in 0 .. L + 1 /\ m \in {2, 3, 4}
      BY <1>2, <1>10, <1>11, <3>1
    <3>4. \A j \in 1 .. L : j < next => key(j) # setting
      BY <1>2, <1>6, <1>12, <3>1
    <3>5. at \in 1 .. m
      BY <3>1, <3>3
    <3>6. /\ next \in 0 .. L + 1 /\ at \in 1 .. Len(Events(configFile, next)) /\ ~(at > 1)
          /\ strSetting' = IF next = 0 \/ none \/ (next = 1 /\ at = 1) THEN NULL ELSE ""
      <4>1. strSetting' = IF next = 0 \/ none \/ (next = 1 /\ at = 1) THEN NULL ELSE ""
        BY <2>3, <2>4, <3>1, <3>2
      <4>2. at \in 1 .. Len(Events(configFile, next))
        BY <3>1, <3>5 DEF m
      <4>3. ~(at > 1)
        BY <3>1
      <4> QED BY <3>3, <4>1, <4>2, <4>3
    <3> QED BY <1>1, <1>2, <2>2, <3>4, <3>6 DEF Searching, Before, next, at, L, none, key
  <2> QED BY <2>5, <2>6
<1> QED BY <1>13, <1>14

\* Every step of a reading keeps the invariant.
LEMMA NextConfig == ConfInvariant /\ [ConfNext]_confVars => ConfInvariant'
<1> SUFFICES ASSUME ConfInvariant, [ConfNext]_confVars PROVE ConfInvariant'
  OBVIOUS
<1> USE DEF ConfInvariant
<1>1. ASSUME NEW f \in File, SetConfigFile(f) PROVE ConfInvariant'
  BY <1>1 DEF SetConfigFile, ConfTyped, SettingRead
<1>2. ASSUME NEW n \in Setting, GetVal(n) PROVE ConfInvariant'
  <2>1. ConfTyped'
    BY <1>2 DEF GetVal, ConfTyped, StreamStart
  <2>2. ASSUME confPc' = "parse" PROVE Searching'
    <3>1. /\ configFile' \in File /\ position'.item = 0 /\ position'.event = 1
          /\ strSetting' = NULL
      BY <1>2, <2>1, <2>2 DEF GetVal, ConfTyped, StreamStart
    <3>2. Len(configFile') \in Nat /\ DOMAIN configFile' = 1 .. Len(configFile')
      BY <3>1, FileIs
    <3>3. Events(configFile', 0) = <<Other, Other, Other>>
      BY <3>1, <3>2, EventsAre
    <3>4. Len(Events(configFile', 0)) = 3
      BY <3>3
    <3>5. \A j \in DOMAIN configFile' : ~(j < 0)
      BY <3>2
    <3>6. /\ position'.item \in 0 .. Len(configFile') + 1
          /\ position'.event \in 1 .. Len(Events(configFile', position'.item))
          /\ ~(position'.event > 1)
      <4> DEFINE next == position'.item
                 at == position'.event
      <4>1. next = 0 /\ at = 1 /\ 1 \in 1 .. 3
        BY <3>1
      <4> HIDE DEF next, at
      <4>2. next \in 0 .. Len(configFile') + 1 /\ ~(at > 1)
        BY <3>2, <4>1
      <4>3. Len(Events(configFile', next)) = 3
        BY <3>4, <4>1
      <4>4. at \in 1 .. Len(Events(configFile', next))
        BY <4>1, <4>3
      <4> QED BY <4>2, <4>4 DEF next, at
    <3> QED BY <3>1, <3>5, <3>6, ZenonT(60) DEF Searching, Before
  <2>3. ~foundKey' /\ confPc' # "free"
    BY <1>2 DEF GetVal
  <2> QED BY <2>1, <2>2, <2>3 DEF SettingRead
<1>3. CASE FindKey
  <2>1. ConfTyped' /\ confPc = "parse" /\ foundKey' /\ confPc' = "parse" /\ Clean' = Clean
    BY <1>3, ParseTyped DEF FindKey, ConfTyped, Clean
  <2>2. Clean => Found'
    BY <1>3, <2>1, FindKeyFinds
  <2> QED BY <2>1, <2>2 DEF SettingRead
<1>4. CASE NextEvent
  <2>1. ConfTyped' /\ confPc = "parse" /\ foundKey' = foundKey /\ Clean' = Clean
    BY <1>4, ParseTyped DEF NextEvent, ConfTyped, Clean
  <2>2. CASE ~Clean
    BY <2>1, <2>2 DEF SettingRead, Clean
  <2>3. CASE Clean /\ foundKey
    BY <1>4, <2>1, <2>3, ValueIsRead
  <2>4. CASE Clean /\ ~foundKey
    <3>1. (confPc' = "parse" /\ Searching') \/ (confPc' = "free" /\ SettingRead')
      <4>1. Searching /\ ConfTyped /\ confPc = "parse"
        BY <2>1, <2>4
      <4>2. Clean /\ ~foundKey
        BY <2>4
      <4> HIDE DEF ConfInvariant
      <4> QED BY <1>4, <4>1, <4>2, SearchGoesOn
    <3> QED BY <2>1, <2>4, <3>1 DEF SettingRead
  <2> QED BY <2>2, <2>3, <2>4
<1>5. CASE ParserError
  BY <1>5 DEF ParserError, ConfTyped, SettingRead
<1>6. CASE FreeSetting
  <2>1. confPc' = "idle" /\ ~foundKey' /\ UNCHANGED configFile /\ position' = StreamStart
    BY <1>6 DEF FreeSetting
  <2>2. StreamStart \in [item : Nat, event : Nat]
    BY DEF StreamStart
  <2>3. ConfTyped'
    BY <1>6, <2>1, <2>2 DEF ConfTyped, FreeSetting
  <2> QED BY <2>1, <2>3 DEF SettingRead
<1>7. CASE UNCHANGED confVars
  BY <1>7 DEF confVars, ConfTyped, SettingRead, Clean, Found, Searching, Before
<1> QED BY <1>1, <1>2, <1>3, <1>4, <1>5, <1>6, <1>7 DEF ConfNext

\* For a file of any length in which no value looks like the name, the scan finds
\* what the mapping holds.
THEOREM SettingIsRead == ConfSpec => []SettingRead
<1>1. ConfInit => ConfInvariant
  <2> SUFFICES ASSUME ConfInit PROVE ConfInvariant
    OBVIOUS
  <2>1. confPc = "idle" /\ position \in [item : Nat, event : Nat]
    BY DEF ConfInit, StreamStart
  <2>2. ConfTyped
    BY <2>1 DEF ConfInit, ConfTyped
  <2> QED BY <2>1, <2>2 DEF ConfInvariant, SettingRead
<1>2. ConfInvariant => SettingRead
  BY DEF ConfInvariant
<1> QED BY <1>1, <1>2, NextConfig, PTL DEF ConfSpec
=============================================================================
