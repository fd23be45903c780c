------------------------------ MODULE ConfigPxi ------------------------------
(***************************************************************************)
(* src/configPxi.c: a setting is read from the configuration file in one   *)
(* pass over the events of the YAML parser, which takes the first scalar   *)
(* that equals the setting's name for its key, and is then freed.          *)
(***************************************************************************)
EXTENDS Integers, SequencesExt

CONSTANTS Setting,    \* the names of settings
          Scalar,     \* the other scalars of a file
          NoFile,     \* no configuration file was set
          MaxPair     \* bound: how many settings a file has

ASSUME PairAssumption == MaxPair \in Nat

\* A file is a mapping, of names to scalars or to lists of one scalar.
Content == [key : Setting, value : Scalar \cup Setting, isList : BOOLEAN]
File == BoundedSeq(Content, MaxPair)
NULL == "NULL"        \* the literal "" that nobody may free

VARIABLES configFile, \* pgStrConfigFilePath, by what the file holds
          setting,    \* the name asked for
          position,   \* how far the parser is: in which item, at which of its events
          foundKey, strSetting, confPc

confVars == <<configFile, setting, position, foundKey, strSetting, confPc>>

\* The parser's events: scalars, and others that start or end something.  The
\* items of the stream are the pairs and, before and after them, what starts and
\* ends the mapping, the document and the stream.
Other == [type |-> "other", value |-> ""]
StreamEnd == [type |-> "end", value |-> ""]
ScalarEvent(v) == [type |-> "scalar", value |-> v]
EventsOf(pair) ==
  IF pair.isList
  THEN <<ScalarEvent(pair.key), Other, ScalarEvent(pair.value), Other>>
  ELSE <<ScalarEvent(pair.key), ScalarEvent(pair.value)>>
Events(file, item) == CASE item = 0 -> <<Other, Other, Other>>
                        [] item \in DOMAIN file -> EventsOf(file[item])
                        [] OTHER -> <<Other, Other, StreamEnd>>

StreamStart == [item |-> 0, event |-> 1]
Event == Events(configFile, position.item)[position.event]
\* yaml_parser_parse(): the parser is at the next event.
Parse ==
  position' = IF position.event < Len(Events(configFile, position.item))
              THEN [position EXCEPT !.event = @ + 1]
              ELSE [item |-> position.item + 1, event |-> 1]

ConfInit ==
  /\ configFile = NoFile
  /\ setting = NULL
  /\ position = StreamStart
  /\ foundKey = FALSE
  /\ strSetting = NULL
  /\ confPc = "idle"

\* configPxi_setConfigFile()
SetConfigFile(file) ==
  /\ confPc = "idle"
  /\ configFile' = file
  /\ UNCHANGED <<setting, position, foundKey, strSetting, confPc>>

\* configPxi_getValInt() and configPxi_getValDouble(); without a file it exits.
GetVal(n) ==
  /\ confPc = "idle"
  /\ confPc' = IF configFile = NoFile THEN "exit" ELSE "parse"
  /\ position' = StreamStart
  /\ setting' = n
  /\ foundKey' = FALSE
  /\ strSetting' = NULL
  /\ UNCHANGED configFile

IsKey == Event.type = "scalar" /\ Event.value = setting
\* The key taken for its value.
FindKey_NoContinue ==
  /\ confPc = "parse" /\ IsKey
  /\ foundKey' = TRUE
  /\ strSetting' = Event.value
  /\ Parse
  /\ confPc' = "free"
  /\ UNCHANGED <<configFile, setting>>
FindKey ==
  /\ confPc = "parse" /\ IsKey
  /\ foundKey' = TRUE
  /\ Parse
  /\ UNCHANGED <<configFile, setting, strSetting, confPc>>

\* A scalar is copied if the key was found before; else an empty string is made,
\* and the one before it lost.  Any event after the key is the last.
NextEvent ==
  /\ confPc = "parse" /\ ~IsKey
  /\ strSetting' = CASE Event.type # "scalar" -> strSetting
                     [] Event.type = "scalar" /\ foundKey -> Event.value
                     [] OTHER -> ""
  /\ Parse
  /\ confPc' = IF Event.type = "end" \/ foundKey THEN "free" ELSE "parse"
  /\ UNCHANGED <<configFile, setting, foundKey>>

ParserError ==
  /\ confPc = "parse" /\ confPc' = "exit"
  /\ UNCHANGED <<configFile, setting, position, foundKey, strSetting>>

\* The end of a reading, and of its variables.
FreeSetting ==
  /\ confPc = "free" /\ confPc' = "idle"
  /\ setting' = NULL /\ strSetting' = NULL
  /\ position' = StreamStart /\ foundKey' = FALSE
  /\ UNCHANGED configFile

ConfNext ==
  \/ \E file \in File : SetConfigFile(file)
  \/ \E n \in Setting : GetVal(n)
  \/ FindKey \/ NextEvent \/ ParserError \/ FreeSetting

ConfSpec == ConfInit /\ [][ConfNext]_confVars

-----------------------------------------------------------------------------
\* The first value of a name, "" without one or for a list.
Lookup(file, n) ==
  LET i == SelectInSeq(file, LAMBDA pair : pair.key = n)
  IN  IF i = 0 \/ file[i].isList THEN "" ELSE file[i].value

\* In a file where no value looks like the name, a scan of the events finds what
\* the mapping holds, and what it frees is memory it has allocated, if the file
\* has a scalar before the list a setting may be.
SettingRead ==
  confPc = "free" /\ (\A i \in DOMAIN configFile : configFile[i].value # setting) =>
    \/ strSetting = Lookup(configFile, setting)
    \/ /\ strSetting = NULL
       /\ configFile = <<>> \/ (configFile[1].key = setting /\ configFile[1].isList)
=============================================================================
