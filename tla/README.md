# Verification of the rotator and hexapod common code

TLA+ models of `ts_hexrotpxicom`, the C library shared by the controllers of the
Main Telescope rotator and hexapods: model-checked with TLC on small instances,
with the central safety properties proved by TLAPS for every value of the
constants. Paths are relative to the repository (`src/logTlm.c`,
`include/logTlm.h`, ...); line numbers refer to those files.

## 1. The system

The library has no `main()`: a controller process links it. Four threads meet
in it.

```
   GUI / CSC ---TCP--- server thread --circular_buf_put--> [command buffer] --get--+
       ^               (cmdTlmServer_run)                                          v
       |                     | NotOK                                          controller
       |                     v                                                 |   |  |
       +--TCP-- telemetry thread <-- [cmdStatus mq] <-- OK, NotOK -------------+   |  |
               (sendTlmAndCmdStatus) <-- [telemetry mq] <--------------------------+  |
                                                                                      v
   [log files] <-- flusher thread (logTlm_run) <-- [buffer 1 | buffer 2] <-- logTlm_write
```

### 1.1 Inventory

| Component | State | Operations | Interacts through |
|---|---|---|---|
| Command buffer, `src/circular_buffer.c` | slots, `head`, `tail`, `max`; one static mutex for all buffers | init, free, reset, put (drops the oldest), get, size | called by the server thread (put) and the controller (get, size) |
| Telemetry log, `src/logTlm.c` | two buffers and their `isFull` flags, `pBufferCurrent`, `countBufferCurrent`, `isThreadReady`, `pFile`, `countFile`, file names | createBuffer, freeBuffer, open, close, write, flush, isFlushing, runFlushInNewThread, closeThread; the thread `logTlm_run()` | only `isFull` is under the mutex; all the rest is shared without a lock |
| Command/telemetry server, `src/interface/cmdTlmServer.c` | `serverInfo_t`: status, two sockets, two "ready" flags, `isCloseConnDetected`, `isCommander`, two POSIX message queues and their memory | init, runInNewThread, close, sendTlmToMsgQueue, sendCmdStatusToMsgQueue; threads `cmdTlmServer_run()` and `cmdTlmServer_sendTlmAndCmdStatus()` | no lock at all; message queues outlive the process |
| TCP server, `src/interface/tcpServer.c` | none; descriptors in the kernel | open (a walk over addresses), accept, close, isConnected | called by the server |
| Drive tool, `src/drives/driveTool.c`, `include/drives/ds402.h`, `copley.h` | none; the caller keeps states, goal and the name of a fault, the EtherCAT library the SDO request | status word to state, next command to a goal state, are all drives in a state, SDO read and download, name of a fault | status and control words of the drives, EtherCAT master |
| Configuration, `src/configPxi.c` | path of the file; a YAML parser | setConfigFile, getSetting, getValInt, getValDouble | libyaml; ends the process on an error |
| Utilities, `src/utility.c` | none | time difference, time left, wait for NTP leap seconds, `isFile`, `isDir`, path helpers | kernel clock; the control loop paces itself with the time left |

### 1.2 What is hard, and what makes each part correct

* **Command buffer.** Operations of two threads must not mix; a put on a full
  ring moves two pointers one after the other. Correct: it behaves as a FIFO
  queue that drops its oldest element, each operation in one instant, and
  nobody keeps the mutex.
* **Telemetry log.** The flags alone decide which thread may touch the file;
  the flusher works on a snapshot of them for as long as a write to the disk
  takes; any `fwrite`, `fclose`, `rename`, `fopen` may fail; both buffers may be
  full at once. Correct: one user of the file at a time, rotated files of
  exactly the configured length, records in order and once, calls that return.
* **Server.** Three threads share flags and sockets without a lock; a failed send
  is reported to another thread, which may by then serve the next client; start
  and stop go through several resources; the queues survive a crash. Correct:
  nothing leaks, nothing is used after it was closed, a command is answered once,
  telemetry is in order, clients that left are disconnected and others accepted,
  close returns.
* **Drive tool.** Towards a goal the command depends on the state reported, which
  moves meanwhile; a fault intervenes; SDO requests time out. Correct: repeated
  use reaches every goal it claims to, and never skips a state of DS402.
* **SDO.** The answer belongs to the request of this call, and not to memory an
  earlier one has filled; a download whose answer is lost has changed the drive;
  0 must mean that it was confirmed.
* **Utilities, configuration.** Borrow and clamp at zero in the time arithmetic;
  a loop that must end; a scan of events that must give what the mapping holds.
* **TCP server.** Each call in the walk may fail, after a descriptor was opened
  whose number another thread may get next. Correct: none leaks, none is closed twice.
* **Framing.** TCP may tear commands apart or glue them together; the server takes
  what one `recv()` returns for one command.

`PROJECT.json` lists each hazard at its line with the properties aimed at it.

## 2. Modules

| Module | Models | Role |
|---|---|---|
| `CommandQueue` | `include/circular_buffer.h` | abstract: a drop-oldest queue with atomic operations |
| `CircularBuffer` | `src/circular_buffer.c` | every access to `head`, `tail`, a slot, the mutex is a step |
| `CircularBufferProofs` | | theorems about the ring |
| `TelemetryLog` | `include/logTlm.h` | abstract: memory and disk, each record once and in order |
| `LogTlm` | `src/logTlm.c` | controller and flusher, one shared access per step |
| `LogTlmProofs` | | theorems: the file has one user, rotated files are exactly full, types |
| `LogOrder` | `src/logTlm.c` | the pace of a controller, and the `TelemetryLog` that buffers and files stand for |
| `LogOrderProofs` | | theorem: a paced log implements `TelemetryLog` |
| `CmdTlmServer` | `src/interface/cmdTlmServer.c`, `tcpServer.c` | controller, server thread, telemetry thread, clients, crash |
| `CmdTlmServerProofs` | | theorems: all five safety properties of the server |
| `LogBuffers`, `LogBuffersProofs` | `src/logTlm.c` | the life of the buffers over several logs |
| `Framing` | `src/interface/cmdTlmServer.c` | what `recv()` makes of a stream of commands |
| `TcpServer` | `src/interface/tcpServer.c` | callers that open and close servers, every call may fail |
| `InterfaceProofs` | | theorems about `Framing` and `TcpServer` |
| `DriveTool`, `DriveToolProofs` | `src/drives/driveTool.c`, `include/drives/ds402.h` | controller's cycle and DS402 drives |
| `SdoTransfer` | `src/drives/driveTool.c` | reads and downloads of a parameter (theorems in `DriveToolProofs`) |
| `FaultName` | `src/drives/driveTool.c`, `include/drives/copley.h` | the buffer for the name of a fault |
| `Utility` | `src/utility.c` | a paced loop; the wait for leap seconds |
| `ConfigPxi` | `src/configPxi.c` | the scan of the parser's events |
| `LibraryProofs` | | theorems about `Utility` and `ConfigPxi` |
| `MCLibrary` | | the parts that share nothing, for one run |
| `MC...` | | instances for TLC |

### 2.1 CircularBuffer

`Thread` is any set of threads; `Size` is the capacity given to
`circular_buf_init()`, so that the ring has `Size + 1` slots. `Invoke` chooses an
operation; `HoldLock` and `ReleaseLock` are the mutex; in between `PutStore`,
`AdvanceTail`, `AdvanceHead`, `GetRead`, `RetreatPointer`, `GetEmpty`, `GetSize` are the
lines of the operation. `Contents` and `Visible` are the refinement mapping to
`CommandQueue`: a put that overwrites counts the slot that `tail` has left as
still stored until `head` has moved, and an operation takes effect when its
result is final, at the step to `unlock`.

### 2.2 LogTlm

`pc[p]` says where the controller and the flusher are; `job[p]` holds the
arguments and locals of the `logTlm_flushToFile()` each executes. The step boundaries
are the accesses to what the other thread may touch: the copy of a record, the
counter written from the value read before (`WriteIncrement`), its second read
(`WriteReturn`, `WriteFlush`, `WriteFull`), the test of which buffer is full
(`WriteWhich`, remembered in `read`), the critical section (`MarkFull`), and what `logTlm_write()` does *after* it has given
the mutex back (`WriteSwitch`, `WriteStop`); in the flusher the snapshot (`Snapshot`),
the flush, the clearing of one flag (`ClearFull`) and the three unprotected accesses
`Reassign`, `Assign`, `ZeroCount`. `FlushWrite` ... `FlushCount` follow
`logTlm_flushToFile()` and `logTlm_rotateFile()` with a failure at each call; a failed
`fwrite` may have written any prefix.

A file is the sequence of the numbers of its records; names and the text of a
record are left out. `pthread_mutex_trylock()` that fails is a stutter of the flusher
(it sleeps and tries again) and a return of the controller (`StillFlushing`). When
`logTlm_isFlushing()` answers "no" the controller goes on to flush or open the file
in separate steps; `FlushArgs` reads the buffer and the counter to flush outside the
mutex, both in one step. `Close` is guarded by "no thread", which narrows the environment: the tests
close the thread before the file, but neither the code nor `include/logTlm.h` asks it of a caller, and a
close under a running flush is not seen here. All other calls may come at any time in any order.
`WriteCopy` copies the record and reads the counter in one step; that the flusher zeroes the counter just
between the two is not a behaviour of the model. It takes a `logTlm_open()` between the flusher's `Assign` and
`ZeroCount`, and the record then counts in a slot it is not in; zeroing before the copy, and between the read and the
`+ 1`, are in the model. An `fclose()` that fails in `RotateClose` leaves the file whole, although
stdio may lose what it still had in memory.

`LogOrder` says which `TelemetryLog` a state stands for. `OnDisk`: the rotated files one
after the other, then the open one; as a rotated file is exactly full
(`RotationIsExact`), record `i` is found by dividing by `FileMax`. `InMemory`: what a full
buffer and then the current one hold beyond what the flush under way has `Written`.
`LogOpen`: a file is open, or is being replaced in a rotation.

### 2.3 CmdTlmServer

`info` is `serverInfo_t`; `held` the descriptors and allocations of the process;
`linked` and `msgQueue` the queues in the kernel, which survive `Crash`; `life[c]` the
connection of client `c` as the kernel sees it. Every read or write of a field that
another thread writes is a step: `SampleStatus` is the *second* read of `serverStatus`
in one iteration of the telemetry thread (line 378, after the first at 374),
`ReportClosed` is apart from `SendFails`, `CloseSocket` apart from `Disconnected`.
`Receiver` says where a send on a socket number may end up that has been closed
meanwhile: nowhere, or with the next client, which may have got the same number.
`send()` is on a blocking socket and has no timeout: `full` are the connections whose buffers have
no room, into which it waits (`SendBlocks`, then `pc` is "blocked") until the client reads
(`ReadMessages`) or hangs up (`Send`, `SendFails`); a client is free never to do either.
The command buffer is the drop-oldest queue that `CircularBuffer` is proved to be.

External to the repository and modelled from their use: the controller's loop
(`SetCommander`, `GetCommand`), the kernel's queue (`Sent`), the clients, the crash.

### 2.4 Beside the log and the server

`LogBuffers` is what `LogTlm` takes for granted: its `Init` and its `FileAssumption`. A caller
creates buffers, opens logs, frees the buffers and does it again with other sizes. The flags,
counts and the current buffer are static variables that neither `logTlm_createBuffer()` nor
`logTlm_freeBuffer()` resets. Creating them may say 0 without memory (`CreateBuffer`; see 3.3), or -1 and leave them
allocated when `pthread_mutex_init()` fails (`CreateBufferFails`). The caller stops the
thread and closes the file before it frees, as the tests do (`FreeBuffer`'s guard); the thread's
turn is one step, so that what only its interleavings show (`log_full_kept`) is not seen here.

`Framing` sends commands in two parts, which `Deliver` may pass on together or apart;
`RecvCommand` takes what has arrived, at most `SizeOfCommand`, for a command, and leaves in the
rest of `cmdMsg` what was there. In `CmdTlmServer` messages are whole.

`TcpServer` keeps the process's table of descriptors: `Socket` takes any free number, so that one
that was closed is soon another caller's, and `BindFails` leaves its number in `socketDesc` as the
code does. Each call of `tcpServer_open()` is a step with its failure.

### 2.5 DriveTool, SdoTransfer, FaultName

A status word is the set of its bits: `ds402_status_to_state` has the tests of `ds402.h` in their
order, `Bits` the table of DS402, with every value of the bits that do not matter. In each cycle
`ReadStatus` decodes the words of all drives, `WriteControl` sends what
`nextCommandToGoalState` answers; the drive obeys in a step of its own (`Obey`), when its state
may be another. The drive is external (`Obeyed`, `Proceed`, `Upset`): transitions of DS402, a
fault reset on the *rising edge* of bit 7 only (`hadReset`), a word that leaves out
"enable voltage" switches off. What a caller does with the answer -1 is not in the
repository; here it sends nothing and the last word stays.

`SdoTransfer` keeps the request's state and memory as the EtherCAT library does; the caller polls
(`Trigger`, `ReadData`, `ReadError`), the master answers or times out (`Answer`), the drive changes
the parameter meanwhile (`Change`). `DownloadFails` may have written it all the same. Raw values
are read with `Read`, unsigned or in two's complement of `2 * Half`.

`FaultName` is the one place where the text matters: a name is cut to the caller's buffer
without a terminator of its own.

### 2.6 Utility, ConfigPxi

`Work`, `EndOfWork`, `NextCycle` are a control loop (external) that sleeps for
`calcTimeLeft(calcTimeDiff(start, now))`, on a clock with `SEC_TO_NS` nanoseconds in a second.
`WaitNtpLeapSeconds`, `Sleep`, `WaitEnds` are the wait; `Synchronize` is the NTP daemon.

A configuration file is a sequence of pairs of a name and a scalar, or a list of one;
`Events`, `Event` and `Parse` are libyaml (external): the stream of events is cut into items, one for each pair,
and the parser is at an event of an item (`position`). `FindKey` and `NextEvent` are an iteration of the loop in
`configPxi_getSetting()`; a missing file and a parser error end the process.

## 3. Runs

| Run | Question | Bounds |
|---|---|---|
| `circular_buffer` | Is the ring a drop-oldest queue for concurrent threads, and is the mutex always released? | 2 threads, capacity 2, 2 commands |
| `log_thread` | In every interleaving of controller and flusher, with an I/O error: one user of the file, exact rotation, full buffers flushed, calls and join return? | buffers of 2, files of 3, 5 records, 1 error |
| `log_paced` | Does the log implement `TelemetryLog` (every record once, in order) as long as the controller does not overtake the flusher? | the same, 7 records |
| `server_safety` | Do start, restart, stop and crash leak or use after close; is a command answered once, telemetry in order? | 2 clients, 1 command, 2 messages, 1 crash, queues of 1 |
| `server_live` | Are clients accepted and disconnected even when one stops reading? If they read again: does close return, and do statuses and telemetry leave their queues, whatever failed send is reported late? | 2 clients, 1 command (of the GUI, or of nobody known), 1 message, queues of 1 |
| `library` | Each part of 2.4 to 2.6 alone: see 3.5 | 2 drives, 2 goals, 1 fault; 3 SDO calls, 2 tries; files of 2 settings; 2 callers, 3 descriptors, 2 addresses; 4 commands; buffers of 3; seconds of 3 ns, cycles of 7, clock to 30 |
| `leap_seconds` | See 3.3 | as `library` |
| `server_close_waits` | See 3.3 | 1 client, 2 messages, queues of 1 |
| `log_join`, `log_comes_back`, `log_full_kept`, `server_good_conn` | See 3.3: each finds one counterexample | as small as shows it |

### 3.1 Why the bounds are enough

*Ring.* Three slots make the pointers wrap in both directions, the ring is empty, half
full and full, and two threads cover every pair of operations in conflict; the
theorems hold for all sizes and any number of threads.

*Log.* Two records per buffer give an empty, a partial and a full one; three per file
is neither a multiple of the buffer nor smaller than it, so that a flush fits, fills the
file exactly, and overflows it. Five records fill both buffers and ask for a third;
seven also rotate twice in `log_paced`. One failing call reaches every error path; a
second only finds the log already closed.

*Server.* Two clients are the least that make "the next connection" meaningful, which is
what the races are about; queues of one are full after one message, and two
telemetry messages make order and loss visible. One command passes through every place
that could duplicate it; it may come from the GUI, the CSC or another source, and
`isCommander` may change at any time. One crash leaves queues with messages for the
next process, which needs the privilege to open them (their mode is 0 because of
`mode_t` 0 at line 151; without it the next start fails, also a behaviour of the model). Liveness has
one command and one message, which are two to send: one fills the connection, the other waits for room. The command is
one that is always authorized or one that never is (`Commander`), so that both the OK and the NotOK pass; a change of
the control, which only the CSC's commands feel, is left to `server_safety`.

*Library.* The parts share no variable; `part` says which of them a behaviour runs, so that
their states add up instead of multiplying, and one run serves for all. Two drives can be in
different states when the goal is compared with all of them; two changes of the goal and one
fault or quick stop lead through every state and edge of DS402, and since the commands depend
on one drive's state and the goal alone, a third change starts from a state that was reached before.
Three SDO calls put an earlier read, a failed one and a download in every order; the two values lie
on both sides of the sign. The 19 bytes for a fault's name cut one real name by one, and two unknown
codes of four digits to the same text, while two of two digits fit and must differ. Two settings per file give the key before, after, and twice; a value may be a name.
Three descriptors for two callers let a closed number be taken by the other while one is still
free. Four commands, of two parts each, make one that is torn, one that is spoiled by it, and one after a
pause. A second of 3 ns and a cycle of 7 make a cycle cross two or three seconds, in
every position; the theorem covers all lengths. Buffer sizes to 3 give a second log that is larger or
smaller than the one that left its flags behind.

### 3.2 Fairness and deadlock

Threads are scheduled (`WF` on the steps of each thread). Calls that are the
caller's choice (to write, open, close, connect) have no fairness. The mutexes of
the log get `SF` on acquisition: they are held for a few instructions, and a thread
that keeps asking is eventually let in. In the ring no fairness is assumed of the
mutex, only of the steps inside it. In the server, `SF` on `Accept`, `Recv` and `RecvEnd`
says that `poll()`, `accept()` and `recv()` do not report an error for ever while there is
something to accept or to receive. `HasTimeout = TRUE` in the runs: with no timeout the
server thread looks at its flags only when a client sends something, as the comment at line 211
says, and nothing is checked of that.

The telemetry thread's `WF` does not make `send()` return. While the connection it waits for has no room, it has
no step, and `ReadMessages` and `HangUp` have no fairness. That `cmdTlmServer_close()` waits for ever then is the
finding of `server_close_waits`. `CloseReturns` and `QueuesDrain` therefore say openly what they need of the clients:
`ClientsRead`, each of them reads again or hangs up after a while. It is an assumption on programs
outside the repository, which nothing in the code enforces. `HungUpClosed` and `ClientAccepted` need no such
thing: they rest on the server thread, whose polls time out.

In `library`: the controller's cycle goes on, and drives obey and leave the states that DS402 says
they leave by themselves, except the quick stop, in which a drive may stay (`DriveFairness`);
the caller of an SDO read polls on, and the master answers each request or lets it time out, as the
500 ms given to `ecrt_sdo_request_timeout()` make it (`SdoFairness`); `sleep()` returns
(`NtpFairness`). Faults, quick stops, new goals and every call are free to happen or not.

Deadlock is checked in the ring. It is switched off in the log and in the server,
because they really may stop: a join waits for ever for a thread that has not yet left
its start-up loop, which is the finding of `log_join` and the reason for the
hypothesis of `ThreadJoins` and `CloseReturns`; and the bounds on records, messages and
clients end the behaviour. In `library` it is off because the process exits on a bad
configuration file, and because of the bounds.

### 3.3 What disagrees with the documentation

| Run | What happens | Where |
|---|---|---|
| `log_join` | `logTlm_closeThread()` right after the start: the thread waits in `while (!isThreadReady)` for a flag that is cleared again; the join never returns | `src/logTlm.c:469` |
| `log_comes_back` | Both buffers full; the flusher empties both and finds a current buffer just before the controller, already outside the mutex, sets it to NULL. No later step assigns one | `src/logTlm.c:342` |
| `log_full_kept` | The flusher re-assigns buffer 1, which is full again since its snapshot: records that wait are overwritten | `src/logTlm.c:514` |
| `leap_seconds` | `waitNtpLeapSeconds()` reads the leap seconds once, before its loop: if they are 0 then, it sleeps until the timeout and fails, although they came in time | `src/utility.c:97` |
| `server_good_conn` | A failed send to a client that has gone is reported after the next was accepted, and the server closes the next one | `src/interface/cmdTlmServer.c:394` |
| `server_close_waits` | The client stays connected and reads nothing: the telemetry thread waits in `send()`, which has no timeout, and the join of `cmdTlmServer_close()` waits for it, for ever. `recv()` got a timeout for just this reason (line 211) | `src/interface/cmdTlmServer.c:276`, `246` |

Four more were met while modelling and have no run of their own. The models take these steps.

* `driveTool_sdoDownload()` with `maxRetryTimes` of 0 or less tries nothing and returns 0
  (`src/drives/driveTool.c:370`), which `include/drives/driveTool.h:67` calls a success. `DownloadTold`
  speaks of downloads that are allowed a try.
* `logTlm_createBuffer()` without memory for buffer 1 returns 0 with both buffers NULL: the test at
  `src/logTlm.c:126` asks for `pBuffer1 != NULL`, which is the case of buffer 2 failing.
  `include/logTlm.h:18` says "Return 0 if success. Otherwise, -1."
* `logTlm_flush()` with nothing to flush: `fwrite()` of 0 items returns 0, which `src/logTlm.c:351` takes for an
  error; the file is closed and 0 returned.
* `cmdTlmServer_close()` right after the start has the form of `log_join`: a thread that is still in its start-up
  loop (`src/interface/cmdTlmServer.c:361` and `412`) never sees the flag that was set and cleared, and the
  join never returns. `CloseReturns` asks for `ThreadsStarted`.

### 3.4 Reading the positive results

`log_paced` restricts the controller (`Pace` in `LogOrder`): it writes the last
record of a buffer, and closes the thread, only while the flusher is at rest. Without it
`LogsInOrder` is false, by `log_full_kept`, and because the flusher takes buffer 1
before buffer 2 whatever their age. `BufferFlushed` in `log_thread` needs no such
restriction. `NothingLeaks` includes starts that fail after the first resource, after the
first queue, and a telemetry thread that cannot be created.

What some properties do not say, so that none is read for more than it is:

* `BufferFlushed` is about the flag: when the file was closed by an error, the flusher clears it and the records
  are gone. `LogsInOrder` allows that a log which stops drops what is in memory.
* `OneFate` is "at most one": a command may be lost in a full queue or buffer, or with a client that hung up. Who
  had the control when it was authorized does not enter it.
* `NothingLeaks` does not count the kernel's queues against a server whose process once died.
* `InUse` does not cover the telemetry thread's `send()` on a socket that the server thread closes
  meanwhile, which the code cannot exclude; `Receiver` models it, and `TlmInOrder` holds in spite of it.

### 3.5 The parts of `library`

| Property | What it says, and what it takes |
|---|---|
| `DriveTypeOK`, `SeenAsIs` | The controller never takes a state for another, whatever the irrelevant bits are |
| `OnlyAsAsked` | A stale command never gives a drive more power than its goal asked for, nor clears a fault unasked |
| `DrivesReachGoal` | A goal that stays is reached by each drive that does not end in FAULT. From FAULT only `SWITCH_ON_DISABLED` leads on: the code answers "no change" for the others |
| `FaultCleared` | It does so if bit 7 was low when the drive faulted. The code raises it in `FAULT_REACTION_ACTIVE` already and keeps it up, so that a drive which needs the edge in FAULT stays there until another goal is asked for in between |
| `SdoTypeOK`, `ReadFresh`, `DownloadTold`, `CallAnswered` | No try too many; a value read is one of this call; of a download that is allowed a try, 0 means confirmed (the others: 3.3); every call returns. Both sides of `ReadFresh` read the raw value with `Read`, so that it says when, and `SdoTypeOK` that the value is in the range of its sign, but not how the sign is read |
| `FaultNameTells` | The name is a string if the buffer was zeroed once, and tells faults apart, unknown codes (printed in hexadecimal) included, unless it was cut |
| `CyclesInTime`, `WaitReturns` | Cycles start exactly a cycle apart; the wait ends for a positive interval (with 0 it never ends) |
| `SettingRead` | The scan finds what the mapping holds, where no value equals the name that is searched. If the first setting of the file is a list and is asked for, the literal `""` is what the caller frees: the property leaves that case out by name |
| `OwnDescriptors` | No descriptor leaks or is shared, whichever call fails |
| `FramesKept` | Commands that arrive together are kept apart; one torn spoils only what follows it closely. What is read instead of those is left open |
| `LogMemory` | Whatever earlier logs have left behind, records go to memory that has room and the thread flushes only records of the open log. It holds even of a log without buffers, into which nothing can be written (3.3) |

## 4. Proofs

| Theorem | Statement | Assumptions |
|---|---|---|
| `RingIsSafe` (`CircularBufferProofs`) | `Spec => []RingInvariant`: types; a thread is inside exactly when it holds the mutex; what it computed there is still true when it uses it | `Size` a positive number; `NoThread` is not a thread |
| `RingIsLinearizable` | `Spec => Linearizable`: the ring implements `CommandQueue!Spec` | the same |
| `RingIsTyped` | `Spec => []TypeOK` | the same |
| `FileIsExclusive` (`LogTlmProofs`) | `Spec => []FileExclusive`: never two threads in `logTlm_flushToFile()` | positive buffer size, file at least as long, bounds are numbers |
| `RotationIsExact`, `LogTyped` (`LogTlmProofs`) | `Spec => []RotationExact`, `Spec => []TypeOK` of the log | the same |
| `LogIsInOrder` (`LogOrderProofs`) | `PacedSpec => LogsInOrder`: with a paced controller the log implements `TelemetryLog!Spec` | the same |
| `LogMemoryIsSafe` (`LogBuffersProofs`) | `BufferSpec => []LogMemory` | the bound is a number |
| `NothingIsLeaked`, `ResourcesInUse` (`CmdTlmServerProofs`) | `Spec => []NothingLeaks`, `Spec => []InUse` of the server | sizes of queues and buffer, and bounds, are numbers; see `BoundAssumption`, `QueueAssumption`, `CmdSizeAssumption` |
| `CommandsHaveOneFate`, `TelemetryIsInOrder`, `ServerTyped` | `Spec => []OneFate`, `[]TlmInOrder`, `[]TypeOK` of the server | the same |
| `FramesAreKept` (`InterfaceProofs`) | `FrameSpec => []FramesKept` | the bound is a number |
| `DriveTyped`, `DrivesOnlyAsAsked`, `StatesSeenAsTheyAre` (`DriveToolProofs`) | `DriveSpec => []DriveTypeOK`, `DriveSpec => OnlyAsAsked`, `DriveSpec => SeenAsIs` | bounds are numbers |
| `SdoTyped`, `ReadsAreFresh`, `DownloadsAreTold` (`DriveToolProofs`) | `SdoSpec => []SdoTypeOK`, `=> ReadFresh`, `=> DownloadTold` | values fit the width |
| `CyclesAreInTime` (`LibraryProofs`) | `LoopSpec => CyclesInTime` | a second and a cycle have at least 1 ns |
| `SettingIsRead` (`LibraryProofs`) | `ConfSpec => []SettingRead` | the bound on pairs is a number |
| `DescriptorsAreOwned` (`InterfaceProofs`) | `TcpSpec => []OwnDescriptors` | descriptors and the bound on addresses are numbers |

**The ring.** `RingInvariant` contains `TypeOK` and is inductive. Exclusion alone is not
enough: the put that overwrites is proved correct from `InsideOK`, which remembers
that between `AdvanceTail` and `AdvanceHead` either nothing was lost and there is room, or
`tail` has run one past. `HolderSuffices` reduces every step inside the mutex to the
holder's own part, since nobody else is inside. For the refinement each step is
mapped: the last one of an operation to `Put`, `Get`, `GetEmpty` or `GetSize`,
`ReleaseLock` to `Return`, the others to stutters; the lemmas about `Slots` say what appending
and dropping does to the sequence read from the ring.

**The log.** `FileExclusive` is not inductive: when a thread enters the flush, that the
other is not in it follows from the flags. `Exclusion` adds three facts.
`ReadyIsTrue`: `isThreadReady` is false only if no thread exists, or while the
controller starts or joins one (so `WriteFlush` and `Flush` without a thread are alone).
`FlusherOwns`: what the flusher works on stays marked full until it clears the mark.
`ControllerOwns`: the controller is in the flush, or opens a file, only with no thread or
with no buffer marked. The last two contradict each other, which is the theorem. They
are stable because only the controller marks a buffer, and not while it flushes; and
because the flusher clears a mark only after its flush. `Typed` carries just the
types this needs. The proof covers failing I/O, any sizes, and any order of the calls.

**The rotation.** `RotationExact` speaks of files at rest, so it says nothing while a flush is
under way. `Rotation` adds what the file holds in each step of one (`FileAt`): as many records as
`countFile` says before the first write, exactly `FileMax` from there to the `rename()`, none until the rest is
written, and then what `countFile` will be. What is left after a rotation always fits in the new file, as
`logTlm_open()` asks for files no shorter than a buffer. The steps of the other thread cannot disturb this
only because it is outside the flush, which is `Exclusion`: the two invariants are proved together
(`LogInvariant`). `WriteOK` says what the controller has tested and still relies on (it has a buffer, with space),
which the flusher's unlocked `Assign` and `ZeroCount` never undo; `LogTyped` rests on it. A call that
fails ends with the file closed, so that what it wrote of a record's part never counts (`FlushGivesUp`).

**The order.** `LogIsInOrder` takes the two invariants above (`Known`) and three of its own. `Control` is the
pace as the steps see it: while the last record of a buffer is written the flusher is at rest (`Paced`), so that at most one
buffer is full and it is the one the controller has left (`LeftFull`); there is space in the current buffer whenever a record is
copied (`Space`); and each flush is of a known buffer, finished when it says so (`Jobs`). That `stop`, `assign` and `zero`
are never reached, where records may be lost, is part of `Paced`. From these follow three views of the state, and only they
look into sequences: what is on the disk (`DiskIs`, with `FileOfRecord` for the division), how much of a buffer is written
(`WrittenIs`), what is in memory (`MemoryIs`). Then each step is one of four kinds. It is unseen (`Unseen`, `MemoryKept`
and a lemma for each step that touches a buffer: a record copied but not counted, a buffer marked, left, taken for a flush, cleared);
it drains the oldest records, or stops the log at an I/O error (`FlushLog`: `FlushDrains` for the two writes, `DiskRotate`
for the `rename()` that moves nothing); it opens a new log (`OpenFileOpens`); or it counts a record, which is then the last
of the memory (`WriteIncrementWrites`). That each record comes once and after those before it is `Older`, with `Copied`
for the slot between its copy and its count.

**The buffers.** `LogMemory` speaks of an open log only. `BufferInvariant` adds what holds in
between: both buffers have the size that was asked for or both are missing (`BothOrNone`), and the
current buffer never waits for the thread (`CurrentNotFull`), without which a write could undo
what "filled" says.

**The server.** None of its properties is inductive, and they rest on each other in three layers.
`Steps` says what the threads and resources are, given where the controller is: which thread exists
(`ThreadsOK`; none while the server is closed, only the server thread once the telemetry thread is joined),
what the flags and the status tell it (`FlagsOK`), what is held and linked at each step of the start, of the stop and
after a start that failed half-way (`HeldOK`, `LinkedOK`), and that a connection is open exactly while it is the
one in use (`SocketOK`, `LifeOK`). From it `NothingLeaks` and `InUse` follow at once: the server thread is
joined before what it uses is released, the telemetry thread before the queues are. `DataTyped` and `InHand` add the
types of what is under way, and where a message in a local variable is one; together they give `TypeOK`. `QuietOrCarrying` splits the
steps once for all into those that touch no message and those that carry one.

*Fates.* `OneFate` says that no number of a command is found twice in the places a command passes through: a
client's inbox, `cmdMsg`, the command buffer, the controller, the status queue, the telemetry thread, a client's outbox.
It becomes inductive with `SentOK`, that no number is larger than the last one given. Each step
is shown to be of one of three kinds, each with its lemma: numbers are lost (`FatesLost`), the front of one place
moves to another (`FatesMoved`; a buffer that is full drops its own oldest), or the next number is given (`FatesNew`).

*Order.* `TlmInOrder` speaks of one line: what the clients got, one after the other, then what is about to be sent, then what is
queued. A message appended to the outbox of a client comes before everything that waits only if no later client
has got anything yet: `TurnsOK`, which says that clients are accepted in the order they came, one at a time, and get
nothing before. `BlockedOK` adds that while a send waits for room, in a connection that the server may have closed
meanwhile, no later client gets anything. `ProducedOK` bounds the numbers. `SortedLost`, `SortedMoved` and `SortedAdded` are the three kinds of steps.
The send to a socket that has been closed meanwhile (`Receiver`) is the hard case: what it reaches is the next client or nobody,
so order survives even where the connection does not.

**Framing.** `FramesKept` speaks of commands already read. `FrameInvariant` adds that, as long as none was torn, what is on its
way and what has arrived are together whole commands, numbered from the next one to be read to the last one sent
(`Whole(Stream, NextOne, sent)`); a `recv()` takes two parts of it, or is the one that tears.

**Drives.** `DriveInvariant` is the types and `Asked`: each control word, fresh or not, is one that the
goal it was chosen for asks for. `CommandIsAskedFor` proves this of
`nextCommandToGoalState()` for every state and goal, `ObeyedIsAsked` says which words take a drive up or out of
FAULT; together they make staleness harmless, whatever the drive did since. `DecodedIsShown` goes through the states and
the masks: of every word that DS402 allows a state to show the decoder tells that state, from which `SeenAsIs` follows.

**SDO.** `SdoInvariant` adds `Fresh`, that memory of a request which succeeded holds a value seen in this
call, and `Untold`, that while tries remain none was confirmed and the answer is that of the last.

**Time.** `DivMod` and `NsOfTime` show that seconds and nanoseconds stand for one number;
`DiffIsExact` and `LeftIsExact` that both functions compute on it what their names say; then
the loop invariant is that the time left is the cycle less what has passed.

**Settings.** `SettingRead` speaks of the end of a scan. `ConfInvariant` adds where the scan is, in a file whose values do not
look like the name: before the name (`Searching`) no pair passed has it, and after it (`Found`) the parser is at the
event behind the key of the first pair that has it. `EventSeen` lists what an event can be at each position,
`KeyIsKey` draws from it that a scalar that equals the name is a key, and `LookupIs` ties the first such pair to the mapping.
Both parts also say when the answer is still the literal: before the first scalar, or while the key is the first.

**Descriptors.** `TcpInvariant` adds `Progress`, what was bound stays bound until its caller closes it, and says
`Owned` without a set of images; `ClosingKeeps` is the lemma for the four steps that close.

**Only model-checked.** Liveness (`LockReleased`, `BufferFlushed`, `CallReturns`, `ThreadJoins`, all of
`server_live`, `DrivesReachGoal`, `FaultCleared`, `CallAnswered`, `WaitReturns`) rests on fairness,
which the prover does not reach. `FaultNameTells` compares texts, character by character, of which the prover knows nothing. `LogsInOrder` is
proved for paced controllers only, as it is false of others (3.4). The counterexamples of 3.3 need no proof.

## 5. What is not modelled

* A second command buffer: all share one static mutex and one static pointer, so that the second init
  or the first free is already the failure. `circular_buf_init()` that gets one of its two
  allocations loses it.
* File names: a log opened twice in one second has the same name and truncates the first. A flusher
  thread that is cancelled because its priority cannot be set.
* `tcpServer_isConnected()`, which changes nothing and which nothing in the library calls. The result of `getaddrinfo()`, which the code ignores (`src/interface/tcpServer.c:30`).
* `isFile()`, `isDir()`, `isAbsPath()`, `getModulePath()`, `joinStr()`, `isLimitSwitchOn()`: one call or one
  expression each, without state; `isFile()` and `isDir()` of a path that does not exist look at an
  uninitialized structure (`src/utility.c:33` and `39`). `atoi()` and `atof()` of a setting.
* The names of DS402 states (logged only), the constants of `ds402.h` and `copley.h` that
  nothing uses, and `ds402_control_word`, a structure of bit fields that nothing uses either.
* A server thread without a timeout (`HasTimeout = FALSE`) under fairness, a log that is closed while its thread
  runs, data that a failed `fclose()` loses (2.2).
* Logging to syslog and the layout of the messages.

## 6. Plan

1. *Done*: the ring, the log and the server; drives, SDO, fault names, time, configuration,
   descriptors, framing, the life of the buffers; the theorems of section 4.
2. *Done*: the safety of the server, the framing and the decoder proved; all invariants the runs check but
   `FaultNameTells` are theorems.
3. *Done*: `LogsInOrder` proved, step by step, with a mapping that needs no flattening.
