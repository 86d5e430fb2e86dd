# gtoaesv2: specifications, model checking and proofs

gtoaesv2 is the observation control server of a telescope array: clients submit
observation plans, the server drives the mounts, cameras and focusers of many
observation systems over TCP. These TLA+ modules model the server, TLC checks
them on small instances, TLAPS proves what matters most for every instance.
All source paths below are relative to `src/src/`.

## 1. Inventory

### Threads

| thread | code | touches |
|---|---|---|
| GC | message loop of `GeneralControl` (one) | connection pools, list of systems, and by direct calls the plan, mount, focuser and camera list of every system |
| OS | message loop of each `ObservationSystem` | cameras of the system, counters, the plan when the last camera stops |
| OP | `thread_obsplan` of each system | starts a cataloged plan, ends a running one |
| rewrite | `thread_rewrite` of each system | resends the oldest unanswered command |
| upload | `cycle_upload_client`, 2 s | reads all systems, writes to clients |
| dump | `cycle_dump_obss`, 60 s | stops and erases systems idle for long |
| io | one `io_service` thread for each connection (`BoostAsioKeep`) | buffers of the connection, callbacks that post messages |

GC and OS each handle one message at a time, in order, in `MessageQueue`. There
is no common lock: `mtxObss_` protects the list of systems, `SystemState::mtx`
three counters, `NonKVProtoBuff::mtx` the resend buffer, `mtxSerno_` the serial
numbers. `plan_`, `tcpMount_`, `tcpFocus_`, `mountInfo_`, `camInfoVec_` have none.

### Components

| component | state | operations | hard behaviour | what makes it correct |
|---|---|---|---|---|
| ObservationSystem, plan and exposures | `plan_`, `plan_state_`, `tcpMount_`, `mountInfo_`, `camInfoVec_`, `SystemState` counters | NotifyPlan, Abort, Park, Slewto, FindHome, TakeImage, NotifyMountState, Couple/Decouple, on_tcp_close, process_protocol_camera, thread_obsplan | three threads without a lock; tests and acts apart; counters moved by messages of several cameras; uninitialized state of a new camera | counters equal what they count; published statuses follow the life of a plan; a plan is over only when nothing exposes; an interruption stops every camera; a startable plan starts, a plan with an end is ended |
| ObservationSystem, resending | `nonkvProtoBuff_`, `serno_` | Push, Pop, Clear, Front, thread_rewrite, NotifyResponse | a reference used after its lock; numbers that wrap; Pop() in two steps with Front | an answer belongs to one command; what is dropped is what was given up; the buffer drains |
| ObservationSystem, focus | `focPos`, `focTar`, `repeat` of each camera | Focus, FocusSync, NotifyFWHM, NotifyFocus | counted repeats left over from an earlier command, a focuser slower than the reports, a camera that returns | a camera is told where its focus really rests; every command ends |
| GeneralControl, dispatch | `tcpCliClient_`, `tcpCliDevice_` | tcp_accept, on_tcp_receive, on_tcp_close, process_protocol_* | bare pointers in messages; hand-over of a connection to a system | each message is handled by the owner of its connection, every close is handled once |
| GeneralControl, registry | `obssVec_` | find_obss, cycle_dump_obss, cycle_upload_client | a system found and stopped at once; a plan shared by systems | a system in use is not removed, one without devices is; a plan has one runner; a mount finds a system |
| MessageQueue | boost message queue of 1024 | PostMessage, SendMessage, message_loop, Stop | full queue, priorities, joining the thread that waits for room | every message is handled unless the loop is told to quit; Stop is the end and returns |
| AsioTCP | receive and send buffers, `CallbackFunc` slots | connect, Close, Read, Lookup, Write, RegisterRead, handlers | two readers, replaced slots, one write in flight, errors | bytes in order, a write is never stuck while the connection is open |
| NonKVProtocol | `serno_`, gid, uid | Resolve, command builders | parsing of positional text | numbers within their limit, answers recognised |
| KVProtocol, ProtoKV, ProtoKVBase | none | Resolve, ToString | defaults, uninitialized members, exceptions, keywords that differ between the two | what is written is read back, nothing is invented, its own lines are safe |
| Parameter, GLog, daemon, main, BoostInclude | configuration, log file | load, Write, start | none beyond I/O | - |
| ATimeSpace, AMath, ADefine | `values_` kept with `valid_`, site | SetUTC, SetMJD, SetSite, getters | floating point; values kept for another time | a kept quantity is one of the day that was set |

Interactions. Clients send plans and commands to GC, which calls the methods of
every system that matches. GWAC mounts and focusers stay connected to GC (their
messages name group and unit); a GFT mount and every camera is handed to its
system with the first message, after which the system's own queue gets its
messages. A system publishes plan statuses by a callback into GC. OP is
awakened by NotifyPlan or every 10 s, rewrite by 1 s without a new command.

The hazards of the code, each at its line with the properties that would catch
it, are listed in `PROJECT.json`.

## 2. Modules

| module | models |
|---|---|
| `AstroDeviceDef` | state codes of `AstroDeviceDef.h` that comparisons read |
| `PlanLifecycle` | abstract: the sequence of statuses a system publishes |
| `ObssPlan` | one system: plan, mount, cameras, counters; threads GC, OS, OP |
| `ObssPlan_proofs` | theorems about `ObssPlan` |
| `MCObssPlan` | instances of `ObssPlan` for TLC |
| `ResendBuffer` | commands to mount and focuser, serial numbers, thread_rewrite |
| `ResendBuffer_proofs` | theorems about `ResendBuffer` |
| `MCResendBuffer` | instances of `ResendBuffer` for TLC |
| `CameraConn` | connections of a camera between GC and its system: accept, reading, hand-over, close, destruction |
| `CameraConn_proofs` | theorems about `CameraConn` |
| `MCCameraConn` | instances of `CameraConn` for TLC |
| `ByteStream` | abstract: what TcpClient promises those who Write |
| `TcpWriter` | the sending side of a connection: buffer, transfers, errors |
| `IoThreads` | extends `TcpWriter`: queue of a message loop, its handlers, io threads, Stop |
| `IoThreads_proofs` | theorems about `IoThreads` and `TcpWriter` |
| `MCIoThreads` | instance of `IoThreads` for TLC |
| `ObssRegistry` | all systems: finding, creating, coupling, dumping, plans for several |
| `ObssRegistry_proofs` | theorems about `ObssRegistry` |
| `MCObssRegistry` | instance of `ObssRegistry` for TLC |
| `NonKVProtocols` | the parser of lines of GWAC mounts and focusers, as operators |
| `FocusTracker` | extends `NonKVProtocols`: focus commands and reports of a system, the focuser |
| `FocusTracker_proofs` | theorems about `FocusTracker` |
| `MCFocusTracker` | instance of `FocusTracker` for TLC |
| `KVProtocols` | parser and printer of key-value lines, and a line that is relayed |
| `KVProtocols_proofs` | theorems about `KVProtocols` |
| `MCKVProtocols` | the lines TLC relays |
| `ATimeSpace` | calendar, and the quantities that are kept |
| `ATimeSpace_proofs` | theorems about `ATimeSpace` and its calendar |
| `MCATimeSpace` | the days, dates and requests TLC makes |

### ObssPlan

Variables are the members of the code with the same names: `plan` is `plan_`,
`planState` is `plan_state_->state`, `camonline`, `exposing` and `waitflat` are the
counters, `known` the entries of `camInfoVec_`, `online` those with a connection.
`at[t]` is the place thread `t` (GC, OS or OP) has reached. Every test of `plan_` or
`tcpMount_` and every act that rests on it is a step of its own, so that the other
threads act in between:

- Abort, in GC and OP: the mount (`StopMount`, after `BeginAbort` tested it), the cameras
  (`StopCameras`), `plan_.unique()` (`TestPlan`), `plan_.reset()` (`ResetPlan`), the status
  (`PublishEnd`). Park differs in the test of the mount. The last three, begun by
  `LeaveExpose`, are also OS's end of a plan.
- NotifyPlan: `ReplacePlan` (`unique()`, then Abort), `StorePlan`, `CatalogPlan`, and `ReleasePlan`
  when the handler drops its own reference, until which `unique()` is false.
- Slewto and TakeImage that are refused, and a camera that returns, read `plan_` after
  its test (`Refuse`, `Look`).
- thread_obsplan: `Wake` (`unique()`), `CheckPlan` (status, mount, counters), `DecideSlew`,
  `AimMount`, `WriteCameras`, `PublishRunning`, `ReadDeadline`, `ObsplanTimeout`, then Abort.

`MountStatus`, `CoupleMountGft` and `MountClose` are GC's messages of a mount; `CoupleCamera` is
GC's, `OnTcpClose` and `ProcessCamera` are OS's messages of a camera.

A pointer that is null when it is read kills the process (`down` names the thread);
systemd starts it again (`Restart`, `gtoaes.service`). Where the code tests, then
resets, and another thread has reset the pointer since, the read may have come before
or after: both outcomes are steps.

Ghosts: `told` is the exposure command a camera has yet to carry out, `sent` that the
plan's description was written to the cameras, `wild` that an entry started with an
exposing state. `raced` is set when a thread changes the plan, its status, the mount or
the target while another one stands between a test and the act that rests on it
(`Relies`), and reset when a plan is cataloged with nobody in such a place. It names the
windows the missing lock leaves open: the properties say what holds outside of them.

Abstractions:
- The conditions at `:968-971`, the reads of one slew (`:773-807`), and a report together
  with the counter it moves are one step each. Only OS reads the states of entries;
  the conditions read what the next steps test again or what `raced` covers.
- A data race on a `shared_ptr` yields the old value or null. Races on the vector of
  cameras and on the pointers in it are left out.
- Positions are members of `Targets`, two of which are more than the 5 arcsec apart
  that process_new_plan tolerates.
- `KVCamera::state` of a new entry is uninitialized: any member of `FreshStates`.
- Guide, Track, TrackVel, HomeSync send a command and change no state of these;
  plan validation (CheckPlan) and mount positions are left out.
- A GFT mount's messages reach the system, whose handlers ignore them: the model
  has no status for it.

### ResendBuffer

`buff` is the deque as the set of its items, each with the place of its push; `tr`
says where thread_rewrite is: waiting, at `Front()`, at `Pop()`, at the test of the
device, at `Write`. `Build` is a command builder of NonKVProtocol (the number is taken
under `mtxSerno_`), `Push` and `Write` the two calls that follow it, by GC or by OP.
`ref` is what the reference of `Front()` named; `torn` says the item is gone or may
have been moved, so reading it yields anything.

`Couple` also takes the place of a connection that is coupled still, as CoupleMount and
CoupleFocus do: nothing is cleared, and the close of the one replaced is ignored. `swapped`
names the commands this leaves to be resent to another connection, `strays` those and
what OP pushed after its device was decoupled. After `Restart` devices may still answer
what the former process sent (`held`), though numbers begin again; `since` is the last
command of the former process.

### CameraConn

`st`, `buf`, `slot` and `io` are the socket, `crcbuf_read_`, the slot of `cbread_` and
the io thread of each connection; `queue` the message queues of GC and OS; `pool`,
`entry` and `held` the three kinds of `shared_ptr` that keep a connection alive.
`LoopStep(r)` is on_tcp_receive of either class, one action for each access to the
connection, because both may work on the same one. `CoupleCamera` and `RegisterRead`
are GC's process_protocol_camera, split where the slot is empty.

Abstractions:
- All connections claim to be one camera. Other protocols, which both loops skip,
  are left out.
- A connection without a `shared_ptr` is destroyed (`Freed`). Using it kills the
  process or shows a closed, empty object (`Dangling`). Its address is not given to
  a new connection while a message or a handler still names it.
- Two readers: `Lookup` and `Read` each hold `mtx_read_`, but are two steps. Reading as
  many bytes as a line had that is gone yields anything that is not too long, and
  takes a line, part of one, or nothing. An undefined line is not cut further, as
  it stays one; every cut takes bytes, so none goes on for ever.
- A callback of the io thread picks its reader and posts in one step. Posting later
  changes only the order among messages of different connections.
- The capacity of the queues is left out; `IoThreads` has it.

It overlaps with `ObssPlan` in `CoupleCamera`, `OnTcpClose` and `ProcessCamera`: there
a camera is on line or not and its plan is the subject, here the connection is.

### TcpWriter and IoThreads

`wbuf` is `crcbuf_write_`, `flight` the length handed to async_write_some, `done` what of
it has left before handle_write is called. `Write` keeps what fits and starts a
transfer if the buffer was empty, as the code does, so at most one is in flight;
`Break` is a connection that fails. `wire` and `taken` are ghosts.

`ByteStream` is what the writers may rely on: a beginning of each command is accepted,
accepted bytes are received in order, nothing is received after a failure. `TcpWriter`
implements it (`StreamSpec`): the stream's queue is `Waiting`, what the buffer holds
behind the bytes that have left; `Write`, `Transfer` and `Break` are its steps, and
handle_write, which only catches up with what has left, is none.

`IoThreads` adds the loop. `queue` is the boost message queue; `io` says whether the
io thread of a connection runs, waits for room in PostMessage, or has been joined;
`loop` and `msg` are message_loop and its message; `stop` is the main thread in Stop.
An io thread runs its own handle_write, so one that waits for room sends nothing
either. Handlers are of three kinds: those that leave connections alone, those that
write, and those that drop the last reference to the connection of the message and
so join its io thread (`HandleDropping`, `Joined`). `OtherWrite` is every other thread.
Several connections may be the writer's, one queue is the subject.

### ObssRegistry

`obssVec` is the list of systems, `key` their gid and uid, `held` what is coupled
to each, `aged` that the 300 s since `lastClosed_` have passed. `conn` is where a
connection is: in the pool of GeneralControl, handed over, or gone. A handler of a
device is `MountStatus`, `MountPosition` or `UnitReport` (find_obss, under the lock),
`Couple` (after the lock), and for a status of many units `FindNext`; between them
`Dump` may run. `ClientPlan` collects the systems that match under the lock and
`NotifyPlan` hands the one object to each.

`unique()` and the act that rests on it are two steps in each thread: `TestPlan` and `RunPlan`
of thread_obsplan, `TestEnd` and `EndPlan` where the cameras or the end of the plan end it,
`ClientAbort` (or `NotifyPlan`) and `Abort` in the message loop. Whatever `plan_` is by the
second step is run, or reset; a null pointer, and a focuser's unit that is no number
(`WordFocus`), kill the process (`up`, `Restart`).

`deaf` are cameras that were closed before RegisterRead was done: their close went to
GeneralControl or to nobody (`CameraConn`), so the system keeps them, and their systems
are never dumped.

Abstractions:
- Of the status only `running` is kept; that a plan is not running stands for CATALOGED,
  and a status is written in one step with the reset that goes before it (`ObssPlan`
  has them apart).
- A device that returns has another connection: each connects once.
- Whether a camera that closes is deaf is decided when it is coupled. The rest of its
  hand-over is the subject of `CameraConn`.
- `Age` never passes while a handler has found the system and not coupled yet, nor
  while a mount that reports keeps the system: 300 s are longer than both.
- The mounts of one group are of one kind (`OneType`), as the type of a system is
  that of the mount that created it.
- The instance TLC runs has mounts, a camera and a focuser. A GFT mount differs from a
  camera in that its close changes nothing. The theorems cover all four.

### NonKVProtocols and FocusTracker

`Resolve` and what it calls are operators with the names of the code, on lines that
are already cut into parts: what is a value, an empty part, a missing one. Text is
not modelled, the effect of a missing field, of an unknown name and of a list that
ends the line is.

`cam` holds the entries of `camInfoVec_` with `focState`, `focPos`, `repeat`; `dev` is the
focuser: position, target, and a command that it has not begun. The focuser is the
environment: it moves by at most one between two reports, begins a command after at
most `StartLag` of them, may be given a command that never arrives, and also
sends the other lines of the protocol: one that leaves a camera out, for which
`INT_MAX` (`Unset`) is recorded, and one whose unit is three characters but no number,
at which std::stoi throws and the process dies (`Die`; an empty unit cannot occur, the
parser cuts it as the three characters before the keyword). `tcp` tells the present
connection from one that the focuser has left: the next report replaces it, its
close is ignored then. `told` is what each camera was last
told. `Focus`, `FocusSync`, `NotifyFWHM`, `NotifyFocus` are the methods.

Abstractions:
- `Invalid` is 999999, which a new camera has for `focPos` (the code compares with
  INT_MAX elsewhere, `GeneralControl.cpp:400`, so it is uploaded).
- `focTar` is logged and displayed only. A FWHM equal to the last one changes nothing.
- One command at a time reaches the focuser. If thread_rewrite resends a relative move
  after a late answer, the focuser must recognise the serial number: external.
- `StartLag < Repeats` is an assumption about focusers: one that starts later than
  three reports after a command makes the server tell the old position.

### KVProtocols

`KVMount`, `KVCamera` ... are the structures as constructed, `Reads` what a resolver assigns,
`Printed` what ToString writes;
a line is a sequence of pairs of a keyword and one of a few values: numbers, a number
with more digits than are printed, a word, nothing. `Receive` is Resolve, `Send` is
ToString, `Die` an exception that is handled by reading a null pointer, `Refuse` a line
of no type. A double just above DBL_MIN (`"least"`) is printed with six digits, which
may be below it (`"subnormal"`): std::stod throws std::out_of_range of that. One that was
never assigned (`"undef"`) may be such a number, too (`MayThrow`), or be read; what one
reader has accepted, the next ones do, so only lines that print it for the first
time may throw (`PrintsFirst`). `Null` is no line or message, `Empty` an empty string. One line is followed
from its writer through `MaxHops` readers, as a slew or a plan goes from a client
through the server to a device and its report back.

### ATimeSpace

`values` maps each quantity whose `valid_` is set to the set of inputs it was computed
from (day, leap seconds, site): the numbers are floating point, but which inputs they
are of is what a kept value can get wrong. `Needs` is the call graph of the getters.
The calendar conversions are computed on integers. `Days` and `Dates` are from 1972 on
(`CalendarOK`), `Wanted` what a caller asks for between two calls that set something.

Of the fraction of a day only matters whether it is `"early"`, `"late"` (within 3E-10
days of the next midnight) or `"over"` (not in [0, 1), refused). Adding a day number to a
late one may round up to the next day (`Carries`): in Mjd2Cal at `:74`, whose fraction
(`:88`) stays that of mjd, and in ModifiedJulianDay. What is set is then a day late.
SetJD is given a JD, with too few digits to be so near midnight that its sum is not
exact. SetEpoch computes its mjd in floating point: `SetEpoch(Epoch())` at 0h may come out
just below midnight, which here is a call that names a late time. Before a first time
is set the inputs are whatever is in memory (`Unset`), and getters compute and keep it.

## 3. Runs

| run | question | instance | states | result |
|---|---|---|---|---|
| `obss_safety` | plan life, what each thread relies on | GWAC, 1 camera, 2 mount connections, 2 plans | 3,386,108 | holds |
| `obss_gft` | counters, over and stop; exposures on target | GFT, 2 cameras, fresh states 0 and 2, flats | 7,352,804 | holds |
| `obss_live` | a startable plan starts, a plan with an end ends | 1 camera, 2 plans | 1,186,084 | holds |
| `resend` | numbers, dropping, replaced connections, draining | 3 commands, 2 numbers, 1 retry | 2,038,934 | holds |
| `conn` | owners, destroyed connections, a close makes room | 2 connections, 3 lines in all | 527,881 | holds |
| `io` | byte order, sending as an ordered stream, Stop, what a full queue can hold up | 2 connections, queue of 1, 3 messages, 2 writes | 156,244 | holds |
| `registry` | who holds a device, who runs a plan, that mounts find a system | 2 mounts, 1 camera, 1 focuser, room for 2 systems, 2 plans | 65,010 | holds |
| `focus` | what a camera is told of its focus, every command ends | 1 camera, 3 positions, 4 commands | 83,469 | holds |
| `kv` | what a relay keeps, loses, invents; own lines | every type, 3 readers | 167,600 | holds |
| `astro` | kept quantities are of the time that was set | 30 days, early and late, 8 dates, 2 sites | 41,040 | holds |
| `obss_over` | "over" means completed (`AstroDeviceDef.h:258`) | cameras obey | 891 | violated |
| `conn_lost` | a closed connection leaves the system (`ObservationSystem.cpp:825`) | 2 connections, 1 line | 2,429 | violated |

Bounds. Two cameras (`obss_gft`) are what it takes for "the last one stops" to differ
from "one stops"; they are interchangeable, so they are a symmetry set there.
Which connection the system has, and what one thread does between test and act of
another, needs only one camera: `obss_safety` has one, but two mount connections, of
which one closes late, and two plans, of which one points and one does not. In
`obss_gft` the entries start idle or exposing, and `MaxFlat` 1 ends runs in which the
count of flats, which does not go back when a camera leaves a flat for idle, grows on.
In `resend`, `SernoLimit` 3 makes the counter wrap with the third
command, `MaxRetry` 1 (3 in the code) gives up at the second timeout, and
`MaxCommands` bounds the commands so that "clients pause" can be true. In `conn`, three lines on
one connection let a torn read meet a following line after the report that hands
the connection over; the second connection, which at most says which camera it
is (one line), is the duplicate that is refused or the camera that comes back.

In `io`, a queue of one message (1024 in the code) is full after one post; three
messages of two connections let one wait while the other is being joined. A
buffer of four bytes does not hold both commands, of two and three bytes. Only one
connection is written to and fails: buffers do not interact.
In `registry`, two mounts of one group compete for the same units, and a system can be
dumped while a handler has found it and another has taken its name. m1 connects
first, then one of the second mount, the camera and the focuser. A plan is sent while m1
and the camera are connected; the second one only while thread_obsplan stands
between test and act on the first, and from then on devices are silent (so liveness
is not explored with two plans). `StatusLen` 3 makes a status name units 1 and 2, the last of which is the
one that `i < n` still reaches.
In `focus`, `Repeats` is the 3 of the code, `StartLag` the largest it tolerates, and
three positions let a command be given in the middle of a move; `MaxCmds` 4 lets
every kind follow every other. Cameras do not interact, but for the command that
resets all.
In `kv`, the third reader shows what changes again with every relay (the epoch of a
plan, the frame of a slew). Lines are empty, one or two pairs, or all keywords of the
type and one more pair.
In `astro`, days are the first and last of months around February, July and January of
common years, leap years, 2000 and 2100, some of which have a leap second; dates also ones
that are refused. Only days from 1972 on: before, DeltaAT adds a drift.

The theorems hold for every value of these constants.

`obss_over` restricts cameras to those that start to
expose only when told (`ObedientSpec`): the violation needs no odd camera.

Deadlock is checked where a state without a successor would be wrong: not in `io`
(the server has stopped, or is stuck as `Stuck` says), `registry` (each device connects
once), `focus` and `kv` (the last command is done, a line has had its last reader).

## 4. Fairness

`ObssPlan`: GC and OS finish a handler they entered (`GcStep`, `OsStep`), OP wakes at
least every 10 s (`wait_for`), the clock passes a plan's end. Nothing is assumed of
clients, mounts, cameras, nor that OS gets a message. `ResendBuffer`: handlers
finish, thread_rewrite runs. Its step needs a second without a new command; that
such a second comes is assumed by weak fairness and is true of every finite
number of commands, which is what `MaxCommands` makes of them. A client that
sends a command every second starves the resends: that is what the code does.

`CameraConn`: the io threads, GC and OS each take a step when they can; cameras need
not send, close or connect. `OsSpins` excepts the loop that OS does not leave.

`IoThreads`: each thread goes on when it can; nobody has to read, write, fail or ask
for the stop, and a peer need not take bytes while the io thread waits for room. A
queue that is full gets room in the end, as each connection causes finitely many
messages (`MaxReads`). `ObssRegistry`: the loop goes on with what it began; strong
fairness of `GcClose` and of the status of a mount that is connected says that the loop
does not pass over the messages of one connection for ever (its queue is served
in order) and that mounts report periodically; a close is handled by the system
only if it was announced to it (not for `deaf` cameras); the clock and the dump thread advance.
`FocusTracker`: the focuser keeps reporting whole lines, which is what it does on its
own, and a close is handled. Nothing is assumed of clients, of cameras, or that a
command reaches the focuser. `KVProtocols` and `ATimeSpace` are sequential and have none.

## 5. Proofs

Checked by TLAPS for every set of cameras, plans and connections, and every
`SernoLimit > 1` and `MaxRetry`:

- `TypeCorrect`, `ResendTypeCorrect`: types; the counters of a system never go below
  zero though two threads decrement them.
- `HeldPlanOpen`, `CrashRaced`, `RunningSent`: as long as no thread changed the plan, its
  status or the mount under another one (`raced`), a plan is held exactly while its end has
  not been published, what is published as running was sent to the cameras, and no thread
  reads a null pointer. The inductive invariant `PlanInv` joins `GcOrder` (where GC is in its
  handler and what it has in hand), `Agreed` unless `raced`, and `CrashOnlyWhenRaced`. `Agreed`
  says what each thread still knows at its place: that a plan is held (`StillHeld`), a mount
  is coupled (`StillCoupled`), the plan is cataloged, written or pointed at
  (`StillCataloged`, `StillWritten`, `StillAimed`), and that only one is between changing
  `plan_` and publishing what became of it (`Alone`, `HeldOpen`). `AgreedAnew`: a plan that is
  cataloged undisturbed brings all of it back.
- `PublishesLifecycle`: `ObssPlan` implements `PlanLifecycle`, with the abstract status blank
  while `raced`, which the abstract specification allows at any time. Each step maps to a step
  or a stutter (`StatusStep`), from `PlanInv`.
- `StartsPointed`: in a GFT system (`~Gwac`) a camera is told to start a plan's exposures
  only where the mount was last sent, unless the target or the plan changed while
  thread_obsplan was starting it. NotifyMountState is not called there (`GftMountUnseen`), so
  `process_new_plan` is the only one who starts, and it points first.
- `MountOpen`, `CamonlineCounted`: a GWAC system never holds a closed mount; camonline
  is the number of connected cameras.
- `NoPhantom`: exposing never exceeds the number of entries in an exposing state,
  whatever an uninitialized state holds. Needs `OfflineInError`: an entry without a
  connection is in error, so coming back cannot count twice.
- `ExposingCounted`, `OverQuiet`, `InterruptStops`: until an entry starts with an exposing
  state (`wild`; what a new entry starts with is left to chance by the code) the count is
  exact (`ExactInv`), over is published only when nothing is recorded as exposing, and an
  interruption tells all that are to stop. `OsQuiet` bridges the steps from the last report
  to the status: cameras that are coupled meanwhile expose nothing.
- `AnswersUnambiguous`: two commands given out since the server started that may still be
  answered share a number only if all others were given out in between. Strengthening:
  `SernoFollows` (how far the counter has come since a number was given out) and
  `RefWaiting` (what thread_rewrite holds still waits, unless torn).
- `NothingKeptForReturn`: what waits for a device that left was pushed by OP, and what is
  resent over another connection than its own was OP's too, or waited when that connection
  replaced one that was still coupled. The invariant `StaleInv` adds that a sender has a
  connection (`SenderConnected`), that GC couples and decouples nothing while it sends
  (`GcSendsToCoupled`), and that ids name one command (`IdsApart`).
- `GivenUpGoes`, `DropsGivenUp`: a command given up leaves with the next `Pop()`, and
  what that `Pop()` removes is the command given up if nobody erased one since `Front()`.
  Strengthening: `PlacesApart`, `FreshItems`, `GivenUpInFront`; `DropInv` adds what the
  reference of thread_rewrite stands for (`RefGivenUp`).
- `OneOwnerCorrect`, `OsTouchesLiveCorrect`, `GcTouchesLiveCorrect`, for any number of
  connections and lines: a connection is in the pool or with the system, the
  system never works on a destroyed one, GC only on one it gave away. The inductive
  invariant `IInv` (`OwnershipInvariant`) says who may still be told of a connection
  (`OsOwns`, `GcOwns`), which needs that no message of a connection follows its close
  (`CloseIsLast`) and that the system hears nothing before RegisterRead is finished
  (`NotYetOs`).
- `ThreadsTypeCorrect`, `BytesInOrder`, `QuietAfterStop`, for any number of connections,
  commands, capacity of buffer and queue: the queue never exceeds its size, no byte that
  Write accepted is lost, doubled or overtaken, and after Stop no handler runs.
  Invariant: `TypeOK`, which bounds a transfer by the buffer, `SendsAllInOrder`, and
  `LoopJoined` (a main thread past the join has seen the loop end).
- `WritesStream`: the sending side implements `ByteStream`, from `TypeOK` alone. Each step
  of a connection maps to a step or a stutter (`WritePuts`, `TransferReceives`,
  `HandleWriteStutters`), and `WaitingElsewhere` keeps the other connections out of it.
- `RegistryTypeCorrect`, `OneHomeCorrect`, `SoleRunnerCorrect`, for any number of systems,
  devices of all four kinds, groups and plans. A running plan that is still the one
  thread_obsplan found to be unique is held by nobody else. `IInv` is `TypeOK`, `OneHome`
  and what they need: from `unique()` on nobody else gets the plan (`TestedOK`), a slot holds a
  connection of its kind (`SlotsOK`), a mount is held in its own group (`GroupsOK`, with the
  assumption `OneType`), what the loop is about to couple is still in the pool
  (`HandlerOK`), and a plan that was never received is held by nobody (`PlansSent`:
  every plan received is an object of its own).
- `FocusTypeCorrect`, `CameraKnows`, for any number of cameras and commands, any span,
  number of repetitions and lag below it: a camera whose focus counts as at rest after a
  command of a client was told the position where the focuser stands. The inductive
  invariant `FocusInv` compares the record of a camera with its focuser (`Follows`): while a
  command waits to begin, no more repetitions are counted than reports came, at most
  `StartLag` (`Pending`); while it moves, the recorded position is one it has left, or one
  ahead that it passes once (`Moving`). A line that leaves the camera out keeps it if it
  is dropped (`DroppedFollows`), or ends what counts as commanded (`LackingFollows`).
- `OwnLinesSafe`, for any set of lines: what ToString has written is never refused, and kills
  its reader only through a double that was never assigned, or one so near DBL_MIN that
  its digits are below it. `OwnInv`: what is held is `WellFormed` for its type, and a
  written line `Readable`.
- `RelaysKeep`, `InventsOnly`, `ExtrasStay`, for any set of lines and number of readers: each
  later reader holds what the first one held but for the exceptions the properties name,
  uninitialized members are printed only for what the first line did not give,
  and additional pairs of a plan stay in their order. The invariants (`RelayInv`,
  `InventInv`, `ExtraInv`) speak of the message held or, if a line is under way, of the
  one that its next reader would get. They rest on one lemma per type of how its table
  of keywords is read and written. `Picked` runs along a line; what it computes is shown
  with the least place at which it could fail, which stands for induction. The assumption
  `KVOK` keeps the two values only a member can have (`"precise"`, `"undef"`) off lines.
- `DateOfDay`, for every day from 1972 on, and whether or not the sum at `ATimeSpace.cpp:74` is
  rounded up to the next: Mjd2Cal finds a date of the calendar (a 29 February only in leap
  years), and ModifiedJulianDay finds that day again (`DateFound`, `IsDateOf`). So what
  is off just below midnight is off by the carry and by nothing else.
  The argument counts years from March: `Century` puts the day's year between those of
  its century, `DayOfYear` bounds the day in it, `MonthOfDay` is the table of months.
- `LeapSecondsFound`, for every date from 1972 on: DeltaAT returns the number of entries of
  its table until that day. `MonthBegun` relates the order of days and months.
- `PlaceCorrect`, for any sites, days, dates and requests: once a time is set, what is kept is
  of the day named, or of the next if the time was just before midnight (`Near`), and
  of the site unless that was set later. The invariant `PlaceInv` says so of every kept
  quantity; that what is computed has it too goes by the rank of a quantity in the graph of
  getters (`Rank`, `NeedsGrounded`), which also shows that the graph has no cycle
  (`AlongExists`). That the day is the one the caller meant, but for the carry, rests on
  `DateOfDay`, `LeapSecondsFound`, and `MjdIsDayOf` (the formula of ModifiedJulianDay counts
  days, months and leap years).

Assumptions about the constants are the `ASSUME`s of the modules, which TLC evaluates in
every run; one theorem names one more (`~Gwac`).

Every safety and action property of the runs is a theorem. Only model-checked: liveness
(`StartableStarts`, `TimedPlanEnds`, `Drains`, `ReleasedByOs`, `StopEnds`, `Delivered`,
`MountsFindHome`, `DumpedInTheEnd`, `FocusSettles`), which is beyond this prover; and the
violations of section 6, which are counterexamples.

## 6. What disagrees with the documentation

- `OverOnlyAfterRunning`: a plan that replaces an exposing one is ended as over by
  the late report of the cameras just stopped (`ObservationSystem.cpp:912`).
- `ClosedIsReleased`: a close that comes during the hand-over is dropped or goes to
  GC; the system keeps the dead connection and refuses the camera that returns
  (`AsioTCP.cpp:170`).

Also seen, and stated by no property; each is in the model as the code has it:

- a mount that arrives starts exposures of a plan that is only cataloged
  (`ObservationSystem.cpp:258`; the comment at `:252` asks for a plan being executed); the
  cameras never got its description;
- a camera told to start that has not reported yet is not stopped by Abort (`:411`);
- two threads may end a plan, or end and replace it, under each other (`:414-422`, `:912-920`,
  `:363-367`): a plan just stored is published as over or interrupted, or a null pointer is
  read (`ObssPlan`: `raced`);
- a connection that replaces a coupled mount or focuser gets the commands that wait for
  the old one (`:131`, `:159`, `ResendBuffer`: `swapped`);
- after the last retry the item is destroyed by `Pop()` and then read and written
  through the reference (`:999`, `ResendBuffer`: `torn`, `garbled`);
- NotifyMountState is called for GWAC mounts only, so a GFT plan that needs a slew is
  never told to start exposing;
- a plan addressed to several systems is unique in none: never started, aborted or
  ended, only replaced (`ObssRegistry`: `Unique`);
- imin is never 0, so a status of group 001 reaches units 5 to 10 too; unit i is given
  state i of a list that starts at 0, and the last of n is not reached
  (`GeneralControl.cpp:266-275`);
- the closed connection of a GFT mount stays coupled, so its system is never dumped and a
  returning mount is refused (`ObservationSystem.cpp:844`);
- a system that is dumped while a GFT mount or camera is on its way to it takes that
  connection with it;
- `mqPtr_` stays valid after Stop, so io threads go on filling a queue nobody reads; a
  full one makes Stop, or a handler that drops a connection, wait for ever (`IoThreads`:
  `Stuck`); Write cuts silently what does not fit; nothing drains a buffer after an error;
- COORSYS_ALTAZ is 0 and COORSYS_EQUA 1 (`AstroDeviceDef.h:34`), the printers call 0
  equatorial (`ProtoKV.h:91`); a plan with ra and no coor_sys gets COORSYS_EQUA
  (`KVProtocol.cpp:138`) and is relayed with azi and ele, and no ra; epoch is printed, ecoch
  read; coorsys of a slew is printed, coor_sys read; a malformed number kills the process
  (`KVProtocol.cpp:173`), and so does a double below DBL_MIN, as an unassigned one may
  be printed; geosite is never dispatched;
- a focuser's unit of three characters that are no number kills the process
  (`GeneralControl.cpp:324`, `ObssRegistry`: `WordFocus`);
- both sample lines in comments of the NonKV parser are dropped by it
  (`NonKVProtocol.cpp:70`, `:103`); "finished" is ignored;
- FocusSync and NotifyFWHM do not reset `repeat`: the next unchanged report may end the wait;
- Mjd2Cal rounds up (`ATimeSpace.cpp:74`) where the fraction (`:88`) does not: a time within
  some 2E-10 days before midnight is stored a day late (`ATimeSpace`: `Mjd2Cal`, `carry`);
- MoonPosition sets `values_` where it means `valid_` (`ATimeSpace.cpp:847`): never kept; SetSite
  leaves what was computed for another site; DeltaAT before 1960 reads before its table.

## 7. Not modelled, and what is left

Not modelled at all: Parameter, GLog, main, wrappers of boost (I/O); AMath and the formulas
of ATimeSpace (floating point); the cutting of lines into fields; cycle_upload_client, which
only reads; TcpClient::Connect, which the server does not use; plan validation (CheckPlan).
Uploading, and the loops over cameras, read structures that other threads change without a
lock: the model has no such torn read beyond those of `plan_`, its status, the target,
`tcpMount_` and connections.

What would add most: several systems in the detail of `ObssPlan`, with the plan they share;
the camera's report, which replaces its entry, against the handlers of GC that read it.
