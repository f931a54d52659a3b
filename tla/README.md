# A TLA+ model of the FRDM-K64F security system

The program opens a door for people with a known magnetic card and mails their
picture to the owner. It runs on a FRDM-K64F board under uC/OS-III, with lwIP as
network stack. All paths below are relative to `src/Final Project/`.

## 1. The system

| Part | Source | State it keeps | Operations |
|---|---|---|---|
| TaskStart (priority 2) | `source/main.c` 405-481, `source/OV7670.c` 307-328 | which line it copies | waits for `semProcessNewLine`, copies `aux_buffer` to a row of `bitmap_matrix` |
| Task2 (priority 3) | `source/main.c` 294-349, 704-725 | `id[]`, `id_in_list` | waits for a card, reads its number, searches the list, photographs, compresses, announces the mail, opens the door, starts the door timer |
| Task3 (priority 4) | `source/main.c` 353-403, 836-874 | mail sessions, the recipient | runs lwIP, whose callbacks are the web handlers and the SMTP result; polls `send_email_sem` and starts a mail |
| Card reader driver | `source/magnetic.c`, `source/magnetic_app.c` | a state machine, the characters read, the reading state | two pin interrupts; `init_magnetic`, `enable_reading`, `disable_reading`, `get_state`, `get_data` |
| Camera driver | `source/OV7670.c`, `source/DMA.c` | driver state, requested picture, current row, DMA channel | vertical and horizontal sync interrupts, DMA interrupt, `OV7670_TakePicture` |
| Card list | `source/id_identification.c`, `source/array_compare.c` | `Cards[]` | search; rewritten by `CardsCGIhandler` |
| Web handlers | `source/main.c` 556-695 | recipient, list | `EmailCGIhandler`, `CardsCGIhandler`; three that change nothing another part reads |
| SMTP client | `lwip/src/apps/smtp/smtp.c` (vendored, patched in its body callback path) | per session: protocol state, timer, answer received, rest of the chunk | send; poll, sent, recv and err callbacks of the connection; body and result callbacks |
| Mail body | `source/main.c` 763-832, `source/base64.c` | the chunk to send next | `my_smtp_bodydh_fn` |
| DHCP client | `lwip/src/core/ipv4/dhcp.c`, `source/main.c` 876-940 | state, tries, timers of the lease, transaction | start; OFFER, ACK and NAK received; fine and coarse timer |
| SNTP client | `lwip/src/apps/sntp/sntp.c`, `lwip/src/core/timeouts.c`, `source/main.c` 947-975 | pending timeouts and DNS queries; the two time strings of a mail | request, retry, answers; `sntp_set_system_time` |
| Kernel | `source/rtos/uCOSIII/src/uCOS-III/Source/os_*.c`, its Cortex-M port | ready lists, pend lists, mutex groups, the running task | pend, post, schedule, tick, switch |
| I2C queue, I2C driver | `source/I2C_FIFO_driver.c`, `source/I2C_Driver.c` | ring of 16 messages, the transfer | new message (task), send next (tick), byte interrupt |
| Software timers | `source/timer.c` | table of timers | start, tick |
| Door LED | `source/Led_DRV.c` | colour | set colour |

How they interact:

* Interrupts talk to tasks through counting semaphores: `magnetic_updated_sem`
  (reader to Task2), `semProcessNewLine` (camera to TaskStart),
  `photo_ready_sem` (camera to Task2). Task2 talks to Task3 through
  `send_email_sem`.
* `id[]`, `bitmap_matrix`, `email_to` and `Cards[]` are shared buffers. Each has a
  mutex: `id_mutex`, `bitmap_mutex`, `email_mutex`, `id_list_mutex`. A mail passes
  the first three *by reference* to lwIP; `send_email` takes their mutexes and the
  result callback `mySMTPresult`, an iteration of the main loop much later, gives
  them back. The mutexes are recursive and belong to the task.
* TaskStart writes `bitmap_matrix` without its mutex.
* Two callbacks run in the tick, through the timer table: one closes the door, the
  other starts the next I2C message. The end of the last message makes the camera
  ready.
* DHCP reaching BOUND starts SNTP; both live in Task3, one handler at a time.

What is hard: buffers read long after the check that justified it (a pend in
between), buffers held across callbacks, counting semaphores with several posts per
event, a preemptive scheduler over three tasks and half a dozen interrupts, a
camera driver whose three interrupts must agree with a DMA channel, errors that
are reported to nobody. `PROJECT.json` lists these under `hazards`, each at its
line, with the properties aimed at it.

What makes each part correct:

* tasks: buffers do not change under a mail that quotes them; one opening per valid
  swipe; the picture that is compressed is that of the access; the mail is about one
  access; locks come back; the door closes; accesses complete;
* card reader: what is offered as valid data is a well-formed track, and every
  announcement the client relies on is made;
* camera: every line the sensor sent for an announced picture is in its row; no write
  outside the buffers; no transfer into a line being copied; a picture per request, always;
* SMTP client: a mail is written whole, in order and once; each accepted mail has
  exactly one result, on which the release of three mutexes hangs; a session ends
  whatever the server does;
* kernel: the most urgent ready task runs; an inherited priority is neither missed,
  lost nor kept; every task is in the list its state names;
* timers and camera set-up: a timer fires when its period is over, whatever the tick
  interrupts; the sensor gets every register, once and in order, before it is used;
* DHCP and SNTP: no address without a lease, an address again after every loss, one
  unbroken chain of time requests;
* card list: a search never meets a half-written list; a number passes only if it is
  listed.

## 2. Modules

```
Rtos            semaphores, mutexes, priorities of uC/OS-III
RtosClient      Rtos, as the application uses it <--implements--  Kernel
CardReader      contract of the card reader      <--implements--  Magnetic
Camera          contract of the camera driver    <--implements--  OV7670
Mailer          contract of the SMTP client      <--implements--  SmtpSession
SecuritySystem  EXTENDS CardReader, Camera, Mailer: the tasks and their shared state
CameraSetup     EXTENDS Timers: timer.c under the I2C queue, the I2C driver and the door
Network         EXTENDS Dhcp, Sntp: how the device gets its address and the time
MCSecuritySystem, MCMagnetic, MCSmtpSession     values of constants for TLC
SecuritySystemProofs, TurnProofs                theorems about SecuritySystem
OV7670Proofs, MagneticProofs, SmtpSessionProofs theorems about the drivers and the SMTP client
CameraSetupProofs, NetworkProofs                theorems about Timers and CameraSetup; Dhcp and Sntp
KernelProofs                                    theorems about Kernel
```

**Rtos.** A kernel object is a record, a pend or post an operator that returns its
next value. A pend moves the caller's program counter past the call and, when the
object is taken, adds the caller to the pend list; a task in a pend list is not
ready, so it executes nothing before a post removes it. That is what `OSSched`
makes the task see. `OSMutexPend` nests for the owner; `OSMutexPost` hands over to
the most urgent waiter. Time-outs, deletion and abort are not used by the
application.

**Kernel, RtosClient.** Kernel is the part of uC/OS-III behind those operators: ready
lists and `OSPrioTbl`, pend lists in priority order, mutex groups, inheritance along a
chain of owners (`OS_TaskChangePrio`), its end (`Disinherit`), `OSSched`, round robin
and PendSV. A service runs with interrupts disabled and is a step; its final call of
`OSSched` is another, because interrupts are enabled before it. The port interrupts do
not call `OSIntEnter`/`OSIntExit`, so the post inside them calls `OSSched` itself. All
tasks may use the objects in any order (`lockers`, chosen at the start, says which use
mutexes); deadlocked tasks leave the idle task running. RtosClient states what
SecuritySystem assumes of the kernel: services of Rtos, called one at a time by the
most urgent ready task, and posts by interrupts at any time. `ImplementsRtos` states it
for mutexes used by Task2 and Task3 only, as in `main.c`; with TaskStart among the
users it fails, as it should, because Rtos knows no inheritance.

**SecuritySystem.** A step of a task is one kernel call or one access to shared data
(`pc2`, `pc3`, `pcStart` name the next one). A task steps only when no more urgent
task is ready; interrupts step at any time. Compositions of the code's data:

* a card number is its first digit (`head`) and the other seven (`tail`), because
  `compareArrays` starts at index 1. `get_data_ma` copies digit by digit, so `head`
  and `tail` are copied in steps between which an interrupt may occur; the seven take
  two, and if `content[]` changes between them any mixture may result (`GetLast`);
* `disable_reading` is its two stores, state and flag, between which the reader's
  interrupts are live;
* a row of `bitmap_matrix` is the kind of its contents (`raw`, `jpeg`, ...) and the
  access it is of. TaskStart writes one row at a time; the encoder replaces all rows in
  place (`main.c` 714-721). The sensor may end a frame early, and the rows below then
  keep what the last mail left in them, which the encoder turns into `garbage`: the
  code does not notice. So `OwnPicture` speaks of the rows for which the sensor sent a
  line, which after a frame of full length are all rows;
* Task3's loop is `input` (lwIP runs: at most one handler or callback, chosen
  freely), then `poll` (the non-blocking pend on `send_email_sem`), then the pends of
  `send_email`. The callback `mySMTPresult` posts its three mutexes one by one;
* `smtp_send_mail_bodycback` either starts a session or, with `MailMayFail`, returns
  an error. A session is only a count (Mailer): it ends with one `mySMTPresult`.

`valid`, `access`, `granted`, `swiped`, `failed`, `impatient`, `swipes` and `edits` are
history and bounds; no guard reads them, except the two bounds and the number of the
access that tags the rows of `bitmap`. Two guards are assumptions, not code:
`LineEnds` and `FrameFails` wait for TaskStart to have copied the line before (as in
OV7670, below), and `WriteCard` stays within `Cards[]`, because the form it serves has
as many fields. `impatient` records that somebody has drawn a card while
Task2 was still serving the last one or its mail was still due.

**CardReader, Magnetic.** CardReader is what Task2 sees of the driver: the reading
state, the number in `content[]`, and each post of `magnetic_updated_sem`. Magnetic
is the driver itself: bits of a card arriving on clock edges, five-bit characters
with parity, the table-driven state machine, LRC, early removal, the resets of
`enable_reading`, one step because `reading` is false then, and the two stores of
`disable_reading`, which are not. `Magnetic!DriverKeepsContract` states that every step of Magnetic
is a step of CardReader under a refinement mapping (`content[]` to the digits after the
start sentinel, eight states to four phases); `SecuritySystem!KeepsReaderContract` states the other half,
that Task2 calls the driver only as the contract allows: it resets the driver only
while `reading` is false, without which the reset could not be one step. The state is
not DISABLED then if an edge came between the two stores of `disable_reading` (a card
may even have become valid, or be half read); the contract allows every state, and the
reset is safe in all of them.

**Camera, OV7670.** Camera counts the lines of a picture. OV7670 models every word
the sensor sends, the eDMA channel that moves words to `aux_buffer` on every other
line, its wrap-around and interrupt, the row bookkeeping of
`horizontal_ref_falling`, and TaskStart's copy of one word in four, column by column.
A word is tagged with its picture, line and position, so that misplaced data shows.
`vertical_sync_rising` announces a picture without counting its rows, so a frame may be
short; `sent`, a history variable, is the number of lines the sensor sent for the
announced picture, by which `RowsInPlace` says which rows must be right.
`OV7670!DriverKeepsContract` and `SecuritySystem!KeepsCameraContract` are the two
halves of the contract, as above.

Timing assumptions of OV7670, as guards: TaskStart, the most urgent task, copies 320
words within the time of the next line (`SkippedRowEnds`); the DMA interrupt is
served before the DMA has moved another whole line (`PixelClock`) and before a sync
interrupt raised after it (`~dma.irq`).

**Mailer, SmtpSession.** Mailer counts accepted sends without a result. SmtpSession is
one session of `smtp.c` with the body generator of `main.c`. Sessions share nothing
but the memory they quote, so one is enough. Every callback of the TCP connection is
an action; they all run in Task3, one at a time, so an action is a whole callback,
except that `smtp_send_body` takes one step per chunk (`pc`; no other action is
enabled meanwhile). TCP is external: a write takes any number of bytes that fits the
send buffer, or fails; the server acknowledges, answers, splits answers, closes or
resets at any time. `asked`, `results` and `result` are history. In the behaviours with
`prompt` the network and the server do their part at once (`Owed`): writes succeed as far as there
is room, answers are the expected ones, and two seconds pass only when nothing else is
due. The result codes for a failed connection attempt at start are a refused send.

**Timers, CameraSetup.** Timers is `timer.c`: `timer_isr` is one step (interrupts do not
nest), `timerStart` one step per store, with a load and a store for the bits that share
a byte. `since` and `fired` are history. CameraSetup runs it under its two users:
TaskStart, which queues the five registers of `OV7670_init` while the queue's timer is
already running, and Task2, which restarts the door timer at any time, also while it
runs. The wire is modelled byte by byte, with start and stop conditions. Time enters
in two guards of `Tick`: at most one tick comes while a byte is on the wire (a byte
takes 160 us at 58.6 kHz), and TaskStart does at least `TICK_STEPS` of its steps between
two ticks. Without the second the properties fail: if queueing took longer than ten
ticks, the queue would be found empty too early and the camera announced ready.

**Dhcp, Sntp, Network.** Each handler of the two clients is an action, with the network
and the servers around them. A datagram may be lost, be delivered late and be delivered
again; a reply knows only whether it belongs to the current transaction. Allocation may
fail. Leases are counted in coarse ticks as in the code; the duration of back-offs
and SNTP delays is left open. `tries` stops where the code no longer distinguishes it.
As configured here the link is up and its changes are not reported, addresses are not
probed, one time server is resolved by name before each request, and nothing of an SNTP
answer but its form is checked. A NAK leaves the timers of the old lease running: T1 may
then expire in REQUESTING and put the client into RENEWING without an address. No
server answers that request; T2 or the end of the old lease leads out of it, which is
part of what `AddressComesBack` shows.

## 3. Runs

| Run | Instance | What it shows |
|---|---|---|
| `system` | 2 cards at any time, frames of 1 or 2 lines, mail and camera may fail; 328,000 states | Buffers quoted by a mail are never rewritten under it (`IdStable`, `BitmapStable`); lock depths equal sessions (`LocksCountSessions`); `OneAccessPerSwipe`; `CompressesOwnPhoto`; `OpenDoorIsTimed`; both client contracts. For users who wait their turn, the purpose of the program: `DoorOpensForSwipedCard`, `MailMatchesAccess`, `MailIsSent`. Progress: `AccessCompletes`, `DoorCloses`, `LocksReleased` |
| `web` | 1 card, 2 web requests, 2 addresses, failures; 646,000 states | `ListExclusion` while requests interleave with an access and its mail |
| `magnetic` | tracks of up to 5 characters over 6 symbols, 2 cards, 2 resets, disabled at any time; 743,000 states | `ValidIsWellFormed` against a reference definition of a track; Magnetic implements CardReader |
| `camera` | 2 rows of 1 pixel, 2 pictures, lines and frames of any length up to one more than double; 369,000 states | `RowsInPlace`, `CopyInBounds`, `CopyIsStable`, no false alarm (`NoFalseAlarm`: the driver gives up only if the sensor was out of step), OV7670 implements Camera, `WaitEnds` |
| `smtp` | 11 chunks, 12 to 16 bytes, send buffer of 2 bytes, picture of 3, timeouts of 3 and 4 polls, any server; 20,000 states | `BodyInOrder`, `OkMeansWhole`, SmtpSession implements Mailer, `SessionEnds`; and, with a prompt server, `Delivered`: neither a full buffer nor an empty time string stalls the mail |
| `kernel` | 3 tasks and idle, 2 mutexes nested to depth 2, 1 semaphore; 142,000 states | `RunsMostUrgent`, `PriorityInherited`, `ListsConsistent`, `NoTimeSlicing`, Kernel implements Rtos |
| `setup` | the real table of 5 registers and queue of 16, a message every 10 ticks, door open for 7; 27,000 states | `FiresOnTime`, `WireCarriesTable`, `ReadyMeansConfigured`, `CameraBecomesReady` |
| `network` | 1 address, lease of 4 minutes, 2 replies in flight, 1 refusal or failed allocation; 128,000 states | `AddressHasLease`, `SntpChain`, `AddressComesBack` |
| `v_send_error` | violation | a send that fails at once leaves Task3 with three mutexes |
| `v_recipient` | violation | the recipient is rewritten under a session |
| `v_stale_card` | violation | the track is read after it has become invalid |
| `v_time_acked` | violation | the time strings change while TCP refers to them |

The last four are the project's findings; `PROJECT.json` quotes for each the comment
or line the code disagrees with. Two more are visible without a run: `compareArrays`
never compares the first digit of a card number, and the body callback path of
`smtp.c` never restarts the session's timeout, which the comment at line 73 says every
successful write does. `MailMatchesAccess` and `DoorOpensForSwipedCard` are about users
who wait their turn (`~impatient`) and fail without that condition: Task2 announces a mail
and goes on, so that with a second card in quick succession a mail carries the number
of one access and the picture of another. For everybody hold the properties without the
condition: the buffers stay as they were at the send (`IdStable`, `BitmapStable`), what is
compressed is of this access, and each of two overlapping sessions gives its own locks back.
`OpenDoorIsTimed` says that an open door will be closed, not for how long it stays open:
the timer of the previous access may close it at once.

*Bounds.* Two cards are what it takes for an access to meet the mail of the previous
one, or to find what it left behind. `Cards[]` has two slots,
one used and one empty, because the search treats them differently. Two lines per
frame make a first and a last line, and frames without the last one. Five characters hold the shortest valid track
(start, separator, end, LRC) plus one digit, and `MCMagnetic` chooses digits that
make the LRC of some tracks equal to a sentinel and of others to a digit. A line of
`MaxWords` words is long enough for two full DMA rounds, and a frame of `MaxLines`
lines exceeds the rows. The picture of three bytes is larger than the send buffer, so
that it is resumed; all other chunks are one byte, and the times none or two, so that
a chunk fits, just fits or does not fit behind what is in flight. The three timeouts
differ, so that a wrong one shows. Two mutexes are needed for a chain of waiting tasks and for an
owner that keeps one inherited priority when it loses another; one count of a semaphore
is enough to tell a pend that blocks from one that does not. The door's period is not a
divisor of the queue's, so that their ticks coincide and miss each other. The lease of
four ticks lets T1 and T2 expire once each and T1 survive a NAK; with two faults
(`MaxFaults = 2`, 319,000 states) the run passes as well. `SpareTimeouts` is what lwIP's
own six cyclic timers leave of the pool of ten; SNTP uses at most two. Beyond `MaxSwipes`, `MaxEdits`,
`MaxCtr`, `MaxNest` and the bounds on the network, no bound is a guard of an action.

*Deadlock.* Not checked in `system`, `web` and `magnetic`: with every card used, a
failed camera or a leaked mutex the tasks wait for ever, as the code does; nor in the
runs of SmtpSession, where one mail is all there is. Checked in all others.

*Fairness* (`FairSpec`). Weak fairness of each task: the processor always runs the
most urgent ready task. Weak fairness of the camera's interrupts and of the tick:
the sensor and SysTick are free-running. Strong fairness of `mySMTPresult`:
`smtp_tcp_poll` counts a session down to its time-out, so every session ends, but the
callback runs only in one part of Task3's loop. Nothing is assumed of users or of web
requests. In OV7670 the sensor, the interrupts and TaskStart are weakly fair. In
SmtpSession a callback that has started ends (weak), and poll is called by lwIP's
timer however many other callbacks there are (strong); this is what `SessionEnds`
needs and what justifies the strong fairness of `mySMTPresult` above. A
`prompt` server acknowledges and answers (weak); of any other nothing is assumed. In
CameraSetup the tick recurs, a byte on the wire ends, and TaskStart, then the only task,
goes on (weak). In Network Task3 goes round its loop and minutes pass (weak), and of the
DHCP datagrams sent again and again not every one is lost (strong): the server offers and
grants, and its replies arrive. Nothing is assumed about NAKs, SNTP or DNS.

## 4. Proofs

`SecuritySystemProofs` proves, for any list, any number of cards, requests, lines,
sessions and failures:

| Theorem | Property |
|---|---|
| `TypeCorrect` | `TypeOK` (proved only, no run) |
| `LocksCorrect` | `LocksCountSessions` |
| `ListExclusive` | `ListExclusion` |
| `SwipesPay` | `OneAccessPerSwipe` |
| `PhotoFresh` | `NoStalePhoto` (proved only, no run) |
| `IdIsStable`, `BitmapIsStable` | `IdStable`, `BitmapStable` (action properties) |
| `OwnPhoto` | `CompressesOwnPhoto` |
| `DoorTimed` | `OpenDoorIsTimed` |
| `ReaderClient`, `CameraClient` | `KeepsReaderContract`, `KeepsCameraContract` (refinement) |

The assumptions are those of the modules: `SystemAssumption`, `DigitAssumption`,
`FrameAssumption`.

All rest on one inductive invariant, `IInv` (`InitIInv`, `Inductive`), because none of
the properties is inductive alone. Its parts:

* `TypeOK`, and `ShapeInv`: kernel objects are well formed (nobody waits for a free
  semaphore or mutex);
* `WaitInv`: a task's program counter tells which pend it last made, so it can only be
  in that list;
* `LockInv`, *lock depths*: for each mutex and task, how deep the task is in it, as a function of
  its program counter and, for Task3, of the sessions and failed sends. This is
  `LocksCountSessions` together with its counterpart for Task2; mutual exclusion of
  the two follows;
* `CameraInv`: the camera's state, a pending request, the captured lines, the
  semaphores and Task2's program counter agree. In particular, while a picture is on
  its way Task2 waits inside `bitmap_mutex`, and when Task2 runs TaskStart has copied
  every line. That is why `BitmapStable` holds although TaskStart takes no mutex;
* `SwipeInv`: accesses granted, plus one if the state Task2 is about to act on is a
  valid swipe, do not exceed the valid swipes delivered.

Three theorems need a further invariant, proved on top of `IInv`: `OwnPhoto` that the
rows copied so far, and until they are encoded all rows the sensor sent, are of the access
served (`PhotoInv`); `ReaderClient` that `reading` is false from the second store of
`disable_reading` to `enable_reading`, whatever the state (`ReaderInv`); `DoorTimed` that an open
door has a running timer or Task2 is about to start it, which is inductive by itself.

`TurnProofs` adds what the application is for, also for any number of everything:

| Theorem | Property |
|---|---|
| `DoorForSwipedCard` | `DoorOpensForSwipedCard` |
| `MailForAccess` | `MailMatchesAccess` |

Its invariant `TurnInv` (`TurnInvariant`) is proved on top of `IInv` and follows a card
number from the reader to `id[]` (`TrackInv`, `SwipeTurn`), and number and picture from
the grant to the send (`AccessInv`, `MailTurn`); `SwipeTurn` includes that no other card is
in the reader while it is being disabled. `MailTurn` is the heart of it: from the
post of `send_email_sem` to the call of smtp.c Task2 gets no further than waiting for
the next card. Only the condition `~impatient` makes it so.

`OV7670Proofs` proves, for pictures of any number of rows and columns, any number of
pictures and a sensor that sends any lines and frames (`SensorAssumption`):

| Theorem | Property |
|---|---|
| `CameraTypes` | `TypeOK` (proved only, no run) |
| `CopyStaysInBounds` | `CopyInBounds` |
| `CopyAlwaysStable` | `CopyIsStable` (action property) |
| `PictureRowsInPlace` | `RowsInPlace` |
| `NoFalseAlarms` | `NoFalseAlarm` |
| `DriverImplementsCamera` | `DriverKeepsContract` (refinement) |

The inductive invariant `CameraInv` (`CameraInvariant`) gives the position of the DMA and
the state of its interrupt as a function of the word the sensor is at (`DmaAt`), the words
of the current line that are in `aux_buffer` (`Filling`, `Filled`), the pixels that have
been copied (`Copied`), the turns of TaskStart and the DMA (`LineSem`, `CopyTurn`) and what
a sensor must have done for the driver to be out of step with it (`Glitches`). `RowsInPlace`
alone says nothing about a line under way. It also needs `Counted`, that the driver's rows
at the end of a frame are those of the lines sent.

`MagneticProofs` proves, for any set of cards and any number of swipes and resets:

| Theorem | Property |
|---|---|
| `OfferedCardIsWellFormed` | `ValidIsWellFormed` |
| `DriverImplementsReader` | `DriverKeepsContract` (refinement) |

`ReaderInv` (`ReaderInvariant`) says what each state of the table knows of the track read
so far (`TrackOfState`) and that no error has been met while characters are collected
(`Offered`). The contract needs a different one, `ContractInv`: `content[]` holds characters
of cards only, because a character is complete at its fifth bit. Then every clock edge is a character, an error or nothing to the client
(`ClockRefines`), and the enable line and the calls map one to one (`EnableRefines`,
`CallRefines`). With `ReaderClient` both halves of the contract are proved. Both need
`MagneticAssumption` only.

`SmtpSessionProofs` proves, for any mail, send buffer and timeouts:

| Theorem | Property |
|---|---|
| `MailerContract` | `KeepsMailerContract` (refinement) |
| `MailInOrder` | `BodyInOrder` |
| `ReportedMailIsWhole` | `OkMeansWhole` |

The invariant `ReportInv` of the first, which needs no assumption, says that the connection
refers to the session exactly until the session has reported. The contract follows action
by action: only a callback with a session behind it reports, and the same step takes the
session away. The other two need `SizeAssumption` (a chunk has one to 65535 bytes;
of the picture the code only hopes so, see the hazard at `main.c` 816) and `BodyInv` (`BodyInvariant`): at any point of `smtp_send_body`, the bytes
written are in order (`InOrder`), the rest of the last chunk comes right after them, and
every byte of the chunks produced so far is in one of the two (`Complete`). The operators
take the state of the generator as arguments because one step of the model produces a
chunk and writes part of it.

`CameraSetupProofs` proves, for any number of timers, any periods and queue size:

| Theorem | Property |
|---|---|
| `TimersFireOnTime` | `FiresOnTime` |
| `WireAlwaysCarriesTable` | `WireCarriesTable` |
| `ReadyAfterConfiguration` | `ReadyMeansConfigured` |

`TimersInv` (`TimersInvariant`) says who owns a timer and, store by store, how far
`timerStart` has come (`Halfway`): from the third step on the timer is stopped, in memory and
in the byte that has been loaded, so a tick in between changes nothing that the next store
would undo. It needs `TimersAssumption` and `SetupAssumption`. `SetupInv` (`SetupInvariant`) is
proved on top of it and says that two things that nothing in the code makes wait are
early enough. TaskStart is ahead of the timer of the queue until the table is queued
(`QueuedInTime`: the ticks counted cost it `TICK_STEPS` steps each), and a message on the
wire is ahead of its next one (`Sending`: at most one tick per byte). Both are inductive
only together with where TaskStart is and what the queue holds (`Places`, `TableQueued`),
that no other timer sends messages (`OneSender`) and that the bytes sent so far are those of
the table (`OnWire`). `PaceAssumption` is what they ask of the constants: the queue has
room for the table, the period is of four ticks at least, and TaskStart needs less than a
period for the table. The code has 16 cells for 5 messages, ten ticks, and 120,000 cycles
between ticks.

`NetworkProofs` proves, for any addresses, lease times and number of datagrams, faults and
queries (`DhcpAssumption`, `SntpAssumption`):

| Theorem | Property |
|---|---|
| `AddressAlwaysLeased` | `AddressHasLease` |
| `SntpChainNeverBreaks` | `SntpChain` |

`NetworkInv` (`NetworkInvariant`) is the conjunction of `LeaseInv`, that the client counts its
lease at most a tick behind the server, which in turn needs every ACK on the network to be
of a grant a tick ago at most, and of `ChainInv`, that timeouts, queries and datagrams
belong to a client that has been started.

`KernelProofs` proves, for any mutexes and semaphores (`KernelAssumption`); the three tasks
and their priorities are those of `main.c`:

| Theorem | Property |
|---|---|
| `KernelCorrect` | `KernelInv`, the inductive invariant |
| `RunsMostUrgentAlways` | `RunsMostUrgent` |
| `PriorityInheritedAlways` | `PriorityInherited` |
| `ListsConsistentAlways` | `ListsConsistent` |
| `NoTimeSlicingAlways` | `NoTimeSlicing` |
| `KernelImplementsRtos` | `ImplementsRtos` (refinement) |

`KernelInv` says that ready and pend lists hold the tasks their control blocks name, in
order (`RdyOK`, `PendOK`), that owners and mutex groups agree (`OwnersOK`, `GrpOK`), that
a task has the most urgent of its own priority and those of the tasks waiting directly for
its mutexes (`InheritOK`), and that a most urgent task runs, or is switched to, or the
running one is about to call `OSSched` (`SchedOK`). `InheritOK` is `PriorityInherited`
written without a minimum; that it holds along a chain of owners is where the work is.
Each kernel function has a lemma about its result. The one with a loop, `OS_TaskChangePrio`, needs no induction: a turn raises an
owner to the priority of the caller, no owner is raised twice, and there are three tasks;
so three turns are enough and the proof unrolls them. `NoTimeSlicing` follows because of two
ready tasks neither can have inherited the priority of the other (`ReadyAtBase`).
`KernelImplementsRtos` adds (`LockInv`) that tasks outside `lockers` wait for no mutex and
own none. Then only Task3 is ever raised, to Task2's priority and while Task2 waits, so
inheritance changes the order of no two ready tasks.

TLC has checked each of these invariants on the instance of the run that goes with it.

*Only model-checked:* liveness (`AccessCompletes`, `DoorCloses`, `LocksReleased`,
`MailIsSent`, `WaitEnds`, `SessionEnds`, `Delivered`, `CameraBecomesReady`,
`AddressComesBack`): the prover does not support fairness. Every other property of a passing run is stated by a theorem.

## 5. Not modelled

* The ways of sending a mail that the program does not use (a body in memory, a server
  name that needs DNS), the texts of commands and mail, base64 and JPEG.
* The duration of a timeout: SmtpSession counts polls. (By the code's formula the two
  minutes of the comment at `smtp.c` 79-83 are 240 polls of two seconds.)
* In SecuritySystem the camera's configuration is the one event `I2C_finished_callback`
  and the door timer a flag; CameraSetup has both in full. What it leaves out is not
  reached: the I2C read path, NACKs (compiled out), `timerStop`, `timerExpired` and
  `timerDelay`.
* The kernel's time-outs, deletion, aborts, queues, flags and its own tasks, which the
  program does not use.
* DHCP's INIT, REBOOTING and CHECKING states, DNS itself, several time servers. That the
  time is set again and again: SNTP's liveness follows from `SntpChain`, a pending
  timeout or query at all times, and from timeouts expiring; checked directly with both clients
  together it is beyond TLC.
* Start-up before the tasks exist; start-up of lwIP is the action `StartNetwork`.
* `AreaCGIhandler` writes an array nobody reads; `UpdateCGIhandler` logs;
  `mySSIHandler` and the LED's PWM format or configure.
* Writes outside `content[]` by an overlong track, or outside `Cards[]` by a request with
  more parameters than the form has fields: their effect depends on the memory layout.
* Leases without end (0xffffffff seconds, for which `dhcp_bind` sets no timer): an address
  that never expires needs none of what AddressHasLease is about.
* What the rows below a frame that ended early hold, apart from not being of this access.
* base64 and JPEG: pure functions of a buffer, for which a unit test is the better tool;
  their lengths reach SmtpSession.
* Vendored and generated code. Of the 278,000 lines under `src/` about 3,600 are the
  program's own; the rest are device headers, CMSIS, board and Ethernet drivers, lwIP,
  uC/OS-III with ports for other compilers, and an unused example. The models cover the
  program's own logic and those parts of lwIP and uC/OS-III its behaviour hangs on;
  register definitions, drivers of peripherals and protocols below SMTP, DHCP and SNTP
  carry no property of this system that is not about their own correctness.

## 6. Plan

1. SecuritySystem with SmtpSession in place of Mailer: whether `bitmap_matrix` and `id[]`
   stay unchanged until TCP has the acknowledgement, also for sessions that end early.
