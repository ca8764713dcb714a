# Luat Air200: models and proofs

The repository is the firmware of the Air200 GSM module: a closed modem stack, a
C platform layer that runs a Lua 5.1 interpreter in a task of its own
(`src/core/cust_src/elua`), and a library of Lua scripts (`src/script/new/lib`)
on which applications are built.  This directory holds TLA+ models of its core
logic, configurations that check them with TLC, and theorems about them that
TLAPS checks.  `PROJECT.json` lists for every definition the lines it stands for.

Paths below are relative to `src/script/new/lib` for Lua and to
`src/core/cust_src/elua/platform/coolsand/src` for C.  The Lua comments are in
GBK.

## 1. The system

### How it runs

One task runs all Lua code.  `sys.run` takes one message at a time from a queue
(a timer, data on a UART, a key, ...), after it has handled every internal
message that `sys.dispatch` has queued, and calls a handler; the handler runs to
its end.  So Lua handlers are atomic towards each other, with one exception that
decides much of the design: `atcreader` reads lines from the modem *in a loop*,
while the modem, in another task, goes on writing them.  Below Lua, the callbacks
of the operating system (timers, audio, UART interrupts) and the modem's task run
concurrently with the Lua task and share tables and buffers with it.

Handlers call each other synchronously: an application that is told of an event
by `link`, `sms`, `mqtt` or `audio` usually calls back into the same module from
inside the notification.

### Components

| component | state | operations | interacts with |
|---|---|---|---|
| AT channel, `ril.lua` | command queue, command in execution, its intermediate data, response time-out, delay timer, filter of received payload | `request`, `sendat`, `delayfunc`, `atcreader`, `procatc`, `rsp`, `atimeout`, `setransparentmode` | virtual UART below; every module that talks to the modem above |
| Sockets, `link.lua` | state of each socket, its waiting connect and its timer; state of the IP network, shuts under way or put off | `open`, `connect`, `disconnect`, `close`, `send`, `shut`, result and report handlers, timers | `ril`; owners (socket, mqtt, update, dbg, ntp) by callbacks; internal messages |
| Virtual AT port, `platform_uart.c`, `cycle_queue.c` | cyclic buffer with three flags, read buffer, semaphore, messages | `RILAPI_ReceiveData`, `vatc_read`, `QueueInsert`, `QueueDelete` | the modem's task and the Lua task |
| Timers, `sys.lua`, `platform_rtos.c` | `tpool`, `para`, `loop`; 30 slots, semaphore | `timer_start`, `timer_loop_start`, `timer_stop`, `timer_stop_all`, `timerfnc`; start, stop and the callback below | Lua task and callbacks of the operating system |
| Main loop and messages, `sys.lua` | applications in the order of registration, queue of internal messages | `regapp`, `deregapp`, `dispatch`, `run` | everything |
| Boot loader, `shell.c`, `preload.c` | files in the file system and in the flash image, update package, mark of integrity, tables of files read in place | `load_luadb`, `parse_luadb_data`, end of the Lua task | the program, through `lualibc_fopen`; `update` by the package |
| User sockets, `socket.lua` | send buffers, connection state, retries | `connect`, `send`, `disconnect`, `close` | `link` |
| TLS, `linkssl.lua`, `socketssl.lua` | as `link` and `socket` | as `link` and `socket` | `ril`, `link` (network) |
| MQTT, `mqtt.lua`, `mqttdup.lua` | sessions, packets to be acknowledged, keep-alive | `connect`, `publish`, `subscribe`, `disconnect`, reconnection | `socket` |
| Short messages, `sms.lua` | messages to send, indices of new messages | `send`, `read`, `delete` | `ril` |
| Calls, `cc.lua` | call list, polling | `dial`, `hangup`, `accept` | `ril` |
| Upgrade, debugging, time, `update.lua`, `dbg.lua`, `ntp.lua` | position in a protocol with retries | timers, link callbacks | `link`, which they keep from shutting the network |
| Parameters, `nvm.lua` | parameters in memory and in a file | `get`, `set`, `sett`, `flush`, `restore` | file system |
| Network, SIM, power, `net.lua`, `sim.lua`, `pm.lua` | registration, cells, wakers | reports, `wake`, `sleep` | `ril` |
| Audio, `audio.lua`, `record.lua`, `platform_audio.c` | the sound being played, its priority, a stop under way; buffer of the player | `play`, `stop`, record | `ril`; a callback of the audio driver |
| GPS, `gps.lua`, `agps.lua` | users of the chip, queue of commands to it | `open`, `close`, write queue | UART, `link` |
| Physical UARTs, `platform_uart.c` | three buffers and their flags | open, close, read, write, interrupt handlers | interrupts and the Lua task |

Vendored code (Lua, zlib, libpng, LZMA, JSON, iconv), fonts, the Windows
simulator, `script/old`, demos, documents and tools are not this system's logic
and are left aside.

### What is hard

* *Interleaving*: lines arrive while `atcreader` runs; a timer's callback and
  the Lua task meet at the slots; bytes arrive between any two bytes read.
* *Reentrance*: owners call back from inside notifications.
* *One stream*: answers, unsolicited lines and payload share a line stream in
  which some lines are ambiguous.
* *Time-outs and restarts*: a command without answer restarts the software; so
  does a connect without answer.
* *Late or crossing events*: `CONNECT OK` after a disconnect, `CLOSED` while a
  close is pending, loss of the network as answer of a send, a timer's message
  after the timer was stopped.
* *Limits*: 30 timers, a buffer that drops its oldest bytes.
* *Refusals*: of a shut, a close, a connect, the start of a timer.
* *Loss of power*: while parameters are saved, while a package is unpacked, while the
  files of a program are written again or removed.

`PROJECT.json` lists each hazard at its line, with the properties that cover it.
It keeps the forty that matter most; smaller ones seen in the survey are: `lbsloc`
overwrites the callback of the first request (295); `record` leaves `rcding` set after
a refusal (88); `ntp` takes a late event of an old link for the new (92);
`mqtt` computes the socket of a client from the number of clients (836); the end of
playing and a stop may both free the buffer of the player (`platform_audio.c` 29);
`uart.read` returns part of a line when it catches up with the modem (`uart.c` 173);
the pattern of `sendcnf` makes its branch for failed sends unreachable (`link.lua` 472,
modelled as it behaves); `ril` ignores a refused start of its time-out (474) and
`RILAPI_ReceiveData` a refused post (594).

### What makes each component correct

* AT channel: commands are executed once, in order, one at a time; an answer
  belongs to its command; payload is never parsed; nothing is forgotten.
* Link: every accepted call ends; the state shown to the owner is the modem's or
  about to be corrected; a waiting connect is requested in the end; no connection
  without a socket.
* Virtual port: a first-in first-out queue that drops its oldest bytes only when
  full, and whose reader is always woken.
* Timers: a timer is its callback and arguments; it fires once per time-out, never
  after it is stopped, and it does fire.
* Main loop: internal messages are handled before external ones, in order, by
  applications registered at the time.
* socket, sms, mqtt: each accepted item has exactly one outcome, in order.
* nvm: a parameter saved is there after a restart, whenever the restart comes.
* Boot loader: a program runs on the files of one installation, whatever was
  interrupted before, and some program does run.
* update: the package has its parts, in order, and the download ends.
* audio, dbg, ntp, cc: one activity at a time, and each request ends.

## 2. Plan

Order, most important behaviour first:

1. `AtChannel` (abstract), `Ril`, `RilProofs` - done.
2. `Link`, on top of what `AtChannel` promises; `LinkProofs` - done.
3. `CycleQueue` (what the receive buffers share), `DropFifo` (abstract), `VatRx`; `UartProofs` - done.
4. `KeyTimer` (abstract), `SysTimer`, `SysTimerProofs` - done.
5. `PortFifo` (abstract), `PhyUart`: the physical UARTs; their proofs in `UartProofs` - done.
6. `Nvm`: the file as a sequence of writes, a crash between any two; `RestartProofs` - done.
7. `Sms`, `Socket`: buffers of items with one outcome each; `SocketProofs`, `SmsProofs` - done.
8. `LuaBoot`, and `Update` composed with it; proofs in `RestartProofs` - done.
9. `SysLoop`: applications, `dispatch` and the main loop of `sys.lua`, whose
   removals are asynchronous while additions are made during a dispatch.
10. `Mqtt`: a client and the packets it retransmits (`mqttdup`), over sockets that
    may be lost; `MqttProofs` - done.
11. `Player` (`audio.lua` and the two sides of `platform_audio.c`).

No invariant that a run checks is without a theorem.  The modules have no `RECURSIVE` operator,
state their parameters with an assumption, and have one action per operation.

## 3. The modules

Every module is one component; where a definition has the name of the function it
models, the case differs only (`SendAt` is `sendat`).  A *slip* is an alternative
of a definition with a plausible mistake: no specification uses it, and
`PROJECT.json` names for each property the slip that must violate it.

### Ril: the AT channel

A Lua handler is one action, since it runs to its end; `atcreader` is `AtcBegin`,
one `ReadLine` per line, and `AtcEnd`, and `readat` holds in between, when no other
handler runs.  `ReadLine` has one disjunct per case of `procatc`.  `SendAt` is an
operator because `sendat` ends four handlers.  A request is its number (`n`), its
kind of response and whether it has a delay; a command's text, the argument of a
command and the response handlers are data, and a response handler is modelled by
whether it makes a request (`CallbackRequest`).

The modem is external: `ModemUrc`, `ModemPrepares`, `ModemAnswers`.  It executes one
command at a time, may leave it unanswered, and does not put other lines inside a
multi-line answer or between a `+RECEIVE` header and its payload; the code relies on
both (`procatc` swallows and filters by count).  Lines are abstracted to what
`procatc` distinguishes (`Tags`).  `Atimeout` restarts the software and with it the
modem; the history of a boot does not survive.

`AtChannel` says what the modules above rely on: tickets are executed one at a time
in their order, only malformed commands are dropped, a restart forgets all.
`ImplementsChannel` maps the queue without malformed commands to its queue.

### Link: sockets

A handler may call the owner, who calls `link` again; so what each function does is
an operator from the record `l` to `l` (`Connect`, `Close`, `ShutCnf`, ...), a
handler is a composition of them (`Rsp`, `Urc`), and an action applies it and ends
with `SendAt` unless the reader goes on.  Of `ril`, `Link` keeps what `AtChannel`
promises - one command at a time, in order - and the rules by which `procatc`
attributes lines (`IsFinal`), because they decide which handler sees a report.

Environment: `Execute` is the modem on its oldest command, `Connects`, `PeerCloses`
and `PdpDeact` its own events.  Assumptions: the query for network attachment
(`AT+CGATT?`) is answered outside the queue of commands (`CgattRsp`); the SIM is
present; at one notification at most one owner makes one call; a modem that is not
attached is asked again; after flight mode it is asked again.  `Crosses` says
whether an unsolicited report may be taken for an answer, as `Ril` shows it can;
`ShutFails` whether the modem may refuse `AT+CIPSHUT`.

`Habits` names what owners and the network may do that the module is not proof against.  `"late"`:
a connection succeeds after its owner has disconnected or closed it and before the modem has
heard of it; the socket is then `CONNECTED`, and a send that is accepted and a close remove it
before `sendcnf` comes, which indexes it (478).  `"hasty"`: a socket is closed in the handler that has
disconnected it, before its local event, which then removes it (492), with a send of an earlier
connection still under way.  `"deact"`: loss of the network is the answer of `AT+CIPCLOSE`,
and is then handled as the end of the close only (817).

### VatRx: the virtual AT port

One action is one turn of a loop of `QueueInsert` or `QueueDelete`, or what lies
between two of them, so that the tasks interleave wherever the semaphore lets them:
the flag `empty` is read inside the critical section and the message posted after it.
A byte is its number, which makes order and loss visible.  `DropFifo` is the abstract
queue; `Contents` is the refinement mapping, which anticipates that an insertion
that overran the tail will move it.  The message queue of the platform is taken as
reliable.

### SysTimer: timers

`Handler` is what any handler of the Lua task may do with timers, also from inside a
timer's callback (`running`).  `TimerStart` covers `timer_start` and `timer_loop_start`
up to the call of `rtos.timer_start`; `Armed` or `Refused` is the critical section of
`platform_rtos_start_timer` and what its caller does with the result.  The callback of
the operating system has two actions, `Expire` (it posts its message) and `CallbackEnd`
(it takes the semaphore and deletes the timer), since the Lua task may act between
them; the two callbacks, of normal and high priority, do the same.  A timer longer
than the largest step is one of two steps (`total`).  Loops longer than one step are
left out.

Assumptions: `HandlesReused = FALSE`, the operating system does not give out a handle
while a callback still has it (with `TRUE`, the callback may delete another timer, and
`ActiveIsPending` fails: the code's comparison of handles is only right under this
assumption, which the repository cannot settle).  Failures of `create_timer` and
`start_timer` are a `Refused`.  `pairs` visits a table in any order (`OneOf`).

`KeyTimer` is the promise: each callback with its arguments has one timer that is off,
armed, due or running its callback.  `ImplementsTimers` holds up to the first refused
start; what a refusal leaves in `tpool` looks like the timer of the same callback
without arguments, and from then on `timer_stop` may stop the wrong one.

### PhyUart: the physical UARTs

Two ids, 0 and 2, are one port (`PortOf`), with one buffer, one handler and one read
buffer, but each id has its own mode and is opened and closed by itself.  `Interrupt` is
the handler with its whole burst, as interrupts are not interrupted by the Lua task;
`Refill`, `DeleteByte`, `DeleteLast`, `DeleteEnd` are the turns of a deletion, during
which `uart_phy_read` holds the receive interrupt off (`masked`).  The insertion
(`PutBytes`) is a recursion over the bytes of a burst.  `PortFifo` is the promise: a queue that
gives up its oldest bytes only when full and everything only when the port is switched
off.

Assumptions: a burst is shorter than `Lengths`, the width of the counter of bytes (256 in
the code): a burst of exactly that length counts as none and is lost, and nobody is
woken (`platform_uart.c` 215; the buffer it is read into has that size).  The callback of
the host UART, which unlike the interrupts is not held off, does not preempt a deletion;
if it does, the flags become wrong, as the comment at line 226 fears.

### Nvm: parameters

`Load` is `init` and `load`; a parameter is a number or a table of fields.  The file is
what has been written of it: `SaveIf` truncates, `WriteHeader`, `WriteLine`, `Close` write,
and a `Crash` between any two leaves any prefix of what was written, which may cut a
number short (`CutNumbers`: 12 becomes 1).  A table of the configuration and its copy in memory are
the same Lua object after a restart without a file (`shared`), so that changing an
element of one changes the other; the model keeps that.

A file cut within a table cannot be parsed; the start of the program then fails and the
loader restarts, removes the file and goes on (`broken`).  Seen while modelling: `set`
compares tables by the keys of the value that is there (157), so that a new field alone is
not noticed; a value changed by an unsaved `set` and set again with saving is not written
(161); after `sett`, `restore` gives values that are not those of the configuration, which
the comment at line 29 promises, as `sett` has changed them in the object that both share
(91); and a number that a crash cut short is taken as it is.  `FileIsMemory` names the exceptions
(`unsaved`, `Altered`).

### Sms: short messages

`Send`, `SndNxt`, `RspCmgs`, `SendCnf` are the way out; `Cmti`, `NewSms`, `ReadFirst`,
`ReadCnf`, `RspCmgr`, `RspCmgd` the way in.  Results and reports travel as internal
messages (`qmsg`), which the main loop hands over in order.  A send may be made by a
program, or inside the callback of another's result.  A message has one or more parts,
each with its own answer.

`Habits` names what programs and the network may do that the module is not proof against;
TLC shows each of the first four to break `Inv`: a message put in front of the one being sent
(`"first"`; `send` inserts at any index, 481-496, and `sendcnf` removes the first), a send
from a result's callback when the buffer is empty (`"chain"`), a send to an empty buffer
while `SMS_READY` is on its way to `smsapp` (`"early"`), and a modem that reports `SMS READY`
twice (`"again"`): in each the first of the buffer is sent twice, or a result is told of the
wrong message.  With `"noread"` the reading of a new message may fail; its position then stays
at the head of the list, and no later one is ever read (223): `Inv` holds, `NewIsShown` does not.
`send` returns nil when it has only queued the message (495; the comment at 476 promises
a Boolean).  The run has no habits and shows the rest.

### Socket: items of a program

`s` is the state of one socket and `conn` that of its connection with the modem.  As in
`Link`, a function is an operator on `s`; a callback of the program may do one thing
(`React`).  Of `link` it has what decides what `socket.lua` sees: the states, which calls are refused, and
one command at a time.  The result of a send comes with no name: it belongs to
`sndingitem`.

`Habits` again: to send again from within the callback of a failure (`"redo"`), to close
(`"close"`), to connect inside a notification of failure (`"answer"`), a notification that
crosses a call (`"cross"`), and a voice call during which the link refuses what `send`
reports as accepted (`"call"`): under each an item is lost without a result.  The number
of retries is counted from one, so that nothing is ever sent twice (133); items that wait
when the program disconnects stay in the buffer until it connects again.

### Mqtt: a client and its retransmissions

`m` is the state of `mqtt.lua`, of `mqttdup.lua` and of what they need of `socket.lua` and
`link.lua` below; functions are operators on it, as in `Link`, and a callback to the program
is left as the last thing that a handler does.  `Reconn` is `reconn`, which shuts the network
and connects every client, `Ntfy...` are the branches of `ntfy`, `Ins`, `Rmv`, `RmvAll`, `Rsm`
those of `mqttdup`.  The modem keeps its promise of `AtChannel` (one command at a time, in
order: `cmds`); `Transmit` lets the data of a send arrive, and be answered, before the modem
says so.  The server may answer a packet, or never, and may refuse.

Three timers belong to a client: of the next attempt (`treconn`), of the next ping (`tping`)
and of a ping without answer (`tdisc`).  `datinactive` restarts the software when nothing
comes from the server for three times `keepalive` (`DatInactive`); `NobodyWaitsForEver` does
not count on it.  `wants` says that the program has asked for a connection and has not been
told by `sckerrcb` that there is none.  A publish is `"lost"` when its connection is gone
before its result, which `mqtt.lua` never tells the program.

`Cases` names circumstances in which TLC finds that a client is not connected again, or is
when it should not be: the program disconnects one that is not yet connected (`"early"`:
`sckconning` stays set) or connects one that is disconnecting (`"redo"`); the timer of a ping, which
the loss of its connection does not stop, finds the next one not yet made (`"lateping"`: it
sends, which connects, and the attempt is then cut by `reconn`); the server closes a connection
during a send, `discing` being set (`"midsend"`: `reconn` is passed over, see below, so the send is
still without a result when the program connects again, and its failure then cuts the attempt by a
shut); the network is lost during `AT+CIPSTART` (`"deact"`: as with two clients, below).

One way in which a client is not connected again is no special case, but part of what is checked and
proved, and named in the properties.  `ntfy` takes a close by the server for the end of a disconnect if
`discing` is set (562): it clears it, calls `discb` if there is one, and passes `reconn` over.  `discing` is set
when the disconnect begins (354) and cleared here and in the branch of the disconnect with the tag
`"USER"` (585) only.  After a disconnect without the tag - a ping was not answered (401), or the program's
`DISCONNECT` was sent (457) - `reconn` connects again (587) with `discing` still set, and a close of
that connection, or one that crosses the `AT+CIPCLOSE`, leaves the client `CLOSED` without a timer until
`datinactive` restarts the software, the program connects it, or a shut of the network comes along.  (Until
then `getstatus` says `"DISCONNECTING"` of the healthy connection, 1027.)  `PeerCloses` lets the server
close at any time; the history variable `dropped` marks such a close until the next connect, and
`Dropped` is the exception that `NeverStuck` and `NobodyWaitsForEver` state.  Without it TLC finds
`NeverStuck` violated after twelve states.

Seen while modelling and modelled as it behaves: the tag of the user's disconnect is kept only
if the `DISCONNECT` packet is refused (`mqttsnd`, 457), so after one that was sent the client is connected
again, and `discb` is called only if it is then closed; a failed send only shuts the network (538), and
the callback of the publish is never called; a `PUBACK` or `CONNACK` that comes before the
modem's `SEND OK` finds no entry, and the packet is sent again.

### LuaBoot and Update: scripts, packages and downloads

`LuaBoot` has one action per file: `AddItem` for a file read in place, `Skip`,
`WriteBegin` and `WriteEnd` for one that is unpacked or copied.  Memory is lost at
`Off`; the file system (`fs`), the package (`bin`) and the mark (`flag`) are not.
`PowerLoss` may come between any two steps; `ParseFails` is a file that cannot be
unpacked or written.  When a program ends (`Exit`) its files are removed one by one.
`base` is a history variable: the version that each file should have.

`Update` is the program that runs in between (`pc = "run"`) and writes `bin`; datagrams
are lost, late and repeated, and also come to `recv` when the link has been closed by
`upend` but not yet by the modem (`RecvIdle`), where they set `updsuc` back (update.lua 232).

`Habits`: `"copy"`, packages with files that are copied, or of both kinds; `"rekind"`, a
file that is compressed in the package and read in place in the flash, or the reverse;
`"repair"`, loss of power while the files of the flash image are written a second time
or removed (the mark then still says that they are complete); `"full"`, failures while
they are written (the mark is set all the same).  Under each, `Consistent` or `Runs` is
violated; the passing run and the theorems are about the other cases (`Careful`).

A program may download a package over the one that it reads in place; `Consistent` is
about programs whose package is there (`Undisturbed`).

## 4. The runs

| run | configuration | shows |
|---|---|---|
| `ril` | 3 requests besides the 2 of the boot, 3 unread lines, 1 unsolicited line, payloads of 2 lines; restarts | `Inv`, `InOrder`, `OneInFlight`, `PayloadIsFiltered`, `NoLostWakeup`, `ImplementsChannel`, and `QueuedIsServed` under `FairSpec` |
| `link` | 1 socket, 6 calls of every kind, disconnect and close inside notifications, 1 event, crossing reports, loss of the network as answer of a close, refused closes and shuts | `Inv`, `ConnectIsGuarded` |
| `link_network` | 2 sockets, 4 calls of every kind, connect inside notifications, 1 event, shuts, no crossing, no refused shut | `Inv`, `PendingWillGo`, `ConnectedIsReal` |
| `vatrx` | buffer of 3, chunks of 2, bursts up to 5, 9 bytes | `Inv`, `NoLostWakeup`, `ImplementsFifo`, `BytesAreRead` |
| `sys_timer` | 1 callback with and without an argument, 3 timers, 3 calls, 2 slots, 3 handles | `Inv`, `ImplementsTimers`, `TimersFire` |
| `phy_uart` | a port with two ids and the host, buffer of 3, bursts that overrun it | `PhyInv` (with `PhyNoLostWakeup`), `NewestIsKept`, `ImplementsPort`, `PhyBytesAreRead` |
| `nvm` | two numbers, a table of two fields, 2 crashes | `NvmInv`, `Recovers` |
| `sms` | 3 sends of up to 2 parts, 3 arriving messages in 2 positions | `Inv`, `ResultIsOwn`, `EverySendIsTold`, `NewIsShown` |
| `socket` | 4 items, calls from inside callbacks, failures, a shut network | `Inv`, `ResultIsTrue`, `EverySendIsTold` |
| `update` | 2 compressed files and one read in place, 1 version besides the flash, 2 parts, 2 faults, both modes | `Inv`, `Consistent`, `RemovedWhenDone`, `Runs`, `Installs`, `DownloadEnds` |
| `mqtt` | 1 client that connects once, 1 publish, 1 attempt a cycle, 2 cycles, 2 retransmissions, 2 events, `"midsend"` | `Inv`, `NobodyWaitsForEver` |
| `mqtt_two` | 2 clients that connect | violation of `ConningIsTrue` |

`Inv` is in each module the conjunction of its type invariant and of the invariants that
are only meaningful together; the parts are named and commented one by one.

Bounds and why they are enough.  `Ril`: three requests put a delayed command, one
behind it and one made inside the reader into the queue at once; three lines hold an
answer of several lines or a header with its payload; a restart resets the counters, so
behaviours are not cut at a number of restarts.  `Link`: six calls are an open, a connection with a send, and its end with a
second connection or a second close, which is what the two ways to lose the socket of a send take
(five calls and six, `Habits`); two sockets suffice for the network,
whose handlers treat the sockets alike.  `VatRx`: a burst of five overruns a buffer of
three when it is empty, partly full or full, and a chunk of two leaves a rest; nine bytes
go round three times.  `SysTimer`: with two slots a third start is refused; three calls
are start, stop and start again of one name, or three timers, at every point of three
callbacks.  `PhyUart`: every order of opening and closing the two ids and the host with
a burst before, between and after.  `Nvm`: two crashes are one during a save and one
during the save that repairs it; two numbers are one that is cut and one that is missing.
`Sms`: of three messages one is under way, one waits and one is refused or sent from a
callback; three arriving messages reuse a position.  `Socket`: an item under way, one
pending, one sent from its callback and one after the reconnection.  `Update`: of two
compressed files one is written and one is not when power is lost; a second fault meets
the recovery from the first; two parts are a first and a last.  `Mqtt`: two events are a
loss and a second one during the recovery from it, or one of the program, the server or the
modem that meets it; one attempt a cycle and two cycles are an end of a cycle
with another to follow and one without (the code has three of each), and two retransmissions are
one that is armed again and a last.  No symmetry is used.

`CHECK_DEADLOCK FALSE` is set in every configuration: an idle system, whose
applications make no further call and whose modem is silent, stops.

The `violation` run is a disagreement between a comment of the repository and the code.
`sckconning`, says the comment at `mqtt.lua` 478, means that a connect is being tried, and
`reconn` does nothing while it is set.  But `connect` sets it whatever the socket does (761), and
`reconn` of one client calls it for all of them after it has shut the network: a second
client that is connected, or whose `AT+CIPSTART` is under way, is told `SHUTED`, finds
`sckconning` set and does not connect again.  Only `datinactive` ends this, by restarting the software.  For the same reason the run `mqtt` has one client.

The passing runs exclude, by a constant, what was seen to break their properties while
modelling; each can be had back by changing the constant.

* `ril.lua` 339, `ClosedUrc`: `n, CLOSED` that crosses `AT+CIPCLOSE=n` is taken for its
  result, and the next command is written while the modem executes the close (violates
  `OneInFlight`).
* `link.lua` 559, `Reactions`: `statusind` and `closecnf` stop the connect timer after they
  have called the owner, so that of a connect made in the notification as well (violates
  `ConnectIsGuarded`, which the comment at line 41 promises).
* `link.lua` 551, `Habits`: a `CONNECT OK` that arrives while the socket is disconnecting
  (`"late"`) leaves it `CONNECTED` (violates `ConnectedIsReal` and, five calls on, `SendHasLink`).
* `link.lua` 359, `Habits`: a close between a disconnect and its local event (`"hasty"`) removes a
  socket whose send is under way (violates `SendHasLink`).
* `link.lua` 817, `Habits`: loss of the network as the answer of `AT+CIPCLOSE` (`"deact"`) leaves
  the other sockets `CONNECTED` (violates `ConnectedIsReal`).
* `link.lua` 602, `ShutFails`: after a refused shut, a connect that waited for it waits for
  ever, without a timer (violates `PendingWillGo`).
* `preload.c` 874 and 993, `Habits`: a package with a file that is neither compressed nor read
  in place is not removed after it is unpacked (`delupdpack`) but restarts the module
  (`wrFile`), at every start (violates `Runs`; the comment at line 769 says that it is removed).
* `mqttdup.lua` 110: `rmvall` empties the whole list, so that the packets of the other client
  are no longer repeated, nor their failure told (with two clients in `Clients`, violates
  `PublishIsHeld`).
* `sys.lua` 167: a refused start leaves its id in `tpool`, so `timer_is_active` says that it
  runs; `ActiveIsPending` and `ImplementsTimers` are about the timers up to then.
* The habits of `Sms`, `Socket` and `LuaBoot` and the cases of `Mqtt` above; the run `mqtt` has
  `"midsend"`, which does harm only when the program connects again (a second call in `MaxCalls`).

Not excluded, but excepted in the properties themselves: `mqtt.lua` 562, a close by the server while
`discing` is set (`Dropped`).

Seen while modelling and modelled as the code behaves: `close` keeps a waiting connect,
whose connection then belongs to no socket (`link.lua` 278); `validaction` looks for
`"CLOSEING"` (188), so a second `close` is accepted while the first is under way;
`shutcnf` sets a socket that is being closed to `CLOSED` (654), from which `closecnf` does
not remove it; a new check does not begin the count of retries again
(`update.lua` 258); `save` says nothing of a part that it could not write (88), which the
loader finds out; a program that never calls `upselcb` keeps the link (341).

## 5. Fairness

* `Ril`: messages of the Lua task are handled, the reader's loop goes on, both timers
  expire, the modem starts.  The modem need not answer: then the response time-out
  restarts the software, and a queued command is lost, which `QueuedIsServed` allows as
  the code does.  The number of unsolicited lines of a boot is bounded, since a modem
  that never pauses keeps `atcreader` in its loop for ever.
* `VatRx`: both tasks run; the modem need not send.  The Lua task is weakly fair only: the
  modem's task, which leaves the semaphore between calls, sends finitely many bytes.
* `SysTimer`: time passes for every running timer, callbacks end, the Lua task handles
  its messages.  Handlers need not start or stop anything.
* `PhyUart`: the Lua task handles its messages and ends its deletions; nobody need open,
  close or send.
* `Nvm`: the program's start goes on.  Crashes are bounded, as no progress can be
  expected of a module that is switched off for ever.
* `Sms`, `Socket`: the main loop hands over messages, timers expire, the modem answers.
* `Mqtt`: internal messages are handled, the modem answers its commands and ends what it has
  begun, the network can be set up again, and the timers of `reconn` and `mqttdup` expire.  The
  server need not answer and the timers of the ping need not expire; losses are bounded.
* `Update`: the loader goes on, the link ends an attempt to connect, the timer of `retry`
  expires.  The server need not answer, and programs need not call anything.
* `Link` states no liveness: its eventualities are stated as invariants (`PendingWillGo`:
  something that will still happen is under way), which need no fairness and say more
  where the chain could break.

## 6. The proofs

| theorem | states |
|---|---|
| `RilProofs!ChannelIsSound` | `Inv` of `Ril` |
| `RilProofs!ExecutedInOrder` | `InOrder` |
| `RilProofs!NeverStalls`, `TimeoutGuards`, `DelayHoldsHead` | the parts of `Inv` |
| `RilProofs!ImplementsAtChannel` | `ImplementsChannel`: `Ril` implements `AtChannel` |
| `RilProofs!OneCommandInFlight` | `OneInFlight`, if `~ClosedUrc` |
| `RilProofs!PayloadGoesToFilter` | `PayloadIsFiltered`, if `~ClosedUrc` |
| `RilProofs!LinesAreAnnounced` | `NoLostWakeup` of `Ril` |
| `LinkProofs!NothingIsLeftHanging` | types, `CloseHasOutcome`, `ShutIsCarriedOut` of `Link` |
| `LinkProofs!SendsFindTheirSocket` | `Inv` of `Link`: the above and `SendHasLink`, if `Habits \subseteq {"deact"}` |
| `LinkProofs!ConnectsAreGuarded` | `ConnectIsGuarded`, if `Reactions` has no connect |
| `LinkProofs!ConnectedSocketsAreReal` | `ConnectedIsReal`, if `Habits \subseteq {"hasty"}`, `~Crosses` and `~ShutFails` |
| `LinkProofs!PendingConnectsGo` | `PendingWillGo`, if `~Crosses` and `~ShutFails` |
| `UartProofs!BufferIsSound` | `Inv` of `VatRx`: types, `FlagsTell`, `Exclusion` |
| `UartProofs!NoWakeupLost` | `NoLostWakeup` |
| `UartProofs!BufferIsFifo` | `ImplementsFifo`: `VatRx` implements `DropFifo` |
| `UartProofs!PortIsSound` | `PhyInv` of `PhyUart`, if `~HostPreempts` |
| `UartProofs!PortIsFifo` | `ImplementsPort`: `PhyUart` implements `PortFifo`, if `~HostPreempts` |
| `UartProofs!NewestGetsIn` | `NewestIsKept`, if also `MaxBurst < Lengths` |
| `SysTimerProofs!TimersAreSound` | `Inv` of `SysTimer` - types, `OnePending`, `ActiveIsPending` - if `~HandlesReused` |
| `SysTimerProofs!TimersImplementKeyTimer` | `ImplementsTimers`: `SysTimer` implements `KeyTimer` up to a refused start, if `~HandlesReused` |
| `RestartProofs!StoreIsSound` | `NvmInv` of `Nvm`: types, `EveryParameterHasAValue`, `FileIsMemory` |
| `SocketProofs!ItemsAreKept` | `Inv` of `Socket`: types, `AnswerIsForItem`, `NoneIsLost` - if `Habits = {}` |
| `SocketProofs!ResultsAreTold` | `ResultIsTrue` of `Socket`, if `Habits = {}` |
| `SmsProofs!OneMessageIsUnderWay` | `Inv` of `Sms`: types, `OneIsSent`, `NewInOrder` - if `NoHabit` |
| `SmsProofs!ResultsAreOwn` | `ResultIsOwn` of `Sms`, if `NoHabit` |
| `RestartProofs!DownloadIsSound` | `Inv` of `Update`: types and `PartsInOrder` |
| `RestartProofs!ProgramIsConsistent` | `Consistent`, if `Careful` |
| `RestartProofs!PackageIsRemovedWhenDone` | `RemovedWhenDone`, if `Careful` |
| `MqttProofs!ResultToldOnce` | types and `ToldOnce` of `Mqtt` |
| `MqttProofs!ClientIsSound` | `Inv` of `Mqtt`, with the exception `Dropped`, if `Clients = {1}` and `Cases = {}` |

They hold for every value of the constants that the assumptions of the modules allow: queues
and buffers of any size, any number of requests, lines and bytes; any files, packages, parts and
faults; any number of sockets; any number of publishes, attempts and retransmissions.  `Careful` of `RestartProofs` says that the habits `"rekind"`, `"repair"` and `"full"` are excluded;
packages that are copied are included.  `mqtt.lua` creates two clients at the most (830), so `Clients` is
`{1}` or `{1, 2}`.  `NoHabit` is `Habits \subseteq {"noread"}`.

`InOrder` is proved with `OrderInv`, which adds that the numbers in the queue lie above
that of the command in execution and not above `nreq`; lemmas say what appending, dropping
a prefix and putting back the head do to a sorted queue.  `NoStall`, `TimerGuardsCommand`
and `DelayIsForHead` are inductive only together (`StallInv`): that a queue is not stuck
after an answer depends on the time-out being tied to the command, and that the expired
delay issues its command depends on the head having no delay left.

`ImplementsAtChannel` maps the queue to the requests in it that are well formed (`Tickets`, a
recursive function on the positions of the queue).  What appending, dropping refused commands
and putting back the head do to it is proved by induction over the positions.  The library's
induction theorems take an operator as a parameter, which no prover here can instantiate;
`SetInduction` says the same of a set of numbers, which has no smallest missing one (`WFMin`).
A request that is issued at once passes no other: the queue was empty then, which is `NoStall`.

`OneInFlight` speaks of commands and answers only, and whether an answer is taken for what it is
depends on all the lines before it.  `Agreement` therefore states the shape of the lines that
wait: every response is to the command in execution and none follows its answer, an answer has a
form that `procatc` accepts for that kind of command, a multi-line answer is in one piece
(`LinesAgree`), and the lines of every payload lie behind their header, the first `urcfilter` of
what is left excepted (`PayloadPlaced`).  Both are about any sequence, with a lemma for its tail
(a line is read) and one for a concatenation (the modem speaks).  `~ClosedUrc` is needed because
`"n, CLOSED"` would end a `CIPCLOSE` whose own result is still to come.

`Link` keeps the record `l`, and a handler is a chain of functions on it, some of which run after
the answer has been taken and before `curr` is forgotten.  The invariant is therefore a predicate
`Fits(s, x, c)` of a record, of the command `x` that is still to be answered and of the one, `c`,
that the record says is in execution; each function of `link.lua` has a lemma that it leads from
`Fits` to `Fits`, whatever owners call in the notifications it makes, and each action one about
`IInv`.  That nothing is left hanging needs no assumption.  For the sends, `Fits` adds that no
`AT+CIPCLOSE` waits for a socket that is `CONNECTED`, no `AT+CIPSEND` stands behind the
`AT+CIPCLOSE` of its socket (`Ordered`), and a socket that is `CLOSING` has no local event still
to come: `"late"` breaks the first, `"hasty"` the last, and both are excluded (`Careful` of
`LinkProofs`).  `connpend` and the shutting of all sockets go through `linklist` in turn, a recursive
function on the numbers of the sockets; that it exists, what it is at 0 and at `n + 1`, and that
`Fits` holds at the end of it (`ChainExists`, `ChainEnds`) come from the smallest number at which
it would not.

That a `CONNECTED` socket is real is about both ends of the line, and its invariant (`RealInv`) follows
what travels between them.  The modem has the command in execution, or its answer is among the
unread lines, and there is no other answer (`AnswersFit`): so the reader takes a line for the
answer just when it is one.  A `CONNECTED` socket has a connection in the modem, or an unread line
that ends it, or the network is `DEACT` and link is going to learn of it - by an unread report, a
`CIPSTATUS` or `CIPSHUT` that waits, or a shut that is put off (`Covered`, `WillLearn`); the same
holds of every socket whose `CONNECT OK` is unread, from that line on.  And no `AT+CIPCLOSE` waits for
a socket that is `CONNECTED` (`Settles`).  What every function of `link.lua` but `statusind` keeps of this
is one relation between records (`Follows`), with a lemma for each function, so that every handler but the
reader's needs two lines.  Each of the four assumptions (`Faithful`) is needed: TLC finds
`ConnectedIsReal` violated with `"late"`, with `"deact"`, with `Crosses` and, after a refused shut and
flight mode, with `ShutFails`.  `"hasty"` does no harm to it.

That a connect which waits for the network is not forgotten is about the questions and activations
that take the network from one state to the next, each asked for in a handler of the last, so
that one link missing would leave the connect waiting without a timer.  Its invariant (`NetInv`)
says of each state that `link.lua` may hold the network in what is under way: behind `START` the
timer of `AT+CIICR` or an `AT+CIPSTATUS`, behind `GPRSACT` an `AT+CIPSTATUS`, behind `DEACT` a shut
that is queued or put off, behind a ready network with a connect still pending a shut, and at
`INITIAL` the timer of the set-up (`NetFits`, `SetupFits`).  What is under way outside the record -
a command in execution, an answer that is unread, an activation whose timer is running - is a
parameter `e` of `NetFits`, so that one relation (`Leads`) says for all of them that a function of
`link.lua` withdraws nothing; it has a lemma for each function, as `Follows` has.  The rest of `NetInv`
ties this to the modem: an unread state of the network is the last answer to come, is taken with the
answer of its `AT+CIPSTATUS`, and is still so (`StateFits`); an `AT+CIFSR` has its `AT+CIPSTATUS` right
behind it (`Paired`); and a network that the modem has and `link.lua` does not know is going to be found
out (`Finds`).  Both assumptions (`Obedient`) are needed: TLC finds `PendingWillGo` violated after a
refused `AT+CIPSHUT`, and with a `+PDP: DEACT` that is taken for the answer of an `AT+CIPSHUT`, whose
`SHUT OK` then starts nothing.  What owners do in a notification, and what `Habits` lists, does no
harm to it.

`VatRx`'s invariant
(`IInv`) adds `AskedFor`: an insertion into a buffer that is still empty has `needMsg` set, and
a Lua task that waits has used up its read buffer; `Exclusion` is needed for the flags -
without it an insertion could meet a deletion in its loop, where they are not yet taken back.
`BufferIsFifo` writes `Contents` as the `Segment` of the cyclic buffer from `Oldest` on and
says what a byte put behind it (`SegmentAppend`), one put in the place of the oldest of a full
buffer (`SegmentOverrun`) and one taken (`SegmentTail`) do to the sequence; that the head is
where the segment ends (`CountIs`) is where the flags are needed, and every other step leaves
the segment alone, also the one that moves the tail after an overrun (`OthersStutter`).

`UartProofs` is about both buffers, so that what a segment of a cyclic buffer holds is said once:
it extends `VatRx` and `PhyUart`, whose names are kept apart (`PhyInv`, `PhySpec`, ...) and whose
parameters are those of `CycleQueue`.  `PortInv`, the invariant of `PhyUart`, adds `Deletion`: the receive interrupt is masked exactly while
`QueueDelete` runs, for an id that is open, and what `full` and `empty` mean at each of its
points, where they are out of date.  Within an insertion `overflow` says that the tail is behind
(`Filling`); a burst is followed byte by byte (`PutBytesIs`, by `SetInduction` over the bytes):
what is left of the old bytes comes first, and some are given up only for a buffer that is full
(`GoesOn`).  `~HostPreempts` is needed, as a callback of the host UART within a deletion does make the
flags wrong, and `MaxBurst < Lengths`, as a burst of `Lengths` bytes counts as none.

`Inv` of `SysTimer` is inductive once a timer is said to be in one place at a time (`OnePlace`:
running, elapsed or being handled), a start in progress to be of an id that has no slot
(`StartIsNew`), and the callbacks still running to hold no handle of a timer that is yet to
expire (`HandleIsOwn`): without the last a callback would delete the timer of another id.
`HandleIsOwn` is what needs the assumption about handles.

`TimersImplementKeyTimer` needs that two ids never hold the same timer as long as no start has been
refused (`NameInv`): then a key of `KeyTimer` is the timer of one id (`Held`), its state is where
that id is, and an action of `SysTimer` moves one id and no other (`Moved`), drops some
(`Dropped`) or changes none (`Unmoved`), which are the steps of `KeyTimer` and its stutter.

`RestartProofs` extends `Nvm` and `Update`, which have nothing in common but what they are about, a
restart that finds what was being written.  `NvmInv` speaks of running programs; through a save it is carried by `Saving`: what is not
on the list of what is still to be written is in the file with its value in memory.  That a
crash leaves any prefix is no case for induction, as every prefix of a text is typed
(`PrefixType`) and the next start completes what it lacks.

`Inv` of `Socket` follows from `Sound`, a predicate of the record `s` and of `conn`, since what a
handler does is a chain of functions on `s`: each function of `socket.lua` and `link.lua` has a
lemma that it leads from `Sound` to `Sound` and tells the result of an item once (`TellsOnce`).
`Sound` adds which commands may wait together - at most one `CIPSEND`, and that of
`sndingitem`; behind a `CIPSTART` only a `CIPCLOSE`; while a `CIPSTART` waits the
modem has no connection and the link is not connected - and that the buffer holds, once each,
exactly the items without a result.  `Habits = {}` is needed as a whole: with any single
habit TLC finds `Inv` violated.

`Inv` of `Sms` is about the two queues that messages and answers wait in, where neither carries
the message it is of.  `SendInv` says that the ids in the buffer are distinct and only the
first is ever sent (`BufferFits`), that the counts of `tsend` are those of the first message
(`SendingFits`), that its `AT+CMGS` form one block of commands, as long as answers are missing
(`CommandsFit`), and that whoever starts the next sending, the timer or `SMS_READY`, is alone
(`StartFits`).  `ReadInv` says that the reports that wait are of the messages behind those listed,
in the order of their arrival, and the deletions that wait are of positions already shown, each
once (`ListFits`), and that at most one reading is under way, of the first position
(`ReadingFits`): so a deletion never hits a position that a new message has taken.  A few
lemmas about any queue (`Has`, `Single`, `Each`, `Block`: what a kind of element does when one
is put behind, the head is taken or others are added) let each half of the invariant
ignore the steps of the other.

`Consistent` speaks of running programs only; what makes it inductive is what the file system
holds at every point of a start (`BootInv`), one conjunct per phase: `AtOff` what a start finds
(complete files, or files that a package still there will write again, or missing files of
the flash), `AtUpdate` and `AtOverride` what is already right of what is being written, `AtRom`
that only missing files are written, and `Unmarked` that without the mark there is nothing but the
flash image.  Every action of the loader has a lemma; the download only touches
`bin` while a program runs.  `PartsInOrder` is proved with lemmas that say what each function
of `update.lua` does to the place of the download in its package.

`Mqtt` keeps the record `m`, and its proofs are about it as those of `Link` and `Socket` are about
theirs.  That a result is told once holds of both clients together, in all the special cases, and says
where a publish is: its number is in one place at most - the buffer of a socket, the packet under
way, the list of `mqttdup`, or a `MQTT_DUP_FAIL` still to be handled - and in none once its result is
told (`Held`).  A function that takes a packet from one place and puts it into another carries it in
between, so that each lemma names what is carried before and after (`Carries`, `Passes`); the same
lemmas say of the opposite, that a publish without a result is in some place (`Kept`, `Keeps`).
`NotSent` loses its packet: this is why `Keeps` is asked only as long as no shut waits.

The rest of `Inv` is about one client and what the modem has of it.  Such a client is `Linked` or
`Unlinked`, and an action is followed from the one to the other.  `Linked`: there is a socket, no attempt
or timer of an attempt is left, and the connection has one end - an `AT+CIPCLOSE` behind which there
are only shuts, once the client is disconnecting (`Closing`); the packet under way has its `AT+CIPSEND`
(`Sending`), and what will notice a dead server runs (`Noticed`).  `Unlinked`: no session, no timer of a
ping, no publish is left of the last connection; `sckconning` says just that the link is connecting; and
the request is with `link.lua` (`pending`), among the commands (an `AT+CIPSTART` that is the last of
them), or with the modem.  A shut that waits has not been overtaken by a new set-up of the
network, or it would cut what comes after it; and a send that waits for a socket that is gone has a
shut behind it (`CutOff`).  One client is needed, as the run `mqtt_two` shows: the `reconn` of one
sets `sckconning` of the other, and shuts its connection.  So is `Cases = {}`: with any of them TLC finds
`Inv` violated (two calls of the program).  An `Unlinked` client that is `CLOSED` and wanted has a timer
of `reconn`, or is to restart, or was dropped: a close by the server leads there from `Linked` along both branches of
`ntfy`, and what it needs of the second, where no shut clears the commands, is that no send is among them.

Only model-checked: all liveness, and `Mqtt` with two clients or in special cases, of which only types and
`ToldOnce` are proved.  Liveness and `ENABLED` are out of the prover's reach.

## 7. Not modelled

Planned: items 9 and 11 of the plan.  Of modelled components: writing to a UART and the debug
port; `PARA_CHANGED_IND` of `nvm`; direct calls of `sms.read` by programs and the joining of
long messages; `socketssl`, a near copy of `socket`; the older start from a single
`main.lua.zip` (`shell.c` 228); of `mqtt`, `destroy` and `change`, wills, voice calls, a shut that
`update`, `dbg` or `ntp` holds back, and `mqttssl`, a copy for TLS.  Not planned: parsing and formatting (NMEA, PDU,
UCS2, MQTT packets), displays, fonts, pins and the other direct calls of the base firmware,
the Lua bindings, which hold no state, and the vendored libraries.  The base firmware is
not in the repository; it appears as the modem's actions and as the operating system's
timers and semaphores, modelled from how the code uses them.
