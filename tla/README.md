# RobotPi: specification, model checking and proofs

RobotPi is a small robot on a Raspberry Pi. A C server (`src/Server`) runs on the
robot: it takes text commands over TLS on port 2025, drives two wheels through a
PCA9685 PWM board on I2C, and serves photographs over TLS on port 2026. A JavaFX
client (`src/Client/App`) discovers robots, connects to one, and sends the keys the
user holds as movement commands. `src/Client/ServerTest` is a Java stand-in for the
robot, used by the client's tests.

This directory specifies that program in TLA+: the server's threads, the wheels down to
the I2C byte, the bytes of lines and pictures, the client's threads, the client and the
robot together, and the stand-in of the tests. TLC checks all of it on small instances.
TLAPS proves every invariant and action property that the passing runs check, and the
three refinements, for every instance.
`PROJECT.json` maps every definition to the lines of code it stands for, and lists
the hazards, findings and theorems.

## 1. Inventory

| part | state it keeps | operations | what makes it correct |
|---|---|---|---|
| **Accept loop**, `server()` in `server.c` | the listening socket of port 2025, the current connection, two thread handles | start-up, accept, TLS handshake, create the two threads, join them, shut down | one client at a time; goes back to accept after each; one client's failure is not the next one's |
| **Command session**, `session_task` in `server.c` | the global `client_connected`, the line read, the response, `should_quit` | CONN, DISCONN, commands, protocol errors, lost connection | a command moves the robot only in a greeted session; each line gets one answer, the right one |
| **Image thread**, `img_task` in `protocol.c` | the listening socket of port 2026, the `cmd` buffer, `pic.jpg` | busy wait for a connection, accept, handshake, read, refuse or take and send a picture, leave | a picture only on request and only for a connected session; ends with the session |
| **Protocol tables**, `put_response`, `process_cmd`; `ProtocolCommands.java` | none | line → motor function, response code, text; message → expected confirmation | both sides agree on every message |
| **Motor control**, `motor.c` | none (the last call is in the board) | nine movements, speed clamp, speed → duty | the named movement; never above the voltage limit |
| **Driver library**, `motorLib/` | the board's registers | duty, level, register writes over I2C | no intermediate state that drives a wheel against the command |
| **Camera**, `camera.c` | the picture file | run `fswebcam` | a picture is of its request |
| **Message framing**, `read_msg`/`send_msg` in `server.c` | a buffer of `CMD_LEN` bytes | read to a newline, write a line | no line is cut, merged or lost |
| **TLS set-up**, `server.c` | the context | create, configure | – |
| **Java client**, `Client.java` | sockets, `isConnected` | connect, disconnect, ping, move, fetch a picture | `isConnected` tells the truth |
| **User interface**, `UIController.java` | `currentCommand`, `lastCommand`, a mutex, two workers | animation timer, `ConnectedWorker` (ping), `PictureWorker`, close | workers stop and are joined; a lost robot is noticed |
| Discovery, launcher, settings | windows and files | – | – |
| **Java test server**, `Server.java`, `Starter.java` | sockets and readers of two threads, `stopRequested`, `running` | accept, answer as its type, send a picture, stop itself or be stopped | good and bad are told apart; stops when told |
| Tests, vendored libraries | – | – | – |

**How they interact.** The accept loop creates the session and the image thread for
one client and joins both, session first. The two threads share only
`client_connected`, a plain `int` with no lock and no condition variable: the session
raises it on CONN and lowers it on DISCONN or a protocol error; the image thread
polls it in a busy wait before its loop and tests it between two pictures. The
client's UI thread and its ping worker share the command connection under a mutex;
its picture worker has the image connection for itself. Neither side tells the other
when it fails: a reset or the end of the stream is all there is. The motor board is reached
only by the session, one command at a time; its registers outlive the process.

**What is hard.**

* Concurrency: three server threads and two independent client connections, with a
  flag that is sampled, not signalled.
* Failure: any accept, handshake, read or write can fail, and the code treats the
  failures differently: return from `server()`, end a thread, or ignore.
* Crash and restart: a broken pipe or a null `FILE *` ends the process between any
  two steps, and the PWM registers and the picture file survive.
* Ordering: wheel registers are written one byte at a time, duty before direction.
* Numbers: an unsigned 16-bit underflow, an undefined cast below speed 13.

## 2. Modules

| module | models | state and actions |
|---|---|---|
| `RobotProtocol` | the response codes, `put_response`, `process_cmd`, Java's `messageConfirmation` | pure operators |
| `RobotLink` | the abstract promise: one application connection at a time; driven and photographed only while it is open; not opened anew during a picture | `up`, `conn`, `motion`, `pic` |
| `RobotServer` | the process: accept loop, session, image thread, clients of both ports, death and restart | see below |
| `RobotServerProperties` | properties, inductive invariant `IInv`, the refinement to `RobotLink` | |
| `RobotServerProofs` | the TLAPS proofs | |
| `DriveTrain` | the abstract promise of a motor function: wheels change only during a call, one at a time, as somebody asked | `up`, `phase`, `order`, `may`, `turning` |
| `MotorDriver` | `motor.c` over `motorLib`, down to the I2C byte | `regs`, `todo`, `asked`, `alive`, ... |
| `MotorDriverProperties` | what the wheels must do; the refinement to `DriveTrain` | |
| `MotorDriverProofs` | the TLAPS proofs | |
| `RobotClient` | `UIController.java` and `Client.java`: the JavaFX thread, `ConnectedWorker`, and a device at the other end | see below |
| `RobotClientProperties` | what the client must do; inductive invariant `IInv` | |
| `RobotClientProofs` | the TLAPS proofs | |
| `Framing` | `read_msg`, `prepare_response`, `send_msg`, `send_picture`, the buffers of both tasks, and the client's `readLine` and stream | see below |
| `FramingProperties` | what lines, answers and pictures keep; inductive invariant `IInv` | |
| `FramingProofs` | the TLAPS proofs | |
| `RobotSystem` | `RobotClient` with `RobotServer` as its device, over one command connection; picture requests; failures of robot, link and image thread | see below |
| `RobotSystemProperties` | what must hold of the two together; inductive invariant `JointInv` | |
| `RobotSystemProofs` | the TLAPS proofs | |
| `StandIn` | `ServerTest`'s `Server` and `PictureServer`, `Starter` | see below |
| `StandInProperties` | what the tests rely on; inductive invariant `IInv` | |
| `StandInProofs` | the TLAPS proofs | |
| `MC...` | values of the constants for TLC | |

### RobotServer

A step of a thread is what it does between two accesses to something another thread
or a client can see.

* `mainPc`: `start` (sockets, motors, TLS context) → `accept` → `handshake` →
  `joinSession` → `joinImg` → `closing` → `accept`. `MainAcceptError` and
  `MainHandshakeFails` end the process: a failed accept is not tested, the handshake
  on descriptor -1 then fails, and a failed handshake makes `server()` return.
* `sessPc`: `read` → `send` → `read`, or `quit` → `exited`. The session's handling of
  one line, from the read to the response, is one step, because only the flag is
  visible to others in between; sending is another, and clearing the flag once more
  on the way out (`should_quit`) a third. A read that fails exits at once and
  leaves the flag alone (`server.c:192`).
* `imgPc`: `create` → `spin` → `check` → `accept` → `handshake` → `read` → `dispatch`
  → `reject` or `reply` → `snap` → `send` → `check`, and from `check` to `leave` →
  `exited`. `imgCmd` is the buffer that survives from one request to the next,
  `listener` distinguishes a live listening socket from an orphaned one (the thread
  returned without closing it).
* `peer`, `sent`, `reply`, `confirmed` are the client's end of the command
  connection: lock-step, as `Client.java` and the C tests are. It may be silent or
  hang up at any time. `imgPeer`, `imgRequest` are the other port's.
* `status` and `Restart`: the process ends by itself or is killed (SIGPIPE,
  `fseek` on a null pointer); on restart the flag is 0, the picture file is still
  there, and the wheels are as they were, unless the board lost its power too.

`client_connected` is a plain `int` shared without synchronisation. The Makefile builds
without optimisation (`CFLAGS` has no `-O`), so each access is one load or store of an
aligned word, in program order; the model reads and writes it that way. An optimising
build could hoist the load of the busy wait, and is not what is modelled.

A write to a client that has gone (`BrokenPipe`) may be lost or end the process, through
SIGPIPE or through `send_msg`, which takes the -1 of `SSL_write` for an unsigned count
and logs that many bytes.

### MotorDriver

A call of a motor function (`Call`) is the sequence of its register writes (`todo`),
`DEV_I2C_WriteByte` performs the next one, `Crash` cuts the sequence at any point,
`motorInit` starts the process again and leaves the output registers alone. `Driven`
and `HighSteps` say what the board and the H-bridge make of the registers, in every
intermediate state. `Duty` is the arithmetic of `motor.c:24` as the unparenthesised
macro makes it, with both results a build may give to the undefined cast (`build`).

`DriveTrain` knows no registers: a wheel is told a direction or `rest` (`Tell`), on the way
one wheel at a time may turn differently (`Shift`), and when the call is over both do as
they were told (`Obey`). A process that dies leaves the wheels as they are, or without
power; one that begins leaves them as it finds them. This is what `RobotServer` takes for one step of the
session, and what it assumes of `motion` through `Restart`.

### RobotClient

Two threads share a `Client` under a binary semaphore (`mutex`) and the object of the
worker without a lock. A step of a thread is what it does between two accesses to
something the other can change.

* `fx` is where the JavaFX thread is. It is `idle` between two events, then in one of
  four handlers: the animation timer (`timerAcquire`, `commandReply`), the connect
  button (`connectAcquire`, `connectReply`, `connectNotify`, or `alert`), the
  disconnect button (`disconnAcquire`, `disconnReply`, `disconnDone`), or `close()`
  (`closeNotify`, `closeJoin`, `closeAcquire`, `closed`). Being one thread, it handles
  nothing else until it is `idle` again. The one exception is the alert after a failed
  `connect`, whose nested event loop lets the timer run while the mutex is held.
* `wk` is where `ConnectedWorker.run` is: `loop`, `check` (`!connected`, outside the
  monitor), `enter` (the monitor), `waiting` (in `wait()`, which may also wake up
  without a notify), `inner`, `sleep`, `acquire`, `reply`; `exited` is the end of the
  method and `dead` an exception that `run` does not catch.
* `pressed`, `newInstruction`, `lastCommand`, `justDisconnected`, `isMoving`,
  `isConnected`, `connected`, `running` are the fields of those names (`pressed` for
  the four `...Pressed`). `Wanted` and `MustSend` are the nested tests of the timer.
* The connection is a queue of lines and a queue of answers; each answer remembers the
  line it answers, which the code does not know. A call sends, and reads in a later
  step; the read finds an answer, the end of the stream (null, hence a
  `NullPointerException`) or an `IOException`. What each of these leaves behind follows
  the `catch` and `finally` clauses of the caller.
* The device is external. It confirms a line, refuses it, or goes; it need not be a
  robot. Between a refused CONN and a reset one there is no difference for the caller:
  `Client.connect` wraps every exception, its own ones included, in a
  `CantConnectException`.
* The alert of a refused movement is asked for inside an animation, where JavaFX's
  `showAndWait` throws; `handle` is left through its `finally`, as the model does.

`connected` and `running` are plain fields of Java, read and written by two threads;
the model reads and writes them in program order. The reads are separated by
`sleep`, `wait` and semaphore operations, across which the virtual machines in use
reload them. `MaxTries = 5` is the constant of `Client.disconnect`, not a bound.

### Framing

One connection of one port, byte by byte; `RobotServer` takes a line or an answer for
one step each. `cmd` and `response` are arrays of `CMD_LEN` bytes that keep what nobody
clears; `taken` is `total_bytes` and `current_offet` (they are equal). `Reads(k)` is a
turn of `read_msg`'s loop in which `SSL_read` returned `k` bytes, with the code's
handling of a line that is too long; `ReadFails` is the end of the connection, which
ends `session_task` and which `img_task` ignores. `HandleCommand` is the command port's
answer (any of them: which is `RobotServer`'s business); `RejectsLine`,
`RejectsPicture`, `AcceptsPicture`, `SendsChunk`, `SendsRest` and `NextClient` are
`img_task`'s turn. `records` is what was written and not yet taken, one element per
`SSL_write`: a TLS record keeps its limits, and Java's socket returns at most one record
per read, which is why the `BufferedReader` of `takePicture` does not swallow the
beginning of the picture.

### RobotSystem

`C!` is `RobotClient`, `S!` is `RobotServer`, each over its own variables. A step of the
system is a step of one of them (`WindowAlone`, `ServerAlone`) or one that both take:
a line written (`WindowWrites`), an answer written (`ServerAnswers`) or read
(`WindowTakes`), a connection asked for (`ConnectRequests`, completed by the kernel
whether or not the program accepts), used (`ConnectGoesThrough`) or given up, and the end
of one (`CloseArrives`, `ServerCloses`, `ServerEnds`, `ServerBreaks`, `LinkBreaks`).
`DeviceAnswers`, which in `RobotClient` may give any answer, gives the session's here.

`PictureFails` is the image thread failing alone, or losing its client, while the rest of
the robot goes on; `CloseStep` closes the window. `May` says what the user does: one
who `drives` presses keys, one who `photographs` takes pictures, one who `leaves` closes
the window, and one who does it `all` meets every failure too. TLC takes the first three one
at a time; the proofs have the fourth.

What was sent has arrived; the delay is in when it is read. The window's new connection
is not before the end of its old one has reached the robot (`~Established` in
`ConnectRequests`): both travel between the same two hosts, the end first.

### StandIn

`server` and `picture` are where the two threads are, `stop` where each possible caller
of `stop()` is: the thread that called `stopExecution`, and the server's own thread.
Each step of `stop()` looks at one field, because the others assign them meanwhile; a
null one ends it. A socket is `null`, `open` or `closed`. A reader or writer is `null`, of
the `current` connection or of an `old` one, because its `close()` closes the socket it
belongs to: a client accepted between `clientSocket.close()` and `in.close()` is closed as
well if its streams are open by then, and is not if they are still the old ones'. An
exception ends the thread it meets.

A client may close the connection behind its line, which is then still read and acted on
(a STOP stops the stand-in), or break it off, and the line with it. Its answer goes
nowhere. A line that no thread will read any more is left out.

`Init` has what the repository makes: `Starter` a good stand-in outside a test run, the
tests one of each type.

## 3. Runs

| run | instance | shows |
|---|---|---|
| `server` | CONN, DISCONN, two commands and an unknown line; PICTURE and an unknown line on the image port; one waiting client per port; 351,000 states | `TypeOK`, the inductive invariant `IInv`, three safety properties and the action property of the image thread, the refinement of `RobotLink`, two liveness properties |
| `greeted_sessions` | as above | **violated**: finding 2 |
| `motor_bytes` | speeds 1, 13, 16, 50, 255, all nine movements, both casts, one crash; 1,866,144 states | after a whole call the wheels do what it asked, whatever the registers held; a wheel never turns in a direction that neither the current nor the last whole call asks for; no register mixture exceeds the voltage limit; each wheel turns in the sense of the movement's name, in a turn with fewer steps on the side turned to; the bytes implement `DriveTrain` |
| `framing` | buffers of 4 and 8 bytes, three lines, three answers, files of 0 to 17 bytes; 624 states | `TypeOK` and the four properties of lines, answers and pictures |
| `client_safety` | all four keys; 3.45 million states | `TypeOK`, the inductive invariant `IInv` and the four safety properties of the client |
| `client_liveness` | one key | the three liveness properties of the client |
| `close_ends` | one key | **violated**: finding 3 |
| `lost_robot` | one key | **violated**: finding 4 |
| `system` | one key, three kinds of users, one failure of the robot, the link or the image thread; 1.44 million states | the six properties of the two programs together, and `JointInv` |
| `connect_ends` | one key, no failure | **violated**: finding 1 |
| `rests_without_keys` | one key, one failure | **violated**: finding 5 |
| `standin` | both types, CONN, FWD, STOP, DISCONN, PICTURE; 667,000 states | `TypeOK`, `TypesTellApart`, `StopFreesPorts`, `StopEnds` |

Server and system runs say `CHECK_DEADLOCK FALSE` because the real server can stop for
good (finding 1 with no client left to act), the framing and stand-in runs because their
threads end. The motor and client runs check deadlock; a client whose window and worker
have both ended has the step `Finished`.

### Properties of the server

* `PictureOnlyOnRequest`: a picture is taken and sent only on a connection whose own
  client asked for one, although `cmd` is reused and read errors are ignored.
* `PictureLoopTracksSession`: every way out of the image thread. Its loop ends only with
  the flag down and the session ending. What takes the camera from a live session is a
  port that cannot be had, a failed accept (`protocol.c:168`), which closes the port, and a
  failed handshake (`:181`), which leaves it open with no thread behind it. Such a port is
  there to stay: no later session of the process has an image loop.
* `ConfirmedMeansConnected`: a client that was told `CONN_OK`, and has sent neither
  CONN nor DISCONN since, is connected in the server's eyes.
* `ConfirmedCommandsAccepted`: such a client reads, for each message the Java client
  can send, exactly the confirmation it compares with.
* `ImplementsLink`: every step of the threaded server is a step of `RobotLink` or
  changes nothing there.
* `RequestAnswered`, `DisconnDuringPictureRecovers`: see the runs.

### Properties of the motors

* `SettledAsAsked`: after a whole call both wheels turn as it asked, whatever a crash
  left in the registers before.
* `DrivenOnlyAsAsked`: in between, a wheel turns as the current call asks, as the last
  whole call asked, or not at all.
* `NoOvervoltage`: no mixture of old and new bytes exceeds the limit of the motors.
* `MovesAsNamed`: both wheels turn in the sense of the movement's name, straight and on the
  spot with equal steps, in a turn with fewer on the side turned to. Strictly fewer above
  speed 15: up to there a build that saturates the cast gives both wheels the least duty,
  and the turn is straight. At speed 1 the half is 0 and the inner wheel rests; at 0 both.
* `ImplementsTrain`: every register write is a step of `DriveTrain` or changes nothing there.
  In particular no wheel changes between two calls, nor when the program starts again.

### Properties of the client

* `AnswerGoesToAsker`: the answer a call reads answers the line it sent, although the
  timer, the buttons and the ping share one stream without sequence numbers.
* `ConnectedMeansGreeted`: when nobody uses the client, the window's flag implies the
  client's, and that the device has answered `CONN_OK` on this connection.
* `CommandsOnlyWhileConnected`: a command on the wire is of a connection the window
  takes for alive, although the timer tests that before it waits for the mutex.
* `RobotFollowsKeys`: once the keys are handled, a robot that has carried out a command
  of this connection moves as the keys say.
* `WindowUnblocks`: the window does not wait for ever for the mutex or an answer, even
  after the ping's thread has died.
* `CloseEndsFromLoop`: a window that closes with its worker in the ping loop or in
  `wait()` does close.
* `DisconnectionShown`: a connection that was up for a frame of the timer and is lost
  is shown as lost.

### Properties of the framing

* `LineReadIntact`: a line read to its end is in `cmd` as it was sent, with nothing of
  the lines before it. `read_msg` cuts a line that is too long at the wrong place, and
  `img_task` does not clear the buffer after a refusal; neither shows.
* `AnswerReadIntact`: the client reads the answer that was put, also when it fills
  `response` to the last byte.
* `OnlySentLinesActedOn`: a picture is taken only for a client that sent all of PICTURE
  on this connection. What an earlier line or an interrupted one leaves in `cmd` cannot
  complete the beginning of a PICTURE, because no other line of the protocol has an E in
  its seventh place (`PlaceAssumption`).
* `PictureArrivesWhole`: a client that stays gets the bytes of the file in order, then
  fewer zeros than a chunk has.

### Properties of the system

* `RobotSharesConnection`: while the window shows a robot and the client is at rest, the
  robot runs, has this connection's session in its read, and its flag is up.
* `RobotAnswersRightly`: after the CONN each answer is the one the call compares with, so
  the window's alert for a refused movement and the retries of `disconnect` are never
  needed with this robot.
* `SentLineIsServed`: a line without an answer on a standing connection is before the
  session thread. With `RequestAnswered` this is what `RobotClient` assumes of its device.
* `WheelsFollowKeys`: the motor function last run is the one of the keys held.
* `NoLateCommand`: the wheels change only while the window waits for that command.
* `RobotIsADevice`: to the window the system is `RobotClient` with some device, so what
  is shown of `RobotClient`, whose device may do anything, is not about a device that
  the robot is not.
* `ConnectEnds`, `RestsWithoutKeys`: violated, see the findings.

### Properties of the stand-in

* `TypesTellApart`: a good one confirms every command it does not stop at, a bad one none.
  (At DISCONN a bad one stops, and the connection is gone before the answer is flushed.)
* `StopFreesPorts`: after a `stop()` that came to its end no thread listens on either port,
  or comes to open one later, although `start` and `stop()` share no lock.
* `StopEnds`: a `stop()` that comes to its end, in whichever thread and at whatever
  moment, ends both threads.

### Findings

1. **A connect may never return.** `img_task` looks at the flag only between pictures.
   After a disconnection it is normally blocked in `accept` on port 2026
   (`protocol.c:164`); `server()` joins it (`server.c:313`) and serves nobody until some
   image client connects. A DISCONN that comes before the busy wait has seen the flag
   leaves the thread spinning instead, with the same effect. The window that connects
   again waits in the TLS handshake (`Client.java:62`), on JavaFX's thread.
2. **A session may inherit a connection.** A session that loses its client exits
   without lowering the flag (`server.c:192`). If the image thread has already gone
   (its socket could not be bound, say), the next session starts with the flag up
   and moves the robot for a client that never sent CONN.
3. **The window may not close.** `run` tests `connected` before it enters the monitor
   (`UIController.java:659`), so the `notify` of `close` may come before the `wait`;
   `workerThread.join()` (`:245`) then never returns. The same lost notify, from the
   connect button, leaves a connection without pings.
4. **A lost robot goes unnoticed.** `readLine` returns null at the end of the stream;
   `ping` dereferences it (`Client.java:218`), and the exception ends the worker's
   thread with the window still connected. The disconnect button meets the same
   exception before it reaches `setDisconnected`.
5. **The robot may drive with no key pressed.** When the robot's process is killed after a
   movement was carried out and before its confirmation was read, `isMoving` stays false
   and the wheels keep turning, also after the restart. On the next connection the timer
   finds no key pressed ("robot ne bouge pas", `UIController.java:201`) and `isMoving` false
   (`:202`), and sends nothing.

Seen on the way, with no run of their own:

* The result of `camSnap` is ignored (`protocol.c:208`): an old picture may be sent.
* The duty is written before the direction pins (`MotorDriver.c:50`), so BKWD after FWD
  and STOP drives the wheels forward until the pins follow. `DrivenOnlyAsAsked` is
  stated so as to allow that and no more.
* `lastCommand` outlives the connection (`UIController.java:157`): when the first key on
  a new connection asks for the command confirmed last on the old one, nothing is sent
  and the instruction counts as handled. `RobotFollowsKeys` and `WheelsFollowKeys`
  therefore speak of connections that have carried out a command.
* `stop()` of the stand-in dereferences what may still be null (`Server.java:309`,
  `:312`, `:313`, `:344`); called early it throws and leaves sockets and threads behind.
  `StopEnds` speaks of a `stop()` that comes to its end.
* A client that resets its connection ends the stand-in's server thread with the port
  still bound; one that closes the picture connection without a line ends the picture
  thread (`message` is null). A second CONN is answered with an empty line.
* One failed TLS handshake on the command port makes `server()` return
  (`server.c:298`, `MainHandshakeFails`), which `server.h:73` excludes.
* A duty of 0 computes `0 * 40 - 1` in a `UWORD` (`PCA9685.c:129`). The wheel stops only
  because bit 4 of the high byte is the full-off bit.
* `Client.isConnected` is raised before the answer to CONN (`Client.java:65`) and stays
  up when it is refused. The window goes by the worker's flag and is not misled;
  `close` is, and sends DISCONN on a closed connection; `CloseEndsFromLoop` has it come to
  its end all the same.
* A connection that is lost before a frame of the timer has seen it up stays shown as
  "Connected" (`UIController.java:223`). `DisconnectionShown` therefore speaks of the
  others.
* `Client.connect` never throws the `IOException` and `IncorrectDeviceException` it
  declares, so the window's "Wrong ip adress" alert is never shown.
* `PictureWorker` opens its alerts outside JavaFX's thread (`UIController.java:723`),
  where JavaFX refuses them; the `setDisconnected` after it is not reached.

### Bounds, and why they are enough

* `MaxBacklog = MaxImgBacklog = 1`: the server handles one connection of each port
  at a time and only ever asks whether another one waits. The client in hand plus one
  that waits shows all the hand-overs; further ones differ in number only.
* Lines of `server`: see `MCRobotServer`; one of each kind that `session_task` and
  `img_task` tell apart. The proofs have all of them.
* The number of sessions, pictures, restarts and failures is not bounded.
* `MaxCrashes = 1`: a crash cuts one call, and the board's registers then hold a prefix
  of it over the previous call. A second crash makes a prefix over that; each byte still
  comes from some whole call, and every mixture of two values of one channel occurs
  with one crash.
* `Speeds`: the protocol always passes 50. The boundary speeds are one beyond the clamp
  (255), the first without the undefined cast (13), the first at which a turn is strict
  whatever the cast gives (16, whose half has the cast), and the one whose half is zero (1).
  The proofs have every speed.
* `Keys`: all four for safety. One for the liveness and violation runs: the key then
  only gives the timer a command to send, another to send on release, and none when
  nothing changed, which are the three paths through it.
* `Framing`: `CMD_LEN = 4` and `BUFFER_SIZE = 8` keep the ratio of 16 and 32 and the order
  of the lengths: the longest answer with its newline fills the buffer, PICTURE leaves
  one byte. The lines and answers are one of each length and beginning that matters; the
  sizes of files are 0, 1 and those around one and two chunks. The proofs have every size.
* `system`: the three users one at a time, since keys, pictures and the closing of the
  window share only the flag, which `RobotServer` has with lines and pictures at once, and
  the window's own fields, which `RobotClient` has with keys and closing at once. One
  failure (`MaxFaults`) may hit any step, and everything after it (reconnecting, or restart
  and reconnecting) is unbounded; a second repeats the first. One key, as in
  `client_liveness`. The proofs have none of these bounds: they hold of the user who does
  it all, with every key and any number of failures.
* `standin`: one line of each of the switch's kinds; one client at a time on each port,
  which comes once the stand-in is through with the last.
* Neither queue of the client's connection is bounded. The mutex and the blocking read
  keep at most one line or answer in them.

### Fairness

`FairSpec` has weak fairness of the server's own threads: each step a running thread
can take without outside help is eventually taken, because the operating system
schedules it and no thread holds a lock. There is none on clients (connecting,
shaking hands, sending, hanging up), on handshakes, which wait for the client, or on
failures and restarts. Where success and failure share a step (`MainStart`, the
image thread's socket, a read), the step is fair and its outcome is not.

In `RobotClient`, the steps of both threads are weakly fair, and the acquisitions of
the mutex strongly fair. The semaphore is not a fair one (`new Semaphore(1)`), but the
worker sleeps ten seconds between two acquisitions and the JavaFX thread leaves the
semaphore alone between two frames, so a waiting thread finds it free and is woken.
The device is weakly fair in that it answers or goes: a device that does neither
blocks the window, since the sockets have no timeout. The user, the spurious wake-up
and the outcome of a fair step are not fair.

In `RobotSystem` the robot's threads are weakly fair as above, and so is a connect whose
handshake the robot has done its half of. Nothing else is needed: `ConnectEnds` is
violated under that fairness, by a window that waits and threads that have run.

In `StandIn` the two threads are weakly fair, also where that of `Server` is in `stop()`,
and a client leaves at some time: a client that stays connected and silent would keep a
thread, and `stop()` that comes between `accept` and the next test of the flag may leave
that client's socket open. Nothing is asked of the caller of `stopExecution`, who may stop
between two steps: `StopEnds` begins where its `stop()` has ended.

## 4. Proofs

`RobotServerProofs` proves, for all `ClientLines, ImgLines \subseteq Lines` and all
positive backlogs (the four `ASSUME`s of `RobotServer`; TLC evaluates them in every
server run):

| theorem | statement |
|---|---|
| `TypeCorrect` | `Spec => []TypeOK` |
| `Invariance` | `Spec => []IInv` |
| `PicturesOnRequest` | `Spec => []PictureOnlyOnRequest` |
| `PictureLoopFollows` | `Spec => PictureLoopTracksSession` |
| `ConfirmedConnected` | `Spec => []ConfirmedMeansConnected` |
| `ConfirmedAccepted` | `Spec => []ConfirmedCommandsAccepted` |
| `Refinement` | `Spec => ImplementsLink` |

None of the properties is inductive by itself. `IInv` is their common strengthening:

* `ThreadsInv`: which threads exist at each place of the accept loop. In particular
  the session of a client cannot start while the image thread of the previous one
  still runs, because the loop joins both.
* `FlagInv`: once the image thread has seen the flag up, the flag is down only in a
  session that is ending, and an ending session does not raise it again. This is
  what makes an unlocked flag enough: under the picture loop it falls at most once.
* `PortInv`: port 2026 has a listening thread exactly while `img_task` is in its loops.
  It is why an orphaned port stays one: no step of the loops can be taken beside it.
* `CmdInv`: a PICTURE left in the `cmd` buffer by an earlier request coincides with
  a lowered flag, so `dispatch` refuses it. The buffer is not cleared on the refusing
  path; `FlagInv` is why that is harmless.
* `LineInv`, `ConfirmInv`: the lock-step of the command connection, and what the
  client may believe at each point of it.

The proof has a lemma per conjunct group: the table lemmas evaluate `ResponseCode`,
`put_response` and `messageConfirmation` once, so that the step lemmas need only
their results; then each action preserves each part it can disturb. `Refinement`
uses `IInv` where a step of the server is a step of the link only in reachable
states: CONN is accepted only with no picture in progress, and a picture starts only
with the flag up.

`FramingProofs` proves, for every `CMD_LEN`, `BUFFER_SIZE`, set of lines and answers that
fit, and set of file sizes (the four `ASSUME`s of `Framing`):

| theorem | statement |
|---|---|
| `TypeCorrect` | `Spec => []TypeOK` |
| `Invariance` | `Spec => [](TypeOK /\ IInv)` |
| `LinesIntact` | `Spec => []LineReadIntact` |
| `AnswersIntact` | `Spec => []AnswerReadIntact` |
| `RequestsSent` | `Spec => []OnlySentLinesActedOn` |
| `PicturesWhole` | `Spec => []PictureArrivesWhole` |

`IInv` has four parts. `CopyInv`: what has arrived of a line is in its place, the last
byte of `cmd` is zero (so the copy never meets the branch that cuts at the wrong place),
and the end of a line is where `strcspn` finds it. `LockStepInv`: nothing is on its way to
a client whose line is being read, and an answer is ahead of all that follows it.
`PictureInv`: the last byte of PICTURE and the zero behind it are in `cmd` only when this
client has sent them. It is stronger than the property because `cmd` survives refusals and
interrupted lines; `PlaceAssumption` is what preserves it under the lines of others.
`ImageInv`: the bytes the client has and the chunks on their way to it are the beginning of
the file, behind the answer. A picture is a concatenation of any number of records; `Laid`
speaks of each record by the place of its first byte instead, so that sending a chunk at
the end (`LaidNext`) and reading one at the front (`LaidTaken`) need no induction. The
lemmas before it say what C's string functions find in an array (`FirstIs`), what is put
in a response (`ResponseOf`), what a piece changes (`PieceCopied`, `LineStripped`) and
what `readLine` returns (`TakenLine`).

`RobotClientProofs` proves, for every set of keys and a device that answers, refuses or
goes as it likes (`KeysAssumption`):

| theorem | statement |
|---|---|
| `TypeCorrect` | `Spec => []TypeOK` |
| `Invariance` | `Spec => [](TypeOK /\ IInv)` |
| `AnswersToAskers` | `Spec => []AnswerGoesToAsker` |
| `ConnectedGreeted` | `Spec => []ConnectedMeansGreeted` |
| `CommandsConnected` | `Spec => []CommandsOnlyWhileConnected` |
| `FollowsKeys` | `Spec => []RobotFollowsKeys` |

`IInv` has four parts, each carried over by every step, with the help of those before it:

* `MutexInv`: the mutex is held by a thread exactly in the places between its acquisition
  and its release, so never by both.
* `StreamInv`: on an open connection there is one line or one answer for the call that
  waits, and none when no call waits. Calls that fail would break it, but each of them
  leaves a connection that is open no longer: this is why answers need no numbers.
* `FlagsInv`: the worker's `connected` implies the client's `isConnected` and that the
  device accepts commands, or that the confirmed DISCONN is about to be read. While the
  window is connecting, or closing, the flag is down.
* `CommandInv`: the robot's movement is `lastCommand`, or the command whose confirmation
  is about to be read; `isMoving` follows `lastCommand`; keys that are handled are `lastCommand`.

`MotorDriverProofs` proves, for every set of speeds in `0 .. 255`, both results of the
undefined cast and any number of crashes (`SpeedsAssumption`, `CrashesAssumption`):

| theorem | statement |
|---|---|
| `TypeCorrect` | `Spec => []TypeOK` |
| `Invariance` | `Spec => [](TypeOK /\ Limits /\ Landing /\ Named /\ Quiet)` |
| `NoWheelOvervoltage` | `Spec => []NoOvervoltage` |
| `SettlesAsAsked` | `Spec => []SettledAsAsked` |
| `MovesByName` | `Spec => []MovesAsNamed` |
| `DrivenAsAsked` | `Spec => []DrivenOnlyAsAsked` |
| `TrainRefinement` | `Spec => ImplementsTrain` |

`Limits`: the high byte of a wheel's OFF time, in the board or on its way, is at most 10
or has the bit that turns the output off; with any low byte that is below the limit, which
is why tearing a two-byte number is harmless here. `Landing`: every write of the current
call is still to come, or is in its register and nothing to come touches that register.
It needs no order of the writes, only that a call writes no register twice (`Once`), which
`Joined` carries over concatenation. `Named`: what is asked of the wheels is what the call
makes of its function and speed. The arithmetic of `motor.c` is in `DutyIs`, `DutyBounds`
(1 to 70 hundredths, whatever the cast does) and `DutyGrows` (no less at a higher speed);
`DutyHalves` and `StepsHalve` have it strictly less at half of a speed above 15, hence turns
are towards the slower wheel. `Quiet`: the pin that would turn a wheel in a
direction nobody asked for since the last whole call is low, and nothing still to come of
the current call raises it. One low pin keeps the bridge from its direction, so the torn
level of the other one does not matter. While a wheel is being reversed both directions
are asked for and nothing is claimed; the last byte of the call has lowered the pin of the
old one (`OthersLow`, from `Landing`). `TrainRefinement` maps each write to `Shift` or, the last one, to `Obey`:
a channel belongs to one wheel (`ChannelsApart`), so the other goes on (`OthersGoOn`), and
`DrivenOnlyAsAsked` and `SettledAsAsked` after the step say where this one may go.
`Limits`, `Landing`, `Named` and `Quiet` are not checked by a run of their own: their
consequences are.

`RobotSystemProofs` proves, for every set of keys, every kind of user and any number of
failures (`KeysAssumption`, `UsersAssumption`, `FaultsAssumption`):

| theorem | statement |
|---|---|
| `RobotRuns` | `Spec => Robot!Spec` |
| `IsADevice` | `Spec => RobotIsADevice`, that is `Spec => C!Spec` |
| `JointInvariance` | `Spec => []JointInv` |
| `SharesConnection` | `Spec => []RobotSharesConnection` |
| `AnswersRightly` | `Spec => []RobotAnswersRightly` |
| `LineServed` | `Spec => []SentLineIsServed` |
| `FollowKeys` | `Spec => []WheelsFollowKeys` |
| `LateCommand` | `Spec => NoLateCommand` |

The argument is compositional. `Robot` and `Window` are instances of the proof modules of
the two programs, so their theorems are at hand. Every step of the system is a step of the
robot or leaves it alone (`RobotStep`), whatever the window does: the types and `IInv` of
`RobotServer` hold. Of the window this is true only in reachable states, because a device
of `RobotClient` answers the line that is there, and `ServerAnswers` answers the one the
session has: with the invariant of the robot and `JointInv`, a step of the system is
one of the window or leaves it alone (`WindowStep`), so that the invariant of `RobotClient`
is carried over, and with all three `JointInv` is (`JointInductive`, a lemma for each
action). `JointInv` has four parts, none inductive without the others:

* `EndsInv`: a connection that the window takes for standing is the one the session serves,
  and once its CONN was confirmed to the window, the robot's flag agrees.
* `LineInv`: the line the window waits on is the line before the session; an answer on its
  way is the one the session gave.
* `AnswerInv`: the first line of a connection may be refused, when an earlier session left
  the flag up (finding 2); no later one is.
* `MotionInv`: the wheels do what the last confirmed command says, or what the answer that
  is about to be sent will confirm.

`RobotProtocol` is there once for each program and once for the system; the lemmas `Same...`
say that the tables, and the steps made of them, are the same.

`StandInProofs` proves, for all sets of lines (`StandInLinesAssumption`):

| theorem | statement |
|---|---|
| `TypeCorrect` | `Spec => []TypeOK` |
| `Invariance` | `Spec => [](TypeOK /\ IInv)` |
| `TypesDiffer` | `Spec => []TypesTellApart` |
| `StopFrees` | `Spec => []StopFreesPorts` |

`AnswerInv`: the client has been told the greeting or the answer to what it sent; that the
good answers and the bad ones have no text in common is a lemma (`Disjoint`).
`SocketInv`: neither thread comes back to where it opens its socket, and what `stop()` has
passed is closed. The interesting case is `stop()` before the picture thread has opened
its socket: it finds null there and throws, so that it is a `stop()` that does not end.

**Model-checked only.** Liveness under fairness and whatever needs ENABLED are beyond
the proof system in use: `RequestAnswered`, `DisconnDuringPictureRecovers`,
`WindowUnblocks`, `CloseEndsFromLoop`, `DisconnectionShown` and `StopEnds` stay with TLC.
So do the five violations. Every invariant, action property and refinement of the passing
runs is proved. The inductive invariants of `Framing` and `StandIn` are proved and in no
run's configuration, since the properties that follow from them are.

## 5. Not modelled

* Lines of `CMD_LEN` bytes or more, and several lines in one read: no client of the
  repository sends them. `Copied` has the branch of `read_msg` that cuts a longer line at
  the wrong place; that no line reaches it is shown, what it would do is not.
* TLS, the kernel and I2C: external; they succeed, fail or block as the code allows.
  A board that never acknowledges blocks the session for ever; nothing is said of it.
* Descriptors: connections are shut down, never closed; a count that only grows.
* Camera settings, `PCA9685_SetPWMFreq` and other start-up register writes,
  `motorQuit` (never called by the server).
* Of `takePicture` and `PictureWorker`, the decoding and storing of the image and the
  alerts. `takePicture` has no timeout: if the robot's image thread has gone while its
  socket still listens, the request and every later one wait for ever.
* `JmDNS` in client and stand-in; the tests themselves.
* Discovery, launcher, settings, alerts: windows and file I/O.
* The vendored headers (OpenSSL, cmocka, bcm2835, libsocket) and LaTeX, HTML and build
  files. They make up most of the lines of the repository: the program itself has some
  4,000 lines.

## 6. Plan

Done: `RobotProtocol`, `RobotLink`, `RobotServer`, `DriveTrain`, `MotorDriver`, `RobotClient`,
`RobotSystem`, `Framing`, `StandIn`, and the proofs of each.

Left, in order of importance:

1. `DriveTrain` under `RobotServer`: a command of the session made of `Tell`, `Shift`s and
   `Obey`, so that a process killed in the middle of a command leaves the wheels on their way.
2. Theorems of `RobotLink` and `DriveTrain` themselves, carried over to the programs by
   `Refinement`, `RobotRuns` and `TrainRefinement`.
3. Action properties of the image thread and of the client's connection.
