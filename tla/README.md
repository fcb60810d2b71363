# TLA+ models of the AVP winch controller, its SD logger and the LCD daemons

This directory holds TLA+ models of three programs of the repository:

- the intelligent winch firmware in `src/arduino/Intelligent Winch/winch`, and
  its SD card logger;
- the Pertelian LCD daemons `src/pertd/pertd` (files) and `src/pertd/pertd2`
  (a FIFO), with `sendcommand`.

It also holds the TLC configurations that check the models, and
`PROJECT.json`, which lists the components, runs, mutants, source map,
findings and hazards.

## The system

The repository has several programs. The winch is the one with concurrency,
control and safety, and it is the core of this project.

The **winch** runs on an Arduino Mega. Its `loop()` lives in the main sketch,
which is not in the repository (only its prototypes, in `winch.h`). The loop
repeatedly:

- reads command lines from a TCP session and executes them
  (`cmdProcessorClass::readCommand`);
- reads position lines from a second TCP session
  (`PositionFeedbackClass::readPos`);
- refreshes its cache of the motor controller (`MM3Class::readController`).

Its parts are:

| Part | Source | State | Operations |
|---|---|---|---|
| Command interpreter | `cmdProcessorClass.cpp` | `m_target`, the line buffer | one branch per command; motion commands check the NO_RAISE / NO_LOWER / BRAKE predicates and, for feedback moves, recent feedback |
| MM3 driver | `MM3.cpp`, `MM3.h` | cached position and status, virtual limits, `m_stopped`, speed | `moveSetup`, `moveAtSpeed` (V), `moveToPos` (P), `moveRelative` (M), `stopMoving`, `setPos`, the virtual limits, `readController` |
| Register link | `MM3.cpp` (`readRegister`, `writeMM3`) | the serial line | one request, one response line, with a timeout and no retry |
| Motion Mind 3 controller | hardware | registers: position, velocity limit, function, pwm limit, virtual limits; last motion command; inputs | executes P/M/V within the limits and the inputs |
| Position feedback monitor | `PositionFeedbackClass.*` | last sample and its time, reference sample, two direction flags, target, `m_fb_delta` | `readPos`, `haveRecentPositionFeedback`, `setFeedbackDelta` |
| Motor bookkeeping | `MotorClass.*` | motor time, run start, idle stamp, max revolutions | `incrMotorTime`, `setMotorTimeDays`, `setMaxRevolutions` |
| EEPROM, Ethernet, SD logger | `EepromAccess`, `EthernetClass`, `sdLogger` | persistence, sockets, log files | I/O |

How the parts interact:

- A feedback-gated move (`up_distance`, `down_distance`, `move_to_position`)
  arms the controller with a velocity command and sets a flag in the monitor.
- From then on only `readPos()` stops the move. It stops when a sample reaches
  the target, or when two samples more than `m_fb_delta` ms apart show no
  progress.
- `stopMoving()` zeroes the controller's limits, accounts the run time and
  clears both flags.
- The interlocks are checked against the **cached** status and position,
  which `readController()` refreshes.

The **SD logger** (`sdLogger.cpp`) keeps four rings of log files on the
winch's SD card. A file name ends in two digits, so each ring has 100 numbers:

- `init()` runs after every reset. It finds where the ring resumes
  (`find_first_filename`, then `find_next_filename`) and removes the new file
  and the one after it (`remove_next_files`), so that a gap always follows
  the newest file. When free space is low it also removes the two oldest
  files.
- Logging appends to the current file and creates it on the first write.
- `incrementIfIntervalHasBeen()` moves to the next number
  (`increment_file_names`), with the same removals.

The **LCD daemons** drive a four-row Pertelian display. Both run one
single-threaded loop: they read their input, fill the rows (`fill_line`,
which scrolls a line longer than a row), show the date when there is nothing
to show, and sleep.

- **`pertd`** reads the text of row *i* from the data file `pert<i+1>`. Each
  iteration checks the control files (stop, backlight on/off, refresh). When
  `refresh_time_hit()` says so, it re-reads every data file whose `st_mtime`
  (whole seconds) differs from the one it recorded.
- **`pertd2`** reads commands from a FIFO with a non-blocking `read_line()`.
  A `lineN` command is followed by a timeout line, an end-of-data marker, the
  text and the marker again. `sendcommand` and other programs write these
  lines.

The energy monitor (`src/arduino/energy_monitor`) samples voltage and
current, computes power and totalizes energy, and reports values to
subscribers when `checkSubscriptions()` finds them due. `avp_setuid` is not
modelled (see "Not modelled").

## Modules

| Module | Models | Variables |
|---|---|---|
| `Motor` | `MotorClass` run-time accounting | `motorTime`, `motorRunTime`, `idleTime`, `maxRevolutions` |
| `PositionFeedback` (extends `Motor`, for RPM) | the monitor: `readPos` decisions, recency check, `setFeedbackDelta` into an `IntBits`-wide int | `fbPos`, `posFbTime`, `recentPosFeedback`, `oldPosFb`, `oldPosFbTime`, both flags, `moveTarget`, `fbDelta` |
| `MM3` (extends `PositionFeedback`) | the driver, its cache and the controller as a register record `hw`; each driver method is an operator from registers to registers | `currPos` (counts), `currStatus`, `vnlim`, `vplim`, `stopped`, `mSpeedPct`, `hw` |
| `Winch` (extends `MM3`) | composition: the command handlers, `ReadPos`, `Refresh`, the controller step, input changes and the clock | `now`, `cmds`, ghosts `runStart`, `creditMs`, `stallSince`, `stallGapsOK` |
| `MCWinch` | the constant sets of the configurations | none |
| `SdLogger` | one ring of the SD logger: `incr_fn`, `find_first_filename` and `find_next_filename` (RECURSIVE operators), `remove_next_files`, `init()` (succeeding or failing), logging, `increment_file_names`, and resets | `files` (the numbers that exist on the card), `cur`, `sdInitialized`, `pc` |
| `SdLogRing` | abstract: a bounded FIFO of log files, new files appended after the newest, files deleted only from the oldest end | `logs` |
| `PertDisplay` | what both daemons share: `fill_line` (RECURSIVE, with its recursion into the row above), the horizontal refresh of the four rows, `data_to_display`, the date rows, the closing message | none (operators only) |
| `Pertd` (extends `PertDisplay`) | `pertd`'s loop, and the writers of the data files and control files, and SIGUSR1 | the files, their mtimes, the writers' progress, the control files; the daemon's `pc`, `lines`, `pos`, `last_mod_time`, `last_refresh_time`, backlight, clock; ghost `checked` |
| `Pertd2` (extends `PertDisplay`) | `pertd2`'s loop, one action per step of `get_command` and of each command handler, and the refresh; the writers of the FIFO (`sendcommand`) | the unread FIFO lines, each writer's unwritten lines, the daemon's `pc` and handler state, `lines`, `pos`, timeouts, delays, backlight, clock |
| `RegisterLink` | the serial request/reply link of the MM3 driver: `readController()`, `stopMoving()` and `moveSetup()`+`moveAtSpeed()` as sequences of `R01`/`W01`/`V01` requests, `readRegister()`/`writeMM3()` waiting with a timeout, the controller serving requests in order, lost requests and replies, and late replies | the controller's registers, the request and reply queues, the call in progress and its remaining requests, `m_currPos`, `m_currStatus`, `badRead`, `m_stopped`, ghosts `posSrc`, `statusSrc` |
| `Broker` | the energy monitor's four `DynamicData` objects (voltage, current, power, energy), their `getData`/`setData`, the subscription methods, `subscriptionDue()` and `checkSubscriptions()`, over a `millis()` that rolls over | `now` (real ms), `val`, `changed`, `sub` (rate, max, time, on-change per object), the energy object's `_last_sample_time`; ghosts `eRef`, `eLastReal`, `subReal` |
| `MCPertd`, `MCPertd2` | the data files' versions and the writers' commands | none |

The `EXTENDS` chain follows the code's dependencies:

- `PositionFeedbackClass` reads `Motor.getRPM()`.
- `MM3Class::stopMoving` calls `Motor` and `posFB`.
- The command interpreter calls all three.

How the winch code maps to the model:

- **Command actions.** Each command action is one branch of `readCommand()`.
  Its guard is the branch's parameter checks and interlocks. Its effect is the
  calls the branch makes, composed in order: for example,
  `hw' = MoveAtSpeedRegs(MoveSetupRegs(hw, pct), -pct)`.
- **Rejected commands.** A rejected command changes nothing, so it is a
  stuttering step. The one exception is the refusal for stale feedback: its
  `haveRecentPositionFeedback()` call clears `m_recentPosFeedback`, so it is
  the action `CmdFeedbackRefused`.
- **`ReadPos(v)`.** This is `readPos()` receiving a valid line. It adopts the
  sample, and it calls `StopMoving` when the up block or the down block of the
  code would stop.
- **`Refresh`.** This is `readController()` with each of the position and
  status reads either answered or timed out. A timed-out read returns
  `atol(NULL+1)`, which is 0 on the ATmega (address 1 is the zero register),
  and sets `badRead`.
- **The controller.** `MotorStep` moves the motor `StepCounts` counts toward
  the goal of its last command. It moves only when the PID is on, the velocity
  and pwm limits are non-zero, and there is no BRAKE input. It stops at the
  virtual limits and never moves in a direction that NO_RAISE (up, negative
  counts) or NO_LOWER (down) forbids. The controller keeps its last P/M/V
  command across `stopMoving()`, because the driver stops the motor by zeroing
  limits rather than by cancelling the command.
- **Data abstraction.**
  - Positions are encoder counts with the real CPR of 4000.
  - Revolution inputs are whole revolutions.
  - Sensor positions are small integers.
  - Times are multiples of `TickMs`.
  - Speeds, amps, tuning and log output are left out.

How the MM3 serial link maps to `RegisterLink`:

- A driver call (`Begin`) sends the first request of its sequence. Each
  `Receive` or `Timeout` is one return of `readBytesUntil()`; `Complete` does
  what the code after it does (parse the value after '=', set `badRead`, the
  sanity check and `setPos()` write-back of `readController()`, `m_stopped`)
  and sends the next request.
- A timed-out read leaves an empty buffer, which `atol(NULL+1)` reads as 0
  and which sets `badRead`. A write's reply is only logged.
- Nothing flushes `Serial3`, so a reply that arrives after its timeout is the
  line the next call reads. `LateReplies` allows a timeout while the reply is
  still on its way.
- The function register is kept as its DISABLEPID bit, the only bit in which
  `FN_REG_STOPPED` and `FN_REG_MOVING` differ.

How the energy monitor maps to `Broker`:

- The sketch that calls the objects is not in the repository, so each method
  is an action the environment may take at any time. The one assumption is
  that energy is sampled at least once per `millis()` rollover period.
- `millis()` is the real time modulo `2^ClockBits` (32 bits in the code); an
  interval is the unsigned difference of two readings, as in the code.
- A sensor sample (`SampleADC`) is an ADC reading converted and stored with
  `_setDataValue()`; the conversion is abstracted to a small set of values.
  NaN is a model value that compares unequal to everything, itself included,
  and that propagates through `*` and `+`.
- Energy is kept in W*ms (`MS_PER_HR` times the code's Wh), so the division
  is exact.
- `_data_changed` is never initialized by the constructor, so `Init` takes
  either value for each object.
- Min/max tracking and sample-time strings only feed the reports and are
  left out.

How the SD logger maps to `SdLogger`:

- A file number is the integer `msd*Base + lsd`; `Base` is 10 in the code.
  `IncrFn` is `incr_fn()` digit by digit, including the wrap of "99" to "00".
- `SdInit(lowSpace)` is all of `init()` when the card and file system come
  up: the search, the removal after the new number, and, when `lowSpace`, the
  removal of the two oldest files. `SdInitFailed` is `init()` when
  `cardBegin()` or `fsBegin()` fails.
- Whether free space is low is a free choice at each rotation, as
  `getFreeSpaceMB()` is outside the model.
- `Reset` loses the RAM and keeps the card.

How the daemons map to `Pertd` and `Pertd2`:

- A line is a sequence of characters, drawn from a few letters, the blank, the
  newline and the digits. The date and the closing message are model values.
- **`pertd`.** `TopOfLoop` is the top of `main()`'s loop: the backlight and
  refresh files and `refresh_time_hit()`. `ReadDataFile` is one pass of
  `read_data()`'s loop for one file, including `data_file_changed()` and the
  string handling. `Show` is the fill, the date and `sleep_us()`. A writer
  either replaces a data file whole (`ReplaceFile`), or truncates it and then
  writes it (`TruncateFile`, `WriteFile`), as a shell redirection does.
- **`pertd2`.** Each `read_line()` the daemon makes is one step, so a writer
  can interleave between any two of them. `Write(w)` is one `write()` of the
  writer's remaining lines; with `Chunked`, of any part of them.

## Properties and runs

### Passing runs

**`feedback_moves`** (`MCWinchFeedback.cfg`, 2.07M states, about 50 s). It
runs feedback-gated moves, stop and the stale-feedback refusal against sensor
samples 0..2, over 6 s at 1 s resolution, with 2 commands. It checks:

- **`StallDetected`**: if the feedback position stays constant during a
  monitored move, and the sensor reports at least once a period, the move is
  stopped within `2*delta + 2*period` of the position becoming constant. The
  delta is the interval the move's speed calls for.
- **`MotorTimeNeverOvercounts`**: across double stops, feedback stops and
  stops of an idle motor, the accumulated motor seconds never exceed the time
  the driver was actually running.
- **`TypeOK`**.

**`open_loop_moves`** (`MCWinchOpenLoop.cfg`, 407k states, about 16 s). It
runs revolution moves, `move_to_revolution`, `set_zero`, `max_revolutions 1|2`
and `reset_motor_time`, with the NO_RAISE and NO_LOWER switches changing,
reads timing out, and 3 commands. It checks:

- **`CachedPositionWithinLimits`**: this is the spec's invariant
  `|currentPosition*CPR| <= virtualPositiveLimit` after every refresh. It is
  reached, for example, by shrinking the limits below the controller's real
  position, which the sanity check then rejects.
- **`MotorTimeNeverOvercounts`**.

The type invariant of `MCWinch` is checked once, in `feedback_moves`.

**`lcd_fifo_atomic`** (`MCPertd2.cfg`, 9,398 states). Three writers send
line commands (one longer than a row, with a timeout), delays, backlight
commands, a line that is no command, and stop, each in one `write()`. It
checks:

- **`DisplayedLineIsSentMessage`**: every row shows text that a writer sent
  for that row: each stored line (`lines[]`) is the text of one `lineN`
  command for that row, its text lines joined with blanks as `get_line()`
  joins them, and its `timeout[]` is that command's timeout; no marker,
  timeout or command line is ever stored as text. The commands of
  different writers interleave, and timeouts expire lines.
- **`TypeOK`**.

**`lcd_files`** (`MCPertd.cfg`, 387,904 states, about 1 min). Row 0 is
replaced whole; row 1 is truncated and then written; no file changes twice in
one second. The control files and SIGUSR1 arrive at any time. It checks:

- **`LineReflectsFile`**: a data file that the daemon checked in a later
  second than its last change is shown as the file describes it: the trailing
  newline trimmed, the other newlines as blanks, and " - " appended to a line
  that must scroll.
- **`LinesCatchUp`** (liveness, under `FairSpec`): once the writers are done,
  every row eventually shows, and keeps showing, what its file describes,
  unless the daemon was stopped.
- **`TypeOK`**.

**`sd_log_rotation`** (`SdLogger.cfg`, 290 states). It covers logging,
rotations with and without low free space, failed start-ups and resets, on a
ring of 9 numbers. It checks:

- **`ImplementsRing`**: the logger refines `SdLogRing`. The refinement
  mapping reads the files on the card in ring order, from the number after
  the current one; before `init()` has run, it reads from the number where
  `init()` would resume. So every step keeps the ring, appends the newly
  created file after the newest, or deletes the oldest files. A gap always
  remains, and after a reset the logger resumes after the newest file, also
  past the wrap from "99" to "00".
- **`TypeOK`**.

Every property of a passing run has a mutant in `PROJECT.json`. For example,
the reference sample updated on every sample makes `StallDetected` fail, and
`stopMoving()` without its `if(!m_stopped)` guard makes
`MotorTimeNeverOvercounts` fail. In the same way:

- `remove_next_files()` removing only one file breaks `ImplementsRing`;
- the refresh period restarted on every pass of `pertd`'s loop breaks
  `LinesCatchUp`;
- `read_data()` without its newline loop breaks `LineReflectsFile`;
- a bad timeout left in the FIFO breaks `DisplayedLineIsSentMessage`;
- `readRegister()` not setting `badRead` on a timeout breaks
  `CacheFromOwnRegister`;
- `stopMoving()` without its pwm-limit write breaks `StoppedMeansHalted`;
- the interval as a signed difference breaks `EnergyTotalized`;
- `millis() > time + rate`, whose sum wraps, breaks `SubscriptionNotEarly`.

**`register_link`** (`RegisterLink.cfg`, 16,941 states, about 1 s). Up
to four driver calls (reads, stops, moves) with up to two requests or
replies lost, and no late replies. It checks:

- **`CacheFromOwnRegister`**: every position and status in the cache is the
  reply to the read of that very register, never another read's reply, an
  "OK" or the empty buffer of a timed-out read.
- **`StoppedMeansHalted`**: when no call is in progress and `m_stopped` is
  set, the controller cannot move, even when some of `stopMoving()`'s writes
  were lost. Each of its three writes alone disables the motor, so two losses
  are survived; with `MaxLost` 3 all three are lost and TLC shows the
  controller moving while `m_stopped` is set. That is the bound of the
  claim, not a finding.

**`energy_broker`** (`Broker.cfg`, 1.34M states, about 35 s). Voltage and
current samples of 0 or 1, power and energy samples, resets, and
subscriptions of the energy object with rate 2 and max 0 or 3, in any order,
over 10 ms with a 3-bit `millis()`, which rolls over at 8 ms. It checks:

- **`EnergyTotalized`**: once the energy total is a number, it is the sum,
  over the energy samples, of the power at that sample times the real time
  since the previous one: `_getTimeDelta()` measures the interval right
  across a rollover.
- **`SubscriptionNotEarly`**: `checkSubscriptions()` reports an object no
  sooner than its rate after its last subscription message in real time,
  also across a rollover, when its max is not below its rate.

### Violation runs

Each violation run checks one statement of the spec that the code does not
meet. See `findings` in `PROJECT.json`.

| Run | Property | What TLC shows |
|---|---|---|
| `early_progress_stop` | `NoEarlyProgressStop` | the reference sample from before a move (or the initial 0 at time 0) is compared with the first sample of the new move, less than one interval after it started |
| `interlock_stale_position` | `InterlockRespected` | `move_to_revolution` judges the direction from the cached position; after the motor moved, it arms a raise with NO_RAISE set |
| `lcd_fifo_chunked` | `DisplayedLineIsSentMessage` | a `line1` command that reaches the FIFO in two `write()`s: `read_line()` returns NULL in between, and the daemon stores a truncated line, or takes the timeout as the end marker |
| `register_link_late` | `CacheFromOwnRegister` | with replies allowed to come late and no losses: three reads of `readController()` time out while their replies are on the way; the status read then takes the position read's reply, and `m_currStatus` holds a position, which the limit-switch checks read as NO_RAISE/NO_LOWER bits |
| `lcd_files_truncate` | `LineReflectsFile` | the writer truncates `pert2` at second 10; the daemon reads the empty file and records mtime 10; the write lands in the same second, the mtime stays 10, and the row stays empty for good |

### Bugs that a unit test reaches

These disagreements were found while modelling. Each shows up in one or two
calls, so they are listed here rather than given a run:

- `down_distance` then `up_distance` leaves both feedback direction flags set
  (`cmdProcessorClass.cpp`). The spec says the flags are exclusive and reset
  when a move starts.
- A move command while the motor runs calls `moveSetup()`, which restarts
  `m_motor_run_time` (`MM3.cpp`). The earlier part of the run is never added
  to the motor time.
- In `pertd.c:385`, `if (line[strlen(line)-1] = '\n')` assigns instead of
  comparing. The last character of every data file is dropped, newline or
  not.
- `fill_line()` advances `pos[]` also in its recursive calls for the empty
  rows below a long line (`pertd2.c:494`), so the row below skips a character
  and scrolls by more than one per refresh.
- `move_to_position` to the current feedback position after a feedback move
  and a stop calls `moveSetup()`, which re-enables the controller; the
  controller still holds the previous V command and the motor runs with no
  feedback flag set (`cmdProcessorClass.cpp:298`).
- `subscribe(rate)` sets the max interval to 0 (`broker_data.h:105`), so an
  on-change subscription is due every millisecond: the rate and the
  on-change filter are bypassed.
- `EnergyData::getData()` before the power object's first sample multiplies
  by NAN; the total stays NAN until `setData()` (`E_Mon.cpp:137`).
- `lookupACSoffset()` computes `Vcc_mV * 0.1` without assigning it for the
  ACS715 models (`E_Mon.cpp:63`), so their offset is 0.
- At 2 % of 20 RPM, `setFeedbackDelta()` computes `m_fb_delta` = 37500,
  which wraps to -28036 in the ATmega's 16-bit `int`; the progress check then
  never stops a stalled payload. `PositionFeedback` keeps the width as
  `IntBits`, but no run checks that speed: the passing runs use 50 % of
  30 RPM, whose interval of 1000 ms fits the int.

### Bounds

The bounds are chosen so that the interesting cases happen within them.

- **Time.** `MaxTime` 6 s at a 1 s tick, a 1 s sensor period and
  pct 50 at 30 RPM, which gives delta = 1 s. The stall bound is 4 s, so a move
  armed at 1 s can still show a violation before the horizon.
- **Revolutions and steps.** Two steps of 2000 counts cross a revolution, and
  the virtual limits (±5000 or ±9000 counts) are reachable.
- **Commands.** Two or three commands are enough for every interleaving in
  the findings. Each finding needs at most three.
- **Speed.** Speed 50 is the only feedback speed that is allowed
  (`FeedbackMaxSpeed` = 50) and that gives a non-zero velocity register.
- **SD logger.** `Base` 3 gives a ring of 9 numbers. The ring wraps, and the
  wrap of "22" to "00" (the model's "99" to "00") is reached within a few
  rotations. Both branches of the digit-wise increment (the last digit
  rolling over into the first, and the whole number wrapping) are taken, as
  with 10.
- **`pertd2`.** `Width` 3 makes a 4-character line scroll. `MaxIter` 8 is
  enough for every writer's commands to be read in any interleaving.
- **`RegisterLink`.** `MaxOps` 4 lets a read follow a stop or a move and
  allows the three timeouts of the late-reply trace. `MaxLost` 2 is the most
  `stopMoving()` survives (see above). `VPLim` 3 with `Status` 4 makes a
  status value misread as a position fail the sanity check, so the
  write-back path is taken.
- **`Broker`.** A 3-bit `millis()` over 10 ms rolls over once, which is
  what the rollover code has to survive; a rate of 2 and a max of 3 let a
  stamp fall just before the rollover and its interval end after it. Only
  the energy object is subscribed: it is the one whose value changes at
  every sample, and a second subscribed object multiplies the states beyond
  the time limit without a new case.
- **`pertd`.** `Width` 3; `DelayTime` 0.5 s with `RefreshTime` 1 s, so that
  two changes of a file can fall in one second and the files are read every
  fourth iteration. `Epoch` 10 s. `MaxIter` 10, and `QuietAfter` 4: the files
  change only in the first four iterations, which leaves the daemon at least
  two read passes after the last change.

### Fairness

Only `LinesCatchUp` is a liveness property. `FairSpec` assumes weak fairness
of `pertd`'s own loop steps (`Stop`, `TopOfLoop`, `ReadDataFile`, `Show`).
The daemon is a single process whose loop always goes on after
`sleep_us()`, so an enabled step is eventually taken. Nothing is assumed of
the writers, the control files or SIGUSR1, which are other processes.

No fairness is assumed anywhere else:

- In the winch, the operator and the sensor are environment, and the main
  sketch that schedules the loop is not in the repository.
- The SD logger's rotation is called from that same missing sketch, so
  nothing justifies a rotation rate.

## Not modelled (yet), and why

- **Link faults in `Winch`.** `Winch` keeps the driver's calls atomic; the
  faults of the link are checked in `RegisterLink` on its own, which leaves
  out the commands, the feedback monitor and the clock. A corrupted byte
  (a reply that parses to another number) is not modelled, only lost and
  late lines.
- **Byte-level line assembly.** In `readPos` and `readCommand`, the index is
  reset on each call, `posBuf` has no bound, and a backspace at index 0
  underflows.
- **Commands left out.** Tuning, network, `amps_limit`, `motor_cpr` /
  `motor_rpm` / `fb_period` (constants here), `save_state` / `reboot`, and the
  push buttons of the main sketch.
- **Values out of TLC's reach.** Virtual-limit overflow near 2^31 counts and
  `TimeSince()` beyond 2^31 ms are beyond TLC's integers.
- **I/O-only parts.** EEPROM, Ethernet and the SD logger's printing.
- **SD logger.** The uptime text and the directory creation are not modelled.
  The interval test in `incrementIfIntervalHasBeen()` computes
  `d*24*60*60*1000` in a `long`, which overflows past 24.86 days, and uses
  `millis()`, which rolls over. Both lie in 32-bit ranges beyond TLC's
  integers, so rotation is a free step. Each of the four rings runs the same
  code on its own names, so one ring is modelled.
- **`pertd`.** `read_config()`'s parsing, `daemon_init()`, and the vertical
  mode are not modelled; `inVerticalMode()` always returns 0, so the
  vertical mode is dead code. A data file that changes between `stat()` and
  `fread()` is not modelled either, as a `read_data()` pass is one step.
- **`pertd2`.** The configuration file parsing and the serial I/O are not
  modelled.
- **Energy monitor.** The sketch that schedules the objects and sends the
  messages is not in the repository. `StaticData`, `TimeData` (it sets the
  RTC), the JSON helpers and `freeRam()` have no behaviour beyond
  formatting and I/O. The ADC conversion and its `uint16_t` overflow for
  large dividers are abstracted to a set of readings.
- **`avp_setuid`.** `setuid(0)` followed by `system()`; no state.

## Plan

1. *(done)* Core: `Motor`, `PositionFeedback`, `MM3`, `Winch`, with the two
   passing runs and four violation runs (one of them since retired to the
   list of bugs a unit test reaches).
2. *(done)* **RegisterLink**: the serial request/response with timeouts, late answers
   and lost writes, as a module of its own. Properties:
   - every value adopted into the cache came from the register it was read
     from;
   - `stopMoving` leaves the controller unable to move unless a write was
     lost.
3. **Conversions**: pure operators (`SpeedRegister`, `RoundedCounts`, the
   amps register, the virtual limits in a scaled long) checked against the
   spec's reference definitions (nearest integer, `round`).
4. **Abstract feedback move**: a spec `idle -> moving -> stopped` with
   "stopped by target or by stall", and `Winch` shown to refine it.
5. **LineBuffer**: `readPos` / `readCommand` byte handling across TCP
   segments.
6. *(done)* **sdLogger** rotation refining a FIFO ring, **pertd2**'s FIFO
   protocol and scrolling, **pertd**'s file polling with its liveness.
7. *(done)* **Broker** subscriptions: `subscriptionDue()` against `millis()` wrap.
