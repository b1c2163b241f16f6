# Specifications of the e2000d peripheral drivers

The repository holds the drivers and demonstration programs of an E2000D board
(`src/drv/00led_drv` … `10mpu6500`): five kernel modules and six user programs,
each in a directory of its own, without documentation or tests. This directory
models them in TLA+: what each program and driver does step by step, what it
promises, TLC runs that check the promises on small instances, and TLAPS proofs
of the ones that matter most for every value of the constants.

1. [Inventory](#inventory)
2. [Modules](#modules)
3. [Runs](#runs)
4. [Bounds](#bounds)
5. [Fairness](#fairness)
6. [Proofs](#proofs)
7. [Where the code and its comments part](#where-the-code-and-its-comments-part)
8. [Not modelled](#not-modelled)
9. [Plan](#plan)

## Inventory

### The parts

| part | state it keeps | operations | talks to |
|---|---|---|---|
| PWM library, `04pwm/led_pwm.c` | PWM nodes and attributes (kernel), pads, and in each worker duty and direction of the ramp | `pwm_init`, `pwm_config`, `pwm_open`, `gpio_mode` | PWM sysfs, `/dev/mem` |
| two-key dimmer, `04pwm/key.c` | mode, step, pid of the worker | export and open two keys, poll, change a setting, kill, wait, fork | the library (in a child), GPIO sysfs |
| GPIO set-up, in `03button`, `04pwm`, `06motor_step`, `07ultrasonic` | exported nodes, their `edge` and `direction`, open value files | access, export, configure, open, read | GPIO sysfs, which all four share |
| button program, `03button/key.c` | two value files | poll, read, report | GPIO sysfs |
| stepper motor, `06motor_step` | phase; coils | four value writes per phase, rest | GPIO sysfs, the motor |
| ultrasonic sensor, `07ultrasonic` | `start`, `end` | trigger, spin, poll, read, stamp, print | GPIO sysfs, the clock, the sensor |
| pad registers, `gpio_mode` (three copies) | none | open, mmap, store, munmap, close | `/dev/mem` |
| servo controller program, `05uart` | `buf`, `ret` | nine commands and their answers, three waits | a tty, the controller |
| LED device, `02led_drv` | the global `vaddr`; device file | open, read, write, init, exit | registers; `led_app` |
| ADC, `08pcf8591` | device file, region; in the program `key_val` and one byte | probe, remove, read, write; main thread and key thread | I2C, keyboard |
| display, `09sh1106` | device file, region; the display's pointers and memory | probe, remove, open (`oled_init`), write (a frame) | I2C; `sh1106_app` |
| memory module, `01mem` | `page_addr`, `kmalloc_addr`, `err` | `mem_init`, `mem_exit` | the kernel's allocator |
| LED stub `00led_drv`, IMU `10mpu6500` | see [Not modelled](#not-modelled) | | |

The directories do not call each other. They interact through what they share:
the programs of `03button` and `04pwm` the same two GPIO nodes, two instances of
any program its nodes, all users of `/dev/led` the one `vaddr`, two animations
the display's address pointers, two ADC programs the converter, the two I2C
modules the 16 bytes of pad registers at `0x32b300a8`, the display's programs the
pins its probe is still to switch, and the memory module and every character
device one free list of the kernel.

### What is hard about them

* **Interleaving.** A worker is a process of its own and is replaced while it
  writes; two programs race from `access` to `export`; calls of several
  processes meet in `vaddr`, in the display's pointers and its half-finished
  commands, and in the converter's last conversion; no driver has a lock that
  covers more than one transfer; an unbind runs `remove` under an open file.
* **Crashes and restarts.** A killed parent leaves its worker, a killed program
  its nodes, its coils and its event files; the next run meets them.
* **Partial failure.** `pwm_config` returns 0 for a refused write; the motor
  ignores its value writes and only reports a pad it could not switch; the
  ultrasonic program ignores the writes of its trigger; a failed first read of a
  value file is only reported; the display and the converter ignore every transfer;
  no driver looks at what `ioremap` returns, and no probe at the result of
  `register_chrdev`, `class_create` or `device_create`.
* **Ordering and stale state.** A value file that was just opened counts as
  changed; `buf` keeps the previous answer; an answer may come after the read
  that was meant for it, and shifts the following ones by one.
* **Numbers.** Only `tv_nsec` is used, so the clock starts again every second;
  a PWM duty is unsigned and must turn before 0 and before the period; the page
  mask is made from 4094.
* **Use after release.** The memory module keeps a pointer to what it has freed and
  frees it again when it is removed.
* **Liveness and deadlock.** `wait(NULL)` and `poll` wait without a timeout, a
  thread reads one key only, and loops wait for answers that may be lost.

`PROJECT.json` lists every such place under `hazards`, with the line and the
properties that cover it.

### What makes each part correct

* dimmer: at most one worker, with the settings the parent has; a key changes its
  setting, is shown, and is consumed; nothing but the own child is killed; the light
  breathes and is never altered in place.
* GPIO programs: configured pins once the set-up is through; every edge after it
  read once, none invented but by a failed first read; a program that lost a race
  succeeds when retried.
* motor: one coil at a time except at the wrap; never backwards; turning for
  ever on four switched pads.
* ultrasonic: pulses long enough, no wait for an answer that cannot come unless the
  round's own pulse was short or refused, no false time.
* `gpio_mode`: exactly the named bytes change.
* servo: waits for the key and for the motion, and ends.
* LED device: every word in its own register, no call harmed by another one's
  failed mapping.
* ADC, display: own channel, own frame, a display that is on; modules that give
  back what they took, device files that lead to their own driver or to none.

## Modules

One action stands for one system call (or one register access, one I2C
transfer), with everything the program does until the next one.

| module | models | state and actions |
|---|---|---|
| `LedPwm` | `led_pwm.c` | `nodes`, `chan`, `muxed` are the kernel's; `ipc` counts through `pwm_init`; `ramp[p]` is worker p inside `pwm_open`: `RampStep`, `RampFirst`, `RampSecond` are sleep and step, first and second `pwm_config` of a round, the exit at -1 included |
| `KeyPwm` (extends `LedPwm`) | `04pwm/key.c` | `kpc` is the place in `main()`, `pwmx`, `step`, `pid` its variables; `InitPwm`, `SetUp`, `Fork`, `Poll`, `HandleKey`, `Kill`, `Wait`; `Work`, `Die`, `InitReaps`, `Press`, `Crash`, `Restart` are the workers, the kernel and the user |
| `Dimmer` | what the dimmer promises | two settings, a light, and the lights that killed runs left on: `PressSpeed`, `PressMode`, `GoOut`, `LightUp`, `Reset`, `Abandon`, `LeftGoesOut` |
| `GpioSysfs` | the prologues of four programs and the loop of `03button` | every program is a sequence of sysfs calls (`KeyScript`, `MotorScript`, `UltrasonicScript`); `at[p]` is the next one; `ready`, `revents`, `due` are the kernel's event, what poll returned, and the edges not read yet; `unread` remembers the openings whose first read failed (`ReadFirst`) |
| `MotorStep` | `motor_step.c` | `SwitchPad` is one `gpio_mode` of `motor_step_init`, `SetUp`, `WriteValue`, `Rest` are the writes of direction, of value and the sleep; `pads` are the pads switched, `Pulled` is the motor |
| `Rotor` | what the motor promises | `Take`, `Advance`, `LetGo` |
| `Ultrasonic` | `ultrasonic.c` | `High`, `Stamp`, `Spin`, `Low`, `Poll`, `Read`, `Wake`, of which `High`, `Low` and `Read` may fail unnoticed (`Fault`); `Tick`, `Rise`, `Fall` are time and the sensor |
| `PadMode` | `gpio_mode` | `OpenMem`, `Mmap`, `Store`, `Munmap`, `CloseMem` on the masks of the code |
| `Steering` | `uart_steering.c` | `pc` indexes the script of commands; `Open`, `Send`, `Read`, `Test`; `Deliver`, `ServoStops`, `Press` are the wire, the servo and the user |
| `LedDev` | `led_dev.c`, `led_app.c` | `Map`, `Load`, `Store` are ioremap, which may return NULL, readl and writel, the steps of `LedOpen`, `LedRead`, `LedWrite`; `Die` is the oops of an access through NULL; `LedDrvInit`, `LedDrvExit` |
| `I2cModules` | probe and remove of `i2c_pcf8591.c` and `i2c_sh1106.c`, init and exit of `led_dev.c` | one action per kernel call, `Insmod` to `UnregisterChrdev`, each of which may fail unnoticed; `Bind` and `Unbind` are the driver's files in sysfs; `major[m]` is the number a device file names; `Open`, `Close` are users |
| `KernelModules` (extends `I2cModules`) | `memory.c` beside the device modules | `MemInsmod`, `GetFreePages`, `Kmalloc`, `FailureKmalloc`, `MemRmmod`, `ExitKfree`, `FreePages` are the calls of `mem_init` and `mem_exit`; `avail` is the free list, `record` what `register_chrdev` takes from it |
| `Pcf8591` | `pcf8591_read/write`, `app/pcf8591.c` | `Start` … `Join` are the main thread, `GetChar`, `Return` the key thread; `Convert` is the converter, which answers with its conversion before (`held`) |
| `Sh1106` | `oled_init`, `sh1106_write`, `sh1106_app.c` | one action per transfer, all 27 of `oled_init` (`InitCmds`) among them; `Command` (`Obey`, or `Eat` as a parameter) and `Data` are the display, `Wire` switches the pins |
| `Display` (extends `Sh1106`, instance of `I2cModules`) | the display's programs while their module is loaded | `PadMux` is `SwitchPins` and `Wire`; `DisplayOpen`, `DisplayExit` are an open and a close on both sides |

`MCKeyPwm`, `MCGpioSysfs`, `MCPadMode`, `MCPcf8591`, `MCKernelModules` and
`MCDisplay` give constants values a `.cfg` cannot write. A definition marked *Mutant* is a plausible bug in the
definition below it; no specification uses it.

Composition: `KeyPwm` extends `LedPwm`, and `GpioSysfs` runs two programs of
any kind side by side. `Display` joins the programs of `Sh1106` to the module
lifecycle of `I2cModules`: an open needs the device file, and a transfer the pins.
`KernelModules` puts the memory module and the allocator under the three device
modules. The set-up of the GPIOs is one step in `KeyPwm`,
`MotorStep` and `Ultrasonic`, because `GpioSysfs` takes it apart;
a call of `gpio_mode` is one step in `LedPwm`, because `PadMode` takes it apart.

### Data left out

Duties count in units of (duty2 - duty1)/1000 = 1 of the code's steps, so the
ramp of the code is `DutyMax = 1000`, `Fast = 10`. A register word is its bit 0
and the name of the register its other bits belong to. A byte on the display is
the frame, page and column it belongs to, and a byte of `oled_init` what the display
does with it where it expects a command: `two` and `pump` wait for a parameter. The 8-byte frames of the servo
protocol are two halves, of which the program tests the second. The clock is
`tv_nsec` alone, as in the code. Scaling of the measured time to centimetres,
termios flags other than VMIN/VTIME and the flush, and messages are left out. Eight
pages are one block, and 128 bytes one chunk.

### Outside the code

Modelled from how the code uses them and marked `external`: the kernel's PWM
sysfs (which writes it refuses), GPIO sysfs events, fork/kill/wait and the reaping
of orphans, the rotor and coils, the ultrasonic sensor, the display controller,
the servo controller, the converter, the driver core's files `bind` and `unbind`, and
the kernel's free list.

The choices behind them:

* `Node0` is the number in the name of the node of channel 0 of `pwmchip2`. The
  code tests and writes `pwm2`; a kernel that numbers per chip calls it `pwm0`.
  Both are checked (`KeyPwmLive` and `KeyPwmFaults`), and
  `RoundNeedsBothNodes` says what the second one leads to: no worker ever gets
  through a round, `main()` stays alive.
* The `LedDev` read through `vaddr` takes the address just assigned or loads the
  global again: `vaddr` is shared without a lock, and the compiler may do either.
* An arm64 kernel hands out no less than 128 bytes, so the 100 bytes of `mem_init`
  and the record of a character device come from one free list. A chunk freed twice
  is on it twice. When a record is on the free list, or two devices have the same
  one, anything may follow: the model stops there (`Sane`).
* The kernel refuses a device in a class that is an error number, and dies when it
  looks such a device up to destroy it (`DeviceCreate`, `DeviceDestroy`).
* Before the first `pad_mux` the pins belong to no I2C controller, and a transfer
  goes nowhere.
* The display takes the byte after a two-byte command as its parameter, whoever sends
  it. Which column a parameter taken for a command leaves the pointer in is not known,
  nor whether a command still waits after a data byte: both are open in the model. Of
  the charge pump's parameter one bit decides, so any byte but 0x14 may do either.
* The PCF8591 answers a read of one byte with the conversion before and then converts
  the channel just selected, as its data sheet says.
* A coil is driven by its GPIO only through a pad that is switched to GPIO. A pad stays
  switched when the program ends.
* A read of a value file that fails leaves the event of the file there.
* An access through a NULL that `ioremap` returned kills the process; the kernel then
  closes its files. A process that dies in `open` has no file yet, and its reference
  on the module stays (`pinned`).
* `unbind` runs `remove` although a device file is open, since `.owner` holds the module
  only; the module's code stays as long as the file is open. A device file names a
  major number, and the kernel may give a number that was given back to another driver.
* Pages of order 3 may be missing at any time, also on a first load: memory may be free
  in smaller pieces only.

## Runs

Every property has a mutant in `PROJECT.json`: a definition of the code changed
by one plausible bug, with which TLC finds the property violated in the same run.

| run | what it asks | what it shows |
|---|---|---|
| `key_pwm_live` | Does the dimmer dim? | Without faults `main()` and its workers implement `Dimmer` with its progress; a pressed key changes its setting, a worker comes to show it, and the edge is consumed; driven LEDs keep breathing; a replaced worker never writes after its successor has started. |
| `key_pwm_crash` | Does the parent keep its worker, whatever crashes? | The parent has at most the child it knows and kills no stale pid. Orphans of a crash keep driving the LEDs with the settings they had, at most one per crash, beside the run's own light. |
| `key_pwm_faults` | What do failing opens, writes, reads and forks lead to? | No round without both nodes, and `wait(NULL)` never blocks `main()` for good. |
| `gpio_sysfs` | Do two programs on the same pins get through? | One may lose the race for a node and give up, but retries succeed; a running program finds its pins as it set them and reads exactly the edges there were, and the opening of a file whose first read failed. |
| `motor_step` | Does the motor turn? | From any coils and detent, with failing pads and writes and a kill, it never turns back while the program has hold of it, and ends up turning for ever if its four pads are switched. |
| `ultrasonic` | What does the one-second clock do to pulse, wait and time? | A pulse that was raised is short only when `end` was never stamped or the second began anew; poll waits in vain only after such a pulse or a refused write of the same round; the spin ends unless `start` is in the last ticks of a second; a rollover suppresses a line and never falsifies it. |
| `display` | What do early, interleaved and failing transfers do to the picture and the light? | A write that no other process met is exact, whatever came before. A lost transfer, or a command the display takes for the parameter of one that was left unfinished, spoils its page and the one before at most; an undisturbed write can only meet that on its first page. The display is dark under an open animation only because of the last four transfers of some opening (0x30, 0x8D, 0x14, 0xAF): one was lost, another process's came between them, or they were sent between `device_create` and `pad_mux`. |
| `i2c_modules` | Do the modules give back what they took, and what is not theirs? | A probe is refused its region only beside a display module that was ever loaded or an ADC module that holds it; a device file leads to its own driver or to none, also after unbinds. Two devices share memory only after the memory module was removed; eight pages are lost by exactly the loads that failed. |
| `pcf8591` | Does each process show its own channel, and end? | It shows what its own channel measured one read ago, unless another process or a failed transfer came between; a first key 'q' always ends it, if there is a thread to read it, and nothing else does. |
| `steering` | Which late, lost and split answers do the waits survive? | One late answer breaks no wait for the servo, one lost one only where it stops; two may. The script ends unless a read finds half an answer. |
| `led_dev` | What may two processes do to the registers? | Everything lands where it should as long as no call moves `vaddr` under another; under the same condition a call dies only of a NULL its own `ioremap` returned, and none runs after the unload. |
| `pad_mode` | Does every address work? (expected violation) | No: an address with bit 1 set is refused by mmap. |

The histories (`clash`, `alone`, `lost`, `eaten`, `unlit`, `early`, `refused`, `unread`,
`stale`, `late`, `torn`, …) say under
which condition a property holds. Each condition is needed: without it TLC
violates the property, and the mutant shows that it is not so wide that nothing
is left.

## Bounds

* `DutyMax`, `Fast`: 20 and 10 in `KeyPwmLive`, so a fast ramp makes two steps
  and a slow one twenty; 2 and 2 elsewhere, where the ramp does not matter. The
  proofs hold for every `DutyMax` that `Fast` divides, the code's 1000 and 10
  included.
* `Pids`: two suffice for a worker and its unreaped predecessor; three in the
  crash run, for an orphan beside them. `MaxCrash = 1`: a second crash would only
  add another orphan; the theorems cover any number.
* `MaxFaults`, `MaxCrash` in `MotorStep`: two faults reach two writes of one
  phase, the writes of two phases, or a pad and a write; a kill and a restart come at
  any place.
* `GpioSysfs`: two processes and the three mixes that share pins. Two faults
  reach a failure in each of them, or a failure and its retry failing again.
* `Second`, `Pulse`, `Nap`, `EchoMax` = 9, 2, 2, 3: a second holds a whole round
  (pulse, echo, nap) and is short enough that every stamp meets every rollover.
  `MaxFaults = 2`: both writes of a trigger, or a write and a read, or those of two
  rounds.
* `Display`: `Pages`, `Cols`, `RamCols`, `Nibble`, `Frames` = 2, 1, 2, 1, 1: two pages
  make a page's data run past the next page command, and one column more in memory than
  in a frame makes the stop at the last column matter. With `Nibble = 1` the low column
  command moves nothing, so what losing it does is only in `FrameIsExact`, which is
  proved for every width. Two faults; two runs, by two interchangeable processes
  (`Twins`) or by one after the other; one load of the module: both may open early, or
  one early and one late.
* `Pcf8591`: two processes, one of whose arguments (256) is cut to a channel number.
* `MaxLate = 2`, `MaxLost = 1`: one more late answer than the waits survive. Both
  the ways a read and its answer can be out of step and an answer torn in two
  occur.
* `MaxRuns`, `MaxLoads`, `MaxFaults` in `LedDev`: three runs by two processes, over a
  reload, with two `ioremap`s that return NULL;
  `MaxLoads = 3` in `KernelModules`: a module is loaded, removed and loaded again
  beside another one. `Chunks = 2`: one each for two devices, or one left over.
  `Majors`: two numbers for three
  devices, so that one is given again. `Blocks = 2`, `MaxMems = 2`: two failed loads, or
  one and a removal. The theorems cover all.
* `Levels`: two, which are told apart.

`CHECK_DEADLOCK FALSE` is set where a bound (loads, runs) or the end of a script
lets the system stop, or a panic does: `Display`, `KernelModules`, `LedDev`,
`Steering`, `PadMode`.

## Fairness

* `KeyFairness`: a runnable process is scheduled, so `Main` and every `Work(p)` are
  weakly fair; a pending signal is delivered and init reaps. Nothing is assumed
  of `Press`, `Crash` or `Restart`.
* `GpioFairness`: running programs are scheduled, and `Start` is fair: a user
  starts again what ended. `RetriesSucceed` is about that user.
* `MotorFairness`: the running program only. `KeepsTurning` assumes that it is
  not killed for ever and that its pads end up switched.
* `UltraFairSpec`: the program, time and the sensor go on. Strong fairness of the
  end of the spin says that the program, which samples the clock many times a
  second, is not preempted at the end of every second for ever.
* `SteeringSpec`: the program runs, bytes arrive, the servo stops, and the user
  answers the prompt with the key.
* `PcfFairSpec`: both threads run. Nobody has to type.

`KeyPwmCrash`, `Display`, `KernelModules`, `LedDev` and `PadMode` check safety only.

## Proofs

TLAPS checks these for every value of the constants that the `ASSUME`s of the
modules allow.

| module | theorems |
|---|---|
| `KeyPwmProofs` (`LedPwm`, `KeyPwm`, `Dimmer`) | `PwmTypeCorrect`, `RampIsSafe`; `KeyTypeCorrect`, `WorkersAreTracked`, `KillsOwnChild`, `WorkerIsCurrent`, `DriversAreBounded`, `RampsAreSafe`, `WorkersAreSilent`, `KeyImplementsDimmer` |
| `PinProofs` (`PadMode`, `GpioSysfs`) | `PadStoresExactly`, `PadWordsWork`; `GpioTypeCorrect`, `SetUpIsKept`, `NoEdgeIsLost` |
| `MotorStepProofs` | `MotorTypeCorrect`, `MotorCleanPhaseIsExact`, `MotorOverlapOnlyAtWrap`, `MotorImplementsRotor` |
| `UltrasonicProofs` | `UltraTypeCorrect`, `PulseIsLongEnough`, `EchoIsAwaited`, `PrintsElapsed` |
| `SteeringProofs` | `SteeringTypeCorrect`, `KeyIsAwaited`, `MotionIsAwaited`, `OneLossStopsFirst` |
| `I2cModulesProofs` (`I2cModules`, `KernelModules`, `Pcf8591`) | `I2cTypeCorrect`, `I2cDeviceGone`, `I2cFilesReachTheirDriver`, `I2cRegionGranted`; `KernelImplementsModules`, `KernelTypeCorrect`, `KernelRecordsOwned`, `KernelLeaksAreFailedLoads`; `PcfTypeCorrect`, `PcfEndsOnRequest`, `PcfShownIsPrevious` |
| `DisplayProofs` (`Sh1106`, `Display`) | `Sh1106TypeCorrect`, `FrameIsExact`; `DisplayIsSh1106`, `DisplayIsI2cModules`, `DisplayedFrameIsExact`, `LitWhileShown` |
| `LedDevProofs` | `LedTypeCorrect`, `LedRegistersKept`, `LedShowsWhatWasWritten`, `LedMappedWhenUsed` |

Every safety invariant and every action property a passing run checks is stated by
one of them.

The inductive invariants, and why the properties alone are not inductive:

* **The ramp** (`RampOK`). That the duty stays in range says nothing about the next
  step, which may leave it. What stays true is that the duty is a multiple of the
  step, and that a worker about to step is not at the end it moves to; two
  multiples of the step that differ, differ by a step (`GridUp`, `GridDown`).
  Hence the assumption that `Fast` divides `DutyMax`.
* **The nodes** (`FoundNodes`). A round needs both nodes because a worker past its
  first write has found one, and nodes never go away.
* **The process table** (`TableInv`). The parent kills its own child because pid
  is set by the fork that made the child and a child leaves the table only in
  `Wait`; with at most one child, `Wait` can only take that one. Orphans must
  stay processes for a pid not to be handed out twice. A crash orphans the one
  child there is (`OrphansCounted`), which bounds the drivers by the crashes.
* **The dimmer.** The light is what the worker of the running parent shows. With at
  most one child (`ShownOne`), each step of the program changes it as `Dimmer`
  says, and keys come only when it is not stale (`WorkerShowsSettings`). Orphans are
  the lights left on: no step of the program changes what one shows (`LeftStays`).
* **The silent worker** (`SilentInv`). Without faults and crashes the parent lives, there
  are no orphans, and the one worker that runs is its child, so nobody else writes. Then
  what `pwm_init` wrote is still there (`PwmIsSetUp`), and so is what the worker
  wrote of its round (`Written`). Without both nodes the writes may be missing, but
  then no worker gets as far as the sleep (`RoundNeedsBothNodes`).
* **The set-up** (`GpioInv`). Every call behind `at[p]` still holds. It stays so beside any
  other program, because two programs that share a pin write the same values to it: a fact
  about the scripts (`ScriptOK`), which are finite sequences written out. With it every
  edge is an event of every open file, and an event that is no edge is the one a file is
  opened with, which a read still to come takes or a failed one has left (`unread`).
* **The motor** (`MotorInv`). `CleanInv`: the coils behind the write under way are those
  of the phase. `OverlapInv`: the ones from it on are those of the phase before,
  or off after the set-up. Together they give the levels of the GPIOs at every write, and
  through `pads` the coils driven. `HoldInv` adds the rotor, which a program has hold of
  only with its four pads: it moves in the write of the phase's own coil, or,
  in the first phase, in the write that switches off the last one. From it every
  step is one of `Rotor`.
* **The clock** (`UltraInv`). Whatever seconds end meanwhile, `now` is `start` plus the
  ticks since its stamp, or that less one second (`Elapsed`), as long as less than a second has
  passed; the trigger, if the write that raises it was not refused, has been high
  for at least as long (`HeldHigh`), and the spin is
  left with `end` past `start` by more than the pulse (`SpunEnough`). So a short pulse needs
  an `end` of another second or none at all, and a line is printed only of times of one second.
* **The servo** (`SteeringInv`). With one answer late or one thing lost, `InStep` counts the halves of answers on the wire and in
  the queue: none are left between two commands, or the answer that was late, or its second
  half. So the program is behind by one answer at most, and `StatusTrue` says that what a
  waiting loop reads is still of the turn before it, or of a servo that rests.
  Only with nothing lost is the target the one of the last turn (`Aimed`).
* **The device modules** (`StagesInv`, `MajorsInv`, `RegionInv`, `LedInv`, `FilesInv`). What a
  module has follows from how far it has come; the ADC module has the region only while
  bound or being removed, so it is never in its own way. A device file exists only while
  its module has the number in it, or when that was never a number, so two drivers never
  meet in one file (`MajorsInv`); and a module whose remove runs under an open file was
  unbound, so it stays (`FilesInv`).
* **The free list** (`ChunksInv`). Until the first removal every chunk is in one place:
  on the free list once, in one record, or between `kmalloc` and the label of
  `mem_init`. The pointer that stays behind needs no place, since only `mem_exit`
  uses it. `PagesInv` counts the blocks, the one in hand between `get_pages` and `free_pages` too. The steps of a module beside the allocator
  are steps it makes alone, so `KernelSpec` implements `I2cSpec`
  (`KernelImplementsModules`), and the theorems about `I2cSpec` hold there.
* **The converter** (`KeyInv`, `ConverterInv`). A key that was seen is the first one typed,
  and the thread has read it. The converter holds what the last reader's own channel
  measured at that read, so the next read of the same process gets that.
* **The picture** (`ShInv`). The pages behind a write that is alone show its frame
  (`Behind`) and the display's pointer is on none of them (`PointerOff`), or data would
  run into them when a page command fails; the page under way is right as far as
  it has come (`AtWork`). A failed transfer spoils the page it is part of and, when it was
  the page command, the page before, where the pointer was left (`Spoilt`); a command
  taken for a parameter does the same. What another process left waiting is ended by the
  first transfer of a write, and a write itself leaves nothing waiting (`Heard`), so only
  the first page can be spoilt that way.
* **The lit display** (`DisplayInv`). Until the pins are switched a process is in the driver
  only while the probe has made the device file and not yet come to them, or died
  (`Unwired`), which is what `early` remembers. `Opening` follows the four transfers that
  light the display: undisturbed, the first ends any command that waits, the pump's command
  waits for its own parameter, and the last is taken as a command. Afterwards nothing but an
  opening puts the display out: no page, column or data byte is `off`, and no pump command
  is left waiting to swallow one (`Lit`). `Display` takes the steps of both its parts
  (`DisplayIsSh1106`, `DisplayIsI2cModules`), so the theorems about either hold there.
* **The LED** (`OwnInv`). Without a clash every call between ioremap and last access
  finds its own register in `vaddr`, or the NULL its own ioremap returned, and a word
  about to be stored is of that register. `UseInv` needs the reference an open file
  holds on the module; one of an open that died is never given back.
* **The pad** (`PadInv`). Page and offset always add up to the address
  (`PageAndOffset`), and bit 1 is 0 in a word's address (`WordOnBorder`).

The proofs rest on the assumptions named in the modules (`DutyAssumption`,
`EnvironmentAssumption`, `ProcessAssumption`, `GpioAssumption`, `MotorAssumption`,
`UltrasonicAssumption`, `SteeringAssumption`, `LedDevAssumption`, `I2cAssumption`,
`KernelAssumption`, `Pcf8591Assumption`, `Sh1106Assumption`), all of which TLC evaluates
in the runs; the two theorems about `PadMode` state theirs, `Targets \subseteq Int`,
themselves. Those that say more than a type:

* `DutyAssumption`: `Fast` divides `DutyMax`, as 10 divides 1000;
* `UltrasonicAssumption`: pulse, nap and echo are each shorter than a second;
* `Sh1106Assumption`: a frame is narrower than the display's memory (128 and 132
  columns), and a multiple of the 16 columns the low column command reaches.

Only model-checked: liveness (`Breathes`, `PressTakesEffect`, `ParentNeverHangs`,
`FirstQuits`, `EdgesAreRead`, `RetriesSucceed`, `KeepsTurning`, `SpinEnds`, `Ends`,
`Completes`, and the progress part of `ImplementsDimmer`), because the prover has no
fairness reasoning and no `ENABLED`. What `SelectSeq` computes for every input would need
induction over data, which is out of the prover's reach; `NoEdgeIsLost` does not need the
order in which the loop of `03button` looks at its files.

The type invariants and `DeviceGone`, `EndsOnRequest`, `StoresExactly` and `WordsWork` are
proved and no longer run.

## Where the code and its comments part

Stated as a run:

* `pad_mode`: the comment of `gpio_mode` promises words, halfwords and bytes at any
  physical address (`04pwm/led_pwm.c:13-15`), but `MAP_SIZE` is 4094, so bit 1 of the
  address stays in the page offset and mmap refuses it. `PadWordsWork` proves that
  the registers the programs use, all multiples of 4, are not affected.

Met while modelling, and described by the properties' conditions, since no
comment promises otherwise:

* `07ultrasonic`: a `start` stamped in the last 10 µs of a second keeps the spin
  going for ever with the trigger high (`SpinEnds`). What is printed is the time
  since `start` of the trigger, not the length of the echo (`PrintedIsElapsed`):
  the rising edge stamps `start` anew only when the level is read before it falls. A
  refused write of the trigger goes unnoticed, and poll then waits for ever
  (`WaitsForEcho`).
* `09sh1106`: `remove` does not release the region probe requested, and probe reads
  through the NULL a refused request returns: the module cannot be loaded twice,
  and the two I2C modules cannot be loaded together (`RegionGranted`). The device
  file exists before the pins are switched, so a program that is quick enough
  initialises a display it cannot reach, and shows its frames in the dark; so does one
  whose last four transfers of `oled_init` another process's parted (`OnWhileShown`). A
  write that begins while another process is between a command of `oled_init` and its
  parameter has its page command taken for it, and the first page lands elsewhere
  (`FrameLandsExactly`).
* `02led_drv`, `08pcf8591`, `09sh1106`: no probe looks at the results of
  `register_chrdev`, `class_create` and `device_create`. Without a class the removal
  dies in `device_destroy` (`DeviceDestroy`). No `ioremap` is looked at either
  (`PinsUnmapped`, `MappedWhenUsed`).
* `08pcf8591`: the key thread reads one key, so a 'q' after another key is ignored
  (`FirstQuits`). What a process shows is the conversion before: its own of 200 ms ago, or
  the channel of another process that read in between, and the error number of a failed
  transfer is shown as a voltage (`ShownIsPrevious`).
* `03button`, `04pwm`, `07ultrasonic`: after a first read that failed, poll reports a key
  nobody pressed or an echo nobody sent (`EventsAreEdges`).
* `06motor_step`: a pad that could not be switched is reported and the motor stands still
  (`KeepsTurning`).
* `05uart`: two late answers, or half an answer read, put program and controller out
  of step (`WaitsForMotion`, `Ends`). `uart_setting` is documented to return the
  descriptor (line 95) and returns 0, which its caller only compares with 0. The
  two loops at lines 307 and 324 are left before their first round.
* `02led_drv`: all ioremap calls but the last stay mapped (`maps`).
* `04pwm`: a refused write of a PWM attribute is reported and the function returns 0.
* `04pwm`, `06motor_step`, `07ultrasonic`: the error returns of `gpio_mode` after mmap and
  munmap leave `/dev/mem` open.
* `01mem`: the success path falls through to `failure_kmalloc` and frees what the
  exit frees again, when it may be another device's (`RecordsOwnedUntilRemoval`). A
  load that fails keeps its pages (`LeaksAreFailedLoads`), and a machine without eight
  pages in one piece is stopped.
* `10mpu6500` does not compile.

## Not modelled

* `00led_drv`: declarations only.
* `10mpu6500`: undeclared `mpu6500_fops`, `reguest_mem_region`, `mutx_init`: there is no
  program.
* `09sh1106/i2c_sh1106.mod.c` is generated by the kernel build, `boot_ani.h` is picture
  data; Makefiles and the binaries beside the sources are build products.
* `06motor_step/gpio.c` is not linked into `motor_step` (its Makefile names
  `motor_step.o` only): a copy of the other directories' functions, of which `PadMode`
  covers `gpio_mode` as `motor_step.c` has it.
* A failing open of `/dev/sh1106`, after which `sh1106_app` writes nowhere.
* The rest of termios, the scaling of distances and voltages, and all messages.

## Plan

Order of the work, the most important behaviour first:

1. `LedPwm`, `KeyPwm`, `Dimmer`: processes, signals, crashes, refinement. *Done,
   proved.*
2. `GpioSysfs`: the races of the shared set-up. *Done, proved.*
3. `MotorStep`, `Rotor`: faults and restarts against a physical state. *Done, proved.*
4. `Ultrasonic`, `Steering`: time, late and lost answers. *Done, proved.*
5. `LedDev`, `I2cModules`, `Pcf8591`, `Sh1106`: drivers and their users. *Done, proved.*
6. `PadMode`. *Done, proved.*
7. `KernelModules`: the memory module, failing registrations, one allocator under all.
   *Done, proved.*
8. `Display`: programs and module lifecycle together. *Done, proved.*

Left:

* refinement: a `Frame` specification (a display shows one whole frame or is being
  written) that `Sh1106` implements while one process is alone, and a set-up that takes
  effect at once, as `KeyPwm`, `MotorStep` and `Ultrasonic` take it, that `GpioSysfs`
  implements up to its failures;
* liveness stays with TLC.
