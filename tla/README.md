# Verification of the knob firmware

TLA+ models, model-checking runs and machine-checked proofs for the firmware of
the Waveshare ESP32-S3 knob: `src/main`, its four support packages under
`src/components`, and the SPI panel IO of ESP-IDF that it streams pixels through.
`PROJECT.json` holds the exact correspondence: every definition with its source
lines, every run with its properties, every property with a mutated definition
that breaks it.

Contents: [1 The system](#1-the-system) · [2 Modules](#2-modules) ·
[3 Runs](#3-runs-bounds-and-results) · [4 Fairness](#4-fairness) ·
[5 Proofs](#5-proofs) · [6 Disagreements](#6-disagreements-between-code-and-comments) ·
[7 Not modelled](#7-not-modelled)

## 1 The system

An ESP32-S3 with a round touch display and a rotating bezel. The firmware is a
set of FreeRTOS tasks on two cores, none pinned to a core, which share plain
`volatile` variables and hardly a lock. The user interface (LVGL and every
button callback and timer) runs in one task; the one mutex is LVGL's own.

| Component | State | Operations | Runs in |
|---|---|---|---|
| Menu router | `current_menu`, `menu_stack`, 14 widget pointers | `show_menu`, `push_menu`, `pop_menu`, 17 buttons | LVGL task |
| Audio diagnostics | per worker: state, last error, stop flag, task handle, I2S channel pointers | start, request stop, the worker itself | LVGL task + `mic_capture_task`, `dac_tone_task`, `audio_loopback_task` |
| Battery page | sample state, error, published scalars, ADC unit, handle | start the worker, sample, render | LVGL task + `battery_adc_worker_task` |
| Bezel decoder | levels and 8-bit debounce counters of two phases | sample every 3 ms, call back left/right | `esp_timer` task |
| Encoder path | event group bits, `encoder_steps` | set bits, accumulate, consume | `esp_timer` + encoder task + LVGL task |
| BLE connection | `s_adv_data_ready`, `s_hid_started`, `s_ready`, `s_connected`, `s_advertising` | GAP and HID callbacks, `media_try_start_advertising` | Bluetooth task + `ble_hidd_events` |
| Media commands | `s_command_queue` (24 keys) | `media_controller_send`, press, hold, release | LVGL task + `media_command_task` |
| microSD diagnostic | `sd_card`, `sd_card_mounted`, the test file | mount, unmount, R/W test, list | LVGL task |
| Audio samples | gain, mute, the block in work, the meters' levels | one block after another; slider and mute callbacks | worker tasks + LVGL task |
| Touch, haptics, I2C | state last given to LVGL; the registers of the DRV2605, which outlive a reset | read the touch controller; effects, stop, RTP test as register writes | LVGL task |
| Display | `lvgl_mux`, two draw buffers, the panel IO's transaction pool | port task, flush, chunks, end-of-transfer interrupt | LVGL task, main task, SPI interrupt |
| Boot | which parts exist | `app_main`, `media_controller_init` | main task, beside all that it starts |

**How they interact.** Buttons of a page call start and stop functions of the
diagnostics in the LVGL task; these create worker tasks, which report only
through shared variables that LVGL timers poll (no worker touches a widget).
The loopback worker stops the two other audio workers and waits until it sees
their handles and channel pointers vanish. The battery worker watches
`current_menu` and ends by itself. The encoder's volume steps and the media
page's buttons call `media_controller_send`, whose queue decouples LVGL from the
radio. Mounting the SD card is refused while the microphone worker lives. The
first touch of a button runs its callbacks inside `lv_timer_handler`, with
`lvgl_mux` held, and they write to the haptic driver before LVGL goes on to draw
and flush; `app_main` takes the same mutex to build the first page.

**What is hard, and the property that makes each part correct.**

* *Audio.* Three tasks hand two I2S controllers to each other through unlocked
  flags: no two may drive one controller, none may leave a channel allocated, a
  stop request has to end its worker even if it arrives while the worker
  overwrites its state, and leaving the page must end all of them.
* *Battery.* A worker that is about to end overlaps its successor when the page
  is left and opened again; only one may own the ADC, its scalars are written
  and read one by one, errors are retried.
* *Bezel and encoder path.* Counter overflow in a long pulse; a lost-update race
  on `encoder_steps`: no step in a direction that was not turned, no step kept
  for ever, and none lost on the way to the page but by that race or a page change.
* *BLE.* Callbacks of two tasks test and set four flags, and events overtake
  each other: the knob must never be left unreachable, and its flags must agree
  with the radio in the end.
* *Media commands.* The queue is bounded, reports are refused, hosts leave:
  commands stay in order, none is pressed twice, none waits for a host.
* *Menu.* The history is bounded, widgets are deleted under global pointers.
* *microSD.* Every file operation may fail half-way, and cards are swapped:
  flags follow the driver, a test passes and cleans up for the right reason.
* *Audio samples.* Gain and mute change while a block is processed, samples leave
  16 bits, the square root and the decay are integer: one setting per block, no
  wrap, the exact root, a bar that comes down.
* *Touch and haptics.* Every bus access may fail, with or without effect, and a
  reset stops the ESP32 but not the chip: no motor left running without a cause,
  no effect made of another's registers, one button per touch and page, also when
  a button changes the page under a finger that stays down.
* *Display.* Pixels are swapped in place, buffers alternate with the DMA, the pool
  of descriptors is found by counting: what is sent is what was drawn, and LVGL is
  told of the end of a flush exactly when its last chunk is out.
* *Boot.* Tasks, timers and interrupts start while later parts are still made:
  whatever runs finds what it refers to, and an optional part that is out of order
  keeps no page from coming up.

`PROJECT.json` lists each hazard at the line where it bites.

## 2 Modules

| Module | Models | Notes |
|---|---|---|
| `AudioArbiter` | what the audio diagnostics promise | abstract: a worker holds all its controllers or none |
| `AudioWorkers` | three workers, their start/stop, Back | one action between two points where another task can tell the difference |
| `BatteryAdc` | the Battery page and its worker | finishing and new worker coexist; scalars published and copied one at a time |
| `KnobDebounce` | `iot_knob_create`, `process_knob_channel` | 8-bit counters modulo 256; a history variable counts samples |
| `EncoderPath` | callbacks, event group, encoder task, scroll timer | `encoder_steps++` is a load and a store |
| `MediaAdvertising` | BLE callbacks and flags | the stack's two queues and the radio are external, modelled from their use |
| `MediaCommands` | send, queue, report task | composes `MediaAdvertising` by `INSTANCE`; reads its flags |
| `MenuTree` | what navigation promises | abstract: pages form a tree, Back goes to the parent |
| `MenuNavigation` | the router with bounded history and widget pointers | |
| `SdCard` | mount, unmount, list, R/W test | one action per file operation; the driver and the card are external |
| `KnobUi` | composes `MenuNavigation` and `SdCard` with the microphone's guard | |
| `SquareRoot` | `mic_isqrt_u64` | one action per turn of its loops; the word width is a constant |
| `LoopbackBlock` | one block of the loopback: mean, snapshot, gain, saturation, levels | extends `SquareRoot`, which it calls twice per block |
| `SoundMeter` | the microphone's level scale and the decay of its bar | extends `LoopbackBlock`: the two never run at once |
| `DisplayFlush` | mutex, port task, flush callback, panel IO, transfer interrupt | LVGL's drawing and the SPI driver are external |
| `TouchHaptics` | touch reading, PRESSED, the DRV2605 functions as scripts of register accesses | the chip is external and survives resets |
| `Boot` | `app_main` and `media_controller_init` as an order of parts | three kinds of part: checked, optional, unchecked |
| `Faults` | the budget of failures and resets that all parts of `Device` share | a bound, not code |
| `Device` | composes `Boot`, `DisplayFlush` and `TouchHaptics` | a reset returns everything but the chip and the finger to the start |
| `*_proofs` | theorems and proofs of the module named | |
| `MC*` | instances for TLC | |

Correspondence, in the modules' own words: a variable is named after the global
it stands for, or its comment names it; an action is named after the function,
or the part of it, that it models. Program counters (`pc`, `taskPc`, `uiPc`,
`sdPc`) stand for the point a task has reached. Functions that run within one
task and touch nothing that another task writes are one action.

**Data left out.** In the state machines, samples, gains and meters (they are
`LoopbackBlock`'s and `SoundMeter`'s); coordinates; texts; LVGL layout; which key a
media command stands for; error codes beyond those a property distinguishes.
The size of a report or file is reduced to whether it is whole, short or
damaged. In `AudioWorkers` error codes are reduced to OK, FAIL, TIMEOUT, NO_MEM.

**External parts.** `i2s_new_channel` allocates a controller, and may fail, as may
the configuration of a channel and each transfer; `i2s_del_channel` frees it, and
refuses only a channel that runs, which the cleanup has disabled before. The ADC
driver may fail likewise. Unmounting a card that is mounted cannot fail. Other
FatFs calls fail at will, and always for a card that left the slot;
`esp_hidd_dev_input_set` may refuse a report; LVGL draws into one buffer while the
other is sent and waits for `lv_display_flush_ready` before the next flush; the
SPI driver refuses or finishes transactions in order; the DRV2605 keeps its
registers over a reset of the ESP32, and a refused I2C access may have reached it;
the Bluetooth stack delivers events through two queues (GAP events, and HID events
posted to `ble_hidd_events`), hosts connect and leave at will.

## 3 Runs, bounds and results

| Run | Checks | Shows |
|---|---|---|
| `audio_safety` | `ControllerExclusive`, `OpenFindsControllerFree`, `NoOrphanedChannel`, `ErrorHasCause`, `ArbiterSpec` | no two workers on a controller, nothing left allocated, refinement of the arbiter |
| `audio_liveness` | `StopHonoured`, `LeavingEndsAudio`, `HandOffEnds` | stop requests and Back end the workers; the hand-off ends |
| `audio_stuck` | `StopRequestSettles` | **violated**: STOPPING without a worker |
| `battery_adc` | `OneAdcOwner`, `InitFindsNoUnit`, `ReadyMeansMeasured`, `LeavingEndsWorker`, `WorkerReports` | one ADC owner through overlapping workers; the worker ends and reports |
| `battery_page_has_worker` | `PageHasWorker` | **violated**: a page without a worker |
| `knob_debounce` | `PulseLaw` | exactly which pulses become steps |
| `encoder_path` | `DirectionTruthful`, `RestComesToPage` | the direction survives the races; everything settles, with what was turned applied unless the races or a page change met it |
| `encoder_applied_twice` | `NothingAppliedTwice` | **violated**: a lost update applies steps twice |
| `media` | `PressedInOrder`, `DownHasCause`, `EveryCommandSettles`, `ConnectedFollowsLink`, `AdvertisingFollowsRadio`, `AirNeedsBoth`, `Reachable` | order, no duplicates, a drained queue; flags agree with the radio; the knob stays reachable |
| `knob_ui` | `NoDanglingPointer`, `FlagsFollowDriver`, `PassIsEarned`, `LeftoverHasCause`, `TreeSpec` | navigation implements the tree; the SD diagnostic is honest |
| `device` | `SentIntact`, `DescriptorsDistinct`, `FlushEndsWithTransfer`, `DriveHasCause`, `GoFindsEffect`, `TouchPressesPageOnce`, `ActivityHasItsParts`, `MenuComesUp` | pixels arrive intact, flushes end, the motor and presses have their causes, through faults and resets; the first page comes up |
| `samples` | `RmsIsRoot`, `BlockIsUniform`, `OrderKept`, `BarFollowsSound` | one setting per block, clipping that keeps the order, levels that are the roots of the mean squares, a bar that follows the sound |

Type invariants (`TypeOK`) and the strengthened invariants (`IInv`) are not
checked by the runs: they are theorems of every module that has proofs.

**Bounds.**

* `MaxWait = 1` (100 in the code): polls of the hand-off. A poll changes nothing
  but the counter, so one poll and the time-out after it show every way the
  hand-off can go. The proofs hold for every `MaxWait`.
* `Buttons`: the liveness run starts only microphone and loopback; the tone
  worker shares all actions' operators with the microphone and interferes with
  the loopback in the same way. The safety run has all three.
* `Task = {t1, t2}`: a bound on overlap. A task that has cleared the handle has
  only its last write of IDLE left; a second such task repeats what the first
  does to its successor. All properties also hold with three tasks (a minute or
  two instead of seconds).
* `MaxRun = 260`: pulses beyond the overflow of the 8-bit counter. The proofs
  hold for every `MaxRun`.
* `MaxTurns` = 3 (2 for the violation): turns in each direction; a lost update
  takes two.
* `MaxPending = 4`: no host comes or goes while four events are in flight. One
  connection and one disconnection, each seen by both tasks, fit.
* `QueueLength = 2`, `MaxCommands = 4`: the queue is full, empty and in between,
  with one command in the task and one refused.
* `StackSize = 2` (12): the tree is two levels deep, so two is the smallest
  history that works; an off-by-one shows. The proofs hold for any
  `StackSize >= 2`.
* `Card` has two cards: enough to swap one for the other.
* `Breakable` and `MaxFaults = 1` of `device`: one part is out of order for good,
  one of each kind of treatment (the media task, whose failure deletes a queue;
  the event group, on which a task asserts; the haptic driver, whose failure
  resets), and beside it one call fails or one reset happens, at any moment. A
  checked part that fails just once is a reset, and not told apart from one. The
  proofs hold for every budget.
* `QueueDepth = 2`, `MaxChunks = 3`, `MaxAreas = 1`: an area has more chunks than
  the pool has descriptors, so that descriptors are found by count and recycled in
  both orders, and flushes of two calls overlap. In this firmware an area (36
  lines of 360 pixels of two bytes) is one chunk, and the pool of 10 is drained
  before each command, so the recycling in `QueueRecycled` belongs to the panel IO
  and is not reached; the run and the proofs cover every configuration. `Effects =
  {47}`: one effect that is not the click.
* `TopRoot = 4` (2^31), `FullScale = 2` (32767), `BlockSize = 2` (1024), three
  positions of the slider: every pair of samples, and every square root their
  squares call for. Two samples are enough for an order and for a setting that
  changes between them; at gain 200 both ends clip. `Loudness` has both ends of
  the scale and of two bands of it; the bar itself has its full range of 0 to 100,
  with the scale computed on 16-bit values as in the code.

Every run takes seconds, but `device` (600 thousand states, a minute) and
`audio_safety` (3 million, about three minutes).

**Deadlock** is checked, except in the run of the media controller: an
advertising start that is refused is logged and never retried, so the system may
really come to rest.

## 4 Fairness

FreeRTOS runs every ready task, and every driver call of the workers has a
time-out, so each task's next step is weakly fair. Nothing is assumed of the
user, of hosts or of the hand: they may do nothing for ever.

* `AudioWorkers`: `BackDone`, each `RequestStop(r)`, and each worker, but a
  worker that streams is not forced to fail a transfer: fairness is of
  `Mic /\ Progress("mic")` and so on, which leaves a stream alone until a stop
  request is there.
* `BatteryAdc`: callbacks that began, the timer, each worker task.
* `EncoderPath`: the encoder task and the LVGL timer.
* `MediaCommands`: the command task, both callback tasks of `MediaAdvertising` and
  the two asynchronous results of the start-up.
* `Device`: the LVGL task, the SPI driver and the initialisation of the haptic
  driver weakly; `app_main` strongly, because it waits for `lvgl_mux`, which the
  LVGL task takes and gives again and again: FreeRTOS hands a mutex to the waiting
  task of highest priority, and the LVGL task sleeps at least 5 ms between two
  calls. Resets and failures are not fair: `MenuComesUp` needs only that they are
  finitely many, which the budget says.

## 5 Proofs

TLAPS checks the theorems below for every value of the constants that satisfies
the named assumptions in the modules that declare them (`MaxWaitAssumption`,
`TaskAssumption`, `BoundAssumption`, `StackAssumption`, `DisplayAssumption`,
`EffectAssumption`, `BreakableAssumption`, `FaultAssumption`, `RootAssumption`,
`BlockAssumption`, `WidthAssumption`, `LoudnessAssumption`).

* **`AudioWorkers_proofs`** – `TypeCorrect`, `InvariantHolds`, `MutualExclusion`,
  `NoRefusal`, `NothingLeftBehind`, `ErrorKeepsCause`, `RequestsReachWorkers`,
  `RequestsStay`, `Refinement`. `ControllerExclusive` is not inductive: that the
  loopback worker found the other handles NULL says nothing unless a NULL handle
  means that the task is gone and its channels are deleted. `IInv` adds this:
  `HandleInv` (a handle is set exactly while its task exists), `ChanInv` (where a
  worker is bounds which channels it has), `OwnerInv` (the driver's view and the
  pointers agree), `HandOffInv` (the loopback worker touches a controller only
  while the other tasks are gone). Each action has a lemma for types and one for
  `IInv`; the refinement then needs, step by step, which worker's claims change.
  `ErrorHasCause` is proved by its own step lemma under `IInv`.
  `RequestsReachWorkers` has an invariant of its own beside `IInv`: who must be
  stopped has been asked already or is still on the list of the task that asks
  (`AskInv`), and nothing is launched while the list lasts.
* **`KnobDebounce_proofs`** – `TypeCorrect`, `InvariantHolds`, `LawOfDebouncing`.
  `CntInv` relates the 8-bit counter to the length of the pulse modulo 256; the
  law follows for pulses of any length.
* **`EncoderPath_proofs`** – `TypeCorrect`, `InvariantHolds`, `NoInvertedTurn`,
  `StepsReachPage`. `SideInv`: until the bezel is turned to a side, nothing in the
  bits, the task's registers, `encoder_steps`, the timer's copy or the sum points
  there. `AccountInv`: as long as the accesses of two tasks have not overlapped and
  no page change has dropped steps, what is applied, stored, taken by the task and
  still a bit adds up to the turns that set a bit; when all has settled, only what
  is applied is left (`StepsAccounted`).
* **`BatteryAdc_proofs`** – `TypeCorrect`, `AdcHasOneOwner`, `InitCanSucceed`,
  `ReadyIsMeasured`, `CreateFindsNoWorker`, for any number of overlapping tasks.
  `OneAdcOwner` is its own key: a finishing task gives up the handle after it has
  left the loop, and only a NULL handle lets a successor be made
  (`CreateSeesNull`). With it, a unit that is allocated and not set up is in the
  hands of the one worker that configures it (`UnitHasCause`, `ConfigHasUnit`),
  and the scalars counted as written hold samples (`FieldsMeasured`).
* **`MediaCommands_proofs`** – `TypeCorrect`, `KeysDownHaveCause`,
  `PressesInOrder`, `FlagIsTrue`, `FlagFollowsRadio`, `AirIsPrepared`,
  `RestIsReachable`, for any length of the queue and any course of the connection.
  `OrderInv`: the numbers pressed, held by the task and queued follow one another.
  `AirInv`: from the test of the flags until the radio is on the air, both
  prerequisites of an advertising start hold. `LinkInv`: the last event about the
  host, wherever it is under way (stack queue, callback, HID queue, flag), says
  what the radio says; `ConnectedFollowsLink` is what is left of it when nothing
  is under way. `AdvertisingInv` does the same for the flag of advertising. A flag
  that is set, or about to be, over a silent radio has a request that still waits
  for its answer, or a connection whose word has yet to clear it (`FlagHasAir`). A
  radio on the air under a clear flag has the answer that sets it on its way, or
  `ble_hidd_events` about to ask once more (`AirHasFlag`). What makes the two
  inductive is the order within the queues: answers that a host has made stale
  come before the word of its connection (`AnswerInv`), and that before the word
  of its leaving (`LeaveInv`). `ReachInv`: unless a host is there, the radio is on
  the air or a start was refused, something is under way that will ask for a
  start.
* **`KnobUi_proofs`** – `HistoryIsPath`, `PointersAlive`, `Refinement`,
  `FlagsTruthful`, `PassesAreEarned`, `LeftoversHaveCause`, `TypeCorrect`.
  `StackIsPath`, with the pointers' invariant, is inductive because the depth of
  the tree is below `StackSize`; the refinement follows because the top of a path
  is the parent. `SdInv` follows a test through its file operations: what the file
  on the card in the slot holds, and which card it was left on.
* **`Device_proofs`** – `TypeCorrect`, `PanelGetsWhatWasDrawn`,
  `DescriptorsStayDistinct`, `FlushEnds`, `MotorHasCause`, `EffectIsComplete`,
  `PagePressedOnce`, `UsersFindTheirParts`, `SharedInTurn`. The parts write
  different variables, so each has an invariant of its own. `DisplayInv`: where
  the LVGL task is in a flush and what it then knows (`PhaseInv`), that only the
  buffer of the last flush is in the queue (`BufferInv`) and in which byte order
  it is (`OrderInv`), which chunk reports the end (`LastInv`), and that
  descriptors in use are exactly the lowest ones when one is found by count
  (`DescInv`). `HapticInv`: a script that will write GO is the rest of an effect,
  with the chip as its accepted writes have left it (`PlayInv`), and RTP drives
  only inside a test or after one that was broken off (`DriveInv`). `PartsInv`
  says which parts exist when `app_main` stands at a step of its order: none after
  it, every checked part before it, and all earlier steps of the Bluetooth
  start-up while that lasts. That each part comes after what it uses is then a
  fact about positions in the order (`UsersAt`), whichever parts are out of order.
  `TakenInTurn` joins two parts: the haptic step of `app_main` comes before the
  LVGL task exists (`HapticBeforeLvgl`), so its script and a callback's never
  meet.
* **`LoopbackBlock_proofs`** – `RootIsCorrect`, `LevelsAreRoots`,
  `BlocksAreUniform`, `SamplesKeepOrder`, `GainCannotOverflow`, `LouderIsHigher`,
  `BarSettles`, `BarApproaches`, `LoopbackUndisturbed`. `RootInv`: with R the
  digits found and b the root of the bit tried next, `result` is 2Rb, `value` what
  R squared leaves, and the root sought lies between R and R + 2b; when b has run
  out, that is the floor. `TaskInv` says of each point of the task what the
  snapshot and the samples forwarded so far satisfy; the order of the samples is
  the monotonicity of scaling and saturating, for every gain and full scale.
  `FitInv` bounds the sums: the mean is a sample, so a sample less the mean is
  within twice the full scale and one (`Reach`), as the comment at main.c:3191 has
  it (`GainCannotOverflow`), and after n samples neither sum of squares exceeds n
  times the square of that. By `WidthAssumption` (INT16_MAX is below 2^31) a mean
  square fits the 64 bits of the square root, so the level published is the root
  of the whole mean square (`LevelsAreRoots`) and not of what is left of it modulo
  2^64. The level scale is within 0..100 and never shows a louder sound lower
  (`LouderIsHigher`): inside a band the tenths rise, and between two bands the
  level rises by at least one. `LoopbackUndisturbed` carries the theorems about
  the block to `SoundSpec`, which the run checks.

With these, every safety property that a passing run checks, invariant, action
property or refinement, is also a theorem.

**Only model-checked**: the nine liveness properties `StopHonoured`,
`LeavingEndsAudio`, `HandOffEnds`, `LeavingEndsWorker`, `WorkerReports`,
`RestComesToPage`, `EveryCommandSettles`, `Reachable` and `MenuComesUp`. They rest on
fairness, and the installed provers reason neither about ENABLED nor, by induction,
about the measures such proofs need. What they rest on is proved where it is a safety
property: `RequestsReachWorkers` for `LeavingEndsAudio` and `HandOffEnds`,
`RequestsStay` for `StopHonoured`, `RestIsReachable` for `Reachable`,
`StepsReachPage` for `RestComesToPage`.

## 6 Disagreements between code and comments

| Where | Comment | Code |
|---|---|---|
| main.c:2350 | "then marks the state STOPPED" (3573) | a stop request that races the worker's end leaves STOPPING behind; Start then refuses |
| main.c, battery page | "The task remains alive while the Battery page is open" (4132) | leaving and returning within one poll leaves the page without a worker |
| main.c:187, 6207 | steps are accumulated and consumed | `--`/`++` race the timer's copy and reset: steps are applied twice (the run), or lost when they are stored between the two (`RestComesToPage` allows it) |

These have a run each. Others were met while modelling and are part of the models
without a run of their own:

* Both callbacks may pass the test of `media_try_start_advertising` before either
  writes `s_advertising`, and start twice, where media_controller_ble.c:217 has the
  second one start; `AdvertisingFollowsRadio` and `Reachable` show that this does
  no lasting harm.
* A release report that the stack refuses is only logged
  (media_controller_ble.c:439), and the key stays down until the next command;
  `DownHasCause` allows exactly this case.
* The battery timer copies four scalars in four reads between which the worker
  writes, so a label may mix two samples for one tick, where main.c:4315-4318
  hopes to exclude it.
* The microphone's guard (main.c:1441) comes before the test for a mounted card,
  so Mount / Refresh fails for a mounted card while the microphone stops, although
  main.c:1417-1418 calls the helper idempotent.
* A refused transfer (main.c:5987) leaves LVGL waiting for the end of the flush for
  ever, with `lvgl_mux` held, so the first page may not come up either;
  `FlushEndsWithTransfer` and `MenuComesUp` allow exactly this case.
* When an RTP test breaks off (main.c:1294, 1308), the motor stays driven until the
  next effect or initialisation sets MODE. The button Stop writes GO only
  (main.c:1277), which does not end it. `DriveHasCause` allows exactly this case.
* A haptic driver that does not answer resets the device for ever (main.c:6381),
  although main.c:4607-4609 calls haptic feedback optional; `MenuComesUp` excludes
  the parts that `app_main` checks.
* A touch reading that fails lifts the finger (lcd_touch_bsp.c:14), and the next
  one presses its button again; `TouchPressesPageOnce` allows exactly this case.
* `show_menu` deletes the page of the button that is being pressed (main.c:4649),
  and nothing has LVGL wait for the release of the finger. LVGL then looks for an
  object again at the next reading and presses what lies there on the new page, so
  one touch may walk through several pages, where main.c:4538-4539 has an action
  on "the same finger-down event". `TouchHaptics` models it (`HitsPageChange`);
  LVGL is not in the repository, so this rests on how its input device works.
* Two detents to one side before the encoder task runs are one bit of the event
  group, and one step (user_encoder_bsp.c:16); `RestComesToPage` counts the turns
  that set a bit.

## 7 Not modelled

* *Battery percentage curve*: a pure function of one bounded number, on whose
  result nothing depends; a table test covers it entirely.
* *Page layout and settings widgets*: calls into LVGL; nothing but the pointers of
  `MenuNavigation` outlives a page.
* *Vendored ESP-IDF* under `src/components` and LVGL: third-party code, external
  where the firmware relies on it. It is nearly all of the repository's lines
  (the firmware's own code is about eight thousand); only the panel IO that the
  flush goes through is modelled.
* *The life of a knob* (create, register, delete, the shared `esp_timer`): the
  firmware creates one knob at boot and never deletes it.
* *The backlight's* `setUpduty`, which the slider of the Backlight page calls
  (main.c:5236; `backlight_test_task` only under `Backlight_Testing`) and which
  sets nothing that is modelled; the single calls within a step of the Bluetooth
  start-up, pairing, and the retry of NVS after an erase; the tone generator's
  samples; the rounder and the tick, which only compute.
