# Verification of Nes_Snd_Emu

Nes_Snd_Emu emulates the sound hardware of the NES and of its cartridges. This
directory holds TLA+ models of its parts that keep state over time, the
configurations with which TLC checks them on small instances, and theorems about
them that TLAPS checks for every value of the constants. Sources are named
relative to the repository; `Nes_Apu.cpp:129` is line 129 of
`src/nes_apu/Nes_Apu.cpp`.

The README of the program, its headers and its comments make promises that are
hard to test: time frames have no effect (`Nes_Apu.h:36-37`), `earliest_irq` is
the time of the next interrupt (`Nes_Apu.h:66-67`), samples may be read at any
time (`README.md:26`), shortcuts for silence and muting cannot be heard, and two
threads share a ring of buffers with nothing but a semaphore. The modules state
these promises and show how far the code keeps them.

## 1. The system

An emulator runs its CPU in *time frames*. Within one, it calls the chips with
the clock relative to the frame's beginning; each call first brings the chip up
to that clock (`run_until_`) and then has its own effect. While it runs, a chip
adds *deltas*, changes of amplitude, to a `Blip_Buffer`. `end_frame` of chips and
buffers makes all their times relative to the next frame, and the client reads
samples and writes them to the sound queue, from which SDL's audio thread takes
them.

| Component | State | Operations | Called by / calls |
|---|---|---|---|
| `Nes_Apu` (timing core) | `last_time`, frame sequencer, length counters, two interrupt flags, two predictions, cached `earliest_irq_` | `write_register`, `read_status`, `run_until`, `end_frame`, `reset`, `set_tempo`, `set_output` | CPU loop; calls the oscillators, `irq_notifier` |
| `Nes_Dmc` | bit clock, bytes left, byte buffered, prediction | `start`, `run`, `write_register`, `count_reads`, `fill_buffer`, `recalc_irq` | `Nes_Apu`; calls `dmc_reader`, `irq_changed` |
| squares, triangle, noise | registers, phase, delay, last amplitude, envelope, sweep | `run`, `clock_*`, writes | `Nes_Apu`; adds deltas |
| VRC6, FME-7, Namco 163 | the same per channel; Namco's wave memory | `write_*`, `end_frame`, `reset`, `save_state`, `load_state` | CPU loop; adds deltas |
| MMC5 | two squares, a frame counter of its own, a PCM channel with an interrupt flag | `write_register`, `read_status`, `read_irq_status`, `end_frame`, `reset` | CPU loop; calls the squares, `irq_notifier` |
| FDS | wave, modulator, and two units (envelope, sweep) with gain, speed and delay | `write`, `read`, `end_frame`, `reset`, `set_tempo` | CPU loop; adds deltas |
| VRC7 | time of the next amplitude, key registers, an external FM synthesizer | `write_reg`, `write_data`, `end_frame`, `reset`, `save_snapshot`, `load_snapshot` | CPU loop; calls emu2413 |
| `Blip_Buffer` | fixed-point time, memory, integrator | `end_frame`, `count_samples`, `count_clocks`, `remove_*`, `clear` | chips add to it, mixers read it |
| `Multi_Buffer` (`Stereo_Buffer`) | three tracked buffers, mixing position | `end_frame`, `read_samples`, `samples_avail`, `clear` | client |
| `Sound_Queue` | ring of buffers, semaphore, `write_buf`/`write_pos`, `read_buf` | `init`, `write`, `sample_count`, destructor; `fill_buffer` | client's thread; SDL's audio thread |
| `Simple_Apu` | a chip, a buffer, the clock of the last access, the length of the last frame | `write_register`, `read_status`, `end_frame`, `sample_rate`, `read_samples` | demo; calls `Nes_Apu`, `Blip_Buffer` |
| `Wave_Writer` | a file, a buffer for it, `sample_count_` | constructor, `write`, `flush`, destructor | demo; calls stdio |
| demo | the tune, static variables of `emulate_frame` | `main`, `emulate_frame` | calls the two above or `Sound_Queue` |

What is hard here:

- *Ordering and caching* (`Nes_Apu`): predictions made at one moment by closed
  formulas must agree with a loop that runs much later, through rebasing, and the
  cache of the earliest of them must be refreshed by every path that changes one.
- *Cuts*: the same clocks may be divided into runs and frames in any way; nothing
  may depend on it. Every oscillator carries the rest of a period over.
- *Shortcuts*: silence, muting and mono mixing are skipped by divisions and flags
  instead of the loop, and must come out where the loop would.
- *Interleaving* (`Sound_Queue`): two threads and a semaphore; opening can fail
  half-way; destruction while a callback runs.
- *Widths and edges*: fixed-point time wraps at 32 bits; the margins behind the
  buffer; off-by-ones in predictions.
- *Failure*: allocations fail, and the sound file is written in pieces, any of which
  may fail. Nothing else persists and nothing is sent over a network: there is no
  crash recovery and no message loss to model.

What makes each component correct: the core's assertions hold, its sequencer
follows the console's clock, a client that polls `earliest_irq` misses no
interrupt, the DMC never lacks a byte; an oscillator plays the wave of its phase
wherever it is cut; the stereo buffer gives every sound in its own sample, once;
the queue plays what was written, in order, without races, and every write returns;
the demo's file holds the samples of exactly the time that was emulated.

## 2. The modules

```
abstract      <-- detailed     --> made of
FrameSequencer <-- NesApuEpoch  --> NesApu
SampleStream   <-- StereoBuffer --> BlipBuffer
PlaybackFifo   <-- SoundQueue
Recording      <-- WaveWriter
                   SimpleApu    --> NesApu, BlipBuffer
Recording      <-- Demo         --> SimpleApu, WaveWriter
                   Oscs         --> Mmc5Oscs --> NesOscs --> OscRuns
                                --> ExpansionOscs, FdsOsc, Vrc7Osc --> OscRuns
```

The proofs are in modules of their own, an arrow again pointing to what is used:

```
NesApuTimingProofs --> NesApuProofs --> NesApu, NesApuEpoch
DemoProofs         --> NesApuProofs, Demo --> SimpleApu, WaveWriter
SoundQueueProofs   --> SoundQueue
StereoBufferProofs --> StereoBuffer --> BlipBuffer
OscsWaveProofs     --> OscsProofs --> Oscs
NesApuTimingProofs, DemoProofs, StereoBufferProofs, OscsProofs --> Arithmetic
```

`Arithmetic` has what several of them need to know about numbers: division, a least number,
induction, and sums as folds over sets. The library's theorems of induction take a
predicate, which the provers cannot instantiate; here a set of numbers takes its place, and
that is enough to reason about recursive functions.

In several modules some definitions are introduced by the comment "Slip": a
plausible mistake in the code, used to make sure that the properties notice it.
They are not part of the models.

**NesApu** models `Nes_Apu.cpp` and the DMC of `Nes_Oscs.cpp`. Variables have the
names of the fields. A call is several steps: `CallWrite`, `CallReadStatus`,
`CallRunUntil` and `CallEndFrame` set `op` and `goal`; `RunUntil_` and `DmcRun`
begin `run_until_` and `Nes_Dmc::run`; `DmcBit` is one pass of the bit loop,
`FrameEvent` one of the frame loop and `FramesDone` leaves it; the call's own effect
(`WriteHalt` ... `WriteFrameMode`, `ReadStatusSample`, `ReadStatusReturns`,
`EndFrame`) is the last step. `Reset`, `SetTempo` and `SetDmcOutput` are single
steps. Amplitudes, volumes and sample bits are left out. `osc_enables` and
`length_counter` gate silence only through "is it 0".

**FrameSequencer** is the promise: events on the console's absolute clock, a
fixed distance apart, without calls or frames. **NesApuEpoch** adds `epoch`, the
length of all frames ended so far, to NesApu, and maps `now <- epoch + last_time`,
`event <- epoch + last_time + frame_delay`; `FramesHaveNoEffect` says that this is
a behaviour of FrameSequencer.

**OscRuns**, **NesOscs**, **ExpansionOscs** and **Oscs** model the oscillators, one at
a time: they share nothing but the calls that reach all of a chip. A run over `n`
clocks is an operator that gives the new oscillator, the delta at each clock and
whether `set_modified` was called; `Passes` is the do-while loop. NesOscs has the
2A03's squares, triangle and noise with the frame clocks of `Nes_Apu`;
ExpansionOscs has VRC6 squares and saw, FME-7 squares and Namco channels with
their register writes, resets and saved states; Oscs composes them and states what
is expected of all. Registers are records of what their bits mean.

**Mmc5Oscs** has the square of the MMC5, which is `Nes_Square` without its sweep, run in
the pieces into which the chip's frame counter divides a run (`Joined`), and the PCM
channel: a write of 0 raises the interrupt instead of the level, reading `$5010`
acknowledges it. `line` is what `irq_notifier` was last told, `dropped` that reset has
cleared the flag without telling it. **FdsOsc** is one operator for each part of
`Nes_Fds_Apu::run_until`: a pass of its loop (`FdsPass`) steps the units that are due
(`UnitsStepped`), goes to the next step of unit or modulator (`PassEnd`, `Modulated`), computes the
frequency (`Freq`) and plays the wave (`WavePlayed`). **Vrc7Osc** is the loop around
the FM synthesizer, for which a wave of two steps stands.

**BlipBuffer** has one operator for each member function of `Blip_Buffer` and
`Tracked_Blip_Buffer`. Amplitudes are abstracted: a cell of the memory is the set
of output samples for which something was added to it. **StereoBuffer** is
`Stereo_Buffer` with `Stereo_Mixer` over three of them, with a client that adds
deltas, ends frames and reads. **SampleStream** is the promise: a sound is heard in
its sample, once.

**SoundQueue** models `Sound_Queue.cpp`, a step for what each thread does between two
points at which the other may run; memcpy is a step per sample. SDL is modelled as
`Sound_Queue` uses it: callbacks from a thread of its own while the device plays,
pausing and closing wait for one that runs, a semaphore. **PlaybackFifo** is the
promise: a queue that gives its samples in blocks.

**SimpleApu** puts NesApu and a buffer of BlipBuffer behind the interface of
`Simple_Apu`: every access is 4 clocks after the one before, and frames are by turns
odd and even. **WaveWriter** models `Wave_Writer.cpp`, a step for what happens between
two calls of stdio, each of which may write everything, a part or nothing; a byte is
which half of which sample it is. **Recording** is the promise: behind its heading the
file has the beginning of the samples given, at every moment, and when closed all of
them. **Demo** is `main` and `emulate_frame` writing a file: the composition of both, with
the tune's accesses left open. `clocks`, the time emulated, is there for the properties.

## 3. What the runs check

| Run | Question |
|---|---|
| `apu_frames` | Frame interrupts: is the prediction 3 or 4 clocks after the event (`FramePrediction`), does polling miss nothing (`PollingIsEnough`), does a disabled tone stay silent? |
| `apu_dmc` | DMC: do assertions hold, are length, buffer, enable bit and flag consistent (`DmcReady`), does the interrupt come at the predicted clock, is `count_reads` exact, does skipping silence land on the right bit? |
| `apu_epoch` | Is the sequencer that of FrameSequencer, with events at odd clocks, and does every call return? |
| `oscs` | Do the oscillators play their wave, are cuts unobservable (`CutsHaveNoEffect`), do muting and silence keep time, are deltas marked, does a restored state play on, and does the MMC5's interrupt line follow its flag (`LineFollowsFlag`)? |
| `stereo` | Is the stereo buffer a SampleStream; are the three buffers in step; is a buffer taken for silent really empty; is `count_clocks` the least? |
| `queue` | Is the ring a PlaybackFifo; no race, no loss, exact `sample_count`, safe destruction; does every write return? |
| `demo` | Do the assertions of chip, buffer and writer hold under `Simple_Apu`'s clock (`DemoAsserts`); are as many samples written as the emulated clocks give, to the sample (`SamplesOnTime`); is the file a Recording; does the program end? |
| `apu_waiting`, `oscs_frames`, `oscs_muted`, `oscs_unset`, `queue_stereo` | Each checks one sentence of the documentation that the code does not keep; see section 6. |

Bounds, and why they are enough:

- *APU*: a frame period of 4 (or 6 at the slow tempo) instead of 7458: even, at least
  4, as the code makes it; the distances of events differ from it by 2 and 6, as in
  the code, so that a delay can be as short as it can be relative to the rest. Calls
  and frames come at clocks 0 to 6, below, at and beyond an event. `apu_dmc` takes
  DMC bits of 1 and 2 clocks, samples of 1 and 2 bytes, and frames of 14 clocks, so that a run holds
  most of a byte and a frame ends inside one. `MaxEpoch` = 16 clocks hold four events
  and several frames. Relative times keep all other state finite.
- *Oscillators*: periods 0 to 2 in registers of 1 bit, noise periods of 2 and 5 (so that one that is
  shortened leaves the next shift two periods away), volumes 0 and 1, a triangle
  of 8 phases, a noise register of 4 bits, VRC6 squares of 4 phases, Namco waves of 1
  or 2 samples. Calls are 1 or 7 clocks apart, and none apart for the cartridges,
  longer and shorter than every period; the properties look at runs of 1 clock and of 4 from every state
  reached, and cut the first clock off (which, as every state is looked at, is every cut). One volume and two duties are enough to leave, enter and cross a duty.
  `delay_range` is as small as the largest FME-7 period allows, as it nearly is in the code.
  The MMC5's frame events are 4 clocks apart, so a run of 7 has one or two. The FDS has
  waves of 4 samples, fractions of 4 units, a bias of 4 bits and gains to 4, so that all
  carries, wraps and roundings of its loop occur; four programs (`FdsClients`) play it,
  each writing some of the registers at any time: envelope, sweep with modulation,
  modulator, and volume, disabling and hold. `FreqHighs` and `ModHighs` are the upper parts of the
  frequencies; more than 0 for the wave would pass several of its 4 fractions in a clock. The VRC7 gives an amplitude every 3 clocks.
- *Demo*: frames of 8 and 9 clocks are two sequencer events long and give 2 or 3 samples,
  so that fractions of samples and odd clocks carry over in all ways within the 6 frames of the
  longest tune (3 frames would repeat the fractions, 2 the parity). Up to two accesses a frame
  reach the frame's last clock. The file's buffer holds the header and two samples, then four.
- *Stereo buffer*: 4 samples, deltas over 2 cells, the margins of the code (as many
  cells as a delta and 2 more), a clock of two thirds of a sample so that both
  roundings occur; until it is cleared, as much time passes as fills the buffer once, in all ways
  of cutting that into frames and reads. With a buffer of 3 samples the cells behind what is moved are
  never reached; with 4 they are.
- *Sound queue*: 3 buffers of 2 samples, and 14 samples: the ring is passed twice.
  Writes of 1, 3 and 7 samples end inside, span and exceed buffers. The program ends
  with the queue destroyed, so deadlock is not checked; `WritesReturn` is.

Fairness. NesApu: `WF_vars(Running \/ Returns \/ EndFrame)`: a call that has begun is
executed by the thread that made it; the client need not call again. SoundQueue:
weak fairness of the program's own steps inside a call, and of the callback, which
SDL makes from its own thread while the device plays. Weak fairness of `SemWait`
is enough with one waiting thread. Demo: weak fairness of the next step, the program being
one thread that goes on until it returns; that the tune has an end is `MaxFrames`. It ends, so
deadlock is not checked there either. Nothing is assumed of the program's calls, and
BlipBuffer and the oscillators state safety only.

## 4. What is proved

| Theorem | States |
|---|---|
| `TypeCorrect` | every state of NesApu is well typed |
| `AssertionsHold` | `Nes_Apu`'s assertions hold, if `read_status` is never called at the clock of `last_time` (`StatusGap >= 1`) |
| `DmcNeverStarves` | while a sample has bytes left the next one is buffered; enable bit, flag, loop and length agree |
| `OddClocks` | sequencer events fall on odd clocks of the console |
| `FramesAreInvisible` | NesApuEpoch implements FrameSequencer (`StatusGap >= 1`) |
| `NoRace`, `CountIsExact`, `SafeDestruction` | no race (one channel), exact `sample_count` and safe destruction in SoundQueue, for any number (two or more) and size of buffers |
| `WriterTyped` | WaveWriter's types, and that its buffer never overflows, for all even sizes |
| `WriterRecords` | WaveWriter implements Recording, for every sequence of writes and every failure |
| `DemoRecords` | so does the writer in Demo, for any tune and all values of the constants |
| `DisabledStaysSilent` | the length counter of a channel that `$4015` has disabled is 0 |
| `FramePredicted` | `next_irq` is 3 or 4 clocks after the event that sets the frame flag, and `no_irq` when none will (`StatusGap >= 1`, one tempo) |
| `DmcInterruptsOnTime` | the DMC's flag is raised at the clock before the one predicted, wherever runs are cut (`StatusGap >= 1`) |
| `SilenceKeepsTime` | a silent DMC comes out at the clock and the bit where the loop would |
| `PollingSuffices` | a client that runs the chip to `earliest_irq` only misses no interrupt (`StatusGap >= 1`, one tempo) |
| `ReadsCounted` | `count_reads` tells exactly how many bytes a run will fetch, looped samples and silence included, and wherever the run is cut (`StatusGap >= 1`) |
| `QueueTypes`, `SilenceIsEmptiness` | SoundQueue is well typed, the semaphore in bounds; the callback fills in silence only when no buffer is complete |
| `PlayedInOrder` | what is played is what was written, without gap or repeat, for one channel and any number and size of buffers and of writes |
| `RingIsAQueue` | every step of SoundQueue is one of PlaybackFifo or a stutter, for any number of channels and any number and size of buffers |
| `IsAStream` | StereoBuffer implements SampleStream: every sound is heard once, in its sample |
| `NoSoundLost`, `BuffersInStep`, `SilentBuffersAreEmpty`, `RemovalIsEnough`, `StereoTypes` | the invariants of StereoBuffer, each on its own |
| `CountClocksExact` | `count_clocks` gives the least frame for n samples, if a clock is no longer than a sample |
| `DemoOnTime` | at every moment the demo has written the samples of the clocks emulated, to the sample, for any tune of any length |
| `DemoAssertsHold` | no assertion of chip, buffer or writer fails under `Simple_Apu`'s clock |
| `OscsTypes` | every phase stays in its wave, every delay is no less than 0, every register within its bits, for all eleven kinds of oscillator |
| `OscsMark` | whoever changes the output calls `set_modified` |
| `OscsKeepTime` | a channel of the 2A03 or the MMC5 that is muted for a run comes out where one that is heard does |
| `OscsPlayOn` | a chip with a saved state loaded goes on with the wave of the one that was saved |
| `OscsLine` | the MMC5's interrupt line follows its flag |
| `OscsNoise` | the noise register never becomes 0, whatever its length and tap |
| `OscsPlay` | what a run adds to the buffer brings it from the amplitude it had to that of the wave, for all eleven kinds and every length of the run |
| `OscsCutAnywhere`, `OscsCut` | where a run is cut, after its first clock or any other, is neither heard nor seen, for all eleven kinds, every wave, period and length, with the exceptions that `CutsHaveNoEffect` names |

Every invariant that a passing run checks is proved, and so are the action properties. All 39 theorems are
in eight modules.

The assumptions are the named `ASSUME`s of the modules, which TLC evaluates in every
run. `TempoAssumption` (periods even, 4 to 2^24) is what `set_tempo` computes for
any reasonable tempo. `DmcAssumption` and `QueueAssumption` give the ranges of the
tables and of `init`'s arguments. `HorizonAssumption` keeps times below 2^29 clocks,
five minutes in one frame, so that no prediction meets `no_irq`; TLA+ integers do not
wrap, so without it the model would not be the code's. `StereoAssumption` does the same for time frames that
would wrap a word of fixed-point time, far longer than the buffer. The theorems about StereoBuffer assume that samples are
read between frames (`ReadInFrame = FALSE`), since else they do not hold (section 6).

For the oscillators the assumptions are ranges of registers and of the tables. Three say more.
`FdsFreqAssumption`: the wave and the modulator of the FDS take at most one step in a clock, so that the loop
over clocks of the wave makes no more passes than there are clocks. A frequency has 12 bits, modulation adds
at most 193/64 of it, and a step has 65536 fractions: 4095 + 12348 is less.
`ExpansionAssumption` says of the FME-7 that its shortest period fits where a delay is kept (`period_factor`, 16
clocks, is at most `delay_range`, 65536), for a period of 0 is taken for one of `period_factor` (`Nes_Fme7_Apu.cpp:69`).
`FdsClientsAssumption`: what is written to the FDS is what the code reads out of a byte (`FdsWrites`).
A run may be of any length, and clients may write any of the values, at any clock, in any order.
`TuneAssumption`: a time frame has room for the tune's accesses, 4 clocks each; the demo's has, for seven.

The argument. `TypeOK` is inductive as it stands. The assertions are not: that
`goal >= last_time` holds at each loop needs to be known of every place in the call,
which is `TimeInv`: where `last_time`, `last_dmc_time` and `goal` stand for each `pc`,
with `end_frame` leaving both clocks at or beyond the goal. `DmcReady` is inductive
with the type invariant: `fill_buffer` and `start` keep it at once. For the sequencer,
`OddInv` adds to the parity of the event that `epoch` is an integer and that `frame_delay`
is set to even numbers only (`EvenDelay`); `$4017` reads the parity of the clock off the
relative delay (`OddRest`), which is where the code would go wrong if a frame could
change it. `FramesAreInvisible` then takes each action of NesApu to a step of
FrameSequencer or a stutter: `end_frame` to a stutter because epoch grows by what
`last_time` loses, `FrameEvent` to `Event`, the `$4017` write to `Select`. For the
queue, `NoRace` needs that `write_buf` leads `read_buf` by the number of complete
buffers, modulo the ring, in every phase of both threads (`LeadInv`, with a buffer
counted while `write` waits for its permit and while the callback has not yet given its
own back), and `PhaseInv`, that the callback runs only between opening and pausing.
`CountIsExact` adds `AccountInv`, which counts samples the same way. For the file,
`WriterInv` says that the pieces join: the samples taken are those given less those that
remain (`CountInv`), the file is the room for the header and then the first bytes of the samples
(`FileInv`), and the buffer has the bytes that come next, up to the last one taken, an even
number of them (`BufferInv`). Each step of the writer is then a step of Recording or a
stutter; Demo's steps are the writer's or leave its variables alone.

The predictions. `FramePrediction` needs that the next event is never farther away than the
longest step (`DelayInv`) and where a run stands between clocks (`TimeInv`): the event that the loop reaches
is then the one that was predicted, and a step that raises no interrupt leaves the prediction where it was.
For the DMC, `DmcTimeInv` bounds the bit clock, which rounding up takes past the goal by less than a
period, and `DmcPrediction` says that the prediction is `DmcClock` and a period for each bit left, and 1:
a bit takes one off and adds its period to the clock, a skip does so for many. `CacheInv` is for polling:
every path that changes a prediction ends in `irq_changed`, after which the cache is the lesser of both
and any flag; between, a cache that was right may lie up to 4 clocks behind a frame flag in the loop and 3 outside; how far it may
lie behind the event itself, `FramePrediction` says. `NextInv` keeps predictions from being negative,
so that a cache of 0 after `end_frame` is below all of them.

What `count_reads` says is a closed formula of the bits left, the bytes left and the clocks to go, and `CountReadsExact`
compares it with the fetches that follow. `Reads` names the formula, and `FetchCounted` says what the bit loop does to it:
a bit that does not end a byte leaves it, one that does takes one off, whether the sample goes on, starts again
or ends. That each of these fetches is real, and none is left out for want of a byte, is `DmcReady`; a
chip that has stopped, or has no time left, counts none (`StoppedReads`).

The order of what is played. `ContentInv` says that the complete buffers, by their distance from
`read_buf` (`Rank`), hold consecutive samples from the first not yet played, and the one being filled the
last ones written; `OutInv` that what the callback has copied continues what was played. A sample is
numbered from what was written on one side and from what was played on the other, and the account of
`AccountInv` makes the two agree. `ContentInv` is also the refinement of PlaybackFifo: the ring read
from `read_buf` on holds consecutive numbers, complete buffers or not (`PendingIs`), so that one more sample
is `Put`, the step of `read_buf` to the next buffer is `Take`, the destructor is `Close`, and taking or giving
a permit shows nothing of itself.

The stereo buffer. `ContentInv` ties the memory to the promise: a cell holds what is due in its sample,
counted from `Base`, the sample of the first cell, which removal moves along with the cells. That removal moves
enough of them is `ReachInv`, that `last_non_silence` is behind all that earlier frames have left is `SilentInv`,
and that no time wraps is `RoomInv`. A read then gives what is due and no more in stereo as in mono,
because a cell that is not empty makes its buffer non-silent; and the removal of silence, which leaves the memory where it is,
leaves nothing.

The demo. `StreamInv` is the account: the clocks emulated, in fixed-point time, are the samples written and what
the buffer's `offset` holds. `end_frame` adds its length to both sides; reading takes whole
samples from one and gives them to the other, as many as `count_samples` says, after which less than one remains. So
the samples written are what division gives. Of the assertions, those of the chip follow from `TimeInv` of
NesApu and `CallInv`, where `Simple_Apu`'s clock stands in every call: an access is 4 clocks after the last, which is why
this client keeps `StatusGap`; those of the buffer from `StreamInv`, that less than a sample is in it when a
time frame ends; that of the writer from `WriterInv`.

The oscillators. A run is a loop, and `Passes` a function on the number of its passes. `LoopExists` of Arithmetic says
that the loop has values, `Along` and `Stays` that what every pass keeps holds after any number. So for
each kind there is a set of records, such as `SquareOsc`, and lemmas that a pass stays in it: the phase is wrapped, what
remains of a period is carried over, the noise register keeps a bit. `OscInv` joins these, with two facts
that no type says: when mixing is nonlinear, which it is for the 2A03 only, a
level other than 0 was reached, and marked, in the same time frame, since `end_frame` takes the level
back to 0 without marking (`Fits` is what a call that does not mark may do); and the interrupt line of the MMC5.
Muting keeps time because the phase and the delay behind a run are a closed formula of those before
(`PulseRan` for the squares), which the loop of a heard channel and the divisions of a muted one both meet.
The MMC5 adds its frame events: a run is cut at
them, and the pieces are compared one by one (`Mmc5InStep`). The FDS has a loop of its own, of passes that are as long as the
next of four things is away: `Timely` says that none of these is overrun, `Later` that every pass
takes time, so that the loop ends, and `WaveIsClocked`, with `FdsFreqAssumption`, that the loop of the wave within a
pass reaches its end.

What is played (`OscsPlay`). The deltas of a run are a function of the clock, and their total is a fold
over a set of clocks that the code visits in order, the fold in none. So first there is a function that gives every set
of them its sum (`PartialExists`, `TotalIs` in Arithmetic), and from it what the total is of nothing, of one delta more
(`TotalMoves`) and of two runs of clocks side by side (`LaidTotal`). Then every loop is shown to be one that steps
through a wave: at each transition its level is the wave's and its delta the wave's step (`PlaysTo`, `PassesPlay`). What is
special about a channel is then only what its pass does (`SquarePassMoves`, `NoisePassMoves` and
their like); the shortcuts before the loop, such as the level update with which `run` begins, add a delta at clock 0.
The pieces of the MMC5's run are laid side by side; in the FDS the deltas of the innermost loop telescope
over the clocks of the wave, those over the passes.

Cuts (`OscsCutAnywhere`). A run of m clocks and one of n clocks, one after the other, are one of m + n clocks. For most kinds this is a
property of loops: the number of transitions in both parts adds up (`CountIs`, `CutCounts`), the second part
begins at the transition at which the first one ended, and at each further one state and delta are those of
the whole (`SquareCut` ... `Vrc7Cut`). A muted or silent channel has a closed formula instead, which is
applied twice (`PulseKeptTwice`, `NoiseSkips`). What the second part does at its clock 0 is nothing, because the first has
brought the level to the wave's; for that `OscsPlay` is needed. The MMC5's frame events cut its run too: the first part is padded
to stand beside the whole until the cut (`PaddedRun`), and beyond it the second part is a twin of the whole that differs only in the
time to the next event (`TwinRun`, `FollowsAgree`). The FDS makes other passes when it is cut,
for the end of a run is one of the things that end a pass. So a pass is shown to do what
as many passes of a single clock do (`PassGoesOn`, `PassesTick`), and parts and whole are compared clock by clock
(`ClockBeside`): the registers, the wave, the modulator and both units are the same, but for units that the
code has switched off at their limit at the beginning of a run and not in the middle of one (`UnitsBeside`). Such a unit is due in
the whole only when it cannot change any more (`UnitRests`), and what it leaves in the delay is what `Settled` leaves out
(`EndsSettled`). That a run of no time steps no unit holds unless the state is `Restless` (`FdsOfNoTime`), which is the
defect of section 6. The exceptions in `Approximated` are real: without any one of them TLC refutes the property.

Only model-checked: liveness (`CallsReturn`, `WritesReturn`, `RecordingEnds`, and the fair part of `PlaysInOrder`),
which is out of the prover's reach.

## 5. What is not modelled, and why

- Amplitudes, kernels, volume, equalisation and high-pass filtering: numeric, without
  control. Mixers and oscillators depend on them only in whether a buffer has come
  down to silence, which is a nondeterministic choice.
- The synthesizer of the VRC7, a submodule that is not in the repository; `set_tempo` of
  the FDS, a constant factor of its periods; the values returned by reads of the FDS and of the MMC5's
  length status, which change nothing that the run before them does not.
- The demo playing live: `main` hands to `Sound_Queue` what it would hand to the writer, and
  SoundQueue has every such writer. What the demo's tune is: Demo has all tunes.
- `Wave_Writer`: `stereo` (a byte of the header), a `skip` other than 1 (no caller), a file
  that cannot be opened (the program ends), the buffer of stdio.
- Namco's address register, and waves that lie in the chip's own registers.
- Callbacks that call the chip again: no callback in the repository does.
- `Mono_Buffer` and `Silent_Buffer` (they delegate or do nothing), `apu_snapshot.cpp` (in no
  build file, and refers to what no longer exists).
- Builds without assertions once an assertion has failed; time frames longer than the
  buffer; tempos for which the period is below 4.

## 6. Where documentation and code disagree

- `apu_waiting`: `earliest_irq` can go on saying that an interrupt is waiting after a
  `$4010` write has cleared the only one (`Nes_Oscs.cpp:373`).
- `oscs_frames`: a register access to the FDS at the clock at which it was last run, as at clock 0 after
  a frame that ended there, steps envelope and sweep even if they are switched off
  (`Nes_Fds_Apu.cpp:133`). `CutsHaveNoEffect` excepts just those states (`Restless`).
- `oscs_muted`: a VRC7 without an output, as `init` leaves it, adds deltas through a null pointer
  (`Nes_Vrc7_Apu.cpp:181`). In the other runs such a call does not return (`Crashes`).
- `oscs_unset`: whether a low note of the MMC5 is heard depends on a sweep register that nothing ever
  sets (`Nes_Oscs.cpp:105`). The runs take both of the values that differ.
- `queue_stereo`: with `chan_count` 2 the callback is asked for two buffers and plays
  them although only one is complete (`Sound_Queue.cpp:77`).

Deviations met while modelling that no run keeps, because the models exclude them
by a named exception or assumption:

- `set_tempo` leaves predictions made with the old period in place, so a faster tempo's interrupt
  can come before `earliest_irq` (`Nes_Apu.cpp:83`). The runs keep the tempo.
- Reading `$4015` at the clock the chip was last run to, which the skeleton in `README.md` does at
  clock 0, fails an assertion (`Nes_Apu.cpp:372`); `StatusGap` excludes it. So does the MMC5's
  `read_status` (`Nes_Mmc5_Apu.cpp:242`).
- Samples read while a frame is being filled displace what has been added to it
  (`Multi_Buffer.cpp:193`); with reads between frames all is well, and the client of StereoBuffer does that.
- A muted triangle steps two phases too far in each run, so the cuts made by time frames show
  (`Nes_Oscs.cpp:200`); a silent noise is shifted once a run, as its comment says; a muted noise whose
  period was shortened to less than half of the time to the next shift loses whole periods (`503`); a VRC6 saw of
  rate 0 stands still only from the next run on. `Approximated` has these exceptions.
- The FDS switches off a unit at its limit, "optimization only" (`Nes_Fds_Apu.cpp:158`, `170`); the delay
  that it keeps then depends on where the run was cut, and shows if the unit is switched on again. `Settled` leaves that delay out.
- Reset of the MMC5 clears the PCM interrupt flag without the notifier (`Nes_Mmc5_Apu.cpp:276`), so the line stays
  raised until the flag changes next; `LineFollowsFlag` says so (`dropped`).
- `Wave_Writer.hpp:29-30` says 'If no samples were written, delete file'. The file stays, with a
  header of no samples, as happens when `Simple_Apu::sample_rate` fails. Whether all of the header was written is not
  asked (`Wave_Writer.cpp:119`): Recording allows a heading of -1 for that.
- `Simple_Apu` with more accesses than the time frame has room for, 4 clocks each, fails the chip's assertion in
  the next frame; `TuneAssumption` excludes it, and the demo makes at most seven.

## 7. What could follow

1. Modules: Namco's address register; `Blip_Buffer::mix_samples`, `save_state` and `load_state`; the CPU
   loop of `README.md` as a client of NesApu that polls `earliest_irq`.
2. Theorems: for corrected versions of the lines in section 6, the properties without their exceptions (`Restless`,
   `StatusGap`, one tempo).
