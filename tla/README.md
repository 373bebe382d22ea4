# A TLA+ model of the CNN accelerator

This directory models and verifies the system of this repository from the
accelerator up to the run-time library its program is linked with:

- the hardware accelerator, the VHDL entities in `Final_project/hw/quartus/ip`,
  and the program that drives it, `pred_image` in `Final_project/sw/app/main.c`;
- the console the program prints to: the JTAG UART and its interrupt-driven
  driver in `Final_project/sw/bsp/drivers`;
- the hardware abstraction layer (HAL) in `Final_project/sw/bsp/HAL` as far as it
  keeps state for a program: startup, file descriptors, alarms, time of day.

Paths below are relative to `Final_project`, files of the HAL and of the drivers
to `Final_project/sw/bsp`.

The accelerator recognises three classes of 28x28 images. The image is cut into
16 windows of 7x7 words; one convolution and a ReLU make one activation of each
window; three neurons make one score each of the 16 activations; the argmax of
the scores is the prediction. Numbers are Q7.8 in 16 bits.

## Inventory

| Component | State it keeps | Operations | Talks to |
|---|---|---|---|
| `register_map.vhd` | start bits (one cycle), address and length per channel (no reset), copies of the scores, read data | bus write, bus read | Nios II (Avalon slave), DMA, argmax, fully connected layer |
| `dma.vhd` | a 7-state machine; per channel data registers of one window, address, length, window counter, write and start pulses, burst counter; address, burst count and read of the bus; word counter | idle, accept a start, request a burst, hold the request, end the request, take a beat, finish a burst, finish the transfer, reset | register map (starts), memory (Avalon master), convolution block and fully connected layer (windows) |
| interconnect, SDRAM (generated) | requests it owes beats for | accept, deliver, delay | DMA |
| `conv_filter.vhd`, `ReLU.vhd`, `neuron.vhd` | none | multiply and accumulate in 32 bits, cut to 16, clamp at 0 | |
| `conv_block.vhd` | 16 activations, done pulse | store an activation | DMA, fully connected layer |
| `fully_connected_layer.vhd` | 16 activations, three rows of 16 weights, ready pulse | take activations, take a row, announce scores | DMA, convolution block, argmax |
| `argmax.vhd` | largest score and its class | scan three scores | fully connected layer, register map |
| `CNN_accelerator.vhd` | none of its own | wires them together | |
| `main.c` | where `pred_image` is, the result | write length, address, start; count; clear the start; the same for the weights; read | register map |
| JTAG UART (`soc_system_jtag_uart_0.v`) | a FIFO each way, two interrupt enables, pause and activity flags | read and write of data and control; the host takes, sends, pauses | driver, host |
| JTAG UART driver (`altera_avalon_jtag_uart_*.c`) | a ring buffer each way, interrupt enables, count of inactive alarms, timeout | read, write, close, ioctl (thread); interrupt routine; alarm once a second | JTAG UART, file descriptors, alarms |
| alarms and system clock (`alt_tick.c`, `alt_alarm_start.c`) | tick counter, list of alarms with time and rollover flag | tick, callback, start, stop | timer interrupt, drivers, program |
| time of day (`alt_settod.c`, `alt_gettod.c`) | the time at reset | set, get | tick counter |
| file descriptors (`alt_open.c`, `alt_get_fd.c`, `alt_close.c`, `alt_fd_lock.c`, ...) | device and flags of each descriptor, high-water mark, list of devices | open, close, lock, unlock, register, redirect | devices |
| startup (`alt_main.c`, `alt_sys_init.c`, `alt_io_redirect.c`) | how far it is | timer, UART, standard input and output, main, exit | all of the HAL |

The two channels of the DMA, image and weight, are one piece of code written
twice; exactly one is active at a time. All components share one clock and one
reset and influence each other by one-cycle pulses: a window is on the DMA's
ports for one cycle, its activation is stored by the next edge, the done pulse
follows, and the scores are compared one edge after the last row arrived.

What is hard:

- wait states and beat delays in any place of a transfer; requests that must
  neither be withdrawn nor overlap; lengths that are no whole windows
- reset in the middle of a burst
- pulses that nobody acknowledges: a start while the DMA is busy, a row of
  weights together with activations, or a window index out of place is lost
  without a trace
- a program that counts instead of asking whether a transfer is over
- registers that survive from one image to the next: activations, the window
  counters, the argmax
- wrap-around of 4-bit, 17-bit and 32-bit counters and of the accumulator
- two ring buffers shared by a thread and an interrupt routine without a lock,
  and two interrupts that each side turns on and off for the other
- a host that may leave and come back while a thread waits for it
- alarms started and stopped from callbacks while the tick walks their list, and
  a tick counter that wraps around after five days at 10000 ticks a second
- searches of the descriptor pool that end at a high-water mark

What makes each component correct: the DMA hands over each window of the
transfer once, in order, complete, and marks the last; the convolution block and
the fully connected layer combine windows and rows of this image only; the
arithmetic is exact where the result fits; the argmax names the largest score;
`pred_image` returns the class of its image. Bytes written to the console reach
the host and bytes sent reach the program, in order, each once, and no call waits
for ever when the host is gone. Every alarm is called on the tick on which it is
due. The time of day advances with the ticks. A device locked for exclusive
access gains no other descriptor.

## Modules

```
DataType          words, addresses, channels, classes; the parameters
Dma               the DMA, one operator per branch, ports as parameters
AvalonBus         the memory as the DMA sees it (external)
DmaBus            Dma + AvalonBus: all interleavings, properties, refinement mapping
TransferSpec      what the DMA promises, without bus and beats
FixedPoint        the arithmetic, widths as parameters
MultiplyAccumulate  its loop, one product per step
ConvBlock, FullyConnected, Argmax, RegisterMap   the other components
ArgmaxUnit        Argmax under every sequence of inputs
CnnAccelerator    everything on one clock edge, wired as CNN_accelerator.vhd
Inference         CnnAccelerator + main.c + memory: accelerator and program

JtagUart          the device, one operator per access
JtagUartDriver    its driver: interrupt routine, alarm, read, write, close, ioctl
ByteStream        what each direction of the console promises
Console           JtagUartDriver + thread + host, implements ByteStream twice

AlarmClock        tick counter, alarms, time of day
FileTable         file descriptors, high-water mark, exclusive lock
Hal               AlarmClock + FileTable: startup, the program, the timer

MCDmaBus, MCArgmax, MCMultiplyAccumulate, MCInference, MCConsole, MCHal
                  instances for TLC
ModularArithmetic, DmaBusProofs, MultiplyAccumulateProofs, ArgmaxProofs,
InferenceProofs, HalFileProofs, HalClockProofs, ConsoleProofs   theorems
```

A component module has no `Init`/`Next` of its own: it defines what one clock
edge does to its registers (`DmaEdge`, `ConvEdge`, `FcEdge`, `ArgmaxEdge`,
`RegEdge`), its reset and its initial state, with the input ports as parameters,
so that the same definitions serve alone (`DmaBus`, `ArgmaxUnit`) and together
(`CnnAccelerator`). Registers keep their VHDL names. A pair `image_x_reg`,
`weight_x_reg` is one function `x_reg` over `{"image", "weight"}`. Where two
entities use the same name, one is renamed: the `write_reg` of the fully
connected layer is `predictions_ready`, the signal it drives; the outputs of the
register map end in `_out`.

One step of a specification is one rising edge, or a reset. Reset is
asynchronous in the code; between two edges nothing else reads the registers, so
a reset step stands for a reset at any time.

In `JtagUartDriver` one step is what the thread or the interrupt routine does
between two accesses to what they share; `call` and `isr` hold where each is and
its local variables. The routine runs to its end before the thread goes on, as
one processor runs both, but the host acts between any two steps of it. The
sections of the driver with interrupts off are one step. In `Hal` calls of the
program are one step, for nothing they touch is used by an interrupt except the
alarm list, which is changed with interrupts off. A tick is one step for each alarm
that is not due, and two, call and return of its callback, for each that is; `alarm`
and `next` are the pointers of `alt_tick`, `ListHead` where its walk ends. `AlarmClock` has three
history variables: `remaining` counts for each alarm the ticks until it is due,
`setting` and `elapsed` hold the last time set and the ticks since. In `Console`
`accepted`, `reached`, `sent` and `got` number the bytes. `Hal` lets a behaviour
use the descriptors, the alarms or the time of day (`services`): they share no
state but the tick, and the product of their states would only be larger.

The sources are compiled with -O0 (`bsp/Makefile:141`), so that an ordinary
variable is read from memory at each use, which the spinning loops of the driver
need: of what they wait for only `rx_in` and `tx_out` are declared volatile.

Abstractions: data are integers of a small width; the filter's weights and the
contents of the memory are constants; the sensitivity lists of the
combinational processes are read as synthesis reads them. `base`, `seen`, `best`
(`Inference`), `last`, `earlier`, `peak` (`ArgmaxUnit`) and `exact`
(`MultiplyAccumulate`) are history variables: no guard reads them. A row index
above 2 in `StoreRow` is outside the VHDL array; the model lets the row replace
any row or none.

`AvalonBus` has a parameter `AddressUnit`, the addresses per 16-bit word. It is 2
in the built system: the master is declared with byte addresses in
`HW_accelerator_for_CNN_hw.tcl`. It is 1 in the memory that
`CNN_accelerator_tb.vhd` plays.

Operators called "Mutant of ..." are wrong on purpose. No specification uses
them; each stands in for the operator it follows when the properties are tested
for being able to fail.

## Runs

| Run | Instance | Shows |
|---|---|---|
| `DmaBusBuilt` | bursts of 49 and 16 words, 4-bit and 17-bit counters, one address per word, transfers of 1 and 16 windows of an image and 1, 3 and 16 rows, also from odd addresses and across the end of the address space | `WindowIntact`, `FinishedMeansDrained`, `OneOutstanding`, `RequestHeld`, `OnSchedule`, `OwnWords`, and that `DmaBus` implements `TransferSpec` with its liveness |
| `DmaBusOdd` | bursts of 3 and 2, lengths 0, 1, 4, 9 and 1, 3, 8, an 8-valued word counter | `TypeOK` (the burst counter stays below the burst size while a transfer runs, so that the guards keep the index inside the data registers), `FinishedAtLength`, `TransferEnds`, although beats of one transfer are now taken by the next |
| `DmaBusBytes` | bursts of 3 and 2, two addresses per word as in the built system | `WindowsContiguous` fails |
| `DmaBusLeftover` | the 4-word transfers of `dma_tb.vhd`, real burst sizes | `OwnWords` fails |
| `MultiplyAccumulate` | 4-bit words, 8-bit accumulator, 6 bits kept, up to 4 products, three biases | `TypeOK`, `ExactIfItFits`, `SignSurvives` |
| `Argmax` | scores -2..2 | `BestVectorWins` |
| `ArgmaxSecond` | scores 0..2 | `PredictsLast` fails |
| `Inference` | images of 4 windows of 2 words, 3 rows of 4 weights, 4-bit words, three images, delays of any length | the seven properties of `Inference` |
| `Console` | rings of 3 places, FIFOs of 1 and 2, calls of 1 and 3 bytes, blocking or not, a timeout of 2 alarms; programs that write and close, and programs that read what the host sends | the eight properties of `Console` |
| `ConsoleError` | the same | `ErrorMeansGone` fails |
| `Hal` | 3 alarms, a tick counter of 8 values, delays of up to 2 ticks, 2 ticks of 3 microseconds a second, 6 descriptors, 3 devices one of which does not exist | the nine properties of `Hal` |
| `FdLock` | the same | `LockIsExclusive` fails |

Bounds. `DmaBusBuilt` has the real sizes, only the 32-bit address space is
2^18; a transfer fits more than once and addresses wrap. Its memory holds
different words in all cells, so a word from the wrong place is noticed. The
smaller DMA runs shrink the sizes so that every boundary (burst, window count,
word counter) is met in every combination. `MultiplyAccumulate` keeps the
proportions: the accumulator is more than twice as wide as what is kept, four
products overflow it. In `Inference` four windows are the whole range of the
window counter, as 16 are in the code; the three images have different classes as
the largest score, a tie, and negative scores only, so that calls follow each
other with larger and with smaller scores. `MaxPending` is the number of requests the
interconnect buffers; with whole windows one is never reached (`OneOutstanding`).
`PowerUp` is what the registers without reset may hold before they are written.

`OnSchedule` says how long a transfer takes: a window of b words takes b + 2 edges,
not counted those on which the memory holds the request or has no beat ready. That is
816 edges for the image and 54 for the weights, which the loops of `pred_image`, 50
rounds each, have to outlast together with whatever the memory adds.

### The properties of `Inference`

`FetchesWhatIsAsked` is a refinement: with the accelerator's wiring and the program's
order of writes, the DMA of the whole system is the `DmaBus` of the runs above with
only the transfers the program means, so the results on `DmaBus` carry over.
`ActivationsMeetNoRow` and `RowsHaveAPlace` say that two places where something can
be silently lost are never reached in that state. In a call that is not hurried,
`ScoresAreOfThisImage` says, the scores compared are those of the present image and
weights whatever images and resets came before. `ReturnsBestClass` says what such a
call returns: the class of the largest score, provided it is at least as large as
every score since reset. The proviso is what the code does, not what the reference
model does; `ArgmaxSecond` shows it. `ResultsFollow` is liveness: what is fetched
ends in activations or scores, from the first call on, unless a reset comes.

A delay loop of `pred_image` counts to 50 and nothing relates the count to the speed
of the memory, so in the model it may end at any time (`Pause`), also before the
transfer is over. The history variable `hurried` marks a call that left a loop early
or found the accelerator still at work. What is said of scores and results is said of
calls that did not hurry; `FetchesWhatIsAsked`, `ActivationsMeetNoRow`,
`RowsHaveAPlace` and `ResultsFollow` hold of all. A hurried call may lose a start,
which a busy DMA does not see, and read the class of an earlier image: nothing is
claimed of its result. A call that waits just until the DMA is idle does not hurry,
although its last window is still in the pipeline: the bus accesses that follow take
long enough for it, even one clock edge each. And a call after hurried ones is again
correct once the accelerator has come to rest.

### The properties of `Console`

`OutputInOrder` and `InputInOrder` are refinements: FIFO and ring together are a
queue of numbered bytes, whatever the routine does between the thread's look at an
index and its update of the other. They need the numbers to tell the bytes under
way apart, so `Numbers` is more than fit. `UnsentIsKicked` and `ReceiverIsWoken`
say why nothing waits for an interrupt that is off: bytes in the transmit ring have
the transmit interrupt on or a thread about to turn it on; the receive interrupt is
off only while there are bytes in the ring whose reader will turn it on again. The
device can show a byte as available that it has not delivered (it arrived between
two cycles of one read, `LateByte`), and the routine then takes its ring for full;
`ReceiverIsWoken` holds with that. `CallsEnd`, `InputArrives` and `OutputArrives`
are liveness: calls end with the host there or gone, and bytes arrive while it stays.

The alarm runs at any time, which contains once a second, and `MaxInactive` stands
for INT_MAX - 2. A timeout is INT_MAX - 1 when the program asks for none; `CallsEnd`
makes an exception for it, a wait for ever being what was asked for. `Timeouts` has
one value in the runs, so `Ioctl` changes nothing there. With the FIFOs of the runs
the two interrupts are pending together only seldom, so most passes of the routine
serve one of them.

### The properties of `Hal`

`FiresOnTime` compares the code's way to find an alarm due, time and rollover flag
modulo the width of the counter, with the number of ticks that are left:
`NoneOverdue` adds that an alarm that is due is still to come in the tick under way,
`AlarmsFire` that a started alarm is called or stopped. The longest delay is shorter than the
counter's range by two (`ClockAssumption`); with all 2^32 - 1 the flag would be
wrong, and no caller asks for a delay of five days. `TimeIsKept` holds as long as
the 32-bit product in `settimeofday` fitted (`SetFits`), 71 minutes of uptime at
10000 ticks a second, and until the counter wraps around; afterwards the time set is off.

`MarkCoversUsed` justifies that `alt_file_locked` stops at the high-water mark.
`alt_fd_lock` stops one descriptor earlier, so it may grant a lock while another
descriptor is open (`FdLock`); `OneLocker` and `LockHolds` say what survives:
never two locks on one device, and no further descriptor while the lock is held.
On the UART itself the shortened search does no harm, for descriptors 0 to 2 are on it
always; the device concerned is /dev/null.

`alt_tick` reads the alarm it goes to next before it calls the callback
(`alt_tick.c:102, 117, 140`), so call and return are two steps, between which the
callback starts and stops what it likes. An alarm started then is put in front and
does not wait for this walk; one that is stopped, the callback's own included, is
missed by nobody. One case is different. If the next alarm is stopped, it is linked
to itself (`alt_llist.h:115`), the walk comes to it and goes round it for ever
(`alt_tick.c:102, 140`): the interrupt does not end and no other alarm is called.
`Astray` is this state. The model has it; `LedAstrayByStopOfNext` says that this is the
only way there, and `NoneOverdue` and `AlarmsFire` except it openly. No text forbids
callbacks to do this and none in the repository does it.

### Fairness

`DmaBus`: the clock runs, so the transitions of the state machine that do not
depend on the memory are weakly fair; the memory accepts a request it has room
for and delivers the beats it owes, so `RequestTaken`, `Beat` and the delivery
of old beats during a wait are weakly fair. `Inference`: an edge on which the
memory does what it is asked (`PromptEdge`) and the program's next access, end of
loop and return are weakly fair. Nothing is assumed of starts, calls and resets.
The Avalon rules give exactly this of a slave; the clock and the processor have
no way to stop.

`Console`: the interrupt routine goes on (weak), and the thread goes on although
interrupts stop it again and again (strong: it is enabled only between them). The
alarm's interrupt is taken sooner or later, although not inside another (strong). A
host that is there takes bytes and polls. Nothing is assumed of calls, of what the host sends and of
its coming and going. `Hal`: the timer is free running and its interrupt is never
off for good, so `Tick` is weakly fair.

### What the failing runs show

- `DmaBusBytes`: `dma.vhd:241, 281` add the number of words of a burst to an
  address that counts bytes, so window k starts at half the distance it should.
  The testbench (`CNN_accelerator_tb.vhd:121, 159`) delivers consecutive windows
  without looking at the address.
- `DmaBusLeftover`: `dma.vhd:234` ends a transfer at its length while it always
  requests full bursts. `dma_tb.vhd` runs two transfers of 4 words; the second
  starts with words left over from the first. The application's lengths, 784
  and 48, are whole windows and not affected.
- `ArgmaxSecond`: `argmax.vhd:34` compares with the scores of all images since
  reset; a later image with smaller scores gets the class of an earlier one. The
  comparison also starts at 0 (`argmax.vhd:20, 30`), so an image whose scores are
  all negative gets class 0 after reset; `BestVectorWins` says exactly when the
  class is right.
- `ConsoleError`: `altera_avalon_jtag_uart_write.c:187` gives up after one alarm
  without activity, whatever the timeout, and line 214 then reports "Host not
  connected" if nothing was copied, while the ioctl that asks whether the host is
  connected says that it is. That the host takes bytes is not activity in the device
  (`soc_system_jtag_uart_0.v:439`), so this happens with a host that only listens.
- `FdLock`: `alt_fd_lock.c:61` searches below `alt_max_fd`, which is itself a
  descriptor in use; the comment at line 43 promises a search of all.

## Theorems

All of them hold for every value of the constants that satisfies the named
assumptions of the modules.

**DMA** (`DmaBusProofs`). `TypeCorrect`, `RequestsAreHeld` and
`TransfersFinishAtLength` hold for any transfers. `WindowsAreIntact`,
`WordsAreOwn`, `FinishedTransfersAreDrained` and `OneRequestAtATime` assume
`WholeWindows`: the lengths are whole windows, at most 2^4 of them and at most
2^17 words, as the 784 = 16 * 49 and 48 = 3 * 16 words of `main.c` are;
`DmaBusLeftover` shows that `OwnWords` fails without it. So does
`TransfersAreOnSchedule`, the edges a transfer takes. The invariants are not inductive. Their strengthening
`Inv` says

- `ControlInv`: which registers go with which state (request lines, the channel
  that is not active is clear, the burst count is the channel's)
- `ProgressInv`: the word counter is windows times burst size plus words of this
  burst, and less than the length
- `PortInv`: what the memory owes is exactly the rest of the current burst
- `PulseInv`: a window on the ports is complete, and the last one ends the
  transfer
- `TransferInv`: the address of the burst, and the words stored so far

`ProgressInv` needs facts about products and remainders that an SMT solver does
not find (that the last word of the transfer is the last word of a burst); they
are the lemmas of `ModularArithmetic`.

**Refinement** (`DmaBusProofs`). `DmaImplementsTransfer`: under
`WholeWindows` every step of `DmaBus` is a step of `TransferSpec` or leaves its
variables alone, by cases over the actions, from `Inv`.

**Arithmetic** (`MultiplyAccumulateProofs`). The invariant is that the accumulator
differs from the exact sum by a multiple of its range. Two numbers inside the
range with that property are equal, so a sum that fits is exact although partial
sums may have overflowed; cutting it to 16 bits then is division by 2^8 rounded
down (`SumsThatFitAreExact`) or at least keeps the sign (`SignsSurvive`). This
needs the widths to be related as in the code (`FixedPointAssumption`): the
double width is twice the width, and a whole Q7.8 number fits into it.
`DotProductsThatFitAreExact` says the same of `Accumulate`, the loop as one operator,
for vectors of any length. It is an induction over the length by `SetInduction`, which
follows from the library's fact that a set of naturals has a least element. `Sums` says
of a function that it lists the partial sums of a pair of vectors; `SumsExist` shows
that there is one and `SumsOfVectors` that it is what the recursive function computes.

**Argmax** (`ArgmaxProofs`). `BestVectorsWin`, with the lemma that one scan returns
the maximum of register and scores and the highest class of several equal ones,
and that the register holds the best score since reset (`KeepsPeak`).

**Inference** (`InferenceProofs`). For any memory, images, weights, delays and sizes
such that the lengths are those of the program (`ProgramAssumption`; `3 <= Mod4` since
the window counter numbers the rows). The six properties of `Inference` that are not
liveness are theorems. The chain is:

- `EdgeActions`, `AcceleratorFetches`: a clock edge of the whole accelerator is a step
  of `DmaBus` with the transfers the program means. So the invariant of `DmaBus`
  (`FetchProofs!Inv`) is carried along in `IInv` and with it what a window on the ports
  contains; `Arithmetic` and `ArgmaxStage` are instances of the other two proofs in the
  same way.
- `BaseInv` holds of every call. The registers hold what the program has written so far
  (`RegisterInv`), a transfer under way has the program's length and its window numbers
  are in range (`SizeInv`), activations do not come together with a window (`PulseInv`),
  the argmax register is the best score seen (`BestInv`).
- `PhaseInv` holds of a call that is not hurried, and says how far the data are at each
  line of `pred_image`: `Calm`, then `ImageAsked`, `ImageComing` (the windows so far are
  convolved), `ImageThrough` (in the ReLU), `ImageIn` (activations stored), then
  `WeightsAsked`, `WeightsComing` (the rows so far are stored), `ScoresThrough` (in the
  argmax) and `ScoresIn`. Neither `ScoresAreOfThisImage` nor `ReturnsBestClass` is
  inductive without it: both speak of one moment of the call, and what is true then has
  been collected since its first line. At a line where the program waits the call may
  be in any of several phases, for the hardware runs on meanwhile.
- each phase has a lemma about the edge that leaves it or stays in it
  (`ImageComingEdge`, ...), and each action of `Next` a lemma that puts them together
  (`ComputeNext`, `AccessNext`, `PauseNext`, ...).

`CallsReturnBestClass` then reads: whatever images, hurried calls and resets came
before, a call whose delays were long enough returns the class of its image's largest
score, unless an earlier call since reset had a larger one.

**File descriptors** (`HalFileProofs`). For any size of the pool above three and any
devices. The invariant `FileInv` adds to `MarkCoversUsed` that the standard
descriptors are in use (so a new one is above them and the mark is at least 3) and
that a lock is only at the lowest descriptor of its device (`LockIsLowest`). The
latter is what saves `OneLocker` from the short search of `alt_fd_lock`: the only
other descriptor it can miss is the highest, and when that one asks for the lock it
finds the lower one. `LocksHold` follows from `NoLockMissed`: when a descriptor is
opened, every lock on the device is at or below the mark.

**Alarms** (`HalClockProofs`). For any alarms and any width of the counter. The
invariant `ClockInv` says of each listed alarm where `time` is from `nticks`
(`DueIn`): as many ticks ahead as remain, modulo the range, with the rollover flag
set exactly if the wrap lies between; an alarm the tick has still to come to
(`ToCome`) may be due now, any other is due later (`DoneWith`). It covers the alarm
`alt_tick` points to also when that is off the list (`Known`), for a walk led astray
still compares its time. `AstrayOnlyByStopOfNext` follows from the same invariant by
cases over the actions: a step that does not take `next` off the list goes to the
head or to an alarm on it. The proof is by cases over what a tick or a callback does
to one alarm, with lemmas for sequences without repetition from which one element is
taken. `TimeInv` says that `alt_resettime` is the time set minus the ticks then
counted, `TicksInMicros` that ticks turn into seconds and microseconds as both
functions compute them; that needs `RateAssumption`, a tick is a whole number of
microseconds (100 in the build).

**Console** (`ConsoleProofs`). For any sizes of rings, FIFOs and calls, any traffic and
any host. `ConsoleInv` adds to `UnsentIsKicked` and `ReceiverIsWoken` what makes them
inductive: the driver's copy of the interrupt enables is the device's, a pause interrupt
has bytes behind it, and a pass that receives finds a byte or has put one into the ring.
The last is why the receive interrupt is never turned off over an empty ring, not even
for a late byte. `OutputAlwaysInOrder` and `InputAlwaysInOrder` need `Fits` as well: the
piece that the thread is about to copy fits although the routine has moved its index
since the thread looked, and the room that the routine was told of is still there. A step
then puts the next numbers at the end of FIFO and ring together, takes the first ones, or
moves a byte from one to the other (`MoveOne`); `RingAppend` and `RingDrop` say what
advancing an index modulo the ring's size does to its contents.

Only model-checked: liveness (`TransferEnds`, `ResultsFollow`, `AlarmsFire`,
`CallsEnd`, `InputArrives`, `OutputArrives`, the liveness of `TransferSpec` in
`ImplementsTransfer`), which the installed provers cannot reason about. Every other
property of the passing runs is the statement of a theorem.

## Not modelled

- the testbenches: stimulus, no assertions; quoted where they say what is expected
- the Python notebook: training, offline; its argmax and memory layout are the
  reference for two properties
- the Qsys system and board top levels: wiring
- the first draft of the application in `sw/main.c`: another register map
- calls that only check a descriptor's flags and hand over to the driver
  (`alt_read.c`, `alt_write.c`, `alt_fcntl.c`, `alt_fstat.c`, `alt_lseek.c`,
  `alt_isatty.c`): O_NONBLOCK is a free choice of each call in `Console`
- memory and caches: the application allocates nothing, and its images are constant
  data
- what this system compiles out or never calls: logging (`alt_log_printf.c`), the
  profiler, flash, DMA controllers, file systems, exception handlers, semaphores
  and event flags of an operating system, the small driver
- the performance counter and the timestamp timer; the latter is also the system
  clock (`system.h:210-211`), so `altera_avalon_timer.h:148` never initialises it
- lost ticks: the timer interrupts once however long its interrupt was off, so the
  time of day counts ticks taken, not periods of the timer
- output of Quartus and ModelSim

Most lines of C in the repository are outside of what there is to model. The board
support package is there twice, file by file (`sw/bsp` and
`hw/quartus/software/CNN_accelerator_bsp`); the map names one copy. Every file of it
begins with its licence, and most of the rest is declarations, register macros
and stubs for services this system does not have. The accelerator, the core of
the project, is VHDL.

## What could follow

A general master in place of `main.c`: any register write at any time.
