# A TLA+ verification of the NES emulator

The program is a Nintendo Entertainment System emulator in C++ with a Qt user
interface. This directory specifies the parts of it that are hard to test,
model-checks them with TLC and proves what holds for every size with TLAPS.
`PROJECT.json` lists the runs, which definition models which lines of the source,
the hazards and the disagreements between code and comments that were found.

Parse with `tlasany M.tla`, check with `tlc -workers 2 -config X.cfg M`, prove with
`tlapm M.tla`.

## The system

One machine (`Nes`), driven by a thread, and what is attached to it:

| part | source | state | operations | hard because |
|---|---|---|---|---|
| Control | `system/nes.cpp`, `io/prompt.cpp`, `platform/menu_handler.cpp`, `platform/main.cpp` | `state_`, `should_exit_`, the prompt's queue, mutex, semaphore, shutdown flag | run, step, stop, load, quit; the prompt thread's loop | threads that meet in two atomics; every load adds a prompt thread |
| Processor | `processor/processor_6502.*`, `processor/instructions.*` | registers, RAM, the bytes fetched so far, cycles to wait for, NMI line, breakpoints | `step()` per cycle, `reset()` | an instruction is spread over calls, interrupts and breakpoints come between; arithmetic at the boundaries |
| PPU | `processor/nes_ppu.*`, `processor/ppu_address_bus.hpp`, `io/display.*` | position, nametable pointer, registers, latch, addresses, scroll, OAM, palette, VRAM | `step()` per cycle, register reads and writes, `reset()` | an incremental pointer, deferred writes, a shared latch, frames of two lengths |
| APU | `processor/nes_apu.*` | registers, frame sequencer | `step()`, register writes | turns writes and time into calls on the generator |
| Audio generator | `platform/audio_output.*`, `platform/audio_player.*` | event queue, parameter queue, semaphore, streams, output buffer | `step`, `update_parameters`, `decrement_*`, `step_sweep`, `set_enabled`, `stop`; the producer loop; `readData` | three threads, three locks, two queues that must stay in step |
| Ring buffer | `lib/utils.hpp` | slots, head, tail, full flag | `push`, `pop`, `is_empty` | overwriting and wrapping |
| Cartridge | `io/cartridge.*` | MMC1 shift register, bank registers, bank spans | bus reads and writes, `reset` | a register loaded one bit at a time; windows that stand until the next selection |
| Buses, joypads | `processor/address_bus.*`, `processor/ppu_address_bus.hpp`, `io/joypads.*` | strobe, samples, video memories | decoding, mirroring; sampling; reads that consume | reads with side effects, buttons that change while they are sampled |
| Agent | `agent/agent_interface.*`, `system/nes.cpp` | list of connections and its flag, a screenshot per connection | accept, send, receive, shutdown | a thread per connection that may block in its socket, a list edited while they end |
| User interface, files, scripts, `magic_enum` | `platform/`, `io/files.*`, `scripts/`, `lib/magic_enum.hpp` | - | - | presentation, I/O, third party: not modelled |

Threads: the Qt main thread (menu, keyboard, painting), one prompt thread per ROM
loaded, which runs the machine inside a command, the audio producer, Qt's audio
thread, the agent server and a thread per agent connection. The machine itself is
sequential: `Nes::step()` steps the PPU, then, every third time, joypads and
processor, and every sixth time the APU; processor and PPU meet in the register
accesses of the address bus and in `nmi_signal_`.

## The modules

**`DropOldestQueue`, `CircularBuffer`, `CircularBufferProofs`.** The ring buffer of
samples (`lib/utils.hpp`): one action per operation, the exception of an empty pop
included. `DropOldestQueue` is what it promises, a bounded queue that drops its
oldest element; the refinement maps the slots from tail to head to that sequence.

**`NesControl`, `NesControlProofs`.** `ui` is where the Qt main thread is, `prompt[t]`
where each prompt thread is. Every read or write of `state_` and `should_exit_`
that another thread can get in between is a step: `update_state(IDLE)` is a test,
a write and a clear. What happens under the prompt's mutex alone is one step. A
prompt thread holds the mutex during a whole command, run included, as
`launch_prompt()` does. "Load" is offered with a valid and an invalid cartridge.

**`AudioStream`, `AudioGenerator`, `MCAudioGenerator`, `AudioGeneratorProofs`.** `AudioStream` has the pure
functions of a channel (envelope, length and linear counters, sweep, reload);
`AudioGenerator` the queues, the semaphore and the producer thread. A call of the
emulator thread is cut where it takes and releases its locks: the event is queued,
then the semaphore released; parameters are pushed with the event. A wave form is
abstracted to the number of samples produced. The samples, which are numbered, go through
the queue that `CircularBuffer` is shown to implement to the sound device, whose requests may come
between any two of them.

**`Bytes`, `InstructionTable`, `Instructions`, `AtomicCpu`, `Cpu6502`, `MCCpu6502`, `Cpu6502Proofs`.**
`Instructions` has the 6502's handlers and addressing modes as functions from
registers and memory to registers and memory; they follow the code where it differs
from the chip (the status register restored by RTI keeps the break flag, BNE compares
the pages differently from the other branches). `Cpu6502` is `Processor6502::step()`:
wait, stop at a breakpoint, take the NMI, fetch a byte, execute with the last one.
`AtomicCpu` is what a program relies on, an instruction or an interrupt at a time.
Opcode 255 is one past the table (and an unknown one throws): both end the process.

**`PpuPorts`, `NesPPU`, `PpuPicture`, `MCNesPPU`, `MCPpuPicture`, `NesPPUProofs`.** The PPU as `Nes::step()` drives it, three steps
(`Step`) to one of the processor (`Compute` or `Access`). `offsets_` holds the nametable
pointer and the counters beside it; `ports_` the write flags, the latch, the addresses
and the latest store. `PpuPorts` is a PPU whose ports act at once. The values the
constructor leaves uninitialised are chosen from `Garbage`. `PpuPicture` adds what every step
draws into the two buffers of `NesDisplay`: the pixel of the background at the pointer (`DrawsPixel`), the sprites before it
when the picture is over (`EndsPicture`), the cleared buffer and the sprites behind it at the blank (`BeginsBlank`).
A colour is known by the dot of the tile or sprite it comes from and by its palette selection, not by its RGB value; the patterns,
nametables and sprites of a program are constants, and its sprites stay off the line below the picture (see Observed). A store outside the memories of the PPU ends
the behaviour (`OutOfBounds`): an assertion fails or an array is overrun.

**`NesApu`, `MCNesApu`, `NesApuProofs`.** The sequencer and the registers of the APU. `Step` is `NesAPU::step()`:
when a quarter (or a fifth) of a frame is over, `Quarter` clocks the channels with the registers as
they are now, then handles the registers whose flags are up, in the code's order: the parameters
of each channel (`Shaped`, `Tuned`, `Started`), the status register, the frame counter.
`write_register` is what the address bus makes of a store, `reset` what loading a cartridge
does. The streams are those of `AudioStream`; the calls reach them at once, as if the generator
always kept up (`AudioGenerator` has the queues in between). A frame has `FrameTicks`, 357954 in the code, and the APU is stepped
every `StepTicks`, 24: neither the steps of the sequencer nor those of the APU need divide a frame (`Remainder`). The flags of the registers have
no initial value in the code: `Unset` chooses none or all of them. Noise and DMC registers, which only
have a flag, the duty cycle and the forwarding to `AudioPlayer` are left out. So is, in `AudioStream`, what no property depends on: a stream switched on
with frequency zero (by `set_enabled(true)`), for which the wave form divides by zero (`audio_output.cpp:85`), and the narrowing of a swept frequency to `int16_t`.

**`SerialPort`, `Cartridge`, `Joypads`, `AddressBus`, `MCAddressBus`, `AddressBusProofs`.** What the
processor and the PPU reach over their buses, composed as `Nes::step()` does: the joypads (`joypads_step`),
then the processor (`processor_step`), which reads and then writes. `Cartridge` has both mappers. A byte of a cartridge is known by its
place, so that `bank_` is a record of spans; `register_` holds the four registers of MMC1.
`write` is a write that clears, shifts, or commits the fifth bit. `SerialPort` is what a program
relies on there. In `Joypads` a `Sample` asks for the eight buttons one after the other, the buttons changing once
in between, and before and after as often as they like. A program of `AddressBus` is the set of
its reads, writes and stores, in any order. What ends the process (an assertion, the overrun
of `prg_ram_`, the exception of a `std::optional` without a value) ends the behaviour (`fault`).

**`AgentInterface`, `MCAgentInterface`, `AgentInterfaceProofs`.** `server`, `emulator` and `main` are where the three
threads are that call the interface, `connection[c]` where the thread of each connection is, `client[c]` the
far end of its socket: a client reads, stalls, hangs up, or hangs up with data
unread, which the next use of the socket is told as a reset. `agents_mutex_` is a variable, the `screenshot_mutex_`
of a connection is held exactly where its thread writes. Erasing a connection is two steps, since its destructor raises a flag
and waits for the thread. A thread that has sent what there is looks for a message (`Receive`, and the parts of `Run`): it reads a header, or nothing, or is told of an error; checks that what
follows fits into its buffer, which ends the process if it does not (`AssertFails`); and then reads the rest, for which it waits without looking at its flag. What messages say, and when a press expires, is left out: for the machine they are buttons that change
(`Press` in `Joypads`).

## The runs

| run | instance | states | shows |
|---|---|---|---|
| CircularBuffer | 4 slots, 3 values | 4,132 | the flag, the live slots and the refinement of the queue, through wraps and overruns at every position |
| NesControl | 2 prompt threads, commands run, step, exit, at most 2 queued | 15,596 | see below |
| NesControlInterrupt | as above | violation | `InterruptReturnsStopped` |
| AudioGenerator | 3 calls of the emulator, 2 samples a step, an output buffer of 3, requests with room for 1 and 2, an envelope of 4 units | 192,850 | see below |
| AudioOrder | 2 calls | violation | `DisabledStaysDisabled` |
| Cpu6502 | a looping program with subroutine and NMI handler; about 3,800 single instructions; 2 NMIs, 1 reset | 205,556 | see below |
| NesPPU | tiles of 2x2 pixels, 3 by 2 tiles, 8 cycles by 8 lines; 7 programs, 8 and 4 sprites | 350,943 | see below |
| PpuOddFrame | as above | violation | `OneFewerCycle` |
| NesApu | frames of 87 ticks, the APU stepped every 4; 4 programs with 2 or 3 writes in 2.5 frames, 1 without in 12 | 539,363 | see below |
| AddressBus | 5 programs on 5 cartridges; 3 states of the buttons; 12 cells of video memory | 304,520 | see below |
| Agent | 2 clients | 217,931 | see below |
| AgentErase | 3 interchangeable clients | violation | `ErasesEndedOnly` |

`CHECK_DEADLOCK FALSE` is set where the system really stops: the application quits,
the bounded calls have been made, the processor met an unknown opcode, or an
assertion or a memory error ended the process.

*NesControl.* `OneCommandAtATime`: two prompt threads over one machine never execute
together. `NeverPopsEmpty`: `front()` is never taken from an empty queue, because
semaphore and threads about to pop count the commands. `RunningIsReal`: RUNNING is never
a leftover. `StopEndsTheRun`: a stop that found the run ends it. `NothingRunsAfterShutdown`: once `shutdown()` has
returned no prompt thread touches the machine, although none is joined and commands may be left.
Two threads are enough for every race between two loads, and with a third nothing new
can happen at the mutex; two queued commands let one wait behind another.

*AudioGenerator.* `SemaphoreCountsEvents`, `ParamsMatchEvents` (two queues under
different locks stay in step), `DrainedInOrder`, `RightNumberOfSamples`, `EventsDrain`,
`StopJoins`, `HeardInOrder` (the device gets every sample once, those overwritten in a full buffer excepted; the buffer of three overruns with the second
frame). Three calls suffice for an update between two others, and each call may be
any of the kinds, on two channels.

*Cpu6502.* `ImplementsAtomic`: cycles, breakpoints, watchpoints and the point in time of an
interrupt request make no difference to what a program computes. `CycleExact`: an
instruction takes the cycles of the table and those its handler returns, unless it returns two, which are charged as one (see Observed). `ExactArithmetic`
states sums, comparisons and shifts by integer arithmetic, with another
definition than the code's bit operations; sums and differences only while the decimal flag is down (see Observed). `CallsAndInterruptsReturn` follows nested calls
and interrupts. `BreakpointsStopEveryTime`, `NmiTaken` (or the run stops before, as at a breakpoint). The single instructions cover every
opcode with operands 0, 127, 128, 255 and addresses at page boundaries; two NMIs let an
interrupt interrupt a handler.

*NesPPU.* `PictureComposed`: a picture during which the program changed neither control nor mask register shows, at every pixel,
the sprite with the lowest index of those before the background, or the tile a direct computation finds there with the palette of
its place, or the sprite behind it, or the backdrop; sprites are flipped as a whole here and tile by tile in the code.
Nothing is left of the picture that the buffer held before. `PointerFollowsPixel`: for every pixel drawn the incremental pointer equals the one
computed from the scroll position (the code keeps that computation as a comment at
`nes_ppu.cpp:170-183`), with the nametable selected when the line began.
`VblankOnlyBetweenPictures`: a stale blank flag is never readable in a picture, except
that sprite 0 sets it at the last position (see below). `ImplementsPorts`: the program
cannot tell that its writes wait for the next PPU step. `BlankComesAgain`,
`PictureIsShown`. A picture of two rows and three columns has every kind of border: between
tiles, at the right edge, at the bottom, and, with scroll values up to the width (as 255 is
to 256) that exceed the height (as 255 exceeds 240), into each other nametable. The
programs start with scroll positions and registers that a former cartridge left and make
at most two (scrolled far), three (ports) or one (the others) accesses, at any time. Two of them draw: sprites over each other,
flipped in both directions, over the right and left edge, transparent, empty, of one tile and of two, with a border of one line as
`Overscan` stands for; an access changes nametable and pattern table, or switches the sprites off, at any time, and the
pictures after it must be whole again.

*NesApu.* `ClockedTwiceAFrame`: in each frame the generator is told of, length counters and sweeps
are clocked twice and envelopes four times, with four steps and with five, unless a load or a
change of the mode disturbs the frame. Frames and steps drift apart, by 2 ticks a frame with four steps and by 4 with five (21477272 / 240 times
four, or 21477272 / 300 times five, against 21477272 / 60): a frame that begins within this remainder and a step of the APU of a step
of the sequencer may have a step more or fewer, and a clock of each kind with it. The property says so and says where; for every other frame it is exact. (A comment in `step_sweep()`, `audio_output.cpp:576-578`, suspects
that it "isn't called at 120 hz"; but for these frames the APU calls it twice a frame.) `NoteLasts`: from the write of a length to silence, a
note is right to a step of the sequencer (two with five steps, which are not evenly spread) and one of the APU.
`WritesHandledInTime`: a register waits for one step at most, also when a cartridge is loaded
meanwhile. `PulseSoundsOnRequest`: the flags of the last program start nothing on the first pulse
channel. The run has each of the register's effects: constant volume and envelope, halted and running
counters, sweeps up and down to the end of the range, the status register, frequency zero. A frame of 87 ticks and an APU stepped
every 4 have the shape of the code's 357954 and 24: nothing divides anything, and the remainders are 3 and 2 (2 and 4 in the code). Two and a half frames are enough for the shortest note (two half frames)
to start and end within them, and in twelve frames the program that only waits comes to frames with a step more and with one fewer, in both modes.

*AddressBus.* `ImplementsSerialPort`: a register changes by five bits that were all written since the last value or
clear, and only the one that the fifth address selects. `BanksFollowRegisters`: after any such sequence the windows
show what the registers say, as soon as the program has made its selection in the mode it set, and lie in the memories;
between a control write and that selection they are those of the mode before, as in the code. `ReadsInButtonOrder`: the k-th read tells a state
the k-th button had while the strobe was up, however often the strobe is moved and the buttons change. `StoresReachMirrors`: a store is
seen at the addresses that a PPU with the wiring of the cartridge makes equal (its definition selects pages by address lines,
the code computes offsets) and nowhere else. The programs switch banks with modes of 16 kB and 32 kB and the one the code
leaves out, pattern banks of 4 kB and 8 kB, the last ones of the cartridge among them, with pattern ROM and RAM; the five addresses cover all registers and
the overrun; the cells have each nametable in both arrangements, the mirrors of three of them, palette and pattern memory.
`MaxReads` allows all eight buttons and two more.

*Agent.* `AnyConnectionsRight`, `ThreadsJoined` (also for a client accepted after the list was cleared),
`HangUpsRemoved` (a dead connection is found out although an error of the socket may first be one that the loop tries again),
`CallsReturn` (the emulator waits for a mutex, a thread that is in `write()` or waits for the rest of a message, and the end of a thread; the destructor for
both kinds of threads). The last one assumes that a client that began a message finishes it or hangs up (Fairness). Two clients are enough for a stalled one that another waits behind and for an erase beside a new
connection; to erase two of three needs a third, and AgentErase has it, without liveness. A client connects once:
a new connection of the same agent is another client.

Every property of a passing run has a mutant: a definition with a plausible defect that
makes TLC find the property violated (`PROJECT.json`, the operators commented `Defect`).

## Bounds

`MaxQueued`, `MaxCalls`, `MaxInterrupts`, `MaxResets`, `MaxReads` and, in NesPPU and
NesApu, the `most` and `resets` or `loads` of a program, and its `ticks` in NesApu, are bounds in the guards of actions that are free to happen any number of
times. `frame_` and `write_latch_` only matter modulo 2 and are kept so. OAM DMA copies from
RAM or the cartridge, not from the registers of the PPU. In AgentInterface a client stalls only when
somebody writes to it, since nobody can tell before. In AddressBus a program selects banks its cartridge has, all of them, the last of each kind included
(`Has`, in the guard `Intended` of a write that loads a register): the spans of others run over the ROM.

## Fairness

NesControl: every thread that can go on does (weak fairness of each prompt thread and of the
UI thread inside a menu item), as long as the process lives: `main()` returns after `shutdown()` and joins no prompt thread, so that nothing is assumed of them once the UI has
left (`ui = "exited"`). Which menu item is chosen is never fair. AudioGenerator: the
producer, which the OS schedules and whose wait times out, and a call once begun. Cpu6502: the
calls of `step()`, made by the loop in `Nes::run()` until one returns false, at a breakpoint, a watchpoint or the stop address (`nes.cpp:85-88`). Whether
the user goes on from there is open, and `NmiTaken` promises nothing of a run that stopped. NesPPU: the same loop, for a run that is not stopped;
the PPU has no breakpoints. No property relies on a user doing
something. AgentInterface: every thread is scheduled, the machine goes on asking for screenshots, and, assumptions on the
other side, a client that stopped reading reads again or hangs up (`ReadAgain`), and one that sent the header of a message sends the rest or hangs up
(`ReceivePayload`), since its thread waits for it at `agent_interface.cpp:266` whatever flag is raised; a thread blocked in `write()` goes on if its client
reads again and again, however briefly (strong fairness). No client has to come and no user to quit. AddressBus and NesApu have no
liveness property: in AddressBus nothing waits, in NesApu the bounded clock states deadlines instead.

## What is proved

`CircularBufferProofs`, for every capacity and every set of values
(from `Size \in Nat \ {0}` and a `NoValue` outside `Values`): `TypeCorrect`, `FlagCorrect`,
`LiveSlotsCorrect`, `Refinement`. `FlagCorrect` says that a raised flag means a buffer at capacity, not the converse: the push that fills the
last slot does not raise it. The invariant adds to the ranges of the indices that the full
flag implies that head meets tail and that the slots from tail to head hold values;
without it the flag says nothing about the distance between the indices. The refinement has one step per
operation: push appends (and drops when full), pop takes the head.

`NesControlProofs`, for any finite set of prompt threads, any subset of the commands
and any bound on the queue: `TypeCorrect`, `OneAtATime`, `RunningCorrect`,
`QueueCounted`, `QuietAfterShutdown`. The inductive invariant says which thread owns the mutex at every place
of the loop (the owner is exactly the thread that executes) and that RUNNING was
written by that owner; the counting argument uses that the threads waiting for the mutex are
distinct members of a finite set.

`AddressBusProofs`, for any set of cartridges, programs, cells and states of the buttons (from `RomsAssumption`, `ProgramsAssumption` and
`CellsAssumption`): `SerialPortImplemented`, a refinement with one step per kind of write, in which the bits that arrived are the
highest ones of the load register; `BanksCorrect`, whose invariant remembers for every window the register and the mode it was
selected by, because the windows agree with the registers only when nothing was set since; `ReadsCorrect`, whose invariant says
that the samples left in the queue are those of the buttons not yet read. `LoadTypeCorrect` is what they rest on. `BanksCorrect` speaks of programs that select banks of their
cartridge, which is a guard of the model (`Has`).

`AgentInterfaceProofs`, for any set of clients: `FlagCorrect` and `NoThreadLeft` from an
inductive invariant of five parts: the types; which thread holds the mutex at which place (`Exclusion`); what the place of
`main` says of the server and the list (`Phases`); that the flag is up while the list has a member and the mutex is free (`FlagRight`);
and that a thread that runs has its connection in the list (`ThreadsListed`), without which the end of the list would say nothing about
the threads.

`NesPPUProofs`, for pictures of any size and any set of programs (from `SizesAssumption`, `ProgramsAssumption`, which lists the
ports a program may access, and, for the pointer, `ScrollAssumption`: the nametables fit into a word, and no program scrolls further
than a nametable is wide, as no byte does): `BlankCorrect`, whose invariant places the beam while the flag is up, from the last dot of
the picture to the first one of the last line; `PortsImplemented`, a refinement whose mapping lets every flagged write act (`Handled(ports_)`). Its
invariant is that at most one write is flagged, that its value is a byte, and that none is flagged when the program may make its next
access, since three steps of the PPU lie between two of the processor: with two flags the four handlers of a step would act in
their own order and not in that of the program. `PictureIsPpu` carries both over to the PPU that draws.
`PointerCorrect` needs more than the pointer at the pixels drawn: between two pictures, in the cycles after a line and while a scroll
position is pending the pointer stands somewhere else. `OnPixel` says where at every position of the beam: on the first pixel of the next
line after a line, on that of the picture in the blank, on its row otherwise (`OnRow`), and in it on its column (`OnColumn`).
The proof then has a lemma for each way to move on: to the next dot, into the next tile, over the right edge into the nametable beside, to the next row,
into the next row of tiles and over the lower edge into the nametable below.
`PictureCorrect` (with `PictureAssumption`: a screen of more than one tile, so that no sprite is higher than its position can tell, whole attribute blocks,
and sprites of bytes) joins the two: `CanvasInv` says what each pixel of the buffer is at every position of the beam,
the sprite behind it alone from the start of the blank on (`Behind`), the background over it once the beam has come there (`Reached`, `Scanned`), and the sprites before it over
both at the end, in the buffer that is then shown. `BuffersInv` keeps the buffers whole, and `TablesInv` says that the tables remembered from the blank and from the
start of the line are those selected now, which holds only while the program leaves the PPU alone. The proof has three parts. `SpritesOver`: of the sprites that
cover a pixel the first one shows, whatever was there before. `DotOnPixel`: a sprite drawn tile by tile, each flipped on its own and wrapping around both edges, puts one dot at most on a pixel, the
one found by counting across and down the whole sprite. `TileOfPixel`: the pointer and the counters beside it name the tile, the dot
and, by other divisions, the attribute byte and the quarter of it that belong to the pixel.
`render_sprites` is a fold, which has no induction theorem the provers could use: a set of numbers that holds zero and with each number the next holds
them all (`Counted`), because what is missing would have a least member, and that is a statement about sets, not about operators.

`AudioGeneratorProofs`, for any channels, parameters, number of calls, samples per step, buffer and requests (from
`SamplesAssumption`, `ParamsAssumption`, `GarbageAssumption` and `OutputAssumption`). `QueueCounted`: semaphore, the producer between its two
steps and an event not yet announced add up to the queue; every step changes the two sides alike. `SamplesRight`: each event remembers how many samples were
due when it was called, and what one leaves due is due to the next (`PromiseInv`). `ParamsMatched`:
calls are numbered, both queues are in the order of the numbers (`EventsOrdered`, `ParamsOrdered`), and, until a push
and a pop of the parameters have overlapped (`raced`), every update that waits has its parameters in the queue or on their way and there are no others (`Paired`): then the first of the one queue
belongs to the first of the other. `AppliedInOrder`: of the events on one channel each goes on from the state the one before it leaves,
the first from the stream as the producer is about to leave it, and the last leaves the state the calls promised (`Chained`, `GoesOn`); with an
empty queue the two ends meet. Nothing is said of a history in which a push and a pop overlapped (`raced`), nor of a channel that
`set_enabled()` hit while actions on it were queued (`bypassed`). `HeardRight`: the samples given and those in the buffer rise, and with those overwritten they are as many as were
produced.

`Cpu6502Proofs`, for any programs, breakpoints, watchpoints and numbers of interrupts and resets (from `ProgramsAssumption`: registers and
memory start with the widths of the chip). The invariant: the types; while an instruction is fetched, the fetched bytes are those in front of
the program counter, fewer than its mode has, and one for each cycle so far (`FetchInv`); once it was executed, the cycles taken and those to
wait for are those charged (`CycleInv`); a breakpoint that is not armed is the one the processor stands at (`BreakpointInv`). `CyclesExact` and
`BreakpointsStop` follow from it. `InstructionsAreAtomic` maps the program counter back by the bytes fetched: fetching is then a stutter, and
the step that executes takes the operands `AtomicCpu` reads from memory at once. `AtomicCpu` is an instance of the same handlers, and that it has
the same ones is itself a lemma for each. `ArithmeticIsExact` compares sums of sets of bits with sums of numbers. `CyclesExact` leaves out a branch whose handler returns two, `ArithmeticIsExact` sums and
differences with the decimal flag set: both would be false of the code (see Observed).

`NesApuProofs`, for frames of any length that have at least twenty steps of the APU (the code's have 14,914), any programs and any flags that are up at the start
(from `FrameTicksAssumption` and `WritesAssumption`: programs write bytes to the registers); nothing need divide anything. `HandledInTime`: the steps made and the time waited
since are not more than the clock (`TimeInv`), also after a load, when the sequencer starts from zero and catches up a step at a time.
`FramesClocked` (`FrameInv`): an undisturbed frame had the clocks of the steps made since it began (`Tallied`), each frame begins and the steps are made at the first step of the APU that is
late enough (`Punctual`), so that begin and end of the frame, measured from the step of the sequencer before them, leave four or five steps between them, or one more or fewer
next to a step; after a load the frame counter runs behind, and nothing is claimed before it and the sequencer have come right,
which they do at the same step, since they are level as long as it is behind. `SoundsOnRequest` (`SoundInv`): until the
program writes to the channel its registers are zero, a timer of zero is frequency zero, and nothing else switches a stream on. `NotesLastInTime` (`NoteInv`): the counter of
a note is its length less the clocks between two steps of the sequencer, counted in closed form (`Clocks`), as long as it sounds, and zero when it is silent;
lengths are even, so that they are whole frames; the sequencer is not behind the clock (`InStep`), for otherwise no note is claimed to have begun;
and a note that begins when the mode changes to five steps begins a quarter of a frame in, between two of the steps of its frame.

Only model-checked: all liveness (fairness is out of the prover's reach); `CallsAndInterruptsReturn`, which depends on the program (one that changes its stack returns elsewhere); and the statements
found to be violated.

## What was found

1. `user_interrupt()` "blocks until running has exited" (`nes.hpp:40`). It returns at once when a
   run is about to start, and that run is then not asked to exit (NesControlInterrupt). It also returns while a run is in its loop, when the
   `update_state(IDLE)` of `load_cartridge()` (`nes.cpp:69`, `nes.cpp:336-343`) has overwritten the RUNNING of that run and a later interrupt finds IDLE.
2. `set_enabled()` does not go through the queue that "all actions" go through
   (`audio_output.hpp:152`): a disabled channel sounds again (AudioOrder).
3. In odd frames all lines lose a cycle, not one (`nes_ppu.cpp:582-584`), and the position where
   the picture is shown is never reached: every other picture is dropped (PpuOddFrame).
4. `send_screenshot()` erases ended connections by ascending position (`agent_interface.cpp:139-142`): of two that ended the second
   erase takes the neighbour, a connection that is active, or runs over the end (AgentErase).

Observed while modelling, not stated as a finding.
Control: `user_interrupt()` waits for ever when a second run is queued behind the one it stops, since `should_exit_` is cleared and
`state_` RUNNING again before it looks (`nes.cpp:143`); a stop while the machine is OFF leaves `should_exit_` raised for the next
run; a command typed during a run blocks the menu.
Processor: `execute_instruction()` keeps what a handler returns, "the number of extra cycles that were used" (`processor_6502.hpp:164-165`), in a
`bool` (`processor_6502.cpp:254`), so that the two of a branch into another page (`instructions.cpp:107-125`) are charged as one; with the decimal flag set the tests assert decimal
sums and differences (`test/instruction_tests.cpp:143-150`, `172-190`), and `ADC()` and `SBC()`, which say that the mode "was removed for cost savings from the nes version"
(`instructions.cpp:21`), add and subtract binary numbers, so that these asserts would fail; a breakpoint is disarmed by a reset that comes while the processor stands on it.
PPU: sprite 0 sets the blank flag and not the hit flag (`nes_ppu.cpp:413-416`); the palette lookup uses the nametable of the last blank, the tile
lookup the current one (`nes_ppu.cpp:726`, `nes_ppu.cpp:653`); the pattern table of the sprites is kept in a byte
(`nes_ppu.cpp:469`), so that they never use the second one; `draw_pixel()` lets pass the line below the
picture (`display.cpp:28` compares with `>`), one past the end of a buffer; with the background switched off the buffer is not cleared and
the sprites of two pictures before stay (`nes_ppu.cpp:98-101`); `oam_data_addr_` does not wrap, and `ppu_data_addr_` is not masked to the bus.
APU: loading a cartridge sets the counts of steps and frames back but not the clock they are compared with (`nes_apu.cpp:33-34`, `nes_apu.cpp:301`),
so that the generator is told of a frame at every step until they have caught up; a write to the frame counter goes to the joypads (`address_bus.cpp:60-63`), so that the mode
with five steps is entered only if the flag of that register happens to be up when the program starts
(`nes_apu.hpp:84` has no initial value), and it would be selected by a zero and not by bit 7; the
third register of the second pulse channel takes the frequency of the first (`nes_apu.cpp:190`);
period and shift count of the sweep are narrowed to a `bool` (`nes_apu.hpp:116-118`); the first two
registers reach a channel only with the third or fourth, and the third, too, reloads the length that
was set last (`nes_apu.cpp:152-158`); the pitch of the triangle overflows `int16_t` for
the smallest timers (`nes_apu.cpp:406`).
Generator: parameters are pushed under the lock of the queues (`audio_output.cpp:421`) and popped under that of the streams (`audio_output.cpp:250`): where the two overlap either
may be lost, and the two queues are apart from then on, which is why the properties about parameters are about what happens before (`raced`);
without samples `readData()` returns nothing, although `audio_output.hpp:77` says that it feeds zeros until a rom is running;
a request with room for exactly one more sample does not get it (`audio_output.cpp:361`).
Cartridge: `prg_ram_` is indexed with the whole address (`cartridge.cpp:125`, `cartridge.cpp:151`) and overrun; mode 2 of the
program banks is not handled, `case 4` cannot be reached; a bank of 8 kB is selected by the whole register instead of half of it; going from
banks of 8 kB to 4 kB, a cartridge with pattern ROM has nothing in the window that was not selected yet; a cartridge
with pattern RAM throws when a bank of 4 kB is selected.
Joypads: the whole byte raises the strobe, not its lowest bit; a peek of the debugger at the port takes a sample.
Agent: the empty screenshot a connection begins with is sent at once, although `agent_interface.hpp:97-99` says the values keep it from being; `start()` clears
`shutdown_` (`agent_interface.cpp:28`), so that a shutdown before it is undone and its `join()` does not return;
a client that does not read stalls the machine, which waits for its `screenshot_mutex_`; the sockets have a read timeout (`agent_interface.cpp:194`), yet a comment at the
rest of a message says that `read_n` blocks without one (`agent_interface.cpp:261`), and the model lets the thread wait there for as long as its client does; a message that announces
more than fits into the buffer ends the emulator by an assertion (`agent_interface.cpp:264`).

## Plan

1. Done: ring buffer, control, audio generator, processor, PPU raster, ports and picture, audio output, APU, buses with cartridge and joypads, agent interface.
2. Done: every invariant and action property the runs check is proved, but for those under "Only model-checked".
3. Left: the Noise and DMC registers, if the code comes to use them.

Not planned: Qt views, file and snapshot I/O, printing, scripts.
