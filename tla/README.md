# microNES in TLA+

microNES is a NES emulator in C with one portable core (`src/src/common`) and
several machines around it: a Pico 2 board (`src/src/pico`), desktop programs
(`src/src/host`), an ESP32-S3 board (`src/src/esp32s3`) and a browser build
(`src/src/web`). This directory models the parts whose correctness depends on
order: two cores and a DMA engine that share a queue and buffers, a console
whose clock, interrupts and bank pointers are kept in several places, a sound
unit and a renderer that take short cuts, the ways of samples and pixels to the
hardware, menus that load and save while a game runs from a borrowed image, and
stores that must survive failure. TLC checks every model on small instances;
TLAPS proves the main properties of the queue, the pacer, the composite video,
the sample clock, the audio paths, the HDMI output, the display of the ESP32-S3,
the cartridge, the SD driver, the save-state stores and the shell for every size.

`PROJECT.json` maps each definition to the lines it models and lists the
hazards, the runs, the mutants and the theorems. Paths below are relative to
`src/src/`.

## The system

### Components, their state and their operations

| Component | Code | State | Operations |
|---|---|---|---|
| Scanline queue | `pico/scanline_queue.c` | ring of 128 lines, two 32-bit counters, stall statistics | push (spins when full), pop (sleeps in WFE), try_pop, reset |
| Composite video | `pico/video_ntsc_ppu_dot.c`, `pico_video_backend_analog.c`, `emulator_video_adapter.c` | row cache, two line buffers, the render position, two DMA channels and their pending flags | core-1 loop, DMA interrupt, present, stop and restart around flash writes |
| Frame pacer | `common/frame_pacer.c`, `pico/pico_time.c` | next deadline, fractional error, statistics | start, wait, frame_done |
| App shell | `common/app_shell.c` | screen, selection, borrowed image, latched combo, status | begin_frame (one handler per screen), step, request_reset, request_menu, quit |
| Menus | `common/rom_menu.c` | selection, first visible row, direction held and for how long | input, select, remove an item |
| Save-state stores | `pico/save_state_store_sd.c`, `host/save_state_store_posix.c` | directory and listing of the last refresh | refresh, save, load, delete, clear_all |
| ROM sources | `host/rom_source_posix.c`, `pico/rom_source_flash_fs.c`, `pico/rom_source_sd.c` | listing, lent image | refresh, load, release, copy to flash, erase |
| FAT32 volume | `pico/fat32.c` | FAT, directories, hint for the next free cluster | read, create, replace, delete, mkdir, directory iteration |
| Cartridge, mappers | `common/cart.c`, `mmc1.c` ... `gxrom.c` | bank registers, bank pointers, CHR banks, interrupt counters | parse, init, write, scanline tick, cycle tick, latch |
| Picture unit | `common/ppu.c` | registers, v/t/x/w, dot and line counters, memories | register read and write, step by cycles, render a line |
| CPU | `common/cpu6502.c` | registers, jam flag | instruction, NMI, IRQ, run to a line |
| Console | `common/nes.c`, `nes.h`, `input.c`, `save_state.c` | RAM, work RAM, controllers, cached bank pointers, pending APU cycles | reset, step line, step frame, poll, capture, apply |
| APU | `common/apu_micrones.c`, `apu_infones.c` | channels, sample ring | register write, run cycles, read samples |
| Pico audio | `pico/audio_pwm.c`, `audio_i2s_max98357.c` | sample ring, DMA blocks | push, interrupt |
| HDMI, TFT, legacy composite | `pico/video_hstx.c`, `pico/display/`, `pico/video_ntsc.c` | framebuffers, DMA channels | present, interrupt |
| SD driver | `pico/sd_spi.c` | card ready, addressing | init, read and write a sector |
| Controllers | `pico/nes_hw_controller.c`, `pico_input.c` | none between polls | poll |
| ESP32-S3 | `esp32s3/main/` | two frame buffers, semaphores, a queue, a sample ring | emulator task, display task, audio task |
| Host, browser, tests | `host/`, `web/`, `src/tests/` | command line, windows, files | loops over the core |

### How they interact

The main loop (`pico/main.c`, `host/run_main.c`) calls, each frame: the
pacer's wait, a poll of the controllers, the shell's `begin_frame`, and, when
the shell says so, the console for a frame, line by line on the composite
build, whole on the others. The display then takes the frame. The shell owns the console and borrows the
image of the ROM from the ROM source without copying it; it calls the
save-state store, which on the Pico calls FAT32, which calls the SD driver.
Core 1 runs the composite video alone: it shares only the scanline queue with
core 0, except when core 0 writes the flash, and then core 1 is stopped. Within
the console the CPU steps the picture unit by the dots of each instruction;
the picture unit ticks the mapper at each line; the mapper moves bank pointers
that the bus keeps a cached copy of.

### What is hard, and what makes each part correct

- *Queue*: two cores without a lock, a sleep that may miss its wake-up, a wrap
  of the counters. Correct: no slot is ever used by both; it is a FIFO.
- *Video*: a beam that does not wait, interrupts that coalesce, a restart that
  throws lines away. Correct: rows of a frame from the top down, no torn line
  once on time again, every frame reaches the screen, no wait without end.
- *Pacer*: a frame lasts no whole number of nanoseconds, and a ROM is launched
  in the middle of an iteration. Correct: no drift, never early.
- *Shell, menus, stores*: long sequences of legal calls. Correct: the image
  that runs is the one lent; a save goes only when asked for; what is loaded
  belongs to the game; a held combo acts once; a battery game goes on.
- *FAT32*: power fails between two sectors; the card fills up. Correct: no two
  files share a cluster, none is lost, a completed call is on the card.
- *Console*: counters on a fast and a slow path, interrupts in interrupts,
  caches of pointers, restored states. Correct: the clock is exact, lines come
  in order, contexts nest, caches are fresh, a restored console goes on as the
  captured one.
- *Sound unit, renderer*: each is written twice, a fast version that runs and a
  plain one kept beside it. Correct: both do the same; samples come on time.
- *Audio paths, HDMI, TFT, ESP32-S3*: a ring or a buffer shared with an
  interrupt, a DMA channel, another core or a PIO. Correct: samples and frames
  arrive in order and whole, nobody waits for ever.
- *Flash, SD card, cartridge*: power fails, the card does not answer, memory is
  refused. Correct: success means that it was done, nothing reaches into
  another image, no pointer dangles.

## The modules

| Module | Models | Notes |
|---|---|---|
| `LineFifo` | what the queue promises | a bounded FIFO with a consumer that may block |
| `ScanlineQueue` | the queue | one action for each memory access the other core can observe |
| `NumberFacts`, `ScanlineQueueProofs` | | lemmas on wrapping counters and on enumerations of finite sets; the theorems of the queue |
| `FramePacer` | the pacer and the three loops it paces | |
| `CompositeVideo`, `CompositeVideoProofs` | both cores, the DMA channels, the interrupt | takes the queue as `LineFifo`; the theorems |
| `SaveShelf` | what a store promises | one shelf of saves for each directory |
| `SaveStateStore`, `SaveStateStoreProofs` | the SD and the POSIX store | each call is an operator that gives its outcomes; the theorems |
| `Menus` | the two lists | operators on a menu record |
| `AppShell`, `AppShellProofs` | shell, ROM source, battery files, host | extends both: its calls are theirs; the theorems |
| `Fat32` | the volume, sector by sector | independent of the store, which assumes atomic calls |
| `Mappers`, `Ppu`, `Bus`, `Cpu6502` | the parts of the console | operators on one record, each extending the last |
| `Nes` | the console and its host | one action for each instruction, interrupt or call of the host |
| `ConsoleProofs` | | the theorems of `Nes` |
| `Apu` | the sound unit of `apu_micrones.c` | the batches that run, and the per-cycle clocks as their reference |
| `Render` | both scanline renderers, and the cache of decoded pattern rows | the pixel renderer is the reference |
| `AudioPath` | samples from the sound unit to the device, on five builds | one action for each access that an interrupt or another core can come between |
| `SoundProofs` | | the theorems of `Apu` and `AudioPath` |
| `Esp32Display` | two tasks, two frame buffers, the stream to the panel | |
| `Hstx` | HDMI: two DMA channels and their interrupt | |
| `TftDisplay` | a TFT panel, from the frame to the bytes it latches | both buses; the skips of the main loop |
| `SdSpi` | the driver of the SD card | the card is external, modelled from the commands it is sent |
| `FlashRoms` | ROMs in the Pico's flash, and the cache of one ROM | one action for each erase and each page |
| `CartLoad` | loading a cartridge | the header and every allocation |
| `SdListing` | the ROMs of a card, and the reading half of FAT32 | extends `CartLoad`, whose parser of headers it uses |
| `DeviceProofs` | | the theorems of `FramePacer`, `Hstx`, `Esp32Display`, `CartLoad`, `SdSpi`, `FlashRoms` and `Render` |
| `MC*` | instances for TLC | the `.cfg` files beside them name every bound |

`MCStorage` and `MCSoundAndPicture` each put several of these modules side by
side: a behaviour is of one *part* (saves, card, flash, cart, list) or one
*stage* (pace, apu, render, audio, display, hdmi, tft), in which the other modules
rest in one of their initial states. Their parts interact in the code through calls that
return, not through shared state, so that nothing is lost by it; it makes one
run of each group, and one list of its bounds.

How state and actions correspond to the code:

**ScanlineQueue.** `ppc` and `cpc` are where each core is in `push` and `pop`;
a step is one load or store of a counter, one half of copying a line, or SEV
and WFE. The barriers give program order. `event` is the event register that
SEV sets and WFE clears; an interrupt sets it too (`Interrupt`), so a wake-up
without a line happens.

**FramePacer.** `pc` walks the loop: `Wait`, then the shell (`ShellMenu`,
`ShellRun`, or `ShellEnter`, in which a launch starts the pacer again), then
`StepAndPresent`, then `Done`. `loop` is which loop it is: TFT, with its skipped
presents, HDMI, or the host. Times are nanoseconds; waits are rounded up to the
microsecond clock as `pico_time.c` does.

**CompositeVideo.** `Core0` presents frames row by row, stays in the menu, or
takes the path of a flash write: warning, stop, erase or copy with progress
reports, restart. `Core1` is the loop of `video_ntsc_ppu_dot.c`: render ahead,
wait for the pending flag, arm the idle buffer. `LineEnd` is the end of a
raster line, in which the chained channel starts, ready or not; `Interrupt`
runs the handler for the channels it finds.

**SaveStateStore, AppShell.** A call of a store is an operator from what there
is to a set of outcomes, one of them for each place an I/O error can occur. A frame
of the shell is `Begin(buttons)`, one branch for each screen with its whole
handler, and `Step`. `Poll` is the host's keyboard poll within a frame,
`PowerCut` leaves what is on disk, `KilledInWrite` kills the host between the
opening of a battery file, which empties it, and the end of the write. Battery
files are indexed by their names (`SavOf`), which are those of the ROMs without
the extension and cut at 95 characters, so that ROMs may share one. `ghost` is
history for the properties.

**Fat32.** `Start` works out the sector writes of a call in order (`todo`),
`Write` performs one, `WriteFails` refuses one, `PowerCut` loses the rest,
`Return` ends the call. Reads may fail when the call starts. `SdListing` has the reading
half one sector at a time: mounting, directory iteration with long names, and
streams.

**Console.** The state `nes` is one record: registers, memories as functions on
the addresses that are not zero, the cartridge, the controllers, the cached
pointers. Instructions are decoded records; programs run from ROM, and where a ROM
has several instructions at one place each visit takes one of them, so that one
ROM stands for many programs. `RunInstruction`, `ServiceNmi` and `ServiceIrq`
are the three branches of the CPU's loop, each with the dots it steps, the
lines it ends, and the mapper's ticks.

**Apu.** `Call` is `apu_step`, `Batch` a turn of its loop: up to the next
sample, as computed by `ToNext`. `Write` is a register write, `Reset` a reset.
`TimersCycles` and `FrameCycles` are the per-cycle functions that the file
keeps and nothing calls. `due` is history: the bytes the DMC was told to play.

**Render.** `RenderLine` draws a line as `ppu_render_scanline` does by default;
`Pixel` and `Hit` are the renderer by pixels, which diagnostic builds use.
Between lines the registers, OAM, pattern memory and its decoded `rows` change.

**AudioPath.** `main.at` is where the main loop is in a push; `PwmIrq`,
`DmaIrq` with `DmaEnds`, the `Task` actions and `Callback` are the other side.
A sample is its number; `lost` are those a full ring gave up.

**Esp32Display.** `emu.at` and `disp.at` are where the two tasks are. `stream`
and `panel` hold the state of `display_stream_*` and whether the bus is held.
`StreamPart` is a turn of the loop of `display_stream_indexed_row`, `RowEnds` what follows
the loop with the call for the next row.

**Hstx.** `BlockEnds` is the hardware's chaining, `HstxIrq` the handler, which
trusts its own `pong` and not the status.

**TftDisplay.** A call puts the operations it makes on the bus in `todo`. With
the parallel bus the PIO clocks bytes out later (`PioOut`, `PioStrobe`), while
RS may already be moved by the processor. `glass` is the panel.

**SdSpi.** `call.at` is the command the driver is at; each may be lost, garbled
or answered. `SwapCard` changes the card between two calls.

**FlashRoms.** The region is a function from units to erased, junk, or a unit
of a directory of two sectors or of an image. `Erase`, `WriteHeader`, `WritePage`
and `EraseDirSector` may be cut by a power failure with any of their units done,
from the first or up to the last. An entry that is still erased is listed and lent as what the
code reads there: all ones.

**CartLoad.** A load and its parser, with a set of allocations that are
refused; `heap.live` are the blocks allocated.

**SdListing.** `req.at` walks refresh (directory sectors, then headers) and loads; each
reading step may find its sector unreadable.

## The runs

Every bound is named in a `.cfg`. A passing run covers all reachable states
within it. "Free" means that each step may take any value of the set.

| Run | Bounds | What it shows |
|---|---|---|
| `scanline_queue` | capacity 2, counters modulo 4, two contents, two line numbers | no slot is used by both cores at once; the ring implements `LineFifo`, its liveness included |
| `composite_video` | 2 rows, 4 raster lines, capacity 1, 4 frames, one late line, one flash write | rows from the top down, no torn line once on time, raster order and phase, no push without end, every frame shown |
| `storage`, part saves | two ROMs on one directory, three slots, a listing of two, two tries, both backends, one I/O error for each | what the stores answer is true (`StoreOK`); both keep the saves as `SaveShelf` promises, call by call (`KeptOnShelf`) |
| part card | four kinds of card, two blocks, two lost answers, 4 calls | a call that reports success did it, no other block changes, the bus is given back (`CallsAreSafe`) |
| part flash | region of 24 units: blocks of 8, sectors of 4, pages of 2, a directory of two sectors; three cards; 3 jobs | after a copy or a power failure every entry names its own image, or what is missing of it, or is still erased (`ImagesAreOwn`) |
| part cart | 16 headers, every set of refused allocations, 2 loads, host and device | memory is owned, pointers live, windows follow the copy of PRG (`PointersLive`) |
| part list | four volumes, 2 unreadable sectors, 2 requests | ROMs are listed as the card has them and delivered whole; what loads was listed as what it is (`RomsAsOnCard`) |
| `shell` | lists of up to 3 ROMs, 2 rows, free buttons of 7 sets at most; Pico with saves on a card; Pico whose flash is erased and copied to, also half an image; host with three ROMs on two battery files, quits and kills; host with two, whose files fail | nine properties (three of them in `ListsOK`): the image that runs is the one lent, names of saves go only when asked for, what is loaded is the game's own, combos act once, battery games go on |
| `clear_overflow`, `shell_status`, `shell_names`, `apu_wrap`, `freed_once` | as `storage`, `shell` and `sound_and_picture` | violations: see the findings |
| `fat32` | 6 clusters of two entries, files of two clusters, two interchangeable file names, one directory, one mishap | no cross-links, no leaks, completed calls are done, nobody else's file changes |
| `console` | 14 ROMs; lines of 30 dots, 6 lines with 3 of picture, 2 frames, 10 controller reads, one restore | clock, lines, scroll, interrupts, controllers, bank pointers and restored states |
| `sound_and_picture`, stage pace | frames of 17/3 ns on a clock of 2 ns; free times for shell, step, present and lateness; followed for 32 ns | deadlines stay exact and no frame starts early, over launches and overruns in all three loops |
| stage apu | 2 samples in 7 cycles, calls of 5 and 12 cycles, 41 cycles, 3 writes to one channel at any time | a batch is its cycles, samples are on time, sweeps stay in range, the DMC plays every byte |
| stage render | 4 columns of 2 by 2 tiles, 3 lines, 3 sprites of which 2 are drawn, 2 changes of registers, banks or patterns | the line by tiles is the line by pixels, sprite 0's hit included, for cartridges of the mappers other than 9 |
| stage audio | rings of 8 slots, chunks of 3, blocks of 2, frames of 3 and 5 samples, 14 samples | samples are heard in order, each once, without those given up |
| stage display | windows of 2 or 3 by 2 to 4, buffers of 2 and 4 pixels, 4 frames | frames reach the panel whole and in order, the tasks never wait for each other |
| stage hdmi | 3, 2 and 3 blank lines, 6 lines of picture, 2 per row; stops anywhere | every frame is complete from the first block |
| stage tft | frames of 4 by 3 in a panel of 6 by 4, 4 pictures, a FIFO of 2, both buses | the panel shows what it was sent |

Properties of several modules are checked together under one name where they
are one question: `StoreOK`, `RasterOK`, `ListsOK`, `VolumeOK`, `ConsoleOK`,
`ChannelsOK`, `ListingOK`, `FramesArrive`; `RomsAsOnCard` and `ShownAsDrawn`
are defined in the `MC` modules. Type invariants are conjuncts of them.

**Why the bounds are enough.** The queue of 2 is full, empty and wrapped after
a few steps, and the theorems cover every other size. A frame of 17/3 ns
carries its fraction at two of three frames; a tick of 2 ns is no divisor, so
every rounding occurs; again the theorems cover the rest. Four raster lines
share no factor with the three phases, so that all twelve combinations occur,
as the 262 lines of the code do; capacity 1 below 2 rows gives the queue that
is shorter than a frame (128 below 240). In the part saves a directory
holds one save more than a listing, so that saves are not listed, not seen when a
name is chosen, and left by `clear_all`; in the shell two saves and two rows
make every list empty, full and longer than the screen, and of three ROMs two share
a battery file. A card of six clusters
fills up with two files, and its root grows with the third entry. A line of 30
dots is longer than the longest step (24 dots), as 341 is, so that no step
ends two lines: this relation is an assumption of `Ppu`, and the other
distances keep the order of the code's. The rings of samples fill up, wrap and
evict; a block is no divisor of what a frame makes. The panel's buffer is as
long as a row, shorter, longer, and such that the frame ends exactly on it, as
61440 pixels do on buffers of 4096. The blank lines of HDMI end on either
channel. A region of 24 units holds a directory of two sectors and three pages, a second
image that starts in another sector, and an image that ends in half a block; the
cards have more ROMs than the directory has room for, an empty file, and an
image that does not fit. The volumes have a
directory of several clusters, one that fills its clusters, more ROMs than are
listed, scattered files, a chain that is too short, and no volume at all.

**What may stop.** Deadlock is checked in the queue's, the composite video's and
the shell's runs. The others stop: the parts of `storage` and the stages of
`sound_and_picture` at their bounds on calls, frames, samples and, for the pacer, time, the volume's after a mishap in a call that replaces or deletes
(below), the console's at its bound on frames or when an invalid opcode stops
the CPU. `NeverStuck` of `Esp32Display` says that the two tasks do not stop
because of each other.

**The programs of `console`.** One ROM switches scroll in the middle of the
picture, from rows 29 to 31 and between; one runs mapper 4 with nested NMI and
IRQ; one strobes and reads controllers while the host presses buttons; one
runs the instructions with their addressing modes; the others switch the banks
of one mapper each. The mutants show that each property depends on the detail
it is about: a scroll that wraps one row late, an interrupt one line early, an
RTI that keeps the handler's flags, a bank pointer not refreshed.

**Restrictions that properties state.** `NoCrossLink` and the type
invariant of `Fat32` say nothing after power failed, or a write was refused,
within a call that *replaces or deletes*: the code frees the clusters before it
changes the entry, so that the entry then points at free clusters. Such a
behaviour ends there (`bad.torn`). `StoreOK` says of a listing that it is complete, and
of a deletion that it was done, only when no read or write failed; and of
`clear_all` on SD only that what was listed is gone (at most 64 saves in the
code; `clear_overflow` shows the rest). `OnlyAskedIsLost` is about names:
a save that is written over as the last resort, or spoilt by an error,
keeps its name, and is `KeptOnShelf`'s matter. `ContinuesWhereLeft` is about the host,
since the Pico keeps no battery files, and allows for what a failure makes
of the file of the game itself. `ListedAsOnCard` counts the ROMs only of directories that end in a
marker (below). `PointersLive` stops at the double free of `freed_once`.

**Assumptions about the hardware.** HDMI's interrupt is served before the other
channel ends, and the I2S interrupt comes at most once between the push's test
of the ring and its eviction (`AudioAssumption`; a block lasts 2.7 ms): both
handlers are short and nothing masks them for so long. A card that is deselected drops
its late answer. In `SdListing` the card stays in its slot; changing it is
`SdSpi`'s. The panel of the parallel bus has its chip select tied low, and
nobody knows what a panel's memory holds after a reset.

### Fairness

- `ScanlineQueue`: weak fairness of `PushStep` and `PopStep`: each core goes on
  with the call it is in. Nobody is obliged to call. A core that sleeps in
  WFE has no step until the event register is set.
- `CompositeVideo`: weak fairness of `Core1`, `LineEnd`, `Interrupt` and of a
  push that has room: core 1 runs nothing but its loop, the DMA is paced by the
  PIO, and core 1 takes the interrupt whenever it may. Core 0 may stay in the menu or in a
  flash write as long as it likes.
- The other specifications state none, and no liveness is claimed of them. That
  the two tasks of the ESP32-S3 go on is stated as an invariant.

### Findings

Five statements of the code's own comments that the code does not keep; each
has a run in which TLC finds the counterexample.

1. `common/app_shell.c:243` - a battery write that fails sets a status that
   the way back to the menu clears at once; `app_shell.c:36` says it is logged
   into the status (`shell_status`).
2. `pico/rom_source_flash_fs.c:140` - after a copy to the flash that failed
   half way, the listing in RAM shows the old ROMs and `load` reads the new
   directory: another game starts than the one shown (`shell_names`).
3. `common/apu_micrones.c:653` - half of a cycle count that has just wrapped at
   2^32, less half of the old one, is about 2^31: the noise loop then runs so
   many turns; `apu_micrones.h:192` says it wraps harmlessly (`apu_wrap`).
4. `common/cart.c:368` - when CHR RAM or the decoded rows cannot be allocated,
   the parser's `cart_unload` has freed the image already, and its caller frees
   it again (`freed_once`).
5. `pico/save_state_store_sd.c:184` - `clear_all` of the SD store deletes the
   saves that are listed, at most 64, and reports success;
   `save_state_store.h:70` says that it deletes all of the ROM's (`clear_overflow`).

Seen while reading, without a run of their own:

- `nes_step_frame` returns when row 0 of the next frame is ready
  (`common/nes.c:215`), so that its buffer holds row 0 of one frame and the
  rest of the frame before. The ESP32-S3 build switches buffers after each call, and
  each of its buffers mixes two frames in that way.
- The picture unit's test for a visible dot reads a counter that the fast path leaves
  stale (`ppu.c:249`): scroll writes in the horizontal blank take effect on the line
  still to be drawn. The model keeps this.
- `nes_reset` leaves the interrupt of mapper 40, the banks of the other mappers and the pending
  APU cycles as they are. A restored state brings back the buttons held when it was
  captured, until the next poll. Both are modelled.
- An NMI enabled within the vertical blank is not raised; interrupts of the APU
  never reach the CPU; OAM DMA takes no cycles.
- MMC1 does not wrap its bank to the size of the ROM; the run gives it a ROM of
  32 banks, in which every bank number exists.
- A battery file that cannot be read is ignored at launch and overwritten at
  exit; it is emptied before it is written, so that a kill between the two leaves
  nothing. Two ROMs whose names agree but for the extension, or in their first 95 characters,
  share one (`rom_source_posix.c:130-138`). A front-panel reset clears the battery RAM.
- `fat32_dir_next` repeats the last sector of a directory that fills its
  clusters exactly, so that its last ROMs are listed twice; without the
  exception for such directories `ListedAsOnCard` fails.
- The listing of a card calls a ROM supported by its mapper number alone; the
  cartridge also refuses four screens, some submappers, sizes and truncated
  images. A directory sector that cannot be read shortens the list without an
  error. `sd_refresh` means to mount again "in case the card was changed", but
  `fat32_is_mounted` never becomes false (`rom_source_sd.c:147`).
- `rom_source_flash_cache.c` is compiled, but no program initialises it.
  `flash_fs` ignores how much was streamed; its directory is written before the
  images, so that after a power failure it names images that are still erased.
  When power fails between the pages of the directory itself, its head counts entries that
  are still erased: they are listed, and lent as images of 2^32 - 1 bytes that begin
  one byte before the region. The cartridge's parser refuses them, as they do not
  begin with its magic bytes.
- The frame counter of the sound unit drops the cycles past its last step.
  Register writes reach it before the cycles pending in the bus have been run
  (`nes.c:143-198`).
- With mapper 9, whose CHR banks are moved by the reading itself
  (`nrom.h:50-59`, `nrom.c:32-34`), the two renderers read in different orders
  and need not draw the same line. `Render` leaves mapper 9 out.
- On a TFT panel the margins outside the picture are never written in a game.
- The ESP32-S3's branch for "the other buffer is free while the preferred one
  is not" (`esp32s3/main/main.c:95`) cannot be reached: buffers are freed in the
  order they were taken.
- The host polls the keyboard in the middle of a frame too; what it then gives
  the game has not been through the shell, and may be a combination that the
  shell keeps from games (`run_main.c:735`).
- After the console failed, `main` starts the test pattern of the legacy
  driver beside the dot driver's (`main.c:398`).

## The proofs

`tlapm` on each of `ScanlineQueueProofs`, `CompositeVideoProofs`, `SoundProofs`,
`ConsoleProofs`, `DeviceProofs`, `SaveStateStoreProofs`, `AppShellProofs` and
`NumberFacts` checks everything from nothing.

**Queue** (`ScanlineQueueProofs`), for every `Capacity` and `Modulus` with
`CapacityAssumption`: the capacity divides the modulus, which is larger than
the capacity plus one. The code has 128 and 2^32.

- `TypeCorrect`: `Spec => []TypeOK`.
- `Invariance`: `Spec => []IInv`. `NoSlotRace` is not inductive: it does not
  say how head and tail are related. `IInv` adds that the occupancy is at most
  the capacity, that there is a free slot while the producer is between its
  test and its store of head, that there is a line while the consumer is
  between its test and its store of tail, and what the half-made copies hold.
- `RaceFree`: `Spec => []NoSlotRace`. Two slots of counters that differ by
  less than the capacity are different (`DistinctSlots`); that needs the
  capacity to divide the modulus.
- `Refinement`: `Spec => Fifo!FifoSafety`, under the mapping of the slots from
  tail to head to the queue. The store of head appends, the store of tail
  removes the first, every other step stutters or is a call.

**Pacer** (`DeviceProofs`), for every frame duration, clock and set of
times with `PacerAssumption`:

- `ExactCadence`: `LoopSpec => []NoDrift`; the n-th deadline is n frame durations
  after the start, rounded down, however late frames were.
- `Paced`: `LoopSpec => []NeverAhead`; no frame is started before its turn.
- `TimesAddUp`: `LoopSpec => []TotalIsElapsed`; the frame times add up to the time since the start. It is proved
  only; no run checks it.

The invariant ties the deadline and the error together: deadline times
denominator plus error is the number of frames times numerator. From this,
`DivUnique` gives the rounding. It also says that a frame that is past its wait has waited.

**Composite video** (`CompositeVideoProofs`), for every picture, raster, queue
and number of frames with `VideoAssumption`: among others, the raster has more than
two lines, since core 1 prepares two before the first goes out.

- `Invariance`: `Safety => []IInv`.
- `Untorn`: `Safety => []RasterOK`; when core 1 is on time again, the line that goes out is
  not one it is still writing.
- `InOrder`: `Safety => RasterOrder`; from then on raster lines, and the phases
  of the colour carrier, follow one another.
- `TopDownOnScreen`: `Safety => []NewestFirst`; whatever restarts threw away,
  the screen holds frames with the newest on top.

`IInv` has two halves. `StreamOK` follows the rows from core 0 to the screen:
the row above a queued one is queued just before it or already shown, and no
frame is newer than one behind it. `BeamOK` follows core 1 in the time of a
line: interrupt, wait, pull, draw, arm; `Round` lists the places it may be in
one line after it was on time, with the channel that plays, the pending flag,
and what the idle buffer holds. `RasterOK` is not inductive without it: whether
a line is torn depends on where core 1 was when the line before ended.

**HDMI** (`DeviceProofs`, with `HstxAssumption`), for every geometry with at least
one active line and a front porch of two lines, which the two channels take when
the output starts; the code has 480 lines and a porch of 10:

- `PictureInOrder`: `HstxSpec => []FramesInOrder`, a part of `ShownAsDrawn`: the blocks
  that the hardware was given are those of one frame after another, none left
  out and none twice, over the wrap from the last line to the first.

The invariant `HstxOK` says that the channel that plays holds the block at
`sent`, and that `Place`, the block which line counter and `posted` say is armed next, is
two ahead of it, with the other channel holding the one between; or one ahead, when a channel
has just ended and its interrupt is still to come. That channel is the one
`pong` names (`Turn`): this is why the handler may trust its own `pong` and never
reads the status.

**Display of the ESP32-S3** (`DeviceProofs`, with `DisplayAssumption`), for every window,
every DMA buffer, shorter or longer than a row or as long as the frame, and any
number of frames:

- `FramesReachThePanel`: `DisplaySpec => FramesArrive`.

`DisplayOK` has three parts. `OneHolder`: a buffer is free, or the emulator
draws into it, or it is queued, or the display task streams it, and never two
of these; so a frame that is drawn finds room in the queue (`RoomToSend`), and a
buffer that the emulator sleeps for is on its way back. `Contents`: frame numbers
follow one another from the panel over the stream and the queue to the buffer
being drawn. `OnTheBus`: the pixels the panel took and those in the DMA buffer are,
together, the first of the frame, up to where the row and what is left of it
say (`Streaming`); at the end the bus is held just when the stream is still open
(`Streamed`), which is what `display_stream_end` has to settle when the last chunk
filled the buffer.

**Sound unit** (`SoundProofs`), for every clock, every sample rate up to it
(`ClockAssumption`) and calls of any lengths:

- `OnTime`: `Spec => SamplesOnTime`; the samples are those that the cycles
  make, each mixed in its cycle. The invariant is an equation: the phase is
  rate times cycles less clock times samples, and below the clock; `RoundedUp`
  says that a batch ends at the least cycle that reaches the next sample.
- `PlaysAsGiven`: `Spec => []ChannelsOK`, over writes, resets and calls in any
  number and order: the periods of the pulses stay in the range of their timers, and
  the DMC plays each byte of a sample once, in order. It needs `RegisterAssumption`:
  the fields of a register are as wide as their bits, the two parts of a period make
  `PeriodMax`, and a bit of the DMC lasts so long that a batch of at most 38 cycles
  takes no more than one byte (8 bits of 54 cycles). The invariant (`ChannelsInv`)
  adds what the records look like, that the reader has fetched whenever there is
  something left to fetch, and which bytes are due (`DueIs`): the byte in the buffer,
  then those from `current` on, `remaining` of them. `DmcFires` is where
  the assumption is used.
- `OneCycleMore`: a timer advanced by n + 1 cycles at once is the timer
  advanced by n and clocked once more, of every period and from every count.
- `BatchesAreCycles`: `Spec => BatchIsCycles`, for registers, periods and calls of any
  size: a turn of the loop of `apu_step` leaves the channels where its cycles would, one
  at a time, with the clocks of the per-cycle reference, but for what
  `BatchIsCycles` itself excepts (the triangle below a period of 2, and the cycles
  past the last step of the frame counter). Its hypothesis, `MaxCycles < Wrap`, keeps
  `cpu_cycles` from wrapping: where it wraps the statement is false, which is the finding
  on `WrapsHarmlessly`. `FrameAssumption` says that a batch (19 APU cycles at
  most) holds one step of the frame counter (3728) at most. The argument: the DMC, the
  noise and the frame counter are folds over the cycles, and a lemma for each
  (`DmcOneMore`, `ShiftOneMore`, `FrameOneMore`, `TimersOneMore`) takes the last
  cycle off, by the least number for which it would fail (`LeastNatural`), because the prover has no
  induction; every channel then moves as its clock does (`PulseOnce`, `TriangleOnce`,
  `NoiseOnce`, `DmcOnce`); the frame counter is where the steps it passed leave it
  (`FrameCyclesAre`), what it clocks does not depend on its own count (`QuarterKeeps`,
  `HalfKeeps`), and the channels' timers are clocked one beside the other (`TimersAre`).

**Audio paths** (`SoundProofs`), for every ring, chunk, block, frame and
buffer with `AudioAssumption`. It asks for a ring longer than a chunk and a
block together: the I2S driver's ring, the one that evicts, has 4096 slots with
chunks of 256 and blocks of 128.

- `HeardAsMade`: `AudioSpec => []HeardInOrder`, on all five builds.

The invariant `AudioOK` puts every sample in one of six places that stand in a
line: heard, playing, queued for the device, in the ring, in the main loop's
hand, in the sound unit's buffer. Each place holds samples in the order they were
made and none newer than the places behind it (`LineOK`); together with those
given up they are all that was made, each once. `RingOK` says which slots are
published and which are stored but not yet published, and that a full ring of
the I2S driver still has more than a block published when a push goes to evict: this
is where `Chunk + BlockSamples < RingSize` is needed, and where the interrupt between
the test and the eviction would otherwise make the push discard a sample it has
not got.

**Console** (`ConsoleProofs`, with `RomsAssumption` and `GeometryAssumption`), for every
set of ROMs of the ten mappers, every program of them, every raster whose lines are longer
than the longest step, and a host that takes lines or frames, presses buttons, resets,
saves and restores in any order:

- `ThreeDotsACycle`: `Spec => []ClockExact`.
- `RowsComeInOrder`: `Spec => []LinesInOrder`.
- `PointersAreFresh`: `Spec => []PrgCacheFresh`, a conjunct of `ConsoleOK`.
- `RestoredAsCaptured`: `Spec => RestoreExact`.

`RomsAssumption` says that an instruction is one the processor has, in a mode it has it
in. The argument has three layers. `Kept` is what everything the processor does on its bus
keeps: the place in the frame, what the cartridge is, and, if they were so before, the
cached pointers in step with the cartridge (`InStep`). It is proved of every register of the
picture unit, every write of every mapper (`CartWriteKept`: what is not cached again has
not moved), every instruction (`ExecuteDone`, which also bounds its cycles by 2 and 8), and
interrupts. `Stepped` is what the stepping of dots does: the fast path and the slow one
both move the place by the dots they are given, and at most one line ends (`Onward`), with its
number, its frame and its flag; here the line has to be longer than 24 dots. `Ran` joins
the two for one call of the processor. `IInv` is then an invariant of the host: in a
call no line is ready, and the token is that of the line before the one that is
awaited (`InOrder`), so that the next ready line is the one the host counts; and a captured
state is that of a sound console (`SavedOK`), from which a launch of the same ROM differs
only in what `Applied` sets, what the bank pointers are computed from, and the picture.

**Cartridge** (`DeviceProofs`, with `CartAssumption`), for every set of ROMs and
every choice of refused allocations:

- `CartridgePointers`: `CartSpec => []PointersLive`. The parser either keeps
  all it allocates or gives it all back (`ParseAllOrNothing`), an unload frees
  each block once (`UnloadAll`), and between two calls what is allocated is what the
  cartridge owns (`CartKept`). After the double free of `freed_once` nothing is claimed.
- `ListedAlike`: `CartSpec => []ListedAsLoaded`, a part of `RomsAsOnCard`: the
  listing of a card, that of the flash and the cartridge agree on every ROM that
  loads.

**SD driver** (`DeviceProofs`, with `SdAssumption`), for every set of kinds of
card, blocks and values, and any number of lost or garbled commands and of
changed cards:

- `BlocksAreMeant`: `SdSpec => []CallsAreSafe`. The heart of the invariant
  `SdOK` is `UpAgrees`: a driver that believes the card is up, and a card that
  answers, agree on the unit of an address and on the length of a block. A card
  that was put in later was not reset and answers nothing, so that the driver's
  knowledge of another card does no harm. `BlocksKept` says that no block
  changes before the data of a write has gone out, and then only the one meant.

**Save-state stores** (`SaveStateStoreProofs`, with `StoreAssumption`), for every
set of directories, slots and names, both backends, directories of any size against a
listing of any size, and any number of I/O errors:

- `StoreTyped`: `Spec => []TypeOK`.
- `AnswersAreTrue`: `Spec => []StoreOK`. After a call that answers TRUE the listing is of
  saves that are there, newest first, and, if no read failed, as many as there are and
  it has room for; a save is there, whole, and listed if there is room; what was loaded is
  the save of the entry that was named; what was deleted is gone, and after `clear_all`
  whatever the SD backend had listed, or on POSIX everything.
- `SavesAreKept`: `Spec => KeptOnShelf`, the refinement of `SaveShelf`: every call with its
  answer is one of the calls of the shelf. Refresh and load change nothing; a save adds
  one save, and replaces another only when every name it tries is taken, or when the
  SD backend looked for the name in a listing that an I/O error, or more saves than it holds,
  had cut short (`Blind`); a deletion takes the save it named; no other directory changes.
  What may be left of a call that met an error is said there too.

The invariant `StoreInv` says that files and listing have their types, the listing
newest first and each time once (`Fine`), that a save lies in the directory of its
ROM (`AtHome`), that a directory that is not there has no listing (`Absent`), and that the last answer
is true (`AnswersOK`). For each call there is a lemma (`RefreshTells`, `SaveTells`, ...) on what it does to
the contents of the directory and what its listing is then, however it ends;
`Shelved` carries it over to the shelf (`ShelvedStep`). When the listing was read
without an error and the directory is not larger than it, it has the
time of every file: so what the SD backend does not see then is not there.
That the listing is sorted is not computed by an induction, which is beyond the
prover. `Newest` takes a descending sequence onto the set of times, and
`FallingExist` shows by the least counterexample (`LeastNatural`) that every finite
set of numbers has one.

**Shell** (`AppShellProofs`, with `StoreAssumption`, `MenusAssumption` and
`ShellAssumption`), for every list of ROMs, every sharing of save directories,
either store, and any number of I/O errors:

- `ImageIsLent`: `ShellSpec => []BufferIsCart`.
- `SaveIsOwn`: `ShellSpec => []LoadedIsOwn`.
- `CombosOnce`: `ShellSpec => ComboReleased`.
- `SavesAskedFor`: `ShellSpec => OnlyAskedIsLost`; it is about the names of saves, and
  what a save does to the file it takes is `SavesAreKept`'s matter.
- `BatteryGoesOn`: `ShellSpec => ContinuesWhereLeft`.
- `ShellTyped`: `ShellSpec => [](ShellTypeOK /\ SaveMenuOfRom)`.
- `ListsAreTrue`: `Roomy => (ShellSpec => [](disk.faults = 0 => ListsOK))`. `Roomy` says
  that a directory has no more slots than a listing has entries: beyond that, what was just
  saved may not be in the list.

`ShellAssumption` says that what is on a card or in a flash are ROMs, that
nothing is none, that each ROM has a `.sav` file, which others may have too, and that a
setup has buttons to hold and contents of a RAM to write. A frame is one of four kinds (`FrameKinds`): it stays in the lists
(`Stays`), starts a game, goes on with it or ends it; there is a lemma for each
screen, over `LaunchOutcome` and `UnloadOutcome`, which say what is lent after a
launch that fails half way and after any unload. From the kinds follows the
invariant `ShellSound`: a game has one image, no game has none (`ImageOK`), and
the index of the running game stays one of the listing (`RomsOK`), although a copy that
failed half way leaves flash and listing apart.

`ShellKept` adds what the two action properties need. `ListOK` binds three things
that the code never relates in one place: the store's directory and the ROM whose
list is shown, the buttons of the last frame and those the shell compares with,
and the save named when the dialog opened and the entry that `pending` points at.
`ComboOK` says that an open latch has seen its combo released in this game. One
lemma for each call of a store (`SaveOutcome`, `DeleteOutcome`, `ClearOutcome`,
`LoadOutcome`, `RefreshOutcome`) says which saves it can take out of which
directory, each way an I/O error can end it included: after a save every name is
still there, also where it overwrites one or spoils the file.

`HostOK` is what the battery needs: the index of the running game is that of its image,
and each `.sav` file holds what the last game of it was left with (`KeptIn`) or,
where files can fail, nothing or a part of it (`Lossy`). Two ROMs on one file
therefore go on with each other's RAM. Where no file fails only a kill between `fopen`
and the end of the write loses anything: it leaves the file empty, cut off or whole. The property is about the host
alone: the flash source of the Pico refuses `save_write`, and such a game
starts there with cleared RAM.

`ListsInv` is what the lists need. `RomsListed` and `WorldOK` are the types of the
listing and of all that a frame drives; `MenuOK` and `SavesOK` say that the selection
is an item and on a row that is drawn (`Shown`), and that `pending` is the entry
under the selection. Nothing but the frame that draws a list confines its selection, so each
change of a list needs its own reason. A deletion takes one entry at most
(`OneLess`), and the code moves the first row for it; erase, copy and clear start the list
anew; a return from a game selects by the index or the time, wherever that is in
the list that was read again (`SelectShown`, `TimeShown`). When a deletion meets an I/O
error the refresh after it may find fewer saves than there are, and for the one frame until the list
is confined again the selection is outside: this is why `ListsAreTrue` asks for a card
that has not failed yet.

**Renderers** (`DeviceProofs`, with `SizeAssumption` and `PictureAssumption`), for every
cartridge but those of mapper 9, picture, table of sprites and number of sprites a line may have, rows
of three tiles and more, of up to eight pixels, and every order of register and
pattern writes, restored states and lines:

- `RenderersAgree`: `RenderSpec => SameLine`.

`RenderOK` says what the registers hold and that the decoded rows, if there are
any, are those of the pattern memory (`PatternsFollow`: a write changes one plane of
one row in both); then every pixel of a tile is the same on both ways
(`PixelsAgree`), and so is the name table it comes from (`TablesAgree`). The groups
that are drawn without looking lie on the screen and right of the left mask
(`GroupsOnScreen`), with every fine scroll. `Layered` is the line after any set of
sprites, in closed form: at each pixel the first of them that has a colour
there, behind the background or not, and sprite 0's hit where it meets it. One
more sprite, later in OAM than all of these, makes `Layered` of the larger set
(`OneMoreSprite`), so the fold ends there (`PaintedIsLayered`), which is what the reference looks up pixel
by pixel.

**ROMs in flash** (`DeviceProofs`, with `FlashAssumption`), for every set of cards
and every size of page, sector, block and region where each is a multiple of the one before, a
directory of two sectors, and power failures in any erase or page. Where power failed
between the header and the rest of a directory, entries are still all ones (`NoEntry`); the code lists
them, and the theorem says that every other entry is in its place:

- `ImagesOwnTheirUnits`: `FlashSpec => []ImagesAreOwn`.

The property is not inductive: it does not look at a job that is under way. `FlashOK` says for each of
its stages what the flash holds: erased below the cursor (`AtErase`); the directory
as far as it is written, and nothing behind it (`AtHeader`); the directory, the images
before the current one, its pages so far, and none of the later ones (`AtStream`).
That a page is programmed over erased units only, and touches no other image, needs the
plan: `PlanFits` unfolds the fold of `Planned` ROM by ROM (`PlanByRom`), each image
behind those before it and inside the region (`OneMoreImage`). `ErasedDirectory` and `PlannedDirectory` are
the two ways a directory stays true when power fails: what is erased only takes away
whole entries and parts of images, and what is programmed is the plan's.

**Lemmas** (`NumberFacts`): differences and increments of counters that
wrap, and the slots they map to; the least number, the greatest and the descending
sequence of a set; powers of two.

**Only model-checked.**

- Liveness: the queue's part of `LineFifo`, that every push of the video ends
  and every frame is shown. TLAPS proves neither liveness under fairness nor ENABLED.
- What a fold over data computes: the order of the listing of ROMs (`RomsAsOnCard`). The
  prover takes no operator as a parameter, so every fold needs an unfolding of its own,
  which those of the sound unit, the renderers and the flash have.
- In the shell, which save the list selects after a game (`HighlightsSave`).
- Of the console, the ranges of its registers (`TypeOK`), the scroll (`ScrollFollows`),
  the lines that mapper 4 counts (`IrqOnItsLine`), and what holds only of programs that
  keep their stack and strobe before they read, as those of the run do
  (`InterruptTransparent`, `PadReadsInOrder`).
- The volume and the TFT panels. Their invariants are conjunctions
  of named parts, without RECURSIVE operators, so that proofs can follow.

## What is not modelled

- *Programs in RAM*, opcodes as bytes, names and headers as characters.
- *The mixer* and its filters, duty and volume; the alternative sound unit
  `apu_infones.c`: a build has one of the two, and the default is modelled.
- *What `save_state_apply` refuses*, and the bytes of a save file.
- *Directory iteration in pieces when writing and the second FAT*: a directory
  is read as a whole there, and the code never reads the second FAT.
- *The legacy driver* (`video_ntsc.c`): samples of a colour carrier, no shared
  state; it shows a test pattern only.
- *Pins, clocks, text, drawing, touch, files of pictures and sound,
  `smoke_main.c`*: straight-line output, about which there is nothing to order.
- *The composition of the whole frame*: each way of a sample or a frame is
  modelled from the ring or the buffer on, and what fills it is free.
- *That a TFT panel is drawn again* after an overrun: it depends on the time of
  a step against the frame, which the code does not bound (`main.c:321`).
- *More than one I/O error in a run* of `storage` or `shell` (the theorems have any number),
  and a POSIX `clear_all` that leaves more than one file behind.

## Plan

Done: every module above, with proofs for the queue, pacer, composite video, sample
clock, audio paths, HDMI, the display of the ESP32-S3, console, cartridge, SD driver,
ROMs in flash, renderers, sound unit, save-state stores and shell.

Proofs that are left, in this order: `NoCrossLink` of the volume; the ranges of the console's registers;
the order of the listing of ROMs.
