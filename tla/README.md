# Verification of the Burt robot's software

Burt is a toy robot rebuilt around a CMUcam3 vision board (LPC2106, C), a FEZ
.NET Micro Framework controller with motor and WiFi modules (C#) and a Windows
control application (C#). This directory holds TLA+ modules for the parts of
that code in which something can go wrong that a test would hardly show, the
TLC configurations that check them, and TLAPS proofs. `PROJECT.json` ties every
definition to the lines it models.

Paths below are relative to `src/`; `cc3/` stands for `src/cmucam3_r556/cc3/`,
`hal/` for `cc3/hal/`.

## Inventory

### What runs

The vision board runs one program at a time, single threaded, linked with the
board support library (the HAL) and optionally libraries. The only concurrency
on it is one interrupt routine, `interrupt()`, shared by three sources: the
camera's VREF (end of frame), the push button and timer 1 (servos). Everything
else is the main program calling the HAL; the camera, the SD/MMC card and the
UARTs are peripherals that go their own way. The FEZ controller and the control
application are separate programs that reach the board and the motors over
serial lines and WiFi.

### Components

| component | state | operations | hard behaviour | correct when |
|---|---|---|---|---|
| **Button and card select** `hal/lpc2106-cmucam3/{interrupt.c,cc3.c,mmc_hardware.c}` | `_cc3_button_trigger`, VIC enable bit, pin function of P0.14, EINT1 flag, chip select | handler; `cc3_button_get_state`, `cc3_button_get_and_reset_trigger`; `selectMMC`, `unselectMMC`, `spi0_init` | one pin, two uses; handler disables itself and main re-enables it; read-modify-writes with IRQs on | a press is returned once, no press is lost, the card's select is never taken for a press |
| **Pixel buffer** `hal/lpc2106-cmucam3-burt/cc3.c` | `cc3_g_pixbuf_frame`, camera state, FIFO read pointer | load, rewind, `read_rows`, region, subsampling, channel, camera setters | order of setters, a FIFO that cannot seek back, narrow integers, unacknowledged camera writes | geometry stays consistent; each row read is the row of the region |
| **Capture** `hal/lpc2106-cmucam3-burt/{cc3.c,interrupt.c,cc3_hal.c}` | camera line/frame signals, FIFO write pointer and write enable, VREF interrupt | `cc3_pixbuf_load` register by register, VREF branch of `interrupt()` | polling a signal that moves on, an interrupt that ends the capture | the FIFO holds one whole frame when load returns |
| **Servos and GPIO** `hal/.../{servo.c,gpio.c,interrupt.c}` | timer 1, `servo_mask`, `servo_val`, `servo_tmp`, pins | `cc3_gpio_*`, `_cc3_servo_int` | handler that races its own timer; enabling while another interrupt arrives | every pulse has its length; servos never stop |
| **UART** `hal/.../serial.c`, `uart_driver.c` | line status, FIFO, line mode | `cc3_uart_has_data`, getchar, putchar, newlib read/write | blocking against polling; `cc3_uart_has_data` is true when nothing has come | a polling loop ends when a character comes, and loses no other |
| **FAT file system** `hal/lpc2106-cmucam3/rdcf2.c` | FCB, one sector buffer, FAT copies, directory, first-free hint | open, read, write, seek, delete, rename, close | write-back buffer, several FCBs, non-local error exits, power loss | no cluster in two chains, no lost cluster, data read is data written |
| **MMC driver** `hal/lpc2106-cmucam3/{mmc_driver.c,mmc_hardware.c,syscalls.c,devices.c}` | file table, card state | open/close/read/write/lseek, sector transfer, card detection | card removed, retries, timeouts, table limits | a descriptor means one file until it is closed |
| **Timer and LEDs** `hal/.../cc3.c` | timer 0 | `cc3_timer_wait_ms`, LEDs | 32-bit wrap | a wait lasts as long as asked |
| **Image library** `cc3/lib/cc3-ilp` | packet, template, histogram, scan state | frame difference, color tracking and statistics, connected components, histogram, math | quotients that leave a rest, empty regions, templates that outlive settings | results equal the definition over the region's pixels |
| **CMUcam2 protocol** `cc3/projects/cmucam2` | settings, poll mode, line mode, window, servos, heap | command interpreter, streams, servo control | a stream polls the line on which the next command comes; each has several ways out; RESET jumps | frame and memory are given back, commands keep their turn, a stream ends |
| **CamScripter** `cc3/projects/camscripter` | SLIP decoder, message buffer, installed program | framing, `csmsg` encode/decode, script server | no acknowledgement, no checksum; lost and garbled bytes; a FIFO that overruns | what is carried out was sent, in order; damage is over after one frame |
| **EEPROM emulation** `cc3/projects/eeprom-test` | flash sector, interrupt enables | write, read, count, erase | power loss within a flash operation, a binary search over what it leaves, interrupts while the flash is busy | records written survive and the last is read |
| **Example programs** `cc3/projects/{burt,spoonBot,polly,edge-follow,security-cam,...}` | local | loops over the HAL | | |
| **Motor controller** `Burt/Burt/Program.cs` | one command buffer, one reply buffer | `MC_WriteCommand`, prompt, joystick mixing | prompt or time-out, bytes left over in the buffer, lost bytes | bytes of two commands never make a third; the joystick is obeyed in the end |
| **WiFly** `WiFly/WiFly/Main.cs` | mode of the module, match state | command mode, set-up, join, reads | matching in a stream without time-outs; answers of another command | what is reported as taken was taken; every wait ends |
| **Control application** `Burt_ControlApp/Burt_ControlApp/Burt.cs` | address validity flags, connection | edit handlers, connect | four flags in one byte | connects only to a complete address |
| **Head tracking** `Burt/Audio Analysis and Head Tracking` | none of its own | third-party MPU firmware, charts | | |
| Simulated camera `hal/virtual-cam` | PC files instead of registers | same API | | |
| Vendored: `cc3/lib/{jpeg-6b,libpng-12,zlib,lua51}`, `tools/`, `windows/`, `Data/`, `Hardware/` | | | | |

The HAL exists twice, `hal/lpc2106-cmucam3` and Burt's `hal/lpc2106-cmucam3-burt`;
servo, gpio and interrupt code are the same in both, only the first has the
file system. Button and card are modelled from the first, where they share a pin;
pixel buffer, capture and servos from Burt's.

### Interactions

* `interrupt()` looks at all three sources whichever raised the request, and
  reads raw status bits: a handler part may run while its own interrupt is
  disabled (`Button!OtherIrq`, `Servo!OtherIrq`).
* The card driver and the button share P0.14, so `selectMMC` disables the
  button's interrupt and `unselectMMC` enables it again (`Button`).
* The camera setters write the serial bus of the camera through the GPIO
  direction register, which also holds the servo pins (`Servo!CameraPins`), and
  reset the frame (`Pixbuf!SetRegisters`).
* Image library and programs read rows through `cc3_pixbuf_read_rows`;
  `RowSource` is what they may rely on, `PixbufPass` their loop, and `Image` what
  they compute from it.
* The CMUcam2 commands, the streams and the demonstration mode share one UART:
  what a stream reads while it polls is lost to the commands (`Cmucam2`).
* The eeprom functions save, clear and restore the interrupt enables that the
  button's handler also writes (`Eeprom!MaskIrq`, `Eeprom!Interrupt`).

## Modules

| module | models | extends / implements |
|---|---|---|
| `Button` | button, EINT1 and MMC chip select | |
| `Pixbuf` | pixel buffer, camera setters, FIFO read side | |
| `PixbufPass` | a program's set-up and row loop over it | `Pixbuf`; implements `RowSource` |
| `RowSource` | what a row loop may rely on (abstract) | |
| `Image` | the image library's computations over the rows | `PixbufPass` |
| `Servo` | timer 1, its handler, the GPIO calls | |
| `Capture` | `cc3_pixbuf_load` against the camera and VREF | |
| `Rdcf` | the FAT file system and the file table over it | |
| `Eeprom` | the EEPROM emulation in flash | implements `RecordLog` |
| `RecordLog` | a log of records that survive power cuts (abstract) | |
| `Motors` | the joystick loop and the motor controller on its line | |
| `WiFly` | `Setup` and `JoinNetwork` against the radio module | |
| `CamScripter` | host, line, SLIP decoder, messages, modes | |
| `Cmucam2` | command interpreter, streams and servo control | |
| `ServoProofs`, `RdcfProofs`, `EepromProofs`, `Cmucam2Proofs`, `CamScripterProofs` | theorems | the module of that name |
| `SerialProofs` | theorems about the two conversations over a serial line | `Motors`, `WiFly` |
| `InterruptProofs` | theorems about both sources of `interrupt()` | `Capture`, `Button` |
| `PixbufProofs` | theorems about `Pixbuf`, the row loop over it and `Image` | `Image` |
| `MCCamScripter`, `MCCmucam2`, `MCImage`, `MCMotors`, `MCPixbuf`, `MCRdcf`, `MCWiFly` | values for TLC | the module of that name |

Conventions. Definitions carry the name of the C function they model. Main
code that an interrupt can disturb has a program counter `pc` (`step` in `Button`) and one action
per register or variable access; where nothing can disturb it, a call is one
action. An interrupt handler runs with interrupts masked, so it is one action,
unless time passes inside it (`Servo`). Variables commented *history* record
what happened, for the properties; no guard of the code's own reads them.
Operators commented *mutant* are slips that the properties are shown to catch;
no behaviour of the model uses them.

### `Button`

`trigger` is `_cc3_button_trigger`; `vic15`, `pinsel`, `extint`, `csOut`, `csLow`
are the register bits that concern pin P0.14. `ServeButton` is the EINT1 branch
of `interrupt()`; since that reads raw status bits it can also run for another
interrupt while EINT1 is masked (`OtherIrq`). `cc3_button_get_and_reset_trigger`
is `Sample`, `ClearTrigger`, `TestResult`, `SelectEint`, `EnableVic`; `selectMMC`
and `unselectMMC` are five accesses each; `SpiRead`/`SpiWrite` are the
read-modify-writes of `PCB_PINSEL0`. EINT1 is level sensitive (`Latch`).

### `Pixbuf`, `PixbufPass`, `RowSource`

`frame` is `cc3_g_pixbuf_frame` field by field, `res` and `power` the state kept
of the camera, `sensor` the resolution the camera itself has: a register write
it does not acknowledge makes it differ (`SensorAfter`). `fifo` is the FIFO's
read position in pixel pairs, `line` the pairs of a line of the frame in it.
Each public function is one action (nothing interrupts it in a way it can see).
The rows are not pixels but the pairs a row takes from its line (`RowPairs`) and
the lines between (`RowAdvance`), which is what decides whether the next row
starts where it should. Coordinates and steps keep the width of `int16_t` and
`uint8_t` (`Short`, `UShort`, `Byte`), with the width a constant.
`PixbufPass` is the loop of the programs, `while (cc3_pixbuf_read_rows (pix, 1))`,
and implements `RowSource`: the lines of a window, from the top, once each, then
the end.

### `Servo`

Time is the counter `tc` of timer 1. `Tick` advances it, sets the interrupt flag
when it meets `mr0`, and measures how long each pin has been high (`pulse`).
`Enter` is the read of `TIMER1_TC` at the top of `_cc3_servo_int`, `Leave` the
rest: `Rise` starts a cycle, `Fall` lowers the pins due and sets the next match.
A match register behind the counter would match after 2^32 ticks, which in the
model is never: that is how a stop of the servos shows. `ct - SERVO_RESOLUTION`
keeps its wrap (`Passed`).

### `Capture`

The camera (`vsync`, `href`, `row`) goes its way; `wptr` and `store` are the write
side of the FIFO: `store[l]` is `l` when line `l` of the frame `cc3_pixbuf_load`
waited for is there, `Old` otherwise. `pc` runs through the polls of
`cc3_pixbuf_load`; `Latch` and `VrefIrq` are EINT0 and its handler. A poll of a level
is an action enabled while the level holds: a poll is far faster than the
camera, so no level is missed.

### `Rdcf`

`dir` and `card` are the directory and the FAT on the card, `fat` the FAT as the
running call sees it through its FCB's sector buffer: where they differ
(`Unwritten`) the buffer holds what is not written yet. A FAT sector has `FatEntries`
entries and there may be any number of them. A call is one action per
sector it writes, and the buffer is written whenever it is wanted for another sector
(`read_buffer`): `Flush` writes the last FAT sector of a call, `ReleaseSector` one that a release
has come to the end of (`at` is the cluster it stands on, `Run` the part of
the chain in one sector), `LeaveSector` one that the search for a free cluster leaves, and `Allocate`
the first of the two sectors when a link lies in two (`TwoSectors`; `loose` is then the
cluster that the card's FAT leads to and calls free). `DirWrite` writes the directory
sector. `Allocate`, `ReadSector`, `WriteSector` are the rounds of the loops in
`rdcf_read` and `real_rdcf_write`, with `cluster` and `last_cluster` moved as in the
code. `fcb` holds what an FCB keeps between calls. `GiveUp` is `rdcf_write`'s
`rdcf_close` on a write that wrote nothing. `held` are the descriptors the program has
open: `CloseLost` is a close on a drive found invalid, after which the FCB stays
taken and, when all are, `OpenRefused` is all an open can do. `PowerFails` may come between any two
steps, and so between any two sectors; `Refuse...` when a transfer of the call is refused (`error_exit`): of a call
that writes where it is at work, of one that only reads (`RefuseLookup`) where the program may make
a call at all. Then `fat` falls back to `card`: an unflushed buffer is gone.
The contents of files are not carried: `SectorOfPosition` says instead that each
transfer meets the cluster which the chain assigns to its position, `OpenSound`
and `CardSound` that no cluster belongs to two files.

### `Eeprom`, `RecordLog`

A place of the sector is its first byte, by which `ee_locate` tells used from free,
and the rest. `Call` enters one of the four calls; `Locate` and one `Halve` per round
are the binary search (`lo`, `hi`, `size` the two addresses and the size of its slice);
`SaveIrq`, `MaskIrq`, `Program` or `Erase`, `Verify` or `BlankCheck` are the rest of a
write or an erase; `Interrupt` is a handler that disables its own interrupt, `Enable`
the program that wants it back, in between. `PowerFails` may come anywhere; within a flash operation what is left of
the place (`TornWrites`) or of the sector (`TornErase`) is any mixture of old, new and
garbage. `RecordLog` is the promise: records are appended, a cut damages at most the
one being written or the room of the next, and erasing starts over.

### `Motors`

One action per byte written or read by the program, and per read and print of the
controller. `tx_data` and `rx_byte` are the static buffers of `Program.cs`; the
controller reads a line up to a carriage return, so a low speed byte of 13 ends a
command early: `Heard` is what is left of it. A command's speed is a `short` of the program; what the controller reads
(`Motion`) is any number of two bytes. `Lose` drops a byte on the line.

### `WiFly`

`Script` is the text of `Setup` and `JoinNetwork` as a list: what is sent, what is
waited for, whether the result is looked at, and what follows. `WaitForResponse` is
one action per character with its two counters; `AnswerCommand` and `Arrive` are the
module, which echoes, answers and prompts at any pace and may refuse any setting.

### `CamScripter`

The host (`HostSends`) sends the bytes of `message_to_bytes` in a SLIP frame without
waiting for anything; the camera runs through `recv_packet` byte by byte, then
`Parse`, `handle_message` and `destroy_msg`. Every byte carries its place in
the frame it was sent from, so that the properties can say what came from where. Line faults, overruns and power
cycles are actions of their own.

### `Cmucam2`

`phase` is where the main loop is: prompt, reading a line, executing, or in one of
the stations of a stream (`begin`, `frame`, `row`, `mid`, `end`), each of which looks
at the UART as its code does. `heap` counts the blocks a command holds, `coi`,
`window` and `old` are the channel and window of the frame that streams change and give
back. What a tracked object does to the servos is `Servos`. Pixels and packet
contents are left out.

### `Image`

Each computation is its start, a scanline per row and a finish, over the rows that
`PixbufPass` reads; a row's pixels are found by the place in the FIFO the row was
read from, so a geometry or FIFO error shows in the result. The properties define
the results over the region of interest, without rows. `cc3_color_info`'s deviation is the mean of
what the largest pixel is above the mean and the smallest below it, so half the spread of the
pixels: not a bound on anything beyond, which is how `InfoIsRegion` states it.

## Runs

| run | question | size | result |
|---|---|---|---|
| `button` | is a press ever lost, doubled, or confused with the chip select? | no parameters | holds |
| `button_heard` | is every press that interrupted returned? (`cc3.h:418`) | | **violated** |
| `pixbuf` | does the geometry stay lawful and does `y_loc` match the FIFO? | frames 2x2 and 4x3, coordinates {-1,1,2,3}, steps {0,3}, rows {1,2} | holds |
| `image` | do row loops get the rows of their region, and are the results those of the region? | frames 2x2 and 4x4, coordinates {1,4}, steps {0,2}, 2 scenes, template 2x2, 3 bins | holds |
| `servo` | has a pulse its length, and do servos never stop? | 2 servos, `RES` 2, `PERIOD` 4 | holds |
| `capture` | does the FIFO hold one frame, and does load return? | 5 lines, head start 3 | holds |
| `rdcf` | do files stay whole and apart, also through power cuts? | 2 names, 2 descriptors, 2 slots, 3 clusters of 2 sectors, FAT sectors of 3 entries | holds |
| `eeprom` | does the log keep its records, does the search find its end? | 5 places, 2 values, 1 power cut | holds |
| `motors` | are commands whole, and do wheels do in the end what their commands tell them? | 3 demands, 7 bytes on the line, 1 lost | holds |
| `wifly` | was taken what is reported, and does every wait end? | 3 passphrases, any refusals | holds |
| `camscripter` | is what was sent carried out, in order, and does damage end? | 3 messages, FIFO 2, buffer 11, 1 fault | holds |
| `cmucam2` | are frame and memory given back, do streams end? | 20 commands, 2 sent, 2 carriage returns, 1 row, FIFO 4 | holds |

Deadlock is checked in every run but three: the WiFly driver ends, a CamScripter
whose program failed halts, and a CMUcam2 whose host has nothing more to send waits.

### What the properties say together

Some runs check one formula for several statements that belong together:

* `rdcf`: `ClustersAccounted` is typing, `NoDanglingChains` (a cluster in use belongs to
  a file), `FullIsFull` (a write ends short only on a full card) and `OneBuffer` (what a write
  has changed and not written lies in one FAT sector).
* `eeprom`: `EepromInv` is typing, `LocateFinds` and `FailsOnlyAfterCut`; `RecordsKept` is
  the refinement `IsRecordLog`, `Durable` (no call touches another record) and
  `ReadAndCountAgree`.
* `motors`: `CommandsWhole` is typing, `OnlyIssued` (a wheel does only what one of its
  commands tells it) and `LinesEnd` (after the first moving command every command ends its line).
* `wifly`: `JoinedAsTold` is typing and `SettingsTaken`; `AnswersAreOwn` is `AnswerIsOwn` and
  `LineIsAnswer`.
* `camscripter`: `MemoryKept` is typing, `ParametersFreed` and `TamedByHost`.
* `image`: `ResultIsRegion` is typing, `TrackIsRegion`, `InfoIsRegion` and `HistIsRegion`.

`CsOnlyInGpio` and `UnselectRearms` (`Button`), `RowIsWholeLines` (`Pixbuf`), `TypeOK` and
`HandlerSparesOthers` (`Servo`) and `OneFrame` (`Capture`) are proved for all values and
not part of a run.

### Bounds, and why they are enough

* `Button` has none: its state is finite.
* `Pixbuf`. Two resolutions that differ in both directions, an odd height, a
  region that starts at the top or below, one negative coordinate, one that
  needs rounding up, one beyond the small frame; step 0, which the code replaces
  by 1, and the odd step 3, which it rounds to 4. `MaxPairs` stops the FIFO
  behind the end of the frame. The integers are 4 and 3 bits wide: the
  wrap-around values lie outside `Coords` and `Steps` (`NoEdge`, below). The
  theorems hold for every size.
* `Servo`. `RES` 2 gives two distinguishable positions and a cycle of 8 ticks for
  4080 in the code; two servos give the handler a first and a second edge. The
  handler reads the counter at most `MaxLate` ticks after the request and ends at
  most `MaxService` = 1 tick later. The second is the margin the code itself
  allows ("safety", `servo.c:136`): with two ticks the match register can fall behind
  the counter. A tick is about 4 microseconds. The theorems hold for every
  number of servos, every resolution and period that `ServoAssumption` allows, and
  every `MaxLate`.
* `Capture`. Load waits for `Headstart` = 3 line ends before it lets the program
  read, as in the code; 5 lines leave two behind them. The theorems hold for
  every number of lines.
* `Rdcf`. Two files with two descriptors are the least that can get in each
  other's way; three clusters (2, 3 and 4) are full after three
  allocations and a file can span two or three. With three entries to a FAT sector
  cluster 2 is in the first and 3 and 4 are in the second, so that links and releases
  within a sector and across two are met, and so are cuts between them. Two sectors to a
  cluster give a boundary within a cluster and one between clusters; a call
  reads or writes three, which passes both, and at the end of the file or of the card fewer.
  Of the modes `"w"` empties or creates and writes anywhere, `"a+"` keeps what is there, reads
  anywhere and writes at the end. Also explored, without being a run: `"w"`, `"a"` and `"r+"`. At most one
  failure happens before the next card (`hurt`). The theorems hold for any
  number of clusters, of sectors to a cluster and of entries to a FAT sector, any
  number of names, descriptors and slots, and all modes. They are about cards whose
  FAT has 16-bit entries, and about what was not torn, as the
  properties are (*Conditions*, below).
* `Eeprom`. Five places give the binary search slices of odd and even size on both
  sides; the theorems hold for every number of places, values and cuts.
* `Motors`. One demand at rest; one with unlike speeds for the two wheels, one
  of them below 256; one whose low bytes are carriage returns, of which the wheels hear
  256 and 0. Seven bytes on the line are more than one command, and the
  reply buffer of four bytes is smaller than the controller's answer and prompt
  that pile up in it. `CommandsWhole` is proved for every size and every demand.
* `WiFly`. A passphrase with none, one and all of the characters of `AOK`. The
  program's script, the module's refusals and its pace are not bounded.
* `CamScripter`. Three messages: the first may be damaged, the second resynchronises,
  the third is the one that `Resynchronises` asks for. The buffer of 11 bytes holds
  the shorter messages and not the longest; the FIFO of 2 overruns while a
  program runs. One fault: a byte garbled or dropped, or a power cycle. Two garbled
  bytes in one frame can make two messages of it, which `InOrder` does not allow for.
* `Cmucam2`. Two commands are the least in which one can change what the other finds.
  One row of a frame is enough for each look at the UART; the FIFO holds four
  characters, so that a command typed ahead with its carriage return and two
  carriage returns overrun it. `SERVO_MAX` 4 and steps of 2 and 1 reach both ends of the
  servo's range. The theorems hold for every set of commands and every size.
* `Image`. Frames of 2x2 and 4x4, so that regions are empty, smaller than the template,
  equal to it, and larger; a spot, which tracking finds as a dense box, and a
  slope, which it finds as a part of a box that is not full. The theorems hold for every
  scene, size, template and number of bins; of the constants they ask that the larger resolution is
  wider and higher, that the template is no larger than it, and that scenes cover it
  (`SceneAssumption`).

### What the violation shows

`button_heard`: `_cc3_button_trigger` is read, then cleared, with interrupts on. A
press served in between is forgotten; if the value read was false the button
also stays deaf until the card is used. `DeafOnlyByRace` and its theorem show
that this is the only way to lose a press.

### Conditions under which properties hold

The properties are true of programs, hosts and devices that keep some rules, and
say so. Without the rule the model reaches the state named here.

* `Pixbuf!synced`: the frame was loaded or rewound after the last camera setter and
  the region is not moved below a row already read. Every camera setter resets
  `y_loc` without moving the FIFO, so reading on without a rewind reads other lines.
* `SingleRowInRegion` and `PassIsRowSource` are about rows asked for one by one, as every
  program in the repository does. Several rows asked for together may run over
  the bottom of a region that starts below the top (the limit is computed from the
  row before the seek, `cc3.c:234`), and for three channels are written over each
  other (`cc3.c:278`), against `cc3.h:213`.
* `PulseBounded` leaves out one race: enabling the first servo sets `servo_mask` before
  `servo_init` stops the timer left running by an earlier enable (`servo.c:107`); another
  interrupt in between raises the pin for a whole cycle.
* `ReadIsPicture` leaves out one race: a load called while the capture before is
  still running can have its FIFO closed by the interrupt of that capture
  (`cc3.c:75`), and returns an old frame. It speaks of lines the camera has already
  written: the code does not keep a reader behind the writer.
* `Rdcf!Rules`: `OpenOnce`, a file is not opened, deleted or renamed while open (each
  FCB has its own copy of the size); `SeekBetween`, a program seeks between a read
  and a write (a read that ends at the end of the file and of a cluster
  leaves the FCB on the last cluster, and a write would overwrite it);
  `CloseFirst`, a program closes a descriptor whose last call failed. A write on a full
  card that writes nothing closes the file under its descriptor; without the last
  rule an empty file's entry is then deleted, its slot reused, and the next use of
  the old descriptor overwrites the other file's entry (`rdcf2.c:1037`), so that
  chains dangle, against `rdcf2.c:1031`.
* `OpenSound` gives every descriptor of the program its control block, and every
  control block a descriptor until power or card fail: a close on a drive that
  was found invalid loses the block for good (`mmc_driver.c:139`).
* `Rdcf!torn`, `Releasing` and `loose`. Two things the file system does take more than one
  sector, and a power cut or a refused transfer between them leaves the card unsound:
  * a link whose two FAT entries lie in two FAT sectors (`rdcf2.c:659`, `rdcf2.c:661`): `read_buffer`
    writes the first before the second is changed, and for that moment the chain
    on the card leads to a cluster that the card calls free (`loose`). The next
    allocation would give that cluster to another file. `CardSound` says that even then
    every file has the clusters of its size and shares none, but not that its chain ends;
  * a release, which frees the chain FAT sector by FAT sector (`rdcf2.c:631`) and then writes the entry:
    in `rdcf_delete`, and `rdcf_open` with `O_TRUNC`, the entry names clusters that the FAT
    calls free (`Releasing`). `CardSound` claims nothing while this lasts.

  After a failure at such a moment (`torn`) no property claims anything, and in the model the program makes no
  call until the card is formatted (`NewCard`). The code notices nothing: it goes on and cross-links
  files. A cut or a refusal between any other two sectors leaves the files on the card whole and
  apart.
* `Eeprom!wild`: an erase that was cut leaves any pattern, and until the next erase
  only `Durable` and the calls' return are claimed. A record half written at the end of
  the sector makes a later write answer "failed" and not 501 (no space). `ee_readn` accepts the
  index one past the last. A handler that disables its interrupt between the read and
  the clear of the enables finds it enabled again by the restore.
* `Motors!Heard`: a speed whose low byte is 13 (13, 269, 525 and 781 of those the joystick
  can ask for, which are `(short) (10 * L)`) ends its line early, in every round, however long the joystick is held: the wheel
  does 0, 256, 512 or 768. `OnlyIssued` and `Follows` say that the wheel does this, not that
  it does what was asked. A high byte of 13 (speeds from 3328) tells the wheel
  nothing. `Follows` claims nothing of what happens before the end: the first
  moving command after rest is joined to the bytes that speed 0 left, and lost.
* `WiFly`: a refusal is masked when a character of the expected answer was seen before it
  (`Masked`); the passphrase in the source contains an `A`, and the report of a scan
  does the same. `Spelled` passphrases answer for the module. The settings after the
  association are sent without waiting (`Unawaited`), and one of them is misspelled,
  `set ip dchp 1` (`Main.cs:392`), so it is refused unnoticed.
* `CamScripter`: frames have no checksum, so a garbled byte of a program is
  installed with it; a lost frame end costs the next frame too (`Whole`); a refused
  message leaks the parameters already parsed (`csmsg.c:116`), and one with no
  parameters leaves a pointer unset, but neither without damage or a message too long.
* `Cmucam2`: `PromptReturns` is for a host that sends two carriage returns at a time.
  A single one that arrives between the last look of a packet (`cmucam2.c:1422`) and the reading
  behind it (`cmucam2.c:1512`) is swallowed; of two, the second stops the stream, but in raw
  mode is then the first letter of the next command. `MemoryReturned` leaves out bounds in
  the wrong order (`cmucam2.c:1510`) and a histogram too large to allocate
  (`cmucam2.c:1103`): both leak. `StillAtCentre` is about both servos under control; with
  the tilt alone `t_step` is used without a value (`cmucam2.c:1488`). `InTurn` lets a stream
  eat commands typed ahead.
* `Image`: `DiffIsChange` is about the same region, no smaller than the template, where the
  bin size is 0 and no change is found. An object one row or column thin has
  density 0, which keeps the servos still (`cmucam2.c:1447` wants more than 5). The
  mean of an empty region divides by no pixels. A pass must start at `y_loc` 0:
  a second loop without a rewind sees nothing.

### Fairness

* `Button!ButtonFairSpec`: the processor takes an unmasked request, and a call once begun
  is executed. Nothing obliges the user to press or main to call; the
  antecedent of `HeldIsReported` asks for a program that polls for ever.
* `PixbufPass!PassSpec`: the loop goes on reading. That is all its end needs.
* `Servo!FairSpec`: the timer ticks, the request is taken, the handler returns, and main
  finishes its calls (strong fairness: interrupts disable main's steps again
  and again, but between two of them main runs).
* `Capture!FairSpec`: the camera runs, EINT0 is latched and served, main executes
  its polls.
* `Rdcf` states no fairness and has no liveness property.
* `Eeprom!Spec`: a call under way goes on. Nothing obliges anyone to call.
* `Motors!Spec`: the program's loop goes on (its port has a time-out), and the controller
  reads what has come and prints what it has to say, at any pace.
* `WiFly!WiFlySpec`: the program reads what has come, the module answers and its characters
  arrive. It may refuse for ever; nothing obliges it to accept.
* `CamScripter!Spec`: the host sends its messages and the camera goes on.
* `Cmucam2!Spec`: the camera goes on, and a host that sees no prompt and wants one sends
  carriage returns again. `Lock`, the button in demonstration mode, is not forced.
* `Image!ImageSpec`: the loop goes on reading, as in `PixbufPass`.

## Proofs

TLAPS proves, for all values of the constants, with assumptions only on them (each
is named where a theorem needs more than the module's own):

* `InterruptProofs`, of `Button`: `DeafOnlyByRace`, `CsOnlyInGpio`, `StateIsTruth`, `UnselectRearms` and
  `ReportIsFresh`.
  The invariant is `ButtonInv`: typing, and what holds at each `step`. `DeafOnlyByRace`, about
  `step = "idle"`, is not inductive: it needs `ResetInv` (in a reset that sampled
  false the button is armed) and `SpiInv` (the value `spi0_init` will write back is
  the armed one), and `StateIsTruth` needs `LatchInv` (a pressed button with the EINT1
  function has its flag set). `ReportIsFresh` has an invariant of its own, `FreshInv`: a flag or a
  trigger that is set stands for a press since the last sample.
* `PixbufProofs`: `GeometryInv`, `RowIsWholeLines`, `Aligned`, `SingleRowInRegion`, for all
  even frame widths and all coordinates and steps but the largest of
  each type (`NoEdge`: the code rounds those up after its range check, and they
  wrap). `RowIsWholeLines` follows from the geometry alone by arithmetic on the three
  halved widths; `Aligned` needs the length of a line in the FIFO (`LineInv`).
  The same module proves that the row loop of the programs implements `RowSource`, for every frame,
  region and step (`PassImplementsRowSource`; its fairness is not part of the theorem).
  `PassInv` adds to the invariant of `Pixbuf` where a loop can be: `PlaceInv`, at the top or
  whole steps below the region's first line. From it the line a read delivers is the
  next of `RowSource`, and a read that delivers none finds no line left.

  Then `ResultIsRegion` and `DiffIsChange`, for every scene, size, noise filter, template and number of bins, and
  that passes of `Image` implement `RowSource` too (`ImageImplementsRowSource`). `ImageInv` adds to
  `PassInv` what each computation holds at every row: `TrackInv`, `InfoInv`, `HistInv`, `LoadInv` and
  `DiffInv` say that its packet is the one of the pixels seen (`Seen`: the rows above `y`
  while it reads, the whole region once it ended), and `LoadedInv` that a template which still belongs to
  its frame holds that frame's averages. The properties alone are about finished passes, and
  say nothing of the sums on the way. Sums and counts over sets of pixels rest on lemmas
  about the union of two sets (`SumUnion`, `MinJoin`, `MaxJoin`); their induction over finite sets is
  proved from the least element of a set of numbers, as the library's theorems take an operator.
  `SumBounds` keeps a mean within the values of the pixels it is of.
* `InterruptProofs`, of `Capture`: `OneFrame`, `ClosedAtEnd` and `ReadIsPicture`, for every number of lines.
  `IInv` says which phase of the frame the camera can be in at each `pc`; `OpenInv` is
  the heart: an open FIFO has taken exactly the lines sent so far, and one that
  was closed at its end has all of them.
* `ServoProofs`: `TypeOK`, `OffIsLow`, `ServosDrive` and `HandlerSparesOthers`, for any
  lateness of the handler: they follow from `CallInv`, what each `pc` says of the
  call and of the mask. `PulseBounded` and `PulseIsPosition` need `Punctual`, that the
  handler ends within the tick of safety it adds; without it they are false. Their
  invariant is `IInv`. Its heart is `Falling`: while a pin is high, the match register
  is ahead of the counter and not beyond the pin's own edge, or was met at
  most `MaxLate` ticks ago. It needs to know that the timer runs (`TimerInv`), that only
  servos have pulses (`RestInv`), and that none has while `servo_init` sets the timer.
* `EepromProofs`: `EepromInv`, `QuietFlash` and all of `RecordsKept`, for every number of
  places and of power cuts. The heart of `IInv` is `Prefix`: until an erase is
  cut, records fill the sector from its start, and at most the place after them is
  spoiled. `SearchInv` says the slice of the binary search begins at a record and
  ends before a free place, which makes its end the end of the log; `PlaceInv` carries
  that to the write. `SoundInv` says nothing is damaged before the first cut.
  That `Eeprom` implements `RecordLog` is a step by step proof: a torn write grows the
  log, or spoils the room of the next record, or changes nothing.
* `Cmucam2Proofs`: `FrameRestored`, `MemoryReturned`, `StillAtCentre` and `InTurn`, for every set of
  commands, FIFO, number of rows and servo range. `FrameInv` says where a loop may
  have another channel or half a window, `HeapInv` and `MemoryInv` what it holds,
  `OriginInv` that what is carried out was sent. `InTurn` needs two more. `OrderInv`: what was carried
  out, what was read and what is in the FIFO, in this order, are characters of commands whose
  numbers grow, so that none is carried out twice or overtaken; it needs no hypothesis
  (`InOrderHolds`). `PendingInv`: a command sent to a program that waits is on the line whole,
  or being executed, or done. That the FIFO takes the three characters of a command in the
  model at once is the hypothesis `FifoLen >= 3`; the UART's holds 16 and is being read.
* `SerialProofs`, of `Motors`: `CommandsWhole`. `LineInv` and `BufferInv` (the last byte of the buffer is 0 or a
  carriage return, and the second once a wheel was asked to move) give `LinesEnd` without a
  hypothesis. `OnlyIssued` needs `StreamInv`, about the bytes of the line being read and those on their
  way as one sequence: each of its lines that addresses a wheel tells it what one of its commands does
  (`AllTold`), and behind its last line there is nothing or the zero that speed 0
  left (`EndsWell`), so that a new command starts a line or is joined to a line that addresses no
  wheel. A command whose low byte is a carriage return is a line that tells the high byte
  alone and an empty one behind it (`CommandLines`). There is no hypothesis on the demands.
* `SerialProofs`, of `WiFly`: `JoinedAsTold`, for every set of passphrases (`PhrasesAssumption`:
  texts of the characters of the answer and others) and whatever the module refuses.

  The invariant `WiFlyInv` is about the characters on their way to the driver (`Pending`), of
  which only some can count for the answer that is due (`Loud`; once the report of the scan may be
  among them, not its `A`). Outside a wait for a setting none of those is pending and no setting
  is unanswered (`Idle`). In one, either the setting is unanswered and still none is pending
  (`Waiting`), or it was answered, and the wait can be over only with the last of them, and only
  if the setting was taken (`Answered`, `Once`); or the refusal was seen (`Refusal`). So when a
  wait ends nothing is left over that could end a later one, and the driver goes on only from a
  setting that was taken (`RefusedInv`). Why a refusal cannot complete a wait is the lemma
  `BadSetting`: it holds nothing of the answer but in the passphrase it echoes, which would have
  to spell it (`Spells`, the hypothesis in the property). The first setting is not looked at, and
  its refusal must not be found in the middle of its answer: `FirstInv`. `OrderInv` says which
  commands can be unanswered at which step. After the association (step 18 on) the settings sent
  without waiting may be answered at any time; none of the later waits is of a setting that is
  looked at, which is where the argument ends.
* `SerialProofs`, of `WiFly` too: `AnswersAreOwn`, for the same constants.

  What can count for an answer is not enough here, as several commands have the same answer.
  The invariant `OwnInv` adds whose each pending character is. A character can only be of the
  commands whose answers contain it (`IsSource`); the characters and the commands behind them
  are in the order of the script (`IsInTurn`); and nothing is left of any step before `Low`
  (`LowInv`), since a wait is over only with a character of its answer, and with it everything
  before that character was read. Two steps with the same last character are so far apart in the
  script that the first is below `Low` at the second, but for the settings, which `KInv` tells
  apart. For a line that is read `LinesInv` gives the rest: the answer to the request is the last
  thing on its way, so what remains behind the `v` or `p` is the echo's line end and the line
  itself, of a known length (`LineLeft`, `LineCame`). A refusal of a setting that was sent
  without waiting can bring a line of its own in between, which is the exception in `LineIsAnswer`.
* `CamScripterProofs`: `TakenAsSent`, `MemoryKept` and `InOrder`, for every set of messages the protocol can
  carry (`MessagesAssumption`), every script and every size of the buffer and the FIFO; `InOrder` with at
  most one fault besides the overruns, which is what it claims.

  First the messages: `bytes_to_message` of all the bytes of a message is the message, of a part of them a
  refusal, and of any bytes it is of the type of a message. `BytesUpTo` and
  `ParamEnds` are recursive functions, whose values at every index are proved by the least counterexample,
  as in `RdcfProofs`. Then the line: places of characters are ordered (`Before`), `After` leads from each to the
  next, and between two characters on the line only those of damaged frames are missing
  (`Follows`, `Line`). The heart of the invariant `Inv` is `Reader`: while the frame that is being read
  and the one before it are whole, `packet` is exactly the bytes of the frame before the place that
  is due, escape pending or not, cut at the size of the buffer. `ReaderReads` says what the next
  character does to it, and `ReaderLost` that damage only takes cases away. `MsgInv` follows the message
  from there to `destroy_msg` and keeps the account of its memory.

  `InOrder` needs `PastInv`. One fault leaves at most one wrong character on the line (`OneFault`).
  After a message of frame h all that is to come belongs to later frames, or that wrong character was an
  END inside frame h (`Ends`); then no other is wrong, the receiver holds nothing of the frame, and
  the next END it meets is the frame's own last (`EndsFrame`). With a second wrong character it is false.
* `RdcfProofs`: all that the run checks, for every card with 16-bit FAT entries and any number of
  FAT sectors. `TypeOK` and `FullIsFull` hold for
  every program: `HintInv` (below the hint no cluster is free, until a failure) is kept by an
  allocation because it takes the least free cluster, and by a release because it lowers the
  hint. `CardSound`, `OpenSound`, `SectorOfPosition` and `ClustersAccounted` have the hypothesis `Disciplined`, that
  the program keeps the three `Rules` (under *Conditions* above is what happens without
  them). Power cuts and refused transfers are not excluded, between two FAT sectors neither; what the
  properties then no longer claim (`torn`) is part of their statements and no hypothesis.

  Their invariant is `ChainInv`. Its idea is the *claim*: a live entry claims the chain
  from its first cluster and enough of it for its size (`Sized`), and so does every control block in
  use, which may be ahead of its entry. Claims of one slot may differ and those of different
  slots share no cluster (`Apart`), in the buffer and on the card (`FatInv`). An entry
  whose chain is being released makes no claim on the buffer from the start of the call
  and none on the card from the first of its FAT sectors to reach the card (`InFat`, `OnCard`). Where
  the card has only the first half of a link, the cluster it leads to counts as the end of the
  chain (`Sealed`): it is free on the card, so that no other claim meets it. The buffer and the card
  agree on the chains of all slots but the one at work (`SameElsewhere`), and what a write has not
  brought to the card ends with the last cluster of its chain and lies in one FAT sector
  (`BufferInv`), so a cut falls back to a sound FAT. After a cut between the two sectors of a link or those of a
  release no more is kept than that the program is at rest until the card is formatted
  (`Broken`). `PlaceInv` and `HolderInv` say which slots and blocks a call may be at work on, `CursorInv` where in
  its chain a block's `cluster` and `last_cluster` stand, `AccountInv` that every cluster in use is claimed.
  There is a lemma for each action; those on chains say what an append, a
  new first cluster or a release does to the chain at work and that others keep theirs.

  That walks along a chain stay on the card, meet no cluster twice and end once (`NthTyped` and the lemmas of the
  section on chains) is about a recursive function, and is proved by the least
  counterexample, which exists because the naturals are well founded.

Every invariant named here was checked by TLC before it was proved, those of `Rdcf`, `Motors` and
`Cmucam2` on a second instance too. Each proof is: initial states
satisfy the invariant, every action preserves it (one step per action), the property
follows; action properties follow from the same invariant.

Only model-checked: the liveness properties (`HeldIsReported`, `PassIsRowSource`'s
end, `ServosKeepMoving`, `LoadReturns`, `CallsReturn`, `Follows`, `EndsUnlessMasked`,
`Resynchronises`, `PromptReturns`), which with `ENABLED` are out of this prover's reach.

## Not modelled, and why

`PROJECT.json` names the reason for each component. In short:

* the chart and sensor ports under `Burt/Audio Analysis and Head Tracking`, the vendored
  libraries (JPEG, PNG, zlib, Lua), the tools and the simulated camera are not this robot's
  logic. They are most of the lines of the repository, which is why the share of all
  its lines that the modules map is small;
* timer and LEDs are single register accesses without concurrency;
* the example programs' steering is arithmetic over what the HAL and the image
  library return. Two remarks on Burt's own `main.c`: it reads rows of all
  channels with `img.channels` 1, so the first third of an interleaved row is taken for
  the picture; and its `if (fp) while (1)` does not return once the UART is open;
* the control application is a form; its handler of the last part of the address
  keeps its verdict in the bit of the part before (`Burt.cs:292`, `Burt.cs:297`), so that a
  valid part before hides an error in the last;
* `cc3_connected_component` is called by nothing.

Within the modelled parts: pixel values other than in `Image`, the second green, the
three channels of a pixel apart, `track_invert` and the bitmap of a row; FATs with 12-bit entries
(cards of fewer than 4080 clusters; the branch of `FAT_entry` for them, `rdcf2.c:222`, takes
the two bytes of an even cluster for `(p[0] | p[1]) << 8 & 0xF00`, which loses the first),
what the program makes of a card after a link or a release was cut between two FAT sectors,
subdirectories, attributes and
partial-sector transfers, and the undefined behaviour after a refused transfer in an
appending write (`rdcf_seek` overwrites the jump buffer of its caller), at which the
model ends; of the CMUcam2 commands the register, LED, sleep and servo position
commands, masks, packet filter, buffered mode, the layout of the packets, more
than ten arguments of a line (`cmucam2.c:1766`), which are not counted, and lines longer
than `MAX_LINE`, after which the rest of the line is read as a command
(`cmucam2.c:1704`); of CamScripter
the messages to the host, the functions offered to programs, and the steps in which a program is
installed: `install_lua` empties the file and writes it byte by byte (`lualib.c:314`), so a power
cut within leaves a part of a program, where `HandleProgram` is one step and a power cycle
comes before or after it; of `Capture` the return of `cc3_pixbuf_load` with the camera's
power down (`cc3.c:74`), which `Pixbuf!Load` has; of WiFly the SPI bridge
and the numbers parsed from a line; of the motor controller the joystick's mixing.

## Plan

1. `FileStore`, the abstract file system (names to sizes, atomic calls), with `Rdcf`
   shown to implement it while nothing fails. `ChainInv` is what the mapping needs.
2. `Devices`: file numbers, drivers and system calls over `Rdcf`.
3. The control application's address flags.
