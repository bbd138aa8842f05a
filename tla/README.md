# A verification development for UADE 2.13 and its web build

UADE plays Amiga music. It emulates enough of an Amiga (68000, CIAs, Paula) to
run the original player programs, and wraps the emulator in a command protocol.
The repository holds two programs made from the same core:

* the native player: two processes, *uadecore* (the emulator) and a frontend,
  which talk over a pair of byte streams;
* the web build (`src/emscripten`): the core compiled to JavaScript and called
  by an audio player in the page, with files that are loaded while it runs.

This directory models the parts of both in which control is hard to get right,
checks them with TLC on small instances, and proves the safety properties of all
of them with TLAPS for every value of their constants. `PROJECT.json`
lists runs, properties, the source lines of each definition, the hazards and
the findings.

    tlc -workers 2 -config MCUadeSession.cfg MCUadeSession
    tlapm UadeIpcProofs.tla

## Components

| Component | Sources | Modelled | By |
|---|---|---|---|
| IPC message layer | `uadeipc.c` | yes | `UadeIpc`, `TurnTaking` |
| Core and session protocol | `uade.c`, `uadecontrol.c`, `newcpu.c` main loop | partly | `UadeSession` |
| Web player glue | `adapter.c`, `uade_adapter.js`, `scriptprocessor_player`, `standalonesupport.c` | partly | `WebPlayer` |
| CIA timers and event loop | `cia.c`, `events.h` | partly | `CiaTimers` |
| Paula audio | `audio.c` | partly | `Paula`, `SincQueue` |
| Custom chips | `custom.c` | partly (what audio, events and interrupts need) | `Paula`, `CiaTimers`, `Interrupts` |
| 68000 CPU | `newcpu.c`, `gencpu.c`, `cpuemu.c` | partly (how it takes interrupts; arithmetic) | `Interrupts`, `Alu` |
| Sound core on the Amiga side | `score.s`, players | partly (main loop, handlers) | `Score` |
| Song and player configuration | `songdb.c`, `eagleplayer.c`, `uadeconf.c` | partly (the shared files) | `SongDb` |
| Memory, effects, helpers, start-up, debugger | `memory.c`, `effects.c`, `support.c`, `main.c`, `debug.c` | no | |

### Message layer

*State*: `ipc->state` of both peers, two streams, a half-read or half-written
message. *Operations*: send a message in one write, send a string in two,
receive in two reads, end of input, failing writes, death of a process.
*Hard*: two processes interleave at each chunk, either may die between two
chunks, both may wait for each other. *Correct means*: the right to speak
exists exactly once; a process that may speak has read everything; headers and
bodies never lose step; messages arrive once, in order, in turns.

### Core and session protocol

*State*: where the core is (`uade_option`, `uade_reset`, `uade_handle_r_state`,
`m68k_go`), `uade_read_size`, the sample buffer, `uade_audio_output`,
`uade_audio_skip`, `uade_reboot`, the options in force; the frontend's place in
the protocol and its request. *Hard*: an answer consists of many messages
between which the song speaks too; state survives from song to song; options
are set by commands and undone by resets at four different places; processes
die. *Correct means*: the core never meets a command it dies of; answers have
the length that was asked; replies are of the current song; exactly the options
of this song are in force; exit codes are right; every request is answered and
no core outlives its frontend.

### Web player

*State*: the emulator's globals, the file cache, three flags of the player and
the song it remembers, and the call in progress. *Operations*: play, pause, a
file arrives or fails, the dry run, computing a buffer, delivering it. *Hard*:
a file that is not there ends the call in its middle, and the song is started
again from scratch later, perhaps when another song plays; one flag
(`quit_program`) has four causes; two resets and a dry run share the globals.
*Correct means*: only fresh samples of the last song are heard, calls return,
waiting ends, subsongs are those of the song.

### CIA timers

*State*: counters, latches, control bits and interrupt registers, two cycle
remainders, the event table. *Hard*: timers do not tick; they are caught up at
each access and the time of the next underflow is computed ahead. A result that
is one cycle off, in any order of writes, is an assert or an event never met.
*Correct means*: the event is always ahead and in time, asserts hold, no cycle
is lost, enabled underflows interrupt.

### Paula

*State*: four channels (state machine, counter, pointer, latched registers),
the interrupt and attachment bits, the output clock. *Operations*: the
channels' event handler, the raster line's fetch, and all register writes.
*Hard*: three time scales (periods, raster lines, the output rate, which is no
whole number of cycles) and a program that writes registers between any two
cycles. *Correct means*: the loop ends, the output clock is met to the cycle,
fetches stay in the sample, starts need their two lines, stopped channels are
silent, ends of passes are announced.

The sinc resampler keeps, for each channel, a ring of the last changes of its
output. *Hard*: its index, the difference of two times that wrap around, and
the end of the walk must fit together, and fit a table of coefficients.
*Correct means*: exactly the changes of the last 2048 cycles are mixed, at
their ages.

### CPU and interrupts

*State*: INTREQ and INTENA, the mask in the status register, three flags that
make `m68k_run_1()` look at them, the exception frames. *Operations*: every
instruction that changes these, requests from the chips, `do_specialties()`.
*Hard*: the flags are an optimisation: nobody looks at INTREQ unless one is up,
and an interrupt waits for one more instruction, in which the program may
change everything it depends on. *Correct means*: whatever is deliverable has a
flag up; handlers nest by level.

The arithmetic of the instructions is written by a generator, as expressions on
sign bits ("minterms") and corrections of digits. *State*: registers and the
five flags. *Hard*: right for most operands is easy, and every player program
computes with it; a flag is often read much later, by another instruction.
*Correct means*: values and flags are those of the sum or the difference, alone
and in chains that carry through X.

### Sound core on the Amiga side

*State*: song memory (subsong, "song ends", "change of the subsong"), the hook of
the player's timer, the message buffers shared with the emulator, the place of
the main program and of the handlers. *Operations*: start, the main loop, the
loop after the end of a song, the handlers of three levels. *Hard*: assembly
without any lock, interrupted between any two instructions by handlers that
write what the main loop reads, and by the emulator, which writes into its
memory. *Correct means*: the main loop goes on, the timer is served and never
through a vector that has been cleared, requests for a subsong are not lost, the
emulator hears of the end of the song.

### Files that frontends share

*State*: the content db and song.conf, locks, and what each process has read and
not written back. *Operations*: open and lock, read and merge, add a playtime,
save, update the options of a song, exit. *Hard*: several frontends, locks
that end when any descriptor is closed, saves in place in pieces, deaths.
*Correct means*: no playtime is made of two, what was saved is there, what this
process found out wins, an option set stays, nobody waits for ever.

### How they interact

The frontend's commands reach the core through the message layer; the core
answers from within the emulation, when Paula has filled the sample buffer
(`check_sound_buffers()`) or when the song executes a trap
(`uade_get_amiga_message()`). The emulation advances in cycles: the event loop
calls the raster line, which calls Paula, and the CIAs, whose interrupts pace
the song. In the web build the message layer is replaced by direct calls.
`UadeSession` and `WebPlayer` see Paula as a source of frames and the song as a
source of messages; `CiaTimers` and `Paula` see the 68000 as a program that
writes any register at any time; `Interrupts` sees chips that request any
interrupt and a program that executes any instruction, and `Score` puts the
sound core into the place of that program, with the raster, the audio channels,
one timer and the frontend's commands around it.

## Modules

| Module | What it is |
|---|---|
| `TurnTaking` | abstract specification: a conversation in turns |
| `UadeIpc` | the two endpoints and their byte streams; refines `TurnTaking` |
| `UadeSession` | core and frontend; holds an `INSTANCE` of `UadeIpc` and is checked to use it as specified |
| `WebPlayer` | the web build on its one thread |
| `CiaTimers` | timers A and B, their interrupts, the event loop |
| `Paula` | audio channels, their DMA and the output clock |
| `SincQueue` | the queue of the sinc resampler, of one channel |
| `Interrupts` | how the CPU takes interrupts, for any program |
| `Alu` | arithmetic, flags and conditions of the CPU |
| `Score` | the sound core as that program; implements `CpuSpec` of `Interrupts` |
| `SongDb` | the files that frontends share |
| `UadeIpcProofs`, `UadeSessionProofs`, `WebPlayerProofs`, `CiaTimersProofs`, `PaulaProofs` (with `SincQueue`), `ScoreProofs` (with `Interrupts`), `AluProofs`, `SongDbProofs` | theorems |
| `MC*` | instances for TLC |

### `UadeIpc`

A stream is a sequence of chunks: `uade_send_message()` writes header and body
at once, `uade_send_string()` in two calls, and `get_more()` is called twice by
the receiver, so a death may separate a header from its body. `state` is
`ipc->state`. `MaySend` and `MayReceive` say who speaks first, which the code
leaves to its callers (`uade_spawn()`, `uade_option()`). A pipe holds
`PipeCapacity` chunks; a writer blocks at that bound.

`TurnsRefined` maps the streams to what has been said and not heard: the
speaker is the peer that may send or whose token is on its way, `passed` is
that token. `MessagesOf` takes a stream's messages from its headers: the k-th
message is that of the header of rank k, stated without recursion so that the
refinement can be proved. The second half of `uade_send_string()`, the reading
of a header and the death of a process are stutters of the conversation.

### `UadeSession`

One action per blocking point. `kpc` names the place in `uade.c`; a command
changes exactly what `uade_handle_r_state()` changes. Resets are modelled at the
place where the code does them: `active` loses what `uade_reset()` clears, then,
after CAN_PLAY has been acknowledged, what `set_sound_freq()`, `epoptionsize = 0`
and `customreset()` clear; that order is what `OptionsInForce` is about. The
repository has no frontend of its own around `uadecontrol.c`: the client sends
one READ (perhaps after CHANGE_SUBSONG) or one REBOOT per turn, and may die at
any time. A core that writes to a frontend that is gone dies of SIGPIPE
(`CoreWriteFails`): it ignores SIGINT only (`unixsupport.c:241`). A frontend that
ignores SIGPIPE would pass that on to the core it spawns, whose write would
then fail instead, and the core leave with -1; that is not modelled. Samples and messages carry their song, so that stale ones are seen.

### `WebPlayer`

JavaScript runs one callback at a time, so `call` says which call into the
emulator is running; other callbacks happen between calls. A song is a script
of what its program asks the emulator for, the same on each retry, as the
program is. Files are answered as `preloadFile()` answers: ready, missing, or
requested and on their way. A request ends with `onload` or with `onerror`. The
handler that would look for the status 404 is assigned to `onreadystatuschange`,
which is no event, so for a file that the server does not have `onload` stores the page of
the error as the file: `FileArrives` answers "ready" for it, or "missing" if that page is empty, since its
length is then 0 like that of a failed file. What the emulator makes of the
wrong bytes is not modelled. In `Reset`, `ems_song_initialization()` sets the resampler
and `customreset()` sets its default, in the order of `uade_reset()`. `Boot` and `Reset` follow `uade_boot()` and
`uade_reset()` including what they do *not* reset, and `ReturnsReady` includes
the second, clean reset after the dry run.

`WaitingEnds` is about the waits that began because a file had to be asked for
(`asked`), and has one exception, also for these. What is left out has two causes, both of which the run
reaches: the end of a song is answered "wait" because of the flag of
the song before (finding 1; no request of that call stands for it), and a file that the emulator
cannot do without has failed, for which `uade_reset()` answers as if it
were still on its way (`uade.c:1449`). Nothing ends those waits but the page's next song.

### `CiaTimers`

`CIA_update(e)` is the catch-up for `e` cycles, `CIA_calctimers` computes all
times and the event; each write is update, change, calculate, reschedule, as in
the code. Times are kept relative to the cycle counter, so that they are
bounded; `AsInt` is the conversion of `int`, which the product of a cascaded
timer may leave. `do_cycles()` looks only for equality with `nextevent`, so a
time of zero or less is a time never met.

### `Paula`

`update_audio()` is a loop; one turn of it is one action, and `pc` says who
called it. Nothing runs meanwhile, so what the access writes is chosen after
the loop, which leaves fewer states and the same behaviours. The handlers of
several channels that are due in the same cycle run in one turn; attachments
act from channel `c` on `c + 1`, which the loop in the code visits next, so
`Modulated` shows a handler what the one before it left. Times are scaled by
`Den`, so that the output clock is exact where the code has a float. Addresses
and lengths count words.

### `SincQueue`

One turn of `update_audio()` per action, for one channel: the four have a queue
each. The history `steps` holds the last `Length + 1` changes with true ages,
against which the walk along the ring is compared. The model has no bound that
the code does not have: every change is queued whatever the age of the last
(`Steps`), and an output may stay for ever (`Stays`). So both properties of the
queue fail, and the conditions under which they hold are formulas of their own,
which nothing in the code sees to:

* `AgesInTable` holds as long as no channel keeps its output for 2^31 cycles, ten
  minutes of a song (`NeverIdle`). After that the age becomes negative, the walk
  does not stop, and `winsinc[]` is read before its table: finding 5. A channel
  that falls silent for good, or that a song does not use, gets there.
* `StepsAreMixed` needs that too, and that changes are 8 cycles apart
  (`StepsApart`), the "minimum emulated period" for which `audio.h:15-17` sizes the queue. A
  period that another channel modulates may be 1, and then changes are
  overwritten while they still sound. It is in no run: no document says that the
  output is exact at such periods, and the theorem states what does hold.

### `Interrupts`

`m68k_run_1()` alternates an instruction, its cycles, in which the chips'
events come, and `do_specialties()`; `phase` is which of the two is next.
`int`, `doint` and `stop` are the SPCFLAGs. An instruction is one of those that
touch what interrupts depend on (writes to INTREQ, INTENA and the status
register, STOP, TRAP, RTE), or one that touches none, and goes on at any label.
Exceptions other than traps and interrupts, and the trace bits, are left out.

### `Alu`

An instruction is an operator that returns what it stores and the flags it
leaves, translated from the lines that `gencpu.c` prints; operands are numbers
without sign of any even range `0..2 * H - 1`, which stands for bytes, words and long
words. `flag_sub` stands for `flag_cmp` too, which prints the same expressions.
The actions are a program of such instructions on registers of one size. `Divu`
has no case for a zero divisor (an exception), `Abcd` and `Sbcd` return value and
carry only, and neither they nor `Divu` are among the actions, as their operands
have sizes of their own. Addressing is left out: a register stands for a word of
memory too.

### `Score`

One action is one instruction wherever anybody else can see or change what it
touches, and a run of instructions otherwise. `framecount` is abstracted to
`newframe`, whether it still is what `waittrapvector` read: the score uses
nothing else of it. The emulator's side of the traps and of `$300` is from
`uade.c`. `Burst` bounds how many events come before the CPU has caught up with
all it was told, since one whose interrupts come faster than it serves them never
leaves its handlers; `CatchUp` starts the count again when the main
program finds nothing pending. `ScoreIsAProgram` shows that nothing was made
easier: each action is one of `CpuNext`.

Left out: the other timers and level 6, players that have routines for the next
and the previous subsong, the debugging aids (`dontplay`, the flash loop, the
mouse button), the message about NTSC, and the libraries offered to players.
What a player may do is in `call_init_sound` and `Player`: switch the master bit
off, enable audio interrupts, report the end of the song.

Exceptions in the properties are windows the assembly has, each a few
instructions wide:

* `RequestIsKept`, `late`: a request that comes between the last look at `$120`
  and the clearing of `$300` is dropped (`score.s:883`).
* `SongEndIsTold`, `replaced`: the first audio interrupt without a handler writes
  its message into the same buffer. If that is between the writing of the end's
  message (`score.s:901`) and the trap that hands it over (`902`), the end is
  lost, as TLC finds. The history `said` counts these messages from the reset of
  a song on: only the first is excused, and only in that window, so an
  end that is lost at any other time, or to a second message, is a violation.
* `NeverCallsZero`, `burst <= 3`: the player's hook is cleared three
  instructions after its timer was disabled, and a timer interrupt pending then
  is taken before that, unless four events crowd in between them. With `Burst` 4
  and without the bound TLC finds the jump to address 0; with 3 there is none.

### `SongDb`

A process opens, locks, reads or writes, and closes, with other processes in
between; the two files share nothing but the code of their locks, so a
behaviour uses one of them. The content db is a sequence of cells, because a
save writes over the old file from the start, in pieces that know nothing of
lines (`SaveSome` cuts anywhere). song.conf is truncated before it is written
and is a sequence of lines; reading it is one step. A line of the content db is
accepted as the code accepts it: an md5 and a number. Everything is stated
without recursion, so that it can be proved about: the text of a save by counting the
cells before each line (`Offset`), the entries of a file by the places where
accepted lines start, in some order, because they are sorted next.

Exceptions in the properties, each of which TLC shows to be necessary:

* `torn`: a process died between the pieces of a save. The mixture of old and new
  lines may parse, and give a song a playtime it never had.
* `clash`: `atomic_read_file()` closes the file and with it, by the rules of
  `lockf()`, ends the lock that `uade_update_song_conf()` took on it
  (`songdb.c:706-708`). Two updates that overlap lose an option.
* `OwnTimeIsFound` speaks of songs with one entry: a save that is shorter than
  the file it replaces leaves a tail of old lines, so a song may be there
  twice, and `bsearch()` finds either.

A file that cannot be opened or locked ends its call with nothing done
(`OpenFails`): a read leaves the empty database it has created, an update goes on without a
descriptor until `ftruncate()` fails.

Left out: allocation failures (`cccorrupted`, `fdopen()`), subsong normalisation, comments,
and the reading of song.conf into `songstore`. On Cygwin there are no locks;
`NotLocked` is that variant.

## Runs

All of them finish within three minutes on two workers.

| Run | Bounds | Distinct states | Shows |
|---|---|---|---|
| `ipc` | 3 messages (the token, one without body, one with), pipe of 4 chunks | 502 | `ExactlyOneTurn`, `HalfDuplex`, `Framed`, `TurnsRefined` |
| `session` | 2 songs, reads of 1 or 2 frames, 3 options, output after 2 silent frames, 2 messages between frames | 137,456 | types, five safety properties, `RequestIsAnswered`, `NoOrphanCore` |
| `web` | 4 songs, one of which comes to its end, 6 files of which 5 may fail, buffers of 3 frames | 24,303 | types, `PendingIsRetried`, `SoundIsOfLastSong`, `SubsongInRange`, `CallsReturn`, `WaitingEnds` |
| `web_stale_not_ready` | a song that waits late, one that opens nothing | | `EndIsReported` is violated |
| `web_effects` | with a resampler in uade.conf | | `EffectsInForce` is violated |
| `cia` | one chip, registers of 1 bit, 2 cycles per clock, line of 3 cycles | 307,136 | `EventInTime`, `TempoIsExact`, `UnderflowInterrupts` |
| `cia_overflow` | ints of 4 bits | | `UpdateAssertHolds` is violated |
| `paula` | one channel, periods 2 and 4, lengths 1, 2 and 4, line of 3 cycles, 1.5 cycles per frame | 858,960 | `TimeGoesOn`, `SampleClock`, `FetchInRange`, `PassesGoOn` |
| `sinc_idle` | 4 entries, table of 8, a time of 28 values | | `AgesInTable` is violated |
| `alu_borrow` | 2 registers of 4 bits | | `BorrowIsKept` is violated |
| `score` | 2 subsongs, 2 events before the CPU has caught up | 1,225,590 | five safety properties, `WaitReturns`, `TimerIsServed` |
| `songdb` | 2 processes, 2 songs, 5 calls each that use the content db or 2 that use song.conf | 227,553 | types and order, `EntriesAreReal`, `SavedIsThere`, `OwnTimeIsFound`, `OptionIsKept`, `CallsReturn` |

A run does not repeat what a theorem settles and no bug in a bound could hide:
the types of `UadeIpc`, `CiaTimers`, `Paula`, `SincQueue` and `Score`, the
asserts and the event ahead of `CiaTimers`, `DmaStartsOnLines`,
`StoppedIsSilent` and the refinement of `CpuSpec` are proved, and checked by no
run.

Why the bounds are enough:

* `ipc`: with a pipe of four chunks a whole string and the token fit, and the
  writer also meets a full pipe. More messages of the same two shapes add
  nothing, as the layer looks only at the token and at the size.
* `session`: two songs are needed for a stale reply or a leaked option; one
  option per place of reset represents that place; a READ of two frames leaves
  a half-full buffer between two messages of the song. Two messages between
  frames let two replies queue; more fill the pipe, which is a wait.
* `web`: the songs differ in when they open a file, whether it exists and when
  they report subsongs, so that each combination of "wait, play another, the
  file arrives" happens. One song makes sound and comes to its end, also when the
  song before it had to wait for a file, whose flag it then meets. All files but the
  emulator's own configuration may fail, the score among them.
* `cia`: two cycles per clock and latches of 0..3 reach every order of
  "remainder, underflow, write"; the raster line is shorter and longer than the
  timers' times. `MaxIdle` bounds the cycles in which no timer runs, during
  which nothing but the raster line happens. The theorems drop these bounds.
* `paula`: periods shorter and longer than a line; samples of one word, of two
  and of the length that a register of zero stands for, whose counter wraps; an output clock that
  alternates between one and two cycles. `LenMod` and `VolMod` keep the
  wrap of the counter and the cut of the volume. A write of period 0 and 1 meets both
  special cases of `AUDxPER()`. Several channels, and attachments of one to the next,
  are left to the theorems, which hold for any number of them.
* `sinc_idle`: the time wraps around after three and a half tables, the head after
  four steps. Nothing else is bounded, as the search ends at the violation.
* `score`: two events reach every order of "interrupt, interrupt within its
  handler" at every instruction. All safety properties also hold with three
  events (3,489,010 states; too long for the temporal ones).
* `songdb`: two processes are needed for a merge and a lost update; song 1 has
  a playtime of one digit, song 2 one of one and one of two, so that saves are longer and
  shorter than what they replace. Five calls are read, add, save, read, save,
  after which a process has seen another's tail; with six the invariants hold too
  (1,354,907 states). Two updates of song.conf per process are one that another
  may interrupt and one that sees the result.

`CHECK_DEADLOCK FALSE` is set for `ipc`, `session` and `songdb` only: there all
processes may have ended, or made all their calls.

### Fairness

* `session`: weak fairness of each process. Both are single-threaded loops that
  the operating system schedules; when a process can read, write or compute it
  eventually does. Nothing is assumed of deaths, of what the song says, or of
  which command the frontend chooses. `InstrPerFrame` bounds how much a song
  says between two frames: emulated time passes with each instruction.
* `web`: weak fairness of the steps of a call in progress, of delivery, and, for
  each file, of "it arrives or fails", since the browser ends each request
  one way or the other and nothing is assumed of which. Not of the page's calls. A call ends as the 68000's
  program makes sound or reaches its limit of steps.
* `paula`: weak fairness of the emulator's loops, strong fairness of `Cycle`:
  between two accesses the 68000 passes cycles. Not of any write.
* `score`: weak fairness of the CPU, which executes the main program, a handler
  or its special loop; strong fairness of the raster's and the timer's events,
  which are enabled again and again only because `Burst` stops them for a while:
  both are driven by cycles, which every instruction and the loop of a
  stopped CPU pass. Not of audio interrupts or of commands.
* `songdb`: weak fairness of each process within a call, except that `open()` and
  `lockf()` need not fail, or no wait for a lock would be one. A lock that is free
  again and again need not be got, by `lockf()`; as calls are bounded it is
  free for good in the end, and `CallsReturn` shows that no call keeps one.

## Findings

Five runs show the code doing what its own comments, asserts or tables exclude.

1. `web_stale_not_ready`: `last_file_not_ready` survives into the next song;
   when that song opens no file, its end is answered "retry when the file has
   loaded" (`adapter.c:88-90`), the page is not told that the track is over, and
   the player waits for a file that nobody has asked for.
2. `web_effects`: the configured resampler is chosen before `customreset()`
   chooses the default again (`uade.c:1520-1521`, `audio.c:436`); the native
   core does it after.
3. `cia_overflow`: the time of a cascaded timer is a product of two 16-bit
   registers in an `int`. With div10 4, ciaata 26214, ciaala 65535, ciaatb 13107
   it is 2^32, which is "now": no event is met any more and the assert of
   `cia.c:113` fails. The run scales the widths (latches of 2 bits, ints of 4).
4. `alu_borrow`: `flag_sub` does not copy the carry to X (`gencpu.c:689-694`),
   as `table68k` and the other variant of `genflags()` say and as `flag_add`
   does, so SUB and NEG leave X alone, and NBCD too. TLC's trace is one SUB, 0 - 2 = 14 in
   four bits: C is set for the borrow and X stays clear. (`SubThenSubx` says what
   follows for chains.)
5. `sinc_idle`: `sinc_queue_time` counts every cycle in an `int`, the walk of the
   sinc handler takes any age below 2048 for an index (`audio.c:244-247`), and
   an age of more than 2^31 cycles (605 seconds) is negative. Only a reset of
   the audio clears the queue. It needs the resampler "sinc" and a channel that keeps
   its output for so long.

Behaviour that surprised, and that no run is about:

* A song that has come to its end, or to silence, is answered 2, "error", by
  `computeAudioSamples()` (`uade_adapter.js:72-75`): `quit_program` stands for
  both (`adapter.c:50`).
* A volume attachment takes a whole word (`audio.c:408`) where `AUDxVOL()` takes six
  bits, so the output leaves the range that `audio.c:171` names.
* A two-word sample plays its first word twice when it starts (`audio.c:313`); a
  stopped channel keeps `intreq2` and announces a pass too early
  (`audio.c:379`); a channel started by hand keeps an old pointer when its DMA is
  switched on (`custom.c:434`; `FetchInRange` leaves these out through the
  history variable `hand`); a write to INTREQ does not catch up with the audio's
  past first (`custom.c:462`).
* A score that is missing on the server is waited for (`uade.c:1449`).
  `get_player_name()` clears the panning the page asked for (`uade.c:1037`).
* The timer registers of a CIA are read as of its last update (`cia.c:283`).
* The content db is saved with `n=` and without the number of the subsong
  (`songdb.c:613`), which reading it asks for.

## Proofs

### `UadeIpcProofs`

Assumption: `IpcAssumption` (a token without body, a pipe that holds at least
two chunks). `ExactlyOneTurn` is not inductive: from a state with a token in
the middle of a stream, reading it would give the right to speak to a process
whose peer has more to say. `TurnInv` adds that a token is only ever the last
chunk of a stream, that a process in the middle of a string may still speak, and,
as `HalfDuplex`, that a process that may speak has nothing left to read. The lemmas are about streams (what appending and reading a chunk does to
the position of the token) and about each kind of step (writing one chunk, two
chunks, the token; reading a chunk, the token); the step theorem names the
action and cites one.

* `TurnInvariant`, `TypeCorrect`: the inductive invariant and the types.
* `TurnIsUnique`: `IpcSpec => []ExactlyOneTurn`.
* `SpeakerHasReadAll`: `IpcSpec => []HalfDuplex`.
* `FramingIsKept`: `IpcSpec => []Framed`. What a receiver reads next depends on
  everything behind it, so the inductive invariant is about whole streams: each
  header is followed by its body, unless it is the last chunk, and then its
  writer is in the middle of that string or is gone for good.
* `NeverBothBlocked`: in every state one process may speak and has room for any
  message, or is to listen and has before it the next piece of a message that it
  can use. `uadeipc.c` reads without a timeout, so two processes that wait for each other would
  wait for good. It follows from the three before: one of them has the turn,
  and if its pipe is not empty, the other has something to read.
* `TurnsAreRefined`: `IpcSpec => TurnsRefined`. The refinement needs `TurnInv`,
  the framing of whole streams, and `QuietBehindToken` (who has read half a
  message has no token to read before the other half). That a stream's headers
  have the ranks 1, 2, ... without gaps is a counting argument: ranks are an
  injection into as many numbers as there are headers, so every number is taken.
  From it follow what writing a header appends to the messages of a stream, and
  what reading one takes from their head. Then one lemma per action shows
  that it is `Say`, `Hear`, `TakeFloor` or a stutter: only reading the token
  changes the speaker, and by then everything else of that turn has been heard.

They hold for every set of messages and pipe capacity; with `UsesIpcCorrectly`
they apply to the session, in which every message and option may occur.

### `UadeSessionProofs`

Assumptions: `SessionAssumption` (songs and sizes of reads are positive, at
least one frame may be skipped, a pipe holds two chunks) and `NoneAssumption`.
Any number of songs, any of the options, any length of conversation.

None of the five invariants is inductive, since what the core receives next was sent
many steps ago. `SessionInv` says what may lie in between. Its first part is
the conversation. `TurnInv` and `Framed` of the message layer are in it, taken from `UadeIpcProofs`
by `INSTANCE`. `PlacesMatch` says which places of the two programs hold the floor.
`CommandAfter` and `ReplyAfter` are the grammar of the two streams, the types that may
follow a message; `CommandsFit` and `RepliesFit` say that each stream keeps to it,
that its first message is one the reader expects where it is, and that the
writer's next one may follow its last. The second part is the records:
`CommandsAreTheClients`, `CoreFollowsClient` and `AnswersAreTheCores` (while both live: song, options and number
of frames in a command are those the frontend remembers, and those of an answer
the core's), `CoreInOrder`, `ClientInOrder`, `OptionsKept`, `QuitInTurn` (the
exit status). The second part needs the first: that a song's options are in
force when it runs needs that no option is still in the stream by then, which
the grammar and the token give. TLC checked `SessionInv` on the instance of
`MCUadeSession` before it was proved.

The proof keeps the parts apart. Lemmas on writing, reading, losing and leaving
show that the conversation is kept by any step that says what its place may
say (`CoreWriteKeeps` and its like); then there is one lemma per action, about
the records.

* `SessionInvariant`, `SessionTypes`.
* `CoreIsNeverAtFault`, `AnswersAreExact`, `RepliesStayCurrent`,
  `OptionsStayInForce`, `ExitStatusStaysRight` (the safety half of `NoOrphanCore`).
* `SessionUsesIpc`: `Spec => UsesIpcCorrectly`; and with `TurnsAreRefined`,
  `SessionTakesTurns`: what core and frontend send each other is a behaviour of
  `TurnTaking`.

### `WebPlayerProofs`

Assumption: `WebAssumption`: any songs and any programs of theirs, any files, of which any
may never be delivered. Of its parts one is about what a song reports: its
subsongs are the numbers from a least to a greatest one, which is how
`AMIGAMSG_SUBSINFO` gives them.

No property is inductive: what a call answers depends on what the emulator was
left with by the calls before. `WebInv` has the types and

* `SongInv`: once a song is initialised, it is the last one, and every file its reset
  needs is there or known to be missing. This is what lets the clean reset of
  `SetSubsong`, whose result the code does not look at, go wrong never: no file that
  was answered once is forgotten (`Later`). That the song in memory is
  the last rests on it, since every callback of a file starts the last song again.
* `SampleInv`: outside a call no samples wait, those that do were made after the
  last reset, and while nothing is output fewer frames were dropped than the limit.
* `DryRunInv`: a dry run has made no sound and filled nothing, so it ends before
  its first buffer does (buffers hold two frames at least), and it knows no
  other song's subsongs.
* `RangeInv`, `AskedInv`: the two properties, at the places where a
  call may still start or go on.

Lemmas on the emulator's operations (`ResetIs`, `ServeIs`, `MixIs`, `Run1Is`)
say what each does to the globals. A step that asks for a pending file sets
`quit_program` and `uade_reboot`, and `Audible` then keeps it from making
samples: that is why `-1` is returned rather than the samples, and the one
fact on which `PendingIsRetried` turns. TLC checked `WebInv` first.

* `WebInvariant`, `WebTypeCorrect`.
* `PendingRetried`, `LastSongSounds`, `SubsongsInRange`: the three safety properties
  of `WebPlayer`.

### `CiaTimersProofs`

Assumption: `CiaAssumption`. The theorems about times are stated as
`Spec /\ []NoTimeIsZero => []P`, where `NoTimeIsZero` says that no cascaded
time is truncated to zero; finding 3 is the run in which it is. The condition
cannot be weakened to nothing, and it is the only one: a truncation to any
other value makes the event early or drops it, and the proof covers both,
because the time of timer A is always scheduled as well.

The inductive invariant `IInv` has five parts: `Registers` and `Interrupts`
(types), `Remainders` (both are less than a clock, and their sum is the
cycles not counted yet), `Table` (the next event is the first of those scheduled and lies
ahead) and `EventInTime` (the CIA event is no later than each running timer's underflow).
`EventInTime` is what makes it inductive: the asserts of `CIA_update()` follow
from it, and no other part bounds how far time may run.

* `Inductive`, `TypesHold`, `AssertsHold`, `NoEventIsMissed`, `EventComesInTime`
  under the condition.
* `TempoHolds` and `UnderflowsInterrupt` without it, from the separate invariant
  `Account`: cycles passed are clocks counted plus the remainders, whatever the
  68000 writes.

### `PaulaProofs`

Assumption: `PaulaAssumption`, of which two parts matter: no output rate above
one sample per cycle (`Num >= Den`), and a least period of at least 1. Any number
of channels, any line, any values written.

The first part is about `Paula`. Its inductive invariant `IInv` has five parts. `Sounds`: each channel has its
types, a period of at least 1, an event ahead if it plays, and no sample on the
output if it does not. `Lines`: a channel that waits for its two lines has its
event exactly at the next one, and whether it wants a word says which of the two
it is; this ties three fields of a channel to the lag of `update_audio()`, to
the line and to who called it, and is what makes `DmaStartsOnLines` inductive.
`Lags`: the lag and the rest of the line are never more than a line. `Clock`: the
next sample is at least half a cycle away, so that rounded it is at least one
(`Rounding`); with periods of at least 1 no turn of the loop takes no time
(`TurnTakesTime`). `Bits`: types.

* `PaulaInductive`, `PaulaTypeCorrect`.
* `TimeAlwaysGoesOn`, `ClockIsMet`, `StartsOnLines`, `SilentWhenStopped`.
* `FetchStaysInRange`, from a second invariant, `Pointers`: the pointer is as far
  from the end of the sample as the counter says, in each state in its own way
  (`Reaches`): a counter of zero stands for all its values, and between its two
  lines a channel's counter is one ahead of its pointer.

The second part is about `SincQueue`, on its own. It asks `SincConstants` of the
constants, a condition of the theorems: `MaxAge <= Length * MinGap`
(the queue is long enough) and `MaxAge <= Half` (the table's ages fit into an int). For `audio.h`'s numbers,
2048 = 256 * 8, the first holds with nothing to spare. The theorems are
stated as `SincSpec /\ []NeverIdle => ...`: the module does not have these
conditions in its actions, because the code does not.

The inductive invariant `SincInv` has the types, the `History` (ages never shrink
from step to step, and the latest is no older than `MaxIdle`)
and the `Ring`: entry `j` from the head is step `j + 1`, with its output and, modulo the
wrap, its age, where an int can tell that; the rest is as cleared. It rests on
`NeverIdle` alone; `StepsApart` is used where the queue has to be long enough. The walk of
the handler stops at the first age that is too old. That it stops where the
history does needs that ages are exact (`AgeIsExact`), that they grow (`AgesGrow`),
and an argument by the least index at which the walk would go wrong
(`WalkIsRecent`).

* `SincInductive`, `SincTypeCorrect`.
* `TableSuffices`: `AgesInTable` as long as `NeverIdle`. The run `sinc_idle` shows that
  the condition cannot be dropped.
* `QueueSuffices`: `StepsAreMixed` as long as `NeverIdle` and `StepsApart`.

### `ScoreProofs`

The first part is about the CPU with any program. It assumes
`InterruptAssumption` (levels are 1 to 6, each has a vector) and uses nothing of
the score.

* `CpuTypeCorrect`: the types, in particular that frames hold masks and labels
  however handlers nest.
* `NothingForgotten`: `CpuSpec => []NoneForgotten`. With the types it is
  inductive: an instruction that changes what is deliverable sets `int`, one
  that does not leaves `doint` alone, and `do_specialties()` turns `int` into
  `doint`, or takes the highest level, whose handler's mask leaves deliverable only
  what is above it, which is nothing.

The second part is about the score. It assumes `ScoreAssumption` too (the levels of
the three sources, and labels for every place of the program).

* `ScoreTypeCorrect`: the types, one lemma for main program, handlers and events.
* `ScoreIsAProgram`: `Spec => CpuSpec`: every instruction of the score is one of
  those of `Interrupts`, every event a request.
* `ScoreForgetsNone`: from it and `NothingForgotten`, without another look at
  the score.

The inductive invariant of the safety properties, `ScoreInv`, is about
`Contexts`, what the CPU is in and what that has interrupted, as one sequence.

* `Nested`: only the main program is at the bottom, a handler runs at its level,
  the main program and its trap's handler at 0 (at 7 until start-up lowers it),
  and no context is below a higher level. The properties say nothing of the masks, but the steps
  that must not break them, `Rte` and an interrupt, work with nothing else.
* `EndInv` and `RequestInv`: what the place of the main program, which an
  interrupt leaves where it is (`mainpc`), says of the end of the song and of
  the subsong asked for; and that a handler writes its message once in a song, having
  cleared `virgin` before (`SaidOnce`), so that the end's message, once it is
  written, can be replaced by the first of these only.

The proof treats the steps in three groups: the main program, which runs alone;
handlers, which go on at their level, return, or raise a trap; and what comes
beside the instructions. From it:

* `HandlersNest`, `RequestsAreKept`, `SongEndsAreTold`.
* `ZeroIsNeverCalled`: the vector is cleared three instructions after the timer is
  disabled, and what saves it is that the CPU, back at level 0, executes one
  instruction of the main program at most before it takes what is pending. `ZeroInv`
  turns that into a sum. `CountInv`: from the report of a song's end on (a
  change of subsong has the master bit off), with the timer's interrupt
  pending, each instruction the main program got done cost one event more than
  there are requests pending (`Margin`); a handler's entry is paid for by the
  request it has not acknowledged yet (`Unserved`), whose owner there is one of at most, by
  `Nested`. When the vector is cleared with the interrupt still pending, four
  events have come. `Requested` (a handler that has not acknowledged has a
  request) and `TimerInv` (where the timer and the interrupts are enabled the
  routine is there) carry it, and that nothing pending is forgotten is
  `ScoreForgetsNone`. The theorem holds for every `Burst`, the run has 2. TLC checked
  `ZeroInv` with 5 first.

### `AluProofs`

No assumption on `Regs`, and `H` any number at least 1 (even, for ASR). There is
no inductive invariant worth the name; the theorems are about what each instruction
computes, for every size and every operand. Their argument is the same each
time: a lemma on numbers alone (`AddArithmetic` and its like), in which the sign
bits of operands and result are comparisons with `H`, and a step that reads it
in the record the operator returns.

* `AddIsExact`, `SubIsExact`, `AddxIsExact`, `SubxIsExact`: value, carry, and V as
  "the signed result does not fit". The carries of ADDX and SUBX come from
  three sign bits.
* `CmpDecides`: after CMP the fourteen conditions of branches say what they should: ten
  compare the operands, with and without sign, VC and VS say whether the signed
  difference fits, PL and MI give its sign bit.
* `LongAddition`, `LongSubtraction`: chains of two, with X between them and Z of the
  whole number. `SubThenSubx`: SUB and SUBX are such a chain exactly when X was
  already right, the other side of finding 4.
* `DivuIsExact`, `AbcdIsDecimal`, `SbcdIsDecimal`, `AsrHalves`, `AslDoubles`,
  `RotationsAreUndone`, and `AluTypeCorrect` for whole programs.

### `SongDbProofs`

Assumption: `SongDbAssumption`. Songs are numbered in the order of their md5,
playtimes are sequences of digits with at least one, and each process makes some
number of calls. Nothing is assumed of how many processes, songs and playtimes
there are, and a process may die at every access to a file.

No property but the types is inductive. `DbInv`, which TLC checked first, adds

* `Locked`: who is past `lockf()` on the content db has its lock, so no two
  processes are in it at once.
* `Saving`: the place a save has reached lies in the file. What the file will be when the
  save is over (`Completed`) is thus known while it is a mixture.
* `AllReal`: every md5 of the file, or of the file it will be, begins a whole line
  with a playtime of its song. This is more than the code's reader looks
  for, and it has to be: a save over a longer file may end inside an old line, whose
  rest is refused only because it does not begin with an md5.
* `Kept`: the entries of the last save are read back from the file; those of the
  save that is under way will be.
* `OwnThere`: what a process has determined is in its memory.
* `OneUpdate`: without `clash`, one update of song.conf at most is between its reading and
  its writing, the file has one line per song, and the buffer to be written has too.

The lemmas have three layers. The first is about text: where line `i` begins
(`OffsetIs`, `LineOfIs`), that the cells of a text are those of its lines (`TextIs`), where
a line of a file ends (`EndOfIs`, `OneEnd`). Induction over the lines is replaced
by counting cells and by the least place where a claim fails. The second is
about files: a save in two pieces is the same as one in one piece (`TwoPieces`), it
leaves only whole lines (`SaveKeepsReal`), and reading it gives back what was in
memory (`SavedIsRead`). The third is about memory and song.conf: sorting permutes (`SortedIs`),
merging takes nothing away and adds no second entry for a song in memory (`StoredIs`),
removing the first line of a song that has one, and appending, leaves one (`UpdatedIs`). Then
there is one lemma per action.

* `DbInvariant`, `SongDbTypes` (with the order that `bsearch()` needs).
* `RealPlaytimes`, `SavedStays`, `OwnTimeWins`, `OptionsStay`: the four safety
  properties.
* `NoLockIsKept`: only a process in the middle of a call that reads or writes has
  a lock, and only that of its file: the part of `CallsReturn` that needs no fairness.

### Only model-checked

The liveness properties, which need fairness and ENABLED, of which this prover knows
nothing: `RequestIsAnswered` and the temporal half of `NoOrphanCore` in `session`,
`CallsReturn` and `WaitingEnds` in `web`, `PassesGoOn` in `paula`, `WaitReturns` and
`TimerIsServed` in `score`, `CallsReturn` in `songdb`. Every other property of a passing
run is stated by a theorem.

## Not modelled

* Of the 68000: addressing modes, moves, logical and bit instructions,
  multiplication, signed division, shifts by a count, the decoding of opcodes. Its instruction
  functions (`cpuemu.c`) and their tables (`cpustbl.c`, `cputbl.h`) are some
  92,000 generated lines, three quarters of the code: `Alu` models the
  generator's lines and not the copies, of which there is one per operand size and addressing mode.
  Elsewhere the program the CPU runs is arbitrary, or is the score.
* Memory, the tables of the sinc resampler.
* Time-of-day clocks, ports and keyboard of the CIAs; register reads.
* The mixers' arithmetic and the filters, effects.
* The files a song asks for by name in the native player, and playlists.
* Configuration: detection of formats, merging of options, the reader of
  song.conf.
* Copper, blitter and everything drawn.
* Of `score.s`: the libraries, the other timers, the players.

## Plan

Done: 1 `UadeIpc` with proofs, 2 `UadeSession`, 3 `WebPlayer`, 4 `CiaTimers` with
proofs, 5 `Paula` with proofs, 6 `SincQueue` with proofs, 7 `Interrupts` and `Score` with
proofs, 8 `SongDb`, 9 `Alu` with proofs,
10 the safety properties of `UadeSession`, `Score` and `WebPlayer` and the refinement
`TurnsRefined` proved, 11 those of `SongDb` proved, its searches restated without
recursion.

Next, in this order:

12. CIA: time-of-day clock with its alarm, the ports, and reads between updates.
13. Requests of the song for files and their answers in Amiga memory.
14. Merging of options from `uade.conf`, `song.conf` and `eagleplayer.conf` as a
    pure operator, against a statement of precedence.
15. Multiplication, DIVS (which divides before it tests for overflow, also
    0x80000000 by -1), shifts by a count and the bit instructions in `Alu`.
