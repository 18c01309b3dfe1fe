# TLA+ models of the open-ivi.MX53 head unit

The repository is an Android 2.3 tree for a car head unit on a Freescale i.MX53.
Most of it is Android, Linux drivers, u-boot and applications. The code written for
this product that holds concurrent logic of its own is the set of hardware
abstraction libraries (HALs) under `src/hardware/mx5x` and the burning tools in
`src/bootable/recovery`. This project models the serial HALs (the CAN decoder box
`libcanbox`, the DVD/MPEG unit `libmpeg`, the iPod `libipod`), the semaphores of bionic
they wait on, and the recovery program with its two burning programs.

## Inventory

| component | state | operations | hard behaviour | what makes it correct |
|---|---|---|---|---|
| notification queue (`push_/pop_xxx_notificaiton` in the three HALs) | tail queue, `mutex`, `sem_count` | push (read thread), pop (any caller) | interleaving of one producer and many consumers; semaphore posted outside the mutex | FIFO, exactly once, no null node, no lost wake-up |
| canbox HAL | `tty_buffer`, `tty_buffer_pos`, `sem_command_count`, `command_mutex`, locals of `canbox_write` | read thread: read, search, verify, answer; callers: `canbox_send_command`, `canbox_get_notification` | frames cut anywhere; reader and sender wait for each other; time limit; resends | each event once and in order on a clean line; every call returns; buffer bound |
| mpeg HAL | `tty_buffer`, `tty_buffer_pos` | read, search, parse, report; `mpeg_send_command` | frames cut anywhere, stray bytes, resynchronisation | nothing made up, none lost on a clean line; buffer bound |
| ipod HAL | the same | the same, two lingos, large packets | the same, checksum left in the buffer, packets that are not understood | the same |
| bionic semaphores | count word | `sem_wait`, `sem_timedwait`, `sem_trywait`, `sem_post`, `sem_init`, `sem_destroy` | a word read, then exchanged, then a futex call; deadlines and signals | a counting semaphore that loses no unit and no wake-up |
| MCU burning (`mcu_burning.c`) | image, chunk, device | chunk transfer with checksums, restart | retry for ever, results nobody looks at, progress arithmetic | success only after the whole image was confirmed |
| MPEG burning (`mpeg_burning.c`) | loader, rom image, frame id, serial line | reset, SDRAM probe, words written and read back, frames with answers | late and short answers, ignored results, retries, a decoder that falls silent | loader verified, image complete |
| recovery (`recovery.c`, `install.c`, `bootloader.c`) | bootloader message (BCB), command file, mode, partitions | read the command, file system and package steps, burning, verdict, reboot | loss of power between any two steps, respawn by init, requests that follow each other | the same command is run again; nothing is half done unnoticed; the run ends unless a device keeps failing |
| FM radio HAL | `file_handle`, `rds_handle` | ioctls, RDS power-up | power-up that fails half-way | handle open iff the chip is on |
| car status, MCU, audio control, ATV HALs | a file handle | one ioctl each | none | - |
| GPS, overlay, camera HALs, system daemons | - | - | hardware and Android framework | - |

The HALs do not call each other. Each has a read thread of its own; the Java
services above call `xxx_get_notification` in one thread and `xxx_send_command` in
others. The read thread and the callers share the notification queue; in canbox they
share also `command_mutex` and `sem_command_count`, because the read thread answers
each event through the same `canbox_write` that sends commands. Both wait on bionic
semaphores. The recovery program is a system of its own: it meets the main system only
through what both keep, the BCB, the command file and a mode the MCU remembers.

## Modules

| module | models |
|---|---|
| `NotifyQueue` | what the queue promises: an atomic FIFO |
| `NotifyChannel` | push and pop, one action per step that another thread can see |
| `NotifyChannelProofs` | its invariants and that it implements `NotifyQueue`, proved |
| `Canbox` | `canbox.cpp`: read thread, parser, checksum, `canbox_write`; the box and a noisy line (external); uses `NotifyQueue` |
| `CanboxProofs` | type correctness, buffer bound, absence of stale bytes, and each event once and in order, proved |
| `SerialReader` | the read thread that `mpeg.cpp` and `ipod.cpp` share; uses `NotifyQueue` |
| `Mpeg`, `Ipod` | what is particular to each: how much of a frame is waited for and what is reported |
| `SerialReaderProofs` | the lemmas the next two share: where each byte of the line is, what every step of the read thread does to it |
| `MpegProofs`, `IpodProofs` | types, buffer bound, nothing made up, nothing missed, each frame once and in order, proved |
| `CountingSem` | what a POSIX semaphore promises: a call takes effect in one step |
| `BionicSem` | `semaphore.c`: loads, compare-and-exchanges, futex calls |
| `BionicSemProofs` | no lost wake-up, and that it implements `CountingSem`, proved |
| `McuBurn` | `mcu_burning.c`; the MCU (external) |
| `MpegBurn` | `mpeg_burning.c`; the decoder and its serial line (external) |
| `Recovery` | `main` of `recovery.c`, composed with `McuBurn` and `MpegBurn`; losses of power, init, the main system |
| `RecoveryProofs` | restart of the same command, the verdict, the order of erasing and installing, proved |
| `BurnProofs` | what success of the MCU transfer, of the frame transfer and of the read-back means, and type correctness of `Recovery`, proved |
| `MC...` | small instances for TLC |

`Canbox`, `Mpeg` and `Ipod` use the queue as the atomic `Push` and `Pop`; that this is
sound is what `NotifyChannel` shows; that a semaphore may be taken as a number there and
in `Canbox` is what `BionicSem` shows.

State and actions. Variables keep the names of the code (`tty_buffer_pos`,
`search_byte`, `sem_command_count`, `retry_times`, `retry`, `s`). `rpc`, `wpc` and `pc` say
where a thread is. `check_full_command` works on data only the read thread touches, so
one turn of its loop is one step, split in canbox where it posts the semaphore
(`FindAck`) and where it writes an answer (`TakeFrame`, the `canbox_write` steps,
`Consume`). `canbox_write` has a step for the lock, each turn of the draining loop, the
write, the outcomes of `sem_timedwait` (`WaitAcked`, `WaitInvalid` for a `tv_nsec` of a
second or more, `WaitBlocks`, `WaitFails` for ETIMEDOUT and EINTR) and the end.
`rx` holds the bytes on their way in: `read` may return any number of them up to its
limit, which is how a frame is cut at any byte. In `Canbox` the action `LineNoise` puts any
bytes on the line and `noise` records that it did. In `SerialReader` the history variable
`carried` records all bytes the line ever carried, and `sent` each frame with its place
there, so that a property can say of which bytes a notification was made.

`BionicSem` has one step per access to the word and per futex call; a failed exchange
goes back to the load. The kernel's comparison and sleep are one step.

In `Recovery` a step is a stretch of `main` after which a loss of power leaves something
new behind; `mpeg_update` and `mcu_update` run inside it with their own steps. Six
variables hold what survives (`bcb`, `command_file`, `mode`, `data`, `sys`, `rec`), `Start`
resets the rest. `Crash` is a loss of power; `Respawn` is init starting the service again
after `main` returned or was killed (it is not `oneshot`), with no reset of any device;
`MainSystem` is the next request. Files on the card are chosen when they are looked at, so
a card may change between runs. `GetArgs` has the three failures `get_args` does not notice: a
BCB that cannot be read ("this may fail, leaving a zeroed structure"), a command file that does
not open, a BCB that cannot be written; each may lose the command, and `taken` becomes `"lost"`.
The history variables (`taken`, `mcu_touched`, `mpeg_touched`, `restart_lost`) only record.
`mcu_touched` and `mpeg_touched` are about one run of the program: a respawn resets no device
but clears them, since nothing tells the new run what a killed one did. So `BurntMcuResets` and
`FailureTouchesNothing` speak of one run; a run killed in mid-transfer may be followed by one
that finds no image and reboots plainly, on a half-burnt MCU. That the MCU still holds what
the killed run sent is kept in `restart_lost`.

`MpegBurn` keeps the answers on the line that were not read yet: an answer that comes after
its wait ended is read as the answer to a later command. `read_buf` keeps its value when
a read comes short. The probes before the loader go over the same line: they leave any of
`ProbeValues` in `read_buf` and late answers on the line (`ProbeLines`). Any command or answer
may be lost, late or short, any frame refused, any number of times; bounded is only how many
answers wait on the line (`MaxLine`). `McuBurn` has the MCU append each chunk to what
it took since the last restart; a chunk may be taken although the call fails, be damaged
with or without a change of its sum, and the restart itself may be lost, all of it any number of
times; a restart is lost only while the MCU holds at most `MaxStale` chunks.

Abstracted in the HALs: the contents of commands that are sent; the fields `parse_command` copies
(a notification is the command itself, for the iPod with its report type); logging;
`usleep`; a failing `clock_gettime` or `select`; `read` returning 0 after `select` said
there is data. Frames longer than the local `command` array and the `data` array of
a canbox notification are not told apart from others. A failing `malloc` ends the
process in the code and is no step. `sem_wait` of bionic does not return on a signal,
so `PopWait` has no failing outcome.

Abstracted in the semaphores: the process-shared bit, null arguments.

Abstracted in recovery: the configuration registers written to the decoder and its flash
id, which nothing later depends on; answer letters that occur inside data bytes; whether the
configuration files were on the card is chosen at the verdict, the only place that asks; a
format that fails leaves `/data` as it was; an empty `rom.bin`, for which `romsize -= 4096`
underflows and frames are read from behind the buffer (`RomFrames` is at least 1);
BACKUP_MODE does what UPDATE_SYSTEM does; `--wipe_cache` does what `--wipe_data` does; the decoder answers `E` only when it has all frames; a power
loss ends the session of the MCU. The progress bar computes a remainder by zero for an
image with fewer chunks than the bar has parts: that is undefined, and the model has both
outcomes, going on and being killed.

## Runs

Bytes are two or three bits wide and buffer sizes are scaled with them, so that the
relation the code relies on (`MaxRead` plus a frame fits the buffer) stays tight: in the run
`mpeg` up to 17 bytes stand in a buffer of 16 and 2 of slack, in `ipod`, where a checksum stays
behind, all 18 do.

* `notify_channel` - three consumers, four pushes. Invariants `SemAccounting`,
  `NoNullPop`, `ExactlyOnce`; `NoLostWakeup` under weak fairness of threads that are
  inside push or pop; `Refinement` (`NotifyQueue!QSpec`). Three consumers suffice for
  two of them to race for one node while a third waits.
* `canbox` - 0.7 million states, two and a half minutes. Either a sender with two calls and
  a box with two events out of three (with a byte of data; with an ACK and a HEAD byte as
  data; with a HEAD byte as checksum), reads of up to three bytes, so frames are cut
  everywhere and two frames can meet in the buffer; or the read thread fed with every stream
  of two-bit bytes, also those no box would send, bounded by one accepted frame (`MaxFrames`)
  and two semaphore units (`MaxSem`). `EventsOnce` under `CleanLine`; `BufferBound`,
  `NoGhostBytes` and the liveness property `WriteReturns` without a condition.
* `mpeg`, `ipod` - three frames, one stray byte, every cutting; 134,000 and 692,000 states. The
  frames include one of the largest length whose data holds another frame of a reported
  command. `FramesOnce`: the notifications are frames that were sent, once and in order, if no
  stray byte came or the two HEAD bytes follow each other only at the front of a frame
  (`HeadsApart`). `NoneMissed`: without a stray byte none is lost. `NothingMadeUp`, of every step:
  a notification is a stretch of what the line carried, behind all earlier ones. The buffer
  bound (`BufferBound`, for the iPod `BoundedBuffer`: as long as no large packet came). In `ipod`
  nothing is sent behind a large packet (`SendsOn` is FALSE; it is TRUE in `ipod_large`): behind
  one no property claims anything.
* `bionic_sem` - four threads (one waits, one waits, waits with a deadline or tries, two
  post), `SEM_MAX_VALUE` 2, 38,000 states. `SleeperSeen`, `Refinement` (`CountingSem!Spec`)
  and, under fairness, `UnitsTaken`. Two posters race each other to the limit and to the
  word -1; two waiters are enough for one to announce a sleeper while the other takes the
  unit.
* `recovery` - about a minute and a half. One loss of power or new request, any number of faults
  of the decoder, the MCU and their lines, with one answer waiting (`MaxLine`) and one chunk
  left behind (`MaxStale`); loaders with a word the probes read, a repeated word and a zero, and
  one of an unaligned length; a rom of two frames; MCU images of no, one and two chunks, the
  last longer than `FILE_MAX_SIZE`; a package, an encrypted file system or no command, and all
  modes. `LoaderVerified`, `MpegFlashed`, `McuBurnt` say what success means,
  `SameCommand` and `DataErasedFirst` what a loss of power may not do,
  `FailureTouchesNothing` and `BurntMcuResets` what the verdict may not do, `RunEnds` that
  every run ends. One waiting answer is enough to be taken for the answer to a later word,
  one chunk for the next transfer to begin behind another. One interruption suffices because
  the state that survives it is the same after the second.
* Six runs show a disagreement between the code and its own comments:
  * `canbox_retry`: `canbox_write` tests `errno == ETIME`, `sem_timedwait` sets
    `ETIMEDOUT`; the retry loop and the error result are dead code.
  * `canbox_split`: the test for a complete frame ignores the checksum byte, so an
    intact frame cut right before it is refused; the box has to send it again.
  * `mpeg_resync`: `p_start` is not set back when the buffer is shifted, so a frame can
    be dropped after a stray HEAD byte.
  * `mpeg_slack`: the extra bytes behind `MAX_BUFFER_STRING` "should never be used", but a frame
    held back up to its last byte (257) and a full read (256) need one of them, without
    any stray byte. `BufferBound` and its theorem show that the slack is enough. `libipod` has
    the same comment and needs two.
  * `ipod_large`: a large packet is never consumed and fills the buffer.
  * `recovery_command`: nothing calls `finish_recovery` any more, so the BCB keeps the
    command of a finished run, which goes before the command of the next request.

`LoaderVerified` claims what the read-back really shows: words that are 0 (the value of a
timeout), equal a value the probes may have read before (`ProbeValues`), repeat an earlier word (the value of a late answer) or belong to a file of
unaligned length are excepted, since for those the comparison proves nothing. In the same
way `McuBurnt` allows other chunks before the image when a restart was lost or an earlier
run of the program did not end in a reset, and `MpegFlashed` speaks of what `transfer`
returns, which `mpeg_update` ignores.

`EventsOnce` is claimed on a clean line only (`CleanLine`: no noise, and no event was sent whose
checksum equals HEAD). A frame that is cut before its checksum is refused, and the checksum that
comes later begins another frame when it looks like a HEAD byte: together with the resend it may
pass the sum, and a frame nobody sent is queued. The instance has such an event, and without
`CleanLine` TLC finds that frame. In the same way `FramesOnce` of mpeg and ipod fails without its
condition in their instances: behind a stray HEAD byte `p_start` is stale, a frame is dropped up
to its data, and what its data holds is reported. Each is a consequence of `canbox_split` and
`mpeg_resync`, not another defect. `FramesOnce` of the iPod is about the bytes of a packet: a packet of
an unknown lingo is reported under a type nobody assigned, which the model leaves open.

Every property of a passing run has a mutant: a definition ending the way a plausible
slip in the code would have it (a forgotten post, a missing lock, an unzeroed buffer).

Deadlock is not checked where the system may stop: a read thread with nothing to read
waits for ever, and the recovery program may hang on a silent decoder.

### Fairness

`NotifyChannel`: a thread inside push or pop runs on; nobody is obliged to call. `Canbox`:
weak fairness for the read thread and for every step inside `canbox_write`, and strong
fairness for a sender's `pthread_mutex_lock`: the read thread returns to `select`
between bursts and then leaves the mutex free. Nothing is assumed of the box, of
callers, or of read errors. `BionicSem`: weak fairness for the steps of each thread that is
not asleep; no deadline, signal or call is assumed. `Recovery`: the program goes on as long
as it can take a step. `RunEnds` names where a run may stay: the decoder is silent, the recovery
partition is lost, or a device fails again and again for ever (`DeviceFails` infinitely often):
`mcu_update` repeats a transfer, `send_sloader` a word and `transfer` a frame without a limit.
What it shows is that nothing else keeps a run going: tries are counted, and once the device
answers again neither late answers nor lost restarts repeat by themselves.

## Proofs

`NotifyChannelProofs`: for any finite set of consumers and any set of notifications. The
inductive invariant is `TypeOK`, `MutexHeld`, `SemAccounting`, `NoNullPop`. `MutexHeld` (the
owner and only the owner is in the critical section) keeps the node a consumer found
first in the list; `SemAccounting` makes the list non-empty for each consumer that passed
`sem_wait`, with a lemma on how `Claimants` grows and shrinks. `ExactlyOnce` and the
refinement follow step by step: insertion is `Push`, removal is `Pop`, everything else
stutters.

`CanboxProofs`: for any byte width, sizes with `MaxRead + ByteMod + 1 <= MaxBuffer` (in the
code 64 + 256 + 1 <= 512), any senders, events and noise. `BufferBound` alone is not inductive:
the invariant adds `ScanBound` (a search never covers more than a held frame and a read),
`RetryBound`, `FrameThere` (while the answer is written the frame is still in the buffer)
and `NoGhostBytes`, without which the head found after a cut could lie behind the valid
bytes and the remainder could be negative.

`EventsOnce` has an invariant of its own, `EInv`, on top of the first. The bytes buffered and
on the line, behind the frame that is being answered, hold at most one frame among bytes
that are no HEAD (`NothingUnderWay`, `UnderWay`), and box, answers and queue together are in
one of five states (`Conversation`: quiet, reported, accepted, rejected, refused). Each step
of the read thread either drops bytes that hold nothing (`Shifted`) or takes the frame under
way (`FrameTaken`); a frame taken without its checksum is the right one or is refused
(`CheckedCommand`). The conversation is kept as long as the line is clean (`ConversationKept`: `CleanLine`
implies `EInv`; a line once unclean stays so, `CleanBefore`), and the theorem `EventsAreOnce`
is `EventsOnce` as the run checks it.

`SerialReaderProofs`, `MpegProofs`, `IpodProofs`: for any byte width, any sizes with
`MaxRead + ByteMod + 2 <= MaxBuffer + Slack` (in the code 256 + 256 + 2 <= 512 + 16), any frames
that begin with the two HEAD bytes and have the length they say (`FrameAssumption`), and any
number of stray bytes; for the iPod the commands are numbers (`TypesAssumption`). The
invariant `RInv` is `TypeOK`, `BufferBound`, a bound on the search (`SearchBound`: `p_start` and
`search_byte`, which are not set back, never reach behind the buffer), `RetryBound`, and that
what is buffered and what is on the line are the last bytes of `carried` (`InLine`,
`SentInLine`). `Consumed`, the number of bytes that left the buffer, then says of each step
which bytes a notification was made of: `NothingMadeUp`. `NoneMissed` adds `Synced`: without
stray bytes the buffer always begins with a frame (for the iPod, at most a checksum before
it), so the HEAD that is found is the front of that frame. `FramesAreOnce` is `FramesOnce` as the
runs check it, in two cases. Without stray bytes it follows from `Synced`. With them it needs
`HeadsApart`: the HEAD bytes then follow each other on the line only where a frame begins,
and what is cut out is a frame (`Traced`), each behind the one before (`SentOrder`). For the iPod all
but `NoneMissed`, which has it already, is under `NoLarge`: no large packet came, since one is never
consumed; the invariant `JInv` keeps the part that does not need it apart.

`BionicSemProofs`: for any set of threads, any calls they may make and any limit. The
invariant is `TypeOK`, three parts that say what `old`, `op` and `ret` may be at each step,
and `SleeperSeen`. The parts about `old` and `op` are what makes an exchange map to a `Take`
or a `Post` of the abstract semaphore, and everything else to a stutter.

`RecoveryProofs`: for any commands, modes, images and bounds. `SameCommand` rests on an
invariant that ties the BCB to the first command taken as long as `get_args` could read the BCB
and the command file and write the BCB (`taken # "lost"`);
`FailureTouchesNothing` and `BurntMcuResets` on one that ties what each burning program
touched to what it returned; `DataErasedFirst` on `/data` being erased wherever the
program stands between the format and the end of the installation.

`BurnProofs`: for images of any size and any number of faults. While frames are sent the
decoder holds exactly the frames below `frameid`, and `frameid + romsize` is constant
(`FramesInOrder`); while chunks are sent the MCU ends on the chunks below `i`, none with a
differing sum, and on nothing else unless a restart was lost (`ChunksInOrder`). A lemma on
the head of the loop gives the number of chunks when it ends.

The read-back, for any loader, any values read before it and any number of lost, late or short
answers. The invariant
says that the memory holds at each place the loader's word or what was there before
(`Written`), that `read_buf` and every `R` answer on the line stand for a word up to the
present one that is in memory or for a value of a probe (`Stands`, `LineStands`), and that the words before the
present one are in memory but for the excepted ones (`Verified`); `ReadBackShows` concludes
that a value that compares equal to a word neither 0 nor probed nor repeated stands for that word.

Type correctness of `Recovery` is proved in `BurnProofs`, because it needs the same invariants:
that a chunk, a word or a frame is taken from inside its image (`ChunkFits`, `PaddedFits`)
follows from `ChunksInOrder`, `FramesInOrder` and `LoaderInv`; `TInv` is their conjunction with
the types of the three parts.

Only model-checked: all liveness (`NoLostWakeup`, `WriteReturns`, `UnitsTaken`, `RunEnds`),
since fairness is beyond the prover.
`TypeOK` of the iPod once a large packet has overrun the buffer. That `LoaderWords`, the
checksums and the types of reported commands compute what they should for every input
would need induction over data.

## Not modelled

Opening a HAL twice and closing it. The sending side of mpeg and ipod: each call prepares
a buffer on its stack and writes it once, and no state of the HAL changes. What an updater
does inside a package, the copies of configuration files, and the menus of recovery, which
nothing calls. `finish_recovery`, for the same reason. Of the FM radio the RDS power-up is
left for later; its other operations, and the car status, MCU, audio control and ATV HALs,
are single ioctls without state. The GPS HAL is an NMEA reader after the Android sample, left for later;
overlay and camera depend on the hardware; the Android daemons, u-boot, the kernel
drivers and the applications are upstream code, and by far the largest part of the tree:
the modelled code is a small share of its lines.

## Plan

Done: the queue, the three serial HALs, the semaphores, both burning programs and the
recovery program, each with its proofs: every invariant a run checks is stated by a theorem.
Left:

1. Theorems: mutual exclusion in `canbox_write`; what of `EventsOnce` is left once an event with a
   checksum that looks like a HEAD byte was sent.
2. FM radio: RDS power-up with failure half-way.
3. GPS: the NMEA reader and its worker thread, start and stop through the control socket.
4. Opening and closing the HALs while callers wait.
