# A verification of the MCLURS snapshot program

`snapshot` (src/mclurs-1.0/adc) captures samples from a USB ADC into a ring
buffer without a break and, on request, writes ranges of samples (past, present
or future, once or repeatedly) to files.  It does so with four threads, a few
message pipes and almost no locks, on top of the author's own port of a Linux
driver.  These modules model how it works, check it with TLC on small
instances, and prove with TLAPS what holds for every instance.

Paths below are relative to src/mclurs-1.0/adc unless they begin with src/.

## 1. The system

```
                REQ/REP (strbuf pointers)              REQ/REP
  client <--> MAIN -------------------------> READER    MAIN <-> WRITER
                                               |  ^
                       chunks that are done    |  |  chunks to fill
                    WRITER <-------------------+  +------------------ WRITER
                                               |
                            samples            +---- frames ----> TIDY
   device --> URBs --> driver --> Comedi --> READER's ring
```

| Component | Source | State | Operations |
|---|---|---|---|
| MAIN | snapshot.c, util.c | sockets, reply buffer, `die_die_die_now` | start up in stages; create and join the threads; relay a command to READER or WRITER and its reply to the client; Quit; SIGINT |
| READER | reader.c, adc.c | `rp_state`, the ADC object, `ReaderChunkQ`, ring `a_head`, `a_tail`, `high_water_mark`, tail policy | Param, Init, Go, Halt, Quit; collect data, complete the head chunk, purge, stop when the data run dry, accept or refuse a chunk |
| WRITER | writer.c, chunk.c | snapshots `snap_t`, files `snapfile_t`, `WriterChunkQ`, `wp_nfiles`, `wp_totxfrsamples`, frames, the working directory | Snap, Dir, Ztatus, Quit; divide a file into chunks, find frames, hand chunks over, take them back, complete or abort files |
| TIDY | tidy.c, chunk.c | none of its own | unmap a frame and mark it free; stop on a zero-length message |
| Pools | chunk.c, strbuf.c, queue.c | free chunks, free strbufs | allocate n, release a chain |
| Parameters | param.c, argtab-*.c, the tables of snapshot.c, reader.c and writer.c | for each: its text, who frees it, who set it, the variable | set from the environment, the command line or a command; assign; give back the options |
| Command and conversion | adc.c, lut.c | the ADC object, the Comedi command, the tables | turn a frequency into a period and a command, have it tested, convert raw samples |
| Kernel driver | kernel/ (two ports, Linux 3.18 and 4.6) | URBs and buffers, `urb_active`, `ignore`, `ai_cmd_running`, the program of the USB chip | attach, detach, test a command, start, cancel, the interrupt handler |
| Mapping, priorities | mman.c, rtprio.c | none | wrapped system calls |
| Utilities and clients | fifo.c, grab.c, trig.c, snapchat.c, src/libmclurs-snap-perl-1.0 | their own | outside the daemon |
| src/mclurs-1.0/command | | | a Perl daemon that relays operator commands |

What makes it hard.  A chunk descriptor is shared by two threads that know
whose it is only from a status word and the messages they exchange; the two
threads' queues use the same link in it.  A file may fail in one thread while
the other still accepts chunks of it.  Frames are freed by a third thread while
the first scans for free ones.  Samples are thrown away while chunks wait for
others.  Halt and restart find chunks in pipes.  The budget of locked memory is
debited per file and credited per chunk at four places.  The WRITER converts
times to samples with two words the READER is moving.  Four threads leave one
after another while the others still send to them.  A parameter keeps a pointer
into a buffer that goes back to a pool.  One period passes through five
roundings in three programs.  URBs complete while others are being killed.

What makes each component correct:

* *Chunks and frames*: a chunk is in one place, a frame has one user, none is
  lost; each is back in finite time.
* *Files*: counted as done only when wholly written; the counters agree with
  where the chunks are; a snapshot keeps its promise.
* *Ring*: what has been accepted is not purged before it is copied; the last
  window is always there; the ring does not overflow while the READER keeps up.
* *Commands*: the state machine of reader.c:69-110 and the ADC agree; a reply
  goes to who asked; every request is answered; Quit ends the program.
* *Requests*: the range written contains the range asked for and is written
  without a gap; each snapshot is reported finished once, and truly.
* *Pools*: a buffer has one holder; an allocation succeeds or says that it failed.
* *Parameters*: a variable has the value it was told last, whoever told it.
* *Command and conversion*: hardware and daemon agree on period and range; what
  is accepted stays accepted; the files do not show where chunks were cut.
* *Driver*: no buffer is filled while it is read, no stale packet is passed on,
  the stream never starves, what is allocated is freed.

The hazards these give rise to are listed, each at its line, in PROJECT.json.

## 2. The modules

| Module | Models | Run through | Proved in |
|---|---|---|---|
| `SnapshotPromise` | what an accepted Snap command promises, with no threads, messages or memory | as a property of `ChunkFlow` | - |
| `ChunkFlow` | the path of a chunk through WRITER, READER and TIDY | `MCChunkFlow` | `ChunkFlowProofs` |
| `ReaderRing` | the READER's commands, ADC and ring policy, with no chunk queued | `MCReaderRing` | `ReaderRingProofs` |
| `Threads` | start, relay of commands, Quit, SIGINT and joins | `MCThreads` | `ThreadsProofs` |
| `Snapshots` | what the WRITER makes of Snap, Dir and Ztatus | `MCSnapshots` | `SnapshotsProofs` |
| `Buffers` | the pools of strbufs and chunks, and the life of a command's and a snapshot's buffers | `MCBuffers` | `BuffersProofs` |
| `Params` | the parameters from start-up to the last command | `MCParams` | `ParamsProofs` |
| `AdcCommand` | from parameters to the program of the chip and the converted samples | `MCAdcCommand` | `AdcCommandProofs` |
| `DuxDriver` | URBs, the interrupt handler, cancel, attach and detach | `MCDuxDriver` | `DuxDriverProofs` |

The modules look at the same threads from several sides.  They overlap on
purpose where one needs a simplified view of what another has in full:
`Threads` counts the chunks that `ChunkFlow` tells apart; `Snapshots` lets a
file end well or badly as `ChunkFlow` would; `ChunkFlow` has one fixed tail
policy and `ReaderRing` derives it from parameters; `Buffers` keeps of a file
only how many chunks it has and how many the READER has; `ReaderRing` lets Param,
Init and Go succeed or fail, and `Params` and `AdcCommand` say when they do;
`DuxDriver` moves packets whose samples `AdcCommand` follows.

### SnapshotPromise

The abstract specification.  A snapshot is not yet there, active, complete or
failed (`phase`); its files are written one after the other, part by part
(`copied`); `FileDone` counts one when every part is on disk; `Fail` may come at
any time and is for good.  `ChunkFlow` implements it (`KeepsPromise`): `phase`
is read off `s_status` (`Phase`), `count` and `done` are the snapshot's own, and
a part is copied when its chunk is WRITTEN while its file is in progress
(`Copied`).  What this says of the code is that no chunk of an earlier file, of
an aborted one, or late from the READER is ever counted for a file, and that
COMPLETE and ERROR are final.

### ChunkFlow

Variables have the names of the code: `snap`, `file` (a `snap_t` and its
`snapfile_t` in progress), `c_status`, `c_owner`, `c_first`, `c_frame` (fields
of `chunk_t`), `WriterChunkQ`, `ReaderChunkQ`, `wp_nfiles`, `wp_totxfr`,
`frameQ` and `busy` (the frame system), `a_head`, `a_tail`, `high_water_mark`.
`toReader`, `toWriter`, `toTidy` are the pipes, `wpc` and `rpc` the places of
the two loops, `held` and `aborting` what abort_reader_chunk has in hand.

| Action | Code |
|---|---|
| `SnapCommand` | process_writer_command 'S', setup_snapshot, setup_snapfile |
| `WriterPoll`, `WriterReceive` | writer_thread_msg_loop, process_reader_message with completed_snapfile, abort_snapfile and refresh_snapshot |
| `WriterEndsAgain` | the second completed_snapfile for a file that a failed mapping freed, from process_reader_message |
| `FreedIsReused` | alloc_chunk, or any allocation, handing out what was freed while the READER has it |
| `WriterService`, `WriterMapFails`, `WriterServed` | writer_service_queue with alloc_frame and map_chunk_to_frame |
| `TidyRelease` | tidy_main, release_frame |
| `ReaderCollect`, `ReaderComplete`, `ReaderPurge`, `ReaderStop` | adc_data_collect, complete_queue_head_chunk, the purge, the dry period |
| `ReaderReceive`, `ReaderAbortSibling`, `ReaderAborted` | process_queue_message, abort_reader_chunk |
| `ReaderDrain`, `ReaderParam`, `ReaderInit`, `ReaderGo`, `ReaderPoll` | drain_reader_chunk_queue and the commands |

A WRITER handler is one step, because nothing that another thread reads changes
half-way through it.  The READER's loops over its queue take one step per
chunk, because they send messages and look at file states that the WRITER may
change between two of them.  The queues are sets here, whose heads are the
members with the least key: the code keeps them sorted by `c_first` and
`c_last`.

A mapping that fails frees the file at once (`WriterMapFails`, writer.c:1267-1272),
and release_chunk the descriptors of all its chunks, also of those the READER
has.  The model goes on as the code does: `f_pending` is not reset and the late
chunks go on lowering it.  Two things can come of it that end the model.  The
last of the late chunks, if it comes back in ERROR, completes the file a second
time and follows a NULL (`WriterEndsAgain`, `wpc` = "crashed"); or what was freed
is handed out again before the READER is through with it (`FreedIsReused`, `wpc` =
"undefined"), after which nothing can be said of it.  Until one of them happens
the freed memory is taken to be unchanged, as nobody else writes to it: free
itself writes to its first two words, where neither f_status nor f_pending lies.

### ReaderRing

The state machine of the READER (`rp_state`), its ADC object (`adc`: none, new,
ready, running), the parameters in force and the tail policy computed from them
by verify_reader_params, with its arithmetic: rounding to pages, percents,
headroom of two chunks.  `produced` is what the device has delivered, `a_head`
what the READER knows of, `a_tail` what it has given back; `left` is the time
until next_data_before.  `rpc` = "aborted" is the assertion at reader.c:586.
Comedi is external: it delivers samples, or falls silent.

### Threads

Where each thread is in its life and loop, the REQ/REP exchanges between
clients, MAIN and the two command threads (`asked`, `queue`, `current`, `req`,
`cmd`, `rep`), the counts of chunks in each queue and pipe, and the flags
`r_running`, `w_running`, `running`, `die_die_die_now`.  A send on a REQ socket
that still waits for a reply fails and send_object_ptr asserts (`main` =
"aborted"); a send on a socket whose peer has closed waits for ever.

### Snapshots

A request is a record of the parameters given and two numbers.  `Acceptable` is
check_snapshot_params and the checks of build_snapshot_descriptor; `Built` is
setup_snapshot_samples with the widths of the code: `Word`, `Half` and
`NameMod` stand for 2^64, 2^31 and 2^16.  `ChunksOf` is the loop of
setup_snapfile that cuts a file into chunks.  `Refreshed` is refresh_snapshot,
`FileDone` and `FileFails` the two ends of a file, `Ztatus` and `Dir` the
commands.  `Readings` says what the WRITER may read of the head and its time
while the READER moves both.

### Buffers

`sbufQ` is the queue of free strbufs, `N_in_Q` what the code believes its length
to be, `chain` the ring of the command under way, `snapQ` the snapshots not yet
reported, each with the strbuf it keeps.  `MainForward`, `MainAnswer` and
`MainReply` are the two handlers of MAIN; `Answer`, `WriterSnap` and
`WriterZtatus` what the threads do to the ring; the rest is what writes to a
snapshot's strbuf or takes and gives back chunks.  `text` says whose text is in
a buffer.  `crashed` is the use of NULL for a buffer or a chunk, or ("file") a
file that is completed a second time when the last of its chunks comes late
(`ReaderReturnsLost`).  A chunk whose file was freed under it (see §3) may write
anywhere; its text, 0, is excepted in `TextIsOwn`.  What Ztatus takes out of a queue is written as positions picked in
their order (`Picked`), because nothing can be proved of a SelectSeq.

### Params

`str`, `dyn`, `setby` and `val` are the fields `p_str`, `p_dyn`, `p_setby` and
`*p_val` of the daemon's table, in its order; `heap` the blocks allocated for
the command line, `pool` and `kept` the string buffers.  `SetFromEnv`, `AssignAll`, `ParseArgs`, `ResultsBack`,
`FindIds`, `SetPriorities`, `VerifyWriter` and `VerifyReader` are the stages of
main before the threads; `Param` is the READER's command, `Request` one of the
WRITER's, whose tables are its own and reset at every exit (writer.c:354, 360,
730, 738, 886, 892): of it only the buffers it writes to, keeps and gives back
are here.  `Other` is any other command, answered by a thread or by MAIN, whose
buffers come back in the other order.  A name is looked for by any beginning of
it (`Begins`).  A text is a number and whether anything follows it, for sscanf takes
the one without the other and argtable does not.  `Stored` is sscanf's %li into
an int: on amd64 (`Wide`) the upper half lands in the variable declared after
it.  Ghosts: `given`, the number last given; `moved`, the parameters whose text
has been overwritten since, or is not the number that was given.

### AdcCommand

`Param`, `AdcInit` and `Go` are the parts of the READER's commands that deal with
the frequency, the range and the command; `CmdTest` is usbduxfast_ai_cmdtest of
either port, `Program` the program that usbduxfast_ai_cmd writes into `duxbuf`
for one, two, three or sixteen channels, each state of it with who wrote it,
`OtherCommand` and `InsnRead` the use of the device by other programs between
captures; the 3.18 port's reading of a single sample, once data come, writes
over the driver's own pointers (`InsnReadOver`), and the driver is not followed
after it.  `LoopTicks` says what the chip makes of a program.  `Converted` is
convert_raw_* with the tables of populate_conversion_luts: values are whole steps,
products are cut to 16 bits.  `Deliver` and `CopyChunk` follow the samples of a
capture cut anywhere into chunks.

### DuxDriver

`flight` is the queue of URBs in the USB core, `by` who submitted each;
`urb_active`, `ignore`, `ai_cmd_running` are the driver's; `call` is the place of
the system call, `h` the place of the interrupt handler, each advancing by one
access to shared state, so that a completion can fall between any two steps of
a system call.  Steps named 46 and 318 differ between the ports.  The USB core
and Comedi are external and described at the head of the module.

## 3. What the runs check

| Run | Distinct states | Shows |
|---|---|---|
| `chunkflow` | 434 000 | with mappings that fail and a Halt and restart with chunks in every pipe, up to the fault that a failed mapping may lead to: a chunk is in one place, a frame has one user, pending counts and the budget agree with where the chunks are, accepted chunks keep their data, `SnapshotPromise` is kept, and only a failed mapping frees a file before its last chunk is back |
| `chunkflow_live` | 49 000 | where no mapping fails: every chunk comes back, every chunk that waits for a frame gets one or is aborted, every snapshot ends but for the one way to hang described below, the counts of files agree, and no file is completed twice or freed while the READER has chunks of it |
| `readerring` | 151 000 | the ring is bounded, the window kept, state and ADC agree, a silent device is stopped |
| `threads` | 130 000 | replies in turn, the assertion only after a Quit, every command answered, every ending is an exit, an assertion or one of the listed waits |
| `buffers` | 2 688 000 | a strbuf has one holder and that holder's text, no pool runs out while one batch would do |
| `snapshots` | 817 000 | files are tiled by their chunks, ranges covered, reports true and given once, names differ |
| `adccommand` | 354 000 | the chip samples with the daemon's period and by the daemon's program alone; what Param accepts Init and the driver accept; no seam and no wrap in the converted samples |
| `driver` | 1 134 000 | no buffer is copied while it is filled, no stale packet is passed on, a running command keeps URBs in flight, nothing stays allocated |
| `params` | 16 000 | start-up gives each variable what it was told last, and so do Params whose text is not lost |

Each property has a mutant in PROJECT.json, a change to one mapped definition
that a plausible slip in that code would make and that violates the property.

The other three runs find what the code does against its own documentation.

| Run | The code says | What happens |
|---|---|---|
| `readerring_overrun` | the tail is advanced to avoid overrun (adc.c:526-527) | the mark of the last capture is in force in the next, which overruns |
| `adccommand_range` | control output 3 is 0 iff the range is one (adc.c:85-86) | the 4.6 port never lowers it: with range=500 the chip samples the wide range and the daemon converts by the narrow table |
| `params_stale` | parameters can be set individually (snapshot.8a:66-67) | every Param assigns all parameters again, those set earlier from string buffers that other commands have written over since |

Exceptions the properties of the passing runs make, each where the code gives
no more:

* `RingBound` speaks of a capture that starts with a mark no higher than its
  own policy's, or has made a purge (see `readerring_overrun`).
* `SnapshotEnds` allows `Hung`: a chunk that comes back WRITTEN after its
  sibling's ERROR lowers `f_pending` to 0 and nobody completes the file
  (writer.c:1331), although "the file is tidied when the last pending chunk is
  returned" (writer.c:1311-1313).
* `RangeIsCovered` speaks of ranges whose bytes fit an int, and of times once
  data have arrived and not before the first sample: adc_time_to_sample
  subtracts without a sign.  When the head and the head time the WRITER read do
  not belong together the ends are up to one delivery off; of a range no longer
  than two deliveries nothing is left to say: its end may come out before its
  beginning, or the file empty; alloc_chunk(0) gives an empty file one chunk,
  whose mapping, of no bytes, fails and ends it.
* `OnePlace` and `FrameOwnership` speak of a program that has not begun to use
  what it freed (`FreedIsReused`); every property of `chunkflow` ends at that
  fault and at `WriterEndsAgain`.  `FreedByTheLast` says what leads to them, and
  `TidiedOnce` that without it they do not occur.
* `AssertOnlyAfterQuit`, `BlockedOnlyBySignal` and `EndsOrSticks` name the waits
  and assertions that do occur once a Quit or a SIGINT is under way.
* `PoolsLast` speaks of the first batch: the count of free buffers is never
  lowered (strbuf.c:47, chunk.c:154), so that later the pool is thought to have
  enough when it has not.
* `AcceptedStaysAccepted` leaves out 383 ns, which the rounding of adc.c:173
  makes 300 ns and Init refuses: the test for the last step of a hundred begins
  at 84.
* `OutputFits` leaves out the wide range with a coefficient above a third, and
  the narrow one with the coefficient -1, which sscorr= accepts: a low overflow
  after a sample as low comes to -32769 or -32770 and wraps round to the top of
  the scale.  The attempt to prove the property for all coefficients found it.
* `SetAsGiven` leaves out parameters whose text has moved (see `params_stale`),
  or shows less than the number has: %g keeps six digits of what the command
  line gave, and the next Param reads them back.
* `FreshData` leaves out an internal trigger that is given again after it
  failed, which starts with what is left of `ignore`; the daemon never uses one.
  It holds as long as MAX_NUM_URBS is no more than twice PACKETS_TO_IGNORE (§4).
* The properties of `driver` are those of one processor (§3, Bounds).

### Disagreements without a run

These were met while modelling and are in the models, or follow from reading:

* When a mapping fails the file is freed, and its chunks go back to the pool,
  while some of them are with the READER (writer.c:1272 and 1132, against
  "released in an orderly fashion", 1252-1255).  The READER reads the file's
  status afterwards.  f_pending is not reset: the last of the late chunks, if it
  comes back in ERROR, finds it at 0 (writer.c:1342) and completes the file
  again, which closes the descriptor, lowers s_pending and wp_nfiles a second
  time and calls release_chunk with the NULL that the first left.  If a file
  that is set up in between takes the descriptors, they are in its queue and in
  the READER's at once.  `ChunkFlow` and `Buffers` have both as faults that end
  the program.
* A chunk still in the pipe when Halt comes is filled with data of the next
  capture if its Go is quicker (reader.c:307, against 484-485, where Halt is to
  abort snapshots in progress).  `ChunkFlow` has it.
* After a Param that fails to verify in RESTING, the state stays RESTING although
  there is no initialised ADC (reader.c:85-88, 248).
* After Quit, "snapshot exits normally" (snapshot.8a:339) does not hold if a
  second command comes while the threads leave: an assertion of send_object_ptr
  fails.
* A request with length= is always rejected: the test that the end is after the
  beginning runs before length= has given an end (writer.c:701), although the
  manual has it as an alternative to end= (snapshot.8a:125-128).
* set_writer_new_wd opens a new directory without closing the old one
  (writer.c:329-337, against "clearing an old if necessary", 308-311).
* `p_dyn` of an option of the command line stays set: of two Params that set
  `freq` afterwards the second frees a pointer into a string buffer
  (param.c:76-83).  `Params` has it (`stage` = "crash").
* The daemon's table has range before bufsz before window, and only so are the
  words that %li spills put right at start-up: the answer to the puzzle of
  reader.h:22-23.  A Param that sets range alone later is put right because it
  assigns them all.
* A Param that does not parse has already set the pointers of the parameters
  before the fault; the next good Param takes them up.  A parameter's name may
  be any prefix (`buf`), the first in the table is meant.
* A group given only in the environment is never looked up: the count of the
  option is tested (snapshot.c:781-794).
* The READER may find its ADC dry and destroy it (reader.c:598) between the
  WRITER's check and its conversion of times (writer.c:713).
* With more than one processor cancel may skip a URB that the handler is just
  submitting: `urb_active` is raised after the submission
  (kernel/usbduxfast_4.6.5_john.c:259-263, 332-344), so a transfer may be in
  flight when cancel returns, and when detach frees it.  An error or an
  overflow stops a command with its other URBs in flight and tells Comedi
  nothing that would cancel them.
* The 3.18 port tells Comedi nothing of an overflow, and its insn_read passes
  the array of buffers where a buffer is meant: the data overwrite `inbuf`,
  `urb_active` and the pointer to `duxbuf`
  (kernel/usbduxfast_3.18.35_john.c:1045-1058).  `AdcCommand` follows that driver
  no further (`InsnReadOver`).

### Bounds

* `chunkflow`: two snapshots, two frames, files of two chunks of lengths 2 and
  1, a window of 2 and a high-water mark of 3, none or one file asked for.  Two
  of each is what the interactions need: a chunk of the same file and one of
  another, a frame in use and one with TIDY.  Unequal chunks let the order by
  first and by last sample differ from the order of sending.  `MaxHead` lets
  purges pass the start of a snapshot; `MaxCapture` 2 gives one restart.
* `chunkflow_live`: one frame, so that chunks must wait for it, and two
  snapshots of two files each.  No symmetry.
* `readerring`: two ring sizes, marks and windows set or computed, valid and
  not; two captures, long enough for several purges.
* `threads`: two clients, two requests, two chunks, two frames: one command may
  be under way while another waits, and one chunk in either pipe.
* `snapshots`: two of ten requests, of one to five pages and one to three
  chunks, that fit the int or wrap it; a page is 12 bytes, KiB 3, and the
  counter of names wraps at 3.  Times are 2 to a sample; one range is longer
  than two deliveries and one is shorter.  At most one delivery falls into a
  request.
* `buffers`: batches of four strbufs and three chunks, files of one or two
  chunks, five commands, so that both pools run empty, buffers are used again,
  and one reply reports several snapshots; a buffer holds a unit of text and a
  reply five, as 8 strbufs of 488 bytes are less than 8192.  `MaxCounted` bounds
  N_in_chunkQ, which no code ever lowers.
* `adccommand`: both ends of the range of frequencies, both sides of every step
  of the rounding, both ranges, coefficients on both sides of the overflow; two
  commands, each the daemon's or another program's; three samples, the
  least and an overflow on either side, cut anywhere (in one period: the data do
  not look at it).  The 1752 periods themselves are not all taken; the proofs
  cover them.
* `driver`: up to four URBs, asked for as 0, 1, 3 and too many, with and without
  pairs; two packets ignored; three commands, so that what two earlier ones left
  behind meets a third.  `SMP` FALSE: while a handler runs no system call goes
  on, but a handler may run between any two steps of one.  The race of cancel
  above needs a handler beside it and is therefore not in the run: it is cut
  away, and no property speaks of it; with `SMP` TRUE it appears, and each of
  the properties fails.  `Quick`: no URB completes
  before the loop that submits them all has ended, as a packet takes
  milliseconds and the loop microseconds; without it a handler could fail a
  command that is still being started.
* `params`: three string buffers, one of which snapshots may keep; eight
  parameter lists with good, bad, partial and unknown settings; three commands,
  for a text must be set, written over and read again.  `params_stale` has four
  buffers: it is not the scarcity that matters.
* CHECK_DEADLOCK is FALSE in `threads`, `readerring` and `chunkflow`, where the
  program ends or crashes, and in `snapshots`, `buffers` and `params`, where the bounds on commands
  end every behaviour.

### Fairness

The scheduler is fair to each thread and every poll has a timeout, so each
thread that can go on does: weak fairness of the whole of WRITER, READER, TIDY
and MAIN, never of one action of them.  In `ChunkFlow` fairness of the READER
also says that data arrive or the dry period ends, which `ReaderRing` shows
(`DrySpellEnds`) from fairness of the READER and of time.  Clients, the device
and signals owe nothing.

## 4. What is proved

`ChunkFlowProofs`, for any numbers of snapshots, frames and chunks, any cuts,
any starts and counts and any number of restarts.  Mappings may fail; what is
said of a program in which one did is said up to the fault that may follow:

* `Invariance`: `Spec => []IInv`.  `IInv` is the conjunction of `TypeOK`,
  `OnePlace`, `FrameOwnership`, `QueuedChunkKeepsData` and what these lack to be
  inductive: a snapshot not yet accepted has no chunk anywhere (`FreshSnap`),
  or SnapCommand might re-use one in a pipe; a chunk in `WriterChunkQ` belongs
  to a live file that has not failed (`QueuedFile`), or it might be sent after
  its file was freed; `f_written` counts the chunks that are back WRITTEN
  (`WrittenCount`), or the completion of a file would not tell that all its
  chunks are; and `held` is empty outside an abort (`InHand`).
* `TypeCorrect`, `ChunkIsInOnePlace`, `FramesHaveOneOwner`,
  `PurgeSparesQueuedChunks` follow; the last uses `WindowAssumption`, the check
  of verify_reader_params that a window holds a chunk.
* `DoneFilesAreWritten`, an action property, from `IInv` and the step that
  completes a file.
* `BudgetIsConserved`: what is missing from the budget is the samples of the
  chunks that the WRITER has queued or the READER side has (`Committed`).  Beside
  `IInv` it takes `BInv`, what abort_snapfile silently relies on when it credits
  every chunk it finds in the WRITER's hands neither WRITTEN nor failed: such a
  chunk is never WAITING (`WaitingIsSent`), and the chunks of a snapshot are all
  set up or none is (`SetUpWhole`), so what it finds is in the queue and has been
  debited.  The sums are over sets: `Totals` shows that there is one additive
  count of the samples of sets of chunks and that `TotalSamples` is it; `TotalUnion`
  and `TotalFile` (the cuts of a file telescope) are what the steps use, and
  `BudgetMoves` is the one account that all of them are instances of.

The argument has one lemma per kind of step.  `ReturnMoves` (a chunk goes
back), `NewChunksMoves` (a file is divided), `EndFileMoves` and `FailMoves` (a
file ends) are
each shown once to preserve the location part of `IInv`, and the actions built
from them cite them.

In the second part of the module, as general and on top of `IInv`:

* `FilesTellSnapshots`: `Spec => []FileTellsSnap`.  A snapshot has a file in
  progress exactly while it is in PREPARE or WRITING, and if it has none while
  chunks of it are still with the READER, one of its chunks has already failed.
  Without the last part a late chunk that was written might complete a file that
  was freed when a mapping failed; that a late chunk which failed does so is the
  fault of the code (`WriterEndsAgain`), and nothing is claimed after it.
* `PendingCounted` and `FilesAccounted`: `f_pending` is the number of chunks the
  READER's side has, also when the file was freed under them, which is why the
  last of them may complete it again; `s_pending`, the status and `wp_nfiles`
  agree with the files in progress.  They rest on lemmas about the cardinality of the sets of chunks
  and files before and after each kind of step.
* `PromiseKept`: `Spec => KeepsPromise`, that `ChunkFlow` implements
  `SnapshotPromise`.  The initial states map to initial states; a step of `ChunkFlow`
  maps to `Accept` (SnapCommand), `Copy` (the READER's copy), `FileDone` or
  `Fail` (a chunk that comes back, a mapping that fails), or to a stutter; one
  lemma per action says which.
* `LastChunkFrees`: `Spec => FreedByTheLast`.  A file that is gone while the READER
  has chunks of it went by a mapping that failed: in every other way it waits for
  `f_pending`, which `PendingCounted` counts.
* `EveryFileTidiedOnce`: if no mapping fails (`~MapMayFail`), no file is completed
  twice, the READER never has a chunk of a file that is gone, and nothing that was
  freed is used.  It is `LastChunkFrees` put to use: the faults need a chunk with
  the READER of a file that is gone.

`ReaderRingProofs`, for any page, chunk, ring and window sizes:

* `Invariance`, `TypeCorrect`, `RingIsBounded`, `WindowIsKept`, `StateTellsAdc`.
  `IInv` adds that the policy fits the buffer mapped (`PolicyFits`) and that
  after a purge mark and tail differ by the policy's mark (`RingInv`).  It rests
  on `PaceAssumption`: between two looks of the READER no more arrives than the
  headroom of two chunks; the READER polls for a fifth of a chunk or 100 ms.

`ThreadsProofs`, for any clients, requests, chunks and frames, with or without
the signal:

* `Invariance`, `TypeCorrect`.  `IInv` adds to the properties what makes them
  inductive.  The relay: a command or a reply under way keeps its REQ socket
  waiting (`SocketWaits`); before a Quit at most one socket waits, for the client
  being served (`OneServed`), and after it both do for ever and nobody is served
  (`NoneServed`), without which MAIN's next send might assert before a Quit.  The
  threads: a command is under way until it is replied to (`Handles`), READER and
  WRITER are there once MAIN's loop may send to them (`Created`), and neither
  leaves except for a Quit or the signal (`Leaves`), without which a send might
  block unprovoked.  The counts: a chunk is sent only with a frame, and nothing is
  in hand when the READER ends (`Sends`), or more chunks or frames might be about
  than there are.
* `RepliesGivenInTurn`, `SendsFailOnlyAfterQuit`, `SendsBlockOnlyBySignal` follow.

There is one lemma per action.

`AdcCommandProofs`, for every setting that Param lets through, both drivers, any
commands of other programs and any samples:

* `RoundingExact`, `RoundingStable`, `LoopLasts`: the three roundings of a period
  come out exact, and the loop of the chip has the ticks of the period.
* `Invariance`, `TypeCorrect`.  `IInv` adds that every author of a state is a
  command compiled so far (`Counted`), without which a program left from before
  might pass for the one just sent; that the frequency written back is the
  rounded one (`WrittenBack`); that object, prepared command and tables are what
  the parameters last accepted give (`Prepared`), except that a Param which fails
  in RESTING closes the object; that all states of the program are in the chip
  (`Loaded`); and that there are data only during a capture (`Sampled`).
* `PeriodsAgree`, `ProgramIsTheDaemons`, `AcceptanceIsStable`,
  `CapturesAreSeamless`, `SamplesFit`: the properties of the run.  `SamplesFit`
  rests on the extent of the tables (`NarrowAmplitude`, `WideAmplitude`).
* `RangeIsKept`: with the 3.18 driver `RangeAgrees`, which fails with the other.

It rests on `PeriodAssumption`: periods and coefficients are those that Param
accepts, raw samples have 13 bits.

`SnapshotsProofs`, for any requests, directories, sizes and widths of words, any
number of snapshots and captures:

* `ChunksSuffice`: the number of chunks of a file, computed by a division to
  "milli-chunks" that rounds down and another that rounds up, is exactly what
  the file needs, for every size, because the largest chunk in KiB (4096) is no
  more than the bytes of a page.
* `FilesAreTiled`: the chunks the loop of setup_snapfile cuts follow one another
  without gap or overlap, in the file and in samples, end where the file ends,
  and none is larger than a chunk or smaller than half of one.  `ChunksOf` is a
  recursive function; what it yields is shown chunk by chunk by induction.
* `Invariance`, `TypeCorrect`.  `IInv` is `ReportedOnce` and `RangeIsCovered` with
  what they and the others need: bytes that fit an int are whole pages full of
  samples (`FilesPaged`); a snapshot is in progress with the file its counters
  say, and the files before are on disk (`FilesInOrder`); `wp_nfiles` counts
  those in progress (`FilesCounted`); numbers tell snapshots apart
  (`NumbersDiffer`), and the distance of a name from the next name is that of the
  number from the next number, round the 16 bits (`NamesInTurn`), without which
  nothing could be said of two names; and the samples of a capture follow one
  another from its start to now (`ClockOK`), or a time could not be told as a
  sample.
* `RangesAreCovered`, `EachReportedOnce`, `CompletesAreOnDisk`, `NamesComeRound`.
  The longest lemma is that of Snap: it follows the range from the request
  through sweeps of channels, the torn reading of head and time, words that wrap
  and whole pages.

`DuxDriverProofs`, for any number of URBs, packets to ignore and commands, both
ports, with and without pairs, on one processor (`~SMP`; TLC shows each of the
four violated on several):

* `Invariance`.  `IInv` says what a handler and a system call hold at each of
  their places (`HandlerIs`, `CallIs`), that what attach allocated is within what
  detach reaches (`HeldIs`), that what is in flight is marked or about to be
  (`Marked`), what the loops of cancel and detach have passed (`Swept`), and that
  a running command has every URB, or one of every pair, in flight or in the
  handler (`Alive`).
* `AlwaysAllFreed`, `AlwaysCopySafe` and `AlwaysStreamLives` follow.
* `AlwaysFreshData`, in addition if the URBs are submitted before one completes
  (`Quick`) and `2 * Ignore >= MaxUrbs`.  When a command starts over URBs that an
  earlier one left in flight, their packets must all be ignored, or the command
  be stopped.  `FInv` is the account of that: while the URBs are submitted, the
  pairs that may still yield an old packet (`Unspent`) are no more than packets
  still to be ignored; a pair with both its URBs in flight fails at its first
  completion, and that comes before the packets to ignore run out (`InTime`).
  With 8 URBs and 4 packets to ignore
  (kernel/usbduxfast_4.6.5_john.c:124, 156) the condition just holds; nothing in
  the driver says that the two numbers have to do with each other.  With four URBs
  and one packet TLC finds old data passed on.

`BuffersProofs`, for any batches of string buffers (two at least) and chunks, any
sizes of files, any number of commands, with or without failing maps, up to a
crash:

* `BuffersHaveOneHolder`: `Spec => []OneHolder`.  The inductive invariant `HInv`
  says it with sets: the free queue, the ring of the command and the buffers that
  snapshots keep list three disjoint sets, each member once (`Lists`), that make
  up all buffers (`Held`); and the ring has two buffers until the reply, which
  has one at least (`RingInv`), or Snap might keep the only one.  Its lemmas say
  what taking, reversing, joining, dropping and picking members does to a list;
  the longest is of `Picked`, a bijection between positions that keeps their
  order.
* `TextIsAlwaysOwn`: `TextIsOwn` is inductive with `HInv` and the types of texts:
  what a thread writes to a buffer it does not hold is about the snapshot that
  does.
* `PoolsAlwaysLast`: once chunks were made, those free and those in use are a
  batch or more (`ChunkInv`), because what is released is what was taken, though
  neither is what `N_in_chunkQ` counts; so NULL is given out only when more than
  a batch is in use, and no strbuf is NULL unless all but one are kept by
  snapshots, which `OneHolder` counts.
* `TypeCorrect`.

`ParamsProofs`, for any environments, command lines and lists, any number of
string buffers (three at least) and commands, and both widths of long:

* `Invariance`, `TypeCorrect`.  `IInv` says what each text and each variable is
  at every stage of start-up (`StageInv`); that each parameter of commands has a
  text, which is the one given unless it was lost (`TextInv`), or a Param might
  leave a variable alone that is half written; and that the free buffers and
  those that snapshots keep are all there are, each once (`PoolInv`), or a command
  might be answered in the buffer it came in.
* `StartsWithWhatItWasTold`.  assign_all_params goes through the table in order:
  `AssignedFacts` shows, by induction along it, that what is assigned keeps its
  value to the end, because all that a long can spill into comes later in the
  table and is assigned after it (`FollowersFollow`).  The mutant that swaps two
  lines of the table breaks that lemma.
* `ParamSetsWhatWasGiven` uses the same lemma for the parameters of commands, and
  `SetFromStringIs`, for lists of any length: what is set has the text given, the
  rest is as it was.
It rests on `NamesAssumption`: no name of the table is the beginning of another,
which TLC evaluates, as the provers know nothing of the letters of a string.

Only model-checked: all liveness, which like ENABLED is out of the provers'
reach.  Induction over data is in reach: the library's induction theorems, which take an operator, are not
instantiated, but that the order of the naturals is well founded gives least
elements of sets (`Least`), and from these follow induction on numbers
(`NatInductive`) and on finite sets (`SubsetInduction`).

## 5. Not modelled

* The wording of replies, logging, debugging printers.  calloc never fails
  except in the driver's attach.
* borrowedtime and the limit on the time one service of the WRITER's queue may
  take, which only delay.
* How init_frame_system cuts the locked memory into frames: it runs once, before
  any thread.
* The WRITER's use of an ADC object that the READER destroys under it: nothing of
  the daemon is left to say after the fault.
* Floating point.  Frequencies are periods in ns, products of doubles may come
  out one less (`Truncated`); table entries are whole steps.
* System-call wrappers (mman.c, rtprio.c); energy.c, which nothing links.
* fifo.c and grab.c, a sequential test utility; the clients snapchat.c, trig.c
  and Snap.pm, each of which sends a line, waits and prints; array-cmd and the
  deployment scripts.
* Of the kernel directory: firmware upload and the probing of the bus;
  3.18.35-usbduxfast.c and 4.6.5-usbduxfast.c, the upstream files the ports
  start from; usbduxfast_3.18.1_john.c, an unfinished one that does not compile
  (a brace is missing about line 372, and line 1301 misspells MAX_USBSZINBUF).

## 6. Plan

What is left, in order of importance:

1. The request of the WRITER in two steps, with the READER's Param, Halt or dry
   spell between.
2. The driver with system calls beside handlers: what cancel may leave in
   flight, and what still holds then.
3. The sorted queues themselves (queue.c and the insertion loops), which
   `ChunkFlow` takes to be sets with a least element.
