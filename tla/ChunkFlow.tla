------------------------------ MODULE ChunkFlow ------------------------------
(***************************************************************************)
(* The path of a transfer chunk through the snapshot program: the WRITER   *)
(* thread (writer.c, chunk.c) splits each file of a snapshot into chunks,  *)
(* finds each chunk a locked mmap frame and hands it to the READER thread  *)
(* (reader.c, adc.c); the READER fills the frame from the ADC ring buffer  *)
(* when the data is there, or fails the chunk, passes the frame to the     *)
(* TIDY thread (tidy.c) for unmapping and the chunk back to the WRITER.    *)
(*                                                                         *)
(* Each thread is sequential and shares only what the program shares: the  *)
(* chunk and file descriptors, and three FIFO message pipes that carry     *)
(* pointers.  A WRITER handler is one step: nothing another thread reads   *)
(* changes halfway through it.  The READER's loops over its queue (which   *)
(* send messages and look at file states that the WRITER may change) take  *)
(* one step per chunk.  wpc and rpc keep the order in which each thread's  *)
(* main loop takes its inputs: at most one message from the other thread,  *)
(* taken if there is one, then at most one command.                        *)
(*                                                                         *)
(* A file whose chunk cannot be mapped is freed at once, and the           *)
(* descriptors of all its chunks with it, while READER may have some of    *)
(* them.  What was freed stays as it was until it is handed out again;     *)
(* that, and a second completion of the file, are faults of the program    *)
(* that end the model (wpc is "undefined" or "crashed").                   *)
(*                                                                         *)
(* WriterChunkQ and ReaderChunkQ are sets here; the code keeps them sorted *)
(* by c_first and c_last, so their heads are the members with the least    *)
(* key.                                                                    *)
(***************************************************************************)
EXTENDS Integers, Sequences, FiniteSets, FiniteSetsExt

CONSTANTS
  Snap,         \* snapshot descriptors: one per accepted Snap command
  Frame,        \* the mmap frames of init_frame_system
  NChunk,       \* chunks per snapshot file (f_nchunks)
  Cut,          \* sample offsets in a file at which its chunks are cut
  Start,        \* first samples a Snap command may ask for
  Count,        \* repeat counts a Snap command may ask for
  Window,       \* buf_window_samples: what a purge leaves in the ring
  HighWater,    \* buf_hwm_samples: how full the ring gets before a purge
  Budget,       \* initial wp_totxfrsamples
  MaxHead,      \* bound: samples in one capture
  MaxBatch,     \* bound: samples found by one adc_data_collect
  MaxCapture,   \* bound: Go commands
  MapMayFail,   \* TRUE if mmap_and_lock of a chunk may fail
  None          \* no frame, no chunk, no snapshot

Chunk == Snap \X (1 .. NChunk)
Parent(c) == c[1]
ChunksOf(s) == {s} \X (1 .. NChunk)

ASSUME ConstantsAssumption ==
  /\ NChunk \in Nat \ {0}
  /\ Cut \in [0 .. NChunk -> Nat] /\ Cut[0] = 0
  /\ \A i \in 1 .. NChunk : Cut[i-1] < Cut[i]
  /\ Start \subseteq Nat /\ Count \subseteq Nat
  /\ Window \in Nat /\ HighWater \in Nat /\ Window <= HighWater
  /\ Budget \in Int
  /\ MaxHead \in Nat /\ MaxBatch \in Nat /\ MaxCapture \in Nat
  /\ MapMayFail \in BOOLEAN
  /\ IsFiniteSet(Snap) /\ IsFiniteSet(Frame)
  /\ None \notin Snap /\ None \notin Frame /\ None \notin Chunk

(* verify_reader_params refuses a window smaller than a chunk. *)
ASSUME WindowAssumption ==
  \A i \in 1 .. NChunk : Cut[i] - Cut[i-1] <= Window

VARIABLES
  snap,          \* snap_t: status, next file's first sample, file counts
  file,          \* the snapfile_t in progress of each snapshot
  c_status,      \* per chunk: SNAPSHOT_* status
  c_owner,       \* per chunk: the thread whose queue it belongs to
  c_first,       \* per chunk: first sample
  c_frame,       \* per chunk: attached frame
  WriterChunkQ,  \* chunks waiting in the WRITER for a frame
  wp_nfiles,     \* files in progress
  wp_totxfr,     \* samples the WRITER may still commit to write
  frameQ,        \* free frames queued in the frame system
  busy,          \* frames whose byte count is not zero
  toReader,      \* pipe WRITER -> READER, chunks
  toWriter,      \* pipe READER -> WRITER, chunks
  toTidy,        \* pipe READER -> TIDY, frames
  rp_state,      \* READER state machine
  wpc,           \* where the WRITER is in its loop
  rpc,           \* where the READER is in its loop
  held,          \* the chunk being sent straight back
  aborting,      \* the snapshot whose queued chunks are being aborted
  ReaderChunkQ,  \* chunks waiting in the READER for their data
  a_head,        \* samples captured
  a_tail,        \* oldest sample kept in the ring
  high_water_mark,
  capture        \* Go commands carried out

writerVars == <<wpc, snap, file, WriterChunkQ, wp_nfiles, wp_totxfr>>
frameVars == <<frameQ, busy>>
chunkVars == <<c_status, c_owner, c_first, c_frame>>
pipeVars == <<toReader, toWriter, toTidy>>
adcVars == <<a_head, a_tail, high_water_mark, capture>>
readerVars == <<rp_state, rpc, held, aborting, ReaderChunkQ>>
vars == <<writerVars, frameVars, chunkVars, pipeVars, adcVars, readerVars>>

Samples(c) == Cut[c[2]] - Cut[c[2] - 1]
Last(c) == c_first[c] + Samples(c)
TotalSamples(S) == MapThenSumSet(Samples, S)
FileSamples == Cut[NChunk]

(* c may be at the head of a queue sorted by first, or by last, sample. *)
HeadByFirst(c, q) == c \in q /\ \A d \in q : c_first[c] <= c_first[d]
HeadByLast(c, q) == c \in q /\ \A d \in q : Last(c) <= Last(d)

ChunkStatus == {"INIT", "READY", "WAITING", "WRITTEN", "ERROR"}
FileStatus == {"INIT", "READY", "WRITTEN", "ERROR"}
SnapStatus == {"INIT", "PREPARE", "WRITING", "COMPLETE", "ERROR"}

(* snap_t and snapfile_t, as far as they are kept here.                     *)
SnapRecord ==
  [status : SnapStatus, first : Nat, done : Nat, pending : Int, count : Nat]
FileRecord == [live : BOOLEAN, status : FileStatus, pending : Int, written : Nat]

WriterTypeOK ==
  /\ snap \in [Snap -> SnapRecord] /\ file \in [Snap -> FileRecord]
  /\ wp_nfiles \in Int

ChunkTypeOK ==
  /\ c_status \in [Chunk -> ChunkStatus]
  /\ c_owner \in [Chunk -> {"WRITER", "READER"}]
  /\ c_first \in [Chunk -> Nat]
  /\ c_frame \in [Chunk -> Frame \cup {None}]
  /\ WriterChunkQ \subseteq Chunk /\ ReaderChunkQ \subseteq Chunk
  /\ held \in Chunk \cup {None}
  /\ frameQ \subseteq Frame /\ busy \subseteq Frame
  /\ toReader \in Seq(Chunk) /\ toWriter \in Seq(Chunk) /\ toTidy \in Seq(Frame)

ControlTypeOK ==
  /\ wpc \in {"poll", "command", "service", "crashed", "undefined"}
  /\ rpc \in {"data", "complete", "abort", "drain", "queue", "command"}
  /\ rp_state \in {"ERROR", "PARAM", "RESTING", "ARMED", "RUN"}
  /\ aborting \in Snap \cup {None}
  /\ a_head \in Nat /\ a_tail \in Nat /\ high_water_mark \in Nat
  /\ capture \in Nat

TypeOK == WriterTypeOK /\ ChunkTypeOK /\ ControlTypeOK

Init ==
  /\ snap = [s \in Snap |-> [status |-> "INIT", first |-> 0, done |-> 0, pending |-> 0,
                             count |-> 0]]
  /\ file = [s \in Snap |-> [live |-> FALSE, status |-> "INIT",
                             pending |-> 0, written |-> 0]]
  /\ c_status = [c \in Chunk |-> "INIT"]
  /\ c_owner = [c \in Chunk |-> "WRITER"]
  /\ c_first = [c \in Chunk |-> 0]
  /\ c_frame = [c \in Chunk |-> None]
  /\ WriterChunkQ = {} /\ ReaderChunkQ = {}
  /\ wp_nfiles = 0 /\ wp_totxfr = Budget
  /\ frameQ = Frame /\ busy = {}
  /\ toReader = <<>> /\ toWriter = <<>> /\ toTidy = <<>>
  /\ rp_state = "PARAM" /\ rpc = "data" /\ wpc = "poll"
  /\ held = None /\ aborting = None
  /\ a_head = 0 /\ a_tail = 0 /\ high_water_mark = HighWater
  /\ capture = 0

(* adc_is_running: set by Go, cleared by Halt and when the data runs dry. *)
Running == rp_state \in {"ARMED", "RUN"}
-----------------------------------------------------------------------------
(***************************************************************************)
(* WRITER: files.                                                          *)
(***************************************************************************)

(* refresh_snapshot asks for another file. *)
WantsFile(done, pending, count, nfiles) ==
  /\ done # count
  /\ done + pending # count
  /\ nfiles < 2 \/ pending = 0

(* The chunks of a new file of s that starts at sample first: all READY, in *)
(* WRITER's hands and in its queue.                                         *)
NewChunks(s, first) ==
  /\ c_status' = [c \in Chunk |-> IF Parent(c) = s THEN "READY" ELSE c_status[c]]
  /\ c_owner' = [c \in Chunk |-> IF Parent(c) = s THEN "WRITER" ELSE c_owner[c]]
  /\ c_first' = [c \in Chunk |-> IF Parent(c) = s THEN first + Cut[c[2] - 1]
                                                  ELSE c_first[c]]
  /\ c_frame' = [c \in Chunk |-> IF Parent(c) = s THEN None ELSE c_frame[c]]
  /\ WriterChunkQ' = WriterChunkQ \cup ChunksOf(s)

(* setup_snapshot for descriptor d of s: one more file in progress and the  *)
(* sample range moved past it, or an error if the file cannot be made.      *)
SetupSnapshot(s, d, nfiles, totxfr) ==
  \/ /\ NewChunks(s, d.first)
     /\ file' = [file EXCEPT ![s] = [live |-> TRUE, status |-> "READY",
                                     pending |-> 0, written |-> 0]]
     /\ snap' = [snap EXCEPT ![s] = [d EXCEPT !.pending = d.pending + 1,
                                              !.first = d.first + FileSamples]]
     /\ wp_nfiles' = nfiles + 1
     /\ wp_totxfr' = totxfr - FileSamples
  \/ /\ snap' = [snap EXCEPT ![s] = [d EXCEPT !.status = "ERROR"]]
     /\ file' = [file EXCEPT ![s].live = FALSE]
     /\ wp_nfiles' = nfiles /\ wp_totxfr' = totxfr
     /\ UNCHANGED <<c_status, c_first, c_frame, WriterChunkQ>>
     /\ c_owner' = [c \in Chunk |-> IF Parent(c) = s THEN "WRITER" ELSE c_owner[c]]

(* completed_snapfile and refresh_snapshot for a file of s all of whose     *)
(* chunks are back WRITTEN: the snapshot completes or goes on.              *)
FileWritten(s, totxfr) ==
  LET d == [snap[s] EXCEPT !.status = "WRITING", !.done = snap[s].done + 1,
                           !.pending = snap[s].pending - 1]
  IN  \/ /\ ~WantsFile(d.done, d.pending, d.count, wp_nfiles - 1)
         /\ snap' = [snap EXCEPT ![s] =
              [d EXCEPT !.status = IF d.done = d.count THEN "COMPLETE" ELSE d.status]]
         /\ file' = [file EXCEPT ![s].live = FALSE]
         /\ c_owner' = [c \in Chunk |-> IF Parent(c) = s THEN "WRITER" ELSE c_owner[c]]
         /\ wp_nfiles' = wp_nfiles - 1 /\ wp_totxfr' = totxfr
         /\ UNCHANGED <<c_status, c_first, c_frame, WriterChunkQ>>
      \/ /\ WantsFile(d.done, d.pending, d.count, wp_nfiles - 1)
         /\ SetupSnapshot(s, d, wp_nfiles - 1, totxfr)

(* Mutant: the file freed stays among those in progress.                    *)
FileFreed_InProgress(s, pending) ==
  /\ file' = [file EXCEPT ![s] = [live |-> FALSE, status |-> "ERROR",
                                  pending |-> pending, written |-> file[s].written]]
  /\ snap' = [snap EXCEPT ![s] = [snap[s] EXCEPT !.status = "ERROR",
                                                 !.pending = snap[s].pending - 1]]
  /\ UNCHANGED wp_nfiles

(* completed_snapfile for a file of s in ERROR, pending chunks of which are *)
(* out: it is freed, with the descriptors of its chunks, and s fails.  Who  *)
(* still has its address finds status and f_pending as they were.           *)
FileFreed(s, pending) ==
  /\ file' = [file EXCEPT ![s] = [live |-> FALSE, status |-> "ERROR",
                                  pending |-> pending, written |-> file[s].written]]
  /\ snap' = [snap EXCEPT ![s] = [snap[s] EXCEPT !.status = "ERROR",
                                                 !.pending = snap[s].pending - 1]]
  /\ wp_nfiles' = wp_nfiles - 1

(* Mutant: the failed file is freed while chunks of it are pending.         *)
FileFailed_AtOnce(s, pending) == FileFreed(s, pending)

(* process_reader_message, a file in ERROR: it is freed once no chunk of it *)
(* is pending.                                                              *)
FileFailed(s, pending) ==
  IF pending = 0
    THEN FileFreed(s, 0)
    ELSE /\ file' = [file EXCEPT ![s] = [file[s] EXCEPT !.status = "ERROR",
                                                        !.pending = pending]]
         /\ UNCHANGED <<snap, wp_nfiles>>

(* Mutants: abort_snapfile forgets the owner, or forgets the status.        *)
Unsent_AnyOwner(s) == {c \in ChunksOf(s) : c_status[c] \notin {"WRITTEN", "ERROR"}}
Unsent_AnyStatus(s) == {c \in ChunksOf(s) : c_owner[c] = "WRITER"}

(* abort_snapfile: the chunks it fails and credits, besides the one in hand *)
Unsent(s) == {c \in ChunksOf(s) : /\ c_owner[c] = "WRITER"
                                  /\ c_status[c] \notin {"WRITTEN", "ERROR"}}

(* process_reader_message takes a chunk of file f back; the mutant forgets. *)
Back_NotCounted(f) == f
Back(f) == [f EXCEPT !.pending = @ - 1]

(* ... and tells when f is finished; the mutant looks at f_pending instead. *)
AllWritten_NonePending(f) == f.pending = 0
AllWritten(f) == f.written = NChunk
-----------------------------------------------------------------------------
(***************************************************************************)
(* WRITER: the handlers of its loop, one pass of which is: a message from  *)
(* READER if there is one, a command if there is one, then the queue.      *)
(***************************************************************************)

(* A Snap command that passes its checks; the snapshot's first file is set  *)
(* up at once.  With count=0 there is no file and the snapshot is complete. *)
SnapCommand(s, first, count) ==
  LET d == [status |-> "PREPARE", first |-> first, done |-> 0, pending |-> 0, count |-> count]
  IN  /\ wpc = "command" /\ wpc' = "service"
      /\ snap[s].status = "INIT"
      /\ Running
      /\ \/ /\ WantsFile(0, 0, count, wp_nfiles)
            /\ SetupSnapshot(s, d, wp_nfiles, wp_totxfr)
         \/ /\ ~WantsFile(0, 0, count, wp_nfiles)
            /\ snap' = [snap EXCEPT ![s] = [d EXCEPT !.status = "COMPLETE"]]
            /\ UNCHANGED <<file, WriterChunkQ, wp_nfiles, wp_totxfr, chunkVars>>
      /\ UNCHANGED <<frameVars, pipeVars, adcVars, readerVars>>

(* process_reader_message, a chunk that was written: its file is done when  *)
(* it is the last one.                                                      *)
WriterWritten(c) ==
  LET s == Parent(c)
      f == [Back(file[s]) EXCEPT !.written = @ + 1]
  IN  /\ c_status[c] = "WRITTEN"
      /\ \/ /\ AllWritten(f)
            /\ FileWritten(s, wp_totxfr + Samples(c))
         \/ /\ ~AllWritten(f)
            /\ file' = [file EXCEPT ![s] = f]
            /\ c_owner' = [c_owner EXCEPT ![c] = "WRITER"]
            /\ wp_totxfr' = wp_totxfr + Samples(c)
            /\ UNCHANGED <<snap, wp_nfiles, WriterChunkQ, c_status, c_first, c_frame>>

(* process_reader_message, a chunk that failed: the first one aborts its    *)
(* file, the last one pending ends it.                                      *)
WriterError(c) ==
  LET s == Parent(c)
      aborted == IF file[s].status = "ERROR" THEN {} ELSE Unsent(s)
  IN  /\ c_status[c] = "ERROR"
      /\ FileFailed(s, Back(file[s]).pending)
      /\ c_status' = [d \in Chunk |-> IF d \in aborted THEN "ERROR" ELSE c_status[d]]
      /\ c_owner' = [c_owner EXCEPT ![c] = "WRITER"]
      /\ WriterChunkQ' = WriterChunkQ \ aborted
      /\ wp_totxfr' = wp_totxfr + Samples(c) + TotalSamples(aborted)
      /\ UNCHANGED <<c_first, c_frame>>

(* zmq_poll found no message from READER, or found one: receive it.         *)
WriterPoll ==
  /\ wpc = "poll" /\ toWriter = <<>> /\ wpc' = "command"
  /\ UNCHANGED <<snap, file, WriterChunkQ, wp_nfiles, wp_totxfr, frameVars,
                 chunkVars, pipeVars, adcVars, readerVars>>

(* c is the last chunk of a file freed while it was out, and failed: it     *)
(* finds f_pending 0 and completes that file again.                         *)
EndsAgain(c) ==
  /\ ~file[Parent(c)].live /\ c_status[c] = "ERROR"
  /\ Back(file[Parent(c)]).pending = 0

WriterReceive ==
  /\ wpc = "poll" /\ toWriter # <<>> /\ wpc' = "command"
  /\ ~EndsAgain(Head(toWriter))
  /\ WriterWritten(Head(toWriter)) \/ WriterError(Head(toWriter))
  /\ toWriter' = Tail(toWriter)
  /\ UNCHANGED <<toReader, toTidy, frameVars, adcVars, readerVars>>

(* The second completed_snapfile releases the chunks of a file that has     *)
(* none left: the NULL it passes to release_chunk is followed.              *)
WriterEndsAgain ==
  /\ wpc = "poll" /\ toWriter # <<>> /\ wpc' = "crashed"
  /\ EndsAgain(Head(toWriter))
  /\ UNCHANGED <<snap, file, WriterChunkQ, wp_nfiles, wp_totxfr, frameVars,
                 chunkVars, pipeVars, adcVars, readerVars>>

(* Mutants: frames in use are queued again; the queue is never refilled.    *)
AvailableFrames_InUse == IF frameQ # {} THEN frameQ ELSE Frame
AvailableFrames_NoScan == frameQ

(* alloc_frame: from the queue, after refilling an empty queue with every   *)
(* frame that is not in use.                                                *)
AvailableFrames == IF frameQ # {} THEN frameQ ELSE Frame \ busy

(* writer_service_queue, one chunk that gets a frame and goes to READER;    *)
(* time may remain for another.                                             *)
WriterService ==
  /\ wpc \in {"command", "service"} /\ wpc' \in {"service", "poll"}
  /\ \E c \in WriterChunkQ, fr \in AvailableFrames :
       /\ HeadByFirst(c, WriterChunkQ)
       /\ frameQ' = AvailableFrames \ {fr}
       /\ busy' = busy \cup {fr}
       /\ WriterChunkQ' = WriterChunkQ \ {c}
       /\ c_frame' = [c_frame EXCEPT ![c] = fr]
       /\ c_status' = [c_status EXCEPT ![c] = "WAITING"]
       /\ c_owner' = [c_owner EXCEPT ![c] = "READER"]
       /\ file' = [file EXCEPT ![Parent(c)].pending = @ + 1]
       /\ toReader' = Append(toReader, c)
  /\ UNCHANGED <<snap, wp_nfiles, wp_totxfr, c_first, toWriter, toTidy, adcVars,
                 readerVars>>

(* writer_service_queue, mapping the chunk fails: the file is aborted and   *)
(* freed at once, whatever is pending; the frame is free but not queued.    *)
WriterMapFails ==
  /\ MapMayFail
  /\ wpc \in {"command", "service"} /\ wpc' = "poll"
  /\ \E c \in WriterChunkQ, fr \in AvailableFrames :
       LET s == Parent(c)
       IN  /\ HeadByFirst(c, WriterChunkQ)
           /\ frameQ' = AvailableFrames \ {fr}
           /\ c_status' = [d \in Chunk |-> IF d \in Unsent(s) THEN "ERROR"
                                                              ELSE c_status[d]]
           /\ WriterChunkQ' = WriterChunkQ \ Unsent(s)
           /\ wp_totxfr' = wp_totxfr + TotalSamples(Unsent(s))
           /\ FileFreed(s, file[s].pending)
  /\ UNCHANGED <<busy, c_owner, c_first, c_frame, pipeVars, adcVars, readerVars>>

(* writer_service_queue, no chunk or no frame: the pass ends.               *)
WriterServed ==
  /\ wpc \in {"command", "service"} /\ wpc' = "poll"
  /\ WriterChunkQ = {} \/ AvailableFrames = {}
  /\ UNCHANGED <<snap, file, WriterChunkQ, wp_nfiles, wp_totxfr, frameVars,
                 chunkVars, pipeVars, adcVars, readerVars>>
-----------------------------------------------------------------------------
(***************************************************************************)
(* TIDY: unmap a frame and mark it free.                                   *)
(***************************************************************************)
TidyRelease ==
  /\ toTidy # <<>>
  /\ busy' = busy \ {Head(toTidy)}
  /\ toTidy' = Tail(toTidy)
  /\ UNCHANGED <<writerVars, frameQ, chunkVars, toReader, toWriter, adcVars,
                 readerVars>>
-----------------------------------------------------------------------------
(***************************************************************************)
(* READER: data.  One pass of its loop is: new data if there is any, a     *)
(* message from WRITER if there is one, a command if there is one.         *)
(***************************************************************************)
ReaderAtData == rpc \in {"data", "command"}
ReaderAtQueue == rpc \in {"data", "queue", "command"}

(* is_dead_snapfile: the READER looks at the state of the WRITER's file.    *)
Dead(s) == file[s].status = "ERROR"

(* adc_setup_chunk, complete_queue_head_chunk: data of c has been purged.   *)
(* Mutant: the end of c is compared.                                        *)
TooLate_ByLast(c) == Last(c) < a_tail
TooLate(c) == c_first[c] < a_tail

(* adc_data_collect finds n new samples; the loop then turns to its queue.  *)
ReaderCollect(n) ==
  /\ ReaderAtData /\ Running
  /\ a_head + n <= MaxHead
  /\ a_head' = a_head + n
  /\ rp_state' = "RUN"
  /\ rpc' = "complete"
  /\ UNCHANGED <<writerVars, frameVars, chunkVars, pipeVars, a_tail,
                 high_water_mark, capture, held, aborting, ReaderChunkQ>>

(* Chunk c leaves the READER: its frame goes to TIDY, it goes to WRITER.    *)
Return(c, status) ==
  /\ c_status' = [c_status EXCEPT ![c] = status]
  /\ toTidy' = Append(toTidy, c_frame[c])
  /\ c_frame' = [c_frame EXCEPT ![c] = None]
  /\ toWriter' = Append(toWriter, c)
  /\ UNCHANGED <<c_owner, c_first, toReader, writerVars, frameVars, adcVars>>

(* complete_queue_head_chunk: the head's data is all there.  It is copied   *)
(* and returned, or its file's chunks are aborted if it is too late.        *)
ReaderComplete ==
  /\ rpc = "complete"
  /\ \E c \in ReaderChunkQ :
       /\ HeadByLast(c, ReaderChunkQ)
       /\ Last(c) <= a_head
       /\ \/ /\ TooLate(c) \/ Dead(Parent(c))
             /\ aborting' = Parent(c) /\ rpc' = "abort"
             /\ UNCHANGED <<ReaderChunkQ, chunkVars, pipeVars, writerVars,
                            frameVars, adcVars>>
          \/ /\ ~TooLate(c) /\ ~Dead(Parent(c))
             /\ ReaderChunkQ' = ReaderChunkQ \ {c}
             /\ Return(c, "WRITTEN")
             /\ UNCHANGED <<rpc, aborting>>
  /\ UNCHANGED <<rp_state, held>>

(* No chunk is due: move the tail if the ring is above its high-water mark. *)
ReaderPurge ==
  LET lwm == a_head - Window
      purge == a_head > high_water_mark /\ lwm > a_tail
  IN  /\ rpc = "complete"
      /\ \A c \in ReaderChunkQ : Last(c) > a_head
      /\ a_tail' = IF purge THEN lwm ELSE a_tail
      /\ high_water_mark' = IF purge THEN lwm + HighWater ELSE high_water_mark
      /\ rpc' = "queue"
      /\ UNCHANGED <<writerVars, frameVars, chunkVars, pipeVars, a_head, capture,
                     rp_state, held, aborting, ReaderChunkQ>>

(* abort_reader_chunk: the next queued chunk of the file being aborted.     *)
ReaderAbortSibling ==
  /\ rpc = "abort"
  /\ \E c \in ReaderChunkQ :
       /\ HeadByLast(c, {d \in ReaderChunkQ : Parent(d) = aborting})
       /\ ReaderChunkQ' = ReaderChunkQ \ {c}
       /\ Return(c, "ERROR")
  /\ UNCHANGED <<rp_state, rpc, held, aborting>>

(* ... none is left: the chunk in hand, if any, is sent straight back.      *)
ReaderAborted ==
  /\ rpc = "abort"
  /\ \A c \in ReaderChunkQ : Parent(c) # aborting
  /\ \/ /\ held # None
        /\ Return(held, "ERROR")
        /\ rpc' = "command"
     \/ /\ held = None
        /\ rpc' = IF Running THEN "complete" ELSE "drain"
        /\ UNCHANGED <<chunkVars, pipeVars, writerVars, frameVars, adcVars>>
  /\ held' = None /\ aborting' = None
  /\ UNCHANGED <<rp_state, ReaderChunkQ>>
-----------------------------------------------------------------------------
(***************************************************************************)
(* READER: messages.                                                       *)
(***************************************************************************)

(* zmq_poll finds no message from WRITER; there may be a command.           *)
ReaderPoll ==
  /\ rpc \in {"data", "queue"} /\ toReader = <<>> /\ rpc' = "command"
  /\ UNCHANGED <<writerVars, frameVars, chunkVars, pipeVars, adcVars, rp_state,
                 held, aborting, ReaderChunkQ>>

(* process_queue_message: a chunk is queued, or sent straight back with its *)
(* queued siblings if the ADC is stopped, its file dead or its data gone.   *)
ReaderReceive ==
  /\ ReaderAtQueue /\ toReader # <<>>
  /\ LET c == Head(toReader)
         rejected == ~Running \/ Dead(Parent(c)) \/ TooLate(c)
     IN  \/ /\ rejected
            /\ held' = c /\ aborting' = Parent(c) /\ rpc' = "abort"
            /\ UNCHANGED ReaderChunkQ
         \/ /\ ~rejected
            /\ ReaderChunkQ' = ReaderChunkQ \cup {c}
            /\ rpc' = "command"
            /\ UNCHANGED <<held, aborting>>
  /\ toReader' = Tail(toReader)
  /\ UNCHANGED <<writerVars, frameVars, chunkVars, toWriter, toTidy, adcVars,
                 rp_state>>

(* Mutant: the queue is not drained.                                        *)
ReaderStop_NoDrain ==
  /\ rpc \in {"data", "queue", "command"} /\ Running
  /\ rp_state' = "ERROR" /\ rpc' = "data"
  /\ UNCHANGED <<writerVars, frameVars, chunkVars, pipeVars, adcVars, held,
                 aborting, ReaderChunkQ>>

(* A Halt command, or data that stops flowing: stop, then drain the queue.  *)
ReaderStop ==
  /\ rpc \in {"data", "queue", "command"} /\ Running
  /\ rp_state' = "ERROR" /\ rpc' = "drain"
  /\ UNCHANGED <<writerVars, frameVars, chunkVars, pipeVars, adcVars, held,
                 aborting, ReaderChunkQ>>

(* drain_reader_chunk_queue: abort the file of the head chunk until empty.  *)
ReaderDrain ==
  /\ rpc = "drain"
  /\ \/ /\ ReaderChunkQ = {}
        /\ rpc' = "data"
        /\ UNCHANGED aborting
     \/ \E c \in ReaderChunkQ :
          /\ HeadByLast(c, ReaderChunkQ)
          /\ aborting' = Parent(c) /\ rpc' = "abort"
  /\ UNCHANGED <<writerVars, frameVars, chunkVars, pipeVars, adcVars, rp_state,
                 held, ReaderChunkQ>>

(* Param: a new ADC object with an empty ring.  Init and Go as answered OK  *)
(* or with an error.                                                        *)
ReaderParam ==
  /\ rpc = "command" /\ rp_state \in {"PARAM", "RESTING", "ERROR"}
  /\ rp_state' = "PARAM" /\ rpc' = "data"
  /\ a_head' = 0 /\ a_tail' = 0
  /\ UNCHANGED <<writerVars, frameVars, chunkVars, pipeVars, high_water_mark,
                 capture, held, aborting, ReaderChunkQ>>

ReaderInit ==
  /\ rpc = "command" /\ rpc' = "data" /\ rp_state = "PARAM"
  /\ rp_state' \in {"RESTING", "ERROR"}
  /\ UNCHANGED <<writerVars, frameVars, chunkVars, pipeVars, adcVars, held,
                 aborting, ReaderChunkQ>>

ReaderGo ==
  /\ rpc = "command" /\ rpc' = "data" /\ rp_state = "RESTING"
  /\ capture < MaxCapture
  /\ rp_state' \in {"ARMED", "ERROR"}
  /\ capture' = capture + 1
  /\ UNCHANGED <<writerVars, frameVars, chunkVars, pipeVars, a_head, a_tail,
                 high_water_mark, held, aborting, ReaderChunkQ>>
-----------------------------------------------------------------------------
(* The READER side of the program has chunks of s.                          *)
WithReaderYet(s) == \E c \in ChunksOf(s) : c_owner[c] = "READER"

(* What was freed while READER had it is handed out again: the descriptors  *)
(* by alloc_chunk, to a file that is set up, the file by any call that      *)
(* allocates.  What is read and written through it from then on is          *)
(* undefined.                                                               *)
FreedIsReused ==
  /\ \E s \in Snap : ~file[s].live /\ WithReaderYet(s)
  /\ wpc' = "undefined"
  /\ UNCHANGED <<snap, file, WriterChunkQ, wp_nfiles, wp_totxfr, frameVars,
                 chunkVars, pipeVars, adcVars, readerVars>>

Writer == \/ \E s \in Snap, first \in Start, n \in Count : SnapCommand(s, first, n)
          \/ WriterPoll \/ WriterReceive \/ WriterEndsAgain
          \/ WriterService
          \/ WriterMapFails
          \/ WriterServed

Reader == \/ \E n \in 1 .. MaxBatch : ReaderCollect(n)
          \/ ReaderComplete \/ ReaderPurge
          \/ ReaderAbortSibling \/ ReaderAborted
          \/ ReaderPoll \/ ReaderReceive
          \/ ReaderStop \/ ReaderDrain
          \/ ReaderParam \/ ReaderInit \/ ReaderGo

(* The program has not gone wrong.                                          *)
Sound == wpc \notin {"crashed", "undefined"}

Next == Sound /\ (Writer \/ Reader \/ TidyRelease \/ FreedIsReused)

Spec == Init /\ [][Next]_vars

(* Each thread keeps going round its loop.  A pass of the READER that finds *)
(* neither data nor a message changes nothing, so fairness of the READER    *)
(* also says that data arrive or, after the dry period, the ADC is stopped. *)
FairSpec ==
  /\ Spec /\ WF_vars(Writer)
  /\ WF_vars(Sound /\ Reader) /\ WF_vars(Sound /\ TidyRelease)
-----------------------------------------------------------------------------
(***************************************************************************)
(* Safety.                                                                 *)
(***************************************************************************)
NoDuplicate(q) == \A i, j \in DOMAIN q : q[i] = q[j] => i = j
In(x, q) == \E i \in DOMAIN q : q[i] = x

(* The READER side of the program has c: in a pipe, in hand or queued.      *)
WithReader(c) == In(c, toReader) \/ c = held \/ c \in ReaderChunkQ

(* A chunk descriptor passes between the threads by its pointer, and one    *)
(* queue link is used by both: it must never be in two places, and its      *)
(* owner, status and frame must say where it is (writer.c:1152-1164).  Only *)
(* a descriptor released while READER had it and handed out again breaks it.*)
InOnePlace ==
  /\ NoDuplicate(toReader) /\ NoDuplicate(toWriter)
  /\ \A c \in Chunk :
       /\ In(c, toReader) => c # held /\ c \notin ReaderChunkQ
       /\ c = held => c \notin ReaderChunkQ
       /\ WithReader(c) => /\ c_owner[c] = "READER" /\ c_status[c] = "WAITING"
                           /\ c_frame[c] # None
                           /\ ~In(c, toWriter)
       /\ In(c, toWriter) => /\ c_owner[c] = "READER"
                             /\ c_status[c] \in {"WRITTEN", "ERROR"}
       /\ c_owner[c] = "READER" => WithReader(c) \/ In(c, toWriter)
       /\ c \in WriterChunkQ <=> c_status[c] = "READY"
       /\ c_status[c] = "READY" => c_owner[c] = "WRITER"
       /\ c_frame[c] # None => WithReader(c)

OnePlace == wpc # "undefined" => InOnePlace

(* A frame serves one chunk at a time: it is free, attached to one chunk,   *)
(* or on its way to TIDY once; none in use is lost (chunk.c:114-126), but   *)
(* with the same exception.                                                 *)
FramesOwned ==
  /\ \A c, d \in Chunk : c_frame[c] # None /\ c_frame[c] = c_frame[d] => c = d
  /\ \A c \in Chunk : c_frame[c] # None => /\ c_frame[c] \in busy
                                           /\ ~In(c_frame[c], toTidy)
  /\ NoDuplicate(toTidy)
  /\ \A fr \in Frame : In(fr, toTidy) => fr \in busy
  /\ frameQ \cap busy = {}
  /\ \A fr \in busy : In(fr, toTidy) \/ \E c \in Chunk : c_frame[c] = fr

FrameOwnership == wpc # "undefined" => FramesOwned

(* f_pending counts the file's chunks that the READER side has, also when   *)
(* the file was freed under them; it decides when a failed file is freed    *)
(* (writer.c:1337-1343), or freed again.                                    *)
PendingCount ==
  \A s \in Snap : file[s].live \/ WithReaderYet(s) =>
    file[s].pending = Cardinality({c \in ChunksOf(s) : c_owner[c] = "READER"})

(* The transfer budget: every sample committed when a file was set up is    *)
(* credited back exactly once, whichever thread fails or writes its chunk   *)
(* and in whatever order the messages arrive (writer.c:1032-1042).          *)
BudgetConserved ==
  wp_totxfr = Budget - TotalSamples({c \in Chunk : \/ c \in WriterChunkQ
                                                   \/ c_owner[c] = "READER"})

(* A snapshot has at most one file in progress, none once it is over, and   *)
(* wp_nfiles counts them all (the assertion at writer.c:774 relies on it).  *)
FileAccounting ==
  /\ \A s \in Snap : /\ snap[s].pending = IF file[s].live THEN 1 ELSE 0
                     /\ snap[s].status \in {"COMPLETE", "ERROR"} => ~file[s].live
                     /\ snap[s].status = "COMPLETE" => snap[s].done = snap[s].count
  /\ wp_nfiles = Cardinality({s \in Snap : file[s].live})

(* A chunk accepted into the READER's queue keeps its data until it is due: *)
(* no purge moves the ring's tail past it (reader.c:526-530).               *)
QueuedChunkKeepsData == \A c \in ReaderChunkQ : a_tail <= c_first[c]

(* What is inductive.  A snapshot not yet accepted has no chunk anywhere;   *)
(* a chunk in the WRITER's queue belongs to a file that has not failed or   *)
(* been freed; f_written counts the chunks that are back WRITTEN, as long   *)
(* as the count may still be used; the READER has a chunk in hand only      *)
(* while it aborts.                                                         *)
FreshSnap ==
  \A s \in Snap : snap[s].status = "INIT" =>
    /\ ~file[s].live
    /\ \A c \in ChunksOf(s) : c_status[c] = "INIT" /\ c_owner[c] = "WRITER"

QueuedFile ==
  \A c \in WriterChunkQ : file[Parent(c)].live /\ file[Parent(c)].status # "ERROR"

WrittenChunks(s) == {c \in ChunksOf(s) : c_status[c] = "WRITTEN" /\ c_owner[c] = "WRITER"}

WrittenCount ==
  \A s \in Snap : file[s].live \/ (\E c \in ChunksOf(s) : c_owner[c] = "READER")
                    => file[s].written = Cardinality(WrittenChunks(s))

InHand == held # None => rpc = "abort"

(* What a file says of its snapshot.  While it is in progress the snapshot  *)
(* is neither over nor without it.  When a mapping failed the file went     *)
(* while chunks of it were with the READER: one of their siblings failed,   *)
(* so that f_written never gets to all of them.                             *)
FileTells(s) ==
  /\ snap[s].pending = IF file[s].live THEN 1 ELSE 0
  /\ file[s].live <=> snap[s].status \in {"PREPARE", "WRITING"}
  /\ snap[s].status = "INIT" => snap[s].done = 0
  /\ snap[s].status = "COMPLETE" => snap[s].done = snap[s].count
  /\ ~file[s].live /\ WithReaderYet(s) =>
       \E c \in ChunksOf(s) : c_owner[c] = "WRITER" /\ c_status[c] = "ERROR"

FileTellsSnap == \A s \in Snap : FileTells(s)

(* The inductive invariant, which does not need mapping never to fail.      *)
IInv == /\ TypeOK /\ InOnePlace /\ FramesOwned /\ FreshSnap /\ QueuedFile
        /\ WrittenCount /\ InHand /\ QueuedChunkKeepsData

(* A failed file is freed when its last chunk is back, not while the READER *)
(* side has others: only a mapping that fails frees it at once, which is    *)
(* how the faults come about (writer.c:1305-1309, 1342 against 1272).       *)
FreedByTheLast ==
  [][\A s \in Snap : file[s].live /\ ~file'[s].live /\ WithReaderYet(s)'
                      => WriterMapFails]_vars

(* As long as no mapping fails, READER has no chunk of a file that is gone, *)
(* no file is completed twice and nothing freed is used.                    *)
TidiedOnce == Sound /\ \A s \in Snap : WithReaderYet(s) => file[s].live

(* A file counts as done only when every chunk of it has been copied and    *)
(* has given its frame up; an aborted sibling must never be counted.        *)
DoneMeansWritten ==
  [][\A s \in Snap : snap'[s].done > snap[s].done =>
       \A c \in ChunksOf(s) : c_status[c] = "WRITTEN" /\ c_frame[c] = None]_vars

(* What a snapshot promises (SnapshotPromise): a file counts as done only   *)
(* once every chunk of it is copied and the copies of an earlier file, an    *)
(* aborted sibling or a late answer are never counted for it; the snapshot   *)
(* is COMPLETE with the files asked for; and COMPLETE or ERROR are for good. *)
PhaseOf(status) ==
  CASE status = "INIT" -> "none"
    [] status = "COMPLETE" -> "complete"
    [] status = "ERROR" -> "failed"
    [] OTHER -> "active"
Phase(s) == PhaseOf(snap[s].status)

Copied(s) ==
  IF Phase(s) = "active" THEN {i \in 1 .. NChunk : c_status[<<s, i>>] = "WRITTEN"} ELSE {}

Promise == INSTANCE SnapshotPromise WITH
  Part <- 1 .. NChunk,
  phase <- [s \in Snap |-> Phase(s)],
  count <- [s \in Snap |-> snap[s].count],
  done <- [s \in Snap |-> snap[s].done],
  copied <- [s \in Snap |-> Copied(s)]
KeepsPromise == Promise!Spec

(* Liveness: every chunk sent to the READER comes back, written or failed,  *)
(* whether data arrive or stop (reader.c:488-495, 575-582).                 *)
ChunkComesBack ==
  \A c \in Chunk : c_owner[c] = "READER" ~> c_owner[c] = "WRITER"

(* Every chunk waiting in the WRITER gets a frame or is aborted: frames are *)
(* never all lost, and no chunk waits for one forever (writer.c:1240-1290). *)
ChunkLeavesWriter == \A c \in Chunk : c \in WriterChunkQ ~> c \notin WriterChunkQ

(* A failed file with nothing pending: nobody will complete it any more.    *)
Hung(s) == file[s].live /\ file[s].status = "ERROR" /\ file[s].pending = 0

(* Every snapshot accepted by the WRITER ends, COMPLETE or in ERROR, unless *)
(* its file was written to after it failed: that is the only way to hang.   *)
SnapshotEnds ==
  \A s \in Snap : snap[s].status # "INIT"
                     ~> snap[s].status \in {"COMPLETE", "ERROR"} \/ Hung(s)
=============================================================================
