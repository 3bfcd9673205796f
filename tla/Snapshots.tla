------------------------------ MODULE Snapshots ------------------------------
(***************************************************************************)
(* What the WRITER makes of its commands (writer.c): the Snap request, its *)
(* parameters and its sample range; the files of a snapshot, one after the *)
(* other, and the chunks each is divided into; the Dir command; and the    *)
(* Ztatus command, which reports a finished snapshot once and frees it.    *)
(* How the chunks of a file are captured is ChunkFlow's; here a file ends  *)
(* well, once its last sample has been captured, or fails.                 *)
(*                                                                         *)
(* Integers have the code's widths: sample numbers and times are uint64_t, *)
(* s_samples is uint32_t, s_bytes is int.  Word and Half stand for 2^64   *)
(* and 2^31, NameMod for the 2^16 of the name of a snapshot.               *)
(***************************************************************************)
EXTENDS Integers, Sequences, FiniteSets

CONSTANTS
  Word, Half,        \* widths, see above
  NameMod,
  SampleBytes,      \* sizeof(sampl_t)
  Kib,              \* bytes in a KiB
  PageBytes,        \* bytes in a page
  NChannels,        \* samples in one sweep of the channels
  MaxChunkKib,      \* MAX_CHUNK_SZ
  Intersample,      \* a_intersample_ns
  ChunkKibs,        \* the chunk sizes the program may be started with [KiB]
  Paths, Dirs,      \* values of path= in Snap and in Dir
  Requests,         \* the Snap requests there may be, see below
  MayFail,          \* TRUE if a file may fail to be set up
  Batch,            \* samples the device delivers between two looks
  MaxHead,          \* bound on the samples of a capture
  MaxSnap,          \* bound on the Snap commands
  MaxCapture,       \* bound on the Go commands
  None

Parameter == {"begin", "end", "start", "finish", "length", "count", "path"}

ASSUME SnapshotsConstants ==
  /\ {Word, Half, NameMod, SampleBytes, Kib, PageBytes, NChannels, MaxChunkKib,
      Intersample, Batch} \subseteq Nat \ {0}
  /\ NameMod > 1
  /\ MaxHead \in Nat /\ Batch <= MaxHead /\ MaxSnap \in Nat /\ MaxCapture \in Nat
  /\ ChunkKibs \subseteq 1 .. MaxChunkKib
  /\ PageBytes % Kib = 0 /\ PageBytes % (SampleBytes * NChannels) = 0
  /\ MaxChunkKib <= PageBytes            \* 4096 and 4096
  /\ (MaxChunkKib * Kib) % PageBytes = 0
  /\ PageBytes <= Half /\ 2 * Half <= Word
  /\ Requests \subseteq [given : SUBSET Parameter, low : 0 .. Word - 1,
                           high : 0 .. Word - 1, count : Nat \ {0}, path : Paths]
  /\ MayFail \in BOOLEAN
  /\ None \notin Nat

VARIABLES
  w_chunksize,      \* chunk size in force [KiB]
  now,              \* the clock
  adc,              \* [run, head, time, start]: the READER's ADC, its start a ghost
  capture,          \* Go commands so far
  cwd,              \* the WRITER's working directory: None is snapdir
  dirs,             \* directories there are, <<where, name>>
  snap_counter,
  snapQ,            \* active snapshots, the newest first
  wp_nfiles,        \* files in progress
  snaps,            \* Snap commands so far; numbers the snapshots (ghost)
  accepted,         \* numbers of those that were answered OK (ghost)
  disk,             \* files written in full (ghost)
  told              \* numbers of those Ztatus has reported finished (ghost)

adcVars == <<now, adc, capture>>
vars == <<w_chunksize, adcVars, cwd, dirs, snap_counter, snapQ, wp_nfiles, snaps,
          accepted, disk, told>>
-----------------------------------------------------------------------------
(***************************************************************************)
(* Arithmetic.                                                             *)
(***************************************************************************)
CeilDiv(a, b) == (a + b - 1) \div b
RoundUp(a, b) == b * CeilDiv(a, b)

U64(x) == x % Word
U32(x) == x % (2 * Half)
I32(x) == IF U32(x) < Half THEN U32(x) ELSE U32(x) - 2 * Half

(* The % of C for a dividend that may be negative.                         *)
CRem(a, b) == IF a >= 0 THEN a % b ELSE -((-a) % b)

(* verify_writer_params: whole pages.                                      *)
Verified(kib) == (RoundUp(kib * Kib, PageBytes)) \div Kib

ChunkSamples == (w_chunksize * Kib) \div SampleBytes
PageSamples == PageBytes \div SampleBytes
-----------------------------------------------------------------------------
(***************************************************************************)
(* The request: r.given are the parameters present, r.low the value of     *)
(* begin= or start=, r.high that of end= or finish=.  A request that does  *)
(* not parse is rejected like one whose parameters are not legal.          *)
(***************************************************************************)
ExactlyOne(r, p, q) == Cardinality({p, q} \cap r.given) = 1

(* check_snapshot_params.                                                  *)
LegalParams(r) ==
  /\ "path" \in r.given
  /\ {"begin", "start"} \cap r.given # {}
  /\ "begin" \in r.given => "finish" \notin r.given /\ ExactlyOne(r, "end", "length")
  /\ "start" \in r.given => "end" \notin r.given /\ ExactlyOne(r, "finish", "length")

(* s_last as the parameters leave it: length= does not touch it.           *)
LastGiven(r) == IF {"end", "finish"} \cap r.given # {} THEN r.high ELSE 0

Acceptable(r) ==
  /\ LegalParams(r)
  /\ LastGiven(r) > r.low                \* else "end before start"
  /\ <<cwd, r.path>> \notin dirs         \* else it exists already
  /\ adc.run

(* The WRITER reads the head and its time, once for each end of the range,  *)
(* with no lock while the READER moves both: the last delivery may come    *)
(* between the ends, or within one of them.  At most one delivery falls    *)
(* into a request, which is a bound.                                       *)
Now == [head |-> adc.head, time |-> adc.time]
Before == IF adc.head > Batch
            THEN [head |-> adc.head - Batch, time |-> adc.time - Batch * Intersample]
            ELSE [head |-> 0, time |-> 0]
Torn == {[head |-> adc.head, time |-> Before.time], [head |-> Before.head, time |-> adc.time]}
Readings == {<<Now, Now>>, <<Before, Now>>} \cup (Torn \X {Now}) \cup ({Before} \X Torn)

(* adc_time_to_sample, counted from the head and its time as they were read. *)
TimeToSample(t, at) ==
  IF t > at.time THEN U64(at.head + (t - at.time) \div Intersample)
  ELSE U64(at.head - (at.time - t) \div Intersample)

RoundDown(x) == x - (x % NChannels)

(* setup_snapshot_samples: first sample, samples and bytes of one file.    *)
FirstSample(r, at) == IF "begin" \in r.given THEN RoundDown(TimeToSample(r.low, at)) ELSE r.low
LastSample(r, at) ==
  U64(RoundUp(IF "begin" \in r.given THEN TimeToSample(r.high, at) ELSE r.high, NChannels))

(* Mutant: whole pages, those that are full.                               *)
FileBytes_Down(n) == LET b == I32(n * SampleBytes) IN I32(b - CRem(b, PageBytes))

(* n samples take so many bytes: whole pages.                              *)
FileBytes(n) ==
  LET b == I32(n * SampleBytes)
  IN I32(b + CRem(PageBytes - CRem(b, PageBytes), PageBytes))

(* s_samples, from bytes taken for an unsigned number of 64 bits.          *)
FileSamples(bytes) == U32(U64(bytes) \div SampleBytes)
-----------------------------------------------------------------------------
(***************************************************************************)
(* The chunks of a file.                                                   *)
(***************************************************************************)
(* Mutant: milli-chunks divided without rounding up.                       *)
NChunks_Floor(bytes) == (bytes \div w_chunksize) \div Kib

(* f_nchunks: bytes over KiB gives "milli-chunks", rounded down.           *)
NChunks(bytes) == CeilDiv(bytes \div w_chunksize, Kib)

(* The size of the next chunk while the last is still to come: what is left *)
(* for the last two is halved, to whole pages.  (The code keeps the half   *)
(* for the last chunk, which is no larger.)                                *)
Share(rest) ==
  IF rest > ChunkSamples /\ rest < 2 * ChunkSamples
    THEN RoundUp(rest \div 2, PageSamples)
    ELSE ChunkSamples

AtMost(a, b) == IF a < b THEN a ELSE b

(* Where a file is cut: the chunks so far, [first, last, samples, offset],  *)
(* the samples that are left and those that are placed.                    *)
Uncut(samples) == [chunks |-> <<>>, rest |-> samples, at |-> 0]

OneMore(p, first) ==
  LET n == AtMost(Share(p.rest), p.rest)
  IN [chunks |-> Append(p.chunks,
        [first |-> U64(first + p.at), last |-> U64(first + p.at + n),
         samples |-> n, offset |-> p.at * SampleBytes]),
      rest |-> p.rest - n, at |-> p.at + n]

(* The chunks in order.                                                    *)
ChunksOf(first, samples, bytes) ==
  LET cut[i \in 0 .. NChunks(bytes)] ==       \* i chunks placed
        IF i = 0 THEN Uncut(samples) ELSE OneMore(cut[i - 1], first)
  IN cut[NChunks(bytes)].chunks
-----------------------------------------------------------------------------
(***************************************************************************)
(* Snapshots and their files.  file is the first sample of the file in     *)
(* progress, and names it; dir and want are for the properties.            *)
(***************************************************************************)
(* s_name: 0 is left out.                                                  *)
Named == IF snap_counter = 0 THEN 1 ELSE snap_counter

(* build_snapshot_descriptor, of an acceptable request; lo and hi is what   *)
(* was read of the ADC for its two ends.                                   *)
Built(r, lo, hi) ==
  LET first == FirstSample(r, lo)
      bytes == FileBytes(U32(U64(LastSample(r, hi) - first)))
      samples == FileSamples(bytes)
  IN [id |-> snaps + 1,
      name |-> Named,
      first |-> first, last |-> U64(first + samples), samples |-> samples, bytes |-> bytes,
      count |-> IF "count" \in r.given THEN r.count ELSE 1,
      pending |-> 0, done |-> 0, status |-> "PREPARE", file |-> None,
      dir |-> <<cwd, r.path>>,
      want |-> LET timed == "begin" \in r.given
               IN [low |-> r.low, high |-> r.high, first |-> first,
                   timed |-> timed, start |-> adc.start,
                   live |-> timed /\ lo.time > 0 /\ hi.time > 0,
                   torn |-> timed /\ {lo, hi} \ {Now, Before} # {}]]

(* setup_snapfile cannot open, pre-size or divide the file.                *)
SetupMayFail(s) == MayFail \/ s.bytes < 0
SetupMayDo(s) == s.bytes >= 0

WithFile(s) ==
  [s EXCEPT !.file = s.first, !.pending = s.pending + 1,
            !.first = U64(s.first + s.samples), !.last = U64(s.last + s.samples)]

(* refresh_snapshot: what snapshot s may become.                           *)
Refreshed(s) ==
  IF s.status = "ERROR" THEN {s}
  ELSE IF s.done = s.count THEN {[s EXCEPT !.status = "COMPLETE"]}
  ELSE IF s.done + s.pending = s.count \/ (wp_nfiles >= 2 /\ s.pending # 0) THEN {s}
  ELSE (IF SetupMayDo(s) THEN {WithFile(s)} ELSE {})
       \cup (IF SetupMayFail(s) THEN {[s EXCEPT !.status = "ERROR"]} ELSE {})

Complete(s) == s.status \in {"COMPLETE", "ERROR"}

(* Mutant: the counter follows the snapshots there are.                    *)
NextCounter_Live == (Len(snapQ) + 2) % NameMod

(* alloc_snapshot, before anything is checked.                             *)
NextCounter == (Named + 1) % NameMod

SnapRejected(r) ==
  /\ ~Acceptable(r)
  /\ UNCHANGED <<dirs, snapQ, wp_nfiles, accepted>>

SnapAccepted(r) ==
  /\ Acceptable(r)
  /\ dirs' = dirs \cup {<<cwd, r.path>>}
  /\ \E at \in Readings : \E s \in Refreshed(Built(r, at[1], at[2])) :
       /\ snapQ' = <<s>> \o snapQ
       /\ wp_nfiles' = wp_nfiles + s.pending
  /\ accepted' = accepted \cup {snaps + 1}

Snap(r) ==
  /\ snaps < MaxSnap
  /\ snaps' = snaps + 1 /\ snap_counter' = NextCounter
  /\ SnapRejected(r) \/ SnapAccepted(r)
  /\ UNCHANGED <<w_chunksize, adcVars, cwd, disk, told>>

(* Mutant: a file that failed is taken for one that is done.               *)
Ended_Counted(s, ok) ==
  [s EXCEPT !.file = None, !.pending = s.pending - 1, !.done = s.done + 1,
            !.status = "WRITING"]

(* completed_snapfile, of the file in progress.                            *)
Ended(s, ok) ==
  [s EXCEPT !.file = None, !.pending = s.pending - 1,
            !.done = IF ok THEN s.done + 1 ELSE s.done,
            !.status = IF ok THEN "WRITING" ELSE "ERROR"]

FileEnds(i, ok) ==
  /\ snapQ[i].pending > 0
  /\ \E s \in Refreshed(Ended(snapQ[i], ok)) :
       /\ snapQ' = [snapQ EXCEPT ![i] = s]
       /\ wp_nfiles' = wp_nfiles - 1 + s.pending
  /\ UNCHANGED <<w_chunksize, adcVars, cwd, dirs, snap_counter, snaps, accepted, told>>

(* The samples of a file are there when its last one is.                   *)
Captured(s) == adc.run /\ U64(s.file + s.samples) <= adc.head

(* Every chunk was written.  An empty file, for which alloc_chunk(0) gives *)
(* one chunk, never gets there: a mapping of no bytes fails.  (If the pool *)
(* has no chunk the program follows NULL; that end is not kept here.)      *)
FileDone(i) ==
  /\ snapQ[i].file # None /\ Captured(snapQ[i]) /\ NChunks(snapQ[i].bytes) > 0
  /\ disk' = disk \cup {[id |-> snapQ[i].id, dir |-> snapQ[i].dir, first |-> snapQ[i].file,
                         samples |-> snapQ[i].samples]}
  /\ FileEnds(i, TRUE)

(* A chunk could not be mapped, came too late, or the capture ended.  The   *)
(* file is unlinked.                                                       *)
FileFails(i) ==
  /\ FileEnds(i, FALSE)
  /\ UNCHANGED disk
-----------------------------------------------------------------------------
(* Mutant: a snapshot is freed when its status was asked for.              *)
Stays_Not(i) == FALSE

(* A snapshot that was reported stays in the queue while it is in progress.*)
Stays(i) == ~Complete(snapQ[i])

(* What is at the places keep of the queue, as a queue.                    *)
Place(keep, i) == Cardinality({j \in keep : j <= i})
Keeping(keep) ==
  [n \in 1 .. Cardinality(keep) |-> snapQ[CHOOSE i \in keep : Place(keep, i) = n]]

(* snapshot_report_status of the snapshots at the places q, and free_snapshot. *)
Report(q) ==
  /\ snapQ' = Keeping({i \in DOMAIN snapQ : i \notin q \/ Stays(i)})
  /\ told' = told \cup {snapQ[i].id : i \in {j \in q : Complete(snapQ[j])}}

(* Ztatus, of the snapshot called name or, if that is 0, of all.           *)
Ztatus(name) ==
  /\ snapQ # <<>>
  /\ LET named == {i \in DOMAIN snapQ : snapQ[i].name = name}
     IN IF name = 0 THEN Report(DOMAIN snapQ)
        ELSE /\ named # {}
             /\ Report({CHOOSE i \in named : \A j \in named : i <= j})
  /\ UNCHANGED <<w_chunksize, adcVars, cwd, dirs, snap_counter, wp_nfiles, snaps,
                 accepted, disk>>

(* Dir, relative to snapdir; without a path, back to snapdir.              *)
Dir(p) ==
  /\ cwd' = p
  /\ dirs' = IF p = None THEN dirs ELSE dirs \cup {<<None, p>>}
  /\ UNCHANGED <<w_chunksize, adcVars, snap_counter, snapQ, wp_nfiles, snaps,
                 accepted, disk, told>>
-----------------------------------------------------------------------------
(***************************************************************************)
(* The ADC, as the WRITER sees it: Go, the data, and the end.  Samples are  *)
(* Intersample apart and the first is taken at adc.start.                  *)
(***************************************************************************)
notAdc == <<w_chunksize, cwd, dirs, snap_counter, snapQ, wp_nfiles, snaps, accepted, disk, told>>

Go ==
  /\ ~adc.run /\ capture < MaxCapture
  /\ adc' = [run |-> TRUE, head |-> 0, time |-> 0, start |-> now]
  /\ capture' = capture + 1
  /\ UNCHANGED <<now, notAdc>>

(* adc_data_collect: head and time move together.                          *)
Collect ==
  /\ adc.run /\ adc.head < MaxHead
  /\ now' = now + Batch * Intersample
  /\ adc' = [adc EXCEPT !.head = adc.head + Batch, !.time = now']
  /\ UNCHANGED <<capture, notAdc>>

Halt ==
  /\ adc.run
  /\ adc' = [adc EXCEPT !.run = FALSE]
  /\ UNCHANGED <<now, capture, notAdc>>
-----------------------------------------------------------------------------
(* The clock is well past 0 when the program starts.  Snapshots taken and   *)
(* reported before may have brought the counter close to its end.          *)
Init ==
  /\ w_chunksize \in {Verified(k) : k \in ChunkKibs}
  /\ now = 2 * MaxHead * Intersample
  /\ adc = [run |-> FALSE, head |-> 0, time |-> 0, start |-> 0] /\ capture = 0
  /\ cwd = None /\ dirs = {} /\ snap_counter \in {0, NameMod - 1} /\ snapQ = <<>>
  /\ wp_nfiles = 0 /\ snaps = 0 /\ accepted = {} /\ disk = {} /\ told = {}

Next ==
  \/ \E r \in Requests : Snap(r)
  \/ \E i \in DOMAIN snapQ : FileDone(i) \/ FileFails(i)
  \/ \E name \in 0 .. NameMod - 1 : Ztatus(name)
  \/ \E p \in Dirs \cup {None} : Dir(p)
  \/ Go \/ Collect \/ Halt

Spec == Init /\ [][Next]_vars
-----------------------------------------------------------------------------
Status == {"PREPARE", "WRITING", "COMPLETE", "ERROR"}
All == {snapQ[i] : i \in DOMAIN snapQ}

(* A snapshot descriptor, with what the properties look back to.           *)
Wish == [low : 0 .. Word - 1, high : 0 .. Word - 1, first : 0 .. Word - 1,
         timed : BOOLEAN, start : Nat, live : BOOLEAN, torn : BOOLEAN]
Snapshot ==
  [id : Nat, name : 1 .. NameMod - 1, first : 0 .. Word - 1, last : 0 .. Word - 1,
   samples : 0 .. 2 * Half - 1, bytes : -Half .. Half - 1, count : Nat \ {0},
   pending : 0 .. 1, done : Nat, status : Status, file : (0 .. Word - 1) \cup {None},
   dir : (Dirs \cup {None}) \X Paths, want : Wish]

TypeOK ==
  /\ w_chunksize \in 1 .. MaxChunkKib /\ (w_chunksize * Kib) % PageBytes = 0
  /\ now \in Nat /\ adc \in [run : BOOLEAN, head : Nat, time : Nat, start : Nat]
  /\ capture \in 0 .. MaxCapture /\ cwd \in Dirs \cup {None}
  /\ snap_counter \in 0 .. NameMod - 1 /\ wp_nfiles \in Nat
  /\ snapQ \in Seq(Snapshot) /\ snaps \in Nat
  /\ accepted \subseteq 1 .. snaps /\ told \subseteq accepted

(* A file is divided into chunks that follow one another without a gap, in *)
(* samples and in the file, and fill it; each is made of whole pages, is   *)
(* at offset of whole pages, is no larger than a chunk and no smaller than *)
(* half of one unless the file is ("never transfer more than this, nor     *)
(* less than half", snapshot.8a:333-334; writer.c:1022-1081).  The number  *)
(* of chunks is right only because MAX_CHUNK_SZ is no more than the bytes  *)
(* of a page.                                                              *)
FileIsTiled ==
  \A s \in All : s.file # None =>
    LET c == ChunksOf(s.file, s.samples, s.bytes)
        n == Len(c)
    IN s.bytes > 0 =>
       /\ n > 0 /\ c[1].first = s.file /\ c[1].offset = 0
       /\ \A i \in 1 .. n - 1 :
            c[i + 1].first = c[i].last /\ c[i + 1].offset = c[i].offset + c[i].samples * SampleBytes
       /\ c[n].last = U64(s.file + s.samples)
       /\ c[n].offset + c[n].samples * SampleBytes = s.bytes
       /\ \A i \in 1 .. n :
            /\ c[i].samples % PageSamples = 0 /\ c[i].samples <= ChunkSamples
            /\ 2 * c[i].samples >= AtMost(ChunkSamples, s.samples)

(* The range a snapshot was asked for is in its first file, if its bytes   *)
(* fit an int.  Times are met within two samples, if data had arrived and   *)
(* they are not before the first sample (snapshot.8a:133-139); a head and a *)
(* head time that do not belong together cost one delivery at either end,  *)
(* and nothing is promised then of a range that is no longer than two, of  *)
(* which the end may come to be before the beginning (adc.c:454-467).       *)
Wanted(s) == IF s.want.timed THEN (s.want.high - s.want.low) \div Intersample
             ELSE s.want.high - s.want.low
Fits(s) == (Wanted(s) + 2 * Batch) * SampleBytes + 2 * PageBytes < Half
TimeOf(s, n) == s.want.start + n * Intersample

Covered(s) ==
  IF ~s.want.timed
    THEN s.want.first <= s.want.low /\ s.want.first + s.samples >= s.want.high
    ELSE LET off == (IF s.want.torn THEN Batch + 2 ELSE 2) * Intersample
         IN (/\ s.want.live
             /\ s.want.low >= s.want.start + (IF s.want.torn THEN off ELSE 0)
             /\ s.want.torn => Wanted(s) > 2 * Batch)
            => /\ TimeOf(s, s.want.first) < s.want.low + off
               /\ TimeOf(s, s.want.first + s.samples) > s.want.high - off

RangeIsCovered == \A s \in All : Fits(s) => Covered(s)

FileOf(s, k) ==
  [id |-> s.id, dir |-> s.dir, first |-> U64(s.want.first + k * s.samples), samples |-> s.samples]

(* A snapshot reported complete has all its files on disk, in its own      *)
(* directory, each beginning where the one before it ended (writer.c:755-  *)
(* 763, 782-785, 855-867).                                                 *)
CompleteIsOnDisk ==
  \A s \in All : s.status = "COMPLETE" =>
    \A k \in 0 .. s.count - 1 : FileOf(s, k) \in disk

(* Each accepted snapshot is in the queue until it is reported finished,   *)
(* and that happens once (snapshot.8a:150-158; writer.c:921-929, 936-942). *)
ReportedOnce ==
  /\ accepted = {s.id : s \in All} \cup told
  /\ \A s \in All : s.id \notin told

(* Two snapshots have the same name only when the counter has gone all the *)
(* way round, so that Ztatus finds the one it was asked for                *)
(* (writer.c:441-456, 911-916).                                            *)
NamesDiffer ==
  \A i, j \in DOMAIN snapQ :
    i # j /\ snapQ[i].name = snapQ[j].name => (snapQ[i].id - snapQ[j].id) % (NameMod - 1) = 0
-----------------------------------------------------------------------------
(***************************************************************************)
(* What these rest on: the inductive invariant.                            *)
(***************************************************************************)
(* The bytes of a file that fit an int are whole pages, full of samples.   *)
Paged(s) ==
  s.bytes > 0 => s.bytes % PageBytes = 0 /\ s.bytes = s.samples * SampleBytes
FilesPaged == \A i \in DOMAIN snapQ : Paged(snapQ[i])

(* Where a snapshot is: in progress with one file, of which it has the       *)
(* first sample and that of the next, or over; the files done are on disk. *)
Progress(s, files) ==
  /\ s.done + s.pending <= s.count
  /\ (s.pending = 1) = (s.file # None)
  /\ (s.pending = 1) = (s.status \in {"PREPARE", "WRITING"})
  /\ s.status = "COMPLETE" => s.done = s.count
  /\ s.pending = 1 => /\ s.file = U64(s.want.first + s.done * s.samples)
                      /\ s.first = U64(s.want.first + (s.done + 1) * s.samples)
  /\ \A k \in 0 .. s.done - 1 : FileOf(s, k) \in files

FilesInOrder == \A i \in DOMAIN snapQ : Progress(snapQ[i], disk)

InProgress == {i \in DOMAIN snapQ : snapQ[i].pending = 1}
FilesCounted == wp_nfiles = Cardinality(InProgress)

(* Numbers tell snapshots apart, and the name of each is as far from the   *)
(* next name as its number is from the next number.                        *)
NumbersDiffer ==
  /\ \A i \in DOMAIN snapQ : snapQ[i].id \in 1 .. snaps
  /\ \A i, j \in DOMAIN snapQ : snapQ[i].id = snapQ[j].id => i = j
NamesInTurn ==
  \A i \in DOMAIN snapQ :
    ((snapQ[i].name - snapQ[i].id) - (Named - (snaps + 1))) % (NameMod - 1) = 0

(* The samples of a capture follow one another from its start to now.      *)
ClockOK ==
  /\ now >= 2 * MaxHead * Intersample
  /\ adc.run => /\ adc.start >= 2 * MaxHead * Intersample
                /\ now = adc.start + adc.head * Intersample
                /\ adc.time = IF adc.head = 0 THEN 0 ELSE now

IInv ==
  /\ TypeOK /\ FilesPaged /\ FilesInOrder /\ FilesCounted /\ NumbersDiffer
  /\ NamesInTurn /\ ClockOK /\ ReportedOnce /\ RangeIsCovered
=============================================================================
