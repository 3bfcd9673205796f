------------------------------- MODULE Buffers -------------------------------
(***************************************************************************)
(* The two recycling pools of the program and the life of what comes from  *)
(* them: string buffers (strbuf.c), which carry a command and its reply    *)
(* between MAIN, the READER and the WRITER and collect the errors of a     *)
(* snapshot (snapshot.c, writer.c, reader.c), and chunk descriptors        *)
(* (chunk.c).                                                              *)
(*                                                                         *)
(* A command takes two buffers: c, the command, and e, the reply, linked   *)
(* in a ring.  They go to a thread and come back, c now holding what else  *)
(* there is to say, and MAIN releases the whole ring.  A Snap that is      *)
(* accepted takes c out of the ring and keeps it for the snapshot, until   *)
(* a Ztatus links it into its own reply.  MAIN has one command under way   *)
(* at a time (Threads).                                                    *)
(*                                                                         *)
(* What is written in a buffer is the set of the commands whose text is in *)
(* it; a snapshot has the number of its Snap.  Memory is never short.      *)
(***************************************************************************)
EXTENDS Integers, Sequences, FiniteSets, SequencesExt

CONSTANTS
  StrbufAlloc,    \* N_STRBUF_ALLOC
  ChunkAlloc,     \* N_CHUNK_ALLOC
  FileChunks,     \* chunks a file may be divided into
  MayMapFail,     \* TRUE if mmap_and_lock of a chunk may fail
  MaxAsk,         \* bound on the commands
  MaxOut,         \* bound on the chunks of a file with the READER
  MaxCounted      \* bound on N_in_chunkQ, beyond which no further file is set up

ASSUME BuffersConstants ==
  /\ StrbufAlloc \in Nat /\ StrbufAlloc >= 2
  /\ ChunkAlloc \in Nat \ {0} /\ FileChunks \subseteq Nat \ {0}
  /\ MayMapFail \in BOOLEAN /\ MaxAsk \in Nat /\ MaxOut \in Nat /\ MaxCounted \in Nat

VARIABLES
  sbufQ,        \* free string buffers, the next to be taken first
  N_in_Q,
  made,         \* string buffers there are: 1 .. made
  text,         \* text[b]: whose text is in b
  at,           \* where the command under way is: idle, READER, WRITER, reply
  cmd,          \* number and kind of the last command
  chain,        \* its buffers, as a ring; c and e while it is carried out, e first in the reply
  shown,        \* snapshots it reports
  snapQ,        \* snapshots not reported finished, the newest first
  lost,         \* chunks with the READER whose file was freed
  chunkQ,       \* number of free chunk descriptors
  N_in_chunkQ,
  crashed       \* no, or the pool from which NULL was taken, or a file ended twice

mainVars == <<at, cmd, chain, shown>>
strbufVars == <<sbufQ, N_in_Q, made>>
chunkVars == <<chunkQ, N_in_chunkQ>>
vars == <<strbufVars, text, mainVars, snapQ, lost, chunkVars, crashed>>

Kind == {"own", "reader", "snap", "ztatus", "writer"}
Over(s) == s.state = "over"
-----------------------------------------------------------------------------
(***************************************************************************)
(* The pools.                                                              *)
(***************************************************************************)
(* N_in_Q when nr of n buffers have been taken.                            *)
CountAfter(n, nr) == n

(* alloc_strbuf(2): c and e are the first of Free.  That there are two is  *)
(* not what the count tells; if there are not NULL is used.                *)
More == IF N_in_Q < 2 THEN StrbufAlloc ELSE 0
Free == [i \in 1 .. More |-> made + i] \o sbufQ
Rest(q) == SubSeq(q, 3, Len(q))
C == Free[1]
E == Free[2]

(* release_strbuf of a ring: the buffer it is given comes last.            *)
Released(ring) == Tail(ring) \o <<Head(ring)>>
ReleaseStrbuf(ring) ==
  /\ sbufQ' = sbufQ \o Released(ring) /\ N_in_Q' = N_in_Q + Len(ring)
  /\ UNCHANGED made

(* alloc_chunk(nr) of a pool with so many free, and counted: at most one    *)
(* batch is added.                                                         *)
AllocChunk(free, counted, nr) ==
  LET batch == IF counted < nr THEN ChunkAlloc ELSE 0
  IN /\ N_in_chunkQ' = counted + batch
     /\ IF free + batch >= nr
          THEN chunkQ' = free + batch - nr /\ UNCHANGED crashed
          ELSE chunkQ' = 0 /\ crashed' = "chunk"

(* Mutant: the descriptor the ring was given by is left out.               *)
FreeAfter_Rest(nr) == chunkQ + nr - 1

(* release_chunk of the nr descriptors of a file.                          *)
FreeAfter(nr) == chunkQ + nr
ReleaseChunk(nr) == chunkQ' = FreeAfter(nr) /\ N_in_chunkQ' = N_in_chunkQ + nr
-----------------------------------------------------------------------------
(***************************************************************************)
(* MAIN.                                                                   *)
(***************************************************************************)
Number == cmd.number

(* Text of command n, and of its reply; that of snapshot n is n.           *)
Of(n) == -n

Takes(kind) ==
  /\ at = "idle" /\ crashed = "no" /\ Number < MaxAsk
  /\ cmd' = [number |-> Number + 1, kind |-> kind]
  /\ made' = made + More

Crashes ==
  /\ Len(Free) < 2 /\ crashed' = "strbuf"
  /\ UNCHANGED <<sbufQ, N_in_Q, text, at, chain, shown, snapQ, lost, chunkVars>>

Said(c, e) ==
  text' = [b \in 1 .. made + More |-> IF b = C THEN c ELSE IF b = E THEN e
                                     ELSE IF b > made THEN {} ELSE text[b]]

(* process_snapshot_command, of a command that is forwarded.               *)
MainForward(kind) ==
  /\ kind # "own" /\ Takes(kind)
  /\ \/ Crashes
     \/ /\ Len(Free) >= 2
        /\ N_in_Q' = CountAfter(N_in_Q + More, 2) /\ sbufQ' = Rest(Free)
        /\ chain' = <<C, E>>
        /\ Said({Of(Number + 1)}, {})
        /\ at' = IF kind = "reader" THEN "READER" ELSE "WRITER"
        /\ UNCHANGED <<shown, snapQ, lost, chunkVars, crashed>>

(* ... and of one that MAIN answers: the buffers are taken and released.   *)
MainAnswer ==
  /\ Takes("own")
  /\ \/ Crashes
     \/ /\ Len(Free) >= 2
        /\ N_in_Q' = CountAfter(N_in_Q + More, 2) + 2
        /\ sbufQ' = Rest(Free) \o Released(<<C, E>>)
        /\ Said({Of(Number + 1)}, {Of(Number + 1)})
        /\ UNCHANGED <<at, chain, shown, snapQ, lost, chunkVars, crashed>>

(* process_reply.                                                          *)
MainReply ==
  /\ at = "reply" /\ crashed = "no" /\ at' = "idle"
  /\ ReleaseStrbuf(chain) /\ chain' = <<>> /\ shown' = {}
  /\ UNCHANGED <<text, cmd, snapQ, lost, chunkVars, crashed>>
-----------------------------------------------------------------------------
(***************************************************************************)
(* Commands.  e gets the reply and c, unless it has something to say, is   *)
(* cleared.                                                                *)
(***************************************************************************)
Replies(said) ==
  /\ at' = "reply"
  /\ text' = [text EXCEPT ![chain[2]] = {Of(Number)}, ![chain[1]] = said]

(* Of the READER, or one of the WRITER that is rejected, or a Dir.         *)
Answer ==
  /\ at \in {"READER", "WRITER"} /\ crashed = "no"
  /\ Replies({}) /\ chain' = Reverse(chain)
  /\ UNCHANGED <<strbufVars, cmd, shown, snapQ, lost, chunkVars, crashed>>

(* A snapshot: its buffer, the number of chunks of its file in progress,   *)
(* and how many of them the READER has.                                    *)
NewSnap(size) == [number |-> Number, buf |-> chain[1], state |-> "active", size |-> size,
                  out |-> 0]

(* Mutant: the snapshot's buffer is left in the ring.                      *)
SnapReply_Linked == Reverse(chain)

(* The ring of a Snap that was accepted.                                   *)
SnapReply == Tail(chain)

(* Mutant: the buffer still has the command.                               *)
SnapText_Command(failed) == {Of(Number)} \cup (IF failed THEN {Number} ELSE {})

(* The snapshot's buffer: cleared, with the failure to set up its file.    *)
SnapText(failed) == IF failed THEN {Number} ELSE {}

(* process_writer_command and setup_snapfile.                              *)
WriterSnap(size) ==
  /\ at = "WRITER" /\ cmd.kind = "snap" /\ crashed = "no"
  /\ \/ /\ AllocChunk(chunkQ, N_in_chunkQ, size)
        /\ Replies(SnapText(FALSE))
        /\ snapQ' = <<NewSnap(size)>> \o snapQ
     \/ /\ Replies(SnapText(TRUE))
        /\ snapQ' = <<[NewSnap(size) EXCEPT !.state = "over"]>> \o snapQ
        /\ UNCHANGED <<chunkVars, crashed>>
  /\ chain' = SnapReply
  /\ UNCHANGED <<strbufVars, cmd, shown, lost>>

(* Mutant: the buffer of a snapshot in progress is linked too.             *)
Linked_All(s) == TRUE

(* snapshot_report_status: the buffers that are linked into the reply.     *)
Linked(s) == Over(s)

(* The snapshots looked at: all, or the one that is named.                 *)
Looks == LET all == {snapQ[i].number : i \in DOMAIN snapQ}
         IN {all} \cup {{n} : n \in all}

(* The members of q at the positions I, in their order.                    *)
Picked(q, I) ==
  [k \in 1 .. Cardinality(I) |-> q[CHOOSE i \in I : Cardinality({j \in I : j <= i}) = k]]

(* process_status_command, of all snapshots or of one.  Each buffer goes   *)
(* right behind c, those of the oldest snapshot first in the end.          *)
WriterZtatus(looked) ==
  /\ at = "WRITER" /\ cmd.kind = "ztatus" /\ crashed = "no"
  /\ LET asked == {i \in DOMAIN snapQ : snapQ[i].number \in looked}
         over == {i \in asked : Over(snapQ[i])}
         new == Picked(snapQ, {i \in asked : Linked(snapQ[i])})
     IN /\ Replies({Of(Number)} \cup {snapQ[i].number : i \in asked \ over})
        /\ chain' = Reverse(chain) \o Reverse([k \in DOMAIN new |-> new[k].buf])
        /\ snapQ' = Picked(snapQ, DOMAIN snapQ \ over)
  /\ shown' = looked
  /\ UNCHANGED <<strbufVars, cmd, lost, chunkVars, crashed>>
-----------------------------------------------------------------------------
(***************************************************************************)
(* Snapshots in progress.                                                  *)
(***************************************************************************)
asideSnaps == <<strbufVars, mainVars>>

Becomes(i, s) == snapQ' = [snapQ EXCEPT ![i] = s]
Active(i) == snapQ[i].state = "active" /\ crashed = "no"
Says(i) == text' = [text EXCEPT ![snapQ[i].buf] = @ \cup {snapQ[i].number}]

(* A chunk is handed to the READER.                                        *)
WriterSends(i) ==
  /\ Active(i) /\ snapQ[i].out < snapQ[i].size /\ snapQ[i].out < MaxOut
  /\ Becomes(i, [snapQ[i] EXCEPT !.out = @ + 1])
  /\ UNCHANGED <<asideSnaps, text, lost, chunkVars, crashed>>

(* The READER has filled it, or failed it and says why.                    *)
ReaderReturns(i) ==
  /\ Active(i) /\ snapQ[i].out > 0
  /\ Becomes(i, [snapQ[i] EXCEPT !.out = @ - 1])
  /\ UNCHANGED text \/ Says(i)
  /\ UNCHANGED <<asideSnaps, lost, chunkVars, crashed>>

(* completed_snapfile: the file was written, and was the last: strbuf_printf *)
(* begins the buffer anew; or it failed.                                   *)
FileEnds(i) ==
  /\ Active(i) /\ snapQ[i].out = 0
  /\ ReleaseChunk(snapQ[i].size)
  /\ Becomes(i, [snapQ[i] EXCEPT !.state = "over"])
  /\ UNCHANGED text \/ text' = [text EXCEPT ![snapQ[i].buf] = {snapQ[i].number}]
  /\ UNCHANGED <<asideSnaps, lost, crashed>>

(* ... or refresh_snapshot sets up another.                                *)
NextFile(i) ==
  /\ Active(i) /\ snapQ[i].out = 0 /\ N_in_chunkQ < MaxCounted
  /\ \/ /\ AllocChunk(FreeAfter(snapQ[i].size), N_in_chunkQ + snapQ[i].size, snapQ[i].size)
        /\ UNCHANGED <<text, snapQ>>
     \/ /\ ReleaseChunk(snapQ[i].size) /\ Says(i)
        /\ Becomes(i, [snapQ[i] EXCEPT !.state = "over"])
        /\ UNCHANGED crashed
  /\ UNCHANGED <<asideSnaps, lost>>

(* A chunk cannot be mapped: the file is freed, whoever has chunks of it.  *)
WriterMapFails(i) ==
  /\ MayMapFail /\ Active(i) /\ snapQ[i].out < snapQ[i].size
  /\ ReleaseChunk(snapQ[i].size)
  /\ lost' = lost + snapQ[i].out
  /\ Becomes(i, [snapQ[i] EXCEPT !.state = "over", !.out = 0])
  /\ Says(i)
  /\ UNCHANGED <<asideSnaps, crashed>>

(* The READER fails such a chunk.  Its descriptor may be in use again: the *)
(* text, 0, goes to any buffer.  If it is the last that the file had out,  *)
(* WRITER completes the freed file again, with no chunks to release: NULL. *)
ReaderReturnsLost ==
  /\ lost > 0 /\ crashed = "no"
  /\ lost' = lost - 1
  /\ UNCHANGED text \/ \E b \in 1 .. made : text' = [text EXCEPT ![b] = @ \cup {0}]
  /\ crashed' \in {"no", "file"}
  /\ UNCHANGED <<asideSnaps, snapQ, chunkVars>>
-----------------------------------------------------------------------------
(* main has taken and released one buffer.                                 *)
Init ==
  /\ sbufQ = [i \in 1 .. StrbufAlloc |-> i] /\ made = StrbufAlloc
  /\ N_in_Q = CountAfter(StrbufAlloc, 1) + 1
  /\ text = [b \in 1 .. StrbufAlloc |-> {}]
  /\ at = "idle" /\ cmd = [number |-> 0, kind |-> "own"] /\ chain = <<>> /\ shown = {}
  /\ snapQ = <<>> /\ lost = 0
  /\ chunkQ = 0 /\ N_in_chunkQ = 0 /\ crashed = "no"

Next ==
  \/ \E kind \in Kind : MainForward(kind)
  \/ MainAnswer \/ MainReply \/ Answer
  \/ \E size \in FileChunks : WriterSnap(size)
  \/ \E looked \in Looks : WriterZtatus(looked)
  \/ \E i \in DOMAIN snapQ : \/ WriterSends(i) \/ ReaderReturns(i)
                            \/ FileEnds(i) \/ NextFile(i) \/ WriterMapFails(i)
  \/ ReaderReturnsLost

Spec == Init /\ [][Next]_vars
-----------------------------------------------------------------------------
TypeOK ==
  /\ sbufQ \in Seq(1 .. made) /\ chain \in Seq(1 .. made)
  /\ N_in_Q \in Nat /\ made \in Nat
  /\ text \in [1 .. made -> SUBSET (-MaxAsk .. MaxAsk)]
  /\ at \in {"idle", "READER", "WRITER", "reply"}
  /\ cmd \in [number : 0 .. MaxAsk, kind : Kind] /\ shown \subseteq 0 .. MaxAsk
  /\ snapQ \in Seq([number : 0 .. MaxAsk, buf : 1 .. made, state : {"active", "over"},
                    size : FileChunks, out : 0 .. MaxOut])
  /\ lost \in Nat /\ chunkQ \in Nat /\ N_in_chunkQ \in Nat
  /\ crashed \in {"no", "strbuf", "chunk", "file"}

(* Three threads pass buffers on and keep them by relinking rings: a buffer *)
(* is free, with the command under way, or with one snapshot that was not  *)
(* reported; there is none twice and none is lost (strbuf.c:77-87;         *)
(* writer.c:852, 1395).                                                    *)
OneHolder ==
  LET everywhere == sbufQ \o chain \o [i \in DOMAIN snapQ |-> snapQ[i].buf]
  IN Len(everywhere) = made /\ ToSet(everywhere) = 1 .. made

(* A reply has nothing but the text of its own command and of the snapshots *)
(* that were asked about, and the buffer of a snapshot nothing but its own, *)
(* although buffers are taken again uncleared and are written to by a      *)
(* thread that does not hold them (writer.c:1031, 1061); but for the text  *)
(* of a chunk whose file was freed under it.                               *)
TextIsOwn ==
  /\ at = "reply" =>
       \A b \in ToSet(chain) : text[b] \subseteq {0, Of(Number)} \cup shown
  /\ \A i \in DOMAIN snapQ : text[snapQ[i].buf] \subseteq {0, snapQ[i].number}

(* The chunks that the files in progress have: chunk k of snapshot i.       *)
Chunks(q) ==
  UNION {{i} \X (1 .. q[i].size) : i \in {j \in DOMAIN q : ~Over(q[j])}}
InUse == Cardinality(Chunks(snapQ))

(* The pools last as long as no more than StrbufAlloc - 2 snapshots wait to *)
(* be reported, and no more than ChunkAlloc chunks are in use.             *)
PoolsLast ==
  /\ crashed = "strbuf" => Len(snapQ) > StrbufAlloc - 2
  /\ crashed = "chunk" => InUse > ChunkAlloc
==============================================================================
