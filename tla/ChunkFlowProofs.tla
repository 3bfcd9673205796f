--------------------------- MODULE ChunkFlowProofs ---------------------------
(***************************************************************************)
(* Theorems about ChunkFlow, for any number of snapshots, frames and       *)
(* chunks, any sizes and any capture: the inductive invariant IInv, and    *)
(* from it where a chunk and a frame may be, that queued chunks keep their *)
(* data, that a file counts as done only when all of it was copied, and    *)
(* that the transfer budget is credited exactly once for every chunk; then *)
(* that ChunkFlow implements SnapshotPromise.  Where mapping may fail they *)
(* hold until a fault ends the program, which LastChunkFrees traces to the *)
(* failed mapping; EveryFileTidiedOnce shows that there is none where it   *)
(* may not.                                                                *)
(***************************************************************************)
EXTENDS ChunkFlow, FiniteSetTheorems, WellFoundedInduction, TLAPS
-----------------------------------------------------------------------------
(***************************************************************************)
(* Membership in a FIFO pipe.                                              *)
(***************************************************************************)

(* Sending e down a pipe adds e to what is in it, and nothing else.         *)
LEMMA InAppend ==
  ASSUME NEW S, NEW q \in Seq(S), NEW e \in S
  PROVE  /\ Append(q, e) \in Seq(S)
         /\ \A x : In(x, Append(q, e)) <=> In(x, q) \/ x = e
<1>1. /\ Append(q, e) \in Seq(S)
      /\ DOMAIN Append(q, e) = 1 .. Len(q) + 1 /\ DOMAIN q = 1 .. Len(q)
      /\ \A i \in 1 .. Len(q) : Append(q, e)[i] = q[i]
      /\ Append(q, e)[Len(q) + 1] = e /\ Len(q) \in Nat
  OBVIOUS
<1> QED BY <1>1 DEF In

(* A pipe that holds no pointer twice still does not after sending one that *)
(* is not in it.                                                            *)
LEMMA NoDuplicateAppend ==
  ASSUME NEW S, NEW q \in Seq(S), NEW e \in S, NoDuplicate(q), ~In(e, q)
  PROVE  NoDuplicate(Append(q, e))
<1>1. /\ DOMAIN Append(q, e) = 1 .. Len(q) + 1 /\ DOMAIN q = 1 .. Len(q)
      /\ \A i \in 1 .. Len(q) : Append(q, e)[i] = q[i]
      /\ Append(q, e)[Len(q) + 1] = e /\ Len(q) \in Nat
  OBVIOUS
<1>2. SUFFICES ASSUME NEW i \in 1 .. Len(q) + 1, NEW j \in 1 .. Len(q) + 1,
                      Append(q, e)[i] = Append(q, e)[j]
               PROVE  i = j
  BY <1>1 DEF NoDuplicate
<1>3. CASE i \in 1 .. Len(q) /\ j \in 1 .. Len(q)
  BY <1>1, <1>2, <1>3 DEF NoDuplicate
<1>4. CASE i = Len(q) + 1 /\ j \in 1 .. Len(q)
  BY <1>1, <1>2, <1>4 DEF In
<1>5. CASE i \in 1 .. Len(q) /\ j = Len(q) + 1
  BY <1>1, <1>2, <1>5 DEF In
<1> QED BY <1>1, <1>3, <1>4, <1>5

(* Receiving the head of a pipe without duplicates takes out the head only. *)
LEMMA InTail ==
  ASSUME NEW S, NEW q \in Seq(S), q # <<>>, NoDuplicate(q)
  PROVE  /\ Head(q) \in S /\ In(Head(q), q)
         /\ Tail(q) \in Seq(S) /\ NoDuplicate(Tail(q))
         /\ \A x : In(x, Tail(q)) <=> In(x, q) /\ x # Head(q)
<1>1. /\ Head(q) \in S /\ Head(q) = q[1] /\ Tail(q) \in Seq(S)
      /\ Len(q) \in Nat /\ Len(q) >= 1
      /\ DOMAIN q = 1 .. Len(q) /\ DOMAIN Tail(q) = 1 .. Len(q) - 1
      /\ \A i \in 1 .. Len(q) - 1 : Tail(q)[i] = q[i + 1]
  OBVIOUS
<1>2. In(Head(q), q)
  BY <1>1 DEF In
<1>3. NoDuplicate(Tail(q))
  <2>1. SUFFICES ASSUME NEW i \in 1 .. Len(q) - 1, NEW j \in 1 .. Len(q) - 1,
                        q[i + 1] = q[j + 1]
                 PROVE  i = j
    BY <1>1 DEF NoDuplicate
  <2>2. i + 1 \in DOMAIN q /\ j + 1 \in DOMAIN q
    BY <1>1
  <2> QED BY <2>1, <2>2 DEF NoDuplicate
<1>4. ASSUME NEW x, In(x, Tail(q)) PROVE In(x, q) /\ x # Head(q)
  <2>1. PICK i \in 1 .. Len(q) - 1 : q[i + 1] = x
    BY <1>1, <1>4 DEF In
  <2>2. i + 1 \in DOMAIN q /\ 1 \in DOMAIN q /\ i + 1 # 1
    BY <1>1
  <2> QED BY <1>1, <2>1, <2>2 DEF In, NoDuplicate
<1>5. ASSUME NEW x, In(x, q), x # Head(q) PROVE In(x, Tail(q))
  <2>1. PICK i \in 1 .. Len(q) : q[i] = x
    BY <1>1, <1>5 DEF In
  <2>2. i # 1
    BY <1>1, <1>5, <2>1
  <2>3. i - 1 \in 1 .. Len(q) - 1 /\ (i - 1) + 1 = i
    BY <1>1, <2>2
  <2>4. Tail(q)[i - 1] = x
    BY <1>1, <2>1, <2>3
  <2> QED BY <1>1, <2>3, <2>4 DEF In
<1> QED BY <1>1, <1>2, <1>3, <1>4, <1>5
-----------------------------------------------------------------------------
(***************************************************************************)
(* Initial states.                                                         *)
(***************************************************************************)

(* The inductive invariant holds when the program has started.              *)
LEMMA InitIInv == Init => IInv
<1> SUFFICES ASSUME Init PROVE IInv
  OBVIOUS
<1> USE ConstantsAssumption
<1>1. TypeOK
  BY DEF Init, TypeOK, WriterTypeOK, ChunkTypeOK, ControlTypeOK, SnapRecord, FileRecord, SnapStatus, FileStatus, ChunkStatus
<1>2. \A x : ~In(x, <<>>)
  BY DEF In
<1>3. NoDuplicate(<<>>)
  BY DEF NoDuplicate
<1>4. InOnePlace
  <2>1. \A c \in Chunk : c # None
    BY DEF Init
  <2> QED BY <1>2, <1>3, <2>1 DEF Init, InOnePlace, WithReader
<1>5. FramesOwned
  BY <1>2, <1>3 DEF Init, FramesOwned
<1>6. FreshSnap /\ QueuedFile
  BY DEF Init, FreshSnap, ChunksOf, Chunk, QueuedFile
<1>7. WrittenCount
  <2>1. \A s \in Snap : ~file[s].live
    BY DEF Init
  <2>2. \A s \in Snap : \A c \in ChunksOf(s) : c_owner[c] # "READER"
    BY DEF Init, ChunksOf, Chunk
  <2> QED BY <2>1, <2>2 DEF WrittenCount
<1>8. InHand
  BY DEF Init, InHand
<1>9. QueuedChunkKeepsData
  BY DEF Init, QueuedChunkKeepsData
<1> QED BY <1>1, <1>4, <1>5, <1>6, <1>7, <1>8, <1>9 DEF IInv
-----------------------------------------------------------------------------
(***************************************************************************)
(* Steps that move no chunk and no frame.                                  *)
(***************************************************************************)
(* A chunk is no longer than the window that a purge leaves in the ring.    *)
LEMMA ChunkFits ==
  ASSUME NEW c \in Chunk
  PROVE  Samples(c) \in Int /\ Samples(c) <= Window
<1>1. c[2] \in 1 .. NChunk
  BY DEF Chunk
<1>2. NChunk \in Nat /\ Cut \in [0 .. NChunk -> Nat]
  BY ConstantsAssumption
<1>3. c[2] \in 0 .. NChunk /\ c[2] - 1 \in 0 .. NChunk
  BY <1>1, <1>2
<1>4. Cut[c[2]] \in Nat /\ Cut[c[2] - 1] \in Nat
  BY <1>2, <1>3
<1>5. Cut[c[2]] - Cut[c[2] - 1] <= Window
  BY <1>1, WindowAssumption
<1> QED BY <1>4, <1>5 DEF Samples

(* What IInv says where things are from, besides the tail of the ring.      *)
locVars == <<c_status, c_owner, c_first, c_frame, toReader, toWriter, toTidy,
             frameQ, busy, snap, file, WriterChunkQ, wp_nfiles, wp_totxfr,
             ReaderChunkQ, held>>

(* They keep every part of the invariant that says where things are.        *)
LEMMA Quiet ==
  ASSUME IInv, UNCHANGED locVars
  PROVE  /\ WriterTypeOK' /\ ChunkTypeOK'
         /\ InOnePlace' /\ FramesOwned' /\ FreshSnap' /\ QueuedFile' /\ WrittenCount'
<1> USE DEF locVars
<1>1. InOnePlace'
  BY DEF IInv, InOnePlace, WithReader, In, NoDuplicate
<1>2. FramesOwned'
  BY DEF IInv, FramesOwned, In, NoDuplicate
<1>3. FreshSnap' /\ QueuedFile'
  BY DEF IInv, FreshSnap, ChunksOf, QueuedFile
<1>4. WrittenCount'
  BY DEF IInv, WrittenCount, ChunksOf, WrittenChunks
<1>5. WriterTypeOK' /\ ChunkTypeOK'
  BY DEF IInv, TypeOK, WriterTypeOK, ChunkTypeOK
<1> QED BY <1>1, <1>2, <1>3, <1>4, <1>5

(* The steps of the READER and of the WRITER that move nothing, and the     *)
(* faults.                                                                  *)
LEMMA QuietSteps ==
  ASSUME IInv, \/ WriterPoll \/ WriterServed \/ WriterEndsAgain \/ FreedIsReused
               \/ \E n \in 1 .. MaxBatch : ReaderCollect(n)
               \/ ReaderPurge \/ ReaderPoll \/ ReaderStop \/ ReaderDrain
               \/ ReaderParam \/ ReaderInit \/ ReaderGo
  PROVE  IInv'
<1>c. Window \in Nat /\ HighWater \in Nat /\ MaxBatch \in Nat
  BY ConstantsAssumption
<1>t. TypeOK /\ ChunkTypeOK /\ ControlTypeOK
  BY DEF IInv, TypeOK
<1>1. UNCHANGED locVars
  BY DEF locVars, writerVars, readerVars, adcVars, chunkVars, pipeVars, frameVars,
         WriterPoll, WriterServed, WriterEndsAgain, FreedIsReused, ReaderCollect,
         ReaderPurge, ReaderPoll, ReaderStop, ReaderDrain, ReaderParam, ReaderInit,
         ReaderGo
<1>2. ControlTypeOK'
  <2> USE DEF ControlTypeOK, writerVars, readerVars, adcVars
  <2>1. CASE WriterPoll
    BY <1>t, <2>1 DEF WriterPoll
  <2>2. CASE WriterServed
    BY <1>t, <2>2 DEF WriterServed
  <2>3. CASE \E n \in 1 .. MaxBatch : ReaderCollect(n)
    BY <1>c, <1>t, <2>3 DEF ReaderCollect
  <2>4. CASE ReaderPurge
    BY <1>c, <1>t, <2>4 DEF ReaderPurge
  <2>5. CASE ReaderPoll
    BY <1>t, <2>5 DEF ReaderPoll
  <2>6. CASE ReaderStop
    BY <1>t, <2>6 DEF ReaderStop
  <2>7. CASE ReaderDrain
    BY <1>t, <2>7 DEF ReaderDrain, ChunkTypeOK, Parent, Chunk
  <2>8. CASE ReaderParam
    BY <1>t, <2>8 DEF ReaderParam
  <2>9. CASE ReaderInit
    BY <1>t, <2>9 DEF ReaderInit
  <2>10. CASE ReaderGo
    BY <1>t, <2>10 DEF ReaderGo
  <2>11. CASE WriterEndsAgain
    BY <1>t, <2>11 DEF WriterEndsAgain
  <2>12. CASE FreedIsReused
    BY <1>t, <2>12 DEF FreedIsReused
  <2> QED BY <2>1, <2>2, <2>3, <2>4, <2>5, <2>6, <2>7, <2>8, <2>9, <2>10, <2>11, <2>12
<1>3. InHand'
  <2>1. rpc # "abort" \/ rpc' = rpc
    BY DEF WriterPoll, WriterServed, WriterEndsAgain, FreedIsReused, ReaderCollect,
           ReaderPurge, ReaderPoll, ReaderStop, ReaderDrain, ReaderParam, ReaderInit,
           ReaderGo, ReaderAtData, readerVars
  <2> QED BY <1>1, <2>1 DEF IInv, InHand, locVars
<1>4. QueuedChunkKeepsData'
  <2>q. QueuedChunkKeepsData /\ ReaderChunkQ \subseteq Chunk
    BY <1>t DEF IInv, ChunkTypeOK
  <2>u. ReaderChunkQ' = ReaderChunkQ /\ c_first' = c_first
    BY <1>1 DEF locVars
  <2>1. CASE a_tail' = a_tail
    BY <2>q, <2>u, <2>1 DEF QueuedChunkKeepsData
  <2>2. CASE ReaderParam
    BY <1>t, <2>q, <2>u, <2>2 DEF QueuedChunkKeepsData, ReaderParam, ChunkTypeOK
  <2>3. CASE ReaderPurge
    <3>1. ASSUME NEW c \in ReaderChunkQ, a_tail' = a_head - Window
          PROVE  a_tail' <= c_first[c]
      <4>1. c \in Chunk /\ c_first[c] \in Nat /\ a_head \in Nat /\ Window \in Nat
        BY <1>c, <1>t, <2>q DEF ChunkTypeOK, ControlTypeOK
      <4>2. Samples(c) <= Window /\ Samples(c) \in Int
        BY <4>1, ChunkFits
      <4>3. c_first[c] + Samples(c) > a_head
        BY <2>3 DEF ReaderPurge, Last
      <4> QED BY <3>1, <4>1, <4>2, <4>3
    <3>2. a_tail' \in {a_tail, a_head - Window}
      BY <2>3 DEF ReaderPurge
    <3> QED BY <2>q, <2>u, <3>1, <3>2 DEF QueuedChunkKeepsData
  <2> QED
    BY <2>1, <2>2, <2>3
    DEF adcVars, WriterPoll, WriterServed, WriterEndsAgain, FreedIsReused, ReaderCollect,
        ReaderPoll, ReaderStop, ReaderDrain, ReaderInit, ReaderGo
<1> QED BY <1>1, <1>2, <1>3, <1>4, Quiet DEF IInv, TypeOK
-----------------------------------------------------------------------------
(***************************************************************************)
(* The READER returns a chunk.                                             *)
(***************************************************************************)

(* A chunk belongs to the snapshot its descriptor names.                    *)
LEMMA ParentOf ==
  ASSUME NEW c \in Chunk
  PROVE  /\ Parent(c) \in Snap /\ c \in ChunksOf(Parent(c)) /\ c # None
         /\ \A s \in Snap : ChunksOf(s) \subseteq Chunk
         /\ \A s \in Snap : c \in ChunksOf(s) <=> s = Parent(c)
BY ConstantsAssumption DEF Chunk, ChunksOf, Parent

(* A chunk in hand or queued goes back to the WRITER, its frame to TIDY:    *)
(* everything is still in one place.                                        *)
LEMMA ReturnMoves ==
  ASSUME IInv, NEW c \in Chunk, NEW status \in {"WRITTEN", "ERROR"},
         c = held \/ c \in ReaderChunkQ,
         Return(c, status),
         ReaderChunkQ' = ReaderChunkQ \ {c},
         held' = IF c = held THEN None ELSE held
  PROVE  /\ WriterTypeOK' /\ ChunkTypeOK' /\ InOnePlace' /\ FramesOwned'
         /\ FreshSnap' /\ QueuedFile' /\ WrittenCount' /\ QueuedChunkKeepsData'
<1>t. WriterTypeOK /\ ChunkTypeOK /\ InOnePlace /\ FramesOwned
  BY DEF IInv, TypeOK
<1>u. /\ c_status' = [c_status EXCEPT ![c] = status]
      /\ c_frame' = [c_frame EXCEPT ![c] = None]
      /\ toTidy' = Append(toTidy, c_frame[c]) /\ toWriter' = Append(toWriter, c)
      /\ UNCHANGED <<c_owner, c_first, toReader, snap, file, WriterChunkQ, wp_nfiles,
                     wp_totxfr, frameQ, busy, a_tail>>
  BY DEF Return, writerVars, frameVars, adcVars
<1>n. c # None
  BY ParentOf
<1>w. WithReader(c) /\ c_owner[c] = "READER" /\ c_status[c] = "WAITING" /\ ~In(c, toWriter)
      /\ ~In(c, toReader) /\ c_frame[c] \in Frame /\ c_frame[c] # None
  BY <1>t, <1>n DEF InOnePlace, WithReader, ChunkTypeOK
<1>p. /\ toWriter' \in Seq(Chunk) /\ NoDuplicate(toWriter')
      /\ \A x : In(x, toWriter') <=> In(x, toWriter) \/ x = c
  BY <1>t, <1>u, <1>w, InAppend, NoDuplicateAppend DEF ChunkTypeOK, InOnePlace
<1>y. ~In(c_frame[c], toTidy)
  BY <1>t, <1>w DEF FramesOwned
<1>q. /\ toTidy' \in Seq(Frame) /\ NoDuplicate(toTidy')
      /\ \A x : In(x, toTidy') <=> In(x, toTidy) \/ x = c_frame[c]
  BY <1>t, <1>u, <1>w, <1>y, InAppend, NoDuplicateAppend DEF ChunkTypeOK, FramesOwned
<1>1. WriterTypeOK'
  BY <1>t, <1>u DEF WriterTypeOK
<1>2. ChunkTypeOK'
  BY <1>t, <1>u, <1>p, <1>q DEF ChunkTypeOK, ChunkStatus
<1>3. InOnePlace'
  <2> SUFFICES ASSUME NEW d \in Chunk
               PROVE  /\ In(d, toReader') => d # held' /\ d \notin ReaderChunkQ'
                      /\ d = held' => d \notin ReaderChunkQ'
                      /\ WithReader(d)' => /\ c_owner'[d] = "READER" /\ c_status'[d] = "WAITING"
                                           /\ c_frame'[d] # None /\ ~In(d, toWriter')
                      /\ In(d, toWriter') => /\ c_owner'[d] = "READER"
                                             /\ c_status'[d] \in {"WRITTEN", "ERROR"}
                      /\ c_owner'[d] = "READER" => WithReader(d)' \/ In(d, toWriter')
                      /\ d \in WriterChunkQ' <=> c_status'[d] = "READY"
                      /\ c_status'[d] = "READY" => c_owner'[d] = "WRITER"
                      /\ c_frame'[d] # None => WithReader(d)'
    <3> NoDuplicate(toReader') /\ NoDuplicate(toWriter')
      BY <1>t, <1>u, <1>p DEF InOnePlace
    <3> QED BY DEF InOnePlace
  <2>n. d # None
    BY ParentOf
  <2>1. CASE d = c
    <3>1. ~WithReader(d)' /\ In(d, toWriter') /\ ~In(d, toReader')
      BY <1>n, <1>u, <1>w, <1>p, <2>1 DEF WithReader
    <3>2. c_status'[d] = status /\ c_frame'[d] = None /\ c_owner'[d] = "READER"
      BY <1>t, <1>u, <1>w, <2>1 DEF ChunkTypeOK
    <3>3. d # held' /\ d \notin ReaderChunkQ' /\ d \notin WriterChunkQ'
      BY <1>t, <1>n, <1>u, <1>w, <2>1 DEF InOnePlace
    <3> QED BY <3>1, <3>2, <3>3
  <2>2. CASE d # c
    <3>1. /\ WithReader(d)' <=> WithReader(d)
          /\ In(d, toWriter') <=> In(d, toWriter)
          /\ c_status'[d] = c_status[d] /\ c_frame'[d] = c_frame[d] /\ c_owner'[d] = c_owner[d]
          /\ d = held' <=> d = held
          /\ d \in ReaderChunkQ' <=> d \in ReaderChunkQ
      BY <1>t, <1>u, <1>p, <2>2, <2>n DEF WithReader, ChunkTypeOK
    <3> QED BY <1>t, <1>u, <3>1 DEF InOnePlace
  <2> QED BY <2>1, <2>2
<1>4. FramesOwned'
  <2>1. \A d \in Chunk : c_frame'[d] = IF d = c THEN None ELSE c_frame[d]
    BY <1>t, <1>u DEF ChunkTypeOK
  <2>2. c_frame[c] \in busy
    BY <1>t, <1>w DEF FramesOwned
  <2>3. \A d, e \in Chunk : c_frame'[d] # None /\ c_frame'[d] = c_frame'[e] => d = e
    BY <1>t, <2>1 DEF FramesOwned
  <2>4. \A d \in Chunk : c_frame'[d] # None => c_frame'[d] \in busy' /\ ~In(c_frame'[d], toTidy')
    BY <1>t, <1>u, <1>q, <1>w, <2>1 DEF FramesOwned
  <2>5. \A fr \in Frame : In(fr, toTidy') => fr \in busy'
    BY <1>t, <1>u, <1>q, <2>2 DEF FramesOwned
  <2>6. \A fr \in busy' : In(fr, toTidy') \/ \E d \in Chunk : c_frame'[d] = fr
    BY <1>t, <1>u, <1>q, <2>1 DEF FramesOwned
  <2> QED BY <1>t, <1>u, <1>q, <2>3, <2>4, <2>5, <2>6 DEF FramesOwned
<1>5. FreshSnap'
  <2>1. \A s \in Snap : \A d \in ChunksOf(s) : snap[s].status = "INIT" => d # c
    BY <1>w DEF IInv, FreshSnap
  <2> QED BY <1>t, <1>u, <2>1, ParentOf DEF IInv, FreshSnap, ChunkTypeOK, ChunksOf
<1>6. WrittenCount'
  <2>1. \A s \in Snap : WrittenChunks(s)' = WrittenChunks(s)
    BY <1>t, <1>u, <1>w DEF WrittenChunks, ChunkTypeOK, ChunksOf, Chunk
  <2> QED BY <1>u, <2>1 DEF IInv, WrittenCount, ChunksOf
<1>7. QueuedFile' /\ QueuedChunkKeepsData'
  BY <1>u DEF IInv, QueuedFile, QueuedChunkKeepsData
<1> QED BY <1>1, <1>2, <1>3, <1>4, <1>5, <1>6, <1>7

(* complete_queue_head_chunk and abort_reader_chunk.                        *)
LEMMA ReturnSteps ==
  ASSUME IInv, ReaderComplete \/ ReaderAbortSibling \/ ReaderAborted
  PROVE  IInv'
<1>t. TypeOK /\ ChunkTypeOK /\ ControlTypeOK /\ InOnePlace /\ InHand
  BY DEF IInv, TypeOK
<1>0. UNCHANGED <<wpc, a_head, a_tail, high_water_mark, capture, rp_state>>
  BY DEF ReaderComplete, ReaderAbortSibling, ReaderAborted, Return, writerVars, adcVars
<1>1. ASSUME NEW c \in Chunk, NEW status \in {"WRITTEN", "ERROR"},
             c = held \/ c \in ReaderChunkQ, Return(c, status),
             ReaderChunkQ' = ReaderChunkQ \ {c},
             held' = IF c = held THEN None ELSE held,
             ControlTypeOK', InHand'
      PROVE  IInv'
  BY <1>1, ReturnMoves DEF IInv, TypeOK
<1>2. ASSUME UNCHANGED <<chunkVars, pipeVars, writerVars, frameVars, adcVars>>,
             UNCHANGED <<ReaderChunkQ, held>>, ControlTypeOK', InHand'
      PROVE  IInv'
  <2>1. UNCHANGED locVars /\ a_tail' = a_tail
    BY <1>2 DEF locVars, chunkVars, pipeVars, writerVars, frameVars, adcVars
  <2>2. QueuedChunkKeepsData'
    BY <2>1 DEF IInv, QueuedChunkKeepsData, locVars
  <2> QED BY <1>2, <2>1, <2>2, Quiet DEF IInv, TypeOK
<1>3. CASE ReaderComplete
  <2>1. PICK c \in ReaderChunkQ :
          \/ /\ aborting' = Parent(c) /\ rpc' = "abort"
             /\ UNCHANGED <<ReaderChunkQ, chunkVars, pipeVars, writerVars,
                            frameVars, adcVars>>
          \/ /\ ReaderChunkQ' = ReaderChunkQ \ {c}
             /\ Return(c, "WRITTEN")
             /\ UNCHANGED <<rpc, aborting>>
    BY <1>3 DEF ReaderComplete
  <2>2. c \in Chunk /\ c # None /\ Parent(c) \in Snap
    BY <1>t, ParentOf DEF ChunkTypeOK
  <2>3. rpc = "complete" /\ held' = held /\ held = None
    BY <1>3, <1>t DEF ReaderComplete, InHand
  <2>4. ControlTypeOK' /\ InHand'
    BY <1>0, <1>t, <2>1, <2>2, <2>3 DEF ControlTypeOK, InHand
  <2>5. CASE UNCHANGED <<ReaderChunkQ, chunkVars, pipeVars, writerVars, frameVars, adcVars>>
    BY <1>2, <2>3, <2>4, <2>5
  <2>6. CASE ReaderChunkQ' = ReaderChunkQ \ {c} /\ Return(c, "WRITTEN")
    BY <1>1, <2>2, <2>3, <2>4, <2>6
  <2> QED BY <2>1, <2>5, <2>6
<1>4. CASE ReaderAbortSibling
  <2>1. PICK c \in ReaderChunkQ : ReaderChunkQ' = ReaderChunkQ \ {c} /\ Return(c, "ERROR")
    BY <1>4 DEF ReaderAbortSibling
  <2>2. c \in Chunk /\ c # held
    BY <1>t DEF ChunkTypeOK, InOnePlace
  <2>3. rpc = "abort" /\ rpc' = rpc /\ held' = held /\ aborting' = aborting
    BY <1>4 DEF ReaderAbortSibling
  <2>4. ControlTypeOK' /\ InHand'
    BY <1>0, <1>t, <2>3 DEF ControlTypeOK, InHand
  <2> QED BY <1>1, <2>1, <2>2, <2>3, <2>4
<1>5. CASE ReaderAborted
  <2>1. held' = None /\ aborting' = None /\ ReaderChunkQ' = ReaderChunkQ
    BY <1>5 DEF ReaderAborted
  <2>2. ControlTypeOK' /\ InHand'
    BY <1>0, <1>t, <1>5, <2>1 DEF ControlTypeOK, InHand, ReaderAborted
  <2>3. CASE held # None /\ Return(held, "ERROR")
    <3>1. held \in Chunk /\ ReaderChunkQ' = ReaderChunkQ \ {held}
      BY <1>t, <2>1, <2>3 DEF ChunkTypeOK, InOnePlace
    <3> QED BY <1>1, <2>1, <2>2, <2>3, <3>1
  <2>4. CASE held = None /\ UNCHANGED <<chunkVars, pipeVars, writerVars, frameVars, adcVars>>
    BY <1>2, <2>1, <2>2, <2>4
  <2> QED BY <1>5, <2>3, <2>4 DEF ReaderAborted
<1> QED BY <1>3, <1>4, <1>5

(* process_queue_message takes a chunk from the pipe into hand or queue.    *)
LEMMA ReceiveStep ==
  ASSUME IInv, ReaderReceive
  PROVE  IInv'
<1>t. /\ TypeOK /\ WriterTypeOK /\ ChunkTypeOK /\ ControlTypeOK /\ InOnePlace /\ FramesOwned
      /\ InHand /\ QueuedChunkKeepsData
  BY DEF IInv, TypeOK
<1> DEFINE c == Head(toReader)
<1>u. /\ UNCHANGED <<c_status, c_owner, c_first, c_frame, toWriter, toTidy, frameQ, busy,
                     snap, file, WriterChunkQ, wp_nfiles, wp_totxfr>>
      /\ UNCHANGED <<wpc, rp_state, a_head, a_tail, high_water_mark, capture>>
      /\ toReader # <<>> /\ toReader' = Tail(toReader)
  BY DEF ReaderReceive, chunkVars, frameVars, writerVars, adcVars
<1>p. /\ c \in Chunk /\ In(c, toReader)
      /\ toReader' \in Seq(Chunk) /\ NoDuplicate(toReader')
      /\ \A x : In(x, toReader') <=> In(x, toReader) /\ x # c
  BY <1>t, <1>u, InTail DEF ChunkTypeOK, InOnePlace
<1>h. held = None
  BY <1>t DEF ReaderReceive, ReaderAtQueue, InHand
<1>n. c # None /\ Parent(c) \in Snap
  BY <1>p, ParentOf
<1>w. c \notin ReaderChunkQ
  BY <1>t, <1>p DEF InOnePlace
<1>1. \/ held' = c /\ aborting' = Parent(c) /\ rpc' = "abort" /\ ReaderChunkQ' = ReaderChunkQ
      \/ /\ ~TooLate(c) /\ ReaderChunkQ' = ReaderChunkQ \cup {c} /\ rpc' = "command"
         /\ held' = held /\ aborting' = aborting
  BY DEF ReaderReceive
<1> HIDE DEF c
<1>2. ChunkTypeOK' /\ WriterTypeOK' /\ ControlTypeOK'
  BY <1>t, <1>u, <1>p, <1>n, <1>1 DEF ChunkTypeOK, WriterTypeOK, ControlTypeOK
<1>3. InOnePlace'
  <2>0. \A d \in Chunk : d # None
    BY ParentOf
  <2>1. \A d \in Chunk : WithReader(d)' <=> WithReader(d)
    BY <1>p, <1>1, <1>h, <2>0 DEF WithReader
  <2>2. \A d \in Chunk : /\ In(d, toReader') => d # held' /\ d \notin ReaderChunkQ'
                         /\ d = held' => d \notin ReaderChunkQ'
    BY <1>t, <1>p, <1>1, <1>h, <1>w, <2>0 DEF InOnePlace
  <2> QED BY <1>t, <1>u, <1>p, <2>1, <2>2 DEF InOnePlace
<1>4. FramesOwned'
  BY <1>t, <1>u DEF FramesOwned
<1>5. FreshSnap' /\ QueuedFile'
  BY <1>u DEF IInv, FreshSnap, ChunksOf, QueuedFile
<1>6. WrittenCount'
  BY <1>u DEF IInv, WrittenCount, WrittenChunks, ChunksOf
<1>7. InHand'
  BY <1>1, <1>h DEF InHand
<1>8. QueuedChunkKeepsData'
  BY <1>t, <1>u, <1>p, <1>1 DEF QueuedChunkKeepsData, TooLate, ChunkTypeOK, ControlTypeOK
<1> QED BY <1>2, <1>3, <1>4, <1>5, <1>6, <1>7, <1>8 DEF IInv, TypeOK
-----------------------------------------------------------------------------
(***************************************************************************)
(* TIDY and the WRITER's queue.                                            *)
(***************************************************************************)

(* A frame unmapped by TIDY is no longer in use, and only that frame.       *)
LEMMA TidyStep ==
  ASSUME IInv, TidyRelease
  PROVE  IInv'
<1>t. TypeOK /\ WriterTypeOK /\ ChunkTypeOK /\ ControlTypeOK /\ FramesOwned
  BY DEF IInv, TypeOK
<1>u. /\ UNCHANGED <<c_status, c_owner, c_first, c_frame, toReader, toWriter, frameQ,
                     snap, file, WriterChunkQ, wp_nfiles, wp_totxfr, ReaderChunkQ, held>>
      /\ UNCHANGED <<wpc, rpc, aborting, rp_state, a_head, a_tail, high_water_mark, capture>>
      /\ toTidy # <<>> /\ toTidy' = Tail(toTidy) /\ busy' = busy \ {Head(toTidy)}
  BY DEF TidyRelease, chunkVars, writerVars, adcVars, readerVars
<1>p. /\ Head(toTidy) \in Frame /\ In(Head(toTidy), toTidy)
      /\ toTidy' \in Seq(Frame) /\ NoDuplicate(toTidy')
      /\ \A x : In(x, toTidy') <=> In(x, toTidy) /\ x # Head(toTidy)
  BY <1>t, <1>u, InTail DEF ChunkTypeOK, FramesOwned
<1>1. ChunkTypeOK' /\ WriterTypeOK' /\ ControlTypeOK'
  BY <1>t, <1>u, <1>p DEF ChunkTypeOK, WriterTypeOK, ControlTypeOK
<1>2. InOnePlace'
  BY <1>u DEF IInv, InOnePlace, WithReader
<1>3. FramesOwned'
  BY <1>t, <1>u, <1>p DEF FramesOwned
<1>4. FreshSnap' /\ QueuedFile' /\ WrittenCount' /\ InHand' /\ QueuedChunkKeepsData'
  BY <1>u DEF IInv, FreshSnap, QueuedFile, WrittenCount, WrittenChunks, InHand, QueuedChunkKeepsData,
              ChunksOf
<1> QED BY <1>1, <1>2, <1>3, <1>4 DEF IInv, TypeOK

(* A frame that alloc_frame finds serves no chunk and is not being unmapped. *)
LEMMA FreeFrame ==
  ASSUME IInv, NEW fr \in AvailableFrames
  PROVE  /\ fr \in Frame /\ fr \notin busy /\ ~In(fr, toTidy)
         /\ \A c \in Chunk : c_frame[c] # fr
         /\ AvailableFrames \ {fr} \subseteq Frame
         /\ (AvailableFrames \ {fr}) \cap (busy \cup {fr}) = {}
<1>1. FramesOwned /\ ChunkTypeOK
  BY DEF IInv, TypeOK
<1>2. AvailableFrames \subseteq Frame /\ AvailableFrames \cap busy = {}
  BY <1>1 DEF AvailableFrames, FramesOwned, ChunkTypeOK
<1>3. None \notin Frame
  BY ConstantsAssumption
<1> QED BY <1>1, <1>2, <1>3 DEF FramesOwned, ChunkTypeOK

(* writer_service_queue hands the head of its queue and a frame to READER.  *)
LEMMA ServiceStep ==
  ASSUME IInv, WriterService
  PROVE  IInv'
<1>t. /\ TypeOK /\ WriterTypeOK /\ ChunkTypeOK /\ ControlTypeOK /\ InOnePlace /\ FramesOwned
      /\ FreshSnap /\ QueuedFile /\ WrittenCount
  BY DEF IInv, TypeOK
<1>1. PICK c \in WriterChunkQ, fr \in AvailableFrames :
        /\ frameQ' = AvailableFrames \ {fr}
        /\ busy' = busy \cup {fr}
        /\ WriterChunkQ' = WriterChunkQ \ {c}
        /\ c_frame' = [c_frame EXCEPT ![c] = fr]
        /\ c_status' = [c_status EXCEPT ![c] = "WAITING"]
        /\ c_owner' = [c_owner EXCEPT ![c] = "READER"]
        /\ file' = [file EXCEPT ![Parent(c)].pending = @ + 1]
        /\ toReader' = Append(toReader, c)
  BY DEF WriterService
<1>u. /\ UNCHANGED <<snap, wp_nfiles, wp_totxfr, c_first, toWriter, toTidy, ReaderChunkQ, held>>
      /\ UNCHANGED <<rpc, aborting, rp_state, a_head, a_tail, high_water_mark, capture>>
      /\ wpc' \in {"service", "poll"}
  BY DEF WriterService, adcVars, readerVars
<1>c. c \in Chunk /\ Parent(c) \in Snap /\ c # None
  BY <1>t, ParentOf DEF ChunkTypeOK
<1>f. /\ fr \in Frame /\ fr # None /\ fr \notin busy /\ ~In(fr, toTidy)
      /\ \A d \in Chunk : c_frame[d] # fr
      /\ frameQ' \subseteq Frame /\ frameQ' \cap busy' = {}
  BY <1>1, FreeFrame, ConstantsAssumption
<1>w. /\ c_status[c] = "READY" /\ c_owner[c] = "WRITER" /\ ~WithReader(c)
      /\ ~In(c, toReader) /\ ~In(c, toWriter)
  BY <1>t, <1>c DEF InOnePlace, WithReader
<1>p. /\ toReader' \in Seq(Chunk) /\ NoDuplicate(toReader')
      /\ \A x : In(x, toReader') <=> In(x, toReader) \/ x = c
  BY <1>t, <1>1, <1>c, <1>w, InAppend, NoDuplicateAppend DEF ChunkTypeOK, InOnePlace
<1>e. \A d \in Chunk : /\ c_status'[d] = IF d = c THEN "WAITING" ELSE c_status[d]
                       /\ c_owner'[d] = IF d = c THEN "READER" ELSE c_owner[d]
                       /\ c_frame'[d] = IF d = c THEN fr ELSE c_frame[d]
  BY <1>t, <1>1 DEF ChunkTypeOK
<1>g. \A s \in Snap : /\ file'[s].live = file[s].live /\ file'[s].status = file[s].status
                      /\ file'[s].written = file[s].written
  BY <1>t, <1>1, <1>c DEF WriterTypeOK, FileRecord
<1>2. WriterTypeOK'
  <2>1. file[Parent(c)].pending + 1 \in Int
    BY <1>t, <1>c DEF WriterTypeOK, FileRecord
  <2>2. file' \in [Snap -> FileRecord]
    BY <1>t, <1>1, <1>c, <2>1 DEF WriterTypeOK, FileRecord
  <2> QED BY <1>t, <1>u, <2>2 DEF WriterTypeOK
<1>3. ChunkTypeOK'
  BY <1>t, <1>1, <1>u, <1>c, <1>f, <1>p DEF ChunkTypeOK, ChunkStatus
<1>4. ControlTypeOK'
  BY <1>t, <1>u DEF ControlTypeOK
<1>5. InOnePlace'
  <2>1. \A d \in Chunk : /\ In(d, toReader') => d # held' /\ d \notin ReaderChunkQ'
                         /\ d = held' => d \notin ReaderChunkQ'
    BY <1>t, <1>u, <1>w, <1>p DEF InOnePlace, WithReader
  <2>2. \A d \in Chunk : WithReader(d)' <=> WithReader(d) \/ d = c
    BY <1>u, <1>p DEF WithReader
  <2>3. \A d \in Chunk :
          WithReader(d)' => /\ c_owner'[d] = "READER" /\ c_status'[d] = "WAITING"
                            /\ c_frame'[d] # None /\ ~In(d, toWriter')
    BY <1>t, <1>u, <1>w, <1>f, <1>e, <2>2 DEF InOnePlace
  <2>4. \A d \in Chunk : In(d, toWriter') => /\ c_owner'[d] = "READER"
                                             /\ c_status'[d] \in {"WRITTEN", "ERROR"}
    BY <1>t, <1>u, <1>w, <1>e DEF InOnePlace
  <2>5. \A d \in Chunk : /\ c_owner'[d] = "READER" => WithReader(d)' \/ In(d, toWriter')
                         /\ c_status'[d] = "READY" => c_owner'[d] = "WRITER"
                         /\ c_frame'[d] # None => WithReader(d)'
    BY <1>t, <1>u, <1>e, <2>2 DEF InOnePlace
  <2>6. \A d \in Chunk : d \in WriterChunkQ' <=> c_status'[d] = "READY"
    BY <1>t, <1>1, <1>e DEF InOnePlace
  <2>7. NoDuplicate(toReader') /\ NoDuplicate(toWriter')
    BY <1>t, <1>u, <1>p DEF InOnePlace
  <2> QED BY <2>1, <2>3, <2>4, <2>5, <2>6, <2>7 DEF InOnePlace
<1>6. FramesOwned'
  <2>1. \A d, e \in Chunk : c_frame'[d] # None /\ c_frame'[d] = c_frame'[e] => d = e
    BY <1>t, <1>f, <1>e DEF FramesOwned
  <2>2. \A d \in Chunk : c_frame'[d] # None => c_frame'[d] \in busy' /\ ~In(c_frame'[d], toTidy')
    BY <1>t, <1>1, <1>u, <1>f, <1>e DEF FramesOwned
  <2>3. \A x \in busy' : In(x, toTidy') \/ \E d \in Chunk : c_frame'[d] = x
    <3>1. c_frame[c] = None
      BY <1>t, <1>c, <1>w DEF InOnePlace
    <3>2. \A x \in busy : x # None
      BY <1>t, ConstantsAssumption DEF ChunkTypeOK
    <3>3. \A x \in busy : In(x, toTidy) \/ \E d \in Chunk : d # c /\ c_frame[d] = x
      BY <1>t, <3>1, <3>2 DEF FramesOwned
    <3>4. c_frame'[c] = fr
      BY <1>c, <1>e
    <3> QED BY <1>1, <1>u, <1>c, <1>e, <3>3, <3>4
  <2> QED BY <1>t, <1>1, <1>u, <1>f, <2>1, <2>2, <2>3 DEF FramesOwned
<1>7. FreshSnap'
  <2>1. \A s \in Snap : \A d \in ChunksOf(s) : snap[s].status = "INIT" => d # c
    BY <1>t, <1>w, ParentOf DEF FreshSnap
  <2> SUFFICES ASSUME NEW s \in Snap, snap[s].status = "INIT"
               PROVE  /\ ~file'[s].live
                      /\ \A d \in ChunksOf(s) : c_status'[d] = "INIT" /\ c_owner'[d] = "WRITER"
    BY <1>u DEF FreshSnap, ChunksOf
  <2>2. \A d \in ChunksOf(s) : d \in Chunk /\ d # c
    BY <2>1 DEF ChunksOf, Chunk
  <2> QED BY <1>t, <1>e, <1>g, <2>2 DEF FreshSnap
<1>8. WrittenCount'
  <2>1. \A s \in Snap : WrittenChunks(s)' = WrittenChunks(s)
    BY <1>e, <1>w DEF WrittenChunks, ChunksOf, Chunk
  <2>3. ASSUME NEW s \in Snap,
               file'[s].live \/ \E d \in ChunksOf(s) : c_owner'[d] = "READER"
        PROVE  file'[s].written = Cardinality(WrittenChunks(s))
    <3>1. CASE file[s].live \/ \E d \in ChunksOf(s) : c_owner[d] = "READER"
      BY <1>t, <1>g, <3>1 DEF WrittenCount
    <3>2. CASE ~file[s].live /\ s = Parent(c)
      BY <1>t, <3>2 DEF QueuedFile
    <3>3. CASE s # Parent(c)
      <4>1. \A d \in ChunksOf(s) : d \in Chunk /\ d # c
        BY <3>3 DEF ChunksOf, Chunk, Parent
      <4>2. file[s].live \/ \E d \in ChunksOf(s) : c_owner[d] = "READER"
        BY <1>e, <1>g, <2>3, <4>1
      <4> QED BY <1>t, <1>g, <4>2 DEF WrittenCount
    <3> QED BY <3>1, <3>2, <3>3
  <2> QED BY <2>1, <2>3 DEF WrittenCount, ChunksOf
<1>9. InHand' /\ QueuedChunkKeepsData'
  BY <1>t, <1>u DEF IInv, InHand, QueuedChunkKeepsData
<1>10. QueuedFile'
  <2>1. \A d \in WriterChunkQ : Parent(d) \in Snap
    BY <1>t, ParentOf DEF ChunkTypeOK
  <2> QED BY <1>t, <1>1, <1>g, <2>1 DEF QueuedFile
<1> QED BY <1>2, <1>3, <1>4, <1>5, <1>6, <1>7, <1>8, <1>9, <1>10 DEF IInv, TypeOK
-----------------------------------------------------------------------------
(***************************************************************************)
(* Files.                                                                  *)
(***************************************************************************)

(* A new file of s takes chunk descriptors that nobody has any more.        *)
LEMMA NewChunksMoves ==
  ASSUME IInv, NEW s \in Snap, NEW first \in Nat,
         NewChunks(s, first),
         UNCHANGED <<frameQ, busy, toReader, toTidy, ReaderChunkQ, held, a_tail>>,
         toWriter' \in Seq(Chunk), NoDuplicate(toWriter'),
         \A x : In(x, toWriter') => In(x, toWriter),
         \A c \in Chunk : Parent(c) # s /\ In(c, toWriter) => In(c, toWriter'),
         \A c \in ChunksOf(s) : ~WithReader(c) /\ ~In(c, toWriter')
  PROVE  ChunkTypeOK' /\ InOnePlace' /\ FramesOwned' /\ QueuedChunkKeepsData'
<1>t. ChunkTypeOK /\ InOnePlace /\ FramesOwned /\ QueuedChunkKeepsData
  BY DEF IInv, TypeOK
<1>n. \A d \in Chunk : d # None
  BY ParentOf
<1>e. \A d \in Chunk : /\ c_status'[d] = IF Parent(d) = s THEN "READY" ELSE c_status[d]
                       /\ c_owner'[d] = IF Parent(d) = s THEN "WRITER" ELSE c_owner[d]
                       /\ c_frame'[d] = IF Parent(d) = s THEN None ELSE c_frame[d]
                       /\ Parent(d) # s => c_first'[d] = c_first[d]
  BY DEF NewChunks
<1>f. \A d \in Chunk : Parent(d) = s => first + Cut[d[2] - 1] \in Nat
  <2> SUFFICES ASSUME NEW d \in Chunk PROVE Cut[d[2] - 1] \in Nat
    OBVIOUS
  <2>1. d[2] \in 1 .. NChunk /\ NChunk \in Nat /\ Cut \in [0 .. NChunk -> Nat]
    BY ConstantsAssumption DEF Chunk
  <2>2. d[2] - 1 \in 0 .. NChunk
    BY <2>1
  <2> QED BY <2>1, <2>2
<1>g. \A d \in Chunk : Parent(d) = s <=> d \in ChunksOf(s)
  BY ParentOf
<1>q. WriterChunkQ' = WriterChunkQ \cup ChunksOf(s) /\ ChunksOf(s) \subseteq Chunk
  BY DEF NewChunks, ChunksOf, Chunk
<1>w. \A d \in Chunk : WithReader(d)' <=> WithReader(d)
  BY DEF WithReader
<1>1. ChunkTypeOK'
  <2>1. c_status' \in [Chunk -> ChunkStatus]
    BY <1>t DEF NewChunks, ChunkTypeOK, ChunkStatus
  <2>2. c_owner' \in [Chunk -> {"WRITER", "READER"}]
    BY <1>t DEF NewChunks, ChunkTypeOK
  <2>3. c_first' \in [Chunk -> Nat]
    BY <1>t, <1>f DEF NewChunks, ChunkTypeOK
  <2>4. c_frame' \in [Chunk -> Frame \cup {None}]
    BY <1>t DEF NewChunks, ChunkTypeOK
  <2> QED BY <1>t, <1>q, <2>1, <2>2, <2>3, <2>4 DEF ChunkTypeOK
<1>2. InOnePlace'
  <2>1. NoDuplicate(toReader') /\ NoDuplicate(toWriter')
    BY <1>t DEF InOnePlace
  <2>2. ASSUME NEW d \in Chunk
        PROVE  /\ In(d, toReader') => d # held' /\ d \notin ReaderChunkQ'
               /\ d = held' => d \notin ReaderChunkQ'
    BY <1>t DEF InOnePlace
  <2>3. ASSUME NEW d \in Chunk
        PROVE  /\ WithReader(d)' => /\ c_owner'[d] = "READER" /\ c_status'[d] = "WAITING"
                                    /\ c_frame'[d] # None /\ ~In(d, toWriter')
               /\ In(d, toWriter') => /\ c_owner'[d] = "READER"
                                      /\ c_status'[d] \in {"WRITTEN", "ERROR"}
               /\ c_owner'[d] = "READER" => WithReader(d)' \/ In(d, toWriter')
               /\ d \in WriterChunkQ' <=> c_status'[d] = "READY"
               /\ c_status'[d] = "READY" => c_owner'[d] = "WRITER"
               /\ c_frame'[d] # None => WithReader(d)'
    <3>1. CASE Parent(d) = s
      BY <1>e, <1>g, <1>q, <1>w, <3>1
    <3>2. CASE Parent(d) # s
      BY <1>t, <1>e, <1>g, <1>q, <1>w, <3>2 DEF InOnePlace
    <3> QED BY <3>1, <3>2
  <2> QED BY <2>1, <2>2, <2>3 DEF InOnePlace
<1>3. FramesOwned'
  <2>1. \A d \in Chunk : c_frame'[d] = c_frame[d]
    BY <1>t, <1>e, <1>g DEF InOnePlace
  <2> QED BY <1>t, <2>1 DEF FramesOwned
<1>4. QueuedChunkKeepsData'
  <2>1. \A d \in ReaderChunkQ : d \in Chunk /\ Parent(d) # s
    BY <1>t, <1>g DEF ChunkTypeOK, WithReader
  <2> QED BY <1>t, <1>e, <2>1 DEF QueuedChunkKeepsData
<1> QED BY <1>1, <1>2, <1>3, <1>4

(* A snapshot whose file ends without a successor: its chunks are the       *)
(* WRITER's, and none of them is queued.                                    *)
LEMMA EndFileMoves ==
  ASSUME IInv, NEW s \in Snap, NEW d \in SnapRecord, d.status # "INIT",
         snap' = [snap EXCEPT ![s] = d],
         file' = [file EXCEPT ![s].live = FALSE],
         c_owner' = [c \in Chunk |-> IF Parent(c) = s THEN "WRITER" ELSE c_owner[c]],
         UNCHANGED <<c_status, c_first, c_frame, WriterChunkQ>>,
         UNCHANGED <<frameQ, busy, toReader, toTidy, ReaderChunkQ, held, a_tail>>,
         wp_nfiles' \in Int,
         toWriter' \in Seq(Chunk), NoDuplicate(toWriter'),
         \A x : In(x, toWriter') => In(x, toWriter),
         \A c \in Chunk : Parent(c) # s /\ In(c, toWriter) => In(c, toWriter'),
         \A c \in ChunksOf(s) : ~WithReader(c) /\ ~In(c, toWriter') /\ c \notin WriterChunkQ
  PROVE  /\ WriterTypeOK' /\ ChunkTypeOK' /\ InOnePlace' /\ FramesOwned' /\ FreshSnap'
         /\ QueuedFile' /\ WrittenCount' /\ QueuedChunkKeepsData'
<1>t. /\ WriterTypeOK /\ ChunkTypeOK /\ InOnePlace /\ FramesOwned /\ FreshSnap /\ QueuedFile
      /\ WrittenCount /\ QueuedChunkKeepsData
  BY DEF IInv, TypeOK
<1>e. \A c \in Chunk : c_owner'[c] = IF Parent(c) = s THEN "WRITER" ELSE c_owner[c]
  OBVIOUS
<1>g. \A c \in Chunk : Parent(c) = s <=> c \in ChunksOf(s)
  BY ParentOf
<1>w. \A c \in Chunk : WithReader(c)' <=> WithReader(c)
  BY DEF WithReader
<1>f. \A r \in Snap : /\ r # s => file'[r] = file[r] /\ snap'[r] = snap[r]
                      /\ r = s => ~file'[r].live /\ snap'[r] = d
  BY <1>t DEF WriterTypeOK, FileRecord
<1>1. WriterTypeOK'
  <2>1. file' \in [Snap -> FileRecord]
    BY <1>t DEF WriterTypeOK, FileRecord
  <2> QED BY <1>t, <2>1 DEF WriterTypeOK
<1>2. ChunkTypeOK'
  BY <1>t DEF ChunkTypeOK
<1>3. InOnePlace'
  <2>1. ASSUME NEW c \in Chunk
        PROVE  /\ In(c, toReader') => c # held' /\ c \notin ReaderChunkQ'
               /\ c = held' => c \notin ReaderChunkQ'
    BY <1>t DEF InOnePlace
  <2>2. ASSUME NEW c \in Chunk
        PROVE  /\ WithReader(c)' => /\ c_owner'[c] = "READER" /\ c_status'[c] = "WAITING"
                                    /\ c_frame'[c] # None /\ ~In(c, toWriter')
               /\ In(c, toWriter') => /\ c_owner'[c] = "READER"
                                      /\ c_status'[c] \in {"WRITTEN", "ERROR"}
               /\ c_owner'[c] = "READER" => WithReader(c)' \/ In(c, toWriter')
               /\ c \in WriterChunkQ' <=> c_status'[c] = "READY"
               /\ c_status'[c] = "READY" => c_owner'[c] = "WRITER"
               /\ c_frame'[c] # None => WithReader(c)'
    <3>1. CASE Parent(c) = s
      BY <1>t, <1>e, <1>g, <1>w, <3>1 DEF InOnePlace
    <3>2. CASE Parent(c) # s
      BY <1>t, <1>e, <1>g, <1>w, <3>2 DEF InOnePlace
    <3> QED BY <3>1, <3>2
  <2>3. NoDuplicate(toReader')
    BY <1>t DEF InOnePlace
  <2> QED BY <2>1, <2>2, <2>3 DEF InOnePlace
<1>4. FramesOwned'
  BY <1>t DEF FramesOwned
<1>5. FreshSnap'
  <2> SUFFICES ASSUME NEW r \in Snap, snap'[r].status = "INIT"
               PROVE  /\ ~file'[r].live
                      /\ \A c \in ChunksOf(r) : c_status'[c] = "INIT" /\ c_owner'[c] = "WRITER"
    BY DEF FreshSnap, ChunksOf
  <2>1. r # s /\ snap[r].status = "INIT"
    BY <1>f
  <2>2. \A c \in ChunksOf(r) : c \in Chunk /\ Parent(c) # s
    BY <2>1 DEF ChunksOf, Chunk, Parent
  <2> QED BY <1>t, <1>e, <1>f, <2>1, <2>2 DEF FreshSnap
<1>6. QueuedFile'
  <2>1. \A c \in WriterChunkQ : c \in Chunk /\ Parent(c) \in Snap /\ Parent(c) # s
    BY <1>t, <1>g, ParentOf DEF ChunkTypeOK
  <2> QED BY <1>t, <1>f, <2>1 DEF QueuedFile
<1>7. WrittenCount'
  <2> SUFFICES ASSUME NEW r \in Snap,
                      file'[r].live \/ \E c \in ChunksOf(r) : c_owner'[c] = "READER"
               PROVE  file'[r].written = Cardinality(WrittenChunks(r)')
    BY DEF WrittenCount, ChunksOf
  <2>1. \A c \in ChunksOf(r) : c \in Chunk /\ Parent(c) = r
    BY DEF ChunksOf, Chunk, Parent
  <2>2. r # s
    BY <1>e, <1>f, <2>1
  <2>3. WrittenChunks(r)' = WrittenChunks(r)
    BY <1>e, <2>1, <2>2 DEF WrittenChunks, ChunksOf
  <2>4. file[r].live \/ \E c \in ChunksOf(r) : c_owner[c] = "READER"
    BY <1>e, <1>f, <2>1, <2>2
  <2> QED BY <1>t, <1>f, <2>2, <2>3, <2>4 DEF WrittenCount
<1>8. QueuedChunkKeepsData'
  BY <1>t DEF QueuedChunkKeepsData
<1> QED BY <1>1, <1>2, <1>3, <1>4, <1>5, <1>6, <1>7, <1>8

(* A file of the snapshot holds a whole number of samples.                  *)
LEMMA FileSamplesNat == FileSamples \in Nat
BY ConstantsAssumption DEF FileSamples

(* setup_snapshot, whether it makes the file or fails.                      *)
LEMMA SetupMoves ==
  ASSUME IInv, NEW s \in Snap, NEW d \in SnapRecord, d.status # "INIT",
         NEW nfiles \in Int, NEW totxfr,
         SetupSnapshot(s, d, nfiles, totxfr),
         UNCHANGED <<frameQ, busy, toReader, toTidy, ReaderChunkQ, held, a_tail>>,
         toWriter' \in Seq(Chunk), NoDuplicate(toWriter'),
         \A x : In(x, toWriter') => In(x, toWriter),
         \A c \in Chunk : Parent(c) # s /\ In(c, toWriter) => In(c, toWriter'),
         \A c \in ChunksOf(s) : ~WithReader(c) /\ ~In(c, toWriter') /\ c \notin WriterChunkQ
  PROVE  /\ WriterTypeOK' /\ ChunkTypeOK' /\ InOnePlace' /\ FramesOwned' /\ FreshSnap'
         /\ QueuedFile' /\ WrittenCount' /\ QueuedChunkKeepsData'
<1>t. /\ WriterTypeOK /\ ChunkTypeOK /\ InOnePlace /\ FramesOwned /\ FreshSnap /\ QueuedFile
      /\ WrittenCount /\ QueuedChunkKeepsData
  BY DEF IInv, TypeOK
<1>1. CASE /\ snap' = [snap EXCEPT ![s] = [d EXCEPT !.status = "ERROR"]]
           /\ file' = [file EXCEPT ![s].live = FALSE]
           /\ wp_nfiles' = nfiles /\ wp_totxfr' = totxfr
           /\ UNCHANGED <<c_status, c_first, c_frame, WriterChunkQ>>
           /\ c_owner' = [c \in Chunk |-> IF Parent(c) = s THEN "WRITER" ELSE c_owner[c]]
  <2> DEFINE e == [d EXCEPT !.status = "ERROR"]
  <2>1. e \in SnapRecord /\ e.status # "INIT"
    BY DEF SnapRecord, SnapStatus
  <2>2. snap' = [snap EXCEPT ![s] = e]
    BY <1>1
  <2>3. wp_nfiles' \in Int
    BY <1>1
  <2> HIDE DEF e
  <2> QED BY <1>1, <2>1, <2>2, <2>3, EndFileMoves
<1>2. CASE /\ NewChunks(s, d.first)
           /\ file' = [file EXCEPT ![s] = [live |-> TRUE, status |-> "READY",
                                           pending |-> 0, written |-> 0]]
           /\ snap' = [snap EXCEPT ![s] = [d EXCEPT !.pending = d.pending + 1,
                                                    !.first = d.first + FileSamples]]
           /\ wp_nfiles' = nfiles + 1
           /\ wp_totxfr' = totxfr - FileSamples
  <2>1. d.first \in Nat /\ d.pending \in Int
    BY DEF SnapRecord
  <2>2. ChunkTypeOK' /\ InOnePlace' /\ FramesOwned' /\ QueuedChunkKeepsData'
    BY <1>2, <2>1, NewChunksMoves
  <2>3. WriterTypeOK'
    <3>1. [d EXCEPT !.pending = d.pending + 1, !.first = d.first + FileSamples] \in SnapRecord
      <4>1. d.first + FileSamples \in Nat /\ d.pending + 1 \in Int
        BY <2>1, FileSamplesNat
      <4> QED BY <4>1 DEF SnapRecord
    <3>2. [live |-> TRUE, status |-> "READY", pending |-> 0, written |-> 0] \in FileRecord
      BY DEF FileRecord, FileStatus
    <3>3. wp_nfiles' \in Int
      BY <1>2
    <3> QED BY <1>t, <1>2, <3>1, <3>2, <3>3 DEF WriterTypeOK
  <2>e. \A c \in Chunk : /\ c_status'[c] = IF Parent(c) = s THEN "READY" ELSE c_status[c]
                         /\ c_owner'[c] = IF Parent(c) = s THEN "WRITER" ELSE c_owner[c]
    BY <1>2 DEF NewChunks
  <2>f. \A r \in Snap : /\ r # s => file'[r] = file[r] /\ snap'[r] = snap[r]
                        /\ r = s => /\ file'[r].live /\ file'[r].status = "READY"
                                    /\ file'[r].written = 0 /\ snap'[r].status = d.status
    BY <1>t, <1>2 DEF WriterTypeOK, SnapRecord
  <2>4. FreshSnap'
    <3> SUFFICES ASSUME NEW r \in Snap, snap'[r].status = "INIT"
                 PROVE  /\ ~file'[r].live
                        /\ \A c \in ChunksOf(r) : c_status'[c] = "INIT" /\ c_owner'[c] = "WRITER"
      BY DEF FreshSnap, ChunksOf
    <3>1. r # s /\ snap[r].status = "INIT"
      BY <2>f
    <3>2. \A c \in ChunksOf(r) : c \in Chunk /\ Parent(c) # s
      BY <3>1 DEF ChunksOf, Chunk, Parent
    <3> QED BY <1>t, <2>e, <2>f, <3>1, <3>2 DEF FreshSnap
  <2>5. QueuedFile'
    <3>1. WriterChunkQ' = WriterChunkQ \cup ChunksOf(s)
      BY <1>2 DEF NewChunks
    <3>2. \A c \in ChunksOf(s) : Parent(c) = s
      BY DEF ChunksOf, Parent
    <3>3. \A c \in WriterChunkQ : c \in Chunk /\ Parent(c) \in Snap
      BY <1>t, ParentOf DEF ChunkTypeOK
    <3> QED BY <1>t, <2>f, <3>1, <3>2, <3>3 DEF QueuedFile
  <2>6. WrittenCount'
    <3> SUFFICES ASSUME NEW r \in Snap,
                        file'[r].live \/ \E c \in ChunksOf(r) : c_owner'[c] = "READER"
                 PROVE  file'[r].written = Cardinality(WrittenChunks(r)')
      BY DEF WrittenCount, ChunksOf
    <3>1. \A c \in ChunksOf(r) : c \in Chunk /\ Parent(c) = r
      BY DEF ChunksOf, Chunk, Parent
    <3>2. CASE r = s
      <4>1. \A c \in ChunksOf(r) : c_status'[c] = "READY"
        BY <2>e, <3>1, <3>2
      <4>2. WrittenChunks(r)' = {}
        BY <4>1 DEF WrittenChunks, ChunksOf
      <4> QED BY <2>f, <3>2, <4>2, FS_EmptySet
    <3>3. CASE r # s
      <4>1. WrittenChunks(r)' = WrittenChunks(r)
        BY <2>e, <3>1, <3>3 DEF WrittenChunks, ChunksOf
      <4>2. file[r].live \/ \E c \in ChunksOf(r) : c_owner[c] = "READER"
        BY <2>e, <2>f, <3>1, <3>3
      <4> QED BY <1>t, <2>f, <3>3, <4>1, <4>2 DEF WrittenCount
    <3> QED BY <3>2, <3>3
  <2> QED BY <2>2, <2>3, <2>4, <2>5, <2>6
<1> QED BY <1>1, <1>2 DEF SetupSnapshot
-----------------------------------------------------------------------------
(***************************************************************************)
(* Commands and returned chunks.                                           *)
(***************************************************************************)

(* A Snap command.                                                          *)
LEMMA SnapStep ==
  ASSUME IInv, NEW s \in Snap, NEW first \in Start, NEW n \in Count,
         SnapCommand(s, first, n)
  PROVE  IInv'
<1>t. /\ WriterTypeOK /\ ChunkTypeOK /\ ControlTypeOK /\ InOnePlace /\ FreshSnap
      /\ FramesOwned /\ QueuedFile /\ WrittenCount /\ InHand /\ QueuedChunkKeepsData
  BY DEF IInv, TypeOK
<1> DEFINE d == [status |-> "PREPARE", first |-> first, done |-> 0, pending |-> 0,
                 count |-> n]
<1>d. d \in SnapRecord /\ d.status # "INIT"
  BY <1>t, ConstantsAssumption DEF SnapRecord, SnapStatus, ControlTypeOK
<1>u. /\ UNCHANGED <<frameQ, busy, toReader, toWriter, toTidy, ReaderChunkQ, held>>
      /\ UNCHANGED <<rpc, aborting, rp_state, a_head, a_tail, high_water_mark, capture>>
      /\ wpc' = "service" /\ snap[s].status = "INIT"
  BY DEF SnapCommand, frameVars, pipeVars, adcVars, readerVars
<1>w. \A c \in ChunksOf(s) : /\ c \in Chunk /\ c_status[c] = "INIT" /\ c_owner[c] = "WRITER"
                             /\ ~WithReader(c) /\ ~In(c, toWriter') /\ c \notin WriterChunkQ
  <2>1. \A c \in ChunksOf(s) : c \in Chunk /\ c_status[c] = "INIT" /\ c_owner[c] = "WRITER"
    BY <1>t, <1>u DEF FreshSnap, ChunksOf, Chunk
  <2> QED BY <1>t, <1>u, <2>1 DEF InOnePlace
<1>p. /\ toWriter' \in Seq(Chunk) /\ NoDuplicate(toWriter')
      /\ \A x : In(x, toWriter') <=> In(x, toWriter)
  BY <1>t, <1>u DEF ChunkTypeOK, InOnePlace
<1>i. wp_nfiles \in Int
  BY <1>t DEF WriterTypeOK
<1>1. ControlTypeOK' /\ InHand'
  BY <1>t, <1>u DEF ControlTypeOK, InHand
<1>2. CASE SetupSnapshot(s, d, wp_nfiles, wp_totxfr)
  <2> HIDE DEF d
  <2> QED BY <1>d, <1>u, <1>w, <1>p, <1>i, <1>1, <1>2, SetupMoves DEF IInv, TypeOK
<1>3. CASE /\ snap' = [snap EXCEPT ![s] = [d EXCEPT !.status = "COMPLETE"]]
           /\ UNCHANGED <<file, WriterChunkQ, wp_nfiles, wp_totxfr, chunkVars>>
  <2>1. [d EXCEPT !.status = "COMPLETE"] \in SnapRecord
    BY <1>d DEF SnapRecord, SnapStatus
  <2>2. WriterTypeOK' /\ ChunkTypeOK'
    BY <1>t, <1>u, <1>3, <2>1 DEF WriterTypeOK, ChunkTypeOK, chunkVars
  <2>3. InOnePlace' /\ FramesOwned' /\ QueuedChunkKeepsData'
    BY <1>t, <1>u, <1>3
    DEF InOnePlace, WithReader, FramesOwned, QueuedChunkKeepsData, chunkVars
  <2>6. QueuedFile' /\ WrittenCount'
    BY <1>t, <1>3 DEF QueuedFile, WrittenCount, WrittenChunks, ChunksOf, chunkVars
  <2>4. \A r \in Snap : snap'[r].status = "INIT" => snap[r].status = "INIT"
    BY <1>t, <1>3, <1>u DEF WriterTypeOK
  <2>5. FreshSnap'
    BY <1>t, <1>3, <2>4 DEF FreshSnap, ChunksOf, chunkVars
  <2> QED BY <1>1, <2>2, <2>3, <2>5, <2>6 DEF IInv, TypeOK
<1> QED BY <1>2, <1>3 DEF SnapCommand

(* The chunks of a file are NChunk in number.                               *)
LEMMA ChunksOfCardinality ==
  ASSUME NEW s \in Snap
  PROVE  IsFiniteSet(ChunksOf(s)) /\ Cardinality(ChunksOf(s)) = NChunk
<1> DEFINE f == [i \in 1 .. NChunk |-> <<s, i>>]
<1>1. NChunk \in Nat
  BY ConstantsAssumption
<1>2. f \in Bijection(1 .. NChunk, ChunksOf(s))
  BY DEF Bijection, Injection, Surjection, IsInjective, ChunksOf
<1>3. ExistsBijection(1 .. NChunk, ChunksOf(s))
  BY <1>2 DEF ExistsBijection
<1>4. IsFiniteSet(1 .. NChunk) /\ Cardinality(1 .. NChunk) = NChunk
  BY <1>1, FS_Interval
<1> QED BY <1>3, <1>4, FS_Bijection

(* When the count of written chunks reaches NChunk with chunk c, every      *)
(* other chunk of the file has been written and is the WRITER's again.      *)
LEMMA LastOneWritten ==
  ASSUME IInv, NEW c \in Chunk, c_owner[c] = "READER",
         file[Parent(c)].written + 1 = NChunk
  PROVE  \A d \in ChunksOf(Parent(c)) :
            d # c => c_status[d] = "WRITTEN" /\ c_owner[d] = "WRITER"
<1> DEFINE s == Parent(c)
           W == WrittenChunks(s)
<1>1. s \in Snap /\ c \in ChunksOf(s)
  BY ParentOf
<1>2. IsFiniteSet(ChunksOf(s)) /\ Cardinality(ChunksOf(s)) = NChunk
  BY <1>1, ChunksOfCardinality
<1>3. W \subseteq ChunksOf(s) /\ c \notin W
  BY DEF WrittenChunks
<1>4. IsFiniteSet(W)
  BY <1>2, <1>3, FS_Subset
<1>5. Cardinality(W \cup {c}) = Cardinality(W) + 1
  BY <1>3, <1>4, FS_AddElement
<1>6. Cardinality(W) = file[s].written
  BY <1>1 DEF IInv, WrittenCount
<1>7. W \cup {c} \in SUBSET ChunksOf(s)
  BY <1>1, <1>3
<1>8. W \cup {c} = ChunksOf(s)
  BY <1>2, <1>5, <1>6, <1>7, FS_Subset
<1> QED BY <1>8 DEF WrittenChunks

(* What process_reader_message finds at the head of the pipe.               *)
LEMMA ReceivedChunk ==
  ASSUME IInv, WriterReceive
  PROVE  LET c == Head(toWriter)
         IN  /\ c \in Chunk /\ Parent(c) \in Snap /\ c \in ChunksOf(Parent(c))
             /\ In(c, toWriter) /\ c_owner[c] = "READER" /\ ~WithReader(c)
             /\ c_frame[c] = None /\ snap[Parent(c)].status # "INIT"
             /\ toWriter' \in Seq(Chunk) /\ NoDuplicate(toWriter')
             /\ \A x : In(x, toWriter') <=> In(x, toWriter) /\ x # c
             /\ UNCHANGED <<frameQ, busy, toReader, toTidy, ReaderChunkQ, held, a_tail>>
             /\ ControlTypeOK' /\ InHand'
<1> DEFINE c == Head(toWriter)
<1>t. ChunkTypeOK /\ ControlTypeOK /\ InOnePlace /\ FreshSnap /\ InHand
  BY DEF IInv, TypeOK
<1>u. /\ toWriter # <<>> /\ toWriter' = Tail(toWriter) /\ wpc' = "command"
      /\ UNCHANGED <<frameQ, busy, toReader, toTidy, ReaderChunkQ, held>>
      /\ UNCHANGED <<rpc, aborting, rp_state, a_head, a_tail, high_water_mark, capture>>
  BY DEF WriterReceive, frameVars, adcVars, readerVars
<1>1. /\ c \in Chunk /\ In(c, toWriter)
      /\ toWriter' \in Seq(Chunk) /\ NoDuplicate(toWriter')
      /\ \A x : In(x, toWriter') <=> In(x, toWriter) /\ x # c
  BY <1>t, <1>u, InTail DEF ChunkTypeOK, InOnePlace
<1>2. c_owner[c] = "READER" /\ ~WithReader(c) /\ c_frame[c] = None
  BY <1>t, <1>1 DEF InOnePlace
<1>3. Parent(c) \in Snap /\ c \in ChunksOf(Parent(c))
  BY <1>1, ParentOf
<1>4. snap[Parent(c)].status # "INIT"
  BY <1>t, <1>2, <1>3 DEF FreshSnap
<1>5. ControlTypeOK' /\ InHand'
  BY <1>t, <1>u DEF ControlTypeOK, InHand
<1> QED BY <1>u, <1>1, <1>2, <1>3, <1>4, <1>5

(* A chunk that comes back written.                                         *)
LEMMA WrittenStep ==
  ASSUME IInv, WriterReceive, WriterWritten(Head(toWriter))
  PROVE  IInv'
<1> DEFINE c == Head(toWriter)
           s == Parent(c)
           f == [Back(file[s]) EXCEPT !.written = @ + 1]
<1>t. /\ WriterTypeOK /\ ChunkTypeOK /\ InOnePlace /\ FramesOwned /\ FreshSnap /\ QueuedFile
      /\ WrittenCount /\ QueuedChunkKeepsData
  BY DEF IInv, TypeOK
<1>u. /\ c \in Chunk /\ s \in Snap /\ c \in ChunksOf(s)
      /\ In(c, toWriter) /\ c_owner[c] = "READER" /\ ~WithReader(c)
      /\ c_frame[c] = None /\ snap[s].status # "INIT"
      /\ toWriter' \in Seq(Chunk) /\ NoDuplicate(toWriter')
      /\ \A x : In(x, toWriter') <=> In(x, toWriter) /\ x # c
      /\ UNCHANGED <<frameQ, busy, toReader, toTidy, ReaderChunkQ, held, a_tail>>
      /\ ControlTypeOK' /\ InHand'
  BY ReceivedChunk
<1>w. c_status[c] = "WRITTEN"
  BY DEF WriterWritten
<1>r. file[s] \in FileRecord
  BY <1>t, <1>u DEF WriterTypeOK
<1>f. /\ f \in FileRecord /\ f.written = file[s].written + 1
      /\ f.live = file[s].live /\ f.status = file[s].status
  <2> DEFINE b == Back(file[s])
  <2>1. file[s].pending - 1 \in Int /\ file[s].written + 1 \in Nat
    BY <1>r DEF FileRecord
  <2>2. /\ b \in FileRecord /\ b.written = file[s].written
        /\ b.live = file[s].live /\ b.status = file[s].status
    BY <1>r, <2>1 DEF FileRecord, Back
  <2> HIDE DEF b
  <2>3. f = [b EXCEPT !.written = @ + 1]
    BY DEF b
  <2> QED BY <2>1, <2>2, <2>3 DEF FileRecord
<1> HIDE DEF c, f
<1>1. CASE AllWritten(f) /\ FileWritten(s, wp_totxfr + Samples(c))
  <2>1. file[s].written + 1 = NChunk
    BY <1>f, <1>1 DEF AllWritten
  <2>2. \A e \in ChunksOf(s) : e # c => c_status[e] = "WRITTEN" /\ c_owner[e] = "WRITER"
    BY <1>u, <2>1, LastOneWritten
  <2>3. \A e \in ChunksOf(s) : ~WithReader(e) /\ ~In(e, toWriter') /\ e \notin WriterChunkQ
    <3>1. \A e \in ChunksOf(s) : e \in Chunk
      BY <1>u DEF ChunksOf, Chunk
    <3> QED BY <1>t, <1>u, <1>w, <2>2, <3>1 DEF InOnePlace
  <2>4. \A e \in Chunk : Parent(e) # s /\ In(e, toWriter) => In(e, toWriter')
    BY <1>u
  <2> DEFINE d == [snap[s] EXCEPT !.status = "WRITING", !.done = snap[s].done + 1,
                                  !.pending = snap[s].pending - 1]
  <2>5. d \in SnapRecord /\ d.status # "INIT"
    <3>1. snap[s] \in SnapRecord
      BY <1>t, <1>u DEF WriterTypeOK
    <3>2. snap[s].done + 1 \in Nat /\ snap[s].pending - 1 \in Int
      BY <3>1 DEF SnapRecord
    <3> QED BY <3>1, <3>2 DEF SnapRecord, SnapStatus
  <2>6. wp_nfiles - 1 \in Int
    BY <1>t DEF WriterTypeOK
  <2>7. \/ /\ snap' = [snap EXCEPT ![s] =
                [d EXCEPT !.status = IF d.done = d.count THEN "COMPLETE" ELSE d.status]]
           /\ file' = [file EXCEPT ![s].live = FALSE]
           /\ c_owner' = [e \in Chunk |-> IF Parent(e) = s THEN "WRITER" ELSE c_owner[e]]
           /\ wp_nfiles' = wp_nfiles - 1
           /\ UNCHANGED <<c_status, c_first, c_frame, WriterChunkQ>>
        \/ SetupSnapshot(s, d, wp_nfiles - 1, wp_totxfr + Samples(c))
    BY <1>1 DEF FileWritten
  <2> DEFINE d2 == [d EXCEPT !.status = IF d.done = d.count THEN "COMPLETE" ELSE d.status]
  <2>8. d2 \in SnapRecord /\ d2.status # "INIT"
    BY <2>5 DEF SnapRecord, SnapStatus
  <2>9. CASE /\ snap' = [snap EXCEPT ![s] = d2]
             /\ file' = [file EXCEPT ![s].live = FALSE]
             /\ c_owner' = [e \in Chunk |-> IF Parent(e) = s THEN "WRITER" ELSE c_owner[e]]
             /\ wp_nfiles' = wp_nfiles - 1
             /\ UNCHANGED <<c_status, c_first, c_frame, WriterChunkQ>>
    <3> HIDE DEF d, d2, s
    <3> QED BY <1>u, <2>3, <2>4, <2>6, <2>8, <2>9, EndFileMoves DEF IInv, TypeOK
  <2>10. CASE SetupSnapshot(s, d, wp_nfiles - 1, wp_totxfr + Samples(c))
    <3> HIDE DEF d, d2, s
    <3> QED BY <1>u, <2>3, <2>4, <2>5, <2>6, <2>10, SetupMoves DEF IInv, TypeOK
  <2> QED BY <2>7, <2>9, <2>10
<1>2. CASE /\ file' = [file EXCEPT ![s] = f]
           /\ c_owner' = [c_owner EXCEPT ![c] = "WRITER"]
           /\ UNCHANGED <<snap, wp_nfiles, WriterChunkQ, c_status, c_first, c_frame>>
  <2>e. \A e \in Chunk : c_owner'[e] = IF e = c THEN "WRITER" ELSE c_owner[e]
    BY <1>t, <1>2 DEF ChunkTypeOK
  <2>f. \A r \in Snap : /\ file'[r] = IF r = s THEN f ELSE file[r]
                        /\ file'[r].live = file[r].live /\ file'[r].status = file[r].status
    BY <1>t, <1>f, <1>2 DEF WriterTypeOK
  <2>w. \A e \in Chunk : WithReader(e)' <=> WithReader(e)
    BY <1>u DEF WithReader
  <2>1. WriterTypeOK' /\ ChunkTypeOK'
    BY <1>t, <1>u, <1>f, <1>2 DEF WriterTypeOK, ChunkTypeOK
  <2>2. InOnePlace'
    BY <1>t, <1>u, <1>w, <1>2, <2>e, <2>w DEF InOnePlace
  <2>3. FramesOwned' /\ QueuedChunkKeepsData'
    BY <1>t, <1>u, <1>2 DEF FramesOwned, QueuedChunkKeepsData
  <2>4. FreshSnap'
    <3> SUFFICES ASSUME NEW r \in Snap, snap[r].status = "INIT"
                 PROVE  /\ ~file'[r].live
                        /\ \A e \in ChunksOf(r) : c_status'[e] = "INIT" /\ c_owner'[e] = "WRITER"
      BY <1>2 DEF FreshSnap, ChunksOf
    <3>1. \A e \in ChunksOf(r) : e \in Chunk
      BY DEF ChunksOf, Chunk
    <3> QED BY <1>t, <1>2, <2>e, <2>f, <3>1 DEF FreshSnap
  <2>5. QueuedFile'
    <3>1. \A e \in WriterChunkQ : Parent(e) \in Snap
      BY <1>t, ParentOf DEF ChunkTypeOK
    <3> QED BY <1>t, <1>2, <2>f, <3>1 DEF QueuedFile
  <2>6. WrittenCount'
    <3> SUFFICES ASSUME NEW r \in Snap,
                        file'[r].live \/ \E e \in ChunksOf(r) : c_owner'[e] = "READER"
                 PROVE  file'[r].written = Cardinality(WrittenChunks(r)')
      BY DEF WrittenCount, ChunksOf
    <3>1. \A e \in ChunksOf(r) : e \in Chunk /\ Parent(e) = r
      BY DEF ChunksOf, Chunk, Parent
    <3>2. file[r].written = Cardinality(WrittenChunks(r))
      BY <1>t, <1>u, <2>e, <2>f, <3>1 DEF WrittenCount
    <3>3. CASE r = s
      <4>1. WrittenChunks(r)' = WrittenChunks(r) \cup {c}
        BY <1>u, <1>w, <1>2, <2>e, <3>1, <3>3 DEF WrittenChunks, ChunksOf
      <4>2. c \notin WrittenChunks(r)
        BY <1>u DEF WrittenChunks
      <4>3. IsFiniteSet(WrittenChunks(r))
        BY ChunksOfCardinality, FS_Subset DEF WrittenChunks
      <4>4. Cardinality(WrittenChunks(r) \cup {c}) = Cardinality(WrittenChunks(r)) + 1
        BY <4>2, <4>3, FS_AddElement
      <4> QED BY <1>f, <2>f, <3>2, <3>3, <4>1, <4>4
    <3>4. CASE r # s
      <4>1. WrittenChunks(r)' = WrittenChunks(r)
        BY <1>2, <2>e, <3>1, <3>4 DEF WrittenChunks, ChunksOf
      <4> QED BY <2>f, <3>2, <3>4, <4>1
    <3> QED BY <3>3, <3>4
  <2> QED BY <1>u, <2>1, <2>2, <2>3, <2>4, <2>5, <2>6 DEF IInv, TypeOK
<1> QED BY <1>1, <1>2 DEF WriterWritten, c, f

(* A file of s fails with pending chunks out: it is freed, or waits.        *)
FileLeft(s, pending) ==
  /\ file' = [file EXCEPT ![s] = [file[s] EXCEPT !.status = "ERROR", !.pending = pending]]
  /\ UNCHANGED <<snap, wp_nfiles>>

FailsWith(s, pending) == FileFreed(s, pending) \/ FileLeft(s, pending)

LEMMA FailedFile ==
  ASSUME NEW s, NEW pending, FileFailed(s, pending)
  PROVE  /\ FailsWith(s, pending)
         /\ FileLeft(s, pending) \/ (FileFreed(s, pending) /\ pending = 0)
<1>1. CASE pending = 0
  <2>1. FileFreed(s, pending)
    BY <1>1, Zenon DEF FileFailed
  <2> QED BY <1>1, <2>1 DEF FailsWith
<1>2. CASE pending # 0
  <2>1. FileLeft(s, pending)
    BY <1>2, Zenon DEF FileFailed, FileLeft
  <2> QED BY <2>1 DEF FailsWith
<1> QED BY <1>1, <1>2

(* A file that fails: the chunks of it that are still the WRITER's are      *)
(* aborted, the chunks in back are the WRITER's again, and the file is      *)
(* freed or waits for the rest.                                             *)
LEMMA FailMoves ==
  ASSUME IInv, NEW s \in Snap, NEW aborted \in SUBSET ChunksOf(s),
         NEW back \in SUBSET ChunksOf(s), NEW pending \in Int,
         snap[s].status # "INIT", FailsWith(s, pending),
         \A c \in aborted : c_owner[c] = "WRITER" /\ c_status[c] \notin {"WRITTEN", "ERROR"},
         \A c \in WriterChunkQ : Parent(c) = s => c \in aborted,
         \A c \in back : In(c, toWriter) /\ c_status[c] = "ERROR",
         c_status' = [c \in Chunk |-> IF c \in aborted THEN "ERROR" ELSE c_status[c]],
         c_owner' \in [Chunk -> {"WRITER", "READER"}],
         \A c \in Chunk : c_owner'[c] = IF c \in back THEN "WRITER" ELSE c_owner[c],
         WriterChunkQ' = WriterChunkQ \ aborted,
         toWriter' \in Seq(Chunk), NoDuplicate(toWriter'),
         \A x : In(x, toWriter') <=> In(x, toWriter) /\ x \notin back,
         UNCHANGED <<c_first, c_frame, busy, toReader, toTidy, ReaderChunkQ, held, a_tail>>,
         frameQ' \subseteq Frame, frameQ' \cap busy = {}
  PROVE  /\ WriterTypeOK' /\ ChunkTypeOK' /\ InOnePlace' /\ FramesOwned' /\ FreshSnap'
         /\ QueuedFile' /\ WrittenCount' /\ QueuedChunkKeepsData'
<1>t. /\ WriterTypeOK /\ ChunkTypeOK /\ InOnePlace /\ FramesOwned /\ FreshSnap /\ QueuedFile
      /\ WrittenCount /\ QueuedChunkKeepsData
  BY DEF IInv, TypeOK
<1>e. \A c \in Chunk : c_status'[c] = IF c \in aborted THEN "ERROR" ELSE c_status[c]
  OBVIOUS
<1>r. file[s] \in FileRecord /\ snap[s] \in SnapRecord /\ wp_nfiles \in Int
  BY <1>t DEF WriterTypeOK
<1>1. /\ WriterTypeOK'
      /\ \A r \in Snap : /\ r # s => file'[r] = file[r] /\ snap'[r] = snap[r]
                         /\ file'[r].live => file[r].live
                         /\ file'[r].written = file[r].written
                         /\ snap'[r].status = "INIT" => snap[r].status = "INIT"
  <2>1. CASE FileFreed(s, pending)
    <3>1. /\ file' = [file EXCEPT ![s] = [live |-> FALSE, status |-> "ERROR",
                                          pending |-> pending, written |-> file[s].written]]
          /\ snap' = [snap EXCEPT ![s] = [snap[s] EXCEPT !.status = "ERROR",
                                                     !.pending = snap[s].pending - 1]]
          /\ wp_nfiles' = wp_nfiles - 1
      BY <2>1 DEF FileFreed
    <3>2. [live |-> FALSE, status |-> "ERROR", pending |-> pending, written |-> file[s].written]
            \in FileRecord
      BY <1>r DEF FileRecord, FileStatus
    <3>3. snap[s].pending - 1 \in Int
      BY <1>r DEF SnapRecord
    <3> DEFINE d == [snap[s] EXCEPT !.status = "ERROR", !.pending = snap[s].pending - 1]
    <3>e. d \in SnapRecord /\ d.status = "ERROR"
      BY <1>r, <3>3 DEF SnapRecord, SnapStatus
    <3>d. snap' = [snap EXCEPT ![s] = d]
      BY <3>1
    <3> HIDE DEF d
    <3>4. snap' \in [Snap -> SnapRecord] /\ snap'[s].status = "ERROR"
      BY <1>t, <3>e, <3>d DEF WriterTypeOK
    <3>5. file' \in [Snap -> FileRecord] /\ file'[s].written = file[s].written /\ ~file'[s].live
      BY <1>t, <3>1, <3>2 DEF WriterTypeOK
    <3>6. \A r \in Snap : r # s => file'[r] = file[r] /\ snap'[r] = snap[r]
      BY <1>t, <3>1, <3>d DEF WriterTypeOK
    <3> QED BY <1>r, <3>1, <3>4, <3>5, <3>6 DEF WriterTypeOK
  <2>2. CASE ~FileFreed(s, pending)
    <3> DEFINE f == [file[s] EXCEPT !.status = "ERROR", !.pending = pending]
    <3>1. file' = [file EXCEPT ![s] = f]
          /\ snap' = snap /\ wp_nfiles' = wp_nfiles
      BY <2>2 DEF FailsWith, FileLeft
    <3>f. f \in FileRecord /\ f.live = file[s].live /\ f.written = file[s].written
      BY <1>r DEF FileRecord, FileStatus
    <3> HIDE DEF f
    <3>2. file' \in [Snap -> FileRecord]
      BY <1>t, <3>1, <3>f DEF WriterTypeOK
    <3>3. file'[s].live = file[s].live /\ file'[s].written = file[s].written
      BY <1>t, <3>1, <3>f DEF WriterTypeOK
    <3>4. \A r \in Snap : r # s => file'[r] = file[r]
      BY <1>t, <3>1 DEF WriterTypeOK
    <3> QED BY <1>t, <3>1, <3>2, <3>3, <3>4 DEF WriterTypeOK
  <2> QED BY <2>1, <2>2
<1>2. ChunkTypeOK'
  BY <1>t DEF ChunkTypeOK, ChunkStatus
<1>3. InOnePlace'
  <2>w. \A c \in Chunk : WithReader(c)' <=> WithReader(c)
    BY DEF WithReader
  <2>1. \A c \in aborted : ~WithReader(c) /\ ~In(c, toWriter) /\ c \in Chunk
    BY <1>t DEF InOnePlace, ChunksOf, Chunk
  <2>2. \A c \in back : c \in Chunk /\ ~WithReader(c) /\ c \notin WriterChunkQ
    BY <1>t DEF InOnePlace, ChunksOf, Chunk
  <2>3. ASSUME NEW c \in Chunk
        PROVE  /\ In(c, toReader') => c # held' /\ c \notin ReaderChunkQ'
               /\ c = held' => c \notin ReaderChunkQ'
    BY <1>t DEF InOnePlace
  <2>4. ASSUME NEW c \in Chunk
        PROVE  /\ WithReader(c)' => /\ c_owner'[c] = "READER" /\ c_status'[c] = "WAITING"
                                    /\ c_frame'[c] # None /\ ~In(c, toWriter')
               /\ In(c, toWriter') => /\ c_owner'[c] = "READER"
                                      /\ c_status'[c] \in {"WRITTEN", "ERROR"}
               /\ c_frame'[c] # None => WithReader(c)'
    BY <1>t, <1>e, <2>w, <2>1, <2>2 DEF InOnePlace
  <2>5. ASSUME NEW c \in Chunk
        PROVE  /\ c_owner'[c] = "READER" => WithReader(c)' \/ In(c, toWriter')
               /\ c \in WriterChunkQ' <=> c_status'[c] = "READY"
               /\ c_status'[c] = "READY" => c_owner'[c] = "WRITER"
    BY <1>t, <1>e, <2>w, <2>1, <2>2 DEF InOnePlace
  <2>6. NoDuplicate(toReader')
    BY <1>t DEF InOnePlace
  <2> QED BY <2>3, <2>4, <2>5, <2>6 DEF InOnePlace
<1>4. FramesOwned'
  BY <1>t DEF FramesOwned
<1>5. FreshSnap'
  <2> SUFFICES ASSUME NEW r \in Snap, snap'[r].status = "INIT"
               PROVE  /\ ~file'[r].live
                      /\ \A c \in ChunksOf(r) : c_status'[c] = "INIT" /\ c_owner'[c] = "WRITER"
    BY DEF FreshSnap, ChunksOf
  <2>1. snap[r].status = "INIT" /\ r # s
    BY <1>1
  <2>2. \A c \in ChunksOf(r) : c \in Chunk /\ c \notin ChunksOf(s)
    BY <2>1 DEF ChunksOf, Chunk
  <2> QED BY <1>t, <1>e, <1>1, <2>1, <2>2 DEF FreshSnap
<1>6. QueuedFile'
  <2>1. \A c \in WriterChunkQ' : c \in WriterChunkQ /\ Parent(c) \in Snap /\ Parent(c) # s
    BY <1>t, ParentOf DEF ChunkTypeOK
  <2> QED BY <1>t, <1>1, <2>1 DEF QueuedFile
<1>7. WrittenCount'
  <2> SUFFICES ASSUME NEW r \in Snap,
                      file'[r].live \/ \E c \in ChunksOf(r) : c_owner'[c] = "READER"
               PROVE  file'[r].written = Cardinality(WrittenChunks(r)')
    BY DEF WrittenCount, ChunksOf
  <2>1. \A c \in ChunksOf(r) : c \in Chunk
    BY DEF ChunksOf, Chunk
  <2>2. WrittenChunks(r)' = WrittenChunks(r)
    BY <1>e, <2>1 DEF WrittenChunks, ChunksOf
  <2>3. file[r].live \/ \E c \in ChunksOf(r) : c_owner[c] = "READER"
    BY <1>1, <2>1
  <2> QED BY <1>t, <1>1, <2>2, <2>3 DEF WrittenCount
<1>8. QueuedChunkKeepsData'
  BY <1>t DEF QueuedChunkKeepsData
<1> QED BY <1>1, <1>2, <1>3, <1>4, <1>5, <1>6, <1>7, <1>8

(* A chunk that comes back failed.                                          *)
LEMMA ErrorStep ==
  ASSUME IInv, WriterReceive, WriterError(Head(toWriter))
  PROVE  IInv'
<1> DEFINE c == Head(toWriter)
           s == Parent(c)
           aborted == IF file[s].status = "ERROR" THEN {} ELSE Unsent(s)
           back == {c}
           pending == Back(file[s]).pending
<1>t. /\ WriterTypeOK /\ ChunkTypeOK /\ InOnePlace /\ FramesOwned /\ QueuedFile
  BY DEF IInv, TypeOK
<1>u. /\ c \in Chunk /\ s \in Snap /\ c \in ChunksOf(s)
      /\ In(c, toWriter) /\ c_owner[c] = "READER" /\ snap[s].status # "INIT"
      /\ toWriter' \in Seq(Chunk) /\ NoDuplicate(toWriter')
      /\ \A x : In(x, toWriter') <=> In(x, toWriter) /\ x # c
      /\ UNCHANGED <<frameQ, busy, toReader, toTidy, ReaderChunkQ, held, a_tail>>
      /\ ControlTypeOK' /\ InHand'
  BY ReceivedChunk
<1>e. /\ c_status[c] = "ERROR" /\ FileFailed(s, pending)
      /\ c_status' = [d \in Chunk |-> IF d \in aborted THEN "ERROR" ELSE c_status[d]]
      /\ c_owner' = [c_owner EXCEPT ![c] = "WRITER"]
      /\ WriterChunkQ' = WriterChunkQ \ aborted
      /\ UNCHANGED <<c_first, c_frame>>
  BY DEF WriterError
<1>1. pending \in Int
  <2>1. file[s] \in FileRecord
    BY <1>t, <1>u DEF WriterTypeOK
  <2> QED BY <2>1 DEF Back, FileRecord
<1>2. /\ aborted \in SUBSET ChunksOf(s)
      /\ \A d \in aborted : c_owner[d] = "WRITER" /\ c_status[d] \notin {"WRITTEN", "ERROR"}
  BY DEF Unsent
<1>3. \A d \in WriterChunkQ : Parent(d) = s => d \in aborted
  <2> SUFFICES ASSUME NEW d \in WriterChunkQ, Parent(d) = s PROVE d \in aborted
    OBVIOUS
  <2>1. d \in Chunk /\ d \in ChunksOf(s)
    BY <1>t, ParentOf DEF ChunkTypeOK
  <2>2. file[s].status # "ERROR" /\ c_status[d] = "READY" /\ c_owner[d] = "WRITER"
    BY <1>t, <2>1 DEF QueuedFile, InOnePlace
  <2> QED BY <2>1, <2>2 DEF Unsent
<1>4. /\ c_owner' \in [Chunk -> {"WRITER", "READER"}]
      /\ \A d \in Chunk : c_owner'[d] = IF d \in back THEN "WRITER" ELSE c_owner[d]
  BY <1>t, <1>e DEF ChunkTypeOK
<1>5. back \in SUBSET ChunksOf(s) /\ \A x : In(x, toWriter') <=> In(x, toWriter) /\ x \notin back
  BY <1>u
<1>6. \A d \in back : In(d, toWriter) /\ c_status[d] = "ERROR"
  BY <1>u, <1>e
<1>7. frameQ' \subseteq Frame /\ frameQ' \cap busy = {}
  BY <1>t, <1>u DEF ChunkTypeOK, FramesOwned
<1> HIDE DEF c, s, aborted, back, pending
<1>8. /\ WriterTypeOK' /\ ChunkTypeOK' /\ InOnePlace' /\ FramesOwned' /\ FreshSnap'
      /\ QueuedFile' /\ WrittenCount' /\ QueuedChunkKeepsData'
  BY <1>u, <1>e, <1>1, <1>2, <1>3, <1>4, <1>5, <1>6, <1>7, FailMoves, FailedFile
<1> QED BY <1>u, <1>8 DEF IInv, TypeOK

(* A chunk that cannot be mapped.                                           *)
LEMMA MapFailsStep ==
  ASSUME IInv, WriterMapFails
  PROVE  IInv'
<1>t. /\ WriterTypeOK /\ ChunkTypeOK /\ ControlTypeOK /\ InOnePlace /\ FramesOwned
      /\ FreshSnap /\ QueuedFile /\ InHand
  BY DEF IInv, TypeOK
<1>1. PICK c \in WriterChunkQ, fr \in AvailableFrames :
        LET s == Parent(c)
        IN  /\ frameQ' = AvailableFrames \ {fr}
            /\ c_status' = [d \in Chunk |-> IF d \in Unsent(s) THEN "ERROR" ELSE c_status[d]]
            /\ WriterChunkQ' = WriterChunkQ \ Unsent(s)
            /\ FileFreed(s, file[s].pending)
  BY DEF WriterMapFails
<1> DEFINE s == Parent(c)
           aborted == Unsent(s)
           back == {}
           pending == file[s].pending
<1>u. /\ UNCHANGED <<c_first, c_frame, busy, toReader, toTidy, ReaderChunkQ, held, a_tail>>
      /\ UNCHANGED <<c_owner, toWriter>>
      /\ UNCHANGED <<rpc, aborting, rp_state, a_head, a_tail, high_water_mark, capture>>
      /\ wpc' = "poll"
  BY DEF WriterMapFails, pipeVars, adcVars, readerVars
<1>c. c \in Chunk /\ s \in Snap /\ c \in ChunksOf(s) /\ c_status[c] = "READY"
  BY <1>t, ParentOf DEF ChunkTypeOK, InOnePlace
<1>2. ControlTypeOK' /\ InHand'
  BY <1>t, <1>u DEF ControlTypeOK, InHand
<1>3. snap[s].status # "INIT"
  BY <1>t, <1>c DEF FreshSnap
<1>4. /\ aborted \in SUBSET ChunksOf(s)
      /\ \A d \in aborted : c_owner[d] = "WRITER" /\ c_status[d] \notin {"WRITTEN", "ERROR"}
  BY DEF Unsent
<1>5. \A d \in WriterChunkQ : Parent(d) = s => d \in aborted
  <2> SUFFICES ASSUME NEW d \in WriterChunkQ, Parent(d) = s PROVE d \in aborted
    OBVIOUS
  <2>1. d \in Chunk /\ d \in ChunksOf(s)
    BY <1>t, ParentOf DEF ChunkTypeOK
  <2>2. c_status[d] = "READY" /\ c_owner[d] = "WRITER"
    BY <1>t, <2>1 DEF InOnePlace
  <2> QED BY <2>1, <2>2 DEF Unsent
<1>6. /\ c_owner' \in [Chunk -> {"WRITER", "READER"}] /\ toWriter' \in Seq(Chunk)
      /\ NoDuplicate(toWriter')
      /\ \A d \in Chunk : c_owner'[d] = IF d \in back THEN "WRITER" ELSE c_owner[d]
      /\ \A x : In(x, toWriter') <=> In(x, toWriter) /\ x \notin back
  BY <1>t, <1>u DEF ChunkTypeOK, InOnePlace
<1>7. frameQ' \subseteq Frame /\ frameQ' \cap busy = {}
  BY <1>1, FreeFrame
<1>8. back \in SUBSET ChunksOf(s) /\ \A d \in back : In(d, toWriter) /\ c_status[d] = "ERROR"
  OBVIOUS
<1>9. /\ c_status' = [d \in Chunk |-> IF d \in aborted THEN "ERROR" ELSE c_status[d]]
      /\ WriterChunkQ' = WriterChunkQ \ aborted /\ FailsWith(s, pending) /\ pending \in Int
  <2>1. file[s] \in FileRecord
    BY <1>t, <1>c DEF WriterTypeOK
  <2>2. pending \in Int
    BY <2>1 DEF FileRecord
  <2> QED BY <1>1, <2>2 DEF FailsWith
<1> HIDE DEF s, aborted, back, pending
<1>10. /\ WriterTypeOK' /\ ChunkTypeOK' /\ InOnePlace' /\ FramesOwned' /\ FreshSnap'
       /\ QueuedFile' /\ WrittenCount' /\ QueuedChunkKeepsData'
  BY <1>u, <1>c, <1>3, <1>4, <1>5, <1>6, <1>7, <1>8, <1>9, FailMoves
<1> QED BY <1>2, <1>10 DEF IInv, TypeOK

-----------------------------------------------------------------------------
(***************************************************************************)
(* The theorems.                                                           *)
(***************************************************************************)

(* Every step of the program keeps the inductive invariant.                 *)
LEMMA NextIInv == IInv /\ [Next]_vars => IInv'
<1> SUFFICES ASSUME IInv, [Next]_vars PROVE IInv'
  OBVIOUS
<1>1. CASE Writer
  <2>1. CASE \E s \in Snap, first \in Start, n \in Count : SnapCommand(s, first, n)
    BY <2>1, SnapStep
  <2>2. CASE WriterReceive
    BY <2>2, WrittenStep, ErrorStep DEF WriterReceive
  <2>3. CASE WriterService
    BY <2>3, ServiceStep
  <2>4. CASE WriterMapFails
    BY <2>4, MapFailsStep
  <2>5. CASE WriterPoll \/ WriterServed \/ WriterEndsAgain
    BY <2>5, QuietSteps
  <2> QED BY <1>1, <2>1, <2>2, <2>3, <2>4, <2>5 DEF Writer
<1>2. CASE Reader
  <2>1. CASE ReaderComplete \/ ReaderAbortSibling \/ ReaderAborted
    BY <2>1, ReturnSteps
  <2>2. CASE ReaderReceive
    BY <2>2, ReceiveStep
  <2>3. CASE \/ \E n \in 1 .. MaxBatch : ReaderCollect(n)
             \/ ReaderPurge \/ ReaderPoll \/ ReaderStop \/ ReaderDrain
             \/ ReaderParam \/ ReaderInit \/ ReaderGo
    BY <2>3, QuietSteps
  <2> QED BY <1>2, <2>1, <2>2, <2>3 DEF Reader
<1>3. CASE TidyRelease
  BY <1>3, TidyStep
<1>4. CASE UNCHANGED vars
  <2>1. UNCHANGED locVars /\ UNCHANGED <<wpc, rpc, rp_state, aborting, a_head, a_tail,
                                         high_water_mark, capture>>
    BY <1>4 DEF vars, locVars, writerVars, frameVars, chunkVars, pipeVars, adcVars, readerVars
  <2>2. ControlTypeOK' /\ InHand' /\ QueuedChunkKeepsData'
    BY <2>1 DEF IInv, TypeOK, ControlTypeOK, InHand, QueuedChunkKeepsData, locVars
  <2> QED BY <2>1, <2>2, Quiet DEF IInv, TypeOK
<1>5. CASE FreedIsReused
  BY <1>5, QuietSteps
<1> QED BY <1>1, <1>2, <1>3, <1>4, <1>5 DEF Next

(* In every reachable state of every instance the invariant IInv holds.     *)
THEOREM Invariance == Spec => []IInv
<1>1. Init => IInv
  BY InitIInv
<1>2. IInv /\ [Next]_vars => IInv'
  BY NextIInv
<1> QED BY <1>1, <1>2, PTL DEF Spec

(* Every variable keeps its type.                                           *)
THEOREM TypeCorrect == Spec => []TypeOK
<1>1. IInv => TypeOK
  BY DEF IInv
<1> QED BY <1>1, Invariance, PTL

(* A chunk is never in two queues, pipes or hands at once, and its owner,   *)
(* status and frame say where it is, whatever the two threads do, until a   *)
(* descriptor freed under the READER is handed out again.                   *)
THEOREM ChunkIsInOnePlace == Spec => []OnePlace
<1>1. IInv => OnePlace
  BY DEF IInv, OnePlace
<1> QED BY <1>1, Invariance, PTL

(* No frame serves two chunks, is mapped again before TIDY has unmapped it, *)
(* is unmapped twice, or is lost while it is busy, until a descriptor freed *)
(* under the READER is handed out again.                                    *)
THEOREM FramesHaveOneOwner == Spec => []FrameOwnership
<1>1. IInv => FrameOwnership
  BY DEF IInv, FrameOwnership
<1> QED BY <1>1, Invariance, PTL

(* The purge of the ring never takes data that a queued chunk waits for, as *)
(* long as no chunk is longer than the window.                              *)
THEOREM PurgeSparesQueuedChunks == Spec => []QueuedChunkKeepsData
<1>1. IInv => QueuedChunkKeepsData
  BY DEF IInv
<1> QED BY <1>1, Invariance, PTL

(* completed_snapfile of a failed file counts nothing as done.              *)
LEMMA FailedIsNotDone ==
  ASSUME WriterTypeOK, NEW r \in Snap, NEW pending, FailsWith(r, pending), NEW s \in Snap
  PROVE  snap'[s].done = snap[s].done
<1>1. CASE snap' = snap
  BY <1>1
<1>2. CASE snap' # snap
  <2> DEFINE d == [snap[r] EXCEPT !.status = "ERROR", !.pending = snap[r].pending - 1]
  <2>1. snap' = [snap EXCEPT ![r] = d]
    BY <1>2 DEF FailsWith, FileLeft, FileFreed
  <2>2. d.done = snap[r].done
    BY DEF WriterTypeOK, SnapRecord
  <2> HIDE DEF d
  <2> QED BY <2>1, <2>2 DEF WriterTypeOK
<1> QED BY <1>1, <1>2

(* setup_snapshot changes the descriptor of s only, and not its count of    *)
(* finished files.                                                          *)
LEMMA SetupKeepsDone ==
  ASSUME WriterTypeOK, NEW r \in Snap, NEW d \in SnapRecord, NEW nfiles, NEW totxfr,
         SetupSnapshot(r, d, nfiles, totxfr)
  PROVE  /\ snap'[r].done = d.done
         /\ \A s \in Snap : s # r => snap'[s] = snap[s]
<1> DEFINE e1 == [d EXCEPT !.pending = d.pending + 1, !.first = d.first + FileSamples]
           e2 == [d EXCEPT !.status = "ERROR"]
<1>1. e1.done = d.done /\ e2.done = d.done
  BY DEF SnapRecord
<1>2. snap' = [snap EXCEPT ![r] = e1] \/ snap' = [snap EXCEPT ![r] = e2]
  BY DEF SetupSnapshot
<1> HIDE DEF e1, e2
<1> QED BY <1>1, <1>2 DEF WriterTypeOK

(* A snapshot counts a file as done only in the step that takes back the    *)
(* last written chunk of it.                                                *)
LEMMA DoneStep ==
  ASSUME IInv, [Next]_vars, NEW s \in Snap, snap'[s].done > snap[s].done
  PROVE  \A c \in ChunksOf(s) : c_status[c] = "WRITTEN" /\ c_frame[c] = None
<1>t. WriterTypeOK /\ ChunkTypeOK /\ InOnePlace /\ snap[s].done \in Nat
  BY DEF IInv, TypeOK, WriterTypeOK, SnapRecord
<1>1. CASE UNCHANGED snap
  BY <1>t, <1>1
<1>2. ASSUME NEW r \in Snap, NEW first \in Start, NEW n \in Count, SnapCommand(r, first, n)
      PROVE  FALSE
  <2> DEFINE d == [status |-> "PREPARE", first |-> first, done |-> 0, pending |-> 0,
                   count |-> n]
             e == [d EXCEPT !.status = "COMPLETE"]
  <2>1. d \in SnapRecord /\ d.done = 0 /\ e.done = 0
    BY ConstantsAssumption DEF SnapRecord, SnapStatus, IInv, TypeOK, ControlTypeOK
  <2>2. SetupSnapshot(r, d, wp_nfiles, wp_totxfr) \/ snap' = [snap EXCEPT ![r] = e]
    BY <1>2 DEF SnapCommand
  <2> HIDE DEF d, e
  <2>3. snap'[r].done = 0 /\ (s # r => snap'[s] = snap[s])
    BY <1>t, <2>1, <2>2, SetupKeepsDone DEF WriterTypeOK
  <2> QED BY <1>t, <2>3
<1>3. CASE WriterReceive /\ WriterWritten(Head(toWriter))
  <2> DEFINE c == Head(toWriter)
             r == Parent(c)
             f == [Back(file[r]) EXCEPT !.written = @ + 1]
             d == [snap[r] EXCEPT !.status = "WRITING", !.done = snap[r].done + 1,
                                  !.pending = snap[r].pending - 1]
             d2 == [d EXCEPT !.status = IF d.done = d.count THEN "COMPLETE" ELSE d.status]
  <2>u. /\ c \in Chunk /\ r \in Snap /\ c \in ChunksOf(r) /\ c_owner[c] = "READER"
        /\ c_frame[c] = None
    BY <1>3, ReceivedChunk
  <2>w. c_status[c] = "WRITTEN"
    BY <1>3 DEF WriterWritten
  <2>1. CASE UNCHANGED snap
    BY <1>1, <2>1
  <2>2. CASE AllWritten(f) /\ FileWritten(r, wp_totxfr + Samples(c))
    <3>1. snap' = [snap EXCEPT ![r] = d2] \/ SetupSnapshot(r, d, wp_nfiles - 1, wp_totxfr + Samples(c))
      BY <2>2 DEF FileWritten
    <3>2. d \in SnapRecord
      <4>1. snap[r] \in SnapRecord
        BY <1>t, <2>u DEF WriterTypeOK
      <4>2. snap[r].done + 1 \in Nat /\ snap[r].pending - 1 \in Int
        BY <4>1 DEF SnapRecord
      <4> QED BY <4>1, <4>2 DEF SnapRecord, SnapStatus
    <3>3. s # r => snap'[s] = snap[s]
      <4> HIDE DEF d, d2, r
      <4> QED BY <1>t, <2>u, <3>1, <3>2, SetupKeepsDone DEF WriterTypeOK
    <3>4. s = r
      BY <1>t, <3>3
    <3>5. file[r] \in FileRecord
      BY <1>t, <2>u DEF WriterTypeOK
    <3>6. file[r].written + 1 = NChunk
      <4>1. file[r].pending - 1 \in Int /\ Back(file[r]) \in FileRecord
            /\ Back(file[r]).written = file[r].written
        BY <3>5 DEF FileRecord, Back
      <4>2. f.written = file[r].written + 1
        BY <4>1 DEF FileRecord
      <4> QED BY <2>2, <4>2 DEF AllWritten
    <3>7. \A e \in ChunksOf(r) : e # c => c_status[e] = "WRITTEN" /\ c_owner[e] = "WRITER"
      BY <2>u, <3>6, LastOneWritten
    <3>8. \A e \in ChunksOf(r) : e \in Chunk
      BY <2>u, ParentOf
    <3> QED BY <1>t, <2>u, <2>w, <3>4, <3>7, <3>8 DEF InOnePlace
  <2> QED BY <1>3, <2>1, <2>2 DEF WriterWritten
<1>4. CASE WriterReceive /\ WriterError(Head(toWriter))
  <2>1. Parent(Head(toWriter)) \in Snap
    BY <1>4, ReceivedChunk
  <2>2. FileFailed(Parent(Head(toWriter)), Back(file[Parent(Head(toWriter))]).pending)
    BY <1>4 DEF WriterError
  <2> QED BY <1>t, <2>1, <2>2, FailedFile, FailedIsNotDone
<1>5. CASE WriterMapFails
  <2>1. PICK c \in WriterChunkQ : FileFreed(Parent(c), file[Parent(c)].pending)
    BY <1>5 DEF WriterMapFails
  <2>2. Parent(c) \in Snap
    BY <1>t, ParentOf DEF ChunkTypeOK
  <2> QED BY <1>t, <2>1, <2>2, FailedIsNotDone DEF FailsWith
<1>6. CASE \/ Reader \/ TidyRelease \/ WriterPoll \/ WriterServed \/ WriterService
           \/ WriterEndsAgain \/ FreedIsReused
  <2>1. UNCHANGED snap
    BY <1>6
    DEF Reader, TidyRelease, WriterPoll, WriterServed, WriterService, WriterEndsAgain,
        FreedIsReused, ReaderCollect, ReaderComplete, ReaderPurge, ReaderAbortSibling,
        ReaderAborted, ReaderPoll, ReaderReceive, ReaderStop, ReaderDrain, ReaderParam,
        ReaderInit, ReaderGo, Return, writerVars
  <2> QED BY <1>1, <2>1
<1>7. CASE UNCHANGED vars
  BY <1>1, <1>7 DEF vars, writerVars
<1> QED BY <1>2, <1>3, <1>4, <1>5, <1>6, <1>7 DEF Next, Writer, WriterReceive

(* A file counts as done only when all its chunks have been copied and have *)
(* given their frames up: an aborted chunk is never counted as data.        *)
THEOREM DoneFilesAreWritten == Spec => DoneMeansWritten
<1> DEFINE A == \A s \in Snap : snap'[s].done > snap[s].done =>
                  \A c \in ChunksOf(s) : c_status[c] = "WRITTEN" /\ c_frame[c] = None
<1>1. IInv /\ [Next]_vars => [A]_vars
  BY DoneStep
<1>2. [][A]_vars <=> DoneMeansWritten
  BY DEF DoneMeansWritten
<1> QED BY <1>1, <1>2, Invariance, PTL DEF Spec
-----------------------------------------------------------------------------
(***************************************************************************)
(* Adding up samples.                                                      *)
(***************************************************************************)

(* A set of naturals that is not empty has a least member.                  *)
LEMMA Least ==
  ASSUME NEW T, T \subseteq Nat, T # {}
  PROVE  \E m \in T : \A k \in T : m <= k
<1> DEFINE R == OpToRel(<, Nat)
<1>1. IsWellFoundedOn(R, Nat)
  BY NatLessThanWellFounded
<1>3. \A a, b \in Nat : a < b => <<a, b>> \in R
  BY DEF OpToRel
<1> HIDE DEF R
<1>2. \E m \in T : \A k \in T : ~(<<k, m>> \in R)
  BY <1>1, WFMin, Zenon
<1>4. PICK m \in T : \A k \in T : ~(<<k, m>> \in R)
  BY <1>2, Zenon
<1>5. \A k \in T : m <= k
  <2> SUFFICES ASSUME NEW k \in T, ~(m <= k) PROVE FALSE
    BY Zenon
  <2>1. m \in Nat /\ k \in Nat
    OBVIOUS
  <2>2. k < m
    BY <2>1
  <2>3. <<k, m>> \in R
    BY <1>3, <2>1, <2>2, Zenon
  <2> QED  BY <1>4, <2>3, Zenon
<1> QED  BY <1>5

(* A family of subsets of a finite set, if it has any, has one from which   *)
(* no element can be taken away.                                            *)
LEMMA SmallestMember ==
  ASSUME NEW S, IsFiniteSet(S), NEW G, G \subseteq SUBSET S, G # {}
  PROVE  \E T \in G : \A x \in T : T \ {x} \notin G
<1> DEFINE Sizes == {n \in Nat : \E T \in G : n = Cardinality(T)}
<1>1. \A T \in G : IsFiniteSet(T) /\ Cardinality(T) \in Nat
  BY FS_Subset, FS_CardinalityType
<1>2. Sizes \subseteq Nat /\ Sizes # {}
  BY <1>1
<1>3. PICK n \in Sizes : \A k \in Sizes : n <= k
  <2> HIDE DEF Sizes
  <2> QED BY <1>2, Least
<1>4. PICK T \in G : n = Cardinality(T)
  OBVIOUS
<1>5. SUFFICES ASSUME NEW x \in T, T \ {x} \in G PROVE FALSE
  BY <1>4
<1>6. PICK a \in Nat : a = Cardinality(T \ {x}) /\ a = n - 1
  <2>1. Cardinality(T \ {x}) = Cardinality(T) - 1 /\ IsFiniteSet(T \ {x})
    BY <1>1, <1>5, FS_RemoveElement
  <2>2. Cardinality(T \ {x}) \in Nat
    BY <2>1, FS_CardinalityType
  <2> QED BY <1>4, <2>1, <2>2
<1>7. a \in Sizes
  BY <1>5, <1>6
<1> HIDE DEF Sizes
<1>8. n \in Nat
  BY <1>2, <1>3
<1> QED BY <1>3, <1>6, <1>7, <1>8

(* So a family that has the empty set, and into each member of which one    *)
(* more element may be put, has every subset.                               *)
LEMMA SubsetInduction ==
  ASSUME NEW S, IsFiniteSet(S), NEW F, {} \in F,
         \A T \in SUBSET S : \A x \in S \ T : T \in F => T \cup {x} \in F
  PROVE  SUBSET S \subseteq F
<1> SUFFICES ASSUME ~(SUBSET S \subseteq F) PROVE FALSE
  OBVIOUS
<1> DEFINE G == {T \in SUBSET S : T \notin F}
<1>1. PICK T \in G : \A x \in T : T \ {x} \notin G
  <2>1. G # {} /\ G \subseteq SUBSET S
    OBVIOUS
  <2> HIDE DEF G
  <2> QED BY <2>1, SmallestMember
<1>2. PICK x : x \in T
  OBVIOUS
<1>3. (T \ {x}) \cup {x} = T /\ x \in S \ (T \ {x}) /\ T \ {x} \in SUBSET S
  BY <1>2
<1> QED BY <1>1, <1>2, <1>3

(* m counts the samples of sets of chunks, one chunk at a time.             *)
Counts(m, S) ==
  /\ m \in [SUBSET S -> Int]
  /\ m[{}] = 0
  /\ \A T \in SUBSET S : \A x \in S \ T : m[T \cup {x}] = m[T] + Samples(x)

(* Such a count exists.                                                     *)
LEMMA CountExists ==
  ASSUME NEW S \in SUBSET Chunk, IsFiniteSet(S), \A c \in Chunk : Samples(c) \in Int
  PROVE  \E m : Counts(m, S)
<1> DEFINE F == {T \in SUBSET S : \E m : Counts(m, T)}
<1>1. {} \in F
  <2> DEFINE z == [T \in SUBSET {} |-> 0]
  <2>1. z \in [SUBSET {} -> Int] /\ z[{}] = 0 /\ \A T \in SUBSET {} : \A x \in {} \ T : FALSE
    OBVIOUS
  <2>2. Counts(z, {})
    BY <2>1 DEF Counts
  <2> QED BY <2>2
<1>2. ASSUME NEW T \in SUBSET S, NEW x \in S \ T, T \in F
      PROVE  T \cup {x} \in F
  <2>1. PICK m : Counts(m, T)
    BY <1>2
  <2>2. m \in [SUBSET T -> Int] /\ m[{}] = 0
    BY <2>1 DEF Counts
  <2> DEFINE U == T \cup {x}
             k == [A \in SUBSET U |-> IF x \in A THEN m[A \ {x}] + Samples(x) ELSE m[A]]
  <2>3. Samples(x) \in Int
    OBVIOUS
  <2>4. k \in [SUBSET U -> Int]
    <3> SUFFICES ASSUME NEW A \in SUBSET U
                 PROVE  (IF x \in A THEN m[A \ {x}] + Samples(x) ELSE m[A]) \in Int
      OBVIOUS
    <3>1. CASE x \in A
      <4>1. A \ {x} \in SUBSET T
        OBVIOUS
      <4>2. m[A \ {x}] \in Int
        BY <2>2, <4>1
      <4> QED BY <2>3, <3>1, <4>2
    <3>2. CASE x \notin A
      <4>1. A \in SUBSET T
        BY <3>2
      <4> QED BY <2>2, <3>2, <4>1
    <3> QED BY <3>1, <3>2
  <2>5. k[{}] = 0
    BY <2>2
  <2>6. ASSUME NEW A \in SUBSET U, NEW y \in U \ A
        PROVE  k[A \cup {y}] = k[A] + Samples(y)
    <3>0. A \cup {y} \in SUBSET U /\ y \in Chunk /\ Samples(y) \in Int
      OBVIOUS
    <3>1. CASE y = x
      <4>1. x \notin A /\ (A \cup {y}) \ {x} = A /\ x \in A \cup {y}
        BY <3>1
      <4> QED BY <3>0, <3>1, <4>1
    <3>2. CASE y # x /\ x \in A
      <4>1. (A \cup {y}) \ {x} = (A \ {x}) \cup {y} /\ x \in A \cup {y}
            /\ A \ {x} \in SUBSET T /\ y \in T \ (A \ {x})
        BY <3>2
      <4>2. PICK a \in Int, b \in Int :
              a = m[A \ {x}] /\ b = m[(A \ {x}) \cup {y}] /\ b = a + Samples(y)
        <5>1. m[(A \ {x}) \cup {y}] = m[A \ {x}] + Samples(y)
          BY <2>1, <4>1 DEF Counts
        <5>2. m[A \ {x}] \in Int /\ (A \ {x}) \cup {y} \in SUBSET T
          BY <2>2, <4>1
        <5>3. m[(A \ {x}) \cup {y}] \in Int
          BY <2>2, <5>2
        <5> QED BY <5>1, <5>2, <5>3
      <4>3. k[A \cup {y}] = b + Samples(x) /\ k[A] = a + Samples(x)
        BY <3>0, <3>2, <4>1, <4>2
      <4> QED BY <2>3, <3>0, <4>2, <4>3
    <3>3. CASE y # x /\ x \notin A
      <4>1. x \notin A \cup {y} /\ A \in SUBSET T /\ y \in T \ A
        BY <3>3
      <4>2. m[A \cup {y}] = m[A] + Samples(y)
        BY <2>1, <4>1 DEF Counts
      <4> QED BY <3>0, <4>1, <4>2
    <3> QED BY <3>1, <3>2, <3>3
  <2> HIDE DEF k, U
  <2>7. Counts(k, U)
    BY <2>4, <2>5, <2>6 DEF Counts
  <2>8. U \in SUBSET S
    BY DEF U
  <2> QED BY <2>7, <2>8 DEF U
<1>3. SUBSET S \subseteq F
  <2> HIDE DEF F
  <2> QED BY <1>1, <1>2, SubsetInduction
<1> QED BY <1>3

(* The samples of a set of chunks are added up as one would.                *)
LEMMA TotalIsCount ==
  ASSUME NEW S \in SUBSET Chunk, IsFiniteSet(S), \A c \in Chunk : Samples(c) \in Int,
         NEW m, Counts(m, S)
  PROVE  TotalSamples(S) = m[S]
<1> DEFINE Pick(T) == CHOOSE x \in T : TRUE
           Adds(g) == g = [T \in SUBSET S |->
                             IF T = {} THEN 0 ELSE Samples(Pick(T)) + g[T \ {Pick(T)}]]
<1>1. \A T \in SUBSET S : T # {} => Pick(T) \in T
  OBVIOUS
<1>2. TotalSamples(S) = (CHOOSE g : Adds(g))[S]
  BY DEF TotalSamples, MapThenSumSet, MapThenFoldSet
<1> HIDE DEF Pick
<1>m. m \in [SUBSET S -> Int] /\ m[{}] = 0
  BY DEF Counts
<1>p. ASSUME NEW T \in SUBSET S, T # {}
      PROVE  /\ Pick(T) \in T /\ T \ {Pick(T)} \in SUBSET S
             /\ m[T] = Samples(Pick(T)) + m[T \ {Pick(T)}]
  <2>1. PICK x : x = Pick(T) /\ x \in T
    BY <1>1, <1>p
  <2>2. T \ {x} \in SUBSET S /\ x \in S \ (T \ {x}) /\ (T \ {x}) \cup {x} = T
    BY <2>1
  <2>3. m[T] = m[T \ {x}] + Samples(x)
    BY <2>2 DEF Counts
  <2>4. m[T \ {x}] \in Int /\ Samples(x) \in Int
    BY <1>m, <2>1, <2>2
  <2> QED BY <2>1, <2>2, <2>3, <2>4
<1>3. Adds(m)
  <2>1. \A T \in SUBSET S :
          m[T] = IF T = {} THEN 0 ELSE Samples(Pick(T)) + m[T \ {Pick(T)}]
    BY <1>m, <1>p
  <2> QED BY <1>m, <2>1
<1>4. ASSUME NEW g, Adds(g) PROVE g[S] = m[S]
  <2> DEFINE G == {T \in SUBSET S : g[T] # m[T]}
  <2>1. SUFFICES ASSUME G # {} PROVE FALSE
    OBVIOUS
  <2>2. PICK T \in G : \A x \in T : T \ {x} \notin G
    <3>1. G \subseteq SUBSET S
      OBVIOUS
    <3> HIDE DEF G
    <3> QED BY <2>1, <3>1, SmallestMember
  <2>3. T # {}
    BY <1>4, <1>m
  <2>4. PICK W : W = T \ {Pick(T)}
    OBVIOUS
  <2>5. W \in SUBSET S /\ m[T] = Samples(Pick(T)) + m[W] /\ W \notin G
    BY <1>p, <2>2, <2>3, <2>4
  <2>6. g[T] = Samples(Pick(T)) + g[W]
    BY <1>4, <2>3, <2>4
  <2> QED BY <2>5, <2>6
<1>5. PICK g : Adds(g) /\ g = (CHOOSE h : Adds(h))
  <2> HIDE DEF Adds
  <2> QED BY <1>3
<1> QED BY <1>2, <1>4, <1>5

(* There are finitely many chunks, each of some number of samples.          *)
LEMMA ChunkSamples ==
  /\ IsFiniteSet(Chunk)
  /\ \A c \in Chunk : Samples(c) \in Int
<1>1. IsFiniteSet(Chunk)
  <2>1. IsFiniteSet(Snap) /\ IsFiniteSet(1 .. NChunk)
    BY ConstantsAssumption, FS_Interval
  <2> QED BY <2>1, FS_Product DEF Chunk
<1>2. ASSUME NEW c \in Chunk PROVE Samples(c) \in Int
  <2>1. c[2] \in 1 .. NChunk /\ NChunk \in Nat /\ Cut \in [0 .. NChunk -> Nat]
    BY ConstantsAssumption DEF Chunk
  <2>2. c[2] \in 0 .. NChunk /\ c[2] - 1 \in 0 .. NChunk
    BY <2>1
  <2>3. Cut[c[2]] \in Nat /\ Cut[c[2] - 1] \in Nat
    BY <2>1, <2>2
  <2> QED BY <2>3 DEF Samples
<1> QED BY <1>1, <1>2

(* One count tells the total of every set of chunks.                        *)
LEMMA Totals ==
  \E m : Counts(m, Chunk) /\ \A S \in SUBSET Chunk : TotalSamples(S) = m[S]
<1>1. PICK m : Counts(m, Chunk)
  BY ChunkSamples, CountExists
<1>2. ASSUME NEW S \in SUBSET Chunk PROVE TotalSamples(S) = m[S]
  <2> DEFINE k == [T \in SUBSET S |-> m[T]]
  <2>1. m \in [SUBSET Chunk -> Int] /\ m[{}] = 0
    BY <1>1 DEF Counts
  <2>2. k \in [SUBSET S -> Int] /\ k[{}] = 0
    BY <2>1
  <2>3. ASSUME NEW T \in SUBSET S, NEW x \in S \ T
        PROVE  k[T \cup {x}] = k[T] + Samples(x)
    <3>1. T \cup {x} \in SUBSET S /\ T \in SUBSET Chunk /\ x \in Chunk \ T
      OBVIOUS
    <3>2. m[T \cup {x}] = m[T] + Samples(x)
      BY <1>1, <3>1 DEF Counts
    <3> QED BY <3>1, <3>2
  <2>4. k[S] = m[S]
    OBVIOUS
  <2> HIDE DEF k
  <2>5. Counts(k, S)
    BY <2>2, <2>3 DEF Counts
  <2>6. IsFiniteSet(S)
    BY ChunkSamples, FS_Subset
  <2>7. TotalSamples(S) = k[S]
    BY <2>5, <2>6, ChunkSamples, TotalIsCount
  <2> QED BY <2>4, <2>7
<1> QED BY <1>1, <1>2

(* The total of no chunk, and of one more.                                  *)
LEMMA TotalAdds ==
  ASSUME NEW S \in SUBSET Chunk
  PROVE  /\ TotalSamples(S) \in Int /\ TotalSamples({}) = 0
         /\ \A c \in Chunk \ S : TotalSamples(S \cup {c}) = TotalSamples(S) + Samples(c)
<1>1. PICK m : Counts(m, Chunk) /\ \A T \in SUBSET Chunk : TotalSamples(T) = m[T]
  BY Totals
<1>2. m[S] \in Int /\ m[{}] = 0
  BY <1>1 DEF Counts
<1>3. ASSUME NEW c \in Chunk \ S
      PROVE  TotalSamples(S \cup {c}) = TotalSamples(S) + Samples(c)
  <2>1. S \cup {c} \in SUBSET Chunk
    OBVIOUS
  <2>2. m[S \cup {c}] = m[S] + Samples(c)
    BY <1>1 DEF Counts
  <2> QED BY <1>1, <2>1, <2>2
<1>4. {} \in SUBSET Chunk
  OBVIOUS
<1> QED BY <1>1, <1>2, <1>3, <1>4

(* The total of two sets that have no chunk in common.                      *)
LEMMA TotalUnion ==
  ASSUME NEW S \in SUBSET Chunk, NEW T \in SUBSET Chunk, S \cap T = {}
  PROVE  TotalSamples(S \cup T) = TotalSamples(S) + TotalSamples(T)
<1> DEFINE F == {U \in SUBSET T : TotalSamples(S \cup U) = TotalSamples(S) + TotalSamples(U)}
<1>1. {} \in F
  <2>1. S \cup {} = S
    OBVIOUS
  <2>2. TotalSamples(S) \in Int /\ TotalSamples({}) = 0
    BY TotalAdds
  <2> QED BY <2>1, <2>2
<1>2. ASSUME NEW U \in SUBSET T, NEW x \in T \ U, U \in F
      PROVE  U \cup {x} \in F
  <2>1. S \cup U \in SUBSET Chunk /\ U \in SUBSET Chunk /\ x \in Chunk \ (S \cup U)
        /\ x \in Chunk \ U /\ S \cup (U \cup {x}) = (S \cup U) \cup {x}
    OBVIOUS
  <2>2. PICK a, b, n : a = TotalSamples(S) /\ b = TotalSamples(U) /\ n = Samples(x)
    OBVIOUS
  <2>3. a \in Int /\ b \in Int /\ n \in Int
    BY <2>1, <2>2, TotalAdds, ChunkSamples
  <2>4. TotalSamples(S \cup U) = a + b
    BY <1>2, <2>2
  <2>5. TotalSamples((S \cup U) \cup {x}) = (a + b) + n
    BY <2>1, <2>2, <2>4, TotalAdds
  <2>6. TotalSamples(U \cup {x}) = b + n
    BY <2>1, <2>2, TotalAdds
  <2>7. (a + b) + n = a + (b + n)
    BY <2>3
  <2> QED BY <2>1, <2>2, <2>5, <2>6, <2>7
<1>3. IsFiniteSet(T)
  BY ChunkSamples, FS_Subset
<1>4. SUBSET T \subseteq F
  <2> HIDE DEF F
  <2> QED BY <1>1, <1>2, <1>3, SubsetInduction
<1> QED BY <1>4

(* A file's chunks have its samples between them.                           *)
LEMMA TotalFile ==
  ASSUME NEW s \in Snap
  PROVE  TotalSamples(ChunksOf(s)) = FileSamples
<1>c. NChunk \in Nat \ {0} /\ Cut \in [0 .. NChunk -> Nat] /\ Cut[0] = 0
  BY ConstantsAssumption
<1> DEFINE First(n) == {s} \X (1 .. n)
           Wrong == {n \in 0 .. NChunk : TotalSamples(First(n)) # Cut[n]}
<1>1. SUFFICES ASSUME Wrong # {} PROVE FALSE
  <2>1. TotalSamples(First(NChunk)) = Cut[NChunk]
    <3>1. NChunk \in 0 .. NChunk
      BY <1>c
    <3>2. NChunk \notin Wrong
      BY Zenon
    <3> QED BY <3>1, <3>2, Zenon
  <2> QED BY <2>1, Zenon DEF ChunksOf, FileSamples
<1>2. PICK n \in Wrong : \A k \in Wrong : n <= k
  <2>1. Wrong \subseteq Nat
    OBVIOUS
  <2> HIDE DEF Wrong
  <2> QED BY <1>1, <2>1, Least
<1>3. n # 0
  <2>1. First(0) = {}
    OBVIOUS
  <2>2. TotalSamples({}) = 0
    BY TotalAdds
  <2> QED BY <1>c, <2>1, <2>2
<1>4. PICK k \in 0 .. NChunk : k = n - 1 /\ n = k + 1 /\ k \notin Wrong
  <2>1. n \in 0 .. NChunk
    OBVIOUS
  <2> HIDE DEF Wrong
  <2> QED BY <1>c, <1>2, <1>3, <2>1
<1>5. TotalSamples(First(k)) = Cut[k]
  BY <1>4
<1>6. PICK c : c = <<s, n>>
  OBVIOUS
<1>7. First(n) = First(k) \cup {c} /\ First(k) \in SUBSET Chunk /\ c \in Chunk \ First(k)
  <2>1. n \in 1 .. NChunk /\ 1 .. n = (1 .. k) \cup {n} /\ n \notin 1 .. k
        /\ 1 .. k \subseteq 1 .. NChunk
    BY <1>c, <1>3, <1>4
  <2>2. First(n) = First(k) \cup {c}
    BY <1>6, <2>1
  <2> QED BY <1>6, <2>1, <2>2 DEF Chunk
<1>8. Samples(c) = Cut[n] - Cut[k]
  BY <1>4, <1>6 DEF Samples
<1>9. Cut[n] \in Nat /\ Cut[k] \in Nat
  BY <1>c, <1>4
<1>10. TotalSamples(First(n)) = Cut[k] + (Cut[n] - Cut[k])
  <2> HIDE DEF First
  <2> QED BY <1>5, <1>7, <1>8, TotalAdds
<1> QED BY <1>9, <1>10
-----------------------------------------------------------------------------
(***************************************************************************)
(* The transfer budget.                                                    *)
(***************************************************************************)

(* What is committed to be written: the chunks the budget is reduced by.    *)
Committed == {c \in Chunk : c \in WriterChunkQ \/ c_owner[c] = "READER"}

(* What abort_snapfile relies on when it credits every chunk it finds in    *)
(* the WRITER's hands: such a chunk is not WAITING, and the chunks of a     *)
(* snapshot are all set up or none of them is.                              *)
WaitingIsSent == \A c \in Chunk : c_status[c] = "WAITING" => c_owner[c] = "READER"
SetUpWhole ==
  \A s \in Snap : \A c, d \in ChunksOf(s) : c_status[c] = "INIT" => c_status[d] = "INIT"

BInv == WaitingIsSent /\ SetUpWhole /\ BudgetConserved

(* Chunks A leave what is committed and chunks B are added to it.           *)
LEMMA BudgetMoves ==
  ASSUME BudgetConserved, NEW A \in SUBSET Committed, NEW B \in SUBSET Chunk,
         (Committed \ A) \cap B = {},
         Committed' = (Committed \ A) \cup B,
         wp_totxfr' = (wp_totxfr + TotalSamples(A)) - TotalSamples(B)
  PROVE  BudgetConserved'
<1> DEFINE K == Committed \ A
<1>1. /\ K \in SUBSET Chunk /\ A \in SUBSET Chunk /\ K \cap A = {} /\ K \cup A = Committed
      /\ K \cap B = {}
  BY DEF Committed
<1>2. PICK k, a, b : k = TotalSamples(K) /\ a = TotalSamples(A) /\ b = TotalSamples(B)
  OBVIOUS
<1>3. k \in Int /\ a \in Int /\ b \in Int /\ Budget \in Int
  BY <1>1, <1>2, TotalAdds, ConstantsAssumption
<1>4. TotalSamples(K \cup A) = k + a /\ TotalSamples(K \cup B) = k + b
  <2> HIDE DEF K
  <2>1. TotalSamples(K \cup A) = TotalSamples(K) + TotalSamples(A)
    BY <1>1, TotalUnion
  <2>2. TotalSamples(K \cup B) = TotalSamples(K) + TotalSamples(B)
    BY <1>1, TotalUnion
  <2> QED BY <1>2, <2>1, <2>2
<1>5. wp_totxfr = Budget - (k + a)
  BY <1>1, <1>4, Zenon DEF BudgetConserved, Committed
<1>6. wp_totxfr' = Budget - (k + b)
  <2>1. wp_totxfr' = (wp_totxfr + a) - b
    BY <1>2
  <2> QED BY <1>3, <1>5, <2>1
<1>7. TotalSamples(Committed') = k + b
  BY <1>4, Zenon
<1>8. BudgetConserved' <=> wp_totxfr' = Budget - TotalSamples(Committed')
  BY DEF BudgetConserved, Committed
<1> QED BY <1>6, <1>7, <1>8

(* Steps that leave what is committed, and the budget, as they were.        *)
LEMMA BudgetStays ==
  ASSUME BudgetConserved, Committed' = Committed, wp_totxfr' = wp_totxfr
  PROVE  BudgetConserved'
BY DEF BudgetConserved, Committed

(* A single chunk's total.                                                  *)
LEMMA TotalOne ==
  ASSUME NEW c \in Chunk
  PROVE  TotalSamples({c}) = Samples(c)
<1>1. TotalSamples({} \cup {c}) = TotalSamples({}) + Samples(c) /\ TotalSamples({}) = 0
  BY TotalAdds
<1>2. {} \cup {c} = {c} /\ Samples(c) \in Int
  BY ChunkSamples
<1> QED BY <1>1, <1>2

(* Chunks A are credited back.                                              *)
LEMMA BudgetBack ==
  ASSUME BudgetConserved, NEW A \in SUBSET Committed, Committed' = Committed \ A,
         NEW total, total = TotalSamples(A), wp_totxfr' = wp_totxfr + total
  PROVE  BudgetConserved'
<1>1. Committed \in SUBSET Chunk /\ A \in SUBSET Chunk
  BY DEF Committed
<1>2. Budget \in Int /\ TotalSamples(Committed) \in Int /\ total \in Int /\ TotalSamples({}) = 0
  BY <1>1, TotalAdds, ConstantsAssumption
<1>3. wp_totxfr \in Int
  BY <1>2 DEF BudgetConserved, Committed
<1>4. wp_totxfr' = (wp_totxfr + TotalSamples(A)) - TotalSamples({})
  BY <1>2, <1>3
<1>5. (Committed \ A) \cap {} = {} /\ Committed' = (Committed \ A) \cup {} /\ {} \in SUBSET Chunk
  OBVIOUS
<1> QED BY <1>4, <1>5, BudgetMoves

(* Steps that change no chunk's status or owner and credit nothing.         *)
LEMMA BudgetQuiet ==
  ASSUME BInv, UNCHANGED <<c_status, c_owner, WriterChunkQ, wp_totxfr>>
  PROVE  BInv'
<1>1. Committed' = Committed
  BY DEF Committed
<1>2. WaitingIsSent' /\ SetUpWhole'
  BY DEF BInv, WaitingIsSent, SetUpWhole
<1> QED BY <1>1, <1>2, BudgetStays DEF BInv

(* The READER returns a chunk.                                              *)
LEMMA BudgetReturn ==
  ASSUME IInv, BInv, NEW c \in Chunk, NEW status \in {"WRITTEN", "ERROR"}, Return(c, status),
         WithReader(c)
  PROVE  BInv'
<1>1. /\ c_status' = [c_status EXCEPT ![c] = status]
      /\ UNCHANGED <<c_owner, WriterChunkQ, wp_totxfr>>
  BY DEF Return, writerVars
<1>2. \A d \in Chunk : c_status'[d] = IF d = c THEN status ELSE c_status[d]
  BY <1>1 DEF IInv, TypeOK, ChunkTypeOK
<1>3. Committed' = Committed
  BY <1>1 DEF Committed
<1>4. c_status[c] = "WAITING"
  BY DEF IInv, InOnePlace
<1>5. WaitingIsSent'
  BY <1>1, <1>2 DEF BInv, WaitingIsSent
<1>6. SetUpWhole'
  <2>1. \A s \in Snap : \A d \in ChunksOf(s) : d \in Chunk
    BY DEF ChunksOf, Chunk
  <2> QED BY <1>2, <1>4, <2>1 DEF BInv, SetUpWhole, ChunksOf
<1> QED BY <1>1, <1>3, <1>5, <1>6, BudgetStays DEF BInv

(* setup_snapshot, for a snapshot of which only the chunks in back are      *)
(* still committed and are credited first.                                  *)
LEMMA BudgetSetup ==
  ASSUME IInv, BInv, NEW s \in Snap, NEW d, NEW nfiles, NEW totxfr,
         SetupSnapshot(s, d, nfiles, totxfr),
         NEW back \in SUBSET ChunksOf(s), back = Committed \cap ChunksOf(s),
         \A c \in ChunksOf(s) : c \notin WriterChunkQ /\ c_status[c] # "WAITING",
         totxfr = wp_totxfr + TotalSamples(back)
  PROVE  BInv'
<1>g. \A c \in Chunk : Parent(c) = s <=> c \in ChunksOf(s)
  BY ParentOf
<1>h. \A r \in Snap : \A c \in ChunksOf(r) : c \in Chunk /\ Parent(c) = r
  BY DEF ChunksOf, Chunk, Parent
<1>b. back \in SUBSET Committed /\ back \in SUBSET Chunk
  BY DEF Committed
<1>1. CASE /\ c_owner' = [c \in Chunk |-> IF Parent(c) = s THEN "WRITER" ELSE c_owner[c]]
           /\ wp_totxfr' = totxfr
           /\ UNCHANGED <<c_status, WriterChunkQ>>
  <2>e. \A c \in Chunk : c_owner'[c] = IF Parent(c) = s THEN "WRITER" ELSE c_owner[c]
    BY <1>1
  <2>1. Committed' = Committed \ back
    BY <1>1, <1>g, <2>e DEF Committed
  <2>3. BudgetConserved'
    BY <1>1, <1>b, <2>1, BudgetBack DEF BInv
  <2>4. WaitingIsSent' /\ SetUpWhole'
    BY <1>1, <1>g, <2>e DEF BInv, WaitingIsSent, SetUpWhole
  <2> QED BY <2>3, <2>4 DEF BInv
<1>2. CASE NewChunks(s, d.first) /\ wp_totxfr' = totxfr - FileSamples
  <2>e. \A c \in Chunk : /\ c_status'[c] = IF Parent(c) = s THEN "READY" ELSE c_status[c]
                         /\ c_owner'[c] = IF Parent(c) = s THEN "WRITER" ELSE c_owner[c]
    BY <1>2 DEF NewChunks
  <2>q. WriterChunkQ' = WriterChunkQ \cup ChunksOf(s) /\ ChunksOf(s) \in SUBSET Chunk
    BY <1>2, <1>h DEF NewChunks
  <2>1. Committed' = (Committed \ back) \cup ChunksOf(s) /\ (Committed \ back) \cap ChunksOf(s) = {}
    BY <1>g, <2>e, <2>q DEF Committed
  <2>2. wp_totxfr' = (wp_totxfr + TotalSamples(back)) - TotalSamples(ChunksOf(s))
    BY <1>2, TotalFile
  <2>3. BudgetConserved'
    BY <1>b, <2>q, <2>1, <2>2, BudgetMoves DEF BInv
  <2>4. WaitingIsSent'
    BY <2>e DEF BInv, WaitingIsSent
  <2>5. SetUpWhole'
    <3> SUFFICES ASSUME NEW r \in Snap, NEW c \in ChunksOf(r), NEW e \in ChunksOf(r),
                        c_status'[c] = "INIT"
                 PROVE  c_status'[e] = "INIT"
      BY DEF SetUpWhole, ChunksOf
    <3>1. r # s
      BY <1>h, <2>e
    <3> QED BY <1>h, <2>e, <3>1 DEF BInv, SetUpWhole
  <2> QED BY <2>3, <2>4, <2>5 DEF BInv
<1> QED BY <1>1, <1>2 DEF SetupSnapshot

(* A Snap command.                                                          *)
LEMMA BudgetSnap ==
  ASSUME IInv, BInv, NEW s \in Snap, NEW first \in Start, NEW n \in Count,
         SnapCommand(s, first, n)
  PROVE  BInv'
<1> DEFINE d == [status |-> "PREPARE", first |-> first, done |-> 0, pending |-> 0,
                 count |-> n]
<1>1. \A c \in ChunksOf(s) : /\ c \in Chunk /\ c_status[c] = "INIT" /\ c_owner[c] = "WRITER"
                             /\ c \notin WriterChunkQ
  <2>1. snap[s].status = "INIT"
    BY DEF SnapCommand
  <2>2. \A c \in ChunksOf(s) : c_status[c] = "INIT" /\ c_owner[c] = "WRITER"
    BY <2>1 DEF IInv, FreshSnap
  <2>3. \A c \in ChunksOf(s) : c \in Chunk
    BY DEF ChunksOf, Chunk
  <2> QED BY <2>2, <2>3 DEF IInv, InOnePlace
<1>2. CASE SetupSnapshot(s, d, wp_nfiles, wp_totxfr)
  <2> HIDE DEF d
  <2>1. Committed \cap ChunksOf(s) = {}
    BY <1>1 DEF Committed
  <2>2. wp_totxfr = wp_totxfr + TotalSamples({})
    <3>1. Committed \in SUBSET Chunk
      BY DEF Committed
    <3>2. Budget \in Int /\ TotalSamples(Committed) \in Int /\ TotalSamples({}) = 0
      BY <3>1, TotalAdds, ConstantsAssumption
    <3>3. wp_totxfr \in Int
      BY <3>2 DEF BInv, BudgetConserved, Committed
    <3> QED BY <3>2, <3>3
  <2>3. \A c \in ChunksOf(s) : c \notin WriterChunkQ /\ c_status[c] # "WAITING"
    BY <1>1
  <2> QED BY <1>2, <2>1, <2>2, <2>3, BudgetSetup
<1>3. CASE UNCHANGED <<file, WriterChunkQ, wp_nfiles, wp_totxfr, chunkVars>>
  BY <1>3, BudgetQuiet DEF chunkVars
<1> QED BY <1>2, <1>3 DEF SnapCommand

(* A chunk that comes back written.                                         *)
LEMMA BudgetWritten ==
  ASSUME IInv, BInv, WriterReceive, WriterWritten(Head(toWriter))
  PROVE  BInv'
<1> DEFINE c == Head(toWriter)
           s == Parent(c)
           f == [Back(file[s]) EXCEPT !.written = @ + 1]
<1>t. WriterTypeOK /\ ChunkTypeOK /\ InOnePlace
  BY DEF IInv, TypeOK
<1>u. /\ c \in Chunk /\ s \in Snap /\ c \in ChunksOf(s) /\ c_owner[c] = "READER"
      /\ c_status[c] = "WRITTEN"
  BY ReceivedChunk DEF WriterWritten
<1>c. c \in Committed /\ c \notin WriterChunkQ /\ TotalSamples({c}) = Samples(c)
  BY <1>t, <1>u, TotalOne DEF Committed, InOnePlace
<1>1. CASE AllWritten(f) /\ FileWritten(s, wp_totxfr + Samples(c))
  <2>1. file[s].written + 1 = NChunk
    <3>1. file[s] \in FileRecord
      BY <1>t, <1>u DEF WriterTypeOK
    <3>2. file[s].pending - 1 \in Int /\ Back(file[s]) \in FileRecord
          /\ Back(file[s]).written = file[s].written
      BY <3>1 DEF FileRecord, Back
    <3>3. f.written = file[s].written + 1
      BY <3>2 DEF FileRecord
    <3> QED BY <1>1, <3>3 DEF AllWritten
  <2>2. \A e \in ChunksOf(s) : e # c => c_status[e] = "WRITTEN" /\ c_owner[e] = "WRITER"
    BY <1>u, <2>1, LastOneWritten
  <2>3. \A e \in ChunksOf(s) : e \in Chunk
    BY <1>u, ParentOf
  <2>4. \A e \in ChunksOf(s) : e \notin WriterChunkQ /\ c_status[e] # "WAITING"
    BY <1>t, <1>u, <2>2, <2>3 DEF InOnePlace
  <2>5. Committed \cap ChunksOf(s) = {c}
    BY <1>c, <1>u, <2>2, <2>4 DEF Committed
  <2> DEFINE d == [snap[s] EXCEPT !.status = "WRITING", !.done = snap[s].done + 1,
                                  !.pending = snap[s].pending - 1]
  <2>6. CASE SetupSnapshot(s, d, wp_nfiles - 1, wp_totxfr + Samples(c))
    <3>1. {c} \in SUBSET ChunksOf(s) /\ wp_totxfr + Samples(c) = wp_totxfr + TotalSamples({c})
      BY <1>c, <1>u
    <3> HIDE DEF d, c, s
    <3> QED BY <1>u, <2>4, <2>5, <2>6, <3>1, BudgetSetup
  <2>7. CASE /\ c_owner' = [e \in Chunk |-> IF Parent(e) = s THEN "WRITER" ELSE c_owner[e]]
             /\ wp_totxfr' = wp_totxfr + Samples(c)
             /\ UNCHANGED <<c_status, WriterChunkQ>>
    <3>e. \A e \in Chunk : c_owner'[e] = IF e \in ChunksOf(s) THEN "WRITER" ELSE c_owner[e]
      BY <1>u, <2>7, ParentOf
    <3> HIDE DEF c, s
    <3>1. Committed' = Committed \ {c}
      BY <2>5, <2>7, <3>e, <2>4 DEF Committed
    <3>2. BudgetConserved'
      BY <1>c, <2>7, <3>1, BudgetBack DEF BInv
    <3>3. WaitingIsSent'
      BY <2>4, <2>7, <3>e DEF BInv, WaitingIsSent
    <3>4. SetUpWhole'
      BY <2>7 DEF BInv, SetUpWhole
    <3> QED BY <3>2, <3>3, <3>4 DEF BInv
  <2> QED BY <1>1, <2>6, <2>7 DEF FileWritten
<1>2. CASE /\ c_owner' = [c_owner EXCEPT ![c] = "WRITER"]
           /\ wp_totxfr' = wp_totxfr + Samples(c)
           /\ UNCHANGED <<WriterChunkQ, c_status>>
  <2> HIDE DEF c
  <2>e. \A e \in Chunk : c_owner'[e] = IF e = c THEN "WRITER" ELSE c_owner[e]
    BY <1>t, <1>2 DEF ChunkTypeOK
  <2>1. Committed' = Committed \ {c}
    BY <1>c, <1>2, <2>e DEF Committed
  <2>2. BudgetConserved'
    BY <1>c, <1>2, <2>1, BudgetBack DEF BInv
  <2>3. WaitingIsSent' /\ SetUpWhole'
    BY <1>u, <1>2, <2>e DEF BInv, WaitingIsSent, SetUpWhole
  <2> QED BY <2>2, <2>3 DEF BInv
<1> QED BY <1>1, <1>2 DEF WriterWritten

(* The chunks abort_snapfile finds are those of the file that wait in the   *)
(* WRITER's queue, once some chunk of the file has been set up.             *)
LEMMA UnsentIsQueued ==
  ASSUME IInv, BInv, NEW s \in Snap, NEW c \in ChunksOf(s), c_status[c] # "INIT"
  PROVE  \A d \in Unsent(s) : d \in Chunk /\ d \in ChunksOf(s) /\ d \in WriterChunkQ
                              /\ c_owner[d] = "WRITER"
<1> SUFFICES ASSUME NEW d \in Unsent(s)
             PROVE  d \in Chunk /\ d \in ChunksOf(s) /\ d \in WriterChunkQ
                    /\ c_owner[d] = "WRITER"
  OBVIOUS
<1>1. /\ d \in ChunksOf(s) /\ c_owner[d] = "WRITER"
      /\ c_status[d] \notin {"WRITTEN", "ERROR"}
  BY DEF Unsent
<1>2. d \in Chunk
  BY <1>1 DEF ChunksOf, Chunk
<1>3. c_status[d] # "INIT"
  BY <1>1 DEF BInv, SetUpWhole
<1>4. c_status[d] # "WAITING"
  BY <1>1, <1>2 DEF BInv, WaitingIsSent
<1>5. c_status[d] = "READY"
  BY <1>1, <1>2, <1>3, <1>4 DEF IInv, TypeOK, ChunkTypeOK, ChunkStatus
<1> QED BY <1>1, <1>2, <1>5 DEF IInv, InOnePlace

(* A file that fails: its chunks in the WRITER's queue are credited.        *)
LEMMA BudgetFail ==
  ASSUME IInv, BInv, NEW s \in Snap, NEW seen \in ChunksOf(s), c_status[seen] # "INIT",
         NEW aborted \in SUBSET Unsent(s), NEW back \in SUBSET ChunksOf(s),
         \A c \in back : c_owner[c] = "READER" /\ c_status[c] = "ERROR",
         c_status' = [c \in Chunk |-> IF c \in aborted THEN "ERROR" ELSE c_status[c]],
         \A c \in Chunk : c_owner'[c] = IF c \in back THEN "WRITER" ELSE c_owner[c],
         WriterChunkQ' = WriterChunkQ \ aborted,
         NEW total, total = TotalSamples(back \cup aborted), wp_totxfr' = wp_totxfr + total
  PROVE  BInv'
<1>h. \A r \in Snap : \A c \in ChunksOf(r) : c \in Chunk
  BY DEF ChunksOf, Chunk
<1>1. \A c \in aborted : c \in Chunk /\ c \in ChunksOf(s) /\ c \in WriterChunkQ
                         /\ c_owner[c] = "WRITER"
  BY UnsentIsQueued
<1>e. \A c \in Chunk : c_status'[c] = IF c \in aborted THEN "ERROR" ELSE c_status[c]
  OBVIOUS
<1>2. \A c \in back : c \in Chunk /\ c \notin WriterChunkQ
  BY <1>h DEF IInv, InOnePlace
<1>3. back \cup aborted \in SUBSET Committed
  BY <1>1, <1>2 DEF Committed
<1>4. Committed' = Committed \ (back \cup aborted)
  BY <1>1, <1>2 DEF Committed
<1>5. BudgetConserved'
  BY <1>3, <1>4, BudgetBack DEF BInv
<1>6. WaitingIsSent'
  BY <1>e DEF BInv, WaitingIsSent
<1>7. SetUpWhole'
  <2> SUFFICES ASSUME NEW r \in Snap, NEW c \in ChunksOf(r), NEW d \in ChunksOf(r),
                      c_status'[c] = "INIT"
               PROVE  c_status'[d] = "INIT"
    BY DEF SetUpWhole, ChunksOf
  <2>1. c \in Chunk /\ d \in Chunk /\ c_status[c] = "INIT"
    BY <1>h, <1>e
  <2>2. r # s
    BY <2>1 DEF BInv, SetUpWhole
  <2>3. d \notin aborted
    BY <1>1, <2>1, <2>2 DEF ChunksOf
  <2> QED BY <1>e, <2>1, <2>3 DEF BInv, SetUpWhole
<1> QED BY <1>5, <1>6, <1>7 DEF BInv

(* A chunk that comes back failed.                                          *)
LEMMA BudgetError ==
  ASSUME IInv, BInv, WriterReceive, WriterError(Head(toWriter))
  PROVE  BInv'
<1> DEFINE c == Head(toWriter)
           s == Parent(c)
           aborted == IF file[s].status = "ERROR" THEN {} ELSE Unsent(s)
<1>u. c \in Chunk /\ s \in Snap /\ c \in ChunksOf(s) /\ c_owner[c] = "READER"
  BY ReceivedChunk
<1>e. /\ c_status[c] = "ERROR"
      /\ c_status' = [d \in Chunk |-> IF d \in aborted THEN "ERROR" ELSE c_status[d]]
      /\ c_owner' = [c_owner EXCEPT ![c] = "WRITER"]
      /\ WriterChunkQ' = WriterChunkQ \ aborted
      /\ wp_totxfr' = wp_totxfr + Samples(c) + TotalSamples(aborted)
  BY DEF WriterError
<1>1. \A d \in Chunk : c_owner'[d] = IF d \in {c} THEN "WRITER" ELSE c_owner[d]
  BY <1>e DEF IInv, TypeOK, ChunkTypeOK
<1>2. aborted \in SUBSET Unsent(s)
  OBVIOUS
<1> HIDE DEF aborted, s, c
<1>3. aborted \in SUBSET Chunk /\ c \notin aborted
  BY <1>u, <1>e, <1>2, UnsentIsQueued
<1>4. PICK total : total = TotalSamples({c} \cup aborted)
  OBVIOUS
<1>5. wp_totxfr' = wp_totxfr + total
  <2>1. total = TotalSamples({c}) + TotalSamples(aborted)
    BY <1>u, <1>3, <1>4, TotalUnion
  <2>2. TotalSamples({c}) = Samples(c)
    BY <1>u, TotalOne
  <2>3. PICK n, m : n = Samples(c) /\ m = TotalSamples(aborted)
    OBVIOUS
  <2>4. n \in Int /\ m \in Int
    BY <1>u, <1>3, <2>3, ChunkSamples, TotalAdds
  <2>5. Committed \in SUBSET Chunk
    BY DEF Committed
  <2>6. Budget \in Int /\ TotalSamples(Committed) \in Int
    BY <2>5, TotalAdds, ConstantsAssumption
  <2>7. wp_totxfr \in Int
    BY <2>6 DEF BInv, BudgetConserved, Committed
  <2>8. wp_totxfr' = (wp_totxfr + n) + m /\ total = n + m
    BY <1>e, <2>1, <2>2, <2>3
  <2> QED BY <2>4, <2>7, <2>8
<1>6. {c} \in SUBSET ChunksOf(s) /\ c_status[c] # "INIT"
  BY <1>u, <1>e
<1> QED BY <1>u, <1>e, <1>1, <1>2, <1>4, <1>5, <1>6, BudgetFail

(* A chunk that cannot be mapped.                                           *)
LEMMA BudgetMapFails ==
  ASSUME IInv, BInv, WriterMapFails
  PROVE  BInv'
<1>1. PICK c \in WriterChunkQ, fr \in AvailableFrames :
        LET s == Parent(c)
        IN  /\ c_status' = [d \in Chunk |-> IF d \in Unsent(s) THEN "ERROR" ELSE c_status[d]]
            /\ WriterChunkQ' = WriterChunkQ \ Unsent(s)
            /\ wp_totxfr' = wp_totxfr + TotalSamples(Unsent(s))
  BY DEF WriterMapFails
<1> DEFINE s == Parent(c)
           aborted == Unsent(s)
           back == {}
<1>2. c \in Chunk /\ s \in Snap /\ c \in ChunksOf(s)
  BY ParentOf DEF IInv, TypeOK, ChunkTypeOK
<1>3. c_status[c] # "INIT"
  BY <1>2 DEF IInv, InOnePlace
<1>4. /\ c_status' = [d \in Chunk |-> IF d \in aborted THEN "ERROR" ELSE c_status[d]]
      /\ WriterChunkQ' = WriterChunkQ \ aborted
      /\ wp_totxfr' = wp_totxfr + TotalSamples(aborted)
      /\ back \cup aborted = aborted /\ aborted \in SUBSET Unsent(s)
  BY <1>1
<1>5. \A d \in Chunk : c_owner'[d] = IF d \in back THEN "WRITER" ELSE c_owner[d]
  BY DEF WriterMapFails
<1>6. PICK total : total = TotalSamples(back \cup aborted)
  OBVIOUS
<1>7. wp_totxfr' = wp_totxfr + total
  BY <1>4, <1>6
<1>8. back \in SUBSET ChunksOf(s) /\ \A d \in back : FALSE
  OBVIOUS
<1> HIDE DEF s, aborted, back
<1> QED BY <1>2, <1>3, <1>4, <1>5, <1>6, <1>7, <1>8, BudgetFail

(* writer_service_queue hands a committed chunk on.                         *)
LEMMA BudgetService ==
  ASSUME IInv, BInv, WriterService
  PROVE  BInv'
<1>1. PICK c \in WriterChunkQ :
        /\ WriterChunkQ' = WriterChunkQ \ {c}
        /\ c_status' = [c_status EXCEPT ![c] = "WAITING"]
        /\ c_owner' = [c_owner EXCEPT ![c] = "READER"]
        /\ wp_totxfr' = wp_totxfr
  BY DEF WriterService
<1>2. c \in Chunk /\ c_status[c] = "READY"
  <2>1. c \in Chunk
    BY DEF IInv, TypeOK, ChunkTypeOK
  <2> QED BY <2>1 DEF IInv, InOnePlace
<1>e. \A d \in Chunk : /\ c_status'[d] = IF d = c THEN "WAITING" ELSE c_status[d]
                       /\ c_owner'[d] = IF d = c THEN "READER" ELSE c_owner[d]
  BY <1>1 DEF IInv, TypeOK, ChunkTypeOK
<1>3. Committed' = Committed
  BY <1>1, <1>2, <1>e DEF Committed
<1>4. WaitingIsSent'
  BY <1>e DEF BInv, WaitingIsSent
<1>5. SetUpWhole'
  <2>1. \A s \in Snap : \A d \in ChunksOf(s) : d \in Chunk
    BY DEF ChunksOf, Chunk
  <2> QED BY <1>2, <1>e, <2>1 DEF BInv, SetUpWhole, ChunksOf
<1> QED BY <1>1, <1>3, <1>4, <1>5, BudgetStays DEF BInv

(* Every step keeps the account.                                            *)
LEMMA NextBInv == IInv /\ BInv /\ [Next]_vars => BInv'
<1> SUFFICES ASSUME IInv, BInv, [Next]_vars PROVE BInv'
  OBVIOUS
<1>1. CASE Writer
  <2>1. CASE \E s \in Snap, first \in Start, n \in Count : SnapCommand(s, first, n)
    BY <2>1, BudgetSnap
  <2>2. CASE WriterReceive
    BY <2>2, BudgetWritten, BudgetError DEF WriterReceive
  <2>3. CASE WriterService
    BY <2>3, BudgetService
  <2>4. CASE WriterMapFails
    BY <2>4, BudgetMapFails
  <2>5. CASE WriterPoll \/ WriterServed \/ WriterEndsAgain
    BY <2>5, BudgetQuiet DEF WriterPoll, WriterServed, WriterEndsAgain, chunkVars
  <2> QED BY <1>1, <2>1, <2>2, <2>3, <2>4, <2>5 DEF Writer
<1>2. CASE Reader
  <2>1. CASE ReaderComplete \/ ReaderAbortSibling \/ ReaderAborted
    <3>1. ASSUME UNCHANGED <<chunkVars, writerVars>> PROVE BInv'
      BY <3>1, BudgetQuiet DEF chunkVars, writerVars
    <3>2. \A c \in ReaderChunkQ : c \in Chunk /\ WithReader(c)
      BY DEF IInv, TypeOK, ChunkTypeOK, WithReader
    <3>3. held # None => held \in Chunk /\ WithReader(held)
      BY DEF IInv, TypeOK, ChunkTypeOK, WithReader
    <3>4. CASE ReaderComplete
      <4>1. PICK c \in ReaderChunkQ : UNCHANGED <<chunkVars, writerVars>> \/ Return(c, "WRITTEN")
        BY <3>4 DEF ReaderComplete
      <4> QED BY <3>1, <3>2, <4>1, BudgetReturn
    <3>5. CASE ReaderAbortSibling
      <4>1. PICK c \in ReaderChunkQ : Return(c, "ERROR")
        BY <3>5 DEF ReaderAbortSibling
      <4> QED BY <3>2, <4>1, BudgetReturn
    <3>6. CASE ReaderAborted
      <4>1. UNCHANGED <<chunkVars, writerVars>> \/ (held # None /\ Return(held, "ERROR"))
        BY <3>6 DEF ReaderAborted
      <4> QED BY <3>1, <3>3, <4>1, BudgetReturn
    <3> QED BY <2>1, <3>4, <3>5, <3>6
  <2>2. CASE \/ \E n \in 1 .. MaxBatch : ReaderCollect(n)
             \/ ReaderReceive \/ ReaderPurge \/ ReaderPoll \/ ReaderStop \/ ReaderDrain
             \/ ReaderParam \/ ReaderInit \/ ReaderGo
    <3>1. UNCHANGED <<chunkVars, writerVars>>
      BY <2>2 DEF ReaderCollect, ReaderReceive, ReaderPurge, ReaderPoll, ReaderStop,
                  ReaderDrain, ReaderParam, ReaderInit, ReaderGo
    <3> QED BY <3>1, BudgetQuiet DEF chunkVars, writerVars
  <2> QED BY <1>2, <2>1, <2>2 DEF Reader
<1>3. CASE TidyRelease \/ FreedIsReused \/ UNCHANGED vars
  BY <1>3, BudgetQuiet DEF TidyRelease, FreedIsReused, vars, chunkVars, writerVars
<1> QED BY <1>1, <1>2, <1>3 DEF Next

(* When the program starts nothing is committed.                            *)
LEMMA InitBInv == Init => BInv
<1> SUFFICES ASSUME Init PROVE BInv
  OBVIOUS
<1>1. Committed = {} /\ wp_totxfr = Budget /\ Budget \in Int
  BY ConstantsAssumption DEF Init, Committed
<1>2. TotalSamples({}) = 0
  <2>1. {} \in SUBSET Chunk
    OBVIOUS
  <2> QED BY <2>1, TotalAdds
<1>3. BudgetConserved
  <2>1. wp_totxfr = Budget - TotalSamples(Committed)
    BY <1>1, <1>2
  <2> QED BY <2>1 DEF BudgetConserved, Committed
<1>4. WaitingIsSent /\ SetUpWhole
  BY DEF Init, WaitingIsSent, SetUpWhole, ChunksOf, Chunk
<1> QED BY <1>3, <1>4 DEF BInv

(* Every sample committed for a file is credited back exactly once, in      *)
(* whatever order its chunks are written, fail, or cannot be mapped.        *)
THEOREM BudgetIsConserved == Spec => []BudgetConserved
<1>1. Init => IInv /\ BInv
  BY InitIInv, InitBInv
<1>2. (IInv /\ BInv) /\ [Next]_vars => (IInv /\ BInv)'
  BY NextIInv, NextBInv
<1>3. IInv /\ BInv => BudgetConserved
  BY DEF BInv
<1> QED BY <1>1, <1>2, <1>3, PTL DEF Spec
-----------------------------------------------------------------------------
(***************************************************************************)
(* ChunkFlow implements SnapshotPromise, for any number of snapshots,      *)
(* frames and chunks, also where a mapping can fail, up to the faults:     *)
(* every step of the four threads accepts, copies a part, ends a file or   *)
(* fails a snapshot as the promise has it, or is invisible to it.  Besides *)
(* IInv this needs FileTellsSnap, which is proved first, from what each    *)
(* step does to one snapshot.  That the files in progress and the chunks   *)
(* of each that are with the READER are counted right follows.             *)
(***************************************************************************)

(***************************************************************************)
(* What a step leaves alone.                                               *)
(***************************************************************************)
(* Nothing that concerns snapshot s has changed.                            *)
Left(s) ==
  /\ snap'[s] = snap[s] /\ file'[s] = file[s]
  /\ \A c \in ChunksOf(s) : c_status'[c] = c_status[c] /\ c_owner'[c] = c_owner[c]

(* The promise sees no change of snapshot s.                                *)
Same(s) ==
  /\ Phase(s)' = Phase(s)
  /\ snap'[s].count = snap[s].count /\ snap'[s].done = snap[s].done
  /\ Copied(s)' = Copied(s)

(* What the promise makes of each status (writer.c:768-797).                *)
LEMMA PhaseFacts ==
  /\ PhaseOf("INIT") = "none" /\ PhaseOf("PREPARE") = "active" /\ PhaseOf("WRITING") = "active"
  /\ PhaseOf("COMPLETE") = "complete" /\ PhaseOf("ERROR") = "failed"
BY DEF PhaseOf

(* The parts that are copied are those chunks that are written, and none    *)
(* once the snapshot is over.                                               *)
LEMMA CopiedSame ==
  ASSUME NEW s \in Snap, Phase(s)' = Phase(s),
         \A c \in ChunksOf(s) : c_status'[c] = "WRITTEN" <=> c_status[c] = "WRITTEN"
  PROVE  Copied(s)' = Copied(s)
<1>1. \A i \in 1 .. NChunk : <<s, i>> \in ChunksOf(s)
  BY DEF ChunksOf
<1>2. {i \in 1 .. NChunk : c_status'[<<s, i>>] = "WRITTEN"}
        = {i \in 1 .. NChunk : c_status[<<s, i>>] = "WRITTEN"}
  BY <1>1
<1> QED BY <1>2 DEF Copied

LEMMA LeftIsSame ==
  ASSUME NEW s \in Snap, Left(s)
  PROVE  Same(s) /\ (FileTells(s) => FileTells(s)')
<1>1. snap'[s] = snap[s] /\ file'[s] = file[s] /\ Phase(s)' = Phase(s)
  BY DEF Left, Phase
<1>2. Copied(s)' = Copied(s)
  BY <1>1, CopiedSame DEF Left
<1>3. FileTells(s) => FileTells(s)'
  BY <1>1 DEF Left, FileTells, WithReaderYet
<1> QED BY <1>1, <1>2, <1>3 DEF Same

(* A step of which the promise sees nothing is a stutter of it.             *)
LEMMA Unseen ==
  ASSUME \A s \in Snap : Same(s)
  PROVE  UNCHANGED Promise!vars
BY DEF Same, Promise!vars
-----------------------------------------------------------------------------
(***************************************************************************)
(* What a step does to one snapshot.                                       *)
(***************************************************************************)
(* setup_snapshot: a new file is in progress, all of it to be written, or   *)
(* the snapshot has failed (writer.c:749-767).                              *)
LEMMA SetupEffect ==
  ASSUME WriterTypeOK, ChunkTypeOK, NEW r \in Snap, NEW d \in SnapRecord, NEW nfiles, NEW totxfr,
         SetupSnapshot(r, d, nfiles, totxfr)
  PROVE  /\ \A s \in Snap : s # r => Left(s)
         /\ snap'[r].done = d.done /\ snap'[r].count = d.count
         /\ \/ /\ snap'[r].status = d.status /\ snap'[r].pending = d.pending + 1
               /\ file'[r].live /\ wp_nfiles' = nfiles + 1
               /\ \A c \in ChunksOf(r) : c_status'[c] = "READY" /\ c_owner'[c] = "WRITER"
               /\ file'[r].pending = 0
               /\ DOMAIN file' = Snap /\ \A s \in Snap : s # r => file'[s] = file[s]
            \/ /\ snap'[r].status = "ERROR" /\ snap'[r].pending = d.pending
               /\ ~file'[r].live /\ wp_nfiles' = nfiles
               /\ \A c \in ChunksOf(r) : c_owner'[c] = "WRITER"
               /\ DOMAIN file' = Snap /\ \A s \in Snap : s # r => file'[s] = file[s]
<1> DEFINE e1 == [d EXCEPT !.pending = d.pending + 1, !.first = d.first + FileSamples]
           e2 == [d EXCEPT !.status = "ERROR"]
           g1 == [live |-> TRUE, status |-> "READY", pending |-> 0, written |-> 0]
           g2 == [file[r] EXCEPT !.live = FALSE]
<1>1. /\ e1.done = d.done /\ e1.count = d.count /\ e1.status = d.status
      /\ e1.pending = d.pending + 1
      /\ e2.done = d.done /\ e2.count = d.count /\ e2.status = "ERROR" /\ e2.pending = d.pending
  BY DEF SnapRecord
<1>2. /\ DOMAIN snap = Snap /\ DOMAIN file = Snap /\ file[r] \in FileRecord
      /\ g1.live = TRUE /\ g1.pending = 0 /\ g2.live = FALSE
  BY DEF WriterTypeOK, FileRecord
<1>c. /\ \A s \in Snap : \A c \in ChunksOf(s) : c \in Chunk /\ Parent(c) = s
      /\ DOMAIN c_status = Chunk /\ DOMAIN c_owner = Chunk
  BY DEF ChunksOf, Chunk, Parent, ChunkTypeOK
<1>3. CASE /\ NewChunks(r, d.first)
           /\ file' = [file EXCEPT ![r] = g1]
           /\ snap' = [snap EXCEPT ![r] = e1]
           /\ wp_nfiles' = nfiles + 1
  <2> HIDE DEF e1, e2, g1, g2
  <2>1. /\ snap'[r] = e1 /\ file'[r] = g1 /\ DOMAIN file' = Snap
        /\ \A s \in Snap : s # r => snap'[s] = snap[s] /\ file'[s] = file[s]
    BY <1>2, <1>3
  <2>2. \A s \in Snap : \A c \in ChunksOf(s) :
          /\ c_status'[c] = IF s = r THEN "READY" ELSE c_status[c]
          /\ c_owner'[c] = IF s = r THEN "WRITER" ELSE c_owner[c]
    BY <1>c, <1>3 DEF NewChunks
  <2> QED BY <1>1, <1>2, <1>3, <2>1, <2>2 DEF Left
<1>4. CASE /\ file' = [file EXCEPT ![r].live = FALSE]
           /\ snap' = [snap EXCEPT ![r] = e2]
           /\ wp_nfiles' = nfiles /\ c_status' = c_status
           /\ c_owner' = [c \in Chunk |-> IF Parent(c) = r THEN "WRITER" ELSE c_owner[c]]
  <2>0. file' = [file EXCEPT ![r] = g2]
    BY <1>4
  <2> HIDE DEF e1, e2, g1, g2
  <2>1. /\ snap'[r] = e2 /\ file'[r] = g2 /\ DOMAIN file' = Snap
        /\ \A s \in Snap : s # r => snap'[s] = snap[s] /\ file'[s] = file[s]
    BY <1>2, <1>4, <2>0
  <2>2. \A s \in Snap : \A c \in ChunksOf(s) :
          /\ c_status'[c] = c_status[c]
          /\ c_owner'[c] = IF s = r THEN "WRITER" ELSE c_owner[c]
    BY <1>c, <1>4
  <2> QED BY <1>1, <1>2, <1>4, <2>1, <2>2 DEF Left
<1> QED BY <1>3, <1>4 DEF SetupSnapshot

(* completed_snapfile of a failed file: the snapshot fails with it, unless  *)
(* chunks of it are still to come (writer.c:1135-1149).                     *)
LEMMA FailedEffect ==
  ASSUME WriterTypeOK, NEW r \in Snap, NEW pending \in Int, FailsWith(r, pending)
  PROVE  /\ \A s \in Snap : s # r => snap'[s] = snap[s] /\ file'[s] = file[s]
         /\ snap'[r].done = snap[r].done /\ snap'[r].count = snap[r].count
         /\ DOMAIN file' = Snap /\ file'[r].pending = pending
         /\ FileFreed(r, pending) =>
               /\ ~file'[r].live /\ wp_nfiles' = wp_nfiles - 1
               /\ snap'[r].status = "ERROR" /\ snap'[r].pending = snap[r].pending - 1
         /\ FileLeft(r, pending) =>
               /\ file'[r].live = file[r].live /\ wp_nfiles' = wp_nfiles
               /\ snap'[r] = snap[r]
<1> DEFINE e == [snap[r] EXCEPT !.status = "ERROR", !.pending = snap[r].pending - 1]
           g1 == [live |-> FALSE, status |-> "ERROR", pending |-> pending,
                  written |-> file[r].written]
           g2 == [file[r] EXCEPT !.status = "ERROR", !.pending = pending]
<1>1. /\ DOMAIN snap = Snap /\ DOMAIN file = Snap
      /\ snap[r] \in SnapRecord /\ file[r] \in FileRecord
  BY DEF WriterTypeOK
<1>2. /\ e.status = "ERROR" /\ e.pending = snap[r].pending - 1
      /\ e.done = snap[r].done /\ e.count = snap[r].count
      /\ g1.live = FALSE /\ g1.pending = pending /\ g2.live = file[r].live /\ g2.pending = pending
  BY <1>1 DEF SnapRecord, FileRecord
<1>3. ASSUME FileFreed(r, pending)
      PROVE  /\ DOMAIN file' = Snap /\ file'[r] = g1 /\ snap'[r] = e /\ wp_nfiles' = wp_nfiles - 1
             /\ \A s \in Snap : s # r => snap'[s] = snap[s] /\ file'[s] = file[s]
  <2>1. /\ file' = [file EXCEPT ![r] = g1] /\ snap' = [snap EXCEPT ![r] = e]
        /\ wp_nfiles' = wp_nfiles - 1
    BY <1>3 DEF FileFreed
  <2> HIDE DEF e, g1, g2
  <2> QED BY <1>1, <2>1
<1>4. ASSUME FileLeft(r, pending)
      PROVE  /\ DOMAIN file' = Snap /\ file'[r] = g2 /\ snap' = snap /\ wp_nfiles' = wp_nfiles
             /\ \A s \in Snap : s # r => file'[s] = file[s]
  <2>1. file' = [file EXCEPT ![r] = g2] /\ snap' = snap /\ wp_nfiles' = wp_nfiles
    BY <1>4 DEF FileLeft
  <2> HIDE DEF e, g1, g2
  <2> QED BY <1>1, <2>1
<1> HIDE DEF e, g1, g2
<1> QED BY <1>2, <1>3, <1>4 DEF FailsWith
-----------------------------------------------------------------------------
(***************************************************************************)
(* What the promise makes of a change to one snapshot.                     *)
(***************************************************************************)
(* The abstract state changes at r only.                                    *)
LEMMA PointChange ==
  ASSUME NEW r \in Snap, \A s \in Snap : s # r => Same(s)
  PROVE  /\ [s \in Snap |-> Phase(s)'] = [[s \in Snap |-> Phase(s)] EXCEPT ![r] = Phase(r)']
         /\ [s \in Snap |-> snap'[s].count]
               = [[s \in Snap |-> snap[s].count] EXCEPT ![r] = snap'[r].count]
         /\ [s \in Snap |-> snap'[s].done]
               = [[s \in Snap |-> snap[s].done] EXCEPT ![r] = snap'[r].done]
         /\ [s \in Snap |-> Copied(s)'] = [[s \in Snap |-> Copied(s)] EXCEPT ![r] = Copied(r)']
BY DEF Same

(* A request is accepted, with its first file, without one, or in vain.     *)
LEMMA Accepts ==
  ASSUME NEW r \in Snap, NEW n \in Count, n \in Nat, \A s \in Snap : s # r => Same(s),
         Phase(r) = "none", snap'[r].count = n, snap'[r].done = snap[r].done,
         Copied(r)' = Copied(r),
         \/ n # 0 /\ Phase(r)' \in {"active", "failed"}
         \/ n = 0 /\ Phase(r)' = "complete"
  PROVE  Promise!Next
<1>1. Promise!Accept(r, n)
  <2>1. /\ [s \in Snap |-> Copied(s)'] = [s \in Snap |-> Copied(s)]
        /\ [s \in Snap |-> snap'[s].done] = [s \in Snap |-> snap[s].done]
    BY DEF Same
  <2>2. n # 0 => n > 0
    OBVIOUS
  <2> QED BY <2>1, <2>2, PointChange DEF Promise!Accept
<1> QED BY <1>1 DEF Promise!Next

(* The last part of a file is there, and the snapshot is complete, goes on  *)
(* or cannot.                                                               *)
LEMMA EndsFile ==
  ASSUME NEW r \in Snap, \A s \in Snap : s # r => Same(s),
         Phase(r) = "active", Copied(r) = 1 .. NChunk, Copied(r)' = {},
         snap'[r].count = snap[r].count, snap'[r].done = snap[r].done + 1,
         \/ snap[r].done + 1 = snap[r].count /\ Phase(r)' = "complete"
         \/ snap[r].done + 1 # snap[r].count /\ Phase(r)' \in {"active", "failed"}
  PROVE  Promise!Next
<1>1. Promise!FileDone(r)
  <2>1. [s \in Snap |-> snap'[s].count] = [s \in Snap |-> snap[s].count]
    BY DEF Same
  <2>2. Phase(r)' = "active" => [s \in Snap |-> Phase(s)'] = [s \in Snap |-> Phase(s)]
    BY DEF Same
  <2>3. /\ [s \in Snap |-> Copied(s)'] = [[s \in Snap |-> Copied(s)] EXCEPT ![r] = {}]
        /\ [s \in Snap |-> snap'[s].done]
             = [[s \in Snap |-> snap[s].done] EXCEPT ![r] = snap[r].done + 1]
        /\ [s \in Snap |-> Phase(s)'] = [[s \in Snap |-> Phase(s)] EXCEPT ![r] = Phase(r)']
    BY PointChange
  <2> QED BY <2>1, <2>2, <2>3 DEF Promise!FileDone
<1> QED BY <1>1 DEF Promise!Next

(* A part of the file in progress is copied.                                *)
LEMMA CopiesPart ==
  ASSUME NEW r \in Snap, NEW i \in 1 .. NChunk, \A s \in Snap : s # r => Same(s),
         Phase(r) = "active", Phase(r)' = Phase(r), snap'[r].count = snap[r].count,
         snap'[r].done = snap[r].done, i \notin Copied(r), Copied(r)' = Copied(r) \cup {i}
  PROVE  Promise!Next
<1>1. Promise!Copy(r, i)
  <2>1. /\ [s \in Snap |-> snap'[s].count] = [s \in Snap |-> snap[s].count]
        /\ [s \in Snap |-> snap'[s].done] = [s \in Snap |-> snap[s].done]
        /\ [s \in Snap |-> Phase(s)'] = [s \in Snap |-> Phase(s)]
    BY DEF Same
  <2>2. [s \in Snap |-> Copied(s)']
          = [[s \in Snap |-> Copied(s)] EXCEPT ![r] = Copied(r) \cup {i}]
    BY PointChange
  <2> QED BY <2>1, <2>2 DEF Promise!Copy
<1> QED BY <1>1 DEF Promise!Next

(* The snapshot fails, and with it the file in progress.                    *)
LEMMA Fails ==
  ASSUME NEW r \in Snap, \A s \in Snap : s # r => Same(s),
         Phase(r) = "active", Phase(r)' = "failed", snap'[r].count = snap[r].count,
         snap'[r].done = snap[r].done, Copied(r)' = {}
  PROVE  Promise!Next
<1>1. Promise!Fail(r)
  <2>1. /\ [s \in Snap |-> snap'[s].count] = [s \in Snap |-> snap[s].count]
        /\ [s \in Snap |-> snap'[s].done] = [s \in Snap |-> snap[s].done]
    BY DEF Same
  <2> QED BY <2>1, PointChange DEF Promise!Fail
<1> QED BY <1>1 DEF Promise!Next
-----------------------------------------------------------------------------
(***************************************************************************)
(* The steps.                                                              *)
(***************************************************************************)
PromiseStep == [Promise!Next]_(Promise!vars)

(* Of a change to one snapshot.                                             *)
LEMMA OneChanges ==
  ASSUME FileTellsSnap, NEW r \in Snap, \A s \in Snap : s # r => Left(s), FileTells(r)'
  PROVE  FileTellsSnap' /\ \A s \in Snap : s # r => Same(s)
<1>1. \A s \in Snap : s # r => Same(s) /\ FileTells(s)'
  BY LeftIsSame DEF FileTellsSnap
<1> QED BY <1>1 DEF FileTellsSnap

(* Nothing of a file is copied as long as none of its chunks is written.    *)
LEMMA NoneCopied ==
  ASSUME NEW s \in Snap,
         Phase(s)' # "active" \/ \A c \in ChunksOf(s) : c_status'[c] # "WRITTEN"
  PROVE  Copied(s)' = {}
<1>1. \A i \in 1 .. NChunk : <<s, i>> \in ChunksOf(s)
  BY DEF ChunksOf
<1> QED BY <1>1 DEF Copied

(* A Snap command.                                                          *)
LEMMA SnapKeeps ==
  ASSUME IInv, FileTellsSnap, NEW r \in Snap, NEW first \in Start, NEW n \in Count,
         SnapCommand(r, first, n)
  PROVE  FileTellsSnap' /\ PromiseStep
<1> DEFINE d == [status |-> "PREPARE", first |-> first, done |-> 0, pending |-> 0, count |-> n]
           e == [d EXCEPT !.status = "COMPLETE"]
<1>t. /\ WriterTypeOK /\ ChunkTypeOK /\ FreshSnap /\ FileTells(r) /\ n \in Nat /\ first \in Nat
      /\ snap[r].status = "INIT"
  BY ConstantsAssumption DEF IInv, TypeOK, FileTellsSnap, SnapCommand
<1>1. /\ d \in SnapRecord /\ d.status = "PREPARE" /\ d.done = 0 /\ d.pending = 0 /\ d.count = n
      /\ e.status = "COMPLETE" /\ e.done = 0 /\ e.pending = 0 /\ e.count = n
  BY <1>t DEF SnapRecord, SnapStatus
<1>2. \/ n # 0 /\ SetupSnapshot(r, d, wp_nfiles, wp_totxfr)
      \/ n = 0 /\ snap' = [snap EXCEPT ![r] = e] /\ UNCHANGED <<file, c_status, c_owner>>
  BY <1>t DEF SnapCommand, WantsFile, chunkVars
<1> HIDE DEF d, e
<1>3. Phase(r) = "none" /\ ~file[r].live /\ snap[r].done = 0
  BY <1>t, PhaseFacts DEF Phase, FileTells
<1>4. Copied(r) = {}
  BY <1>3 DEF Copied
<1>5. CASE n # 0 /\ SetupSnapshot(r, d, wp_nfiles, wp_totxfr)
  <2>1. /\ \A s \in Snap : s # r => Left(s)
        /\ snap'[r].done = 0 /\ snap'[r].count = n
        /\ \/ /\ snap'[r].status = "PREPARE" /\ snap'[r].pending = 1
              /\ file'[r].live
              /\ \A c \in ChunksOf(r) : c_status'[c] = "READY"
           \/ /\ snap'[r].status = "ERROR" /\ snap'[r].pending = 0
              /\ ~file'[r].live
              /\ \A c \in ChunksOf(r) : c_owner'[c] = "WRITER"
    BY <1>t, <1>1, <1>5, SetupEffect
  <2>2. FileTells(r)'
    BY <2>1 DEF FileTells, WithReaderYet
  <2>3. Phase(r)' \in {"active", "failed"} /\ (Phase(r)' = "active" => snap'[r].status = "PREPARE")
    BY <2>1, PhaseFacts DEF Phase
  <2>4. Copied(r)' = {}
    BY <2>1, <2>3, NoneCopied
  <2>5. FileTellsSnap' /\ \A s \in Snap : s # r => Same(s)
    BY <2>1, <2>2, OneChanges
  <2> QED BY <1>t, <1>3, <1>4, <1>5, <2>1, <2>3, <2>4, <2>5, Accepts DEF PromiseStep
<1>6. CASE n = 0 /\ snap' = [snap EXCEPT ![r] = e] /\ UNCHANGED <<file, c_status, c_owner>>
  <2>1. snap'[r] = e /\ \A s \in Snap : s # r => Left(s)
    BY <1>t, <1>6 DEF WriterTypeOK, Left
  <2>2. \A c \in ChunksOf(r) : c_owner'[c] = "WRITER"
    BY <1>t, <1>6 DEF FreshSnap
  <2>3. FileTells(r)'
    BY <1>1, <1>3, <1>6, <2>1, <2>2 DEF FileTells, WithReaderYet
  <2>4. Phase(r)' = "complete" /\ Copied(r)' = {}
    <3>1. Phase(r)' = "complete"
      BY <1>1, <2>1, PhaseFacts DEF Phase
    <3> QED BY <3>1, NoneCopied
  <2>5. FileTellsSnap' /\ \A s \in Snap : s # r => Same(s)
    BY <2>1, <2>3, OneChanges
  <2> QED BY <1>t, <1>1, <1>3, <1>4, <1>6, <2>1, <2>4, <2>5, Accepts DEF PromiseStep
<1> QED BY <1>2, <1>5, <1>6

(* A chunk that comes back written.                                         *)
LEMMA WrittenKeeps ==
  ASSUME IInv, FileTellsSnap, WriterReceive, WriterWritten(Head(toWriter)),
         NEW c \in Chunk, c = Head(toWriter), NEW r \in Snap, r = Parent(c)
  PROVE  FileTellsSnap' /\ PromiseStep
<1> DEFINE b == Back(file[r])
           f == [b EXCEPT !.written = @ + 1]
           d == [snap[r] EXCEPT !.status = "WRITING", !.done = snap[r].done + 1,
                                !.pending = snap[r].pending - 1]
           d2 == [d EXCEPT !.status = IF d.done = d.count THEN "COMPLETE" ELSE d.status]
           g == [file[r] EXCEPT !.live = FALSE]
<1>t. /\ WriterTypeOK /\ ChunkTypeOK
      /\ c \in Chunk /\ r \in Snap /\ c \in ChunksOf(r) /\ c_owner[c] = "READER"
      /\ c_status[c] = "WRITTEN"
  BY ReceivedChunk DEF WriterWritten, IInv, TypeOK
<1>r. FileTells(r) /\ snap[r] \in SnapRecord /\ file[r] \in FileRecord
  BY <1>t DEF FileTellsSnap, WriterTypeOK
<1>f. /\ f.written = file[r].written + 1 /\ f.live = file[r].live
      /\ f.pending = file[r].pending - 1
  <2>1. /\ b.written = file[r].written /\ b.live = file[r].live
        /\ b.pending = file[r].pending - 1 /\ b \in FileRecord
    BY <1>r DEF FileRecord, Back
  <2> HIDE DEF b
  <2> QED BY <2>1 DEF FileRecord
<1>d. /\ d \in SnapRecord /\ d.status = "WRITING" /\ d.done = snap[r].done + 1
      /\ d.pending = snap[r].pending - 1 /\ d.count = snap[r].count
  <2>1. snap[r].done + 1 \in Nat /\ snap[r].pending - 1 \in Int
    BY <1>r DEF SnapRecord
  <2> QED BY <1>r, <2>1 DEF SnapRecord, SnapStatus
<1>c. /\ \A s \in Snap : \A x \in ChunksOf(s) : x \in Chunk /\ Parent(x) = s
      /\ DOMAIN c_status = Chunk /\ DOMAIN c_owner = Chunk
  BY DEF ChunksOf, Chunk, Parent, ChunkTypeOK, IInv, TypeOK
<1>1. CASE AllWritten(f) /\ FileWritten(r, wp_totxfr + Samples(c))
  <2>1. \A x \in ChunksOf(r) : c_status[x] = "WRITTEN" /\ (x # c => c_owner[x] = "WRITER")
    BY <1>t, <1>f, <1>1, LastOneWritten DEF AllWritten
  <2>2. file[r].live /\ snap[r].pending = 1 /\ snap[r].status \in {"PREPARE", "WRITING"}
    <3>1. WithReaderYet(r)
      BY <1>t DEF WithReaderYet
    <3> QED BY <1>r, <2>1, <3>1 DEF FileTells
  <2>3. Phase(r) = "active" /\ Copied(r) = 1 .. NChunk
    <3>1. Phase(r) = "active"
      BY <2>2, PhaseFacts DEF Phase
    <3>2. \A i \in 1 .. NChunk : <<r, i>> \in ChunksOf(r)
      BY DEF ChunksOf
    <3> QED BY <2>1, <3>1, <3>2 DEF Copied
  <2>4. CASE SetupSnapshot(r, d, wp_nfiles - 1, wp_totxfr + Samples(c))
             /\ WantsFile(d.done, d.pending, d.count, wp_nfiles - 1)
    <3> HIDE DEF b, f, d
    <3>1. /\ \A s \in Snap : s # r => Left(s)
          /\ snap'[r].done = d.done /\ snap'[r].count = d.count
          /\ \/ /\ snap'[r].status = d.status /\ snap'[r].pending = d.pending + 1
                /\ file'[r].live
                /\ \A x \in ChunksOf(r) : c_status'[x] = "READY"
             \/ /\ snap'[r].status = "ERROR" /\ snap'[r].pending = d.pending
                /\ ~file'[r].live
                /\ \A x \in ChunksOf(r) : c_owner'[x] = "WRITER"
      BY <1>t, <1>d, <2>4, SetupEffect
    <3>2. FileTells(r)'
      BY <1>d, <2>2, <3>1 DEF FileTells, WithReaderYet
    <3>3. Phase(r)' \in {"active", "failed"} /\ (Phase(r)' = "active" => snap'[r].status = "WRITING")
      BY <1>d, <3>1, PhaseFacts DEF Phase
    <3>4. Copied(r)' = {}
      BY <1>t, <3>1, <3>3, NoneCopied
    <3>5. FileTellsSnap' /\ \A s \in Snap : s # r => Same(s)
      BY <1>t, <3>1, <3>2, OneChanges
    <3>6. snap[r].done + 1 # snap[r].count
      BY <1>d, <2>4 DEF WantsFile
    <3> QED BY <1>t, <1>d, <2>3, <3>1, <3>3, <3>4, <3>5, <3>6, EndsFile DEF PromiseStep
  <2>5. CASE /\ ~WantsFile(d.done, d.pending, d.count, wp_nfiles - 1)
             /\ snap' = [snap EXCEPT ![r] = d2]
             /\ file' = [file EXCEPT ![r].live = FALSE]
             /\ c_owner' = [x \in Chunk |-> IF Parent(x) = r THEN "WRITER" ELSE c_owner[x]]
             /\ c_status' = c_status
    <3>1. d.done = d.count
      <4> HIDE DEF d
      <4> QED BY <1>d, <1>r, <2>2, <2>5 DEF WantsFile, SnapRecord
    <3>2. d2.status = "COMPLETE" /\ d2.done = d.done /\ d2.count = d.count /\ d2.pending = d.pending
      <4> HIDE DEF d
      <4> QED BY <1>d, <3>1 DEF SnapRecord
    <3>g. g.live = FALSE /\ file' = [file EXCEPT ![r] = g]
      BY <1>r, <2>5 DEF FileRecord
    <3> HIDE DEF b, f, d, d2, g
    <3>3. snap'[r] = d2 /\ ~file'[r].live
      BY <1>t, <2>5, <3>g DEF WriterTypeOK
    <3>4. \A x \in ChunksOf(r) : c_owner'[x] = "WRITER"
      BY <1>t, <1>c, <2>5
    <3>5. \A s \in Snap : s # r => Left(s)
      <4> SUFFICES ASSUME NEW s \in Snap, s # r PROVE Left(s)
        OBVIOUS
      <4>1. snap'[s] = snap[s] /\ file'[s] = file[s]
        BY <1>t, <2>5, <3>g DEF WriterTypeOK
      <4>2. \A x \in ChunksOf(s) : c_status'[x] = c_status[x] /\ c_owner'[x] = c_owner[x]
        BY <1>c, <2>5
      <4> QED BY <4>1, <4>2 DEF Left
    <3>6. FileTells(r)'
      BY <1>d, <2>2, <3>1, <3>2, <3>3, <3>4 DEF FileTells, WithReaderYet
    <3>7. Phase(r)' = "complete"
      BY <3>2, <3>3, PhaseFacts DEF Phase
    <3>8. Copied(r)' = {}
      BY <1>t, <3>7, NoneCopied
    <3>9. FileTellsSnap' /\ \A s \in Snap : s # r => Same(s)
      BY <1>t, <3>5, <3>6, OneChanges
    <3> QED BY <1>t, <1>d, <2>3, <3>1, <3>2, <3>3, <3>7, <3>8, <3>9, EndsFile DEF PromiseStep
  <2> QED BY <1>1, <2>4, <2>5 DEF FileWritten
<1>2. CASE /\ file' = [file EXCEPT ![r] = f] /\ c_owner' = [c_owner EXCEPT ![c] = "WRITER"]
           /\ UNCHANGED <<snap, c_status>>
  <2> HIDE DEF b, f, d
  <2>1. /\ file'[r] = f /\ snap'[r] = snap[r]
        /\ \A s \in Snap : s # r => Left(s)
    BY <1>t, <1>c, <1>2 DEF Left, WriterTypeOK
  <2>2. \A x \in ChunksOf(r) : c_owner'[x] = IF x = c THEN "WRITER" ELSE c_owner[x]
    BY <1>t, <1>c, <1>2
  <2>3. FileTells(r)'
    <3>1. WithReaderYet(r)' => WithReaderYet(r)
      BY <2>2 DEF WithReaderYet
    <3>2. ~file[r].live => \E x \in ChunksOf(r) : c_owner'[x] = "WRITER" /\ c_status'[x] = "ERROR"
      <4>1. WithReaderYet(r)
        BY <1>t DEF WithReaderYet
      <4> QED BY <1>r, <1>f, <1>2, <2>2, <4>1 DEF FileTells
    <3> QED BY <1>r, <1>f, <2>1, <3>1, <3>2 DEF FileTells
  <2>4. FileTellsSnap' /\ \A s \in Snap : s # r => Same(s)
    BY <1>t, <2>1, <2>3, OneChanges
  <2>5. Same(r)
    <3>1. Phase(r)' = Phase(r)
      BY <2>1 DEF Phase
    <3>2. Copied(r)' = Copied(r)
      BY <1>t, <1>2, <3>1, CopiedSame
    <3> QED BY <2>1, <3>1, <3>2 DEF Same
  <2>6. UNCHANGED Promise!vars
    BY <2>4, <2>5, Unseen
  <2> QED BY <2>4, <2>6 DEF PromiseStep
<1> QED BY <1>1, <1>2 DEF WriterWritten

(* A file fails or one of its chunks is back after it did: chunk c is one   *)
(* that failed, and no chunk that was written is changed.                   *)
LEMMA FailedKeeps ==
  ASSUME IInv, FileTellsSnap, NEW r \in Snap, NEW pending \in Int,
         FileLeft(r, pending) \/ (FileFreed(r, pending) /\ file[r].live),
         NEW c \in ChunksOf(r), c_owner'[c] = "WRITER", c_status'[c] = "ERROR",
         \A x \in Chunk : /\ c_status'[x] # c_status[x] =>
                             Parent(x) = r /\ c_status[x] # "WRITTEN" /\ c_status'[x] = "ERROR"
                          /\ c_owner'[x] # c_owner[x] => x = c
  PROVE  FileTellsSnap' /\ PromiseStep
<1>t. WriterTypeOK /\ ChunkTypeOK /\ FileTells(r) /\ snap[r] \in SnapRecord
  BY DEF IInv, TypeOK, FileTellsSnap, WriterTypeOK
<1>c. \A s \in Snap : \A x \in ChunksOf(s) : x \in Chunk /\ Parent(x) = s
  BY DEF ChunksOf, Chunk, Parent
<1>1. /\ \A s \in Snap : s # r => snap'[s] = snap[s] /\ file'[s] = file[s]
      /\ snap'[r].done = snap[r].done /\ snap'[r].count = snap[r].count
      /\ FileFreed(r, pending) =>
            /\ ~file'[r].live
            /\ snap'[r].status = "ERROR" /\ snap'[r].pending = snap[r].pending - 1
      /\ FileLeft(r, pending) => file'[r].live = file[r].live /\ snap'[r] = snap[r]
  BY <1>t, FailedEffect DEF FailsWith
<1>2. \A s \in Snap : s # r => Left(s)
  BY <1>c, <1>1 DEF Left
<1>3. CASE FileFreed(r, pending) /\ file[r].live
  <2>1. file[r].live /\ snap[r].pending = 1 /\ snap[r].status \in {"PREPARE", "WRITING"}
    BY <1>t, <1>3 DEF FileTells
  <2>2. FileTells(r)'
    BY <1>1, <1>3, <2>1 DEF FileTells
  <2>3. Phase(r) = "active" /\ Phase(r)' = "failed"
    BY <1>1, <1>3, <2>1, PhaseFacts DEF Phase
  <2>4. Copied(r)' = {}
    BY <2>3, NoneCopied
  <2>5. FileTellsSnap' /\ \A s \in Snap : s # r => Same(s)
    BY <1>2, <2>2, OneChanges
  <2> QED BY <1>1, <2>3, <2>4, <2>5, Fails DEF PromiseStep
<1>4. CASE FileLeft(r, pending)
  <2>1. FileTells(r)'
    BY <1>t, <1>1, <1>4 DEF FileTells
  <2>2. FileTellsSnap' /\ \A s \in Snap : s # r => Same(s)
    BY <1>2, <2>1, OneChanges
  <2>3. Same(r)
    <3>1. Phase(r)' = Phase(r)
      BY <1>1, <1>4 DEF Phase
    <3>2. \A x \in ChunksOf(r) : c_status'[x] = "WRITTEN" <=> c_status[x] = "WRITTEN"
      BY <1>c
    <3>3. Copied(r)' = Copied(r)
      BY <3>1, <3>2, CopiedSame
    <3> QED BY <1>1, <3>1, <3>3 DEF Same
  <2>4. UNCHANGED Promise!vars
    BY <2>2, <2>3, Unseen
  <2> QED BY <2>2, <2>4 DEF PromiseStep
<1> QED BY <1>3, <1>4

(* A chunk that comes back failed, and does not end its file again if that  *)
(* is gone already.                                                         *)
LEMMA ErrorKeeps ==
  ASSUME IInv, FileTellsSnap, WriterReceive, WriterError(Head(toWriter)),
         NEW c \in Chunk, c = Head(toWriter), NEW r \in Snap, r = Parent(c)
  PROVE  FileTellsSnap' /\ PromiseStep
<1> DEFINE aborted == IF file[r].status = "ERROR" THEN {} ELSE Unsent(r)
           pending == file[r].pending - 1
<1>t. /\ WriterTypeOK /\ ChunkTypeOK /\ c \in ChunksOf(r) /\ c_owner[c] = "READER"
      /\ FileTells(r) /\ file[r] \in FileRecord
  BY ReceivedChunk DEF IInv, TypeOK, FileTellsSnap, WriterTypeOK
<1>1. /\ c_status[c] = "ERROR" /\ FileFailed(r, Back(file[r]).pending)
      /\ c_status' = [x \in Chunk |-> IF x \in aborted THEN "ERROR" ELSE c_status[x]]
      /\ c_owner' = [c_owner EXCEPT ![c] = "WRITER"]
  BY DEF WriterError
<1>2. pending \in Int /\ FileFailed(r, pending) /\ Back(file[r]).pending = pending
  BY <1>t, <1>1 DEF FileRecord, Back
<1>3. \A x \in Chunk : x \in aborted => Parent(x) = r /\ c_status[x] # "WRITTEN"
  BY DEF Unsent, ChunksOf, Parent
<1>4. /\ c_owner'[c] = "WRITER" /\ c_status'[c] = "ERROR"
      /\ \A x \in Chunk : /\ c_status'[x] # c_status[x] =>
                               Parent(x) = r /\ c_status[x] # "WRITTEN" /\ c_status'[x] = "ERROR"
                          /\ c_owner'[x] # c_owner[x] => x = c
  <2> HIDE DEF aborted
  <2> QED BY <1>t, <1>1, <1>3 DEF ChunkTypeOK
<1>5. file[r].live \/ pending # 0
  BY <1>1, <1>2 DEF WriterReceive, EndsAgain
<1> HIDE DEF aborted, pending
<1>6. FileLeft(r, pending) \/ (FileFreed(r, pending) /\ file[r].live)
  BY <1>2, <1>5, FailedFile
<1>7. pending \in Int
  BY <1>2
<1> QED BY <1>t, <1>4, <1>6, <1>7, FailedKeeps

(* A chunk that cannot be mapped.                                           *)
LEMMA MapFailsKeeps ==
  ASSUME IInv, FileTellsSnap, WriterMapFails
  PROVE  FileTellsSnap' /\ PromiseStep
<1>t. ChunkTypeOK /\ InOnePlace /\ QueuedFile
  BY DEF IInv, TypeOK
<1>1. PICK c \in WriterChunkQ :
        /\ c_status' = [d \in Chunk |-> IF d \in Unsent(Parent(c)) THEN "ERROR" ELSE c_status[d]]
        /\ FileFreed(Parent(c), file[Parent(c)].pending) /\ c_owner' = c_owner
  BY DEF WriterMapFails
<1>p. ASSUME NEW s \in Snap PROVE file[s].pending \in Int
  BY DEF IInv, TypeOK, WriterTypeOK, FileRecord
<1>2. /\ c \in Chunk /\ Parent(c) \in Snap /\ c \in ChunksOf(Parent(c))
      /\ c_status[c] = "READY" /\ c_owner[c] = "WRITER" /\ file[Parent(c)].live
  BY <1>t, ParentOf DEF ChunkTypeOK, InOnePlace, QueuedFile
<1>3. \A x \in Chunk : x \in Unsent(Parent(c)) => Parent(x) = Parent(c) /\ c_status[x] # "WRITTEN"
  BY DEF Unsent, ChunksOf, Parent
<1>4. c_owner'[c] = "WRITER" /\ c_status'[c] = "ERROR"
  BY <1>1, <1>2 DEF Unsent
<1>5. \A x \in Chunk : /\ c_status'[x] # c_status[x] =>
                             Parent(x) = Parent(c) /\ c_status[x] # "WRITTEN" /\ c_status'[x] = "ERROR"
                       /\ c_owner'[x] # c_owner[x] => x = c
  BY <1>1, <1>3
<1> QED BY <1>1, <1>p, <1>2, <1>4, <1>5, FailedKeeps

(* Steps that the promise does not see, and that change no owner: a chunk   *)
(* gets its frame or comes back failed.                                     *)
LEMMA UnseenKeeps ==
  ASSUME FileTellsSnap, ChunkTypeOK, UNCHANGED snap,
         \A s \in Snap : file'[s].live = file[s].live,
         \A s \in Snap : ~file[s].live =>
            \A x \in ChunksOf(s) :
               /\ c_owner'[x] = c_owner[x]
               /\ c_owner[x] = "WRITER" => c_status'[x] = c_status[x],
         \A s \in Snap : \A x \in ChunksOf(s) : c_status'[x] = "WRITTEN" <=> c_status[x] = "WRITTEN"
  PROVE  FileTellsSnap' /\ PromiseStep
<1>1. \A s \in Snap : FileTells(s)'
  BY DEF FileTellsSnap, FileTells, WithReaderYet
<1>2. \A s \in Snap : Same(s)
  <2> SUFFICES ASSUME NEW s \in Snap PROVE Same(s)
    OBVIOUS
  <2>1. Phase(s)' = Phase(s)
    BY DEF Phase
  <2>2. Copied(s)' = Copied(s)
    BY <2>1, CopiedSame
  <2> QED BY <2>1, <2>2 DEF Same
<1>3. UNCHANGED Promise!vars
  BY <1>2, Unseen
<1> QED BY <1>1, <1>3 DEF FileTellsSnap, PromiseStep

(* A chunk gets its frame and goes to the READER.                           *)
LEMMA ServiceKeeps ==
  ASSUME IInv, FileTellsSnap, WriterService
  PROVE  FileTellsSnap' /\ PromiseStep
<1>t. WriterTypeOK /\ ChunkTypeOK /\ InOnePlace /\ QueuedFile
  BY DEF IInv, TypeOK
<1>1. PICK c \in WriterChunkQ :
        /\ c_status' = [c_status EXCEPT ![c] = "WAITING"]
        /\ c_owner' = [c_owner EXCEPT ![c] = "READER"]
        /\ file' = [file EXCEPT ![Parent(c)].pending = @ + 1]
  BY DEF WriterService
<1>2. /\ c \in Chunk /\ Parent(c) \in Snap /\ c \in ChunksOf(Parent(c))
      /\ c_status[c] = "READY" /\ file[Parent(c)].live
      /\ \A s \in Snap : c \in ChunksOf(s) => s = Parent(c)
      /\ \A s \in Snap : ChunksOf(s) \subseteq Chunk
  BY <1>t, ParentOf DEF ChunkTypeOK, InOnePlace, QueuedFile
<1>3. \A s \in Snap : /\ file'[s].live = file[s].live
                      /\ s # Parent(c) => file'[s] = file[s]
  BY <1>t, <1>1, <1>2 DEF WriterTypeOK, FileRecord
<1>4. \A x \in Chunk : x # c => c_status'[x] = c_status[x] /\ c_owner'[x] = c_owner[x]
  BY <1>t, <1>1, <1>2 DEF ChunkTypeOK
<1>5. c_status'[c] = "WAITING" /\ UNCHANGED snap
  BY <1>t, <1>1, <1>2 DEF ChunkTypeOK, WriterService
<1>6. \A s \in Snap : ~file[s].live =>
        \A x \in ChunksOf(s) :
           /\ c_owner'[x] = c_owner[x]
           /\ c_owner[x] = "WRITER" => c_status'[x] = c_status[x]
  BY <1>2, <1>3, <1>4
<1>7. \A s \in Snap : \A x \in ChunksOf(s) : c_status'[x] = "WRITTEN" <=> c_status[x] = "WRITTEN"
  BY <1>2, <1>4, <1>5
<1> QED BY <1>t, <1>3, <1>5, <1>6, <1>7, UnseenKeeps

(* A chunk that the READER gives back, whatever for.                        *)
LEMMA ReturnEffect ==
  ASSUME IInv, NEW c \in Chunk, NEW status, WithReader(c), Return(c, status)
  PROVE  /\ UNCHANGED <<snap, file, c_owner>>
         /\ c_owner[c] = "READER" /\ c_status[c] = "WAITING" /\ c_status'[c] = status
         /\ \A x \in Chunk : x # c => c_status'[x] = c_status[x]
         /\ ChunkTypeOK /\ \A s \in Snap : ChunksOf(s) \subseteq Chunk
BY ParentOf DEF IInv, TypeOK, ChunkTypeOK, InOnePlace, Return, writerVars

(* ... because its file is aborted: the promise does not see it.            *)
LEMMA ErrorReturnKeeps ==
  ASSUME IInv, FileTellsSnap, NEW c \in Chunk, WithReader(c), Return(c, "ERROR")
  PROVE  FileTellsSnap' /\ PromiseStep
<1>1. /\ UNCHANGED <<snap, file, c_owner>> /\ ChunkTypeOK
      /\ c_owner[c] = "READER" /\ c_status[c] = "WAITING" /\ c_status'[c] = "ERROR"
      /\ \A x \in Chunk : x # c => c_status'[x] = c_status[x]
      /\ \A s \in Snap : ChunksOf(s) \subseteq Chunk
  BY ReturnEffect
<1>2. \A s \in Snap : \A x \in ChunksOf(s) :
        /\ c_owner[x] = "WRITER" => c_status'[x] = c_status[x]
        /\ c_status'[x] = "WRITTEN" <=> c_status[x] = "WRITTEN"
  BY <1>1
<1> QED BY <1>1, <1>2, UnseenKeeps

(* ... because it is written: a part of the file in progress is copied,     *)
(* unless the snapshot has failed since.                                    *)
LEMMA WrittenReturnKeeps ==
  ASSUME IInv, FileTellsSnap, NEW c \in Chunk, WithReader(c), Return(c, "WRITTEN")
  PROVE  FileTellsSnap' /\ PromiseStep
<1>1. /\ UNCHANGED <<snap, file, c_owner>> /\ ChunkTypeOK
      /\ c_owner[c] = "READER" /\ c_status[c] = "WAITING" /\ c_status'[c] = "WRITTEN"
      /\ \A x \in Chunk : x # c => c_status'[x] = c_status[x]
      /\ \A s \in Snap : ChunksOf(s) \subseteq Chunk
  BY ReturnEffect
<1>2. PICK r \in Snap, i \in 1 .. NChunk : c = <<r, i>>
  BY DEF Chunk
<1>3. \A s \in Snap : \A j \in 1 .. NChunk :
        /\ <<s, j>> \in Chunk
        /\ c_status'[<<s, j>>] = "WRITTEN" <=> c_status[<<s, j>>] = "WRITTEN" \/ <<s, j>> = c
  BY <1>1 DEF Chunk
<1>4. \A s \in Snap : FileTells(s)'
  BY <1>1 DEF FileTellsSnap, FileTells, WithReaderYet
<1>5. \A s \in Snap : s # r => Same(s)
  <2> SUFFICES ASSUME NEW s \in Snap, s # r PROVE Same(s)
    OBVIOUS
  <2>1. \A x \in ChunksOf(s) : c_status'[x] = c_status[x]
    BY <1>1, <1>2 DEF ChunksOf
  <2>2. Phase(s)' = Phase(s)
    BY <1>1 DEF Phase
  <2>3. Copied(s)' = Copied(s)
    BY <2>1, <2>2, CopiedSame
  <2> QED BY <1>1, <2>2, <2>3 DEF Same
<1>6. Phase(r)' = Phase(r) /\ snap'[r] = snap[r]
  BY <1>1 DEF Phase
<1>7. CASE Phase(r) = "active"
  <2>1. i \notin Copied(r)
    BY <1>1, <1>2 DEF Copied
  <2>2. Copied(r)' = Copied(r) \cup {i}
    BY <1>2, <1>3, <1>6, <1>7 DEF Copied
  <2> QED BY <1>4, <1>5, <1>6, <1>7, <2>1, <2>2, CopiesPart DEF PromiseStep, FileTellsSnap
<1>8. CASE Phase(r) # "active"
  <2>1. Copied(r)' = Copied(r)
    BY <1>6, <1>8 DEF Copied
  <2>2. \A s \in Snap : Same(s)
    BY <1>5, <1>6, <2>1 DEF Same
  <2> QED BY <1>4, <2>2, Unseen DEF PromiseStep, FileTellsSnap
<1> QED BY <1>7, <1>8

(* The READER's steps that move a chunk, or look whether there is one.      *)
LEMMA ReturnStepsKeep ==
  ASSUME IInv, FileTellsSnap, ReaderComplete \/ ReaderAbortSibling \/ ReaderAborted
  PROVE  FileTellsSnap' /\ PromiseStep
<1>t. ChunkTypeOK /\ FileTellsSnap
  BY DEF IInv, TypeOK
<1>1. \/ \E c \in Chunk : WithReader(c) /\ (Return(c, "WRITTEN") \/ Return(c, "ERROR"))
      \/ UNCHANGED <<snap, file, c_status, c_owner>>
  <2>1. ReaderComplete => \/ \E c \in ReaderChunkQ : Return(c, "WRITTEN")
                          \/ UNCHANGED <<snap, file, c_status, c_owner>>
    BY DEF ReaderComplete, chunkVars, writerVars
  <2>2. ReaderAbortSibling => \E c \in ReaderChunkQ : Return(c, "ERROR")
    BY DEF ReaderAbortSibling
  <2>3. ReaderAborted => \/ held # None /\ Return(held, "ERROR")
                         \/ UNCHANGED <<snap, file, c_status, c_owner>>
    BY DEF ReaderAborted, chunkVars, writerVars
  <2>4. \A c \in ReaderChunkQ : c \in Chunk /\ WithReader(c)
    BY <1>t DEF ChunkTypeOK, WithReader
  <2>5. held # None => held \in Chunk /\ WithReader(held)
    BY <1>t DEF ChunkTypeOK, WithReader
  <2> QED BY <2>1, <2>2, <2>3, <2>4, <2>5
<1>2. CASE UNCHANGED <<snap, file, c_status, c_owner>>
  BY <1>t, <1>2, UnseenKeeps
<1> QED BY <1>1, <1>2, ErrorReturnKeeps, WrittenReturnKeeps

(* The other steps change nothing that the promise or its files know of.    *)
LEMMA QuietStepsKeep ==
  ASSUME IInv, FileTellsSnap,
         \/ WriterPoll \/ WriterServed \/ WriterEndsAgain \/ FreedIsReused
         \/ TidyRelease \/ ReaderReceive
         \/ \E n \in 1 .. MaxBatch : ReaderCollect(n)
         \/ ReaderPurge \/ ReaderPoll \/ ReaderStop \/ ReaderDrain
         \/ ReaderParam \/ ReaderInit \/ ReaderGo \/ UNCHANGED vars
  PROVE  FileTellsSnap' /\ PromiseStep
<1>1. UNCHANGED <<snap, file, c_status, c_owner>>
  BY DEF WriterPoll, WriterServed, WriterEndsAgain, FreedIsReused, TidyRelease,
         ReaderReceive, ReaderCollect, ReaderPurge, ReaderPoll, ReaderStop, ReaderDrain, ReaderParam, ReaderInit, ReaderGo, vars,
         writerVars, chunkVars
<1>2. ChunkTypeOK
  BY DEF IInv, TypeOK
<1> QED BY <1>1, <1>2, UnseenKeeps

(* Every step of the program is one of the promise, or none.                *)
LEMMA NextKeeps ==
  ASSUME IInv, FileTellsSnap, [Next]_vars
  PROVE  FileTellsSnap' /\ PromiseStep
<1>1. CASE \E s \in Snap, first \in Start, n \in Count : SnapCommand(s, first, n)
  BY <1>1, SnapKeeps
<1>2. CASE WriterReceive
  <2>1. PICK c \in Chunk : c = Head(toWriter)
    BY <1>2, ReceivedChunk
  <2>2. PICK r \in Snap : r = Parent(c)
    BY <2>1, ParentOf
  <2>3. WriterWritten(Head(toWriter)) \/ WriterError(Head(toWriter))
    BY <1>2 DEF WriterReceive
  <2> QED BY <1>2, <2>1, <2>2, <2>3, WrittenKeeps, ErrorKeeps
<1>3. CASE WriterService
  BY <1>3, ServiceKeeps
<1>4. CASE WriterMapFails
  BY <1>4, MapFailsKeeps
<1>5. CASE ReaderComplete \/ ReaderAbortSibling \/ ReaderAborted
  BY <1>5, ReturnStepsKeep
<1>6. CASE \/ WriterPoll \/ WriterServed \/ WriterEndsAgain \/ FreedIsReused
           \/ TidyRelease \/ ReaderReceive
           \/ \E n \in 1 .. MaxBatch : ReaderCollect(n)
           \/ ReaderPurge \/ ReaderPoll \/ ReaderStop \/ ReaderDrain
           \/ ReaderParam \/ ReaderInit \/ ReaderGo \/ UNCHANGED vars
  BY <1>6, QuietStepsKeep
<1> QED BY <1>1, <1>2, <1>3, <1>4, <1>5, <1>6 DEF Next, Writer, Reader

LEMMA InitKeeps == Init => FileTellsSnap /\ Promise!Init
<1> SUFFICES ASSUME Init PROVE FileTellsSnap /\ Promise!Init
  OBVIOUS
<1>1. \A s \in Snap : /\ snap[s].status = "INIT" /\ snap[s].done = 0 /\ snap[s].count = 0
                      /\ snap[s].pending = 0 /\ ~file[s].live
                      /\ \A c \in ChunksOf(s) : c_owner[c] = "WRITER"
  BY DEF Init, ChunksOf, Chunk
<1>2. FileTellsSnap
  BY <1>1 DEF FileTellsSnap, FileTells, WithReaderYet
<1>3. \A s \in Snap : Phase(s) = "none" /\ Copied(s) = {}
  BY <1>1, PhaseFacts DEF Phase, Copied
<1> QED BY <1>1, <1>2, <1>3 DEF Promise!Init
-----------------------------------------------------------------------------
(***************************************************************************)
(* The files in progress.                                                  *)
(***************************************************************************)
Live == {s \in Snap : file[s].live}
FilesCounted == wp_nfiles = Cardinality(Live)

(* At most the file of r begins or ends, and wp_nfiles goes with it.         *)
CountedAt(r) ==
  /\ \A s \in Snap : s # r => (file'[s].live <=> file[s].live)
  /\ \/ (file'[r].live <=> file[r].live) /\ wp_nfiles' = wp_nfiles
     \/ ~file[r].live /\ file'[r].live /\ wp_nfiles' = wp_nfiles + 1
     \/ file[r].live /\ ~file'[r].live /\ wp_nfiles' = wp_nfiles - 1

LEMMA CountGoesOn ==
  ASSUME FilesCounted, NEW r \in Snap, CountedAt(r)
  PROVE  FilesCounted'
<1>1. IsFiniteSet(Snap)
  BY ConstantsAssumption
<1>2. IsFiniteSet(Live)
  BY <1>1, FS_Subset DEF Live
<1>3. CASE (file'[r].live <=> file[r].live) /\ wp_nfiles' = wp_nfiles
  <2>1. Live' = Live
    BY <1>3 DEF CountedAt, Live
  <2> QED BY <1>3, <2>1 DEF FilesCounted
<1>4. CASE ~file[r].live /\ file'[r].live /\ wp_nfiles' = wp_nfiles + 1
  <2>1. Live' = Live \cup {r} /\ r \notin Live
    BY <1>4 DEF CountedAt, Live
  <2>2. Cardinality(Live \cup {r}) = Cardinality(Live) + 1
    BY <1>2, <2>1, FS_AddElement
  <2> QED BY <1>4, <2>1, <2>2 DEF FilesCounted
<1>5. CASE file[r].live /\ ~file'[r].live /\ wp_nfiles' = wp_nfiles - 1
  <2>1. Live' = Live \ {r} /\ r \in Live
    BY <1>5 DEF CountedAt, Live
  <2>2. Cardinality(Live \ {r}) = Cardinality(Live) - 1
    BY <1>2, <2>1, FS_RemoveElement
  <2> QED BY <1>5, <2>1, <2>2 DEF FilesCounted
<1> QED BY <1>3, <1>4, <1>5 DEF CountedAt

(* A file may end because of a chunk of it that comes back written only if  *)
(* it is still there.                                                       *)
LEMMA LastOneIsLive ==
  ASSUME IInv, FileTellsSnap, NEW c \in Chunk, c_owner[c] = "READER", c_status[c] = "WRITTEN",
         file[Parent(c)].written + 1 = NChunk
  PROVE  file[Parent(c)].live
<1>1. Parent(c) \in Snap /\ c \in ChunksOf(Parent(c))
  BY ParentOf
<1>2. \A x \in ChunksOf(Parent(c)) : c_status[x] = "WRITTEN"
  BY LastOneWritten
<1> QED BY <1>1, <1>2 DEF FileTellsSnap, FileTells, WithReaderYet

LEMMA SetupCounts ==
  ASSUME IInv, NEW r \in Snap, NEW d \in SnapRecord, NEW nfiles, NEW totxfr,
         SetupSnapshot(r, d, nfiles, totxfr),
         nfiles = IF file[r].live THEN wp_nfiles - 1 ELSE wp_nfiles
  PROVE  CountedAt(r)
<1>1. WriterTypeOK /\ ChunkTypeOK /\ wp_nfiles \in Int
  BY DEF IInv, TypeOK, WriterTypeOK
<1>2. \/ file'[r].live /\ wp_nfiles' = nfiles + 1 /\ \A s \in Snap : s # r => file'[s] = file[s]
      \/ ~file'[r].live /\ wp_nfiles' = nfiles /\ \A s \in Snap : s # r => file'[s] = file[s]
  BY <1>1, SetupEffect
<1> QED BY <1>1, <1>2 DEF CountedAt

LEMMA FailedCounts ==
  ASSUME IInv, NEW r \in Snap, NEW pending \in Int,
         FileLeft(r, pending) \/ (FileFreed(r, pending) /\ file[r].live)
  PROVE  CountedAt(r)
<1>1. WriterTypeOK
  BY DEF IInv, TypeOK
<1> QED BY <1>1, FailedEffect DEF CountedAt, FailsWith

LEMMA ReceiveCounts ==
  ASSUME IInv, FileTellsSnap, WriterReceive
  PROVE  \E r \in Snap : CountedAt(r)
<1>1. PICK c \in Chunk : c = Head(toWriter) /\ c_owner[c] = "READER"
  BY ReceivedChunk
<1>2. PICK r \in Snap : r = Parent(c) /\ c \in ChunksOf(r)
  BY ParentOf
<1>t. /\ WriterTypeOK /\ file[r] \in FileRecord /\ snap[r] \in SnapRecord /\ wp_nfiles \in Int
      /\ FileTells(r) /\ WithReaderYet(r)
  BY <1>1, <1>2 DEF IInv, TypeOK, WriterTypeOK, FileTellsSnap, WithReaderYet
<1>3. CASE WriterWritten(c)
  <2> DEFINE b == Back(file[r])
             f == [b EXCEPT !.written = @ + 1]
             d == [snap[r] EXCEPT !.status = "WRITING", !.done = snap[r].done + 1,
                                  !.pending = snap[r].pending - 1]
  <2>1. f.written = file[r].written + 1 /\ f.live = file[r].live
    <3>1. b.written = file[r].written /\ b.live = file[r].live /\ b \in FileRecord
      BY <1>t DEF FileRecord, Back
    <3> HIDE DEF b
    <3> QED BY <3>1 DEF FileRecord
  <2>2. d \in SnapRecord
    <3>1. snap[r].done + 1 \in Nat /\ snap[r].pending - 1 \in Int
      BY <1>t DEF SnapRecord
    <3> QED BY <1>t, <3>1 DEF SnapRecord, SnapStatus
  <2>3. CASE AllWritten(f) /\ FileWritten(r, wp_totxfr + Samples(c))
    <3>1. file[r].live
      BY <1>1, <1>2, <1>3, <2>1, <2>3, LastOneIsLive DEF AllWritten, WriterWritten
    <3>2. CASE SetupSnapshot(r, d, wp_nfiles - 1, wp_totxfr + Samples(c))
      <4> HIDE DEF d
      <4> QED BY <2>2, <3>1, <3>2, SetupCounts
    <3>3. CASE file' = [file EXCEPT ![r].live = FALSE] /\ wp_nfiles' = wp_nfiles - 1
      BY <1>t, <3>1, <3>3 DEF CountedAt, WriterTypeOK, FileRecord
    <3> QED BY <2>3, <3>2, <3>3 DEF FileWritten
  <2>4. CASE file' = [file EXCEPT ![r] = f] /\ wp_nfiles' = wp_nfiles
    <3> HIDE DEF f
    <3> QED BY <1>t, <2>1, <2>4 DEF CountedAt, WriterTypeOK
  <2> QED BY <1>2, <1>3, <2>3, <2>4 DEF WriterWritten
<1>4. CASE WriterError(c)
  <2>1. PICK p \in Int : p = file[r].pending - 1 /\ FileFailed(r, p)
    BY <1>t, <1>2, <1>4 DEF WriterError, FileRecord, Back
  <2>2. file[r].live \/ p # 0
    BY <1>t, <1>1, <1>2, <1>4, <2>1 DEF WriterReceive, WriterError, EndsAgain, FileRecord, Back
  <2>3. FileLeft(r, p) \/ (FileFreed(r, p) /\ file[r].live)
    BY <2>1, <2>2, FailedFile
  <2> QED BY <2>3, FailedCounts
<1> QED BY <1>1, <1>3, <1>4 DEF WriterReceive

(* Every step keeps the count of the files in progress.                     *)
LEMMA NextCounts ==
  ASSUME IInv, FileTellsSnap, FilesCounted, [Next]_vars
  PROVE  FilesCounted'
<1>t. WriterTypeOK /\ InOnePlace /\ QueuedFile
  BY DEF IInv, TypeOK
<1>1. CASE \E s \in Snap, first \in Start, n \in Count : SnapCommand(s, first, n)
  <2>1. PICK r \in Snap, first \in Start, n \in Count : SnapCommand(r, first, n)
    BY <1>1
  <2> DEFINE d == [status |-> "PREPARE", first |-> first, done |-> 0, pending |-> 0, count |-> n]
  <2>2. d \in SnapRecord
    BY ConstantsAssumption DEF SnapRecord, SnapStatus
  <2>3. ~file[r].live
    BY <2>1 DEF SnapCommand, FileTellsSnap, FileTells
  <2>4. CASE SetupSnapshot(r, d, wp_nfiles, wp_totxfr)
    <3> HIDE DEF d
    <3> QED BY <2>2, <2>3, <2>4, SetupCounts, CountGoesOn
  <2>5. CASE UNCHANGED <<file, wp_nfiles>>
    BY <2>5, CountGoesOn DEF CountedAt
  <2> QED BY <2>1, <2>4, <2>5 DEF SnapCommand
<1>2. CASE WriterReceive
  BY <1>2, ReceiveCounts, CountGoesOn
<1>3. CASE WriterMapFails
  <2>1. PICK c \in WriterChunkQ : FileFreed(Parent(c), file[Parent(c)].pending)
    BY <1>3 DEF WriterMapFails
  <2>2. Parent(c) \in Snap /\ file[Parent(c)].live
    BY <1>t, ParentOf DEF QueuedFile, IInv, TypeOK, ChunkTypeOK
  <2>3. file[Parent(c)].pending \in Int
    BY <1>t, <2>2 DEF WriterTypeOK, FileRecord
  <2> QED BY <2>1, <2>2, <2>3, FailedCounts, CountGoesOn
<1>4. CASE WriterService
  <2>1. PICK c \in WriterChunkQ : file' = [file EXCEPT ![Parent(c)].pending = @ + 1]
    BY <1>4 DEF WriterService
  <2>2. Parent(c) \in Snap /\ wp_nfiles' = wp_nfiles
    BY <1>4, ParentOf DEF WriterService, IInv, TypeOK, ChunkTypeOK
  <2>3. \A s \in Snap : file'[s].live = file[s].live
    BY <1>t, <2>1, <2>2 DEF WriterTypeOK, FileRecord
  <2> QED BY <2>2, <2>3, CountGoesOn DEF CountedAt
<1>5. CASE UNCHANGED <<file, wp_nfiles>>
  BY <1>5 DEF FilesCounted, Live
<1>6. ASSUME \/ Reader \/ TidyRelease \/ WriterPoll \/ WriterServed \/ WriterEndsAgain
             \/ FreedIsReused \/ UNCHANGED vars
      PROVE  UNCHANGED <<file, wp_nfiles>>
  BY <1>6
     DEF Reader, WriterPoll, WriterServed, WriterEndsAgain, FreedIsReused, TidyRelease,
         ReaderReceive, ReaderCollect, ReaderPurge, ReaderPoll, ReaderStop, ReaderDrain, ReaderParam, ReaderInit, ReaderGo,
         ReaderComplete, ReaderAbortSibling, ReaderAborted, Return, vars, writerVars
<1>7. \/ \E s \in Snap, first \in Start, n \in Count : SnapCommand(s, first, n)
      \/ WriterReceive \/ WriterMapFails \/ WriterService
      \/ Reader \/ TidyRelease \/ WriterPoll \/ WriterServed \/ WriterEndsAgain
      \/ FreedIsReused \/ UNCHANGED vars
  BY Zenon DEF Next, Writer
<1> QED BY <1>1, <1>2, <1>3, <1>4, <1>5, <1>6, <1>7
-----------------------------------------------------------------------------
(***************************************************************************)
(* The chunks of a file that the READER has.                               *)
(***************************************************************************)
Outstanding(s) == {c \in ChunksOf(s) : c_owner[c] = "READER"}
PendingAt(s) ==
  file[s].live \/ Outstanding(s) # {} => file[s].pending = Cardinality(Outstanding(s))

(* One chunk goes to the READER or comes back, or nothing changes, or the   *)
(* READER has none any more.                                                *)
LEMMA PendingGoesOn ==
  ASSUME IInv, NEW s \in Snap, PendingAt(s),
         \/ /\ file'[s].live => file[s].live
            /\ file'[s].pending = file[s].pending
            /\ Outstanding(s)' = Outstanding(s)
         \/ /\ file[s].live
            /\ file'[s].pending = file[s].pending + 1
            /\ \E c : c \notin Outstanding(s) /\ Outstanding(s)' = Outstanding(s) \cup {c}
         \/ /\ file'[s].pending = file[s].pending - 1
            /\ \E c \in Outstanding(s) : Outstanding(s)' = Outstanding(s) \ {c}
         \/ /\ file'[s].live => file'[s].pending = 0
            /\ Outstanding(s)' = {}
  PROVE  PendingAt(s)'
<1>1. IsFiniteSet(Outstanding(s))
  BY ChunksOfCardinality, FS_Subset DEF Outstanding
<1>2. /\ \A c : c \notin Outstanding(s) =>
                  Cardinality(Outstanding(s) \cup {c}) = Cardinality(Outstanding(s)) + 1
      /\ \A c \in Outstanding(s) :
           Cardinality(Outstanding(s) \ {c}) = Cardinality(Outstanding(s)) - 1
  BY <1>1, FS_AddElement, FS_RemoveElement
<1>3. Cardinality({}) = 0
  BY FS_EmptySet
<1> QED BY <1>2, <1>3 DEF PendingAt

LEMMA LeftPending ==
  ASSUME IInv, NEW s \in Snap, PendingAt(s), Left(s)
  PROVE  PendingAt(s)'
<1>1. Outstanding(s)' = Outstanding(s)
  BY DEF Outstanding, Left
<1> QED BY <1>1, PendingGoesOn DEF Left

LEMMA SetupPending ==
  ASSUME IInv, \A s \in Snap : PendingAt(s),
         NEW r \in Snap, NEW d \in SnapRecord, NEW nfiles, NEW totxfr,
         SetupSnapshot(r, d, nfiles, totxfr)
  PROVE  \A s \in Snap : PendingAt(s)'
<1>1. WriterTypeOK /\ ChunkTypeOK
  BY DEF IInv, TypeOK
<1>2. /\ \A s \in Snap : s # r => Left(s)
      /\ file'[r].live => file'[r].pending = 0
      /\ \A c \in ChunksOf(r) : c_owner'[c] = "WRITER"
  BY <1>1, SetupEffect
<1>3. Outstanding(r)' = {}
  BY <1>2 DEF Outstanding
<1> QED BY <1>2, <1>3, LeftPending, PendingGoesOn

LEMMA ReceivePending ==
  ASSUME IInv, \A s \in Snap : PendingAt(s), WriterReceive
  PROVE  \A s \in Snap : PendingAt(s)'
<1>1. PICK c \in Chunk : c = Head(toWriter) /\ c_owner[c] = "READER"
  BY ReceivedChunk
<1>2. PICK r \in Snap : r = Parent(c) /\ c \in ChunksOf(r)
  BY ParentOf
<1>t. /\ WriterTypeOK /\ ChunkTypeOK /\ file[r] \in FileRecord /\ snap[r] \in SnapRecord
      /\ \A s \in Snap : \A x \in ChunksOf(s) : x \in Chunk /\ Parent(x) = s
  BY DEF IInv, TypeOK, WriterTypeOK, Chunk, ChunksOf, Parent
<1>o. ASSUME c_owner' = [c_owner EXCEPT ![c] = "WRITER"],
             \A s \in Snap : s # r => file'[s] = file[s],
             file'[r].pending = file[r].pending - 1
      PROVE  \A s \in Snap : PendingAt(s)'
  <2>1. \A x \in Chunk : c_owner'[x] = IF x = c THEN "WRITER" ELSE c_owner[x]
    BY <1>o, <1>t DEF ChunkTypeOK
  <2>2. c \in Outstanding(r) /\ Outstanding(r)' = Outstanding(r) \ {c}
    BY <1>1, <1>2, <1>t, <2>1 DEF Outstanding
  <2>3. \A s \in Snap : s # r => Outstanding(s)' = Outstanding(s)
    BY <1>2, <1>t, <2>1 DEF Outstanding
  <2>4. PendingAt(r)'
    BY <1>o, <2>2, PendingGoesOn
  <2>5. \A s \in Snap : s # r => PendingAt(s)'
    BY <1>o, <2>3, PendingGoesOn
  <2> QED BY <2>4, <2>5
<1>3. CASE WriterWritten(c)
  <2> DEFINE b == Back(file[r])
             f == [b EXCEPT !.written = @ + 1]
             d == [snap[r] EXCEPT !.status = "WRITING", !.done = snap[r].done + 1,
                                  !.pending = snap[r].pending - 1]
  <2>1. f.live = file[r].live /\ f.pending = file[r].pending - 1
    <3>1. b.live = file[r].live /\ b.pending = file[r].pending - 1 /\ b \in FileRecord
      BY <1>t DEF FileRecord, Back
    <3> HIDE DEF b
    <3> QED BY <3>1 DEF FileRecord
  <2>2. d \in SnapRecord
    <3>1. snap[r].done + 1 \in Nat /\ snap[r].pending - 1 \in Int
      BY <1>t DEF SnapRecord
    <3> QED BY <1>t, <3>1 DEF SnapRecord, SnapStatus
  <2>3. CASE SetupSnapshot(r, d, wp_nfiles - 1, wp_totxfr + Samples(c))
    <3> HIDE DEF d
    <3> QED BY <2>2, <2>3, SetupPending
  <2>4. CASE /\ file' = [file EXCEPT ![r].live = FALSE]
             /\ c_owner' = [x \in Chunk |-> IF Parent(x) = r THEN "WRITER" ELSE c_owner[x]]
    <3>1. ~file'[r].live /\ \A s \in Snap : s # r => file'[s] = file[s]
      BY <1>t, <2>4 DEF WriterTypeOK, FileRecord
    <3>2. \A s \in Snap : s # r => Outstanding(s)' = Outstanding(s)
      BY <1>t, <2>4 DEF Outstanding
    <3>3. Outstanding(r)' = {}
      BY <1>t, <2>4 DEF Outstanding
    <3> QED BY <3>1, <3>2, <3>3, PendingGoesOn
  <2>5. CASE file' = [file EXCEPT ![r] = f] /\ c_owner' = [c_owner EXCEPT ![c] = "WRITER"]
    <3> HIDE DEF f
    <3>1. file'[r] = f /\ \A s \in Snap : s # r => file'[s] = file[s]
      BY <1>t, <2>5 DEF WriterTypeOK
    <3> QED BY <1>o, <2>1, <2>5, <3>1
  <2> QED BY <1>2, <1>3, <2>3, <2>4, <2>5 DEF WriterWritten, FileWritten
<1>4. CASE WriterError(c)
  <2>1. PICK p \in Int : p = file[r].pending - 1 /\ FileFailed(r, p)
    BY <1>t, <1>2, <1>4 DEF WriterError, FileRecord, Back
  <2>2. /\ \A s \in Snap : s # r => file'[s] = file[s]
        /\ file'[r].pending = file[r].pending - 1
    BY <1>t, <2>1, FailedFile, FailedEffect
  <2>3. c_owner' = [c_owner EXCEPT ![c] = "WRITER"]
    BY <1>4 DEF WriterError
  <2> QED BY <1>o, <2>2, <2>3
<1> QED BY <1>1, <1>3, <1>4 DEF WriterReceive

LEMMA NextPending ==
  ASSUME IInv, \A s \in Snap : PendingAt(s), [Next]_vars
  PROVE  \A s \in Snap : PendingAt(s)'
<1>t. WriterTypeOK /\ ChunkTypeOK /\ InOnePlace /\ QueuedFile
  BY DEF IInv, TypeOK
<1>1. CASE \E s \in Snap, first \in Start, n \in Count : SnapCommand(s, first, n)
  <2>1. PICK r \in Snap, first \in Start, n \in Count : SnapCommand(r, first, n)
    BY <1>1
  <2> DEFINE d == [status |-> "PREPARE", first |-> first, done |-> 0, pending |-> 0, count |-> n]
  <2>2. d \in SnapRecord
    BY ConstantsAssumption DEF SnapRecord, SnapStatus
  <2>3. CASE SetupSnapshot(r, d, wp_nfiles, wp_totxfr)
    <3> HIDE DEF d
    <3> QED BY <2>2, <2>3, SetupPending
  <2>4. CASE UNCHANGED <<file, c_owner>>
    BY <2>4, PendingGoesOn DEF Outstanding
  <2> QED BY <2>1, <2>3, <2>4 DEF SnapCommand, chunkVars
<1>2. CASE WriterReceive
  BY <1>2, ReceivePending
<1>3. CASE WriterMapFails
  <2>1. PICK c \in WriterChunkQ : FileFreed(Parent(c), file[Parent(c)].pending)
    BY <1>3 DEF WriterMapFails
  <2>2. Parent(c) \in Snap /\ c_owner' = c_owner
    BY <1>3, <1>t, ParentOf DEF WriterMapFails, ChunkTypeOK
  <2>p. file[Parent(c)].pending \in Int
    BY <1>t, <2>2 DEF WriterTypeOK, FileRecord
  <2>3. /\ ~file'[Parent(c)].live /\ file'[Parent(c)].pending = file[Parent(c)].pending
        /\ \A s \in Snap : s # Parent(c) => file'[s] = file[s]
    BY <1>t, <2>1, <2>2, <2>p, FailedEffect DEF FailsWith
  <2>4. \A s \in Snap : Outstanding(s)' = Outstanding(s)
    BY <2>2 DEF Outstanding
  <2> QED BY <2>2, <2>3, <2>4, PendingGoesOn
<1>4. CASE WriterService
  <2>1. PICK c \in WriterChunkQ : /\ file' = [file EXCEPT ![Parent(c)].pending = @ + 1]
                                  /\ c_owner' = [c_owner EXCEPT ![c] = "READER"]
    BY <1>4 DEF WriterService
  <2>2. /\ Parent(c) \in Snap /\ c \in Chunk /\ c_owner[c] = "WRITER" /\ c \in ChunksOf(Parent(c))
        /\ file[Parent(c)].live
        /\ \A s \in Snap : \A x \in ChunksOf(s) : x \in Chunk /\ Parent(x) = s
    BY <1>t, ParentOf DEF ChunkTypeOK, InOnePlace, QueuedFile
  <2>3. /\ file'[Parent(c)].pending = file[Parent(c)].pending + 1
        /\ \A s \in Snap : /\ file'[s].live = file[s].live
                           /\ s # Parent(c) => file'[s] = file[s]
    BY <1>t, <2>1, <2>2 DEF WriterTypeOK, FileRecord
  <2>4. \A x \in Chunk : c_owner'[x] = IF x = c THEN "READER" ELSE c_owner[x]
    BY <1>t, <2>1, <2>2 DEF ChunkTypeOK
  <2>5. c \notin Outstanding(Parent(c))
        /\ Outstanding(Parent(c))' = Outstanding(Parent(c)) \cup {c}
    BY <2>2, <2>4 DEF Outstanding
  <2>6. \A s \in Snap : s # Parent(c) => Outstanding(s)' = Outstanding(s)
    BY <2>2, <2>4 DEF Outstanding
  <2>7. PendingAt(Parent(c))'
    BY <2>2, <2>3, <2>5, PendingGoesOn
  <2>8. \A s \in Snap : s # Parent(c) => PendingAt(s)'
    BY <2>3, <2>6, PendingGoesOn
  <2> QED BY <2>7, <2>8
<1>5. CASE UNCHANGED <<file, c_owner>>
  BY <1>5, PendingGoesOn DEF Outstanding
<1>6. ASSUME \/ Reader \/ TidyRelease \/ WriterPoll \/ WriterServed \/ WriterEndsAgain
             \/ FreedIsReused \/ UNCHANGED vars
      PROVE  UNCHANGED <<file, c_owner>>
  BY <1>6
     DEF Reader, WriterPoll, WriterServed, WriterEndsAgain, FreedIsReused, TidyRelease,
         ReaderReceive, ReaderCollect, ReaderPurge, ReaderPoll, ReaderStop, ReaderDrain, ReaderParam, ReaderInit, ReaderGo,
         ReaderComplete, ReaderAbortSibling, ReaderAborted, Return, vars, writerVars, chunkVars
<1>7. \/ \E s \in Snap, first \in Start, n \in Count : SnapCommand(s, first, n)
      \/ WriterReceive \/ WriterMapFails \/ WriterService
      \/ Reader \/ TidyRelease \/ WriterPoll \/ WriterServed \/ WriterEndsAgain
      \/ FreedIsReused \/ UNCHANGED vars
  BY Zenon DEF Next, Writer
<1> QED BY <1>1, <1>2, <1>3, <1>4, <1>5, <1>6, <1>7
-----------------------------------------------------------------------------
(***************************************************************************)
(* Files that are gone, and the chunks of them that the READER still has.  *)
(***************************************************************************)

(* A step leaves the file of s there, leaves READER with no chunk of s, or  *)
(* is nothing to s but that some of its chunks may be back.                 *)
Tidily(s) ==
  \/ file'[s].live
  \/ Outstanding(s)' = {}
  \/ file'[s].live = file[s].live /\ Outstanding(s)' \subseteq Outstanding(s)

LEMMA LeftTidily ==
  ASSUME NEW s \in Snap, Left(s)
  PROVE  Tidily(s)
BY DEF Left, Tidily, Outstanding

LEMMA SetupTidily ==
  ASSUME IInv, NEW r \in Snap, NEW d \in SnapRecord, NEW nfiles, NEW totxfr,
         SetupSnapshot(r, d, nfiles, totxfr), NEW s \in Snap
  PROVE  Tidily(s)
<1>1. WriterTypeOK /\ ChunkTypeOK
  BY DEF IInv, TypeOK
<1>2. /\ s # r => Left(s)
      /\ \A c \in ChunksOf(r) : c_owner'[c] = "WRITER"
  BY <1>1, SetupEffect
<1>3. CASE s = r
  BY <1>2, <1>3 DEF Tidily, Outstanding
<1>4. CASE s # r
  BY <1>2, <1>4, LeftTidily
<1> QED BY <1>3, <1>4

(* A chunk that comes back: its file may end when it is the last one.       *)
LEMMA ReceiveTidily ==
  ASSUME IInv, \A s \in Snap : PendingAt(s), WriterReceive, NEW s \in Snap
  PROVE  Tidily(s)
<1>1. PICK c \in Chunk : c = Head(toWriter) /\ c_owner[c] = "READER"
  BY ReceivedChunk
<1>2. PICK r \in Snap : r = Parent(c) /\ c \in ChunksOf(r)
  BY ParentOf
<1>t. /\ WriterTypeOK /\ ChunkTypeOK /\ file[r] \in FileRecord /\ snap[r] \in SnapRecord
      /\ \A x \in ChunksOf(s) : x \in Chunk /\ Parent(x) = s
  BY DEF IInv, TypeOK, WriterTypeOK, Chunk, ChunksOf, Parent
<1>o. ASSUME c_owner' = [c_owner EXCEPT ![c] = "WRITER"]
      PROVE  Outstanding(s)' \subseteq Outstanding(s)
  BY <1>o, <1>t DEF ChunkTypeOK, Outstanding
<1>3. CASE WriterWritten(c)
  <2> DEFINE b == Back(file[r])
             f == [b EXCEPT !.written = @ + 1]
             d == [snap[r] EXCEPT !.status = "WRITING", !.done = snap[r].done + 1,
                                  !.pending = snap[r].pending - 1]
  <2>1. f.live = file[r].live
    <3>1. b.live = file[r].live /\ b \in FileRecord
      BY <1>t DEF FileRecord, Back
    <3> HIDE DEF b
    <3> QED BY <3>1 DEF FileRecord
  <2>2. d \in SnapRecord
    <3>1. snap[r].done + 1 \in Nat /\ snap[r].pending - 1 \in Int
      BY <1>t DEF SnapRecord
    <3> QED BY <1>t, <3>1 DEF SnapRecord, SnapStatus
  <2>3. CASE SetupSnapshot(r, d, wp_nfiles - 1, wp_totxfr + Samples(c))
    <3> HIDE DEF d
    <3> QED BY <2>2, <2>3, SetupTidily
  <2>4. CASE /\ file' = [file EXCEPT ![r].live = FALSE]
             /\ c_owner' = [x \in Chunk |-> IF Parent(x) = r THEN "WRITER" ELSE c_owner[x]]
    <3>1. CASE s = r
      BY <1>t, <2>4, <3>1 DEF Tidily, Outstanding
    <3>2. CASE s # r
      <4>1. file'[s] = file[s]
        BY <1>t, <2>4, <3>2 DEF WriterTypeOK
      <4>2. Outstanding(s)' = Outstanding(s)
        BY <1>t, <2>4, <3>2 DEF Outstanding
      <4> QED BY <4>1, <4>2 DEF Tidily
    <3> QED BY <3>1, <3>2
  <2>5. CASE file' = [file EXCEPT ![r] = f] /\ c_owner' = [c_owner EXCEPT ![c] = "WRITER"]
    <3> HIDE DEF f
    <3>1. file'[s].live = file[s].live
      BY <1>t, <2>1, <2>5 DEF WriterTypeOK
    <3> QED BY <1>o, <2>5, <3>1 DEF Tidily
  <2> QED BY <1>2, <1>3, <2>3, <2>4, <2>5 DEF WriterWritten, FileWritten
<1>4. CASE WriterError(c)
  <2>1. PICK p \in Int : p = file[r].pending - 1 /\ FileFailed(r, p)
    BY <1>t, <1>2, <1>4 DEF WriterError, FileRecord, Back
  <2>2. Outstanding(s)' \subseteq Outstanding(s)
    BY <1>o, <1>4 DEF WriterError
  <2>3. /\ FailsWith(r, p)
        /\ FileLeft(r, p) \/ (FileFreed(r, p) /\ p = 0)
    BY <2>1, FailedFile
  <2>4. CASE s # r
    <3>1. file'[s] = file[s]
      BY <1>t, <2>3, <2>4, FailedEffect
    <3> QED BY <2>2, <3>1 DEF Tidily
  <2>5. CASE s = r /\ FileLeft(r, p)
    <3>1. file'[s].live = file[s].live
      BY <1>t, <2>3, <2>5, FailedEffect
    <3> QED BY <2>2, <3>1 DEF Tidily
  <2>6. CASE s = r /\ FileFreed(r, p) /\ p = 0
    <3>1. file'[s].pending = 0
      BY <1>t, <2>3, <2>6, FailedEffect
    <3>2. PendingAt(s)' /\ IsFiniteSet(Outstanding(s))
      BY ReceivePending, ChunksOfCardinality, FS_Subset DEF Outstanding
    <3>3. PICK o : o = Outstanding(s)'
      OBVIOUS
    <3>4. IsFiniteSet(o)
      BY <2>2, <3>2, <3>3, FS_Subset
    <3>5. o # {} => Cardinality(o) = 0
      BY <3>1, <3>2, <3>3 DEF PendingAt
    <3>6. o = {}
      BY <3>4, <3>5, FS_EmptySet
    <3> QED BY <3>3, <3>6 DEF Tidily
  <2> QED BY <2>3, <2>4, <2>5, <2>6
<1> QED BY <1>1, <1>3, <1>4 DEF WriterReceive

(* Every step is tidy, but for a mapping that fails.                        *)
LEMMA NextTidily ==
  ASSUME IInv, \A s \in Snap : PendingAt(s), [Next]_vars, ~WriterMapFails, NEW s \in Snap
  PROVE  Tidily(s)
<1>t. WriterTypeOK /\ ChunkTypeOK /\ InOnePlace /\ QueuedFile
  BY DEF IInv, TypeOK
<1>1. CASE \E r \in Snap, first \in Start, n \in Count : SnapCommand(r, first, n)
  <2>1. PICK r \in Snap, first \in Start, n \in Count : SnapCommand(r, first, n)
    BY <1>1
  <2> DEFINE d == [status |-> "PREPARE", first |-> first, done |-> 0, pending |-> 0, count |-> n]
  <2>2. d \in SnapRecord
    BY ConstantsAssumption DEF SnapRecord, SnapStatus
  <2>3. CASE SetupSnapshot(r, d, wp_nfiles, wp_totxfr)
    <3> HIDE DEF d
    <3> QED BY <2>2, <2>3, SetupTidily
  <2>4. CASE UNCHANGED <<file, c_owner>>
    BY <2>4 DEF Tidily, Outstanding
  <2> QED BY <2>1, <2>3, <2>4 DEF SnapCommand, chunkVars
<1>2. CASE WriterReceive
  BY <1>2, ReceiveTidily
<1>3. CASE WriterService
  <2>1. PICK c \in WriterChunkQ : /\ file' = [file EXCEPT ![Parent(c)].pending = @ + 1]
                                  /\ c_owner' = [c_owner EXCEPT ![c] = "READER"]
    BY <1>3 DEF WriterService
  <2>2. /\ Parent(c) \in Snap /\ c \in Chunk /\ file[Parent(c)].live
        /\ \A x \in ChunksOf(s) : x \in Chunk /\ Parent(x) = s
    BY <1>t, ParentOf DEF ChunkTypeOK, QueuedFile
  <2>3. file'[s].live = file[s].live
    BY <1>t, <2>1, <2>2 DEF WriterTypeOK, FileRecord
  <2>4. s # Parent(c) => Outstanding(s)' = Outstanding(s)
    BY <1>t, <2>1, <2>2 DEF ChunkTypeOK, Outstanding
  <2> QED BY <2>2, <2>3, <2>4 DEF Tidily
<1>4. ASSUME UNCHANGED <<file, c_owner>>
      PROVE  Tidily(s)
  BY <1>4 DEF Tidily, Outstanding
<1>5. CASE \/ Reader \/ TidyRelease \/ WriterPoll \/ WriterServed \/ WriterEndsAgain
           \/ FreedIsReused \/ UNCHANGED vars
  BY <1>4, <1>5
     DEF Reader, WriterPoll, WriterServed, WriterEndsAgain, FreedIsReused, TidyRelease,
         ReaderReceive, ReaderCollect, ReaderPurge, ReaderPoll, ReaderStop, ReaderDrain,
         ReaderParam, ReaderInit, ReaderGo, ReaderComplete, ReaderAbortSibling,
         ReaderAborted, Return, vars, writerVars, chunkVars
<1> QED BY <1>1, <1>2, <1>3, <1>5, Zenon DEF Next, Writer

(* The program goes wrong only over a chunk whose file is gone.             *)
LEMMA NextSound ==
  ASSUME IInv, [Next]_vars, Sound, \A s \in Snap : WithReaderYet(s) => file[s].live
  PROVE  Sound'
<1>1. ~FreedIsReused
  BY DEF FreedIsReused
<1>2. ~WriterEndsAgain
  <2> SUFFICES ASSUME WriterEndsAgain PROVE FALSE
    OBVIOUS
  <2>1. In(Head(toWriter), toWriter) /\ Head(toWriter) \in Chunk
    BY InTail DEF WriterEndsAgain, IInv, TypeOK, ChunkTypeOK, InOnePlace
  <2>2. PICK c \in Chunk : c = Head(toWriter) /\ c_owner[c] = "READER"
    BY <2>1 DEF IInv, InOnePlace
  <2>3. Parent(c) \in Snap /\ WithReaderYet(Parent(c))
    BY <2>2, ParentOf DEF WithReaderYet
  <2> QED BY <2>2, <2>3 DEF WriterEndsAgain, EndsAgain
<1>3. CASE \/ \E s \in Snap, first \in Start, n \in Count : SnapCommand(s, first, n)
           \/ WriterPoll \/ WriterReceive \/ WriterService \/ WriterMapFails \/ WriterServed
  BY <1>3
     DEF Sound, SnapCommand, WriterPoll, WriterReceive, WriterService, WriterMapFails, WriterServed
<1>4. CASE Reader \/ TidyRelease \/ UNCHANGED vars
  BY <1>4
     DEF Sound, Reader, TidyRelease, ReaderReceive, ReaderCollect, ReaderPurge, ReaderPoll,
         ReaderStop, ReaderDrain, ReaderParam, ReaderInit, ReaderGo, ReaderComplete,
         ReaderAbortSibling, ReaderAborted, Return, vars, writerVars
<1> QED BY <1>1, <1>2, <1>3, <1>4, Zenon DEF Next, Writer
-----------------------------------------------------------------------------
(* A file tells what has become of its snapshot: it is there exactly while  *)
(* the snapshot is neither over nor still to begin, and if it was freed with *)
(* chunks of it still with the READER one of their siblings has failed, so  *)
(* that f_written never reaches f_nchunks (writer.c:1272, 1328-1334).       *)
THEOREM FilesTellSnapshots == Spec => []FileTellsSnap
<1>1. Init => FileTellsSnap
  BY InitKeeps
<1>2. IInv /\ FileTellsSnap /\ [Next]_vars => FileTellsSnap'
  BY NextKeeps
<1> QED BY <1>1, <1>2, Invariance, PTL DEF Spec

(* At most one file of a snapshot is in progress, none once it is over, and *)
(* wp_nfiles counts those of all the snapshots (writer.c:774).              *)
THEOREM FilesAccounted == Spec => []FileAccounting
<1>1. Init => FilesCounted
  <2> SUFFICES ASSUME Init PROVE FilesCounted
    OBVIOUS
  <2>1. Live = {} /\ wp_nfiles = 0
    BY DEF Init, Live
  <2> QED BY <2>1, FS_EmptySet DEF FilesCounted
<1>2. IInv /\ FileTellsSnap /\ FilesCounted /\ [Next]_vars => FilesCounted'
  BY NextCounts
<1>3. FileTellsSnap /\ FilesCounted => FileAccounting
  BY DEF FileTellsSnap, FileTells, FilesCounted, Live, FileAccounting
<1> QED BY <1>1, <1>2, <1>3, Invariance, FilesTellSnapshots, PTL DEF Spec

(* f_pending is the number of the file's chunks that the READER side has,   *)
(* as long as it has any, also if the file is gone (writer.c:1337-1343).    *)
THEOREM PendingCounted == Spec => []PendingCount
<1>1. Init => \A s \in Snap : PendingAt(s)
  BY DEF Init, PendingAt, Outstanding, ChunksOf, Chunk
<1>2. IInv /\ (\A s \in Snap : PendingAt(s)) /\ [Next]_vars => (\A s \in Snap : PendingAt(s))'
  BY NextPending
<1>3. (\A s \in Snap : PendingAt(s)) => PendingCount
  BY DEF PendingAt, PendingCount, Outstanding, WithReaderYet
<1> QED BY <1>1, <1>2, <1>3, Invariance, PTL DEF Spec

(* A file that fails waits for the last of its chunks (writer.c:1342): it   *)
(* is gone with chunks of it still out only when a mapping failed.          *)
THEOREM LastChunkFrees == Spec => FreedByTheLast
<1>1. Init => \A s \in Snap : PendingAt(s)
  BY DEF Init, PendingAt, Outstanding, ChunksOf, Chunk
<1>2. IInv /\ (\A s \in Snap : PendingAt(s)) /\ [Next]_vars => (\A s \in Snap : PendingAt(s))'
  BY NextPending
<1>3. IInv /\ (\A s \in Snap : PendingAt(s)) /\ [Next]_vars =>
        [\A s \in Snap : file[s].live /\ ~file'[s].live /\ WithReaderYet(s)' => WriterMapFails]_vars
  BY NextTidily DEF Tidily, Outstanding, WithReaderYet
<1> QED BY <1>1, <1>2, <1>3, Invariance, PTL DEF Spec, FreedByTheLast

(* When no mapping fails READER has no chunk of a file that is gone, so no  *)
(* file is completed twice and no descriptor is used that was freed.        *)
THEOREM EveryFileTidiedOnce ==
  ASSUME ~MapMayFail
  PROVE  Spec => []TidiedOnce
<1>1. Init => TidiedOnce /\ \A s \in Snap : PendingAt(s)
  BY DEF Init, PendingAt, Outstanding, ChunksOf, Chunk, TidiedOnce, Sound, WithReaderYet
<1>2. IInv /\ (\A s \in Snap : PendingAt(s)) /\ [Next]_vars => (\A s \in Snap : PendingAt(s))'
  BY NextPending
<1>3. IInv /\ TidiedOnce /\ (\A s \in Snap : PendingAt(s)) /\ [Next]_vars => TidiedOnce'
  <2> SUFFICES ASSUME IInv, TidiedOnce, \A s \in Snap : PendingAt(s), [Next]_vars
               PROVE  TidiedOnce'
    OBVIOUS
  <2>1. ~WriterMapFails
    BY DEF WriterMapFails
  <2>2. \A s \in Snap : Tidily(s)
    BY <2>1, NextTidily
  <2>3. \A s \in Snap : WithReaderYet(s)' => file'[s].live
    BY <2>2 DEF TidiedOnce, Tidily, Outstanding, WithReaderYet
  <2>4. Sound'
    BY NextSound DEF TidiedOnce
  <2> QED BY <2>3, <2>4 DEF TidiedOnce
<1> QED BY <1>1, <1>2, <1>3, Invariance, PTL DEF Spec

(* What the four threads do to the snapshots is what was promised when the  *)
(* Snap commands were accepted.                                             *)
THEOREM PromiseKept == Spec => KeepsPromise
<1>1. Init => Promise!Init
  BY InitKeeps
<1>2. IInv /\ FileTellsSnap /\ [Next]_vars => [Promise!Next]_(Promise!vars)
  BY NextKeeps DEF PromiseStep
<1> QED BY <1>1, <1>2, Invariance, FilesTellSnapshots, PTL
        DEF Spec, KeepsPromise, Promise!Spec
=============================================================================
