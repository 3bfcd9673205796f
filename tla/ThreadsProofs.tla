---------------------------- MODULE ThreadsProofs ----------------------------
(***************************************************************************)
(* Proofs about Threads, for any clients, numbers of requests, chunks and   *)
(* frames, with or without the signal: replies are given in turn, MAIN's    *)
(* sends do not fail before a Quit, nor block without the signal.           *)
(***************************************************************************)
EXTENDS Threads, FiniteSetTheorems, TLAPS

(* The tuples of variables that a step leaves alone.                        *)
USE DEF mainVars, flags, readerVars, writerVars, tidyVars, pipes

(* No socket waits, no thread is there and no chunk: the first state has    *)
(* all parts of the invariant.                                              *)
LEMMA InitHolds == Init => IInv
<1> SUFFICES ASSUME Init PROVE IInv
  OBVIOUS
<1>1. ControlOK /\ CountsOK
  BY ThreadsConstants DEF Init, ControlOK, CountsOK, Chunks, FramesUsed, Thread
<1>f. FlagsOK
  BY DEF Init, FlagsOK
<1>2. SocketWaits /\ OneServed /\ NoneServed /\ Handles
  BY DEF Init, SocketWaits, OneServed, NoneServed, Handles, Thread
<1>3. Created /\ Leaves /\ Sends /\ AssertOnlyAfterQuit /\ BlockedOnlyBySignal
  BY DEF Init, Created, Leaves, Sends, AssertOnlyAfterQuit, BlockedOnlyBySignal
<1> QED
  BY <1>1, <1>f, <1>2, <1>3 DEF IInv, TypeOK
-----------------------------------------------------------------------------
(* Clients, and the signal.                                                 *)

(* A client asks: only its request and the queue change.                    *)
LEMMA AskKeeps ==
  ASSUME NEW c \in Client, NEW k \in Kind, IInv, Ask(c, k)
  PROVE  IInv'
<1>1. ControlOK'
  BY ThreadsConstants DEF IInv, TypeOK, ControlOK, Handles, Thread, Kind, Ask
<1>2. FlagsOK'
  BY DEF IInv, TypeOK, FlagsOK, Ask
<1>3. CountsOK'
  BY ThreadsConstants DEF IInv, TypeOK, FlagsOK, CountsOK, Chunks, FramesUsed,
       Sends, Ask
<1>4. SocketWaits' /\ OneServed' /\ NoneServed' /\ Handles'
  BY ThreadsConstants DEF IInv, TypeOK, ControlOK, SocketWaits, OneServed,
       NoneServed, Handles, Thread, Ask
<1>5. Leaves'
  BY ThreadsConstants DEF IInv, TypeOK, ControlOK, FlagsOK, OneServed,
       NoneServed, Handles, Leaves, Thread, Ask
<1>6. Created'
  BY DEF IInv, TypeOK, ControlOK, Created, Ask
<1>7. Sends'
  BY ThreadsConstants DEF IInv, TypeOK, ControlOK, FlagsOK, CountsOK,
       FramesUsed, Sends, Ask
<1>8. AssertOnlyAfterQuit' /\ BlockedOnlyBySignal'
  BY DEF IInv, TypeOK, ControlOK, AssertOnlyAfterQuit, BlockedOnlyBySignal,
       Ask
<1> QED
  BY <1>1, <1>2, <1>3, <1>4, <1>5, <1>6, <1>7, <1>8 DEF IInv, TypeOK

(* The signal excuses threads that leave, and nothing else looks at it      *)
(* here.                                                                    *)
LEMMA InterruptKeeps ==
  ASSUME IInv, Interrupt
  PROVE  IInv'
<1>1. ControlOK'
  BY ThreadsConstants DEF IInv, TypeOK, ControlOK, Handles, Thread, Kind,
       Interrupt
<1>2. FlagsOK'
  BY DEF IInv, TypeOK, FlagsOK, Interrupt
<1>3. CountsOK'
  BY ThreadsConstants DEF IInv, TypeOK, FlagsOK, CountsOK, Chunks, FramesUsed,
       Sends, Interrupt
<1>4. SocketWaits' /\ OneServed' /\ NoneServed' /\ Handles'
  BY ThreadsConstants DEF IInv, TypeOK, ControlOK, SocketWaits, OneServed,
       NoneServed, Handles, Thread, Interrupt
<1>5. Leaves'
  BY ThreadsConstants DEF IInv, TypeOK, ControlOK, FlagsOK, OneServed,
       NoneServed, Handles, Leaves, Thread, Interrupt
<1>6. Created'
  BY DEF IInv, TypeOK, ControlOK, Created, Interrupt
<1>7. Sends'
  BY ThreadsConstants DEF IInv, TypeOK, ControlOK, FlagsOK, CountsOK,
       FramesUsed, Sends, Interrupt
<1>8. AssertOnlyAfterQuit' /\ BlockedOnlyBySignal'
  BY DEF IInv, TypeOK, ControlOK, AssertOnlyAfterQuit, BlockedOnlyBySignal,
       Interrupt
<1> QED
  BY <1>1, <1>2, <1>3, <1>4, <1>5, <1>6, <1>7, <1>8 DEF IInv, TypeOK
-----------------------------------------------------------------------------
(* MAIN.  Commands and replies move the relay; its other steps only its     *)
(* place.                                                                   *)

(* The threads are created, or never will be if the signal came.            *)
LEMMA CreateKeeps ==
  ASSUME IInv, MainCreate
  PROVE  IInv'
<1>1. ControlOK'
  BY ThreadsConstants DEF IInv, TypeOK, ControlOK, Handles, Thread, Kind,
       MainCreate, otherThreads
<1>2. FlagsOK'
  BY DEF IInv, TypeOK, FlagsOK, MainCreate, otherThreads
<1>3. CountsOK'
  BY ThreadsConstants DEF IInv, TypeOK, FlagsOK, CountsOK, Chunks, FramesUsed,
       Sends, MainCreate, otherThreads
<1>4. SocketWaits' /\ OneServed' /\ NoneServed' /\ Handles'
  BY ThreadsConstants DEF IInv, TypeOK, ControlOK, SocketWaits, OneServed,
       NoneServed, Handles, Thread, MainCreate, otherThreads
<1>5. Leaves'
  BY ThreadsConstants DEF IInv, TypeOK, ControlOK, FlagsOK, OneServed,
       NoneServed, Handles, Leaves, Thread, MainCreate, otherThreads
<1>6. Created'
  BY DEF IInv, TypeOK, ControlOK, Created, MainCreate, otherThreads
<1>7. Sends'
  BY ThreadsConstants DEF IInv, TypeOK, ControlOK, FlagsOK, CountsOK,
       FramesUsed, Sends, Created, MainCreate, otherThreads
<1>8. AssertOnlyAfterQuit' /\ BlockedOnlyBySignal'
  BY DEF IInv, TypeOK, ControlOK, AssertOnlyAfterQuit, BlockedOnlyBySignal,
       MainCreate, otherThreads
<1> QED
  BY <1>1, <1>2, <1>3, <1>4, <1>5, <1>6, <1>7, <1>8 DEF IInv, TypeOK

(* MAIN has waited for the threads to run (snapshot.c:925-934).             *)
LEMMA StartKeeps ==
  ASSUME IInv, MainStart
  PROVE  IInv'
<1>1. ControlOK'
  BY ThreadsConstants DEF IInv, TypeOK, ControlOK, Handles, Thread, Kind,
       MainStart, otherThreads
<1>2. FlagsOK'
  BY DEF IInv, TypeOK, FlagsOK, MainStart, otherThreads
<1>3. CountsOK'
  BY ThreadsConstants DEF IInv, TypeOK, FlagsOK, CountsOK, Chunks, FramesUsed,
       Sends, MainStart, otherThreads
<1>4. SocketWaits' /\ OneServed' /\ NoneServed' /\ Handles'
  BY ThreadsConstants DEF IInv, TypeOK, ControlOK, SocketWaits, OneServed,
       NoneServed, Handles, Thread, MainStart, otherThreads
<1>5. Leaves'
  BY ThreadsConstants DEF IInv, TypeOK, ControlOK, FlagsOK, OneServed,
       NoneServed, Handles, Leaves, Thread, MainStart, otherThreads
<1>6. Created'
  BY DEF IInv, TypeOK, ControlOK, Created, MainStart, otherThreads
<1>7. Sends'
  BY ThreadsConstants DEF IInv, TypeOK, ControlOK, FlagsOK, CountsOK,
       FramesUsed, Sends, MainStart, otherThreads
<1>8. AssertOnlyAfterQuit' /\ BlockedOnlyBySignal'
  BY DEF IInv, TypeOK, ControlOK, AssertOnlyAfterQuit, BlockedOnlyBySignal,
       MainStart, otherThreads
<1> QED
  BY <1>1, <1>2, <1>3, <1>4, <1>5, <1>6, <1>7, <1>8 DEF IInv, TypeOK

(* A command finds its socket free, as nobody is served, unless a Quit was  *)
(* forwarded; and its thread there, unless the signal came                  *)
(* (snapshot.c:586-635).                                                    *)
LEMMA CommandKeeps ==
  ASSUME IInv, MainCommand
  PROVE  IInv'
<1>1. ControlOK'
  BY ThreadsConstants DEF IInv, TypeOK, ControlOK, Handles, Thread, Kind,
       MainCommand, Answered, ForwardQuit, Forward, Targets, Destination,
       Ended, otherThreads
<1>2. FlagsOK'
  BY DEF IInv, TypeOK, FlagsOK, MainCommand, Answered, ForwardQuit, Forward,
       Targets, Destination, Ended, otherThreads
<1>3. CountsOK'
  BY ThreadsConstants DEF IInv, TypeOK, FlagsOK, CountsOK, Chunks, FramesUsed,
       Sends, MainCommand, Answered, ForwardQuit, Forward, Targets,
       Destination, Ended, otherThreads
<1>4. SocketWaits' /\ OneServed' /\ NoneServed' /\ Handles'
  BY ThreadsConstants DEF IInv, TypeOK, ControlOK, SocketWaits, OneServed,
       NoneServed, Handles, Thread, MainCommand, Answered, ForwardQuit,
       Forward, Targets, Destination, Ended, otherThreads
<1>5. Leaves'
  BY ThreadsConstants DEF IInv, TypeOK, ControlOK, FlagsOK, OneServed,
       NoneServed, Handles, Leaves, Thread, MainCommand, Answered,
       ForwardQuit, Forward, Targets, Destination, Ended, otherThreads
<1>6. Created'
  BY DEF IInv, TypeOK, ControlOK, Created, MainCommand, Answered, ForwardQuit,
       Forward, Targets, Destination, Ended, otherThreads
<1>7. Sends'
  BY ThreadsConstants DEF IInv, TypeOK, ControlOK, FlagsOK, CountsOK,
       FramesUsed, Sends, MainCommand, Answered, ForwardQuit, Forward,
       Targets, Destination, Ended, otherThreads
<1>8. AssertOnlyAfterQuit' /\ BlockedOnlyBySignal'
  BY DEF IInv, TypeOK, ControlOK, AssertOnlyAfterQuit, BlockedOnlyBySignal,
       OneServed, NoneServed, Leaves, Thread, MainCommand, Answered,
       ForwardQuit, Forward, Targets, Destination, Ended, otherThreads
<1> QED
  BY <1>1, <1>2, <1>3, <1>4, <1>5, <1>6, <1>7, <1>8 DEF IInv, TypeOK

(* A reply frees the one socket that waits, so that nothing is under way    *)
(* for the client no longer served (snapshot.c:525-558).                    *)
LEMMA ReplyKeeps ==
  ASSUME NEW t \in Thread, IInv, MainReply(t)
  PROVE  IInv'
<1>1. ControlOK'
  BY ThreadsConstants DEF IInv, TypeOK, ControlOK, Handles, Thread, Kind,
       MainReply, Answered, otherThreads
<1>2. FlagsOK'
  BY DEF IInv, TypeOK, FlagsOK, MainReply, Answered, otherThreads
<1>3. CountsOK'
  BY ThreadsConstants DEF IInv, TypeOK, FlagsOK, CountsOK, Chunks, FramesUsed,
       Sends, MainReply, Answered, otherThreads
<1>4. SocketWaits' /\ OneServed' /\ NoneServed' /\ Handles'
  BY ThreadsConstants DEF IInv, TypeOK, ControlOK, SocketWaits, OneServed,
       NoneServed, Handles, Thread, MainReply, Answered, otherThreads
<1>5. Leaves'
  BY ThreadsConstants DEF IInv, TypeOK, ControlOK, FlagsOK, OneServed,
       NoneServed, Handles, Leaves, Thread, MainReply, Answered, otherThreads
<1>6. Created'
  BY DEF IInv, TypeOK, ControlOK, Created, MainReply, Answered, otherThreads
<1>7. Sends'
  BY ThreadsConstants DEF IInv, TypeOK, ControlOK, FlagsOK, CountsOK,
       FramesUsed, Sends, MainReply, Answered, otherThreads
<1>8. AssertOnlyAfterQuit' /\ BlockedOnlyBySignal'
  BY DEF IInv, TypeOK, ControlOK, AssertOnlyAfterQuit, BlockedOnlyBySignal,
       MainReply, Answered, otherThreads
<1> QED
  BY <1>1, <1>2, <1>3, <1>4, <1>5, <1>6, <1>7, <1>8 DEF IInv, TypeOK

(* A poll of MAIN that finds nothing.                                       *)
LEMMA IdleKeeps ==
  ASSUME IInv, MainIdle
  PROVE  IInv'
<1>1. ControlOK'
  BY ThreadsConstants DEF IInv, TypeOK, ControlOK, Handles, Thread, Kind,
       MainIdle, otherThreads
<1>2. FlagsOK'
  BY DEF IInv, TypeOK, FlagsOK, MainIdle, otherThreads
<1>3. CountsOK'
  BY ThreadsConstants DEF IInv, TypeOK, FlagsOK, CountsOK, Chunks, FramesUsed,
       Sends, MainIdle, otherThreads
<1>4. SocketWaits' /\ OneServed' /\ NoneServed' /\ Handles'
  BY ThreadsConstants DEF IInv, TypeOK, ControlOK, SocketWaits, OneServed,
       NoneServed, Handles, Thread, MainIdle, otherThreads
<1>5. Leaves'
  BY ThreadsConstants DEF IInv, TypeOK, ControlOK, FlagsOK, OneServed,
       NoneServed, Handles, Leaves, Thread, MainIdle, otherThreads
<1>6. Created'
  BY DEF IInv, TypeOK, ControlOK, Created, MainIdle, otherThreads
<1>7. Sends'
  BY ThreadsConstants DEF IInv, TypeOK, ControlOK, FlagsOK, CountsOK,
       FramesUsed, Sends, MainIdle, otherThreads
<1>8. AssertOnlyAfterQuit' /\ BlockedOnlyBySignal'
  BY DEF IInv, TypeOK, ControlOK, AssertOnlyAfterQuit, BlockedOnlyBySignal,
       MainIdle, otherThreads
<1> QED
  BY <1>1, <1>2, <1>3, <1>4, <1>5, <1>6, <1>7, <1>8 DEF IInv, TypeOK

(* MAIN looks at the flags of the threads.                                  *)
LEMMA CheckKeeps ==
  ASSUME IInv, MainCheck
  PROVE  IInv'
<1>1. ControlOK'
  BY ThreadsConstants DEF IInv, TypeOK, ControlOK, Handles, Thread, Kind,
       MainCheck, otherThreads
<1>2. FlagsOK'
  BY DEF IInv, TypeOK, FlagsOK, MainCheck, otherThreads
<1>3. CountsOK'
  BY ThreadsConstants DEF IInv, TypeOK, FlagsOK, CountsOK, Chunks, FramesUsed,
       Sends, MainCheck, otherThreads
<1>4. SocketWaits' /\ OneServed' /\ NoneServed' /\ Handles'
  BY ThreadsConstants DEF IInv, TypeOK, ControlOK, SocketWaits, OneServed,
       NoneServed, Handles, Thread, MainCheck, otherThreads
<1>5. Leaves'
  BY ThreadsConstants DEF IInv, TypeOK, ControlOK, FlagsOK, OneServed,
       NoneServed, Handles, Leaves, Thread, MainCheck, otherThreads
<1>6. Created'
  BY DEF IInv, TypeOK, ControlOK, Created, MainCheck, otherThreads
<1>7. Sends'
  BY ThreadsConstants DEF IInv, TypeOK, ControlOK, FlagsOK, CountsOK,
       FramesUsed, Sends, MainCheck, otherThreads
<1>8. AssertOnlyAfterQuit' /\ BlockedOnlyBySignal'
  BY DEF IInv, TypeOK, ControlOK, AssertOnlyAfterQuit, BlockedOnlyBySignal,
       MainCheck, otherThreads
<1> QED
  BY <1>1, <1>2, <1>3, <1>4, <1>5, <1>6, <1>7, <1>8 DEF IInv, TypeOK

(* MAIN joins the threads.                                                  *)
LEMMA JoinKeeps ==
  ASSUME IInv, MainJoin
  PROVE  IInv'
<1>1. ControlOK'
  BY ThreadsConstants DEF IInv, TypeOK, ControlOK, Handles, Thread, Kind,
       MainJoin, Ended, otherThreads
<1>2. FlagsOK'
  BY DEF IInv, TypeOK, FlagsOK, MainJoin, Ended, otherThreads
<1>3. CountsOK'
  BY ThreadsConstants DEF IInv, TypeOK, FlagsOK, CountsOK, Chunks, FramesUsed,
       Sends, MainJoin, Ended, otherThreads
<1>4. SocketWaits' /\ OneServed' /\ NoneServed' /\ Handles'
  BY ThreadsConstants DEF IInv, TypeOK, ControlOK, SocketWaits, OneServed,
       NoneServed, Handles, Thread, MainJoin, Ended, otherThreads
<1>5. Leaves'
  BY ThreadsConstants DEF IInv, TypeOK, ControlOK, FlagsOK, OneServed,
       NoneServed, Handles, Leaves, Thread, MainJoin, Ended, otherThreads
<1>6. Created'
  BY DEF IInv, TypeOK, ControlOK, Created, MainJoin, Ended, otherThreads
<1>7. Sends'
  BY ThreadsConstants DEF IInv, TypeOK, ControlOK, FlagsOK, CountsOK,
       FramesUsed, Sends, MainJoin, Ended, otherThreads
<1>8. AssertOnlyAfterQuit' /\ BlockedOnlyBySignal'
  BY DEF IInv, TypeOK, ControlOK, AssertOnlyAfterQuit, BlockedOnlyBySignal,
       MainJoin, Ended, otherThreads
<1> QED
  BY <1>1, <1>2, <1>3, <1>4, <1>5, <1>6, <1>7, <1>8 DEF IInv, TypeOK
-----------------------------------------------------------------------------
(* READER.                                                                  *)

(* The READER begins.                                                       *)
LEMMA ReaderStartKeeps ==
  ASSUME IInv, ReaderStart
  PROVE  IInv'
<1>1. ControlOK'
  BY ThreadsConstants DEF IInv, TypeOK, ControlOK, Handles, Thread, Kind,
       ReaderStart, readerOnly
<1>2. FlagsOK'
  BY DEF IInv, TypeOK, FlagsOK, ReaderStart, readerOnly
<1>3. CountsOK'
  BY ThreadsConstants DEF IInv, TypeOK, FlagsOK, CountsOK, Chunks, FramesUsed,
       Sends, ReaderStart, readerOnly
<1>4. SocketWaits' /\ OneServed' /\ NoneServed' /\ Handles'
  BY ThreadsConstants DEF IInv, TypeOK, ControlOK, SocketWaits, OneServed,
       NoneServed, Handles, Thread, ReaderStart, readerOnly
<1>5. Leaves'
  BY ThreadsConstants DEF IInv, TypeOK, ControlOK, FlagsOK, OneServed,
       NoneServed, Handles, Leaves, Thread, ReaderStart, readerOnly
<1>6. Created'
  BY DEF IInv, TypeOK, ControlOK, Created, ReaderStart, readerOnly
<1>7. Sends'
  BY ThreadsConstants DEF IInv, TypeOK, ControlOK, FlagsOK, CountsOK,
       FramesUsed, Sends, ReaderStart, readerOnly
<1>8. AssertOnlyAfterQuit' /\ BlockedOnlyBySignal'
  BY DEF IInv, TypeOK, ControlOK, AssertOnlyAfterQuit, BlockedOnlyBySignal,
       ReaderStart, readerOnly
<1> QED
  BY <1>1, <1>2, <1>3, <1>4, <1>5, <1>6, <1>7, <1>8 DEF IInv, TypeOK

(* It leaves its loop with no chunk in hand, and only if it was told to.    *)
LEMMA ReaderDataKeeps ==
  ASSUME IInv, ReaderData
  PROVE  IInv'
<1>1. ControlOK'
  BY ThreadsConstants DEF IInv, TypeOK, ControlOK, Handles, Thread, Kind,
       ReaderData, readerOnly
<1>2. FlagsOK'
  BY DEF IInv, TypeOK, FlagsOK, ReaderData, readerOnly
<1>3. CountsOK'
  BY ThreadsConstants DEF IInv, TypeOK, FlagsOK, CountsOK, Chunks, FramesUsed,
       Sends, ReaderData, readerOnly
<1>4. SocketWaits' /\ OneServed' /\ NoneServed' /\ Handles'
  BY ThreadsConstants DEF IInv, TypeOK, ControlOK, SocketWaits, OneServed,
       NoneServed, Handles, Thread, ReaderData, readerOnly
<1>5. Leaves'
  BY ThreadsConstants DEF IInv, TypeOK, ControlOK, FlagsOK, OneServed,
       NoneServed, Handles, Leaves, Thread, ReaderData, readerOnly
<1>6. Created'
  BY DEF IInv, TypeOK, ControlOK, Created, ReaderData, readerOnly
<1>7. Sends'
  BY ThreadsConstants DEF IInv, TypeOK, ControlOK, FlagsOK, CountsOK,
       FramesUsed, Sends, ReaderData, readerOnly
<1>8. AssertOnlyAfterQuit' /\ BlockedOnlyBySignal'
  BY DEF IInv, TypeOK, ControlOK, AssertOnlyAfterQuit, BlockedOnlyBySignal,
       ReaderData, readerOnly
<1> QED
  BY <1>1, <1>2, <1>3, <1>4, <1>5, <1>6, <1>7, <1>8 DEF IInv, TypeOK

(* A frame on its way to TIDY is still in use.                              *)
LEMMA ReaderSendsFrameKeeps ==
  ASSUME IInv, ReaderSendsFrame
  PROVE  IInv'
<1>1. ControlOK'
  BY ThreadsConstants DEF IInv, TypeOK, ControlOK, Handles, Thread, Kind,
       ReaderSendsFrame, readerOnly
<1>2. FlagsOK'
  BY DEF IInv, TypeOK, FlagsOK, ReaderSendsFrame, readerOnly
<1>3. CountsOK'
  BY ThreadsConstants DEF IInv, TypeOK, FlagsOK, CountsOK, Chunks, FramesUsed,
       Sends, ReaderSendsFrame, readerOnly
<1>4. SocketWaits' /\ OneServed' /\ NoneServed' /\ Handles'
  BY ThreadsConstants DEF IInv, TypeOK, ControlOK, SocketWaits, OneServed,
       NoneServed, Handles, Thread, ReaderSendsFrame, readerOnly
<1>5. Leaves'
  BY ThreadsConstants DEF IInv, TypeOK, ControlOK, FlagsOK, OneServed,
       NoneServed, Handles, Leaves, Thread, ReaderSendsFrame, readerOnly
<1>6. Created'
  BY DEF IInv, TypeOK, ControlOK, Created, ReaderSendsFrame, readerOnly
<1>7. Sends'
  BY ThreadsConstants DEF IInv, TypeOK, ControlOK, FlagsOK, CountsOK,
       FramesUsed, Sends, ReaderSendsFrame, readerOnly
<1>8. AssertOnlyAfterQuit' /\ BlockedOnlyBySignal'
  BY DEF IInv, TypeOK, ControlOK, AssertOnlyAfterQuit, BlockedOnlyBySignal,
       ReaderSendsFrame, readerOnly
<1> QED
  BY <1>1, <1>2, <1>3, <1>4, <1>5, <1>6, <1>7, <1>8 DEF IInv, TypeOK

(* A chunk goes back after its frame.                                       *)
LEMMA ReaderSendsChunkKeeps ==
  ASSUME IInv, ReaderSendsChunk
  PROVE  IInv'
<1>1. ControlOK'
  BY ThreadsConstants DEF IInv, TypeOK, ControlOK, Handles, Thread, Kind,
       ReaderSendsChunk, Ended, readerOnly
<1>2. FlagsOK'
  BY DEF IInv, TypeOK, FlagsOK, ReaderSendsChunk, Ended, readerOnly
<1>3. CountsOK'
  BY ThreadsConstants DEF IInv, TypeOK, FlagsOK, CountsOK, Chunks, FramesUsed,
       Sends, ReaderSendsChunk, Ended, readerOnly
<1>4. SocketWaits' /\ OneServed' /\ NoneServed' /\ Handles'
  BY ThreadsConstants DEF IInv, TypeOK, ControlOK, SocketWaits, OneServed,
       NoneServed, Handles, Thread, ReaderSendsChunk, Ended, readerOnly
<1>5. Leaves'
  BY ThreadsConstants DEF IInv, TypeOK, ControlOK, FlagsOK, OneServed,
       NoneServed, Handles, Leaves, Thread, ReaderSendsChunk, Ended,
       readerOnly
<1>6. Created'
  BY DEF IInv, TypeOK, ControlOK, Created, ReaderSendsChunk, Ended, readerOnly
<1>7. Sends'
  BY ThreadsConstants DEF IInv, TypeOK, ControlOK, FlagsOK, CountsOK,
       FramesUsed, Sends, ReaderSendsChunk, Ended, readerOnly
<1>8. AssertOnlyAfterQuit' /\ BlockedOnlyBySignal'
  BY DEF IInv, TypeOK, ControlOK, AssertOnlyAfterQuit, BlockedOnlyBySignal,
       ReaderSendsChunk, Ended, readerOnly
<1> QED
  BY <1>1, <1>2, <1>3, <1>4, <1>5, <1>6, <1>7, <1>8 DEF IInv, TypeOK

(* A chunk received is queued, or goes back with queued ones: none is new.  *)
LEMMA ReaderPollKeeps ==
  ASSUME IInv, ReaderPoll
  PROVE  IInv'
<1>1. ControlOK'
  BY ThreadsConstants DEF IInv, TypeOK, ControlOK, Handles, Thread, Kind,
       ReaderPoll, Returned, readerOnly
<1>2. FlagsOK'
  BY DEF IInv, TypeOK, FlagsOK, ReaderPoll, Returned, readerOnly
<1>3. CountsOK'
  <2>1. CASE UNCHANGED <<rq, back, toReader>>
    BY <2>1 DEF IInv, TypeOK, FlagsOK, CountsOK, Chunks, FramesUsed, Sends,
         ReaderPoll, Returned, readerOnly
  <2>2. CASE toReader > 0 /\ toReader' = toReader - 1 /\ rq' = rq + 1 /\ back' = back
    BY <2>2 DEF IInv, TypeOK, FlagsOK, CountsOK, Chunks, FramesUsed, Sends,
         ReaderPoll, Returned, readerOnly
  <2>3. ASSUME NEW n \in 0 .. rq, toReader > 0, toReader' = toReader - 1, Returned(n)
        PROVE  CountsOK'
    BY <2>3 DEF IInv, TypeOK, FlagsOK, CountsOK, Chunks, FramesUsed, Sends,
         ReaderPoll, Returned, readerOnly
  <2> QED
    BY <2>1, <2>2, <2>3 DEF ReaderPoll
<1>4. SocketWaits' /\ OneServed' /\ NoneServed' /\ Handles'
  BY ThreadsConstants DEF IInv, TypeOK, ControlOK, SocketWaits, OneServed,
       NoneServed, Handles, Thread, ReaderPoll, Returned, readerOnly
<1>5. Leaves'
  BY ThreadsConstants DEF IInv, TypeOK, ControlOK, FlagsOK, OneServed,
       NoneServed, Handles, Leaves, Thread, ReaderPoll, Returned, readerOnly
<1>6. Created'
  BY DEF IInv, TypeOK, ControlOK, Created, ReaderPoll, Returned, readerOnly
<1>7. Sends'
  <2>1. CASE UNCHANGED <<rq, back, toReader>>
    BY <2>1 DEF IInv, TypeOK, ControlOK, FlagsOK, CountsOK, FramesUsed, Sends,
         ReaderPoll, Returned, readerOnly
  <2>2. CASE toReader > 0 /\ toReader' = toReader - 1 /\ rq' = rq + 1 /\ back' = back
    BY <2>2 DEF IInv, TypeOK, ControlOK, FlagsOK, CountsOK, FramesUsed, Sends,
         ReaderPoll, Returned, readerOnly
  <2>3. ASSUME NEW n \in 0 .. rq, toReader > 0, toReader' = toReader - 1, Returned(n)
        PROVE  Sends'
    BY <2>3 DEF IInv, TypeOK, ControlOK, FlagsOK, CountsOK, FramesUsed, Sends,
         ReaderPoll, Returned, readerOnly
  <2> QED
    BY <2>1, <2>2, <2>3 DEF ReaderPoll
<1>8. AssertOnlyAfterQuit' /\ BlockedOnlyBySignal'
  BY DEF IInv, TypeOK, ControlOK, AssertOnlyAfterQuit, BlockedOnlyBySignal,
       ReaderPoll, Returned, readerOnly
<1> QED
  BY <1>1, <1>2, <1>3, <1>4, <1>5, <1>6, <1>7, <1>8 DEF IInv, TypeOK

(* A Quit is in the pipe only if MAIN has forwarded one.                    *)
LEMMA ReaderCommandKeeps ==
  ASSUME IInv, ReaderCommand
  PROVE  IInv'
<1>1. ControlOK'
  BY ThreadsConstants DEF IInv, TypeOK, ControlOK, Handles, Thread, Kind,
       ReaderCommand, Stops, readerOnly
<1>2. FlagsOK'
  BY DEF IInv, TypeOK, FlagsOK, ReaderCommand, Stops, readerOnly
<1>3. CountsOK'
  BY ThreadsConstants DEF IInv, TypeOK, FlagsOK, CountsOK, Chunks, FramesUsed,
       Sends, ReaderCommand, Stops, readerOnly
<1>4. SocketWaits' /\ OneServed' /\ NoneServed' /\ Handles'
  BY ThreadsConstants DEF IInv, TypeOK, ControlOK, SocketWaits, OneServed,
       NoneServed, Handles, Thread, ReaderCommand, Stops, readerOnly
<1>5. Leaves'
  BY ThreadsConstants DEF IInv, TypeOK, ControlOK, FlagsOK, OneServed,
       NoneServed, Handles, Leaves, Thread, ReaderCommand, Stops, readerOnly
<1>6. Created'
  BY DEF IInv, TypeOK, ControlOK, Created, ReaderCommand, Stops, readerOnly
<1>7. Sends'
  BY ThreadsConstants DEF IInv, TypeOK, ControlOK, FlagsOK, CountsOK,
       FramesUsed, Sends, ReaderCommand, Stops, readerOnly
<1>8. AssertOnlyAfterQuit' /\ BlockedOnlyBySignal'
  BY DEF IInv, TypeOK, ControlOK, AssertOnlyAfterQuit, BlockedOnlyBySignal,
       ReaderCommand, Stops, readerOnly
<1> QED
  BY <1>1, <1>2, <1>3, <1>4, <1>5, <1>6, <1>7, <1>8 DEF IInv, TypeOK

(* The reply is for the client whose command it answers.                    *)
LEMMA ReaderReplyKeeps ==
  ASSUME IInv, ReaderReply
  PROVE  IInv'
<1>1. ControlOK'
  BY ThreadsConstants DEF IInv, TypeOK, ControlOK, Handles, Thread, Kind,
       ReaderReply, SendReply, readerOnly
<1>2. FlagsOK'
  BY DEF IInv, TypeOK, FlagsOK, ReaderReply, SendReply, readerOnly
<1>3. CountsOK'
  BY ThreadsConstants DEF IInv, TypeOK, FlagsOK, CountsOK, Chunks, FramesUsed,
       Sends, ReaderReply, SendReply, readerOnly
<1>4. SocketWaits' /\ OneServed' /\ NoneServed' /\ Handles'
  BY ThreadsConstants DEF IInv, TypeOK, ControlOK, SocketWaits, OneServed,
       NoneServed, Handles, Thread, ReaderReply, SendReply, readerOnly
<1>5. Leaves'
  BY ThreadsConstants DEF IInv, TypeOK, ControlOK, FlagsOK, OneServed,
       NoneServed, Handles, Leaves, Thread, ReaderReply, SendReply, readerOnly
<1>6. Created'
  BY DEF IInv, TypeOK, ControlOK, Created, ReaderReply, SendReply, readerOnly
<1>7. Sends'
  BY ThreadsConstants DEF IInv, TypeOK, ControlOK, FlagsOK, CountsOK,
       FramesUsed, Sends, ReaderReply, SendReply, readerOnly
<1>8. AssertOnlyAfterQuit' /\ BlockedOnlyBySignal'
  BY DEF IInv, TypeOK, ControlOK, AssertOnlyAfterQuit, BlockedOnlyBySignal,
       ReaderReply, SendReply, readerOnly
<1> QED
  BY <1>1, <1>2, <1>3, <1>4, <1>5, <1>6, <1>7, <1>8 DEF IInv, TypeOK

(* The READER ends, and what it had not received is lost.                   *)
LEMMA ReaderFinishKeeps ==
  ASSUME IInv, ReaderFinish
  PROVE  IInv'
<1>1. ControlOK'
  BY ThreadsConstants DEF IInv, TypeOK, ControlOK, Handles, Thread, Kind,
       ReaderFinish, TellTidy, readerOnly
<1>2. FlagsOK'
  BY DEF IInv, TypeOK, FlagsOK, ReaderFinish, TellTidy, readerOnly
<1>3. CountsOK'
  BY ThreadsConstants DEF IInv, TypeOK, FlagsOK, CountsOK, Chunks, FramesUsed,
       Sends, ReaderFinish, TellTidy, readerOnly
<1>4. SocketWaits' /\ OneServed' /\ NoneServed' /\ Handles'
  BY ThreadsConstants DEF IInv, TypeOK, ControlOK, SocketWaits, OneServed,
       NoneServed, Handles, Thread, ReaderFinish, TellTidy, readerOnly
<1>5. Leaves'
  BY ThreadsConstants DEF IInv, TypeOK, ControlOK, FlagsOK, OneServed,
       NoneServed, Handles, Leaves, Thread, ReaderFinish, TellTidy, readerOnly
<1>6. Created'
  BY DEF IInv, TypeOK, ControlOK, Created, ReaderFinish, TellTidy, readerOnly
<1>7. Sends'
  BY ThreadsConstants DEF IInv, TypeOK, ControlOK, FlagsOK, CountsOK,
       FramesUsed, Sends, ReaderFinish, TellTidy, readerOnly
<1>8. AssertOnlyAfterQuit' /\ BlockedOnlyBySignal'
  BY DEF IInv, TypeOK, ControlOK, AssertOnlyAfterQuit, BlockedOnlyBySignal,
       ReaderFinish, TellTidy, readerOnly
<1> QED
  BY <1>1, <1>2, <1>3, <1>4, <1>5, <1>6, <1>7, <1>8 DEF IInv, TypeOK
-----------------------------------------------------------------------------
(* WRITER.                                                                  *)

(* The WRITER begins, or not if the signal came before.                     *)
LEMMA WriterStartKeeps ==
  ASSUME IInv, WriterStart
  PROVE  IInv'
<1>1. ControlOK'
  BY ThreadsConstants DEF IInv, TypeOK, ControlOK, Handles, Thread, Kind,
       WriterStart, writerOnly
<1>2. FlagsOK'
  BY DEF IInv, TypeOK, FlagsOK, WriterStart, writerOnly
<1>3. CountsOK'
  BY ThreadsConstants DEF IInv, TypeOK, FlagsOK, CountsOK, Chunks, FramesUsed,
       Sends, WriterStart, writerOnly
<1>4. SocketWaits' /\ OneServed' /\ NoneServed' /\ Handles'
  BY ThreadsConstants DEF IInv, TypeOK, ControlOK, SocketWaits, OneServed,
       NoneServed, Handles, Thread, WriterStart, writerOnly
<1>5. Leaves'
  BY ThreadsConstants DEF IInv, TypeOK, ControlOK, FlagsOK, OneServed,
       NoneServed, Handles, Leaves, Thread, WriterStart, writerOnly
<1>6. Created'
  BY DEF IInv, TypeOK, ControlOK, Created, WriterStart, writerOnly
<1>7. Sends'
  BY ThreadsConstants DEF IInv, TypeOK, ControlOK, FlagsOK, CountsOK,
       FramesUsed, Sends, WriterStart, writerOnly
<1>8. AssertOnlyAfterQuit' /\ BlockedOnlyBySignal'
  BY DEF IInv, TypeOK, ControlOK, AssertOnlyAfterQuit, BlockedOnlyBySignal,
       WriterStart, writerOnly
<1> QED
  BY <1>1, <1>2, <1>3, <1>4, <1>5, <1>6, <1>7, <1>8 DEF IInv, TypeOK

(* It ends only if it was told to.                                          *)
LEMMA WriterTopKeeps ==
  ASSUME IInv, WriterTop
  PROVE  IInv'
<1>1. ControlOK'
  BY ThreadsConstants DEF IInv, TypeOK, ControlOK, Handles, Thread, Kind,
       WriterTop, WriterEnds, writerOnly
<1>2. FlagsOK'
  BY DEF IInv, TypeOK, FlagsOK, WriterTop, WriterEnds, writerOnly
<1>3. CountsOK'
  BY ThreadsConstants DEF IInv, TypeOK, FlagsOK, CountsOK, Chunks, FramesUsed,
       Sends, WriterTop, WriterEnds, writerOnly
<1>4. SocketWaits' /\ OneServed' /\ NoneServed' /\ Handles'
  BY ThreadsConstants DEF IInv, TypeOK, ControlOK, SocketWaits, OneServed,
       NoneServed, Handles, Thread, WriterTop, WriterEnds, writerOnly
<1>5. Leaves'
  BY ThreadsConstants DEF IInv, TypeOK, ControlOK, FlagsOK, OneServed,
       NoneServed, Handles, Leaves, Thread, WriterTop, WriterEnds, writerOnly
<1>6. Created'
  BY DEF IInv, TypeOK, ControlOK, Created, WriterTop, WriterEnds, writerOnly
<1>7. Sends'
  BY ThreadsConstants DEF IInv, TypeOK, ControlOK, FlagsOK, CountsOK,
       FramesUsed, Sends, WriterTop, WriterEnds, writerOnly
<1>8. AssertOnlyAfterQuit' /\ BlockedOnlyBySignal'
  BY DEF IInv, TypeOK, ControlOK, AssertOnlyAfterQuit, BlockedOnlyBySignal,
       WriterTop, WriterEnds, writerOnly
<1> QED
  BY <1>1, <1>2, <1>3, <1>4, <1>5, <1>6, <1>7, <1>8 DEF IInv, TypeOK

(* A chunk comes back, and perhaps a command.                               *)
LEMMA WriterPollKeeps ==
  ASSUME IInv, WriterPoll
  PROVE  IInv'
<1>1. ControlOK'
  BY ThreadsConstants DEF IInv, TypeOK, ControlOK, Handles, Thread, Kind,
       WriterPoll, WriterEnds, Refiled, writerOnly
<1>2. FlagsOK'
  BY DEF IInv, TypeOK, FlagsOK, WriterPoll, WriterEnds, Refiled, writerOnly
<1>3. CountsOK'
  BY ThreadsConstants DEF IInv, TypeOK, FlagsOK, CountsOK, Chunks, FramesUsed,
       Sends, WriterPoll, WriterEnds, Refiled, writerOnly
<1>4. SocketWaits' /\ OneServed' /\ NoneServed' /\ Handles'
  BY ThreadsConstants DEF IInv, TypeOK, ControlOK, SocketWaits, OneServed,
       NoneServed, Handles, Thread, WriterPoll, WriterEnds, Refiled,
       writerOnly
<1>5. Leaves'
  BY ThreadsConstants DEF IInv, TypeOK, ControlOK, FlagsOK, OneServed,
       NoneServed, Handles, Leaves, Thread, WriterPoll, WriterEnds, Refiled,
       writerOnly
<1>6. Created'
  BY DEF IInv, TypeOK, ControlOK, Created, WriterPoll, WriterEnds, Refiled,
       writerOnly
<1>7. Sends'
  BY ThreadsConstants DEF IInv, TypeOK, ControlOK, FlagsOK, CountsOK,
       FramesUsed, Sends, WriterPoll, WriterEnds, Refiled, writerOnly
<1>8. AssertOnlyAfterQuit' /\ BlockedOnlyBySignal'
  BY DEF IInv, TypeOK, ControlOK, AssertOnlyAfterQuit, BlockedOnlyBySignal,
       WriterPoll, WriterEnds, Refiled, writerOnly
<1> QED
  BY <1>1, <1>2, <1>3, <1>4, <1>5, <1>6, <1>7, <1>8 DEF IInv, TypeOK

(* A command is answered in the step that carries it out.                   *)
LEMMA WriterCommandKeeps ==
  ASSUME IInv, WriterCommand
  PROVE  IInv'
<1>1. ControlOK'
  BY ThreadsConstants DEF IInv, TypeOK, ControlOK, Handles, Thread, Kind,
       WriterCommand, Refiled, writerOnly
<1>2. FlagsOK'
  BY DEF IInv, TypeOK, FlagsOK, WriterCommand, Refiled, writerOnly
<1>3. CountsOK'
  BY ThreadsConstants DEF IInv, TypeOK, FlagsOK, CountsOK, Chunks, FramesUsed,
       Sends, WriterCommand, Refiled, writerOnly
<1>4. SocketWaits' /\ OneServed' /\ NoneServed' /\ Handles'
  BY ThreadsConstants DEF IInv, TypeOK, ControlOK, SocketWaits, OneServed,
       NoneServed, Handles, Thread, WriterCommand, Refiled, writerOnly
<1>5. Leaves'
  BY ThreadsConstants DEF IInv, TypeOK, ControlOK, FlagsOK, OneServed,
       NoneServed, Handles, Leaves, Thread, WriterCommand, Refiled, writerOnly
<1>6. Created'
  BY DEF IInv, TypeOK, ControlOK, Created, WriterCommand, Refiled, writerOnly
<1>7. Sends'
  BY ThreadsConstants DEF IInv, TypeOK, ControlOK, FlagsOK, CountsOK,
       FramesUsed, Sends, WriterCommand, Refiled, writerOnly
<1>8. AssertOnlyAfterQuit' /\ BlockedOnlyBySignal'
  BY DEF IInv, TypeOK, ControlOK, AssertOnlyAfterQuit, BlockedOnlyBySignal,
       WriterCommand, Refiled, writerOnly
<1> QED
  BY <1>1, <1>2, <1>3, <1>4, <1>5, <1>6, <1>7, <1>8 DEF IInv, TypeOK

(* A chunk is chosen to be sent only with a frame to spare.                 *)
LEMMA WriterServesKeeps ==
  ASSUME IInv, WriterServes
  PROVE  IInv'
<1>1. ControlOK'
  BY ThreadsConstants DEF IInv, TypeOK, ControlOK, Handles, Thread, Kind,
       WriterServes, Refiled, writerOnly
<1>2. FlagsOK'
  BY DEF IInv, TypeOK, FlagsOK, WriterServes, Refiled, writerOnly
<1>3. CountsOK'
  BY ThreadsConstants DEF IInv, TypeOK, FlagsOK, CountsOK, Chunks, FramesUsed,
       Sends, WriterServes, Refiled, writerOnly
<1>4. SocketWaits' /\ OneServed' /\ NoneServed' /\ Handles'
  BY ThreadsConstants DEF IInv, TypeOK, ControlOK, SocketWaits, OneServed,
       NoneServed, Handles, Thread, WriterServes, Refiled, writerOnly
<1>5. Leaves'
  BY ThreadsConstants DEF IInv, TypeOK, ControlOK, FlagsOK, OneServed,
       NoneServed, Handles, Leaves, Thread, WriterServes, Refiled, writerOnly
<1>6. Created'
  BY DEF IInv, TypeOK, ControlOK, Created, WriterServes, Refiled, writerOnly
<1>7. Sends'
  BY ThreadsConstants DEF IInv, TypeOK, ControlOK, FlagsOK, CountsOK,
       FramesUsed, Sends, WriterServes, Refiled, writerOnly
<1>8. AssertOnlyAfterQuit' /\ BlockedOnlyBySignal'
  BY DEF IInv, TypeOK, ControlOK, AssertOnlyAfterQuit, BlockedOnlyBySignal,
       WriterServes, Refiled, writerOnly
<1> QED
  BY <1>1, <1>2, <1>3, <1>4, <1>5, <1>6, <1>7, <1>8 DEF IInv, TypeOK

(* The frame to spare is still there: only the WRITER takes frames.         *)
LEMMA WriterSendsKeeps ==
  ASSUME IInv, WriterSends
  PROVE  IInv'
<1>1. ControlOK'
  BY ThreadsConstants DEF IInv, TypeOK, ControlOK, Handles, Thread, Kind,
       WriterSends, Ended, writerOnly
<1>2. FlagsOK'
  BY DEF IInv, TypeOK, FlagsOK, WriterSends, Ended, writerOnly
<1>3. CountsOK'
  BY ThreadsConstants DEF IInv, TypeOK, FlagsOK, CountsOK, Chunks, FramesUsed,
       Sends, WriterSends, Ended, writerOnly
<1>4. SocketWaits' /\ OneServed' /\ NoneServed' /\ Handles'
  BY ThreadsConstants DEF IInv, TypeOK, ControlOK, SocketWaits, OneServed,
       NoneServed, Handles, Thread, WriterSends, Ended, writerOnly
<1>5. Leaves'
  BY ThreadsConstants DEF IInv, TypeOK, ControlOK, FlagsOK, OneServed,
       NoneServed, Handles, Leaves, Thread, WriterSends, Ended, writerOnly
<1>6. Created'
  BY DEF IInv, TypeOK, ControlOK, Created, WriterSends, Ended, writerOnly
<1>7. Sends'
  BY ThreadsConstants DEF IInv, TypeOK, ControlOK, FlagsOK, CountsOK,
       FramesUsed, Sends, WriterSends, Ended, writerOnly
<1>8. AssertOnlyAfterQuit' /\ BlockedOnlyBySignal'
  BY DEF IInv, TypeOK, ControlOK, AssertOnlyAfterQuit, BlockedOnlyBySignal,
       WriterSends, Ended, writerOnly
<1> QED
  BY <1>1, <1>2, <1>3, <1>4, <1>5, <1>6, <1>7, <1>8 DEF IInv, TypeOK
-----------------------------------------------------------------------------
(* TIDY.                                                                    *)

(* A frame is released.                                                     *)
LEMMA TidyFrameKeeps ==
  ASSUME IInv, TidyFrame
  PROVE  IInv'
<1>1. ControlOK'
  BY ThreadsConstants DEF IInv, TypeOK, ControlOK, Handles, Thread, Kind,
       TidyFrame
<1>2. FlagsOK'
  BY DEF IInv, TypeOK, FlagsOK, TidyFrame
<1>3. CountsOK'
  BY ThreadsConstants DEF IInv, TypeOK, FlagsOK, CountsOK, Chunks, FramesUsed,
       Sends, TidyFrame
<1>4. SocketWaits' /\ OneServed' /\ NoneServed' /\ Handles'
  BY ThreadsConstants DEF IInv, TypeOK, ControlOK, SocketWaits, OneServed,
       NoneServed, Handles, Thread, TidyFrame
<1>5. Leaves'
  BY ThreadsConstants DEF IInv, TypeOK, ControlOK, FlagsOK, OneServed,
       NoneServed, Handles, Leaves, Thread, TidyFrame
<1>6. Created'
  BY DEF IInv, TypeOK, ControlOK, Created, TidyFrame
<1>7. Sends'
  BY ThreadsConstants DEF IInv, TypeOK, ControlOK, FlagsOK, CountsOK,
       FramesUsed, Sends, TidyFrame
<1>8. AssertOnlyAfterQuit' /\ BlockedOnlyBySignal'
  BY DEF IInv, TypeOK, ControlOK, AssertOnlyAfterQuit, BlockedOnlyBySignal,
       TidyFrame
<1> QED
  BY <1>1, <1>2, <1>3, <1>4, <1>5, <1>6, <1>7, <1>8 DEF IInv, TypeOK

(* The message of length 0 ends TIDY.                                       *)
LEMMA TidyFinishesKeeps ==
  ASSUME IInv, TidyFinishes
  PROVE  IInv'
<1>1. ControlOK'
  BY ThreadsConstants DEF IInv, TypeOK, ControlOK, Handles, Thread, Kind,
       TidyFinishes
<1>2. FlagsOK'
  BY DEF IInv, TypeOK, FlagsOK, TidyFinishes
<1>3. CountsOK'
  BY ThreadsConstants DEF IInv, TypeOK, FlagsOK, CountsOK, Chunks, FramesUsed,
       Sends, TidyFinishes
<1>4. SocketWaits' /\ OneServed' /\ NoneServed' /\ Handles'
  BY ThreadsConstants DEF IInv, TypeOK, ControlOK, SocketWaits, OneServed,
       NoneServed, Handles, Thread, TidyFinishes
<1>5. Leaves'
  BY ThreadsConstants DEF IInv, TypeOK, ControlOK, FlagsOK, OneServed,
       NoneServed, Handles, Leaves, Thread, TidyFinishes
<1>6. Created'
  BY DEF IInv, TypeOK, ControlOK, Created, TidyFinishes
<1>7. Sends'
  BY ThreadsConstants DEF IInv, TypeOK, ControlOK, FlagsOK, CountsOK,
       FramesUsed, Sends, TidyFinishes
<1>8. AssertOnlyAfterQuit' /\ BlockedOnlyBySignal'
  BY DEF IInv, TypeOK, ControlOK, AssertOnlyAfterQuit, BlockedOnlyBySignal,
       TidyFinishes
<1> QED
  BY <1>1, <1>2, <1>3, <1>4, <1>5, <1>6, <1>7, <1>8 DEF IInv, TypeOK
-----------------------------------------------------------------------------
(* Every step preserves the invariant.                                      *)
LEMMA NextKeeps == IInv /\ [Next]_vars => IInv'
<1> SUFFICES ASSUME IInv, [Next]_vars PROVE IInv'
  OBVIOUS
<1>1. CASE UNCHANGED vars
  BY <1>1 DEF IInv, TypeOK, ControlOK, FlagsOK, CountsOK, Chunks, FramesUsed,
       SocketWaits, OneServed, NoneServed, Handles, Created, Leaves, Sends,
       AssertOnlyAfterQuit, BlockedOnlyBySignal, vars
<1>2. ASSUME NEW c \in Client, NEW k \in Kind, Ask(c, k) PROVE IInv'
  BY <1>2, AskKeeps
<1>3. CASE Interrupt
  BY <1>3, InterruptKeeps
<1>4. CASE Main
  BY <1>4, CreateKeeps, StartKeeps, CommandKeeps, ReplyKeeps, IdleKeeps,
       CheckKeeps, JoinKeeps DEF Main
<1>5. CASE Reader
  BY <1>5, ReaderStartKeeps, ReaderDataKeeps, ReaderSendsFrameKeeps,
       ReaderSendsChunkKeeps, ReaderPollKeeps, ReaderCommandKeeps,
       ReaderReplyKeeps, ReaderFinishKeeps DEF Reader
<1>6. CASE Writer
  BY <1>6, WriterStartKeeps, WriterTopKeeps, WriterPollKeeps,
       WriterCommandKeeps, WriterServesKeeps, WriterSendsKeeps DEF Writer
<1>7. CASE Tidy
  BY <1>7, TidyFrameKeeps, TidyFinishesKeeps DEF Tidy
<1> QED
  BY <1>1, <1>2, <1>3, <1>4, <1>5, <1>6, <1>7 DEF Next

(* The invariant of the relay, of the loops of the threads and of the sends *)
(* between them holds throughout.                                           *)
THEOREM Invariance == Spec => []IInv
  BY InitHolds, NextKeeps, PTL DEF Spec

(* Every variable keeps its type; in particular there are never more chunks *)
(* or frames about than there are (writer.c:1258-1283, chunk.c:96-104).     *)
THEOREM TypeCorrect == Spec => []TypeOK
<1>1. IInv => TypeOK
  BY DEF IInv
<1> QED
  BY <1>1, Invariance, PTL

(* A command or a reply under way is for the client being served, and there *)
(* is one of them at most (snapshot.c:563-564): a reply never reaches       *)
(* another client than the one that asked.                                  *)
THEOREM RepliesGivenInTurn == Spec => []RepliesInTurn
<1>1. IInv => RepliesInTurn
  <2> SUFFICES ASSUME IInv PROVE RepliesInTurn
    OBVIOUS
  <2> DEFINE C == {t \in Thread : cmd[t] = current}
             R == {t \in Thread : rep[t] = current}
  <2>1. \A t \in Thread : cmd[t] \in {None, "quit", current} /\ rep[t] \in {None, current}
    BY DEF IInv, OneServed, NoneServed, TypeOK, FlagsOK
  <2>2. ASSUME current # None PROVE Cardinality(C) + Cardinality(R) <= 1
    <3>1. \A t, u \in Thread : t \in C \cup R /\ u \in C \cup R => t = u
      BY <2>2 DEF IInv, TypeOK, FlagsOK, SocketWaits, OneServed, NoneServed
    <3>2. C \cap R = {}
      BY <2>2 DEF IInv, SocketWaits
    <3>3. CASE C \cup R = {}
      <4>1. C = {} /\ R = {}
        BY <3>3
      <4> QED
        BY <4>1, FS_EmptySet
    <3>4. ASSUME NEW t \in C \cup R PROVE Cardinality(C) + Cardinality(R) <= 1
      <4>1. (C = {t} /\ R = {}) \/ (C = {} /\ R = {t})
        BY <3>1, <3>2
      <4>2. Cardinality({t}) = 1 /\ Cardinality({}) = 0
        BY FS_EmptySet, FS_Singleton
      <4> HIDE DEF C, R
      <4> QED
        BY <4>1, <4>2
    <3> QED
      BY <3>3, <3>4
  <2> QED
    BY <2>1, <2>2 DEF RepliesInTurn
<1> QED
  BY <1>1, Invariance, PTL

(* send_object_ptr's assertion (util.c:182-186) can fail in MAIN only after *)
(* a Quit was forwarded.                                                    *)
THEOREM SendsFailOnlyAfterQuit == Spec => []AssertOnlyAfterQuit
<1>1. IInv => AssertOnlyAfterQuit
  BY DEF IInv
<1> QED
  BY <1>1, Invariance, PTL

(* MAIN waits for ever to send to a thread that has gone only if the signal *)
(* came (snapshot.c:602, 614).                                              *)
THEOREM SendsBlockOnlyBySignal == Spec => []BlockedOnlyBySignal
<1>1. IInv => BlockedOnlyBySignal
  BY DEF IInv
<1> QED
  BY <1>1, Invariance, PTL
==============================================================================
