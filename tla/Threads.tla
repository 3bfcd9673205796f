------------------------------- MODULE Threads -------------------------------
(***************************************************************************)
(* The life of the four threads of snapshot and the relay of commands      *)
(* between them (snapshot.c, tidy.c, and the loops of reader.c, writer.c). *)
(*                                                                         *)
(* MAIN takes one request at a time from its REP socket and answers it or  *)
(* forwards it to the READER or the WRITER on a REQ socket.  Chunks go     *)
(* from the WRITER to the READER and back on a pair of sockets, their      *)
(* frames from the READER to TIDY; here they are only counted (ChunkFlow   *)
(* tells them apart).  What matters is which sends can block or fail:      *)
(*  - a send on a REQ socket that still waits for a reply fails, and       *)
(*    send_object_ptr asserts that it does not;                            *)
(*  - a send on a socket whose peer was closed blocks for ever.            *)
(* Messages sent before a socket was closed can still be received.         *)
(* A SIGINT sets die_die_die_now, which each thread reads in its loop.     *)
(***************************************************************************)
EXTENDS Naturals, Sequences, FiniteSets

CONSTANTS
  Client,        \* programs that use the command socket
  None,          \* no client
  MaxAsk,        \* bound: requests in all
  MaxChunk,      \* bound: chunks in the program at a time
  NFrame,        \* frames the transfer RAM is divided into
  MayInterrupt   \* TRUE if there may be a SIGINT

ASSUME ThreadsConstants ==
  /\ None \notin Client /\ "quit" \notin Client
  /\ MaxAsk \in Nat /\ MaxChunk \in Nat /\ NFrame \in Nat /\ MayInterrupt \in BOOLEAN

(* The threads that take commands, and the requests that differ: those for  *)
(* the READER, of which Halt empties its queue, those for the WRITER, of    *)
(* which Snap fills its queue, Quit, and those MAIN answers by itself.      *)
(* A Halt outside ARMED and RUN stands for all the READER's others.         *)
Thread == {"READER", "WRITER"}
Kind == {"halt", "snap", "quit", "ping"}
Destination(k) == IF k = "snap" THEN "WRITER" ELSE "READER"

VARIABLES
  main, reader, writer, tidy,   \* where each thread is
  r_running, w_running,         \* flags MAIN polls
  running,                      \* the WRITER's own
  die_die_die_now,              \* set by SIGINT
  asked,     \* asked[c]: the request client c waits for an answer to
  asks,      \* requests made
  queue,     \* clients whose requests MAIN has not read
  current,   \* the client the REP socket will answer
  quitting,  \* MAIN has forwarded a Quit
  req,       \* req[t]: MAIN's REQ socket to t is free or waiting
  cmd,       \* cmd[t]: message on its way to t: None, "quit", or for a client
  rep,       \* rep[t]: t's reply to MAIN, for a client
  wq, toReader, rq, toWriter,   \* chunks: queues and pipes
  back,      \* chunks the READER is about to send back
  framed,    \* the frame of the first of them has gone to TIDY
  toTidy, tidyFinish            \* frames, and the NULL after them

mainVars == <<main, asked, asks, queue, current, quitting, req>>
flags == <<r_running, w_running, die_die_die_now>>
readerVars == <<reader, rq, back, framed>>
writerVars == <<writer, running, wq>>
tidyVars == <<tidy>>
pipes == <<toReader, toWriter, toTidy, tidyFinish>>
vars == <<mainVars, flags, readerVars, writerVars, tidyVars, pipes, cmd, rep>>

Chunks == wq + toReader + rq + toWriter + back

(* Frames that hold or held the data of a chunk; framed: one has gone.      *)
FramesUsed == toReader + rq + back + toTidy - (IF framed THEN 1 ELSE 0)

ControlOK ==
  /\ main \in {"create", "start", "loop", "check", "blocked", "joinReader", "joinWriter",
               "joinTidy", "exited", "failed", "aborted"}
  /\ reader \in {"none", "start", "data", "poll", "command", "reply", "finish", "ended"}
  /\ writer \in {"none", "start", "top", "poll", "command", "serve", "send", "ended"}
  /\ tidy \in {"run", "ended"}
  /\ asked \in [Client -> Kind \cup {None}] /\ asks \in 0 .. MaxAsk
  /\ queue \in Seq(Client) /\ current \in Client \cup {None}
  /\ req \in [Thread -> {"free", "waiting"}]
  /\ cmd \in [Thread -> Client \cup {None, "quit"}]
  /\ rep \in [Thread -> Client \cup {None}]

FlagsOK ==
  /\ r_running \in BOOLEAN /\ w_running \in BOOLEAN /\ running \in BOOLEAN
  /\ die_die_die_now \in BOOLEAN /\ quitting \in BOOLEAN
  /\ framed \in BOOLEAN /\ tidyFinish \in BOOLEAN

CountsOK ==
  /\ wq \in Nat /\ toReader \in Nat /\ rq \in Nat /\ toWriter \in Nat
  /\ back \in Nat /\ toTidy \in Nat
  /\ Chunks <= MaxChunk /\ FramesUsed <= NFrame

TypeOK == ControlOK /\ FlagsOK /\ CountsOK

Init ==
  /\ main = "create" /\ reader = "none" /\ writer = "none" /\ tidy = "run"
  /\ r_running = FALSE /\ w_running = FALSE /\ running = FALSE
  /\ die_die_die_now = FALSE
  /\ asked = [c \in Client |-> None] /\ asks = 0 /\ queue = <<>>
  /\ current = None /\ quitting = FALSE
  /\ req = [t \in Thread |-> "free"]
  /\ cmd = [t \in Thread |-> None] /\ rep = [t \in Thread |-> None]
  /\ wq = 0 /\ toReader = 0 /\ rq = 0 /\ toWriter = 0
  /\ back = 0 /\ framed = FALSE /\ toTidy = 0 /\ tidyFinish = FALSE

Ended(t) == IF t = "READER" THEN reader \in {"none", "ended"} ELSE writer \in {"none", "ended"}
-----------------------------------------------------------------------------
(***************************************************************************)
(* Clients, and the signal.                                                *)
(***************************************************************************)
Gone == main \in {"exited", "failed", "aborted"}

Ask(c, k) ==
  /\ ~Gone /\ asked[c] = None /\ asks < MaxAsk
  /\ asked' = [asked EXCEPT ![c] = k] /\ asks' = asks + 1
  /\ queue' = Append(queue, c)
  /\ UNCHANGED <<main, current, quitting, req, flags, readerVars, writerVars,
                 tidyVars, pipes, cmd, rep>>

Interrupt ==
  /\ MayInterrupt /\ ~Gone /\ ~die_die_die_now
  /\ die_die_die_now' = TRUE
  /\ UNCHANGED <<mainVars, r_running, w_running, readerVars, writerVars,
                 tidyVars, pipes, cmd, rep>>
-----------------------------------------------------------------------------
(***************************************************************************)
(* MAIN.                                                                   *)
(***************************************************************************)
otherThreads == <<flags, readerVars, writerVars, tidyVars, pipes>>

(* TIDY runs; the READER and the WRITER are created unless a signal came.   *)
MainCreate ==
  /\ main = "create"
  /\ IF die_die_die_now
       THEN main' = "loop" /\ UNCHANGED <<reader, writer>>
       ELSE main' = "start" /\ reader' = "start" /\ writer' = "start"
  /\ UNCHANGED <<asked, asks, queue, current, quitting, req, flags, running, wq,
                 rq, back, framed, tidyVars, pipes, cmd, rep>>

(* It waits for them to run, but not for long.                              *)
MainStart ==
  /\ main = "start"
  /\ \/ main' = "loop" /\ (die_die_die_now \/ (r_running /\ w_running))
     \/ main' = "failed"
  /\ UNCHANGED <<asked, asks, queue, current, quitting, req, otherThreads, cmd, rep>>

(* The answer of client c is on its way.                                    *)
Answered(c) == asked' = [asked EXCEPT ![c] = None]

(* Mutant: a forwarded command is taken for answered.                       *)
Forward_Answered(c, t) ==
  /\ Answered(c) /\ current' = None
  /\ req' = [req EXCEPT ![t] = "waiting"] /\ cmd' = [cmd EXCEPT ![t] = c]

(* The command of client c goes to thread t, whose reply will answer c.     *)
Forward(c, t) ==
  /\ current' = c /\ UNCHANGED asked
  /\ req' = [req EXCEPT ![t] = "waiting"] /\ cmd' = [cmd EXCEPT ![t] = c]

(* Mutant: a Quit leaves the sockets to the threads free.                   *)
ForwardQuit_Free(c) ==
  /\ Answered(c) /\ current' = None
  /\ req' = req /\ cmd' = [t \in Thread |-> "quit"]

(* Quit goes to both threads; MAIN answers it, they do not.                 *)
ForwardQuit(c) ==
  /\ Answered(c) /\ current' = None
  /\ req' = [t \in Thread |-> "waiting"] /\ cmd' = [t \in Thread |-> "quit"]

(* The threads command k is sent to, in order.                              *)
Targets(k) == IF k = "ping" THEN {} ELSE IF k = "quit" THEN Thread ELSE {Destination(k)}

MainCommand ==
  /\ main = "loop" /\ queue # <<>> /\ current = None
  /\ queue' = Tail(queue)
  /\ LET c == Head(queue)
         k == asked[c]
         fails == \E t \in Targets(k) : req[t] = "waiting"
         blocks == \E t \in Targets(k) : req[t] = "free" /\ Ended(t)
     IN \/ /\ k = "ping" /\ Answered(c)
           /\ UNCHANGED <<main, current, quitting, req, cmd>>
        \/ /\ k = "quit" /\ ~fails /\ ~blocks /\ ForwardQuit(c)
           /\ quitting' = TRUE /\ UNCHANGED main
        \/ /\ k \notin {"ping", "quit"} /\ ~fails /\ ~blocks /\ Forward(c, Destination(k))
           /\ UNCHANGED <<main, quitting>>
        \/ /\ fails \/ blocks
           /\ main' \in (IF fails THEN {"aborted"} ELSE {}) \cup (IF blocks THEN {"blocked"} ELSE {})
           /\ UNCHANGED <<asked, current, quitting, req, cmd>>
  /\ UNCHANGED <<asks, otherThreads, rep>>

(* process_reply: the reply of thread t goes to whoever the REP socket is   *)
(* serving.                                                                 *)
MainReply(t) ==
  /\ main = "loop" /\ rep[t] # None
  /\ rep' = [rep EXCEPT ![t] = None] /\ req' = [req EXCEPT ![t] = "free"]
  /\ IF current # None THEN Answered(current) ELSE UNCHANGED asked
  /\ current' = None
  /\ UNCHANGED <<main, asks, queue, quitting, otherThreads, cmd>>

(* A poll that finds nothing is followed by a look at the flags.            *)
MainIdle ==
  /\ main = "loop"
  /\ queue = <<>> \/ current # None
  /\ \A t \in Thread : rep[t] = None
  /\ main' = "check"
  /\ UNCHANGED <<asked, asks, queue, current, quitting, req, otherThreads, cmd, rep>>

MainCheck ==
  /\ main = "check"
  /\ main' = IF r_running \/ w_running THEN "loop" ELSE "joinReader"
  /\ UNCHANGED <<asked, asks, queue, current, quitting, req, otherThreads, cmd, rep>>

MainJoin ==
  /\ \/ main = "joinReader" /\ Ended("READER") /\ main' = "joinWriter"
     \/ main = "joinWriter" /\ Ended("WRITER") /\ main' = "joinTidy"
     \/ main = "joinTidy" /\ tidy = "ended" /\ main' = "exited"
  /\ UNCHANGED <<asked, asks, queue, current, quitting, req, otherThreads, cmd, rep>>
-----------------------------------------------------------------------------
(***************************************************************************)
(* READER.  It does nothing else until the chunks it must send are sent,   *)
(* each after its frame.                                                   *)
(***************************************************************************)
readerOnly == <<mainVars, w_running, die_die_die_now, writerVars, tidyVars>>

ReaderStart ==
  /\ reader = "start"
  /\ reader' = "data" /\ r_running' = TRUE
  /\ UNCHANGED <<readerOnly, rq, back, framed, pipes, cmd, rep>>

(* The top of its loop: the chunks at the head of the queue whose data have *)
(* arrived are done; all are if the data ceased to come.                    *)
ReaderData ==
  /\ reader = "data" /\ back = 0
  /\ IF r_running /\ ~die_die_die_now
       THEN \E n \in 0 .. rq : reader' = "poll" /\ back' = n /\ rq' = rq - n
       ELSE reader' = "finish" /\ UNCHANGED <<back, rq>>
  /\ UNCHANGED <<readerOnly, r_running, framed, pipes, cmd, rep>>

ReaderSendsFrame ==
  /\ back > 0 /\ ~framed /\ tidy # "ended"
  /\ framed' = TRUE /\ toTidy' = toTidy + 1
  /\ UNCHANGED <<readerOnly, r_running, reader, rq, back, toReader, toWriter, tidyFinish, cmd, rep>>

ReaderSendsChunk ==
  /\ back > 0 /\ framed /\ ~Ended("WRITER")
  /\ framed' = FALSE /\ back' = back - 1 /\ toWriter' = toWriter + 1
  /\ UNCHANGED <<readerOnly, r_running, reader, rq, toReader, toTidy, tidyFinish, cmd, rep>>

(* A chunk goes back with n chunks of its file that are queued.             *)
Returned(n) == rq' = rq - n /\ back' = n + 1

(* One poll: at most one chunk, which is queued or goes back at once, then  *)
(* at most one command.                                                     *)
ReaderPoll ==
  /\ reader = "poll" /\ back = 0
  /\ \/ /\ reader' = IF cmd["READER"] = None THEN "data" ELSE "command"
        /\ \/ toReader = 0 /\ UNCHANGED <<rq, back, toReader>>
           \/ /\ toReader > 0 /\ toReader' = toReader - 1
              /\ \/ rq' = rq + 1 /\ UNCHANGED back
                 \/ \E n \in 0 .. rq : Returned(n)
     \/ die_die_die_now /\ reader' = "finish" /\ UNCHANGED <<rq, back, toReader>>
  /\ UNCHANGED <<readerOnly, r_running, framed, toWriter, toTidy, tidyFinish, cmd, rep>>

(* What the READER does at once when it receives a Quit.                    *)
Stops == r_running' = FALSE /\ UNCHANGED tidyFinish

(* Quit stops the loop; a Halt may empty the queue before its reply.        *)
ReaderCommand ==
  /\ reader = "command" /\ back = 0
  /\ IF cmd["READER"] = "quit"
       THEN /\ Stops /\ reader' = "data"
            /\ cmd' = [cmd EXCEPT !["READER"] = None]
            /\ UNCHANGED <<rq, back>>
       ELSE /\ reader' = "reply" /\ UNCHANGED <<r_running, tidyFinish, cmd>>
            /\ IF asked[cmd["READER"]] = "halt"
                 THEN \/ back' = rq /\ rq' = 0
                      \/ UNCHANGED <<rq, back>>    \* not ARMED or RUN
                 ELSE UNCHANGED <<rq, back>>
  /\ UNCHANGED <<readerOnly, framed, toReader, toWriter, toTidy, rep>>

(* Mutant: a path through the command handler that sends no reply.          *)
SendReply_Not == UNCHANGED rep

SendReply == rep' = [rep EXCEPT !["READER"] = cmd["READER"]]

ReaderReply ==
  /\ reader = "reply" /\ back = 0
  /\ SendReply
  /\ cmd' = [cmd EXCEPT !["READER"] = None]
  /\ reader' = "data"
  /\ UNCHANGED <<readerOnly, r_running, rq, back, framed, pipes>>

(* Mutant: the READER ends without a word to TIDY.                          *)
TellTidy_Not == UNCHANGED tidyFinish

(* The message of length 0 that ends TIDY.                                  *)
TellTidy == tidyFinish' = TRUE

(* What the READER had not received, or had queued, is lost.                *)
ReaderFinish ==
  /\ reader = "finish" /\ tidy # "ended"
  /\ TellTidy
  /\ reader' = "ended" /\ r_running' = FALSE
  /\ toReader' = 0 /\ cmd' = [cmd EXCEPT !["READER"] = None]
  /\ UNCHANGED <<readerOnly, rq, back, framed, toWriter, toTidy, rep>>
-----------------------------------------------------------------------------
(***************************************************************************)
(* WRITER.                                                                 *)
(***************************************************************************)
writerOnly == <<mainVars, r_running, die_die_die_now, readerVars, tidyVars, toTidy, tidyFinish>>

WriterStart ==
  /\ writer = "start"
  /\ writer' = "top"
  /\ w_running' = ~die_die_die_now /\ running' = ~die_die_die_now
  /\ UNCHANGED <<writerOnly, wq, toReader, toWriter, cmd, rep>>

WriterEnds ==
  /\ writer' = "ended" /\ w_running' = FALSE
  /\ toWriter' = 0 /\ cmd' = [cmd EXCEPT !["WRITER"] = None]
  /\ UNCHANGED <<running, wq, toReader, rep>>

WriterTop ==
  /\ writer = "top"
  /\ IF running /\ ~die_die_die_now
       THEN writer' = "poll" /\ UNCHANGED <<w_running, running, wq, toReader, toWriter, cmd, rep>>
       ELSE WriterEnds
  /\ UNCHANGED writerOnly

(* Files that end, fail or are set up change the WRITER's chunk queue.      *)
Refiled == wq' \in 0 .. MaxChunk

(* One poll: at most one chunk, then at most one command.                   *)
WriterPoll ==
  /\ writer = "poll"
  /\ \/ /\ writer' = IF cmd["WRITER"] = None THEN "serve" ELSE "command"
        /\ \/ toWriter = 0 /\ UNCHANGED <<wq, toWriter>>
           \/ toWriter > 0 /\ toWriter' = toWriter - 1 /\ Refiled
        /\ UNCHANGED <<w_running, running, toReader, cmd, rep>>
     \/ die_die_die_now /\ WriterEnds
  /\ UNCHANGED writerOnly /\ Chunks' <= MaxChunk

(* A Quit ends the loop after one more service of the queue.                *)
WriterCommand ==
  /\ writer = "command"
  /\ writer' = "serve" /\ cmd' = [cmd EXCEPT !["WRITER"] = None]
  /\ IF cmd["WRITER"] = "quit"
       THEN running' = FALSE /\ UNCHANGED <<wq, rep>>
       ELSE /\ rep' = [rep EXCEPT !["WRITER"] = cmd["WRITER"]]
            /\ Refiled /\ UNCHANGED running
  /\ UNCHANGED <<writerOnly, w_running, toReader, toWriter>> /\ Chunks' <= MaxChunk

(* writer_service_queue: while there are chunks, frames and time, a chunk   *)
(* is mapped and sent; a chunk that cannot be mapped may end its file.      *)
WriterServes ==
  /\ writer = "serve"
  /\ \/ wq > 0 /\ FramesUsed < NFrame /\ writer' = "send" /\ UNCHANGED wq
     \/ writer' = "top" /\ UNCHANGED wq
     \/ wq > 0 /\ writer' = "top" /\ Refiled
  /\ UNCHANGED <<writerOnly, w_running, running, toReader, toWriter, cmd, rep>>
  /\ Chunks' <= MaxChunk

WriterSends ==
  /\ writer = "send" /\ ~Ended("READER")
  /\ writer' = "serve" /\ wq' = wq - 1 /\ toReader' = toReader + 1
  /\ UNCHANGED <<writerOnly, w_running, running, toWriter, cmd, rep>>
-----------------------------------------------------------------------------
(***************************************************************************)
(* TIDY.  A frame received after the signal is not released.               *)
(***************************************************************************)
TidyFrame ==
  /\ tidy = "run" /\ toTidy > 0
  /\ toTidy' = toTidy - 1
  /\ tidy' = IF die_die_die_now THEN "ended" ELSE "run"
  /\ UNCHANGED <<mainVars, flags, readerVars, writerVars, toReader, toWriter, tidyFinish, cmd, rep>>

TidyFinishes ==
  /\ tidy = "run" /\ toTidy = 0 /\ tidyFinish
  /\ tidy' = "ended" /\ tidyFinish' = FALSE
  /\ UNCHANGED <<mainVars, flags, readerVars, writerVars, toReader, toWriter, toTidy, cmd, rep>>
-----------------------------------------------------------------------------
(* An assertion that fails, a start that fails and the exit end the program.*)
Main ==
  \/ MainCreate \/ MainStart \/ MainCommand \/ MainIdle \/ MainCheck \/ MainJoin
  \/ \E t \in Thread : MainReply(t)
Reader ==
  /\ ~Gone
  /\ \/ ReaderStart \/ ReaderData \/ ReaderSendsFrame \/ ReaderSendsChunk
     \/ ReaderPoll \/ ReaderCommand \/ ReaderReply \/ ReaderFinish
Writer ==
  /\ ~Gone
  /\ WriterStart \/ WriterTop \/ WriterPoll \/ WriterCommand \/ WriterServes \/ WriterSends
Tidy == ~Gone /\ (TidyFrame \/ TidyFinishes)

Next ==
  \/ \E c \in Client, k \in Kind : Ask(c, k)
  \/ Interrupt
  \/ Main \/ Reader \/ Writer \/ Tidy

Spec == Init /\ [][Next]_vars

(* Every thread that can go on does: the scheduler is fair and every poll   *)
(* has a timeout.  Clients and the signal owe nothing.                      *)
FairSpec == Spec /\ WF_vars(Main) /\ WF_vars(Reader) /\ WF_vars(Writer) /\ WF_vars(Tidy)
-----------------------------------------------------------------------------
(* One command at a time is under way, so that a reply always answers the   *)
(* request the REP socket is serving (snapshot.c:563-564): a command or a   *)
(* reply that is under way is for the client being served, and of one       *)
(* client there is not both, nor two.                                       *)
RepliesInTurn ==
  /\ \A t \in Thread : cmd[t] \in {None, "quit", current} /\ rep[t] \in {None, current}
  /\ current # None => Cardinality({t \in Thread : cmd[t] = current})
                       + Cardinality({t \in Thread : rep[t] = current}) <= 1

(* MAIN never sends on a REQ socket that waits for a reply, which           *)
(* send_object_ptr would answer with an assertion (util.c:182-186), unless  *)
(* a Quit has left both sockets waiting for replies that nobody sends.      *)
AssertOnlyAfterQuit == main = "aborted" => quitting

(* MAIN is never blocked by a thread that has gone, as it would be if it    *)
(* forwarded a command, unless the signal came (snapshot.c:602, 614).       *)
BlockedOnlyBySignal == main = "blocked" => die_die_die_now

(* What is inductive.  A command or a reply under way keeps its socket      *)
(* waiting, and there is never both.                                        *)
SocketWaits ==
  \A t \in Thread :
    /\ cmd[t] # None \/ rep[t] # None => req[t] = "waiting"
    /\ cmd[t] = None \/ rep[t] = None

(* Until a Quit at most one socket waits, for the client being served.      *)
OneServed ==
  ~quitting =>
    /\ \A t \in Thread : req[t] = "waiting" => current # None
    /\ \A t, u \in Thread : req[t] = "waiting" /\ req[u] = "waiting" => t = u
    /\ \A t \in Thread : cmd[t] \in {None, current} /\ rep[t] \in {None, current}

(* After it both wait for ever, and nobody is served.                       *)
NoneServed ==
  quitting =>
    /\ current = None
    /\ \A t \in Thread : req[t] = "waiting" /\ cmd[t] \in {None, "quit"} /\ rep[t] = None

(* A command is handled until it is replied to; a thread leaves, or was     *)
(* never there once MAIN may create it, only for a Quit or the signal.      *)
Handles ==
  /\ reader = "command" => cmd["READER"] # None
  /\ reader = "reply" => cmd["READER"] \notin {None, "quit"}
  /\ writer = "command" => cmd["WRITER"] # None
Created == main = "create" => reader = "none" /\ writer = "none"
Leaves ==
  \/ quitting \/ die_die_die_now
  \/ /\ (reader # "none" /\ writer # "none") \/ main = "create"
     /\ reader \notin {"finish", "ended"} /\ writer # "ended"
     /\ reader \notin {"none", "start"} => r_running
     /\ writer \notin {"none", "start"} => running

(* The sends: of a chunk that has its frame, and of one that is to go back. *)
Sends ==
  /\ writer = "send" => wq > 0 /\ FramesUsed < NFrame
  /\ framed => back > 0
  /\ reader \in {"none", "start", "finish", "ended"} => back = 0

IInv == TypeOK /\ SocketWaits /\ OneServed /\ NoneServed
        /\ Handles /\ Created /\ Leaves /\ Sends
        /\ AssertOnlyAfterQuit /\ BlockedOnlyBySignal

(* While nobody says Quit or sends a signal every request is answered: no   *)
(* wait of the four threads on one another is circular.                     *)
CommandAnswered ==
  \A c \in Client :
    (asked[c] # None) ~> (asked[c] = None \/ quitting \/ die_die_die_now \/ main = "failed")

(* A thread waits to send to one that is no longer there.                   *)
Stuck ==
  \/ main = "blocked"
  \/ writer = "send" /\ Ended("READER")
  \/ back > 0 /\ framed /\ Ended("WRITER")
  \/ tidy = "ended" /\ (reader = "finish" \/ (back > 0 /\ ~framed))

(* Nobody was created to end TIDY (snapshot.c:911).                         *)
Unborn == main = "joinTidy" /\ reader = "none"

(* After a Quit, or the signal, the program is over - it exits, or an       *)
(* assertion fails - or one of the threads is stuck in a send to another    *)
(* that left before it; there is no other way not to end.                   *)
EndsOrSticks == (quitting \/ die_die_die_now) ~> (Gone \/ Stuck \/ Unborn)
=============================================================================
