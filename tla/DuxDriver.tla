------------------------------- MODULE DuxDriver -------------------------------
(***************************************************************************)
(* The transfer of the samples: the author's USBDUXfast driver (kernel/),  *)
(* in its ports to Linux 3.18 and 4.6, as the daemon uses it.  A command   *)
(* submits USB request blocks (URBs); the interrupt handler of one that is *)
(* complete submits the next, copies the data to Comedi and reports the    *)
(* end or an error; cancel, by a system call, kills what is in flight.     *)
(* With "paired" one URB of each pair is submitted first and its handler   *)
(* submits the other before it copies, so that the device never waits.     *)
(*                                                                         *)
(* External: the USB core (a URB is in flight from submission till its     *)
(* handler is called; handlers of one device are called one at a time, in  *)
(* order; submitting a URB in flight or being killed fails) and the core   *)
(* of Comedi (runflag; no driver cancel after an event that ended a        *)
(* command; a cancel before detach).  SMP tells whether system calls go on *)
(* while a handler runs on another processor.                              *)
(***************************************************************************)
EXTENDS Integers, Sequences, SequencesExt

CONSTANTS
  Ports,        \* "3.18" and "4.6"
  MaxUrbs,      \* MAX_NUM_URBS
  DefaultUrbs,  \* DEFAULT_NUM_URBS
  AskedUrbs,    \* values of the module's parameter nurbs
  Ignore,       \* PACKETS_TO_IGNORE
  MaxCommands,  \* bound: commands started
  SMP,          \* system calls run beside handlers
  Quick         \* a packet takes longer than the submission of all URBs

ASSUME DriverAssumption ==
  /\ Ports \subseteq {"3.18", "4.6"}
  /\ MaxUrbs \in Nat /\ MaxUrbs >= 2 /\ MaxUrbs % 2 = 0
  /\ DefaultUrbs \in 1 .. MaxUrbs
  /\ AskedUrbs \subseteq Int
  /\ Ignore \in Nat /\ MaxCommands \in Nat /\ SMP \in BOOLEAN /\ Quick \in BOOLEAN

VARIABLES
  port,     \* the port that is loaded
  paired,   \* module parameter
  nurbs,    \* module parameter, made legal by the probe
  attached, \* "no", "failed" half way, or "yes"
  held,     \* what attach has allocated
  ai_cmd_running, ignore,
  urb_active,  \* the count as the handler and cancel use it: zero or not
  flight,   \* URBs in flight, in order
  by,       \* the command that submitted each URB
  h,        \* the handler: where it is, its URB, whether an event ends all
  runflag,  \* Comedi: the subdevice runs a command
  inttrig,  \* s->async->inttrig is set
  call,     \* the system call: where it is and at which URB
  cmd,      \* commands started
  tries,    \* how often the URBs of this command were submitted, at most 2
  dropped,  \* packets of this command that were ignored
  spoilt    \* another packet was passed on in this command

loadVars == <<port, paired, nurbs>>
deviceVars == <<attached, held>>
urbVars == <<urb_active, flight, by>>
coreVars == <<runflag, inttrig>>
packetVars == <<cmd, tries, dropped, spoilt>>
vars == <<loadVars, deviceVars, ai_cmd_running, ignore, urbVars, h, coreVars, call, packetVars>>

Urbs == 0 .. nurbs - 1
InFlight(j) == \E i \in DOMAIN flight : flight[i] = j
Pieces == {<<"duxbuf", 0>>, <<"insnbuf", 0>>} \cup ({"urb", "inbuf"} \X (0 .. MaxUrbs - 1))

Idle == [at |-> "idle", urb |-> 0, bad |-> FALSE, ev |-> FALSE]
NoCall == [at |-> "idle", j |-> 0, trig |-> FALSE]

TypeOK ==
  /\ port \in Ports /\ paired \in BOOLEAN /\ nurbs \in 1 .. MaxUrbs
  /\ attached \in {"no", "failed", "yes"} /\ held \subseteq Pieces
  /\ ai_cmd_running \in BOOLEAN /\ ignore \in 0 .. Ignore
  /\ urb_active \in [0 .. MaxUrbs - 1 -> BOOLEAN]
  /\ flight \in Seq(Urbs) /\ IsInjective(flight)
  /\ by \in [0 .. MaxUrbs - 1 -> 0 .. cmd]
  /\ h \in [at : {"idle", "check", "pair", "mark", "copy", "tail", "event", "fail", "stop"},
            urb : Urbs, bad : BOOLEAN, ev : BOOLEAN]
  /\ runflag \in BOOLEAN /\ inttrig \in BOOLEAN
  /\ call \in [at : {"idle", "submit", "mark", "kill", "cancelled", "detach"},
               j : 0 .. nurbs, trig : BOOLEAN]
  /\ cmd \in 0 .. MaxCommands /\ tries \in 0 .. 2 /\ dropped \in 0 .. Ignore /\ spoilt \in BOOLEAN
-----------------------------------------------------------------------------
(***************************************************************************)
(* Loading, attaching and detaching.                                       *)
(***************************************************************************)

(* usbduxfast_usb_probe: a partner exists for every URB of a pair.          *)
Probed(n, p) ==
  LET asked == IF n <= 0 THEN DefaultUrbs ELSE n
      even == IF p THEN 2 * ((asked + 1) \div 2) ELSE asked
  IN IF even > MaxUrbs THEN MaxUrbs ELSE even

Init ==
  /\ port \in Ports /\ paired \in BOOLEAN
  /\ \E n \in AskedUrbs : nurbs = Probed(n, paired)
  /\ attached = "no" /\ held = {}
  /\ ai_cmd_running = FALSE /\ ignore = 0
  /\ urb_active = [j \in 0 .. MaxUrbs - 1 |-> FALSE]
  /\ flight = <<>> /\ by = [j \in 0 .. MaxUrbs - 1 |-> 0]
  /\ h = Idle /\ runflag = FALSE /\ inttrig = FALSE
  /\ call = NoCall /\ cmd = 0 /\ tries = 0 /\ dropped = 0 /\ spoilt = FALSE

(* The order of the allocations; each may fail.                             *)
Allocations46 ==
  <<<<"duxbuf", 0>>>> \o [j \in 1 .. nurbs |-> <<"urb", j - 1>>]
               \o [j \in 1 .. nurbs |-> <<"inbuf", j - 1>>] \o <<<<"insnbuf", 0>>>>
Allocations318 ==
  <<<<"duxbuf", 0>>>> \o [j \in 1 .. nurbs |-> <<"urb", j - 1>>]
               \o [j \in 1 .. nurbs |-> <<"inbuf", j - 1>>]
Allocations == IF port = "3.18" THEN Allocations318 ELSE Allocations46

Attach ==
  /\ attached = "no"
  /\ \E n \in 0 .. Len(Allocations) :
       /\ held' = {Allocations[i] : i \in 1 .. n}
       /\ \/ n = Len(Allocations) /\ attached' = "yes"
          \/ attached' = "failed"  \* this allocation, or what comes after it
  /\ ai_cmd_running' = FALSE
  /\ urb_active' = [j \in 0 .. MaxUrbs - 1 |-> FALSE]
  /\ UNCHANGED <<loadVars, ignore, flight, by, h, coreVars, call, packetVars>>

(* detach goes over the URBs up to the first that is not there.  Mutant: up *)
(* to the first that has no buffer.                                         *)
There_WithBuffer(j) == <<"urb", j>> \in held /\ <<"inbuf", j>> \in held
There(j) == <<"urb", j>> \in held
Reached == {j \in Urbs : \A i \in 0 .. j : There(i)}
Freed == {<<"duxbuf", 0>>, <<"insnbuf", 0>>} \cup ({"urb", "inbuf"} \X Reached)

(* On one processor no call goes on while a handler runs, so that cancel,   *)
(* which clears ai_cmd_running first, meets none that submits and marks     *)
(* URBs: what it may leave in flight beside another processor is cut away.  *)
CallStep == SMP \/ h.at = "idle"

Detach ==
  /\ CallStep /\ call.at = "idle" /\ attached # "no" /\ ~runflag
  /\ call' = [NoCall EXCEPT !.at = "detach"]
  /\ UNCHANGED <<loadVars, deviceVars, ai_cmd_running, ignore, urbVars, h, coreVars, packetVars>>

(* usb_kill_urb takes a URB off and waits for its handler to return.        *)
Killed(j) ==
  /\ h.at = "idle" \/ h.urb # j
  /\ IF InFlight(j) THEN \E i \in DOMAIN flight : flight[i] = j /\ flight' = RemoveAt(flight, i)
     ELSE UNCHANGED flight

DetachKill ==
  /\ CallStep /\ call.at = "detach" /\ call.j < nurbs /\ There(call.j)
  /\ Killed(call.j)
  /\ call' = [call EXCEPT !.j = @ + 1]
  /\ UNCHANGED <<loadVars, deviceVars, ai_cmd_running, ignore, urb_active, by, h, coreVars, packetVars>>

DetachFree ==
  /\ CallStep /\ call.at = "detach" /\ (call.j = nurbs \/ ~There(call.j))
  /\ attached' = "no" /\ held' = held \ Freed
  /\ urb_active' = [j \in 0 .. MaxUrbs - 1 |-> urb_active[j] /\ j \notin Reached]
  /\ call' = NoCall
  /\ UNCHANGED <<loadVars, ai_cmd_running, ignore, flight, by, h, coreVars, packetVars>>
-----------------------------------------------------------------------------
(***************************************************************************)
(* The system calls of a command.                                          *)
(***************************************************************************)

(* Mutant: what is left of the count is kept.                               *)
StartIgnoring_Kept == ignore' = IF cmd = 0 THEN Ignore ELSE ignore
StartIgnoring == ignore' = Ignore

(* Comedi sets runflag and takes it back if the command fails: the driver   *)
(* is busy, or the program does not reach the chip.                         *)
AiCmd ==
  /\ CallStep /\ call.at = "idle" /\ attached = "yes" /\ ~runflag
  /\ cmd < MaxCommands /\ cmd' = cmd + 1 /\ tries' = 0
  /\ \/ ai_cmd_running /\ UNCHANGED <<ai_cmd_running, ignore, dropped, spoilt, runflag, inttrig, call>>
     \/ /\ ~ai_cmd_running
        /\ StartIgnoring /\ dropped' = 0 /\ spoilt' = FALSE
        /\ \/ UNCHANGED <<ai_cmd_running, runflag, inttrig, call>>
           \/ \* TRIG_NOW or TRIG_EXT
              /\ ai_cmd_running' = TRUE /\ runflag' = TRUE
              /\ call' = [NoCall EXCEPT !.at = "submit"] /\ UNCHANGED inttrig
           \/ \* TRIG_INT
              /\ runflag' = TRUE /\ inttrig' = TRUE
              /\ UNCHANGED <<ai_cmd_running, call>>
  /\ UNCHANGED <<loadVars, deviceVars, urbVars, h>>

AiInttrig ==
  /\ CallStep /\ call.at = "idle" /\ attached = "yes" /\ runflag /\ inttrig
  /\ ~ai_cmd_running /\ ai_cmd_running' = TRUE
  /\ call' = [at |-> "submit", j |-> 0, trig |-> TRUE]
  /\ tries' = IF tries = 2 THEN 2 ELSE tries + 1
  /\ UNCHANGED <<loadVars, deviceVars, ignore, urbVars, h, coreVars, cmd, dropped, spoilt>>

(* A URB is taken by the USB core.                                          *)
Submitted(j) ==
  /\ ~InFlight(j)
  /\ flight' = Append(flight, j) /\ by' = [by EXCEPT ![j] = cmd]

(* usbduxfast_submit_urb, one URB at a time: of a pair, the first only.  A  *)
(* failure leaves the ones before in flight; Comedi ends the command, but   *)
(* not one that was only triggered.                                         *)
SubmitUrb ==
  /\ CallStep /\ call.at = "submit"
  /\ \/ Submitted(call.j) /\ call' = [call EXCEPT !.at = "mark"]
        /\ UNCHANGED <<ai_cmd_running, runflag>>
     \/ /\ ai_cmd_running' = FALSE
        /\ runflag' = (runflag /\ call.trig)
        /\ call' = NoCall /\ UNCHANGED <<flight, by>>
  /\ UNCHANGED <<loadVars, deviceVars, ignore, urb_active, h, inttrig, packetVars>>

MarkUrb ==
  /\ CallStep /\ call.at = "mark"
  /\ urb_active' = [urb_active EXCEPT ![call.j] = TRUE]
  /\ LET next == call.j + (IF paired THEN 2 ELSE 1) IN
       IF next < nurbs THEN call' = [call EXCEPT !.at = "submit", !.j = next] /\ UNCHANGED inttrig
       ELSE call' = NoCall /\ inttrig' = FALSE
  /\ UNCHANGED <<loadVars, deviceVars, ai_cmd_running, ignore, flight, by, h, runflag, packetVars>>

(* Comedi calls the driver only while runflag is set.                       *)
AiCancel ==
  /\ CallStep /\ call.at = "idle" /\ attached = "yes" /\ runflag
  /\ ai_cmd_running' = FALSE
  /\ call' = [NoCall EXCEPT !.at = "kill"]
  /\ UNCHANGED <<loadVars, deviceVars, ignore, urbVars, h, coreVars, packetVars>>

ToKill(j) == urb_active[j]

(* The loop of usbduxfast_ai_stop.                                          *)
KillUrb ==
  /\ CallStep /\ call.at = "kill"
  /\ IF ToKill(call.j) THEN Killed(call.j) ELSE UNCHANGED flight
  /\ urb_active' = [urb_active EXCEPT ![call.j] = FALSE]
  /\ call' = IF call.j + 1 < nurbs THEN [call EXCEPT !.j = @ + 1]
             ELSE [call EXCEPT !.at = "cancelled"]
  /\ UNCHANGED <<loadVars, deviceVars, ai_cmd_running, ignore, by, h, coreVars, packetVars>>

CancelReturns ==
  /\ CallStep /\ call.at = "cancelled"
  /\ runflag' = FALSE /\ inttrig' = FALSE /\ call' = NoCall
  /\ UNCHANGED <<loadVars, deviceVars, ai_cmd_running, ignore, urbVars, h, packetVars>>
-----------------------------------------------------------------------------
(***************************************************************************)
(* The interrupt handler.                                                  *)
(***************************************************************************)

(* The first URB in flight is complete, with data or with an error.         *)
Complete(bad) ==
  /\ flight # <<>> /\ h.at = "idle"
  /\ Quick /\ call.at \in {"submit", "mark"} => by[Head(flight)] # cmd
  /\ flight' = Tail(flight)
  /\ h' = [at |-> "check", urb |-> Head(flight), bad |-> bad, ev |-> FALSE]
  /\ UNCHANGED <<loadVars, deviceVars, ai_cmd_running, ignore, urb_active, by, coreVars, call, packetVars>>

(* usbduxfast_ai_interrupt: a packet after the end is not looked at.        *)
NotRunning ==
  /\ h.at = "check" /\ ~ai_cmd_running /\ h' = Idle
  /\ UNCHANGED <<loadVars, deviceVars, ai_cmd_running, ignore, urbVars, coreVars, call, packetVars>>

GoOn == IF paired THEN "pair" ELSE "copy"
Cleared == urb_active' = [urb_active EXCEPT ![h.urb] = FALSE]

Check46 ==
  /\ port = "4.6" /\ h.at = "check" /\ ai_cmd_running
  /\ IF h.bad THEN h' = [h EXCEPT !.at = "tail", !.ev = TRUE] /\ UNCHANGED urb_active
     ELSE h' = [h EXCEPT !.at = GoOn] /\ Cleared
  /\ UNCHANGED <<loadVars, deviceVars, ai_cmd_running, ignore, flight, by, coreVars, call, packetVars>>

Check318 ==
  /\ port = "3.18" /\ h.at = "check" /\ ai_cmd_running
  /\ Cleared
  /\ h' = [h EXCEPT !.at = IF h.bad THEN "fail" ELSE GoOn]
  /\ UNCHANGED <<loadVars, deviceVars, ai_cmd_running, ignore, flight, by, coreVars, call, packetVars>>

(* Mutant: the URB itself is the next.                                      *)
Partner_Self(i) == i
Partner(i) == IF i % 2 = 0 THEN i + 1 ELSE i - 1

(* The pair is submitted before the copy.  The core refuses one in flight   *)
(* or being killed, and may refuse any.                                     *)
SubmitPair ==
  /\ h.at = "pair"
  /\ \/ Submitted(Partner(h.urb)) /\ h' = [h EXCEPT !.at = "mark"]
     \/ h' = [h EXCEPT !.at = "fail"] /\ UNCHANGED <<flight, by>>
  /\ UNCHANGED <<loadVars, deviceVars, ai_cmd_running, ignore, urb_active, coreVars, call, packetVars>>

MarkPair ==
  /\ h.at = "mark" /\ h' = [h EXCEPT !.at = "copy"]
  /\ urb_active' = [urb_active EXCEPT ![Partner(h.urb)] = TRUE]
  /\ UNCHANGED <<loadVars, deviceVars, ai_cmd_running, ignore, flight, by, coreVars, call, packetVars>>

IgnorePacket ==
  /\ h.at = "copy" /\ ignore > 0
  /\ ignore' = ignore - 1
  /\ dropped' = IF by[h.urb] = cmd /\ dropped < Ignore THEN dropped + 1 ELSE dropped
  /\ h' = [h EXCEPT !.at = "tail"]
  /\ UNCHANGED <<loadVars, deviceVars, ai_cmd_running, urbVars, coreVars, call, cmd, tries, spoilt>>

PassedOn == spoilt' = (spoilt \/ by[h.urb] # cmd \/ dropped < Ignore)

(* The data go to Comedi: its buffer may overflow, or the count be reached. *)
Copy46 ==
  /\ port = "4.6" /\ h.at = "copy" /\ ignore = 0
  /\ \E ev \in BOOLEAN : h' = [h EXCEPT !.at = "tail", !.ev = ev]
  /\ PassedOn
  /\ UNCHANGED <<loadVars, deviceVars, ai_cmd_running, ignore, urbVars, coreVars, call, cmd, tries, dropped>>

(* The 3.18 driver stops before it tells Comedi of the end, and does not    *)
(* tell of an overflow at all.                                              *)
Copy318 ==
  /\ port = "3.18" /\ h.at = "copy" /\ ignore = 0
  /\ \/ h' = [h EXCEPT !.at = "tail"] /\ UNCHANGED ai_cmd_running
     \/ h' = [h EXCEPT !.at = "event", !.ev = TRUE] /\ ai_cmd_running' = FALSE
     \/ h' = Idle /\ ai_cmd_running' = FALSE
  /\ PassedOn
  /\ UNCHANGED <<loadVars, deviceVars, ignore, urbVars, coreVars, call, cmd, tries, dropped>>

(* Without pairs the URB itself is submitted again, unless all is over; it  *)
(* is marked even if that fails.                                            *)
(* Mutant: it is not when the packet was ignored.                           *)
Resubmits_Delivered == ~paired /\ ~h.ev /\ dropped = Ignore
Resubmits == ~paired /\ ~h.ev

Resubmit46 ==
  /\ port = "4.6" /\ h.at = "tail" /\ Resubmits
  /\ \/ Submitted(h.urb) /\ h' = Idle
     \/ h' = [h EXCEPT !.ev = TRUE] /\ UNCHANGED <<flight, by>>
  /\ urb_active' = [urb_active EXCEPT ![h.urb] = TRUE]
  /\ UNCHANGED <<loadVars, deviceVars, ai_cmd_running, ignore, coreVars, call, packetVars>>

Resubmit318 ==
  /\ port = "3.18" /\ h.at = "tail" /\ Resubmits
  /\ \/ Submitted(h.urb) /\ h' = Idle
     \/ h' = [h EXCEPT !.at = "fail"] /\ UNCHANGED <<flight, by>>
  /\ urb_active' = [urb_active EXCEPT ![h.urb] = TRUE]
  /\ UNCHANGED <<loadVars, deviceVars, ai_cmd_running, ignore, coreVars, call, packetVars>>

(* The end of the handler: an event that ends all stops the driver first,   *)
(* without unlinking, and is then told to Comedi.                           *)
HandlerEnds ==
  /\ h.at = "tail" /\ ~Resubmits
  /\ IF h.ev THEN h' = [h EXCEPT !.at = "event"] /\ ai_cmd_running' = FALSE
     ELSE h' = Idle /\ UNCHANGED ai_cmd_running
  /\ UNCHANGED <<loadVars, deviceVars, ignore, urbVars, coreVars, call, packetVars>>

(* comedi_event ends the command.                                           *)
Event ==
  /\ h.at = "event" /\ h' = Idle /\ runflag' = FALSE
  /\ UNCHANGED <<loadVars, deviceVars, ai_cmd_running, ignore, urbVars, inttrig, call, packetVars>>

(* A submission that fails, and in the 3.18 driver any error, tells Comedi  *)
(* first and stops then.                                                    *)
Fail ==
  /\ h.at = "fail" /\ h' = [h EXCEPT !.at = "stop"] /\ runflag' = FALSE
  /\ UNCHANGED <<loadVars, deviceVars, ai_cmd_running, ignore, urbVars, inttrig, call, packetVars>>
Stop ==
  /\ h.at = "stop" /\ h' = Idle /\ ai_cmd_running' = FALSE
  /\ UNCHANGED <<loadVars, deviceVars, ignore, urbVars, coreVars, call, packetVars>>
-----------------------------------------------------------------------------
SystemCall ==
  \/ Attach \/ Detach \/ DetachKill \/ DetachFree
  \/ AiCmd \/ AiInttrig \/ SubmitUrb \/ MarkUrb
  \/ AiCancel \/ KillUrb \/ CancelReturns

Handler ==
  \/ NotRunning \/ Check46 \/ Check318 \/ SubmitPair \/ MarkPair
  \/ IgnorePacket \/ Copy46 \/ Copy318 \/ Resubmit46 \/ Resubmit318
  \/ HandlerEnds \/ Event \/ Fail \/ Stop

Next == SystemCall \/ Handler \/ \E bad \in BOOLEAN : Complete(bad)

Spec == Init /\ [][Next]_vars
-----------------------------------------------------------------------------
(***************************************************************************)
(* Properties.                                                             *)
(***************************************************************************)

(* The buffer that a handler copies from is not the target of a transfer:   *)
(* the partner that was submitted first is another URB                      *)
(* (usbduxfast_4.6.5_john.c:325-361, the pairs made even by the probe).     *)
CopySafe ==
  h.at = "copy" => /\ ~InFlight(h.urb)
                   /\ paired => Partner(h.urb) \in Urbs /\ InFlight(Partner(h.urb))

(* What is passed on as data of a command was transferred for this command, *)
(* after the packets the chip still had from before were ignored, although  *)
(* URBs of an earlier command that ended by itself may be in flight when it *)
(* starts: if one of them gets in, the start fails (with Quick)             *)
(* (usbduxfast_4.6.5_john.c:598-602, 345-356).  It does not hold of an      *)
(* internal trigger given again after it failed: packets the first attempt  *)
(* ignored are not counted anew (553-581); the daemon never uses one.       *)
FreshData ==
  spoilt /\ ai_cmd_running /\ tries < 2 => call.at \in {"submit", "mark"}

(* A running command never runs dry: between handlers each pair has a URB   *)
(* in flight, without pairs every URB is, whatever failed in between.       *)
StreamLives ==
  ai_cmd_running /\ call.at = "idle" /\ h.at = "idle" =>
    \A j \in Urbs : InFlight(j) \/ (paired /\ InFlight(Partner(j)))

(* However far attach came, detach frees what it allocated, and no URB that *)
(* is freed is in flight (usbduxfast_4.6.5_john.c:1119-1153).               *)
AllFreed == attached = "no" => held = {} /\ flight = <<>>
===============================================================================
