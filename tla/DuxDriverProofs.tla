---------------------------- MODULE DuxDriverProofs ----------------------------
(***************************************************************************)
(* Theorems about DuxDriver.  On one processor a system call and a handler *)
(* do not run at the same time; this the proofs need, and TLC shows each   *)
(* of the properties violated without it.  The first part has the lemmas   *)
(* about the sequence of the URBs in flight; the second the inductive      *)
(* invariant, with a lemma for every action, and three properties; the     *)
(* third what FreshData needs beyond it: an account of the URBs of an      *)
(* earlier command that are in flight when a command starts.               *)
(***************************************************************************)
EXTENDS DuxDriver, SequenceTheorems, FiniteSetTheorems, WellFoundedInduction, TLAPS

(* In(f, x): x occurs in f.                                                *)
In(f, x) == \E i \in DOMAIN f : f[i] = x

(* A sequence without repetitions, with an element it does not have yet    *)
(* appended.                                                               *)
LEMMA Appended ==
  ASSUME NEW S, NEW f \in Seq(S), IsInjective(f), NEW j \in S, ~In(f, j)
  PROVE  /\ Append(f, j) \in Seq(S) /\ IsInjective(Append(f, j))
         /\ \A x : In(Append(f, j), x) <=> In(f, x) \/ x = j
<1>1. PICK g : g = Append(f, j)
  OBVIOUS
<1>2. /\ g \in Seq(S) /\ Len(g) = Len(f) + 1 /\ Len(f) \in Nat
      /\ \A i \in 1 .. Len(f) : g[i] = f[i]
      /\ g[Len(f) + 1] = j
      /\ DOMAIN g = 1 .. Len(f) + 1 /\ DOMAIN f = 1 .. Len(f)
  BY <1>1, AppendProperties, LenProperties
<1>3. IsInjective(g)
  BY <1>2 DEF In, IsInjective
<1>4. \A x : In(g, x) <=> In(f, x) \/ x = j
  BY <1>2 DEF In
<1> QED  BY <1>1, <1>2, <1>3, <1>4, Zenon

(* The same without its first element.                                     *)
LEMMA TailOf ==
  ASSUME NEW S, NEW f \in Seq(S), IsInjective(f), f # <<>>
  PROVE  /\ Head(f) \in S /\ In(f, Head(f))
         /\ Tail(f) \in Seq(S) /\ IsInjective(Tail(f))
         /\ \A x : In(Tail(f), x) <=> In(f, x) /\ x # Head(f)
<1>1. PICK g : g = Tail(f)
  OBVIOUS
<1>2. /\ g \in Seq(S) /\ Len(g) = Len(f) - 1 /\ Len(f) \in Nat /\ Len(f) # 0
      /\ \A i \in 1 .. Len(g) : g[i] = f[i + 1]
      /\ DOMAIN g = 1 .. Len(f) - 1 /\ DOMAIN f = 1 .. Len(f)
      /\ Head(f) \in S /\ Head(f) = f[1]
  BY <1>1, HeadTailProperties, LenProperties
<1>3. IsInjective(g)
  <2> SUFFICES ASSUME NEW i \in 1 .. Len(f) - 1, NEW k \in 1 .. Len(f) - 1, g[i] = g[k]
               PROVE  i = k
    BY <1>2 DEF IsInjective
  <2>1. f[i + 1] = f[k + 1] /\ i + 1 \in 1 .. Len(f) /\ k + 1 \in 1 .. Len(f)
    BY <1>2
  <2>2. i + 1 = k + 1
    BY <1>2, <2>1 DEF IsInjective
  <2> QED  BY <2>2
<1>4. \A x : In(g, x) <=> In(f, x) /\ x # Head(f)
  <2>1. ASSUME NEW x, In(g, x) PROVE In(f, x) /\ x # Head(f)
    BY <1>2, <2>1 DEF In, IsInjective
  <2>2. ASSUME NEW x, In(f, x), x # Head(f) PROVE In(g, x)
    <3>1. PICK i \in 1 .. Len(f) : f[i] = x
      BY <1>2, <2>2 DEF In
    <3>2. i - 1 \in 1 .. Len(f) - 1 /\ (i - 1) + 1 = i
      BY <1>2, <2>2, <3>1
    <3> QED  BY <1>2, <3>1, <3>2 DEF In
  <2> QED  BY <2>1, <2>2
<1>5. In(f, Head(f))
  BY <1>2 DEF In
<1> QED  BY <1>1, <1>2, <1>3, <1>4, <1>5, Zenon

(* The same without the element at k, as RemoveAt of the community modules *)
(* defines it.                                                             *)
LEMMA Removed ==
  ASSUME NEW S, NEW f \in Seq(S), IsInjective(f), NEW k \in DOMAIN f
  PROVE  /\ RemoveAt(f, k) \in Seq(S) /\ IsInjective(RemoveAt(f, k))
         /\ \A x : In(RemoveAt(f, k), x) <=> In(f, x) /\ x # f[k]
<1>1. PICK g : g = RemoveAt(f, k)
  OBVIOUS
<1>2. /\ k \in 1 .. Len(f) /\ Len(f) \in Nat /\ DOMAIN f = 1 .. Len(f)
      /\ \A i \in 1 .. Len(f) : f[i] \in S
  BY LenProperties, ElementOfSeq
<1>3. PICK a : a = SubSeq(f, 1, k - 1)
  OBVIOUS
<1>4. PICK b : b = SubSeq(f, k + 1, Len(f))
  OBVIOUS
<1>5. /\ a \in Seq(S) /\ Len(a) = k - 1
      /\ \A i \in 1 .. k - 1 : a[i] = f[i]
  BY <1>2, <1>3, SubSeqProperties
<1>6. /\ b \in Seq(S) /\ Len(b) = Len(f) - k
      /\ \A i \in 1 .. Len(f) - k : b[i] = f[k + i]
  <2>1. /\ k + 1 \in Int /\ Len(f) \in Int
        /\ \A i \in k + 1 .. Len(f) : f[i] \in S
        /\ Len(f) - (k + 1) + 1 = Len(f) - k
        /\ \A i \in 1 .. Len(f) - k : (k + 1) + i - 1 = k + i
        /\ (IF k + 1 <= Len(f) THEN Len(f) - (k + 1) + 1 ELSE 0) = Len(f) - k
    BY <1>2
  <2>2. /\ b \in Seq(S)
        /\ Len(b) = IF k + 1 <= Len(f) THEN Len(f) - (k + 1) + 1 ELSE 0
        /\ \A i \in 1 .. Len(f) - (k + 1) + 1 : b[i] = f[(k + 1) + i - 1]
    BY <1>4, <2>1, SubSeqProperties
  <2> QED  BY <2>1, <2>2
<1>7. g = a \o b
  BY <1>1, <1>3, <1>4 DEF RemoveAt
<1>8. /\ g \in Seq(S) /\ Len(g) = Len(f) - 1
      /\ \A i \in 1 .. Len(f) - 1 : g[i] = IF i < k THEN f[i] ELSE f[i + 1]
  <2>1. /\ g \in Seq(S) /\ Len(g) = Len(a) + Len(b)
        /\ \A i \in 1 .. Len(a) + Len(b) :
             g[i] = IF i <= Len(a) THEN a[i] ELSE b[i - Len(a)]
    BY <1>5, <1>6, <1>7, ConcatProperties
  <2>2. ASSUME NEW i \in 1 .. Len(f) - 1
        PROVE  g[i] = IF i < k THEN f[i] ELSE f[i + 1]
    <3>1. g[i] = IF i <= Len(a) THEN a[i] ELSE b[i - Len(a)]
      BY <1>2, <1>5, <1>6, <2>1
    <3>2. CASE i < k
      BY <1>2, <1>5, <3>1, <3>2
    <3>3. CASE ~(i < k)
      <4>1. ~(i <= Len(a)) /\ i - Len(a) \in 1 .. Len(f) - k /\ k + (i - Len(a)) = i + 1
        BY <1>2, <1>5, <3>3
      <4> QED  BY <1>6, <3>1, <3>3, <4>1
    <3> QED  BY <3>2, <3>3
  <2> QED  BY <1>2, <1>5, <1>6, <2>1, <2>2
<1>9. DOMAIN g = 1 .. Len(f) - 1
  BY <1>8, LenProperties
<1>10. IsInjective(g)
  BY <1>2, <1>8, <1>9 DEF IsInjective
<1>11. \A x : In(g, x) <=> In(f, x) /\ x # f[k]
  <2>1. ASSUME NEW x, In(g, x) PROVE In(f, x) /\ x # f[k]
    BY <1>2, <1>8, <1>9, <2>1 DEF In, IsInjective
  <2>2. ASSUME NEW x, In(f, x), x # f[k] PROVE In(g, x)
    <3>1. PICK i \in 1 .. Len(f) : f[i] = x
      BY <1>2, <2>2 DEF In
    <3>2. CASE i < k
      <4>1. i \in 1 .. Len(f) - 1 /\ g[i] = f[i]
        BY <1>2, <1>8, <3>2
      <4> QED  BY <1>9, <3>1, <4>1 DEF In
    <3>3. CASE ~(i < k)
      <4>1. i # k
        BY <2>2, <3>1
      <4>2. i - 1 \in 1 .. Len(f) - 1 /\ (i - 1) + 1 = i /\ ~(i - 1 < k)
        BY <1>2, <3>1, <3>3, <4>1
      <4>3. g[i - 1] = f[i]
        BY <1>8, <4>2
      <4> QED  BY <1>9, <3>1, <4>2, <4>3 DEF In
    <3> QED  BY <3>2, <3>3
  <2> QED  BY <2>1, <2>2
<1> QED  BY <1>1, <1>8, <1>10, <1>11, Zenon

(* Two sequences in a row.                                                 *)
LEMMA Joined ==
  ASSUME NEW S, NEW a \in Seq(S), NEW b \in Seq(S), NEW c, c = a \o b
  PROVE  /\ c \in Seq(S) /\ Len(c) = Len(a) + Len(b)
         /\ \A i \in 1 .. Len(a) : c[i] = a[i]
         /\ \A i \in 1 .. Len(b) : c[Len(a) + i] = b[i]
<1>2. /\ c \in Seq(S) /\ Len(c) = Len(a) + Len(b) /\ Len(a) \in Nat /\ Len(b) \in Nat
      /\ \A i \in 1 .. Len(a) + Len(b) : c[i] = IF i <= Len(a) THEN a[i] ELSE b[i - Len(a)]
  BY ConcatProperties, LenProperties
<1>3. \A i \in 1 .. Len(a) : c[i] = a[i]
  BY <1>2
<1>4. ASSUME NEW i \in 1 .. Len(b) PROVE c[Len(a) + i] = b[i]
  <2>1. /\ Len(a) + i \in 1 .. Len(a) + Len(b) /\ ~(Len(a) + i <= Len(a))
        /\ (Len(a) + i) - Len(a) = i
    BY <1>2
  <2> QED  BY <1>2, <2>1
<1> QED  BY <1>2, <1>3, <1>4, Zenon

(* Every set of natural numbers that is not empty has a least one.         *)
LEMMA Least ==
  ASSUME NEW T, T \subseteq Nat, T # {}
  PROVE  \E m \in T : \A k \in T : m <= k
<1> DEFINE R == OpToRel(<, Nat)
<1>1. IsWellFoundedOn(R, Nat)
  BY NatLessThanWellFounded
<1>2. \A a, b \in Nat : a < b => <<a, b>> \in R
  BY DEF OpToRel
<1> HIDE DEF R
<1>3. \E m \in T : \A k \in T : ~(<<k, m>> \in R)
  BY <1>1, WFMin, Zenon
<1>4. PICK m \in T : \A k \in T : ~(<<k, m>> \in R)
  BY <1>3, Zenon
<1>5. \A k \in T : m <= k
  <2> SUFFICES ASSUME NEW k \in T, ~(m <= k) PROVE FALSE
    BY Zenon
  <2>1. m \in Nat /\ k \in Nat
    OBVIOUS
  <2>2. k < m
    BY <2>1
  <2>3. <<k, m>> \in R
    BY <1>2, <2>1, <2>2, Zenon
  <2> QED  BY <1>4, <2>3, Zenon
<1> QED  BY <1>5, Zenon
-----------------------------------------------------------------------------
(* The start submits every URB, or the first of every pair.                *)
Step == IF paired THEN 2 ELSE 1

(* The probe has made the number of URBs even                              *)
(* (usbduxfast_4.6.5_john.c:1167-1177).                                    *)
Pairs == paired => nurbs % 2 = 0

(* What the handler holds: its URB is not in flight, its device is         *)
(* attached; while it copies, the partner it submitted is in flight; no    *)
(* cancel and no detach is under way, as one that was would have taken     *)
(* ai_cmd_running away before.                                             *)
HandlerIs ==
  /\ h.at # "idle" => ~InFlight(h.urb) /\ attached = "yes"
  /\ h.at \notin {"idle", "check"} => call.at \in {"idle", "submit", "mark"}
  /\ h.at \in {"pair", "mark", "copy", "tail", "fail", "stop"} => ai_cmd_running
  /\ h.at = "event" => ~ai_cmd_running
  /\ h.at \in {"pair", "mark"} => paired
  /\ h.at \in {"mark", "copy"} /\ paired => InFlight(Partner(h.urb))
  /\ h.at = "tail" /\ paired /\ ~h.ev => InFlight(Partner(h.urb))

(* What a system call holds: it goes over the URBs there are; from cancel  *)
(* on the command does not run.                                            *)
CallIs ==
  /\ call.at \in {"submit", "mark", "kill"} => call.j < nurbs
  /\ call.at \in {"submit", "mark"} /\ paired => call.j % 2 = 0
  /\ call.at \in {"submit", "mark", "kill", "cancelled"} => attached = "yes"
  /\ call.at \in {"kill", "cancelled", "detach"} => ~ai_cmd_running
  /\ call.at = "detach" => attached # "no"
  /\ ai_cmd_running => attached = "yes" /\ (h.at # "stop" => runflag)

(* What attach allocated is what detach reaches; nothing is in flight      *)
(* unless all of it is there.                                              *)
HeldIs ==
  /\ held \subseteq Freed
  /\ attached = "no" => held = {} /\ call.at = "idle"
  /\ attached = "yes" => \A j \in Urbs : There(j)
  /\ attached # "yes" => flight = <<>>

(* The bookkeeping by which cancel finds the URBs: what is in flight is    *)
(* marked, or is about to be.                                              *)
Marked ==
  \A j \in Urbs : InFlight(j) =>
    \/ urb_active[j]
    \/ call.at = "mark" /\ j = call.j
    \/ h.at = "mark" /\ j = Partner(h.urb)

(* What the loops of cancel and detach have passed is not in flight again. *)
Swept ==
  /\ call.at = "kill" => \A j \in Urbs : j < call.j => ~urb_active[j] /\ ~InFlight(j)
  /\ call.at = "cancelled" => h.at = "idle" /\ \A j \in Urbs : ~urb_active[j] /\ ~InFlight(j)
  /\ call.at = "detach" => \A j \in Urbs : j < call.j => ~InFlight(j)

(* The URB has been submitted by the start.                                *)
Started(j) ==
  \/ call.at = "idle"
  \/ call.at = "submit" /\ j < call.j
  \/ call.at = "mark" /\ j < call.j + Step

(* The URB, or its pair, is with the handler.                              *)
InHand(j) == h.at # "idle" /\ (j = h.urb \/ (paired /\ j = Partner(h.urb)))

(* A running command has every pair, or every URB, in flight or with the   *)
(* handler.                                                                *)
Alive ==
  ai_cmd_running => \A j \in Urbs : Started(j) =>
    InFlight(j) \/ (paired /\ InFlight(Partner(j))) \/ InHand(j)

(* The inductive invariant.                                                *)
IInv == TypeOK /\ Pairs /\ HandlerIs /\ CallIs /\ HeldIs /\ Marked /\ Swept /\ Alive

(* Where a system call and a handler can be.                               *)
CallType == [at : {"idle", "submit", "mark", "kill", "cancelled", "detach"},
             j : 0 .. nurbs, trig : BOOLEAN]
HandlerType == [at : {"idle", "check", "pair", "mark", "copy", "tail", "event", "fail", "stop"},
                urb : Urbs, bad : BOOLEAN, ev : BOOLEAN]

(* There is a URB, and none beyond the limit.                              *)
LEMMA Sizes ==
  ASSUME IInv
  PROVE  /\ nurbs \in Nat /\ nurbs > 0 /\ nurbs <= MaxUrbs /\ MaxUrbs \in Nat
         /\ 0 \in 0 .. nurbs /\ 0 \in Urbs
BY DriverAssumption DEF IInv, TypeOK, Urbs

(* Partners are two, and partners of each other.                           *)
LEMMA PartnerIs ==
  ASSUME TypeOK, Pairs, paired, NEW j \in Urbs
  PROVE  /\ Partner(j) \in Urbs /\ Partner(Partner(j)) = j /\ Partner(j) # j
         /\ j % 2 = 0 => Partner(j) = j + 1
<1>1. nurbs \in Nat /\ nurbs % 2 = 0
  BY DriverAssumption DEF TypeOK, Pairs
<1> QED  BY <1>1 DEF Partner, Urbs

(* Only URBs are in flight.                                                *)
LEMMA InFlightIs ==
  ASSUME TypeOK
  PROVE  /\ \A x : InFlight(x) => x \in Urbs
         /\ \A x : InFlight(x) <=> In(flight, x)
BY ElementOfSeq, LenProperties DEF TypeOK, In, InFlight

(* A URB that is taken is in flight, and no other.                         *)
LEMMA SubmittedIs ==
  ASSUME TypeOK, NEW j \in Urbs, Submitted(j)
  PROVE  /\ flight' \in Seq(Urbs) /\ IsInjective(flight')
         /\ \A x : InFlight(x)' <=> InFlight(x) \/ x = j
         /\ by' \in [0 .. MaxUrbs - 1 -> 0 .. cmd]
         /\ by' = [by EXCEPT ![j] = cmd]
<1>1. flight \in Seq(Urbs) /\ IsInjective(flight) /\ ~In(flight, j) /\ flight' = Append(flight, j)
  BY DEF TypeOK, Submitted, In, InFlight
<1>2. /\ flight' \in Seq(Urbs) /\ IsInjective(flight')
      /\ \A x : In(flight', x) <=> In(flight, x) \/ x = j
  BY <1>1, Appended
<1>3. \A x : InFlight(x)' <=> InFlight(x) \/ x = j
  BY <1>2 DEF In, InFlight
<1>4. cmd \in 0 .. cmd /\ by \in [0 .. MaxUrbs - 1 -> 0 .. cmd] /\ by' = [by EXCEPT ![j] = cmd]
  BY DriverAssumption DEF TypeOK, Submitted
<1> QED  BY <1>2, <1>3, <1>4

(* A start that submits a URB, or fails.                                   *)
LEMMA SubmitUrbKeeps ==
  ASSUME ~SMP, IInv, SubmitUrb
  PROVE  IInv'
<1>0. /\ call.at = "submit" /\ h.at = "idle" /\ call.j \in Urbs
      /\ UNCHANGED <<loadVars, deviceVars, ignore, urb_active, h, inttrig, packetVars>>
  BY DEF SubmitUrb, CallStep, IInv, CallIs, TypeOK, Urbs
<1>1. UNCHANGED <<port, paired, nurbs, attached, held, ignore, urb_active, h, inttrig, cmd, tries, dropped, spoilt>>
  BY <1>0 DEF loadVars, deviceVars, packetVars
<1>2. CASE /\ Submitted(call.j) /\ call' = [call EXCEPT !.at = "mark"]
           /\ UNCHANGED <<ai_cmd_running, runflag>>
  <2>1. /\ flight' \in Seq(Urbs) /\ IsInjective(flight')
        /\ \A x : InFlight(x)' <=> InFlight(x) \/ x = call.j
        /\ by' \in [0 .. MaxUrbs - 1 -> 0 .. cmd]
    BY <1>0, <1>2, SubmittedIs DEF IInv
  <2>2. call' \in [at : {"idle", "submit", "mark", "kill", "cancelled", "detach"},
               j : 0 .. nurbs, trig : BOOLEAN] /\ call'.at = "mark" /\ call'.j = call.j
    BY <1>2 DEF IInv, TypeOK
  <2>3. TypeOK'
    BY <1>1, <1>2, <2>1, <2>2 DEF IInv, TypeOK, Urbs, Pieces
  <2>4. Pairs' /\ HandlerIs' /\ CallIs' /\ Swept'
    BY <1>0, <1>1, <1>2, <2>2 DEF IInv, Pairs, HandlerIs, CallIs, Swept
  <2>5. HeldIs'
    BY <1>0, <1>1, <1>2, <2>2 DEF IInv, CallIs, HeldIs, Freed, Reached, There, Urbs
  <2>6. Marked'
    BY <1>0, <1>1, <1>2, <2>1, <2>2 DEF IInv, Marked, Urbs
  <2>7. Alive'
    BY <1>0, <1>1, <1>2, <2>1, <2>2, PartnerIs DEF IInv, CallIs, Alive, Started, Step, InHand, Urbs
  <2> QED  BY <2>3, <2>4, <2>5, <2>6, <2>7 DEF IInv
<1>3. CASE /\ ai_cmd_running' = FALSE
           /\ runflag' = (runflag /\ call.trig)
           /\ call' = NoCall /\ UNCHANGED <<flight, by>>
  <2>2. call' \in [at : {"idle", "submit", "mark", "kill", "cancelled", "detach"},
               j : 0 .. nurbs, trig : BOOLEAN] /\ call'.at = "idle" /\ call'.j = 0
    BY <1>3 DEF IInv, TypeOK, NoCall
  <2>3. TypeOK'
    BY <1>1, <1>3, <2>2 DEF IInv, TypeOK, Urbs, Pieces
  <2>4. Pairs' /\ HandlerIs' /\ CallIs' /\ Swept' /\ Alive'
    BY <1>0, <1>1, <1>3, <2>2 DEF IInv, Pairs, HandlerIs, CallIs, Swept, Alive
  <2>5. HeldIs'
    BY <1>0, <1>1, <1>3, <2>2 DEF IInv, CallIs, HeldIs, Freed, Reached, There, Urbs
  <2>6. Marked'
    BY <1>0, <1>1, <1>3, <2>2 DEF IInv, Marked, Urbs, InFlight
  <2> QED  BY <2>3, <2>4, <2>5, <2>6 DEF IInv
<1> QED  BY <1>2, <1>3 DEF SubmitUrb

(* The order of the allocations, place by place.                           *)
LEMMA AllocationsAre ==
  ASSUME IInv
  PROVE  /\ Allocations \in Seq(Pieces)
         /\ Len(Allocations) \in {1 + 2 * nurbs, 2 + 2 * nurbs}
         /\ Allocations[1] = <<"duxbuf", 0>>
         /\ \A j \in Urbs : /\ Allocations[j + 2] = <<"urb", j>>
                            /\ Allocations[j + 2 + nurbs] = <<"inbuf", j>>
         /\ Len(Allocations) = 2 + 2 * nurbs =>
              Allocations[Len(Allocations)] = <<"insnbuf", 0>>
<1>0. nurbs \in Nat /\ nurbs <= MaxUrbs /\ MaxUrbs \in Nat
  BY DriverAssumption DEF IInv, TypeOK
<1>1. PICK a : a = <<<<"duxbuf", 0>>>>
  OBVIOUS
<1>2. PICK b : b = [j \in 1 .. nurbs |-> <<"urb", j - 1>>]
  OBVIOUS
<1>3. PICK c : c = [j \in 1 .. nurbs |-> <<"inbuf", j - 1>>]
  OBVIOUS
<1>4. PICK d : d = <<<<"insnbuf", 0>>>>
  OBVIOUS
<1>5. a \in Seq(Pieces) /\ Len(a) = 1 /\ a[1] = <<"duxbuf", 0>>
  BY <1>1 DEF Pieces
<1>6. d \in Seq(Pieces) /\ Len(d) = 1 /\ d[1] = <<"insnbuf", 0>>
  BY <1>4 DEF Pieces
<1>7. b \in Seq(Pieces) /\ Len(b) = nurbs /\ \A j \in 1 .. nurbs : b[j] = <<"urb", j - 1>>
  <2>1. \A j \in 1 .. nurbs : <<"urb", j - 1>> \in Pieces
    BY <1>0 DEF Pieces
  <2>2. b \in [1 .. nurbs -> Pieces]
    BY <1>2, <2>1
  <2> QED  BY <1>0, <1>2, <2>2, IsASeq, LenProperties
<1>8. c \in Seq(Pieces) /\ Len(c) = nurbs /\ \A j \in 1 .. nurbs : c[j] = <<"inbuf", j - 1>>
  <2>1. \A j \in 1 .. nurbs : <<"inbuf", j - 1>> \in Pieces
    BY <1>0 DEF Pieces
  <2>2. c \in [1 .. nurbs -> Pieces]
    BY <1>3, <2>1
  <2> QED  BY <1>0, <1>3, <2>2, IsASeq, LenProperties
<1>9. PICK ab : ab = a \o b
  OBVIOUS
<1>10. PICK abc : abc = ab \o c
  OBVIOUS
<1>11. PICK abcd : abcd = abc \o d
  OBVIOUS
<1>12. Allocations \in {abc, abcd}
  BY <1>1, <1>2, <1>3, <1>4, <1>9, <1>10, <1>11 DEF Allocations, Allocations318, Allocations46
<1>13. /\ ab \in Seq(Pieces) /\ Len(ab) = 1 + nurbs /\ ab[1] = <<"duxbuf", 0>>
       /\ \A j \in Urbs : ab[j + 2] = <<"urb", j>>
  <2>0. a \in Seq(Pieces) /\ b \in Seq(Pieces)
    BY <1>5, <1>7
  <2>1. /\ ab \in Seq(Pieces) /\ Len(ab) = Len(a) + Len(b)
        /\ \A i \in 1 .. Len(a) : ab[i] = a[i]
        /\ \A i \in 1 .. Len(b) : ab[Len(a) + i] = b[i]
    BY <1>9, <2>0, Joined
  <2>2. ASSUME NEW j \in Urbs PROVE ab[j + 2] = <<"urb", j>>
    <3>1. j + 1 \in 1 .. Len(b) /\ Len(a) + (j + 1) = j + 2 /\ (j + 1) - 1 = j
      BY <1>0, <1>5, <1>7 DEF Urbs
    <3>2. ab[j + 2] = b[j + 1]
      BY <2>1, <3>1
    <3> QED  BY <1>7, <3>1, <3>2
  <2> QED  BY <1>0, <1>5, <1>7, <2>1, <2>2
<1>14. /\ abc \in Seq(Pieces) /\ Len(abc) = 1 + 2 * nurbs /\ abc[1] = <<"duxbuf", 0>>
       /\ \A j \in Urbs : abc[j + 2] = <<"urb", j>> /\ abc[j + 2 + nurbs] = <<"inbuf", j>>
  <2>0. ab \in Seq(Pieces) /\ c \in Seq(Pieces)
    BY <1>8, <1>13
  <2>1. /\ abc \in Seq(Pieces) /\ Len(abc) = Len(ab) + Len(c)
        /\ \A i \in 1 .. Len(ab) : abc[i] = ab[i]
        /\ \A i \in 1 .. Len(c) : abc[Len(ab) + i] = c[i]
    BY <1>10, <2>0, Joined
  <2>2. ASSUME NEW j \in Urbs
        PROVE  abc[j + 2] = <<"urb", j>> /\ abc[j + 2 + nurbs] = <<"inbuf", j>>
    <3>1. /\ j + 1 \in 1 .. Len(c) /\ Len(ab) + (j + 1) = j + 2 + nurbs /\ (j + 1) - 1 = j
          /\ j + 2 \in 1 .. Len(ab)
      BY <1>0, <1>8, <1>13 DEF Urbs
    <3>2. abc[j + 2 + nurbs] = c[j + 1] /\ abc[j + 2] = ab[j + 2]
      BY <2>1, <3>1
    <3> QED  BY <1>8, <1>13, <3>1, <3>2
  <2> QED  BY <1>0, <1>8, <1>13, <2>1, <2>2
<1>15. /\ abcd \in Seq(Pieces) /\ Len(abcd) = 2 + 2 * nurbs /\ abcd[1] = <<"duxbuf", 0>>
       /\ \A j \in Urbs : abcd[j + 2] = <<"urb", j>> /\ abcd[j + 2 + nurbs] = <<"inbuf", j>>
       /\ abcd[Len(abcd)] = <<"insnbuf", 0>>
  <2>0. abc \in Seq(Pieces) /\ d \in Seq(Pieces)
    BY <1>6, <1>14
  <2>1. /\ abcd \in Seq(Pieces) /\ Len(abcd) = Len(abc) + Len(d)
        /\ \A i \in 1 .. Len(abc) : abcd[i] = abc[i]
        /\ \A i \in 1 .. Len(d) : abcd[Len(abc) + i] = d[i]
    BY <1>11, <2>0, Joined
  <2>2. /\ 1 \in 1 .. Len(abc) /\ 1 \in 1 .. Len(d) /\ Len(abc) + 1 = Len(abcd)
        /\ \A j \in Urbs : j + 2 \in 1 .. Len(abc) /\ j + 2 + nurbs \in 1 .. Len(abc)
    BY <1>0, <1>6, <1>14, <2>1 DEF Urbs
  <2>3. Len(abcd) = 2 + 2 * nurbs
    BY <1>0, <1>6, <1>14, <2>1
  <2>4. abcd[Len(abcd)] = d[1]
    BY <2>1, <2>2
  <2>5. abcd[1] = abc[1] /\ \A j \in Urbs : abcd[j + 2] = abc[j + 2] /\ abcd[j + 2 + nurbs] = abc[j + 2 + nurbs]
    BY <2>1, <2>2
  <2> QED  BY <1>6, <1>14, <2>1, <2>3, <2>4, <2>5
<1>16. Len(abc) # 2 + 2 * nurbs
  BY <1>0, <1>14
<1> QED  BY <1>12, <1>14, <1>15, <1>16

(* The module is loaded, nothing is attached.                              *)
LEMMA InitHolds ==
  ASSUME Init
  PROVE  IInv
<1>0. MaxUrbs \in Nat /\ MaxUrbs >= 2 /\ MaxUrbs % 2 = 0 /\ DefaultUrbs \in 1 .. MaxUrbs
  BY DriverAssumption
<1>1. /\ nurbs \in 1 .. MaxUrbs
      /\ paired => nurbs % 2 = 0
  <2>1. PICK n \in Int : nurbs = Probed(n, paired)
    BY DriverAssumption DEF Init
  <2>2. PICK asked \in Nat \ {0} : asked = IF n <= 0 THEN DefaultUrbs ELSE n
    BY <1>0
  <2>3. PICK even \in Nat \ {0} : /\ even = IF paired THEN 2 * ((asked + 1) \div 2) ELSE asked
                                  /\ paired => even % 2 = 0
    BY <2>2
  <2>4. nurbs = IF even > MaxUrbs THEN MaxUrbs ELSE even
    BY <2>1, <2>2, <2>3 DEF Probed
  <2> QED  BY <1>0, <2>3, <2>4
<1>2. /\ port \in Ports /\ paired \in BOOLEAN
      /\ attached = "no" /\ held = {}
      /\ ai_cmd_running = FALSE /\ ignore = 0
      /\ urb_active = [j \in 0 .. MaxUrbs - 1 |-> FALSE]
      /\ flight = <<>> /\ by = [j \in 0 .. MaxUrbs - 1 |-> 0]
      /\ h = Idle /\ runflag = FALSE /\ inttrig = FALSE
      /\ call = NoCall /\ cmd = 0 /\ tries = 0 /\ dropped = 0 /\ spoilt = FALSE
  BY DEF Init
<1>3. flight \in Seq(Urbs) /\ IsInjective(flight) /\ \A x : ~InFlight(x)
  BY <1>2 DEF IsInjective, InFlight
<1>4. h \in HandlerType /\ h.at = "idle" /\ call \in CallType /\ call.at = "idle"
  BY <1>1, <1>2 DEF Idle, NoCall, HandlerType, CallType, Urbs
<1>5. TypeOK
  <2>1. /\ urb_active \in [0 .. MaxUrbs - 1 -> BOOLEAN] /\ cmd \in 0 .. MaxCommands
        /\ by \in [0 .. MaxUrbs - 1 -> 0 .. cmd] /\ ignore \in 0 .. Ignore
        /\ tries \in 0 .. 2 /\ dropped \in 0 .. Ignore
    BY <1>0, <1>2, DriverAssumption
  <2> QED  BY <1>1, <1>2, <1>3, <1>4, <2>1 DEF TypeOK, HandlerType, CallType
<1>6. Pairs /\ HandlerIs /\ CallIs /\ HeldIs /\ Marked /\ Swept /\ Alive
  BY <1>1, <1>2, <1>3, <1>4 DEF Pairs, HandlerIs, CallIs, HeldIs, Marked, Swept, Alive
<1> QED  BY <1>5, <1>6 DEF IInv

(* Wherever an allocation fails, what there is can be reached by detach.   *)
LEMMA AttachKeeps ==
  ASSUME ~SMP, IInv, Attach
  PROVE  IInv'
<1>1. /\ attached = "no" /\ call.at = "idle" /\ h.at = "idle" /\ flight = <<>>
      /\ UNCHANGED <<port, paired, nurbs, ignore, flight, by, h, runflag, inttrig, call, cmd, tries, dropped, spoilt>>
      /\ ai_cmd_running' = FALSE
      /\ urb_active' = [j \in 0 .. MaxUrbs - 1 |-> FALSE]
  BY DEF Attach, IInv, HeldIs, HandlerIs, loadVars, coreVars, packetVars
<1>2. PICK n \in 0 .. Len(Allocations) :
       /\ held' = {Allocations[i] : i \in 1 .. n}
       /\ \/ n = Len(Allocations) /\ attached' = "yes"
          \/ attached' = "failed"
  BY DEF Attach
<1>3. nurbs \in Nat /\ nurbs <= MaxUrbs /\ MaxUrbs \in Nat
  BY DriverAssumption DEF IInv, TypeOK
<1>4. PICK all \in Seq(Pieces) : all = Allocations
  <2>1. Allocations \in Seq(Pieces)
    BY <1>3, AllocationsAre
  <2> QED  BY <2>1
<1>5. /\ Len(all) \in {1 + 2 * nurbs, 2 + 2 * nurbs} /\ all[1] = <<"duxbuf", 0>>
      /\ \A j \in Urbs : all[j + 2] = <<"urb", j>> /\ all[j + 2 + nurbs] = <<"inbuf", j>>
      /\ Len(all) = 2 + 2 * nurbs => all[Len(all)] = <<"insnbuf", 0>>
  BY <1>3, <1>4, AllocationsAre
<1>6. held' \subseteq Pieces
  <2> SUFFICES ASSUME NEW p \in held' PROVE p \in Pieces
    OBVIOUS
  <2>1. Len(all) \in Nat /\ \A i \in 1 .. Len(all) : all[i] \in Pieces
    BY <1>4, ElementOfSeq, LenProperties
  <2>2. \A i \in 1 .. n : i \in 1 .. Len(all)
    BY <1>2, <1>4, <2>1
  <2>3. held' = {all[i] : i \in 1 .. n}
    BY <1>2, <1>4
  <2>4. PICK i \in 1 .. n : p = all[i]
    BY <2>3
  <2> QED  BY <2>1, <2>2, <2>4
<1>7. \A j \in Urbs : j + 2 <= n => There(j)'
  <2> SUFFICES ASSUME NEW j \in Urbs, j + 2 <= n PROVE There(j)'
    OBVIOUS
  <2>1. j + 2 \in 1 .. n
    BY <1>2, <1>3 DEF Urbs
  <2>2. all[j + 2] = <<"urb", j>> /\ held' = {all[i] : i \in 1 .. n}
    BY <1>2, <1>4, <1>5
  <2>3. all[j + 2] \in held'
    BY <2>1, <2>2
  <2> QED  BY <2>2, <2>3 DEF There
<1>8. held' \subseteq Freed'
  <2> SUFFICES ASSUME NEW i \in 1 .. n PROVE all[i] \in Freed'
    BY <1>2, <1>4
  <2>1. CASE i = 1
    BY <1>5, <2>1 DEF Freed
  <2>2. CASE i \in 2 .. nurbs + 1
    <3>1. i - 2 \in Urbs /\ (i - 2) + 2 = i /\ \A k \in 0 .. i - 2 : k \in Urbs /\ k + 2 <= n
      BY <1>2, <1>3, <2>2 DEF Urbs
    <3>2. all[i] = <<"urb", i - 2>>
      BY <1>5, <3>1
    <3>3. i - 2 \in Reached'
      BY <1>1, <1>7, <3>1 DEF Reached, Urbs
    <3> QED  BY <3>2, <3>3 DEF Freed
  <2>3. CASE i \in nurbs + 2 .. 2 * nurbs + 1
    <3>1. /\ i - 2 - nurbs \in Urbs /\ (i - 2 - nurbs) + 2 + nurbs = i
          /\ \A k \in 0 .. i - 2 - nurbs : k \in Urbs /\ k + 2 <= n
      BY <1>2, <1>3, <2>3 DEF Urbs
    <3>2. all[i] = <<"inbuf", i - 2 - nurbs>>
      BY <1>5, <3>1
    <3>3. i - 2 - nurbs \in Reached'
      BY <1>1, <1>7, <3>1 DEF Reached, Urbs
    <3> QED  BY <3>2, <3>3 DEF Freed
  <2>4. CASE i = 2 + 2 * nurbs
    <3>1. Len(all) = 2 + 2 * nurbs
      BY <1>2, <1>3, <1>4, <1>5, <2>4
    <3> QED  BY <1>5, <2>4, <3>1 DEF Freed
  <2>5. i \in 1 .. 2 * nurbs + 2
    BY <1>2, <1>3, <1>4, <1>5
  <2> QED  BY <1>3, <2>1, <2>2, <2>3, <2>4, <2>5
<1>9. attached' = "yes" => \A j \in Urbs : There(j)'
  BY <1>2, <1>3, <1>4, <1>5, <1>7 DEF Urbs
<1>10. TypeOK'
  BY <1>1, <1>2, <1>6 DEF IInv, TypeOK, Urbs, Pieces
<1>11. HeldIs'
  BY <1>1, <1>2, <1>8, <1>9 DEF HeldIs, Urbs
<1>12. \A x : ~InFlight(x)'
  BY <1>1 DEF InFlight
<1>13. Pairs' /\ HandlerIs' /\ CallIs' /\ Marked' /\ Swept' /\ Alive'
  BY <1>1, <1>12 DEF IInv, Pairs, HandlerIs, CallIs, Marked, Swept, Alive
<1> QED  BY <1>10, <1>11, <1>13 DEF IInv

(* Detach is called.                                                       *)
LEMMA DetachKeeps ==
  ASSUME ~SMP, IInv, Detach
  PROVE  IInv'
<1>1. /\ UNCHANGED <<port, paired, nurbs, attached, held, ai_cmd_running, ignore, urb_active,
                     flight, by, h, runflag, inttrig, cmd, tries, dropped, spoilt>>
      /\ h.at = "idle" /\ call.at = "idle" /\ attached # "no" /\ ~runflag
  BY DEF Detach, CallStep, IInv, loadVars, deviceVars, urbVars, coreVars, packetVars
<1>2. \A x : InFlight(x)' <=> InFlight(x)
  BY <1>1 DEF InFlight
<1>3. call' \in CallType /\ call'.at = "detach" /\ call'.j = 0
  <2>1. call' = [NoCall EXCEPT !.at = "detach"]
    BY DEF Detach
  <2> QED  BY <1>1, <2>1, Sizes DEF IInv, TypeOK, CallType, HandlerType, NoCall, Idle
<1>4. TypeOK'
  BY <1>1, <1>3 DEF IInv, TypeOK, CallType, HandlerType, Urbs, Pieces
<1>5. Pairs' /\ HandlerIs' /\ CallIs' /\ Swept'
  BY <1>1, <1>2, <1>3, Sizes DEF IInv, Pairs, HandlerIs, CallIs, Swept, Urbs, CallIs
<1>6. HeldIs'
  BY <1>1, <1>2, <1>3, Sizes DEF IInv, HeldIs, Freed, Reached, There, Urbs, CallIs
<1>7. Marked'
  BY <1>1, <1>2, <1>3, Sizes DEF IInv, Marked, Urbs, CallIs
<1>8. Alive'
  BY <1>1, <1>2, <1>3 DEF IInv, Alive, Started, Step, InHand, Urbs, CallIs
<1> QED  BY <1>4, <1>5, <1>6, <1>7, <1>8 DEF IInv

(* The internal trigger starts the command.                                *)
LEMMA AiInttrigKeeps ==
  ASSUME ~SMP, IInv, AiInttrig
  PROVE  IInv'
<1>1. /\ UNCHANGED <<port, paired, nurbs, attached, held, ignore, urb_active, flight, by, h,
                     runflag, inttrig, cmd, dropped, spoilt>>
      /\ h.at = "idle" /\ call.at = "idle" /\ attached = "yes" /\ runflag /\ ai_cmd_running' = TRUE /\ tries' \in 0 .. 2
  BY DEF AiInttrig, CallStep, IInv, loadVars, deviceVars, urbVars, coreVars, packetVars, TypeOK
<1>2. \A x : InFlight(x)' <=> InFlight(x)
  BY <1>1 DEF InFlight
<1>3. call' \in CallType /\ call'.at = "submit" /\ call'.j = 0
  <2>1. call' = [at |-> "submit", j |-> 0, trig |-> TRUE]
    BY DEF AiInttrig
  <2> QED  BY <1>1, <2>1, Sizes DEF IInv, TypeOK, CallType, HandlerType, NoCall, Idle
<1>4. TypeOK'
  BY <1>1, <1>3 DEF IInv, TypeOK, CallType, HandlerType, Urbs, Pieces
<1>5. Pairs' /\ HandlerIs' /\ CallIs' /\ Swept'
  BY <1>1, <1>2, <1>3, Sizes DEF IInv, Pairs, HandlerIs, CallIs, Swept, Urbs
<1>6. HeldIs'
  BY <1>1, <1>2, <1>3, Sizes DEF IInv, HeldIs, Freed, Reached, There, Urbs
<1>7. Marked'
  BY <1>1, <1>2, <1>3, Sizes DEF IInv, Marked, Urbs
<1>8. Alive'
  BY <1>1, <1>2, <1>3 DEF IInv, Alive, Started, Step, InHand, Urbs
<1> QED  BY <1>4, <1>5, <1>6, <1>7, <1>8 DEF IInv

(* Cancel is called.                                                       *)
LEMMA AiCancelKeeps ==
  ASSUME ~SMP, IInv, AiCancel
  PROVE  IInv'
<1>1. /\ UNCHANGED <<port, paired, nurbs, attached, held, ignore, urb_active, flight, by, h,
                     runflag, inttrig, cmd, tries, dropped, spoilt>>
      /\ h.at = "idle" /\ call.at = "idle" /\ attached = "yes" /\ ai_cmd_running' = FALSE
  BY DEF AiCancel, CallStep, IInv, loadVars, deviceVars, urbVars, coreVars, packetVars
<1>2. \A x : InFlight(x)' <=> InFlight(x)
  BY <1>1 DEF InFlight
<1>3. call' \in CallType /\ call'.at = "kill" /\ call'.j = 0
  <2>1. call' = [NoCall EXCEPT !.at = "kill"]
    BY DEF AiCancel
  <2> QED  BY <1>1, <2>1, Sizes DEF IInv, TypeOK, CallType, HandlerType, NoCall, Idle
<1>4. TypeOK'
  BY <1>1, <1>3 DEF IInv, TypeOK, CallType, HandlerType, Urbs, Pieces
<1>5. Pairs' /\ HandlerIs' /\ CallIs' /\ Swept'
  BY <1>1, <1>2, <1>3, Sizes DEF IInv, Pairs, HandlerIs, CallIs, Swept, Urbs
<1>6. HeldIs'
  BY <1>1, <1>2, <1>3, Sizes DEF IInv, HeldIs, Freed, Reached, There, Urbs
<1>7. Marked'
  BY <1>1, <1>2, <1>3, Sizes DEF IInv, Marked, Urbs
<1>8. Alive'
  BY <1>1, <1>2, <1>3 DEF IInv, Alive, Started, Step, InHand, Urbs
<1> QED  BY <1>4, <1>5, <1>6, <1>7, <1>8 DEF IInv

(* Cancel returns.                                                         *)
LEMMA CancelReturnsKeeps ==
  ASSUME ~SMP, IInv, CancelReturns
  PROVE  IInv'
<1>1. /\ UNCHANGED <<port, paired, nurbs, attached, held, ai_cmd_running, ignore, urb_active,
                     flight, by, h, cmd, tries, dropped, spoilt>>
      /\ h.at = "idle" /\ call.at = "cancelled" /\ runflag' = FALSE /\ inttrig' = FALSE
  BY DEF CancelReturns, CallStep, IInv, loadVars, deviceVars, urbVars, coreVars, packetVars
<1>2. \A x : InFlight(x)' <=> InFlight(x)
  BY <1>1 DEF InFlight
<1>3. call' \in CallType /\ call'.at = "idle" /\ call'.j = 0
  <2>1. call' = NoCall
    BY DEF CancelReturns
  <2> QED  BY <1>1, <2>1, Sizes DEF IInv, TypeOK, CallType, HandlerType, NoCall, Idle
<1>4. TypeOK'
  BY <1>1, <1>3 DEF IInv, TypeOK, CallType, HandlerType, Urbs, Pieces
<1>5. Pairs' /\ HandlerIs' /\ CallIs' /\ Swept'
  BY <1>1, <1>2, <1>3, Sizes DEF IInv, Pairs, HandlerIs, CallIs, Swept, Urbs, CallIs
<1>6. HeldIs'
  BY <1>1, <1>2, <1>3, Sizes DEF IInv, HeldIs, Freed, Reached, There, Urbs, CallIs
<1>7. Marked'
  BY <1>1, <1>2, <1>3, Sizes DEF IInv, Marked, Urbs, CallIs
<1>8. Alive'
  BY <1>1, <1>2, <1>3 DEF IInv, Alive, Started, Step, InHand, Urbs, CallIs
<1> QED  BY <1>4, <1>5, <1>6, <1>7, <1>8 DEF IInv

(* A packet after the end.                                                 *)
LEMMA NotRunningKeeps ==
  ASSUME ~SMP, IInv, NotRunning
  PROVE  IInv'
<1>1. /\ UNCHANGED <<port, paired, nurbs, attached, held, ai_cmd_running, ignore, urb_active,
                     flight, by, runflag, inttrig, call, cmd, tries, dropped, spoilt>>
      /\ h.at = "check" /\ ~ai_cmd_running
  BY DEF NotRunning, CallStep, IInv, loadVars, deviceVars, urbVars, coreVars, packetVars
<1>2. \A x : InFlight(x)' <=> InFlight(x)
  BY <1>1 DEF InFlight
<1>3. h' \in HandlerType /\ h'.at = "idle"
  <2>1. h' = Idle
    BY DEF NotRunning
  <2> QED  BY <1>1, <2>1, Sizes DEF IInv, TypeOK, CallType, HandlerType, NoCall, Idle
<1>4. TypeOK'
  BY <1>1, <1>3 DEF IInv, TypeOK, CallType, HandlerType, Urbs, Pieces
<1>5. Pairs' /\ HandlerIs' /\ CallIs' /\ Swept'
  BY <1>1, <1>2, <1>3, Sizes DEF IInv, Pairs, HandlerIs, CallIs, Swept, Urbs
<1>6. HeldIs'
  BY <1>1, <1>2, <1>3, Sizes DEF IInv, HeldIs, Freed, Reached, There, Urbs
<1>7. Marked'
  BY <1>1, <1>2, <1>3, Sizes DEF IInv, Marked, Urbs
<1>8. Alive'
  BY <1>1, <1>2, <1>3 DEF IInv, Alive, Started, Step, InHand, Urbs
<1> QED  BY <1>4, <1>5, <1>6, <1>7, <1>8 DEF IInv

(* A URB that is killed is not in flight, the others as before.            *)
LEMMA KilledIs ==
  ASSUME TypeOK, NEW j, Killed(j)
  PROVE  /\ flight' \in Seq(Urbs) /\ IsInjective(flight')
         /\ \A x : InFlight(x)' <=> InFlight(x) /\ x # j
         /\ flight = <<>> => flight' = <<>>
<1>1. flight \in Seq(Urbs) /\ IsInjective(flight)
  BY DEF TypeOK
<1>2. CASE InFlight(j)
  <2>1. PICK i \in DOMAIN flight : flight[i] = j /\ flight' = RemoveAt(flight, i)
    BY <1>2 DEF Killed
  <2>2. /\ flight' \in Seq(Urbs) /\ IsInjective(flight')
        /\ \A x : In(flight', x) <=> In(flight, x) /\ x # j
    BY <1>1, <2>1, Removed
  <2>3. flight # <<>>
    BY <2>1
  <2> QED  BY <2>2, <2>3 DEF In, InFlight
<1>3. CASE ~InFlight(j)
  <2>1. flight' = flight
    BY <1>3 DEF Killed
  <2> QED  BY <1>1, <1>3, <2>1 DEF InFlight
<1> QED  BY <1>2, <1>3

(* Without a URB in flight the sequence is empty.                          *)
LEMMA NoneInFlight ==
  ASSUME TypeOK, \A x \in Urbs : ~InFlight(x)
  PROVE  flight = <<>>
<1> SUFFICES ASSUME flight # <<>> PROVE FALSE
  OBVIOUS
<1>1. flight \in Seq(Urbs) /\ IsInjective(flight)
  BY DEF TypeOK
<1>2. Head(flight) \in Urbs /\ In(flight, Head(flight))
  BY <1>1, TailOf
<1> QED  BY <1>2 DEF In, InFlight

(* Detach kills a URB.                                                     *)
LEMMA DetachKillKeeps ==
  ASSUME ~SMP, IInv, DetachKill
  PROVE  IInv'
<1>1. /\ UNCHANGED <<port, paired, nurbs, attached, held, ai_cmd_running, ignore, urb_active,
                     by, h, runflag, inttrig, cmd, tries, dropped, spoilt>>
      /\ h.at = "idle" /\ call.at = "detach" /\ call.j < nurbs
  BY DEF DetachKill, CallStep, loadVars, deviceVars, coreVars, packetVars
<1>2. /\ flight' \in Seq(Urbs) /\ IsInjective(flight')
      /\ \A x : InFlight(x)' <=> InFlight(x) /\ x # call.j
      /\ flight = <<>> => flight' = <<>>
  BY KilledIs DEF DetachKill, IInv
<1>3. call' \in CallType /\ call'.at = "detach" /\ call'.j = call.j + 1 /\ call.j \in Nat
  <2>1. call' = [call EXCEPT !.j = @ + 1]
    BY DEF DetachKill
  <2>2. call \in CallType /\ call.j + 1 \in 0 .. nurbs /\ call.j \in Nat
    BY <1>1, Sizes DEF IInv, TypeOK, CallType
  <2> QED  BY <1>1, <2>1, <2>2 DEF CallType
<1>4. TypeOK'
  BY <1>1, <1>2, <1>3 DEF IInv, TypeOK, CallType, HandlerType, Urbs, Pieces
<1>5. Pairs' /\ HandlerIs' /\ CallIs' /\ Swept'
  BY <1>1, <1>2, <1>3, Sizes DEF IInv, Pairs, HandlerIs, CallIs, Swept, Urbs
<1>6. HeldIs'
  BY <1>1, <1>2, <1>3 DEF IInv, HeldIs, Freed, Reached, There, Urbs
<1>7. Marked'
  BY <1>1, <1>2, <1>3, Sizes DEF IInv, Marked, Urbs
<1>8. Alive'
  BY <1>1, <1>2, <1>3 DEF IInv, CallIs, Alive
<1> QED  BY <1>4, <1>5, <1>6, <1>7, <1>8 DEF IInv

(* Detach frees all, and nothing is in flight by then.                     *)
LEMMA DetachFreeKeeps ==
  ASSUME ~SMP, IInv, DetachFree
  PROVE  IInv'
<1>1. /\ UNCHANGED <<port, paired, nurbs, ai_cmd_running, ignore, flight, by, h, runflag,
                     inttrig, cmd, tries, dropped, spoilt>>
      /\ h.at = "idle" /\ call.at = "detach"
      /\ attached' = "no" /\ held' = held \ Freed
      /\ ~ai_cmd_running
  BY DEF DetachFree, CallStep, IInv, CallIs, loadVars, coreVars, packetVars
<1>2. call' \in CallType /\ call'.at = "idle"
  <2>1. call' = NoCall
    BY DEF DetachFree
  <2> QED  BY <2>1, Sizes DEF CallType, NoCall
<1>3. urb_active' \in [0 .. MaxUrbs - 1 -> BOOLEAN]
  <2>1. urb_active' = [j \in 0 .. MaxUrbs - 1 |-> urb_active[j] /\ j \notin Reached]
    BY DEF DetachFree
  <2> QED  BY <2>1
<1>4. held' = {}
  BY <1>1 DEF IInv, HeldIs
<1>5. flight = <<>>
  <2>1. CASE attached = "yes"
    <3>1. call.j = nurbs
      <4>1. call.j \in Urbs \/ call.j = nurbs
        BY Sizes DEF IInv, TypeOK, Urbs
      <4>2. call.j \in Urbs => There(call.j)
        BY <2>1 DEF IInv, HeldIs
      <4> QED  BY <4>1, <4>2 DEF DetachFree
    <3>2. \A j \in Urbs : j < nurbs
      BY Sizes DEF Urbs
    <3>3. \A j \in Urbs : ~InFlight(j)
      BY <1>1, <3>1, <3>2 DEF IInv, Swept
    <3> QED  BY <3>3, NoneInFlight DEF IInv
  <2>2. CASE attached # "yes"
    BY <2>2 DEF IInv, HeldIs
  <2> QED  BY <2>1, <2>2
<1>6. \A x : ~InFlight(x)'
  BY <1>1, <1>5 DEF InFlight
<1>7. TypeOK'
  BY <1>1, <1>2, <1>3, <1>4 DEF IInv, TypeOK, CallType, HandlerType, Urbs, Pieces
<1>8. Pairs' /\ HandlerIs' /\ CallIs' /\ HeldIs' /\ Marked' /\ Swept' /\ Alive'
  BY <1>1, <1>2, <1>4, <1>5, <1>6
     DEF IInv, Pairs, HandlerIs, CallIs, HeldIs, Freed, Marked, Swept, Alive
<1> QED  BY <1>7, <1>8 DEF IInv

(* A command is given.                                                     *)
LEMMA AiCmdKeeps ==
  ASSUME ~SMP, IInv, AiCmd
  PROVE  IInv'
<1>1. /\ UNCHANGED <<port, paired, nurbs, attached, held, urb_active, flight, by, h>>
      /\ h.at = "idle" /\ call.at = "idle" /\ attached = "yes"
      /\ ai_cmd_running => runflag
      /\ ~runflag /\ cmd < MaxCommands /\ cmd' = cmd + 1 /\ tries' = 0
  BY DEF AiCmd, CallStep, IInv, CallIs, loadVars, deviceVars, urbVars
<1>2. \A x : InFlight(x)' <=> InFlight(x)
  BY <1>1 DEF InFlight
<1>3. /\ ~ai_cmd_running
      /\ ignore' = Ignore /\ dropped' = 0 /\ spoilt' = FALSE
      /\ inttrig' \in BOOLEAN
  BY <1>1 DEF AiCmd, StartIgnoring, IInv, TypeOK
<1>4. \/ UNCHANGED <<ai_cmd_running, runflag, call>>
      \/ ai_cmd_running' = TRUE /\ runflag' = TRUE /\ call' = [NoCall EXCEPT !.at = "submit"]
      \/ runflag' = TRUE /\ UNCHANGED <<ai_cmd_running, call>>
  BY <1>3, Zenon DEF AiCmd
<1>5. /\ call' \in CallType /\ ai_cmd_running' \in BOOLEAN /\ runflag' \in BOOLEAN
      /\ \/ call'.at = "idle" /\ ~ai_cmd_running'
         \/ call'.at = "submit" /\ call'.j = 0 /\ runflag'
  <2>1. /\ call \in CallType /\ ai_cmd_running \in BOOLEAN /\ runflag \in BOOLEAN
        /\ [NoCall EXCEPT !.at = "submit"] \in CallType
        /\ [NoCall EXCEPT !.at = "submit"].at = "submit"
        /\ [NoCall EXCEPT !.at = "submit"].j = 0
    BY Sizes DEF IInv, TypeOK, NoCall, CallType
  <2>2. CASE UNCHANGED <<ai_cmd_running, runflag, call>>
    BY <1>1, <1>3, <2>1, <2>2
  <2>3. CASE ai_cmd_running' = TRUE /\ runflag' = TRUE /\ call' = [NoCall EXCEPT !.at = "submit"]
    BY <2>1, <2>3
  <2>4. CASE runflag' = TRUE /\ UNCHANGED <<ai_cmd_running, call>>
    BY <1>1, <1>3, <2>1, <2>4
  <2> QED  BY <1>4, <2>2, <2>3, <2>4
<1>6. by' \in [0 .. MaxUrbs - 1 -> 0 .. cmd'] /\ cmd' \in 0 .. MaxCommands
  <2>1. by \in [0 .. MaxUrbs - 1 -> 0 .. cmd] /\ by' = by /\ cmd \in Nat
    BY <1>1, DriverAssumption DEF IInv, TypeOK
  <2>2. 0 .. cmd \subseteq 0 .. cmd' /\ cmd' \in 0 .. MaxCommands
    BY <1>1, <2>1, DriverAssumption
  <2> QED  BY <2>1, <2>2
<1>7. TypeOK'
  <2>0. Ignore \in 0 .. Ignore /\ 0 \in 0 .. Ignore /\ 0 \in 0 .. 2
    BY DriverAssumption
  <2>1. /\ ignore' \in 0 .. Ignore /\ dropped' \in 0 .. Ignore /\ tries' \in 0 .. 2
        /\ spoilt' \in BOOLEAN /\ inttrig' \in BOOLEAN
    BY <1>1, <1>3, <2>0, Zenon
  <2> QED  BY <1>1, <1>5, <1>6, <2>1 DEF IInv, TypeOK, CallType, HandlerType, Urbs, Pieces
<1>8. Pairs' /\ HandlerIs' /\ CallIs' /\ Swept'
  BY <1>1, <1>2, <1>5, Sizes DEF IInv, Pairs, HandlerIs, CallIs, Swept, Urbs
<1>9. HeldIs'
  BY <1>1, <1>2, <1>5 DEF IInv, HeldIs, Freed, Reached, There, Urbs
<1>10. Marked'
  BY <1>1, <1>2, <1>5 DEF IInv, Marked, Urbs
<1>11. Alive'
  BY <1>1, <1>5, Sizes DEF Alive, Started, Urbs
<1> QED  BY <1>7, <1>8, <1>9, <1>10, <1>11 DEF IInv

(* The start marks the URB it submitted, and goes on or is done.           *)
LEMMA MarkUrbKeeps ==
  ASSUME ~SMP, IInv, MarkUrb
  PROVE  IInv'
<1>1. /\ UNCHANGED <<port, paired, nurbs, attached, held, ai_cmd_running, ignore, flight, by,
                     h, runflag, cmd, tries, dropped, spoilt>>
      /\ h.at = "idle" /\ call.at = "mark" /\ call.j \in Urbs
  BY DEF MarkUrb, CallStep, IInv, CallIs, TypeOK, Urbs, loadVars, deviceVars, packetVars
<1>2. \A x : InFlight(x)' <=> InFlight(x)
  BY <1>1 DEF InFlight
<1>3. /\ urb_active' \in [0 .. MaxUrbs - 1 -> BOOLEAN]
      /\ urb_active'[call.j] = TRUE
      /\ \A x \in Urbs : x # call.j => urb_active'[x] = urb_active[x]
  <2>1. urb_active' = [urb_active EXCEPT ![call.j] = TRUE]
    BY DEF MarkUrb
  <2>2. /\ urb_active \in [0 .. MaxUrbs - 1 -> BOOLEAN] /\ call.j \in 0 .. MaxUrbs - 1
        /\ \A x \in Urbs : x \in 0 .. MaxUrbs - 1
    BY <1>1, Sizes DEF IInv, TypeOK, Urbs
  <2> QED  BY <2>1, <2>2, Zenon
<1>4. /\ call' \in CallType /\ inttrig' \in BOOLEAN
      /\ \/ call'.at = "submit" /\ call'.j = call.j + Step /\ call'.j < nurbs
         \/ call'.at = "idle" /\ ~(call.j + Step < nurbs)
  <2>1. \/ /\ call.j + Step < nurbs /\ inttrig' = inttrig
           /\ call' = [call EXCEPT !.at = "submit", !.j = call.j + Step]
        \/ /\ ~(call.j + Step < nurbs) /\ inttrig' = FALSE
           /\ call' = NoCall
    BY DEF MarkUrb, Step
  <2>2. call \in CallType /\ inttrig \in BOOLEAN
        /\ (call.j + Step < nurbs => call.j + Step \in 0 .. nurbs)
    BY <1>1, Sizes DEF IInv, TypeOK, CallType, Step, Urbs
  <2>3. CASE /\ call.j + Step < nurbs /\ inttrig' = inttrig
             /\ call' = [call EXCEPT !.at = "submit", !.j = call.j + Step]
    BY <2>2, <2>3 DEF CallType
  <2>4. CASE /\ ~(call.j + Step < nurbs) /\ inttrig' = FALSE
             /\ call' = NoCall
    BY <2>4, Sizes DEF CallType, NoCall
  <2> QED  BY <2>1, <2>3, <2>4
<1>5. TypeOK'
  BY <1>1, <1>3, <1>4 DEF IInv, TypeOK, CallType, HandlerType, Urbs, Pieces
<1>6. paired /\ call'.at = "submit" => call'.j % 2 = 0
  <2>1. paired => call.j % 2 = 0 /\ Step = 2 /\ call.j \in Nat
    BY <1>1, Sizes DEF IInv, CallIs, Step, Urbs
  <2> QED  BY <1>4, <2>1
<1>7. Pairs' /\ HandlerIs' /\ CallIs' /\ Swept'
  BY <1>1, <1>2, <1>4, <1>6 DEF IInv, Pairs, HandlerIs, CallIs, Swept, Urbs
<1>8. HeldIs'
  BY <1>1, <1>2, <1>4 DEF IInv, HeldIs, Freed, Reached, There, Urbs, CallIs
<1>9. Marked'
  BY <1>1, <1>2, <1>3, <1>4 DEF IInv, Marked, Urbs
<1>10. Alive'
  <2>1. \A j \in Urbs : Started(j)' => Started(j)
    BY <1>1, <1>4, Sizes DEF Started, Step, Urbs
  <2> QED  BY <1>1, <1>2, <2>1 DEF IInv, Alive, InHand, Urbs
<1> QED  BY <1>5, <1>7, <1>8, <1>9, <1>10 DEF IInv

(* Cancel passes a URB: not marked, it is not in flight.                   *)
LEMMA KillUrbKeeps ==
  ASSUME ~SMP, IInv, KillUrb
  PROVE  IInv'
<1>1. /\ UNCHANGED <<port, paired, nurbs, attached, held, ai_cmd_running, ignore, by, h,
                     runflag, inttrig, cmd, tries, dropped, spoilt>>
      /\ h.at = "idle" /\ call.at = "kill" /\ call.j \in Urbs /\ ~ai_cmd_running
      /\ attached = "yes"
  BY DEF KillUrb, CallStep, IInv, CallIs, TypeOK, Urbs, loadVars, deviceVars, coreVars, packetVars
<1>2. /\ flight' \in Seq(Urbs) /\ IsInjective(flight')
      /\ \A x : InFlight(x)' <=> InFlight(x) /\ x # call.j
  <2>1. CASE ToKill(call.j)
    BY <2>1, KilledIs DEF KillUrb, IInv
  <2>2. CASE ~ToKill(call.j)
    <3>1. flight' = flight
      BY <2>2 DEF KillUrb
    <3>2. ~InFlight(call.j)
      BY <1>1, <2>2 DEF IInv, Marked, ToKill
    <3> QED  BY <3>1, <3>2 DEF IInv, TypeOK, InFlight
  <2> QED  BY <2>1, <2>2
<1>3. /\ urb_active' \in [0 .. MaxUrbs - 1 -> BOOLEAN]
      /\ urb_active'[call.j] = FALSE
      /\ \A x \in Urbs : x # call.j => urb_active'[x] = urb_active[x]
  <2>1. urb_active' = [urb_active EXCEPT ![call.j] = FALSE]
    BY DEF KillUrb
  <2>2. /\ urb_active \in [0 .. MaxUrbs - 1 -> BOOLEAN] /\ call.j \in 0 .. MaxUrbs - 1
        /\ \A x \in Urbs : x \in 0 .. MaxUrbs - 1
    BY <1>1, Sizes DEF IInv, TypeOK, Urbs
  <2> QED  BY <2>1, <2>2, Zenon
<1>4. /\ call' \in CallType
      /\ \/ call'.at = "kill" /\ call'.j = call.j + 1 /\ call'.j < nurbs
         \/ call'.at = "cancelled" /\ ~(call.j + 1 < nurbs)
  <2>1. \/ call.j + 1 < nurbs /\ call' = [call EXCEPT !.j = call.j + 1]
        \/ ~(call.j + 1 < nurbs) /\ call' = [call EXCEPT !.at = "cancelled"]
    BY DEF KillUrb
  <2>2. call \in CallType /\ (call.j + 1 < nurbs => call.j + 1 \in 0 .. nurbs)
    BY <1>1, Sizes DEF IInv, TypeOK, CallType, Urbs
  <2> QED  BY <1>1, <2>1, <2>2 DEF CallType
<1>5. TypeOK'
  BY <1>1, <1>2, <1>3, <1>4 DEF IInv, TypeOK, CallType, HandlerType, Urbs, Pieces
<1>6. Pairs' /\ HandlerIs' /\ CallIs'
  BY <1>1, <1>4 DEF IInv, Pairs, HandlerIs, CallIs
<1>7. Swept'
  <2>1. \A j \in Urbs : j < call.j \/ j = call.j => ~urb_active'[j] /\ ~InFlight(j)'
    BY <1>1, <1>2, <1>3 DEF IInv, Swept
  <2>2. /\ call'.at = "kill" => \A j \in Urbs : j < call'.j => j < call.j \/ j = call.j
        /\ call'.at = "cancelled" => \A j \in Urbs : j < call.j \/ j = call.j
        /\ call'.at # "detach"
    BY <1>1, <1>4, Sizes DEF Urbs
  <2> QED  BY <1>1, <2>1, <2>2 DEF Swept, Urbs
<1>8. HeldIs'
  BY <1>1, <1>4 DEF IInv, HeldIs, Freed, Reached, There, Urbs
<1>9. Marked'
  BY <1>1, <1>2, <1>3 DEF IInv, Marked, Urbs
<1>10. Alive'
  BY <1>1 DEF Alive
<1> QED  BY <1>5, <1>6, <1>7, <1>8, <1>9, <1>10 DEF IInv

(* A URB is complete and goes to the handler.                              *)
LEMMA CompleteKeeps ==
  ASSUME ~SMP, IInv, NEW bad \in BOOLEAN, Complete(bad)
  PROVE  IInv'
<1>1. /\ UNCHANGED <<port, paired, nurbs, attached, held, ai_cmd_running, ignore, urb_active,
                     by, runflag, inttrig, call, cmd, tries, dropped, spoilt>>
      /\ h.at = "idle" /\ flight # <<>>
  BY DEF Complete, loadVars, deviceVars, coreVars, packetVars
<1>2. PICK u \in Urbs : u = Head(flight) /\ InFlight(u)
  BY <1>1, TailOf DEF IInv, TypeOK, In, InFlight
<1>3. /\ flight' \in Seq(Urbs) /\ IsInjective(flight')
      /\ \A x : InFlight(x)' <=> InFlight(x) /\ x # u
  <2>1. flight \in Seq(Urbs) /\ IsInjective(flight) /\ flight' = Tail(flight)
    BY DEF IInv, TypeOK, Complete
  <2>2. /\ flight' \in Seq(Urbs) /\ IsInjective(flight')
        /\ \A x : In(flight', x) <=> In(flight, x) /\ x # u
    BY <1>1, <1>2, <2>1, TailOf
  <2> QED  BY <2>2 DEF In, InFlight
<1>4. h' \in HandlerType /\ h'.at = "check" /\ h'.urb = u
  <2>1. h' = [at |-> "check", urb |-> u, bad |-> bad, ev |-> FALSE]
    BY <1>2 DEF Complete
  <2> QED  BY <2>1 DEF HandlerType
<1>5. attached = "yes" /\ call.at # "cancelled"
  BY <1>1, <1>2 DEF IInv, HeldIs, Swept
<1>6. TypeOK'
  BY <1>1, <1>3, <1>4 DEF IInv, TypeOK, CallType, HandlerType, Urbs, Pieces
<1>7. Pairs' /\ HandlerIs' /\ CallIs' /\ Swept'
  BY <1>1, <1>3, <1>4, <1>5 DEF IInv, Pairs, HandlerIs, CallIs, Swept, Urbs
<1>8. HeldIs'
  BY <1>1, <1>5 DEF IInv, HeldIs, Freed, Reached, There, Urbs
<1>9. Marked'
  BY <1>1, <1>3, <1>4 DEF IInv, Marked, Urbs
<1>10. Alive'
  <2> SUFFICES ASSUME ai_cmd_running, NEW j \in Urbs, Started(j)
               PROVE  InFlight(j)' \/ (paired /\ InFlight(Partner(j))') \/ InHand(j)'
    BY <1>1 DEF Alive, Started, Step, Urbs
  <2>1. InFlight(j) \/ (paired /\ InFlight(Partner(j)))
    BY <1>1 DEF IInv, Alive, InHand
  <2>2. paired => Partner(Partner(j)) = j
    BY PartnerIs DEF IInv
  <2>3. j = u \/ (paired /\ j = Partner(u)) => InHand(j)'
    BY <1>1, <1>4 DEF InHand
  <2> QED  BY <1>3, <2>1, <2>2, <2>3
<1> QED  BY <1>6, <1>7, <1>8, <1>9, <1>10 DEF IInv

(* A URB that is looked at has its mark cleared.                           *)
LEMMA ClearedIs ==
  ASSUME IInv, Cleared
  PROVE  /\ urb_active' \in [0 .. MaxUrbs - 1 -> BOOLEAN]
         /\ \A x \in Urbs : x # h.urb => urb_active'[x] = urb_active[x]
<1>1. urb_active' = [urb_active EXCEPT ![h.urb] = FALSE]
  BY DEF Cleared
<1>2. /\ urb_active \in [0 .. MaxUrbs - 1 -> BOOLEAN] /\ h.urb \in 0 .. MaxUrbs - 1
      /\ \A x \in Urbs : x \in 0 .. MaxUrbs - 1
  BY Sizes DEF IInv, TypeOK, Urbs
<1> QED  BY <1>1, <1>2, Zenon

(* The handler goes on, or finds an error.                                 *)
LEMMA CheckKeeps ==
  ASSUME IInv, h.at = "check", ai_cmd_running, h' \in HandlerType, h'.urb = h.urb,
         \/ h'.at = GoOn
         \/ h'.at = "fail"
         \/ h'.at = "tail" /\ h'.ev,
         Cleared \/ UNCHANGED urb_active,
         UNCHANGED <<loadVars, deviceVars, ai_cmd_running, ignore, flight, by, coreVars, call, packetVars>>
  PROVE  IInv'
<1>1. /\ UNCHANGED <<port, paired, nurbs, attached, held, ai_cmd_running, ignore, flight, by,
                     runflag, inttrig, call, cmd, tries, dropped, spoilt>>
      /\ ~InFlight(h.urb) /\ attached = "yes"
      /\ call.at \in {"idle", "submit", "mark"}
  BY DEF IInv, HandlerIs, CallIs, TypeOK, loadVars, deviceVars, coreVars, packetVars
<1>2. \A x : InFlight(x)' <=> InFlight(x)
  BY <1>1 DEF InFlight
<1>3. /\ urb_active' \in [0 .. MaxUrbs - 1 -> BOOLEAN]
      /\ \A x \in Urbs : x # h.urb => urb_active'[x] = urb_active[x]
  BY ClearedIs DEF IInv, TypeOK
<1>4. TypeOK'
  BY <1>1, <1>3 DEF IInv, TypeOK, CallType, HandlerType, Urbs, Pieces
<1>5. Pairs' /\ CallIs' /\ Swept'
  BY <1>1, <1>2 DEF IInv, Pairs, CallIs, Swept, GoOn, Urbs
<1>6. HandlerIs'
  BY <1>1, <1>2 DEF HandlerIs, GoOn
<1>7. HeldIs'
  BY <1>1 DEF IInv, HeldIs, Freed, Reached, There, Urbs
<1>8. Marked'
  BY <1>1, <1>2, <1>3 DEF IInv, Marked, Urbs
<1>9. Alive'
  <2> SUFFICES ASSUME ai_cmd_running, NEW j \in Urbs, Started(j)
               PROVE  InFlight(j)' \/ (paired /\ InFlight(Partner(j))') \/ InHand(j)'
    BY <1>1 DEF Alive, Started, Step, Urbs
  <2>1. InFlight(j) \/ (paired /\ InFlight(Partner(j))) \/ InHand(j)
    BY DEF IInv, Alive
  <2>2. InHand(j) => InHand(j)'
    BY <1>1 DEF InHand, GoOn
  <2> QED  BY <1>2, <2>1, <2>2
<1> QED  BY <1>4, <1>5, <1>6, <1>7, <1>8, <1>9 DEF IInv

(* So in the 4.6 driver.                                                   *)
LEMMA Check46Keeps ==
  ASSUME ~SMP, IInv, Check46
  PROVE  IInv'
<1>1. h \in HandlerType /\ GoOn \in {"pair", "copy"}
  BY DEF IInv, TypeOK, HandlerType, GoOn
<1>2. /\ h' \in HandlerType /\ h'.urb = h.urb
      /\ h'.at = GoOn \/ (h'.at = "tail" /\ h'.ev)
      /\ Cleared \/ UNCHANGED urb_active
  <2>1. CASE h.bad
    BY <1>1, <2>1 DEF Check46, HandlerType
  <2>2. CASE ~h.bad
    BY <1>1, <2>2 DEF Check46, HandlerType
  <2> QED  BY <2>1, <2>2
<1> QED  BY <1>2, CheckKeeps DEF Check46

(* So in the 3.18 driver.                                                  *)
LEMMA Check318Keeps ==
  ASSUME ~SMP, IInv, Check318
  PROVE  IInv'
<1>1. h \in HandlerType /\ GoOn \in {"pair", "copy"}
  BY DEF IInv, TypeOK, HandlerType, GoOn
<1>2. /\ h' \in HandlerType /\ h'.urb = h.urb
      /\ h'.at = GoOn \/ h'.at = "fail"
  BY <1>1 DEF Check318, HandlerType
<1> QED  BY <1>2, CheckKeeps DEF Check318

(* The handler submits the partner, or cannot.                             *)
LEMMA SubmitPairKeeps ==
  ASSUME ~SMP, IInv, SubmitPair
  PROVE  IInv'
<1>1. /\ UNCHANGED <<port, paired, nurbs, attached, held, ai_cmd_running, ignore, urb_active,
                     runflag, inttrig, call, cmd, tries, dropped, spoilt>>
      /\ h.at = "pair" /\ h.urb \in Urbs /\ ~InFlight(h.urb) /\ attached = "yes"
      /\ call.at \in {"idle", "submit", "mark"} /\ ai_cmd_running /\ paired
  BY DEF SubmitPair, IInv, HandlerIs, TypeOK, loadVars, deviceVars, coreVars, packetVars
<1>2. Partner(h.urb) \in Urbs /\ Partner(h.urb) # h.urb
  BY <1>1, PartnerIs DEF IInv
<1>3. /\ h' \in HandlerType /\ h'.urb = h.urb
      /\ flight' \in Seq(Urbs) /\ IsInjective(flight') /\ by' \in [0 .. MaxUrbs - 1 -> 0 .. cmd]
      /\ \/ h'.at = "mark" /\ \A x : InFlight(x)' <=> InFlight(x) \/ x = Partner(h.urb)
         \/ h'.at = "fail" /\ \A x : InFlight(x)' <=> InFlight(x)
  <2>1. h \in HandlerType
    BY DEF IInv, TypeOK, HandlerType
  <2>2. CASE Submitted(Partner(h.urb)) /\ h' = [h EXCEPT !.at = "mark"]
    <3>1. /\ flight' \in Seq(Urbs) /\ IsInjective(flight') /\ by' \in [0 .. MaxUrbs - 1 -> 0 .. cmd]
          /\ \A x : InFlight(x)' <=> InFlight(x) \/ x = Partner(h.urb)
      BY <1>2, <2>2, SubmittedIs DEF IInv
    <3>2. h' \in HandlerType /\ h'.at = "mark" /\ h'.urb = h.urb
      BY <2>1, <2>2 DEF HandlerType
    <3> QED  BY <3>1, <3>2
  <2>3. CASE h' = [h EXCEPT !.at = "fail"] /\ UNCHANGED <<flight, by>>
    <3>1. h' \in HandlerType /\ h'.at = "fail" /\ h'.urb = h.urb
      BY <2>1, <2>3 DEF HandlerType
    <3> QED  BY <2>3, <3>1 DEF IInv, TypeOK, InFlight
  <2> QED  BY <2>2, <2>3 DEF SubmitPair
<1>4. TypeOK'
  BY <1>1, <1>3 DEF IInv, TypeOK, CallType, HandlerType, Urbs, Pieces
<1>5. Pairs' /\ CallIs' /\ Swept'
  BY <1>1, <1>3 DEF IInv, Pairs, CallIs, Swept, Urbs
<1>6. HandlerIs'
  BY <1>1, <1>2, <1>3 DEF HandlerIs
<1>7. HeldIs'
  BY <1>1 DEF IInv, HeldIs, Freed, Reached, There, Urbs
<1>8. Marked'
  BY <1>1, <1>3 DEF IInv, Marked, Urbs
<1>9. Alive'
  <2> SUFFICES ASSUME ai_cmd_running, NEW j \in Urbs, Started(j)
               PROVE  InFlight(j)' \/ (paired /\ InFlight(Partner(j))') \/ InHand(j)'
    BY <1>1 DEF Alive, Started, Step, Urbs
  <2>1. InFlight(j) \/ (paired /\ InFlight(Partner(j))) \/ InHand(j)
    BY DEF IInv, Alive
  <2>2. InHand(j) => InHand(j)'
    BY <1>1, <1>3 DEF InHand
  <2> QED  BY <1>3, <2>1, <2>2
<1> QED  BY <1>4, <1>5, <1>6, <1>7, <1>8, <1>9 DEF IInv

(* The URB is given back at the end of its handler, or the submission      *)
(* fails.                                                                  *)
LEMMA ResubmitKeeps ==
  ASSUME IInv, h.at = "tail", Resubmits,
         \/ Submitted(h.urb) /\ h' = Idle
         \/ /\ h' \in HandlerType /\ h'.urb = h.urb
            /\ h'.at = "fail" \/ (h'.at = "tail" /\ h'.ev)
            /\ UNCHANGED <<flight, by>>,
         urb_active' = [urb_active EXCEPT ![h.urb] = TRUE],
         UNCHANGED <<loadVars, deviceVars, ai_cmd_running, ignore, coreVars, call, packetVars>>
  PROVE  IInv'
<1>1. /\ UNCHANGED <<port, paired, nurbs, attached, held, ai_cmd_running, ignore,
                     runflag, inttrig, call, cmd, tries, dropped, spoilt>>
      /\ h.urb \in Urbs /\ ~InFlight(h.urb) /\ attached = "yes"
      /\ call.at \in {"idle", "submit", "mark"} /\ ai_cmd_running /\ ~paired /\ runflag
  BY DEF Resubmits, IInv, HandlerIs, CallIs, TypeOK, loadVars, deviceVars, coreVars, packetVars
<1>2. /\ urb_active' \in [0 .. MaxUrbs - 1 -> BOOLEAN]
      /\ urb_active'[h.urb] = TRUE
      /\ \A x \in Urbs : x # h.urb => urb_active'[x] = urb_active[x]
  <2>1. /\ urb_active \in [0 .. MaxUrbs - 1 -> BOOLEAN] /\ h.urb \in 0 .. MaxUrbs - 1
        /\ \A x \in Urbs : x \in 0 .. MaxUrbs - 1
    BY <1>1, Sizes DEF IInv, TypeOK, Urbs
  <2> QED  BY <2>1, Zenon
<1>3. /\ h' \in HandlerType
      /\ flight' \in Seq(Urbs) /\ IsInjective(flight') /\ by' \in [0 .. MaxUrbs - 1 -> 0 .. cmd]
      /\ \/ h'.at = "idle" /\ \A x : InFlight(x)' <=> InFlight(x) \/ x = h.urb
         \/ /\ h'.at = "fail" \/ (h'.at = "tail" /\ h'.ev)
            /\ h'.urb = h.urb /\ \A x : InFlight(x)' <=> InFlight(x)
  <2>2. CASE Submitted(h.urb) /\ h' = Idle
    <3>1. /\ flight' \in Seq(Urbs) /\ IsInjective(flight') /\ by' \in [0 .. MaxUrbs - 1 -> 0 .. cmd]
          /\ \A x : InFlight(x)' <=> InFlight(x) \/ x = h.urb
      BY <1>1, <2>2, SubmittedIs DEF IInv
    <3>2. h' \in HandlerType /\ h'.at = "idle"
      BY <2>2, Sizes DEF HandlerType, Idle
    <3> QED  BY <3>1, <3>2
  <2>3. CASE /\ h' \in HandlerType /\ h'.urb = h.urb
             /\ h'.at = "fail" \/ (h'.at = "tail" /\ h'.ev)
             /\ UNCHANGED <<flight, by>>
    BY <2>3 DEF IInv, TypeOK, InFlight
  <2> QED  BY <2>2, <2>3
<1>4. TypeOK'
  BY <1>1, <1>2, <1>3 DEF IInv, TypeOK, CallType, HandlerType, Urbs, Pieces
<1>5. Pairs' /\ CallIs' /\ Swept'
  BY <1>1, <1>3 DEF IInv, Pairs, CallIs, Swept, Urbs
<1>6. HandlerIs'
  BY <1>1, <1>3 DEF HandlerIs
<1>7. HeldIs'
  BY <1>1 DEF IInv, HeldIs, Freed, Reached, There, Urbs
<1>8. Marked'
  BY <1>1, <1>2, <1>3 DEF IInv, Marked, Urbs
<1>9. Alive'
  <2> SUFFICES ASSUME ai_cmd_running, NEW j \in Urbs, Started(j)
               PROVE  InFlight(j)' \/ (paired /\ InFlight(Partner(j))') \/ InHand(j)'
    BY <1>1 DEF Alive, Started, Step, Urbs
  <2>1. InFlight(j) \/ InHand(j)
    BY <1>1 DEF IInv, Alive
  <2>2. InHand(j) => j = h.urb
    BY <1>1 DEF InHand
  <2>3. h'.at # "idle" /\ h'.urb = j => InHand(j)'
    BY DEF InHand
  <2> QED  BY <1>3, <2>1, <2>2, <2>3
<1> QED  BY <1>4, <1>5, <1>6, <1>7, <1>8, <1>9 DEF IInv

(* So in the 4.6 driver.                                                   *)
LEMMA Resubmit46Keeps ==
  ASSUME ~SMP, IInv, Resubmit46
  PROVE  IInv'
<1>1. h' = [h EXCEPT !.ev = TRUE] /\ h.at = "tail" =>
        h' \in HandlerType /\ h'.urb = h.urb /\ h'.at = "tail" /\ h'.ev
  BY DEF IInv, TypeOK, HandlerType
<1>2. \/ Submitted(h.urb) /\ h' = Idle
      \/ /\ h' \in HandlerType /\ h'.urb = h.urb
         /\ h'.at = "fail" \/ (h'.at = "tail" /\ h'.ev)
         /\ UNCHANGED <<flight, by>>
  BY <1>1, Zenon DEF Resubmit46
<1> QED  BY <1>2, ResubmitKeeps DEF Resubmit46

(* So in the 3.18 driver.                                                  *)
LEMMA Resubmit318Keeps ==
  ASSUME ~SMP, IInv, Resubmit318
  PROVE  IInv'
<1>1. h' = [h EXCEPT !.at = "fail"] =>
        h' \in HandlerType /\ h'.urb = h.urb /\ h'.at = "fail"
  BY DEF IInv, TypeOK, HandlerType
<1>2. \/ Submitted(h.urb) /\ h' = Idle
      \/ /\ h' \in HandlerType /\ h'.urb = h.urb
         /\ h'.at = "fail" \/ (h'.at = "tail" /\ h'.ev)
         /\ UNCHANGED <<flight, by>>
  BY <1>1, Zenon DEF Resubmit318
<1> QED  BY <1>2, ResubmitKeeps DEF Resubmit318

(* The handler goes on to its end, or stops the driver.                    *)
LEMMA EndKeeps ==
  ASSUME IInv, h' \in HandlerType,
         \/ /\ h.at = "copy" /\ h'.at = "tail" /\ h'.urb = h.urb
            /\ UNCHANGED ai_cmd_running
         \/ h.at = "tail" /\ paired /\ ~h.ev /\ h'.at = "idle" /\ UNCHANGED ai_cmd_running
         \/ /\ h.at \in {"copy", "tail"} /\ ai_cmd_running' = FALSE
            /\ h'.at = "idle" \/ (h'.at = "event" /\ h'.urb = h.urb),
         spoilt' \in BOOLEAN,
         UNCHANGED <<loadVars, deviceVars, ignore, urbVars, coreVars, call, cmd, tries, dropped>>
  PROVE  IInv'
<1>1. /\ UNCHANGED <<port, paired, nurbs, attached, held, ignore, urb_active, flight, by,
                     runflag, inttrig, call, cmd, tries, dropped>>
      /\ h.urb \in Urbs /\ ~InFlight(h.urb) /\ attached = "yes"
      /\ call.at \in {"idle", "submit", "mark"} /\ ai_cmd_running /\ runflag
      /\ ai_cmd_running' \in BOOLEAN
  BY DEF IInv, HandlerIs, CallIs, TypeOK, loadVars, deviceVars, urbVars, coreVars
<1>2. \A x : InFlight(x)' <=> InFlight(x)
  BY <1>1 DEF InFlight
<1>3. TypeOK'
  BY <1>1 DEF IInv, TypeOK, CallType, HandlerType, Urbs, Pieces
<1>4. Pairs' /\ CallIs' /\ Swept'
  BY <1>1, <1>2 DEF IInv, Pairs, CallIs, Swept, Urbs
<1>5. HandlerIs'
  BY <1>1, <1>2 DEF IInv, HandlerIs
<1>6. HeldIs'
  BY <1>1 DEF IInv, HeldIs, Freed, Reached, There, Urbs
<1>7. Marked'
  BY <1>1, <1>2 DEF IInv, Marked, Urbs
<1>8. Alive'
  <2> SUFFICES ASSUME ai_cmd_running', NEW j \in Urbs, Started(j)
               PROVE  InFlight(j)' \/ (paired /\ InFlight(Partner(j))') \/ InHand(j)'
    BY <1>1 DEF Alive, Started, Step, Urbs
  <2>1. InFlight(j) \/ (paired /\ InFlight(Partner(j))) \/ InHand(j)
    BY <1>1 DEF IInv, Alive
  <2>2. CASE h'.at = "tail"
    <3>1. InHand(j) => InHand(j)'
      BY <1>1, <2>2 DEF InHand
    <3> QED  BY <1>1, <1>2, <2>1, <3>1
  <2>3. CASE h.at = "tail" /\ paired /\ ~h.ev
    <3>1. InFlight(Partner(h.urb)) /\ Partner(Partner(h.urb)) = h.urb
      BY <1>1, <2>3, PartnerIs DEF IInv, HandlerIs
    <3>2. InHand(j) => j = h.urb \/ j = Partner(h.urb)
      BY DEF InHand
    <3> QED  BY <1>1, <1>2, <2>1, <2>3, <3>1, <3>2
  <2> QED  BY <2>2, <2>3
<1> QED  BY <1>3, <1>4, <1>5, <1>6, <1>7, <1>8 DEF IInv

(* The copy of the 4.6 driver.                                             *)
LEMMA Copy46Keeps ==
  ASSUME ~SMP, IInv, Copy46
  PROVE  IInv'
<1>1. h.at = "copy" /\ h' \in HandlerType /\ h'.at = "tail" /\ h'.urb = h.urb /\ spoilt' \in BOOLEAN
  BY DEF Copy46, PassedOn, IInv, TypeOK, HandlerType
<1>2. UNCHANGED <<loadVars, deviceVars, ignore, urbVars, coreVars, call, cmd, tries, dropped>>
      /\ UNCHANGED ai_cmd_running
  BY DEF Copy46
<1> QED  BY <1>1, <1>2, EndKeeps

(* The copy of the 3.18 driver, which may stop it.                         *)
LEMMA Copy318Keeps ==
  ASSUME ~SMP, IInv, Copy318
  PROVE  IInv'
<1>1. h.at = "copy" /\ spoilt' \in BOOLEAN
  BY DEF Copy318, PassedOn, IInv, TypeOK
<1>2. UNCHANGED <<loadVars, deviceVars, ignore, urbVars, coreVars, call, cmd, tries, dropped>>
  BY DEF Copy318
<1>3. h' = [h EXCEPT !.at = "tail"] => h' \in HandlerType /\ h'.at = "tail" /\ h'.urb = h.urb
  BY DEF IInv, TypeOK, HandlerType
<1>4. h' = [h EXCEPT !.at = "event", !.ev = TRUE] =>
        h' \in HandlerType /\ h'.at = "event" /\ h'.urb = h.urb
  BY DEF IInv, TypeOK, HandlerType
<1>5. h' = Idle => h' \in HandlerType /\ h'.at = "idle"
  BY Sizes DEF Idle, HandlerType
<1>6. \/ h' = [h EXCEPT !.at = "tail"] /\ UNCHANGED ai_cmd_running
      \/ h' = [h EXCEPT !.at = "event", !.ev = TRUE] /\ ai_cmd_running' = FALSE
      \/ h' = Idle /\ ai_cmd_running' = FALSE
  BY DEF Copy318
<1>7. /\ h' \in HandlerType
      /\ \/ h'.at = "tail" /\ h'.urb = h.urb /\ UNCHANGED ai_cmd_running
         \/ ai_cmd_running' = FALSE /\ (h'.at = "idle" \/ (h'.at = "event" /\ h'.urb = h.urb))
  BY <1>3, <1>4, <1>5, <1>6, Zenon
<1> QED  BY <1>1, <1>2, <1>7, EndKeeps

(* The end of the handler.                                                 *)
LEMMA HandlerEndsKeeps ==
  ASSUME ~SMP, IInv, HandlerEnds
  PROVE  IInv'
<1>1. h.at = "tail" /\ (paired \/ h.ev)
  BY DEF HandlerEnds, Resubmits
<1>2. /\ UNCHANGED <<loadVars, deviceVars, ignore, urbVars, coreVars, call, cmd, tries, dropped>>
      /\ spoilt' \in BOOLEAN
  BY DEF HandlerEnds, packetVars, IInv, TypeOK
<1>3. CASE h.ev
  <2>1. h' \in HandlerType /\ h'.at = "event" /\ h'.urb = h.urb /\ ai_cmd_running' = FALSE
    BY <1>3 DEF HandlerEnds, IInv, TypeOK, HandlerType
  <2> QED  BY <1>1, <1>2, <2>1, EndKeeps
<1>4. CASE ~h.ev
  <2>1. h' = Idle /\ ai_cmd_running' = ai_cmd_running
    BY <1>4 DEF HandlerEnds
  <2>2. h' \in HandlerType /\ h'.at = "idle"
    BY <2>1, Sizes DEF HandlerType, Idle
  <2> QED  BY <1>1, <1>2, <1>4, <2>1, <2>2, EndKeeps
<1> QED  BY <1>3, <1>4

(* The partner is marked.                                                  *)
LEMMA MarkPairKeeps ==
  ASSUME ~SMP, IInv, MarkPair
  PROVE  IInv'
<1>1. /\ UNCHANGED <<port, paired, nurbs, attached, held, ai_cmd_running, ignore, flight, by,
                     runflag, inttrig, call, cmd, tries, dropped, spoilt>>
      /\ h.at = "mark"
  BY DEF MarkPair, CallStep, IInv, loadVars, deviceVars, urbVars, coreVars, packetVars
<1>2. \A x : InFlight(x)' <=> InFlight(x)
  BY <1>1 DEF InFlight
<1>3. /\ urb_active' \in [0 .. MaxUrbs - 1 -> BOOLEAN]
      /\ urb_active'[Partner(h.urb)] = TRUE
      /\ \A x \in Urbs : x # Partner(h.urb) => urb_active'[x] = urb_active[x]
  <2>1. h.urb \in Urbs /\ Pairs /\ TypeOK /\ paired
    BY <1>1 DEF IInv, TypeOK, HandlerIs
  <2>2. Partner(h.urb) \in Urbs
    BY <2>1, PartnerIs
  <2>3. urb_active' = [urb_active EXCEPT ![Partner(h.urb)] = TRUE]
    BY DEF MarkPair
  <2>4. urb_active \in [0 .. MaxUrbs - 1 -> BOOLEAN] /\ Partner(h.urb) \in 0 .. MaxUrbs - 1
        /\ \A x \in Urbs : x \in 0 .. MaxUrbs - 1
    BY <2>2, Sizes DEF IInv, TypeOK, Urbs
  <2> QED  BY <2>3, <2>4, Zenon
<1>4. h' \in HandlerType /\ h'.at = "copy" /\ h'.urb = h.urb
  <2>1. h' = [h EXCEPT !.at = "copy"]
    BY DEF MarkPair
  <2> QED  BY <1>1, <2>1, Sizes DEF IInv, TypeOK, CallType, HandlerType, NoCall, Idle
<1>5. TypeOK'
  BY <1>1, <1>3, <1>4 DEF IInv, TypeOK, CallType, HandlerType, Urbs, Pieces
<1>6. Pairs' /\ HandlerIs' /\ CallIs' /\ Swept'
  BY <1>1, <1>2, <1>3, <1>4, Sizes DEF IInv, Pairs, HandlerIs, CallIs, Swept, Urbs
<1>7. HeldIs'
  BY <1>1, <1>2, <1>3, <1>4, Sizes DEF IInv, HeldIs, Freed, Reached, There, Urbs
<1>8. Marked'
  BY <1>1, <1>2, <1>3, <1>4, Sizes DEF IInv, Marked, Urbs
<1>9. Alive'
  BY <1>1, <1>2, <1>3, <1>4 DEF IInv, Alive, Started, Step, InHand, Urbs
<1> QED  BY <1>5, <1>6, <1>7, <1>8, <1>9 DEF IInv

(* A packet is ignored.                                                    *)
LEMMA IgnorePacketKeeps ==
  ASSUME ~SMP, IInv, IgnorePacket
  PROVE  IInv'
<1>1. /\ UNCHANGED <<port, paired, nurbs, attached, held, ai_cmd_running, urb_active, flight,
                     by, runflag, inttrig, call, cmd, tries, spoilt>>
      /\ h.at = "copy" /\ ignore > 0
  BY DEF IgnorePacket, CallStep, IInv, loadVars, deviceVars, urbVars, coreVars, packetVars
<1>2. \A x : InFlight(x)' <=> InFlight(x)
  BY <1>1 DEF InFlight
<1>3. ignore' \in 0 .. Ignore /\ dropped' \in 0 .. Ignore
  BY DriverAssumption DEF IgnorePacket, IInv, TypeOK
<1>4. h' \in HandlerType /\ h'.at = "tail" /\ h'.urb = h.urb
  <2>1. h' = [h EXCEPT !.at = "tail"]
    BY DEF IgnorePacket
  <2> QED  BY <1>1, <2>1, Sizes DEF IInv, TypeOK, CallType, HandlerType, NoCall, Idle
<1>5. TypeOK'
  BY <1>1, <1>3, <1>4 DEF IInv, TypeOK, CallType, HandlerType, Urbs, Pieces
<1>6. Pairs' /\ HandlerIs' /\ CallIs' /\ Swept'
  BY <1>1, <1>2, <1>3, <1>4, Sizes DEF IInv, Pairs, HandlerIs, CallIs, Swept, Urbs
<1>7. HeldIs'
  BY <1>1, <1>2, <1>3, <1>4, Sizes DEF IInv, HeldIs, Freed, Reached, There, Urbs
<1>8. Marked'
  BY <1>1, <1>2, <1>3, <1>4, Sizes DEF IInv, Marked, Urbs
<1>9. Alive'
  BY <1>1, <1>2, <1>3, <1>4 DEF IInv, Alive, Started, Step, InHand, Urbs
<1> QED  BY <1>5, <1>6, <1>7, <1>8, <1>9 DEF IInv

(* Comedi is told of the end.                                              *)
LEMMA EventKeeps ==
  ASSUME ~SMP, IInv, Event
  PROVE  IInv'
<1>1. /\ UNCHANGED <<port, paired, nurbs, attached, held, ai_cmd_running, ignore, urb_active,
                     flight, by, inttrig, call, cmd, tries, dropped, spoilt>>
      /\ h.at = "event" /\ runflag' = FALSE
  BY DEF Event, CallStep, IInv, loadVars, deviceVars, urbVars, coreVars, packetVars
<1>2. \A x : InFlight(x)' <=> InFlight(x)
  BY <1>1 DEF InFlight
<1>3. h' \in HandlerType /\ h'.at = "idle"
  <2>1. h' = Idle
    BY DEF Event
  <2> QED  BY <1>1, <2>1, Sizes DEF IInv, TypeOK, CallType, HandlerType, NoCall, Idle
<1>4. TypeOK'
  BY <1>1, <1>3 DEF IInv, TypeOK, CallType, HandlerType, Urbs, Pieces
<1>5. Pairs' /\ HandlerIs' /\ CallIs' /\ Swept'
  BY <1>1, <1>2, <1>3, Sizes DEF IInv, Pairs, HandlerIs, CallIs, Swept, Urbs
<1>6. HeldIs'
  BY <1>1, <1>2, <1>3, Sizes DEF IInv, HeldIs, Freed, Reached, There, Urbs
<1>7. Marked'
  BY <1>1, <1>2, <1>3, Sizes DEF IInv, Marked, Urbs
<1>8. Alive'
  BY <1>1 DEF IInv, HandlerIs, Alive
<1> QED  BY <1>4, <1>5, <1>6, <1>7, <1>8 DEF IInv

(* Comedi is told of an error.                                             *)
LEMMA FailKeeps ==
  ASSUME ~SMP, IInv, Fail
  PROVE  IInv'
<1>1. /\ UNCHANGED <<port, paired, nurbs, attached, held, ai_cmd_running, ignore, urb_active,
                     flight, by, inttrig, call, cmd, tries, dropped, spoilt>>
      /\ h.at = "fail" /\ runflag' = FALSE
  BY DEF Fail, CallStep, IInv, loadVars, deviceVars, urbVars, coreVars, packetVars
<1>2. \A x : InFlight(x)' <=> InFlight(x)
  BY <1>1 DEF InFlight
<1>3. h' \in HandlerType /\ h'.at = "stop" /\ h'.urb = h.urb
  <2>1. h' = [h EXCEPT !.at = "stop"]
    BY DEF Fail
  <2> QED  BY <1>1, <2>1, Sizes DEF IInv, TypeOK, CallType, HandlerType, NoCall, Idle
<1>4. TypeOK'
  BY <1>1, <1>3 DEF IInv, TypeOK, CallType, HandlerType, Urbs, Pieces
<1>5. Pairs' /\ HandlerIs' /\ CallIs' /\ Swept'
  BY <1>1, <1>2, <1>3, Sizes DEF IInv, Pairs, HandlerIs, CallIs, Swept, Urbs
<1>6. HeldIs'
  BY <1>1, <1>2, <1>3, Sizes DEF IInv, HeldIs, Freed, Reached, There, Urbs
<1>7. Marked'
  BY <1>1, <1>2, <1>3, Sizes DEF IInv, Marked, Urbs
<1>8. Alive'
  BY <1>1, <1>2, <1>3 DEF IInv, Alive, Started, Step, InHand, Urbs
<1> QED  BY <1>4, <1>5, <1>6, <1>7, <1>8 DEF IInv

(* The driver stops after an error.                                        *)
LEMMA StopKeeps ==
  ASSUME ~SMP, IInv, Stop
  PROVE  IInv'
<1>1. /\ UNCHANGED <<port, paired, nurbs, attached, held, ignore, urb_active, flight, by,
                     runflag, inttrig, call, cmd, tries, dropped, spoilt>>
      /\ h.at = "stop" /\ ai_cmd_running' = FALSE
  BY DEF Stop, CallStep, IInv, loadVars, deviceVars, urbVars, coreVars, packetVars
<1>2. \A x : InFlight(x)' <=> InFlight(x)
  BY <1>1 DEF InFlight
<1>3. h' \in HandlerType /\ h'.at = "idle"
  <2>1. h' = Idle
    BY DEF Stop
  <2> QED  BY <1>1, <2>1, Sizes DEF IInv, TypeOK, CallType, HandlerType, NoCall, Idle
<1>4. TypeOK'
  BY <1>1, <1>3 DEF IInv, TypeOK, CallType, HandlerType, Urbs, Pieces
<1>5. Pairs' /\ HandlerIs' /\ CallIs' /\ Swept'
  BY <1>1, <1>2, <1>3, Sizes DEF IInv, Pairs, HandlerIs, CallIs, Swept, Urbs
<1>6. HeldIs'
  BY <1>1, <1>2, <1>3, Sizes DEF IInv, HeldIs, Freed, Reached, There, Urbs
<1>7. Marked'
  BY <1>1, <1>2, <1>3, Sizes DEF IInv, Marked, Urbs
<1>8. Alive'
  BY <1>1, <1>2, <1>3 DEF IInv, Alive, Started, Step, InHand, Urbs
<1> QED  BY <1>4, <1>5, <1>6, <1>7, <1>8 DEF IInv

(* Nothing happens.                                                        *)
LEMMA StutterKeeps ==
  ASSUME IInv, UNCHANGED vars
  PROVE  IInv'
<1>1. UNCHANGED <<port, paired, nurbs, attached, held, ai_cmd_running, ignore, urb_active, flight,
                  by, h, runflag, inttrig, call, cmd, tries, dropped, spoilt>>
  BY DEF vars, loadVars, deviceVars, urbVars, coreVars, packetVars
<1>2. \A x : InFlight(x)' <=> InFlight(x)
  BY <1>1 DEF InFlight
<1>3. TypeOK' /\ Pairs' /\ HandlerIs' /\ CallIs' /\ Swept'
  BY <1>1, <1>2 DEF IInv, TypeOK, Pairs, HandlerIs, CallIs, Swept, Urbs, Pieces
<1>4. HeldIs' /\ Marked' /\ Alive'
  BY <1>1, <1>2 DEF IInv, HeldIs, Freed, Reached, There, Marked, Alive, Started, Step, InHand, Urbs
<1> QED  BY <1>3, <1>4 DEF IInv

(* Every reachable state satisfies the inductive invariant.                *)
THEOREM Invariance ==
  ASSUME ~SMP
  PROVE  Spec => []IInv
<1>1. Init => IInv
  BY InitHolds
<1>2. IInv /\ [Next]_vars => IInv'
  <2> SUFFICES ASSUME IInv, [Next]_vars PROVE IInv'
    OBVIOUS
  <2>1. CASE SystemCall
    BY <2>1, AttachKeeps, DetachKeeps, DetachKillKeeps, DetachFreeKeeps, AiCmdKeeps,
       AiInttrigKeeps, SubmitUrbKeeps, MarkUrbKeeps, AiCancelKeeps, KillUrbKeeps,
       CancelReturnsKeeps DEF SystemCall
  <2>2. CASE Handler
    BY <2>2, NotRunningKeeps, Check46Keeps, Check318Keeps, SubmitPairKeeps, MarkPairKeeps,
       IgnorePacketKeeps, Copy46Keeps, Copy318Keeps, Resubmit46Keeps, Resubmit318Keeps,
       HandlerEndsKeeps, EventKeeps, FailKeeps, StopKeeps DEF Handler
  <2>3. CASE \E bad \in BOOLEAN : Complete(bad)
    BY <2>3, CompleteKeeps
  <2>4. CASE UNCHANGED vars
    BY <2>4, StutterKeeps
  <2> QED  BY <2>1, <2>2, <2>3, <2>4 DEF Next
<1> QED  BY <1>1, <1>2, PTL DEF Spec

(* However far attach came, detach frees what it allocated, and nothing is *)
(* in flight then (usbduxfast_4.6.5_john.c:1119-1153).                     *)
THEOREM AlwaysAllFreed ==
  ASSUME ~SMP
  PROVE  Spec => []AllFreed
<1>1. IInv => AllFreed
  BY DEF IInv, HeldIs, AllFreed
<1> QED  BY <1>1, Invariance, PTL

(* The handler copies from a URB that is not in flight, while its partner  *)
(* is (usbduxfast_4.6.5_john.c:325-361).                                   *)
THEOREM AlwaysCopySafe ==
  ASSUME ~SMP
  PROVE  Spec => []CopySafe
<1>1. IInv => CopySafe
  <2> SUFFICES ASSUME IInv, h.at = "copy"
               PROVE  /\ ~InFlight(h.urb)
                      /\ paired => Partner(h.urb) \in Urbs /\ InFlight(Partner(h.urb))
    BY DEF CopySafe
  <2>1. h.urb \in Urbs /\ ~InFlight(h.urb)
    BY DEF IInv, TypeOK, HandlerIs
  <2>2. paired => InFlight(Partner(h.urb))
    BY DEF IInv, HandlerIs
  <2> QED  BY <2>1, <2>2, PartnerIs DEF IInv
<1> QED  BY <1>1, Invariance, PTL

(* Between handlers a running command has a URB of each pair in flight, or *)
(* every URB (usbduxfast_4.6.5_john.c:325-347, 360-372).                   *)
THEOREM AlwaysStreamLives ==
  ASSUME ~SMP
  PROVE  Spec => []StreamLives
<1>1. IInv => StreamLives
  BY DEF IInv, Alive, StreamLives, Started, InHand
<1> QED  BY <1>1, Invariance, PTL
-----------------------------------------------------------------------------
(* The first URB of each pair.                                             *)
Evens == {j \in Urbs : j % 2 = 0}

(* The pair of j can do no more harm: it has had its packet of an earlier  *)
(* command, or both its URBs are in flight, and then the first that is     *)
(* complete fails.                                                         *)
Spent(j) ==
  \/ InFlight(j + 1) /\ (Started(j) \/ by[j + 1] = cmd)
  \/ InFlight(j) /\ by[j] = cmd /\ ~Started(j)

(* The pairs that may yet yield a packet of an earlier command.            *)
Unspent == {j \in Evens : ~Spent(j)}

(* The handler is about to stop the command.                               *)
Doomed ==
  \/ h.at \in {"check", "pair"} /\ paired /\ InFlight(Partner(h.urb))
  \/ h.at \in {"fail", "stop", "event"}
  \/ h.at = "tail" /\ h.ev

(* One if the handler is at one of ats, else none.                         *)
Owed(ats) == IF h.at \in ats THEN 1 ELSE 0

(* No packet of this command was looked at.                                *)
AsNew == ignore = Ignore /\ dropped = 0 /\ ~spoilt

(* A command that waits for its trigger is as new; cancel, detach and      *)
(* failures leave none waiting behind.                                     *)
Waiting ==
  /\ runflag /\ inttrig /\ ~ai_cmd_running /\ call.at = "idle" /\ tries = 0 =>
       AsNew /\ \A j \in Urbs : InFlight(j) => by[j] # cmd
  /\ ai_cmd_running /\ call.at = "idle" /\ tries = 0 => ~inttrig
  /\ call.at \in {"submit", "mark"} /\ tries = 0 => ~call.trig
  /\ call.at = "detach" => ~runflag

(* The command runs and was triggered once at most.                        *)
FirstTry == ai_cmd_running /\ tries < 2

(* While the URBs are submitted one by one: no packet was looked at, or    *)
(* there is a URB that the start will find in flight, and fail.            *)
StartingSingle ==
  FirstTry /\ ~paired /\ call.at \in {"submit", "mark"} =>
    /\ \A j \in Urbs : Started(j) => InFlight(j) /\ by[j] = cmd
    /\ \/ AsNew
       \/ \E j \in Urbs : ~Started(j) /\ (InFlight(j) \/ InHand(j))

(* While the first URBs of the pairs are submitted: no more pairs can      *)
(* yield an old packet than there are packets still to be ignored.         *)
StartingPaired ==
  FirstTry /\ paired /\ call.at \in {"submit", "mark"} =>
    /\ \A j \in Evens : Started(j) => InFlight(j) /\ by[j] = cmd
    /\ ~spoilt
    /\ \/ Doomed
       \/ /\ Cardinality(Unspent) + Owed({"mark", "copy"}) <= ignore
          /\ AsNew \/ \E j \in Evens : Spent(j)
          /\ h.at \in {"mark", "copy"} => \E j \in Evens : Spent(j)

(* What is in flight is of this command.                                   *)
AllNew ==
  /\ \A j \in Urbs : InFlight(j) => by[j] = cmd /\ (paired => ~InFlight(Partner(j)))
  /\ h.at # "idle" => by[h.urb] = cmd
  /\ ignore + dropped = Ignore

(* A URB whose partner is in flight is complete, and so fails, before the  *)
(* packets to ignore run out.                                              *)
InTime ==
  paired /\ \E d \in DOMAIN flight :
     /\ InFlight(Partner(flight[d]))
     /\ d - 1 + Owed({"check", "pair", "mark", "copy"}) <= ignore

(* After the start: nothing was spoilt, and either the command is about to *)
(* be stopped, or all is new, or it will be stopped in time.               *)
Going ==
  FirstTry /\ call.at = "idle" => ~spoilt /\ (Doomed \/ AllNew \/ InTime)

(* What FreshData needs beyond the inductive invariant.                    *)
FInv == Waiting /\ StartingSingle /\ StartingPaired /\ Going

(* There are no more pairs than packets to ignore: the numbers of the      *)
(* code, 8 URBs at most and 4 packets, are just enough                     *)
(* (usbduxfast_4.6.5_john.c:124, 156).                                     *)
LEMMA EvensCounted ==
  ASSUME IInv, paired, 2 * Ignore >= MaxUrbs
  PROVE  /\ IsFiniteSet(Evens) /\ Cardinality(Evens) \in Nat /\ Cardinality(Evens) <= Ignore
         /\ \A S \in SUBSET Evens : /\ IsFiniteSet(S) /\ Cardinality(S) \in Nat
                                    /\ Cardinality(S) <= Cardinality(Evens)
<1>1. PICK k \in Nat : nurbs = 2 * k /\ k <= Ignore
  <2>1. nurbs % 2 = 0 /\ nurbs \in Nat /\ nurbs <= MaxUrbs /\ MaxUrbs \in Nat /\ Ignore \in Nat
    BY Sizes, DriverAssumption DEF IInv, Pairs
  <2>2. PICK k \in Nat : k = nurbs \div 2
    BY <2>1
  <2>3. nurbs = 2 * k /\ k <= Ignore
    BY <2>1, <2>2
  <2> QED  BY <2>3
<1>2. IsFiniteSet(0 .. k - 1) /\ Cardinality(0 .. k - 1) = k
  <2>1. IsFiniteSet(0 .. k - 1) /\ Cardinality(0 .. k - 1) = IF 0 > k - 1 THEN 0 ELSE (k - 1) - 0 + 1
    BY <1>1, FS_Interval
  <2>2. (IF 0 > k - 1 THEN 0 ELSE (k - 1) - 0 + 1) = k
    BY <1>1
  <2> QED  BY <2>1, <2>2
<1>3. PICK f : f = [j \in Evens |-> j \div 2]
  OBVIOUS
<1>4. f \in Injection(Evens, 0 .. k - 1)
  <2>1. \A j \in Evens : f[j] = j \div 2 /\ j \div 2 \in 0 .. k - 1 /\ j = 2 * f[j]
    <3> SUFFICES ASSUME NEW j \in Evens
                 PROVE  f[j] = j \div 2 /\ j \div 2 \in 0 .. k - 1 /\ j = 2 * f[j]
      OBVIOUS
    <3>1. j \in Nat /\ j < 2 * k /\ j % 2 = 0
      BY <1>1 DEF Evens, Urbs
    <3>2. f[j] = j \div 2
      BY <1>3
    <3>3. j \div 2 \in 0 .. k - 1 /\ j = 2 * (j \div 2)
      BY <1>1, <3>1
    <3> QED  BY <3>2, <3>3
  <2>2. f \in [Evens -> 0 .. k - 1]
    BY <1>3, <2>1
  <2>3. IsInjective(f)
    BY <2>1, <2>2 DEF IsInjective
  <2> QED  BY <2>2, <2>3 DEF Injection
<1>5. IsFiniteSet(Evens) /\ Cardinality(Evens) <= k
  BY <1>2, <1>4, FS_Injection
<1>6. Cardinality(Evens) \in Nat
  BY <1>5, FS_CardinalityType
<1>7. ASSUME NEW S \in SUBSET Evens
      PROVE  IsFiniteSet(S) /\ Cardinality(S) \in Nat /\ Cardinality(S) <= Cardinality(Evens)
  <2>1. IsFiniteSet(S) /\ Cardinality(S) <= Cardinality(Evens)
    BY <1>5, FS_Subset
  <2> QED  BY <2>1, FS_CardinalityType
<1>8. Cardinality(Evens) <= Ignore
  BY <1>1, <1>5, <1>6, DriverAssumption
<1> QED  BY <1>5, <1>6, <1>7, <1>8

(* What it takes to wait for the trigger is not disturbed while the        *)
(* command runs.                                                           *)
LEMMA WaitingRuns ==
  ASSUME Waiting, ai_cmd_running, IInv, ai_cmd_running' \in BOOLEAN,
         UNCHANGED <<inttrig, call, tries>>, runflag' => runflag
  PROVE  Waiting'
BY DEF Waiting, IInv, CallIs

(* The URB with the handler is one that was not started: the start will    *)
(* fail when it comes to it.                                               *)
LEMMA SingleHandled ==
  ASSUME IInv, StartingSingle, ai_cmd_running, h.at # "idle", ai_cmd_running' \in BOOLEAN,
         UNCHANGED <<paired, nurbs, call, tries, cmd>>,
         \A x : InFlight(x) => InFlight(x)' /\ by'[x] = by[x],
         NEW u, u = h.urb, InFlight(u)' \/ (h'.at # "idle" /\ h'.urb = u)
  PROVE  StartingSingle'
<1>1. Urbs' = Urbs /\ \A j : Started(j)' = Started(j)
  BY DEF Urbs, Started, Step
<1> SUFFICES ASSUME FirstTry, ~paired, call.at \in {"submit", "mark"}
             PROVE  /\ \A j \in Urbs : Started(j) => InFlight(j)' /\ by'[j] = cmd
                    /\ \E j \in Urbs : ~Started(j) /\ (InFlight(j)' \/ InHand(j)')
  BY <1>1 DEF StartingSingle, FirstTry
<1>2. \A j \in Urbs : Started(j) => InFlight(j) /\ by[j] = cmd
  BY DEF StartingSingle
<1>3. u \in Urbs /\ ~InFlight(u)
  BY DEF IInv, TypeOK, HandlerIs
<1>4. ~Started(u)
  BY <1>2, <1>3
<1>5. InFlight(u)' \/ InHand(u)'
  BY DEF InHand
<1> QED  BY <1>2, <1>3, <1>4, <1>5

(* A command that does not run.                                            *)
LEMMA NotUnderWay ==
  ASSUME Waiting', ~ai_cmd_running'
  PROVE  FInv'
BY DEF FInv, StartingSingle, StartingPaired, Going, FirstTry

(* Nothing was started.                                                    *)
LEMMA FInitHolds ==
  ASSUME Init
  PROVE  FInv
BY DEF Init, FInv, Waiting, StartingSingle, StartingPaired, Going, FirstTry, NoCall

(* Attach.                                                                 *)
LEMMA AttachFresh ==
  ASSUME IInv, FInv, Attach
  PROVE  FInv'
<1>1. /\ UNCHANGED <<nurbs, ignore, flight, by, runflag, inttrig, call, cmd, tries, dropped, spoilt>>
      /\ ~ai_cmd_running' /\ ~ai_cmd_running
  BY DEF Attach, IInv, TypeOK, CallIs, loadVars, coreVars, packetVars
<1>2. \A x : InFlight(x)' <=> InFlight(x)
  BY <1>1 DEF InFlight
<1>3. Waiting'
  BY <1>1, <1>2 DEF FInv, Waiting, AsNew, Urbs
<1> QED  BY <1>1, <1>3, NotUnderWay

(* Detach.                                                                 *)
LEMMA DetachFresh ==
  ASSUME IInv, FInv, Detach \/ DetachKill \/ DetachFree, ~SMP
  PROVE  FInv'
<1>1. UNCHANGED <<ai_cmd_running, runflag, inttrig, tries>> /\ ~ai_cmd_running /\ ~runflag
  BY DEF Detach, DetachKill, DetachFree, CallStep, FInv, Waiting, IInv, CallIs, loadVars, deviceVars,
         urbVars, coreVars, packetVars
<1>2. call'.at \in {"idle", "detach"}
  BY DEF Detach, DetachKill, DetachFree, NoCall, IInv, TypeOK
<1>3. Waiting'
  BY <1>1, <1>2 DEF Waiting
<1> QED  BY <1>1, <1>3, NotUnderWay

(* Cancel.                                                                 *)
LEMMA CancelFresh ==
  ASSUME IInv, FInv, AiCancel \/ KillUrb \/ CancelReturns, ~SMP
  PROVE  FInv'
<1>1. ~ai_cmd_running'
  BY DEF AiCancel, KillUrb, CancelReturns, IInv, CallIs
<1>2. call'.at \in {"kill", "cancelled"} \/ (call'.at = "idle" /\ ~runflag')
  BY DEF AiCancel, KillUrb, CancelReturns, NoCall, IInv, TypeOK
<1>3. Waiting'
  BY <1>1, <1>2 DEF Waiting
<1> QED  BY <1>1, <1>3, NotUnderWay

(* The handler ends and nothing runs.                                      *)
LEMMA IdleFresh ==
  ASSUME IInv, FInv, NotRunning \/ Event
  PROVE  FInv'
<1>1. /\ UNCHANGED <<nurbs, ai_cmd_running, ignore, flight, by, inttrig, call, cmd, tries, dropped, spoilt>>
      /\ ~ai_cmd_running /\ (runflag' => runflag)
  BY DEF NotRunning, Event, IInv, HandlerIs, loadVars, deviceVars, urbVars, coreVars, packetVars
<1>2. \A x : InFlight(x)' <=> InFlight(x)
  BY <1>1 DEF InFlight
<1>3. Waiting'
  BY <1>1, <1>2 DEF FInv, Waiting, AsNew, Urbs
<1> QED  BY <1>1, <1>3, NotUnderWay

(* The driver stops after an error.                                        *)
LEMMA StopFresh ==
  ASSUME IInv, FInv, Stop
  PROVE  FInv'
<1>1. /\ UNCHANGED <<inttrig, runflag, call, tries>> /\ ai_cmd_running' = FALSE /\ ai_cmd_running
  BY DEF Stop, IInv, HandlerIs, coreVars, packetVars
<1>2. Waiting'
  BY <1>1, WaitingRuns DEF FInv
<1> QED  BY <1>1, <1>2, NotUnderWay

(* The start of a command that finds everything as new.                    *)
LEMMA Begun ==
  ASSUME IInv, 2 * Ignore >= MaxUrbs, AsNew', h.at = "idle", UNCHANGED <<paired, nurbs, flight, by, h>>,
         call'.at = "submit", call'.j = 0, cmd' \in Int,
         \A j \in Urbs : InFlight(j) => by[j] # cmd'
  PROVE  StartingSingle' /\ StartingPaired' /\ Going'
<1>1. \A x : InFlight(x)' <=> InFlight(x)
  BY DEF InFlight
<1>2. \A j \in Urbs : ~Started(j)' /\ j \in Int
  BY Sizes DEF Started, Urbs
<1>3. Urbs' = Urbs /\ Evens' = Evens /\ \A j \in Evens : j \in Urbs
  BY DEF Urbs, Evens
<1>4. StartingSingle' /\ Going'
  BY <1>2, <1>3 DEF StartingSingle, Going
<1>5. StartingPaired'
  <2> SUFFICES ASSUME paired
               PROVE  Cardinality(Unspent)' + Owed({"mark", "copy"})' <= ignore'
    BY <1>2, <1>3 DEF StartingPaired, AsNew
  <2>1. Owed({"mark", "copy"})' = 0
    BY DEF Owed
  <2>2. Unspent' \in SUBSET Evens
    BY <1>3 DEF Unspent
  <2>3. /\ Cardinality(Unspent') \in Nat /\ Cardinality(Unspent') <= Cardinality(Evens)
        /\ Cardinality(Evens) \in Nat /\ Cardinality(Evens) <= Ignore
    BY <2>2, EvensCounted
  <2>4. ignore' = Ignore /\ Ignore \in Nat
    BY DriverAssumption DEF AsNew
  <2> QED  BY <2>1, <2>3, <2>4
<1> QED  BY <1>4, <1>5

(* A command begins with the number of packets to ignore.                  *)
LEMMA AiCmdFresh ==
  ASSUME IInv, FInv, AiCmd, 2 * Ignore >= MaxUrbs, ~SMP
  PROVE  FInv'
<1>1. /\ UNCHANGED <<paired, nurbs, flight, by, h>> /\ h.at = "idle" /\ call.at = "idle"
      /\ ~runflag /\ ~ai_cmd_running /\ cmd' = cmd + 1 /\ tries' = 0 /\ AsNew'
  BY DEF AiCmd, CallStep, StartIgnoring, AsNew, IInv, CallIs, loadVars, urbVars
<1>2. cmd' \in Int /\ \A j \in Urbs : by[j] # cmd'
  <2>1. cmd \in Nat /\ \A j \in Urbs : by[j] \in 0 .. cmd
    BY DriverAssumption, Sizes DEF IInv, TypeOK, Urbs
  <2> QED  BY <1>1, <2>1
<1>3. \A x : InFlight(x)' <=> InFlight(x)
  BY <1>1 DEF InFlight
<1>4. \/ ~ai_cmd_running' /\ call' = call
      \/ call' = [NoCall EXCEPT !.at = "submit"]
  BY <1>1 DEF AiCmd
<1>5. CASE ~ai_cmd_running' /\ call' = call
  <2>1. Waiting'
    BY <1>1, <1>2, <1>3, <1>5 DEF Waiting, Urbs
  <2> QED  BY <1>5, <2>1, NotUnderWay
<1>6. CASE call' = [NoCall EXCEPT !.at = "submit"]
  <2>1. call'.at = "submit" /\ call'.j = 0 /\ ~call'.trig
    BY <1>6 DEF NoCall
  <2>2. Waiting'
    BY <2>1 DEF Waiting
  <2>3. StartingSingle' /\ StartingPaired' /\ Going'
    BY <1>1, <1>2, <2>1, Begun
  <2> QED  BY <2>2, <2>3 DEF FInv
<1> QED  BY <1>4, <1>5, <1>6

(* A trigger: the first finds everything as new.                           *)
LEMMA AiInttrigFresh ==
  ASSUME IInv, FInv, AiInttrig, 2 * Ignore >= MaxUrbs, ~SMP
  PROVE  FInv'
<1>1. /\ UNCHANGED <<paired, nurbs, flight, by, h, ignore, dropped, spoilt, cmd>>
      /\ h.at = "idle" /\ call.at = "idle"
      /\ runflag /\ inttrig /\ ~ai_cmd_running
      /\ tries' = (IF tries = 2 THEN 2 ELSE tries + 1) /\ tries \in 0 .. 2
      /\ call'.at = "submit" /\ call'.j = 0
  BY DEF AiInttrig, CallStep, IInv, TypeOK, loadVars, urbVars, coreVars
<1>2. tries' # 0
  BY <1>1
<1>3. Waiting'
  BY <1>1, <1>2 DEF Waiting
<1>4. CASE tries = 0
  <2>1. AsNew /\ \A j \in Urbs : InFlight(j) => by[j] # cmd
    BY <1>1, <1>4 DEF FInv, Waiting
  <2>2. AsNew' /\ cmd' \in Int /\ \A j \in Urbs : InFlight(j) => by[j] # cmd'
    BY <1>1, <2>1 DEF AsNew, IInv, TypeOK
  <2>3. StartingSingle' /\ StartingPaired' /\ Going'
    BY <1>1, <2>2, Begun
  <2> QED  BY <1>3, <2>3 DEF FInv
<1>5. CASE tries # 0
  <2>1. ~(tries' < 2)
    BY <1>1, <1>5
  <2> QED  BY <1>3, <2>1 DEF FInv, StartingSingle, StartingPaired, Going, FirstTry
<1> QED  BY <1>4, <1>5

(* A submission appends: URBs in flight keep their places and their        *)
(* commands.                                                               *)
LEMMA Positions ==
  ASSUME IInv, NEW j \in Urbs, Submitted(j)
  PROVE  /\ \A i \in DOMAIN flight : i \in DOMAIN flight' /\ flight'[i] = flight[i]
         /\ by'[j] = cmd
         /\ \A x : InFlight(x) => InFlight(x)' /\ by'[x] = by[x]
<1>1. flight \in Seq(Urbs) /\ flight' = Append(flight, j)
  BY DEF IInv, TypeOK, Submitted
<1>2. \A i \in DOMAIN flight : i \in DOMAIN flight' /\ flight'[i] = flight[i]
  <2>1. PICK g : g = Append(flight, j)
    OBVIOUS
  <2>2. /\ \A i \in 1 .. Len(flight) : g[i] = flight[i]
        /\ Len(flight) \in Nat
        /\ DOMAIN g = 1 .. Len(flight) + 1 /\ DOMAIN flight = 1 .. Len(flight)
    BY <1>1, <2>1, AppendProperties, LenProperties
  <2>3. flight' = g
    BY <1>1, <2>1
  <2>4. \A i \in DOMAIN flight : i \in DOMAIN g /\ g[i] = flight[i]
    BY <2>2
  <2> QED  BY <2>3, <2>4
<1>3. j \in 0 .. MaxUrbs - 1
  BY Sizes DEF Urbs
<1>4. by \in [0 .. MaxUrbs - 1 -> 0 .. cmd] /\ by' = [by EXCEPT ![j] = cmd]
  BY DEF IInv, TypeOK, Submitted
<1>5. ~InFlight(j)
  BY DEF Submitted
<1>6. by'[j] = cmd
  BY <1>3, <1>4, Zenon
<1>7. ASSUME NEW x, InFlight(x) PROVE InFlight(x)' /\ by'[x] = by[x]
  <2>1. x \in Urbs /\ x # j
    BY <1>5, <1>7, InFlightIs DEF IInv
  <2>2. x \in 0 .. MaxUrbs - 1
    BY <2>1, Sizes DEF Urbs
  <2>3. by'[x] = by[x]
    BY <1>4, <2>1, <2>2, Zenon
  <2> QED  BY <1>2, <1>7, <2>3 DEF InFlight
<1> QED  BY <1>2, <1>6, <1>7

(* What is spent stays so while URBs are only submitted.                   *)
LEMMA SpentStays ==
  ASSUME IInv, paired, 2 * Ignore >= MaxUrbs, UNCHANGED <<paired, nurbs, call, cmd>>,
         \A x : InFlight(x) => InFlight(x)' /\ by'[x] = by[x]
  PROVE  /\ Evens' = Evens /\ Urbs' = Urbs /\ \A j : Started(j)' = Started(j)
         /\ \A j \in Evens : Spent(j) => Spent(j)'
         /\ Unspent' \subseteq Unspent
         /\ Cardinality(Unspent) \in Nat /\ Cardinality(Unspent') \in Nat
         /\ Cardinality(Unspent') <= Cardinality(Unspent)
<1>1. Evens' = Evens /\ Urbs' = Urbs /\ \A j : Started(j)' = Started(j)
  BY DEF Evens, Urbs, Started, Step
<1>2. \A j \in Evens : Spent(j) => Spent(j)'
  BY <1>1 DEF Spent
<1>3. Unspent' \subseteq Unspent /\ Unspent \in SUBSET Evens
  BY <1>1, <1>2 DEF Unspent
<1>4. IsFiniteSet(Unspent) /\ Cardinality(Unspent) \in Nat
  BY <1>3, EvensCounted
<1>5. IsFiniteSet(Unspent') /\ Cardinality(Unspent') <= Cardinality(Unspent)
  BY <1>3, <1>4, FS_Subset
<1>6. Cardinality(Unspent') \in Nat
  BY <1>5, FS_CardinalityType
<1> QED  BY <1>1, <1>2, <1>3, <1>4, <1>5, <1>6

(* A step of the handler while pairs are being started: it stops the       *)
(* command, or ignores a packet, or nothing changes.                       *)
LEMMA PairedHandled ==
  ASSUME IInv, StartingPaired, ai_cmd_running, ai_cmd_running' \in BOOLEAN, 2 * Ignore >= MaxUrbs,
         UNCHANGED <<paired, nurbs, call, tries, cmd, spoilt>>,
         \A x : InFlight(x) => InFlight(x)' /\ by'[x] = by[x],
         paired => \/ Doomed'
                   \/ /\ ~Doomed /\ UNCHANGED <<ignore, dropped>>
                      /\ h'.at \in {"mark", "copy"} => h.at \in {"mark", "copy"}
                   \/ /\ ~Doomed /\ ignore' = ignore - 1
                      /\ h.at = "copy" /\ h'.at = "tail"
  PROVE  StartingPaired'
<1> SUFFICES ASSUME FirstTry, paired, call.at \in {"submit", "mark"}
             PROVE  StartingPaired'
  BY DEF StartingPaired, FirstTry
<1>1. /\ Evens' = Evens /\ \A j : Started(j)' = Started(j)
      /\ \A j \in Evens : Spent(j) => Spent(j)'
      /\ Cardinality(Unspent) \in Nat /\ Cardinality(Unspent') \in Nat
      /\ Cardinality(Unspent') <= Cardinality(Unspent)
  BY SpentStays
<1>2. (\A j \in Evens : Started(j)' => InFlight(j)' /\ by'[j] = cmd) /\ ~spoilt'
  BY <1>1 DEF StartingPaired
<1>3. CASE Doomed'
  BY <1>1, <1>2, <1>3 DEF StartingPaired
<1>4. CASE ~Doomed
  <2>1. /\ Cardinality(Unspent) + Owed({"mark", "copy"}) <= ignore
        /\ AsNew \/ \E j \in Evens : Spent(j)
        /\ h.at \in {"mark", "copy"} => \E j \in Evens : Spent(j)
    BY <1>4 DEF StartingPaired
  <2>2. ignore \in Nat
    BY DriverAssumption DEF IInv, TypeOK
  <2>3. CASE /\ UNCHANGED <<ignore, dropped>>
             /\ h'.at \in {"mark", "copy"} => h.at \in {"mark", "copy"}
    <3>1. Cardinality(Unspent') + Owed({"mark", "copy"})' <= ignore'
      BY <1>1, <2>1, <2>2, <2>3 DEF Owed
    <3>2. AsNew' \/ \E j \in Evens : Spent(j)'
      BY <1>1, <2>1, <2>3 DEF AsNew
    <3>3. h'.at \in {"mark", "copy"} => \E j \in Evens : Spent(j)'
      BY <1>1, <2>1, <2>3
    <3> QED  BY <1>1, <1>2, <3>1, <3>2, <3>3 DEF StartingPaired
  <2>4. CASE ignore' = ignore - 1 /\ h.at = "copy" /\ h'.at = "tail"
    <3>1. Cardinality(Unspent') + Owed({"mark", "copy"})' <= ignore'
      BY <1>1, <2>1, <2>2, <2>4 DEF Owed
    <3>2. \E j \in Evens : Spent(j)'
      BY <1>1, <2>1, <2>4
    <3> QED  BY <1>1, <1>2, <2>4, <3>1, <3>2 DEF StartingPaired
  <2>5. CASE Doomed'
    BY <1>3, <2>5
  <2> QED  BY <1>4, <2>3, <2>4, <2>5
<1> QED  BY <1>3, <1>4

(* What the handler of a running command leaves alone.                     *)
Handles ==
  /\ UNCHANGED <<paired, nurbs, inttrig, call, cmd, tries>> /\ ai_cmd_running /\ h.at # "idle"
  /\ ai_cmd_running' \in BOOLEAN /\ (runflag' => runflag)

(* One for the packet the handler has not come to the end of.              *)
Due == Owed({"check", "pair", "mark", "copy"})

(* A packet that is done with was ignored.                                 *)
Sooner == Due' + ignore <= Due + ignore'

(* Packets ignored and still to be ignored are all.                        *)
Counted == ignore' + dropped' = Ignore

(* A step of the handler after the start that leaves the URBs alone.       *)
LEMMA GoingHandled ==
  ASSUME IInv, Going, Handles, UNCHANGED <<flight, by>>, Doomed => Doomed',
         h'.at = "idle" \/ h'.urb = h.urb,
         FirstTry /\ call.at = "idle" => ~spoilt',
         ~Doomed /\ AllNew => Counted,
         ~Doomed /\ InTime => Sooner,
         ignore' \in Int
  PROVE  Going'
<1> SUFFICES ASSUME FirstTry, call.at = "idle", ~Doomed', ~Doomed
             PROVE  AllNew' \/ InTime'
  BY DEF Going, FirstTry, Handles
<1>1. \A x : (InFlight(x)' <=> InFlight(x)) /\ by'[x] = by[x] /\ Urbs' = Urbs
  BY DEF InFlight, Urbs, Handles
<1>2. CASE AllNew
  <2>1. AllNew'
    BY <1>1, <1>2 DEF AllNew, Handles, Counted
  <2> QED  BY <2>1
<1>3. CASE InTime
  <2>1. PICK d \in DOMAIN flight : InFlight(Partner(flight[d])) /\ d - 1 + Due <= ignore
    BY <1>3 DEF InTime, Due
  <2>2. PICK p : p = Partner(flight[d]) /\ p = Partner(flight'[d])
    OBVIOUS
  <2>3. InFlight(p)'
    BY <1>1, <2>1, <2>2
  <2>4. d - 1 + Due' <= ignore'
    <3>1. PICK a, b : a = Due /\ b = Due'
      OBVIOUS
    <3>2. d \in Int /\ ignore \in Int /\ ignore' \in Int
      <4>1. flight \in Seq(Urbs) /\ ignore \in 0 .. Ignore
        BY DEF IInv, TypeOK
      <4> QED  BY <4>1, LenProperties, DriverAssumption
    <3>3. a \in Int /\ b \in Int
      BY <3>1 DEF Due, Owed
    <3>4. b + ignore <= a + ignore' /\ d - 1 + a <= ignore
      BY <1>3, <2>1, <3>1 DEF Sooner
    <3>5. d - 1 + b <= ignore'
      BY <3>2, <3>3, <3>4
    <3> QED  BY <3>1, <3>5
  <2> QED  BY <1>3, <2>2, <2>3, <2>4 DEF InTime, Handles, Due
<1> QED  BY <1>2, <1>3 DEF Going

(* The handler looks at its URB.                                           *)
LEMMA CheckFresh ==
  ASSUME IInv, FInv, Check46 \/ Check318, 2 * Ignore >= MaxUrbs, ~SMP
  PROVE  FInv'
<1>1. /\ Handles /\ UNCHANGED <<flight, by, ignore, dropped, spoilt, ai_cmd_running, call>> /\ h.at = "check"
  BY DEF Check46, Check318, Handles, loadVars, coreVars, packetVars, IInv, TypeOK
<1>2. /\ h'.urb = h.urb
      /\ \/ h'.at = GoOn \/ h'.at = "fail"
         \/ h'.at = "tail" /\ h'.ev
  <2>1. h \in HandlerType /\ GoOn \in {"pair", "copy"}
    BY DEF IInv, TypeOK, HandlerType, GoOn
  <2>2. CASE h.bad
    BY <2>1, <2>2 DEF Check46, Check318, HandlerType
  <2>3. CASE ~h.bad
    BY <2>1, <2>3 DEF Check46, Check318, HandlerType
  <2> QED  BY <2>2, <2>3
<1>3. \A x : (InFlight(x) => InFlight(x)' /\ by'[x] = by[x]) /\ InFlight(x)' = InFlight(x)
  BY <1>1 DEF InFlight
<1>4. Waiting'
  BY <1>1, WaitingRuns DEF FInv, Handles
<1>5. StartingSingle'
  <2>1. PICK u : u = h.urb
    OBVIOUS
  <2> QED  BY <1>1, <1>2, <1>3, <2>1, SingleHandled DEF FInv, Handles, GoOn
<1>6. PICK p : p = Partner(h.urb) /\ p = Partner(h'.urb)
  BY <1>2
<1>7. Doomed => Doomed'
  BY <1>1, <1>2, <1>3, <1>6 DEF Doomed, GoOn, Handles
<1>8. StartingPaired'
  <2>1. paired => Doomed' \/ (~Doomed /\ h'.at = "pair")
    BY <1>2, <1>7 DEF GoOn, Doomed
  <2> QED  BY <1>1, <1>3, <2>1, PairedHandled DEF FInv, Handles
<1>9. Going'
  <2>1. Due' <= Due
    BY <1>1, <1>2 DEF Due, Owed, GoOn
  <2>2. ignore \in Int /\ Due \in Int /\ Due' \in Int
    BY DEF IInv, TypeOK, Due, Owed
  <2>3. FirstTry /\ call.at = "idle" => ~spoilt'
    BY <1>1 DEF FInv, Going
  <2>4. AllNew => Counted
    BY <1>1 DEF AllNew, Counted
  <2>5. Sooner
    <3>1. PICK a, b : a = Due /\ b = Due'
      OBVIOUS
    <3>2. a \in Int /\ b \in Int /\ b <= a /\ ignore \in Int /\ ignore' = ignore
      BY <1>1, <2>1, <2>2, <3>1
    <3>3. b + ignore <= a + ignore'
      BY <3>2
    <3> QED  BY <3>1, <3>3 DEF Sooner
  <2> QED  BY <1>1, <1>2, <1>7, <2>2, <2>3, <2>4, <2>5, GoingHandled DEF FInv
<1> QED  BY <1>4, <1>5, <1>8, <1>9 DEF FInv

(* The partner that a handler submits had not been, and was not started:   *)
(* its pair is spent now.                                                  *)
LEMMA PairSpends ==
  ASSUME IInv, StartingPaired, 2 * Ignore >= MaxUrbs, paired, ai_cmd_running, tries < 2,
         call.at \in {"submit", "mark"}, h.at # "idle",
         UNCHANGED <<paired, nurbs, call, cmd, tries>>,
         NEW p, p = Partner(h.urb), Submitted(p)
  PROVE  /\ \E e \in Evens : Spent(e)'
         /\ Cardinality(Unspent') + 1 <= Cardinality(Unspent)
<1>1. PICK u \in Urbs : u = h.urb /\ ~InFlight(u)
  BY DEF IInv, HandlerIs, TypeOK
<1>2. p \in Urbs /\ p # u /\ Partner(p) = u
  BY <1>1, PartnerIs DEF IInv
<1>3. /\ by'[p] = cmd /\ InFlight(p)' /\ ~InFlight(p)
      /\ \A x : InFlight(x) => InFlight(x)' /\ by'[x] = by[x]
  BY <1>2, Positions, SubmittedIs DEF IInv, Submitted
<1>4. PICK e \in Evens : (p = e /\ u = e + 1) \/ (u = e /\ p = e + 1)
  BY <1>1, <1>2, Sizes DEF Partner, Evens, Urbs
<1>5. /\ Evens' = Evens /\ Urbs' = Urbs /\ \A j : Started(j)' = Started(j)
      /\ Unspent' \subseteq Unspent /\ Cardinality(Unspent) \in Nat
  BY <1>3, SpentStays
<1>6. \A j \in Evens : Started(j) => InFlight(j)
  BY DEF StartingPaired, FirstTry
<1>7. ~Started(e)
  BY <1>1, <1>3, <1>4, <1>6
<1>8. Spent(e)'
  BY <1>3, <1>4, <1>5, <1>7 DEF Spent
<1>9. ~Spent(e)
  BY <1>1, <1>3, <1>4 DEF Spent
<1>10. Unspent \in SUBSET Evens /\ e \in Unspent /\ Unspent' \subseteq Unspent \ {e}
  BY <1>5, <1>8, <1>9 DEF Unspent
<1>11. IsFiniteSet(Unspent)
  BY <1>10, EvensCounted
<1>12. IsFiniteSet(Unspent \ {e}) /\ Cardinality(Unspent \ {e}) = Cardinality(Unspent) - 1
  BY <1>10, <1>11, FS_RemoveElement
<1>13. IsFiniteSet(Unspent') /\ Cardinality(Unspent') <= Cardinality(Unspent \ {e})
  BY <1>10, <1>12, FS_Subset
<1>14. Cardinality(Unspent') \in Nat
  BY <1>13, FS_CardinalityType
<1>15. Cardinality(Unspent') + 1 <= Cardinality(Unspent)
  BY <1>5, <1>12, <1>13, <1>14
<1> QED  BY <1>8, <1>15

(* The handler submits the partner, or cannot.                             *)
LEMMA SubmitPairFresh ==
  ASSUME IInv, FInv, SubmitPair, 2 * Ignore >= MaxUrbs, ~SMP
  PROVE  FInv'
<1>1. /\ Handles /\ UNCHANGED <<ignore, dropped, spoilt, ai_cmd_running, call>>
      /\ h.at = "pair" /\ paired
  BY DEF SubmitPair, Handles, loadVars, coreVars, packetVars, IInv, TypeOK, HandlerIs
<1>2. Waiting'
  BY <1>1, WaitingRuns DEF FInv, Handles
<1>3. StartingSingle'
  BY <1>1 DEF StartingSingle, Handles
<1>4. PICK u \in Urbs : u = h.urb /\ ~InFlight(u)
  BY <1>1 DEF IInv, HandlerIs, TypeOK
<1>5. PICK p \in Urbs : p = Partner(u) /\ p # u /\ Partner(p) = u
  BY <1>1, <1>4, PartnerIs DEF IInv
<1>6. CASE Submitted(p) /\ h' = [h EXCEPT !.at = "mark"]
  <2>1. h'.at = "mark" /\ h'.urb = u
    BY <1>4, <1>6 DEF IInv, TypeOK
  <2>2. /\ by'[p] = cmd /\ ~InFlight(p)
        /\ \A x : InFlight(x)' <=> InFlight(x) \/ x = p
        /\ \A x : InFlight(x) => by'[x] = by[x]
        /\ \A i \in DOMAIN flight : i \in DOMAIN flight' /\ flight'[i] = flight[i]
    BY <1>6, Positions, SubmittedIs DEF IInv, Submitted
  <2>3. by'[u] = by[u]
    <3>1. by \in [0 .. MaxUrbs - 1 -> 0 .. cmd] /\ by' = [by EXCEPT ![p] = cmd] /\ u \in 0 .. MaxUrbs - 1
      BY <1>6, Sizes DEF IInv, TypeOK, Submitted, Urbs
    <3> QED  BY <1>5, <3>1, Zenon
  <2>4. ~Doomed
    BY <1>1, <1>4, <1>5, <2>2 DEF Doomed
  <2>5. StartingPaired'
    <3> SUFFICES ASSUME FirstTry, call.at \in {"submit", "mark"}
                 PROVE  StartingPaired'
      BY <1>1 DEF StartingPaired, FirstTry, Handles
    <3>1. /\ \E e \in Evens : Spent(e)'
          /\ Cardinality(Unspent') + 1 <= Cardinality(Unspent)
      BY <1>1, <1>4, <1>5, <1>6, PairSpends DEF FInv, FirstTry, Handles
    <3>2. Evens' = Evens /\ \A j : Started(j)' = Started(j)
      BY <1>1 DEF Handles, Evens, Urbs, Started, Step
    <3>3. /\ Cardinality(Unspent) + Owed({"mark", "copy"}) <= ignore
          /\ ~spoilt /\ \A j \in Evens : Started(j) => InFlight(j) /\ by[j] = cmd
      BY <1>1, <2>4 DEF FInv, StartingPaired
    <3>4. Cardinality(Unspent') \in Nat /\ Cardinality(Unspent) \in Nat /\ ignore \in Nat
      BY <1>1, <2>2, SpentStays, DriverAssumption DEF Handles, IInv, TypeOK
    <3>5. Cardinality(Unspent') + Owed({"mark", "copy"})' <= ignore'
      <4>1. PICK a, b : a = Cardinality(Unspent) /\ b = Cardinality(Unspent')
        OBVIOUS
      <4>2. PICK m, n : m = Owed({"mark", "copy"}) /\ n = Owed({"mark", "copy"})'
        OBVIOUS
      <4>3. m = 0 /\ n = 1
        BY <1>1, <2>1, <4>2 DEF Owed
      <4>4. a \in Nat /\ b \in Nat /\ b + 1 <= a /\ a + m <= ignore /\ ignore' = ignore /\ ignore \in Nat
        BY <1>1, <3>1, <3>3, <3>4, <4>1, <4>2
      <4>5. b + n <= ignore'
        BY <4>3, <4>4
      <4> QED  BY <4>1, <4>2, <4>5
    <3>6. (\A j \in Evens' : Started(j)' => InFlight(j)' /\ by'[j] = cmd') /\ ~spoilt'
      BY <1>1, <2>2, <3>2, <3>3 DEF Handles
    <3>7. \E e \in Evens' : Spent(e)'
      BY <3>1, <3>2
    <3> QED  BY <3>5, <3>6, <3>7 DEF StartingPaired
  <2>6. Going'
    <3> SUFFICES ASSUME FirstTry, call.at = "idle"
                 PROVE  AllNew' \/ InTime'
      BY <1>1 DEF FInv, Going, FirstTry, Handles
    <3>1. CASE AllNew
      <4>1. \A x \in Urbs : InFlight(x) => x # u /\ x # p /\ Partner(x) # p
        BY <1>1, <1>4, <1>5, <2>2, PartnerIs DEF IInv
      <4>2. \A x \in Urbs : InFlight(x)' => by'[x] = cmd /\ ~InFlight(Partner(x))'
        BY <1>1, <1>4, <1>5, <2>2, <3>1, <4>1 DEF AllNew
      <4>3. by'[h'.urb] = cmd /\ ignore' + dropped' = Ignore
        BY <1>1, <1>4, <2>1, <2>3, <3>1 DEF AllNew
      <4>4. Urbs' = Urbs /\ cmd' = cmd
        BY <1>1 DEF Handles, Urbs
      <4> QED  BY <4>2, <4>3, <4>4 DEF AllNew
    <3>2. CASE InTime
      <4>1. PICK d \in DOMAIN flight :
              /\ InFlight(Partner(flight[d]))
              /\ d - 1 + Owed({"check", "pair", "mark", "copy"}) <= ignore
        BY <3>2 DEF InTime
      <4>2. Owed({"check", "pair", "mark", "copy"})' = Owed({"check", "pair", "mark", "copy"})
        BY <1>1, <2>1 DEF Owed
      <4>3. PICK x : x = Partner(flight[d]) /\ x = Partner(flight'[d])
        BY <2>2
      <4>4. InFlight(x)'
        BY <2>2, <4>1, <4>3
      <4> QED  BY <1>1, <2>2, <4>1, <4>2, <4>3, <4>4 DEF InTime, Handles
    <3> QED  BY <2>4, <3>1, <3>2 DEF FInv, Going
  <2> QED  BY <1>2, <1>3, <2>5, <2>6 DEF FInv
<1>7. CASE h' = [h EXCEPT !.at = "fail"] /\ UNCHANGED <<flight, by>>
  <2>1. h'.at = "fail" /\ h'.urb = h.urb
    BY <1>7 DEF IInv, TypeOK
  <2>2. Doomed'
    BY <2>1 DEF Doomed
  <2>3. \A x : InFlight(x) => InFlight(x)' /\ by'[x] = by[x]
    BY <1>7 DEF InFlight
  <2>4. StartingPaired'
    BY <1>1, <2>2, <2>3, PairedHandled DEF FInv, Handles
  <2>5. Going'
    BY <1>1, <2>2 DEF FInv, Going, FirstTry, Handles
  <2> QED  BY <1>2, <1>3, <2>4, <2>5 DEF FInv
<1> QED  BY <1>4, <1>5, <1>6, <1>7 DEF SubmitPair

(* A step of the handler that leaves the URBs alone.                       *)
LEMMA QuietFresh ==
  ASSUME IInv, FInv, Handles, UNCHANGED <<flight, by>>, 2 * Ignore >= MaxUrbs,
         h'.at = "idle" \/ h'.urb = h.urb, ~paired => h'.at # "idle" \/ ~ai_cmd_running',
         spoilt' \in BOOLEAN, ignore' \in Int,
         FirstTry /\ call.at = "idle" => ~spoilt',
         FirstTry /\ call.at \in {"submit", "mark"} /\ paired /\ ai_cmd_running' => UNCHANGED spoilt,
         paired /\ ai_cmd_running' =>
                   \/ Doomed'
                   \/ /\ ~Doomed /\ UNCHANGED <<ignore, dropped>>
                      /\ h'.at \in {"mark", "copy"} => h.at \in {"mark", "copy"}
                   \/ /\ ~Doomed /\ ignore' = ignore - 1
                      /\ h.at = "copy" /\ h'.at = "tail",
         ai_cmd_running' /\ Doomed => Doomed',
         ~Doomed /\ AllNew => Counted,
         ~Doomed /\ InTime => Sooner
  PROVE  FInv'
<1>1. \A x : InFlight(x) => InFlight(x)' /\ by'[x] = by[x]
  BY DEF InFlight
<1>2. Waiting'
  BY WaitingRuns DEF FInv, Handles
<1>3. CASE ~ai_cmd_running'
  BY <1>2, <1>3, NotUnderWay
<1>4. CASE ai_cmd_running'
  <2>1. StartingSingle'
    <3>1. CASE ~paired
      <4>1. PICK u : u = h.urb
        OBVIOUS
      <4> QED  BY <1>1, <1>4, <3>1, <4>1, SingleHandled DEF FInv, Handles
    <3>2. CASE paired
      BY <3>2 DEF StartingSingle, Handles
    <3> QED  BY <3>1, <3>2
  <2>2. StartingPaired'
    <3>1. CASE FirstTry /\ call.at \in {"submit", "mark"} /\ paired
      BY <1>1, <1>4, <3>1, PairedHandled DEF FInv, Handles
    <3>2. CASE ~(FirstTry /\ call.at \in {"submit", "mark"} /\ paired)
      BY <1>4, <3>2 DEF StartingPaired, FirstTry, Handles
    <3> QED  BY <3>1, <3>2
  <2>3. Going'
    BY <1>4, GoingHandled DEF FInv
  <2> QED  BY <1>2, <2>1, <2>2, <2>3 DEF FInv
<1> QED  BY <1>3, <1>4 DEF Handles

(* The partner is marked.                                                  *)
LEMMA MarkPairFresh ==
  ASSUME IInv, FInv, MarkPair, 2 * Ignore >= MaxUrbs, ~SMP
  PROVE  FInv'
<1>1. /\ Handles /\ UNCHANGED <<flight, by, ignore, dropped, spoilt, ai_cmd_running, call>>
      /\ h.at = "mark" /\ h'.at = "copy" /\ h'.urb = h.urb /\ paired
  BY DEF MarkPair, Handles, loadVars, coreVars, packetVars, IInv, TypeOK, HandlerIs
<1>2. ~Doomed
  BY <1>1 DEF Doomed
<1>3. ignore' \in Int /\ spoilt' \in BOOLEAN
  BY <1>1 DEF IInv, TypeOK
<1>4. AllNew => Counted
  BY <1>1 DEF AllNew, Counted
<1>5. Sooner
  <2>1. Owed({"check", "pair", "mark", "copy"})' = Owed({"check", "pair", "mark", "copy"})
    BY <1>1 DEF Owed
  <2> QED  BY <1>1, <1>3, <2>1 DEF Sooner, Due, Owed
<1>6. FirstTry /\ call.at = "idle" => ~spoilt'
  BY <1>1 DEF FInv, Going
<1> QED  BY <1>1, <1>2, <1>3, <1>4, <1>5, <1>6, QuietFresh

(* A packet is ignored.                                                    *)
LEMMA IgnorePacketFresh ==
  ASSUME IInv, FInv, IgnorePacket, 2 * Ignore >= MaxUrbs, ~SMP
  PROVE  FInv'
<1>1. /\ Handles /\ UNCHANGED <<flight, by, spoilt, ai_cmd_running, call>>
      /\ h.at = "copy" /\ h'.at = "tail" /\ h'.urb = h.urb /\ ignore' = ignore - 1
  BY DEF IgnorePacket, Handles, loadVars, urbVars, coreVars, IInv, TypeOK, HandlerIs
<1>2. ~Doomed
  BY <1>1 DEF Doomed
<1>3. ignore \in Int /\ ignore' \in Int /\ spoilt' \in BOOLEAN /\ ignore > 0 /\ dropped \in Int
  BY <1>1 DEF IInv, TypeOK, IgnorePacket
<1>4. AllNew => Counted
  <2>1. AllNew => dropped' = (IF dropped < Ignore THEN dropped + 1 ELSE dropped)
    BY <1>1 DEF AllNew, IgnorePacket
  <2>2. AllNew => ignore + dropped = Ignore
    BY DEF AllNew
  <2> QED  BY <1>1, <1>3, <2>1, <2>2, DriverAssumption DEF Counted
<1>5. Sooner
  <2>1. Owed({"check", "pair", "mark", "copy"})' = 0 /\ Owed({"check", "pair", "mark", "copy"}) = 1
    BY <1>1 DEF Owed
  <2> QED  BY <1>1, <1>3, <2>1 DEF Sooner, Due
<1>6. FirstTry /\ call.at = "idle" => ~spoilt'
  BY <1>1 DEF FInv, Going
<1> QED  BY <1>1, <1>2, <1>3, <1>4, <1>5, <1>6, QuietFresh

(* Data are passed on: by then all is new.                                 *)
LEMMA CopyFresh ==
  ASSUME IInv, FInv, Copy46 \/ Copy318, 2 * Ignore >= MaxUrbs, ~SMP
  PROVE  FInv'
<1>1. /\ Handles /\ UNCHANGED <<flight, by, ignore, dropped, call>> /\ h.at = "copy" /\ ignore = 0
      /\ PassedOn
  <2>1. /\ UNCHANGED <<loadVars, deviceVars, ignore, urbVars, coreVars, call, cmd, tries, dropped>>
        /\ h.at = "copy" /\ ignore = 0 /\ PassedOn
    BY DEF Copy46, Copy318
  <2>2. UNCHANGED ai_cmd_running \/ ai_cmd_running' = FALSE
    BY DEF Copy46, Copy318
  <2>3. ai_cmd_running = TRUE
    BY <2>1 DEF IInv, HandlerIs, TypeOK
  <2>4. ai_cmd_running' \in BOOLEAN
    BY <2>2, <2>3
  <2> QED  BY <2>1, <2>3, <2>4 DEF Handles, loadVars, urbVars, coreVars
<1>2. /\ h'.at = "idle" \/ h'.urb = h.urb
      /\ ai_cmd_running' => h'.at = "tail"
  <2>1. h \in HandlerType
    BY DEF IInv, TypeOK, HandlerType
  <2>2. CASE Copy46
    <3>1. PICK ev \in BOOLEAN : h' = [h EXCEPT !.at = "tail", !.ev = ev]
      BY <2>2 DEF Copy46
    <3> QED  BY <2>1, <3>1 DEF HandlerType
  <2>3. ASSUME h' = [h EXCEPT !.at = "tail"]
        PROVE  h'.at = "tail" /\ h'.urb = h.urb
    BY <2>1, <2>3 DEF HandlerType
  <2>4. ASSUME h' = [h EXCEPT !.at = "event", !.ev = TRUE]
        PROVE  h'.urb = h.urb
    BY <2>1, <2>4 DEF HandlerType
  <2>5. h' = Idle => h'.at = "idle"
    BY DEF Idle
  <2>6. CASE Copy318
    BY <2>3, <2>4, <2>5, <2>6 DEF Copy318
  <2> QED  BY <2>2, <2>6
<1>3. ~Doomed
  BY <1>1 DEF Doomed
<1>4. ignore' \in Int /\ spoilt' \in BOOLEAN /\ dropped \in Int
  BY <1>1 DEF IInv, TypeOK, PassedOn
<1>5. AllNew => Counted
  BY <1>1 DEF AllNew, Counted
<1>6. ~InTime
  <2> SUFFICES ASSUME NEW d \in DOMAIN flight, d - 1 + Owed({"check", "pair", "mark", "copy"}) <= ignore
               PROVE  FALSE
    BY DEF InTime
  <2>1. d \in Nat /\ d >= 1
    BY LenProperties DEF IInv, TypeOK
  <2>2. Owed({"check", "pair", "mark", "copy"}) = 1
    BY <1>1 DEF Owed
  <2> QED  BY <1>1, <2>1, <2>2
<1>7. FirstTry /\ call.at = "idle" => ~spoilt'
  <2> SUFFICES ASSUME FirstTry, call.at = "idle" PROVE ~spoilt'
    OBVIOUS
  <2>1. AllNew /\ ~spoilt
    BY <1>3, <1>6 DEF FInv, Going
  <2>2. by[h.urb] = cmd /\ ~(dropped < Ignore)
    BY <1>1, <1>4, <2>1, DriverAssumption DEF AllNew
  <2> QED  BY <1>1, <2>1, <2>2 DEF PassedOn
<1>8. ~(FirstTry /\ call.at \in {"submit", "mark"} /\ paired)
  <2> SUFFICES ASSUME FirstTry, call.at \in {"submit", "mark"}, paired PROVE FALSE
    OBVIOUS
  <2>1. Cardinality(Unspent) + Owed({"mark", "copy"}) <= ignore
    BY <1>3 DEF FInv, StartingPaired
  <2>2. Owed({"mark", "copy"}) = 1
    BY <1>1 DEF Owed
  <2>3. Cardinality(Unspent) \in Nat
    BY EvensCounted DEF Unspent
  <2> QED  BY <1>1, <2>1, <2>2, <2>3
<1> QED  BY <1>1, <1>2, <1>3, <1>4, <1>5, <1>6, <1>7, <1>8, QuietFresh

(* The end of the handler.                                                 *)
LEMMA HandlerEndsFresh ==
  ASSUME IInv, FInv, HandlerEnds, 2 * Ignore >= MaxUrbs, ~SMP
  PROVE  FInv'
<1>1. /\ Handles /\ UNCHANGED <<flight, by, ignore, dropped, spoilt, call>> /\ h.at = "tail"
  BY DEF HandlerEnds, Handles, loadVars, urbVars, coreVars, packetVars, IInv, TypeOK, HandlerIs
<1>2. /\ h'.at = "idle" \/ h'.urb = h.urb
      /\ ai_cmd_running' => paired /\ ~h.ev /\ h'.at = "idle"
  BY DEF HandlerEnds, Resubmits, Idle, IInv, TypeOK
<1>3. ai_cmd_running' => ~Doomed
  BY <1>1, <1>2 DEF Doomed
<1>4. ignore' \in Int /\ spoilt' \in BOOLEAN /\ ignore \in Int
  BY <1>1 DEF IInv, TypeOK
<1>5. AllNew => Counted
  BY <1>1 DEF AllNew, Counted
<1>6. FirstTry /\ call.at = "idle" => ~spoilt'
  BY <1>1 DEF FInv, Going
<1>7. CASE ~ai_cmd_running'
  <2>1. Waiting'
    BY <1>1, WaitingRuns DEF FInv, Handles
  <2> QED  BY <1>7, <2>1, NotUnderWay
<1>8. CASE ai_cmd_running'
  <2>1. Sooner
    <3>1. Owed({"check", "pair", "mark", "copy"})' = 0 /\ Owed({"check", "pair", "mark", "copy"}) = 0
      BY <1>1, <1>2, <1>8 DEF Owed
    <3> QED  BY <1>1, <1>4, <3>1 DEF Sooner, Due
  <2> QED  BY <1>1, <1>2, <1>3, <1>4, <1>5, <1>6, <1>8, <2>1, QuietFresh
<1> QED  BY <1>7, <1>8 DEF Handles

(* Comedi is told of an error.                                             *)
LEMMA FailFresh ==
  ASSUME IInv, FInv, Fail, 2 * Ignore >= MaxUrbs, ~SMP
  PROVE  FInv'
<1>1. /\ Handles /\ UNCHANGED <<flight, by, ignore, dropped, spoilt, ai_cmd_running, call>>
      /\ h.at = "fail" /\ h'.at = "stop" /\ h'.urb = h.urb
  BY DEF Fail, Handles, loadVars, urbVars, coreVars, packetVars, IInv, TypeOK, HandlerIs
<1>2. Doomed' /\ Doomed
  BY <1>1 DEF Doomed
<1>3. ignore' \in Int /\ spoilt' \in BOOLEAN
  BY <1>1 DEF IInv, TypeOK
<1>4. FirstTry /\ call.at = "idle" => ~spoilt'
  BY <1>1 DEF FInv, Going
<1> QED  BY <1>1, <1>2, <1>3, <1>4, QuietFresh

(* The URB is given back without pairs.                                    *)
LEMMA ResubmitFresh ==
  ASSUME IInv, FInv, Resubmit46 \/ Resubmit318, 2 * Ignore >= MaxUrbs, ~SMP
  PROVE  FInv'
<1>1. /\ Handles /\ UNCHANGED <<ignore, dropped, spoilt, ai_cmd_running, call>>
      /\ h.at = "tail" /\ ~paired /\ ~h.ev
  BY DEF Resubmit46, Resubmit318, Resubmits, Handles, loadVars, coreVars, packetVars, IInv, TypeOK, HandlerIs
<1>2. Waiting'
  BY <1>1, WaitingRuns DEF FInv, Handles
<1>3. StartingPaired'
  BY <1>1 DEF StartingPaired, Handles
<1>4. PICK u \in Urbs : u = h.urb
  BY DEF IInv, TypeOK
<1>5. CASE Submitted(u) /\ h' = Idle
  <2>1. h'.at = "idle"
    BY <1>5 DEF Idle
  <2>2. /\ by'[u] = cmd
        /\ \A x : InFlight(x)' <=> InFlight(x) \/ x = u
        /\ \A x : InFlight(x) => InFlight(x)' /\ by'[x] = by[x]
    BY <1>5, Positions, SubmittedIs DEF IInv
  <2>3. InFlight(u)'
    BY <2>2
  <2>4. StartingSingle'
    BY <1>1, <1>4, <2>2, <2>3, SingleHandled DEF FInv, Handles
  <2>5. Going'
    <3> SUFFICES ASSUME FirstTry, call.at = "idle"
                 PROVE  AllNew'
      BY <1>1 DEF FInv, Going, FirstTry, Handles
    <3>1. AllNew
      BY <1>1 DEF FInv, Going, Doomed, InTime
    <3>2. \A x \in Urbs : InFlight(x)' => by'[x] = cmd
      BY <2>2, <3>1 DEF AllNew
    <3>3. Urbs' = Urbs /\ cmd' = cmd /\ ~paired' /\ ignore' + dropped' = Ignore
      BY <1>1, <3>1 DEF Handles, Urbs, AllNew
    <3> QED  BY <2>1, <3>2, <3>3 DEF AllNew
  <2> QED  BY <1>2, <1>3, <2>4, <2>5 DEF FInv
<1>6. CASE /\ UNCHANGED <<flight, by>>
           /\ h' = [h EXCEPT !.ev = TRUE] \/ h' = [h EXCEPT !.at = "fail"]
  <2>1. h'.urb = h.urb /\ h'.at \in {"tail", "fail"} /\ Doomed'
    <3>1. h \in HandlerType
      BY DEF IInv, TypeOK, HandlerType
    <3>2. CASE h' = [h EXCEPT !.ev = TRUE]
      BY <1>1, <3>1, <3>2 DEF HandlerType, Doomed
    <3>3. CASE h' = [h EXCEPT !.at = "fail"]
      BY <1>1, <3>1, <3>3 DEF HandlerType, Doomed
    <3> QED  BY <1>6, <3>2, <3>3
  <2>2. \A x : InFlight(x) => InFlight(x)' /\ by'[x] = by[x]
    BY <1>6 DEF InFlight
  <2>3. StartingSingle'
    BY <1>1, <1>4, <2>1, <2>2, SingleHandled DEF FInv, Handles
  <2>4. Going'
    BY <1>1, <2>1 DEF FInv, Going, FirstTry, Handles
  <2> QED  BY <1>2, <1>3, <2>3, <2>4 DEF FInv
<1> QED  BY <1>4, <1>5, <1>6 DEF Resubmit46, Resubmit318

(* The first URB in flight is complete, the others move up.                *)
LEMMA Shifted ==
  ASSUME IInv, NEW bad \in BOOLEAN, Complete(bad)
  PROVE  \E u \in Urbs :
           /\ u = Head(flight) /\ InFlight(u)
           /\ \A x : InFlight(x)' <=> InFlight(x) /\ x # u
           /\ \A i \in DOMAIN flight :
                \/ i = 1 /\ flight[i] = u
                \/ i \in Int /\ i - 1 \in DOMAIN flight' /\ flight'[i - 1] = flight[i]
<1>1. flight \in Seq(Urbs) /\ IsInjective(flight) /\ flight' = Tail(flight) /\ flight # <<>>
  BY DEF IInv, TypeOK, Complete
<1>2. PICK u \in Urbs : u = Head(flight) /\ InFlight(u)
  BY <1>1, TailOf DEF In, InFlight
<1>3. \A x : InFlight(x)' <=> InFlight(x) /\ x # u
  <2>1. \A x : In(flight', x) <=> In(flight, x) /\ x # u
    BY <1>1, <1>2, TailOf
  <2> QED  BY <2>1 DEF In, InFlight
<1>4. ASSUME NEW i \in DOMAIN flight
      PROVE  \/ i = 1 /\ flight[i] = u
             \/ i \in Int /\ i - 1 \in DOMAIN flight' /\ flight'[i - 1] = flight[i]
  <2>1. PICK g : g = Tail(flight)
    OBVIOUS
  <2>2. /\ g \in Seq(Urbs) /\ Len(g) = Len(flight) - 1 /\ Len(flight) \in Nat
        /\ \A k \in 1 .. Len(g) : g[k] = flight[k + 1]
        /\ DOMAIN g = 1 .. Len(flight) - 1 /\ DOMAIN flight = 1 .. Len(flight)
        /\ Head(flight) = flight[1]
    BY <1>1, <2>1, HeadTailProperties, LenProperties
  <2>3. CASE i = 1
    BY <1>2, <2>2, <2>3
  <2>4. CASE i # 1
    <3>1. i \in Int /\ i - 1 \in 1 .. Len(flight) - 1 /\ (i - 1) + 1 = i
      BY <2>2, <2>4
    <3>2. i - 1 \in DOMAIN g /\ g[i - 1] = flight[i]
      BY <2>2, <3>1
    <3> QED  BY <1>1, <2>1, <3>1, <3>2
  <2> QED  BY <2>3, <2>4
<1> QED  BY <1>2, <1>3, <1>4

(* A URB is complete; while a command is being started it is one of an     *)
(* earlier command.                                                        *)
LEMMA CompleteFresh ==
  ASSUME IInv, FInv, NEW bad \in BOOLEAN, Complete(bad), 2 * Ignore >= MaxUrbs, Quick, ~SMP
  PROVE  FInv'
<1>1. /\ UNCHANGED <<paired, nurbs, ai_cmd_running, ignore, by, runflag, inttrig, call,
                     cmd, tries, dropped, spoilt>>
      /\ h.at = "idle" /\ flight # <<>>
      /\ h' = [at |-> "check", urb |-> Head(flight), bad |-> bad, ev |-> FALSE]
      /\ call.at \in {"submit", "mark"} => by[Head(flight)] # cmd
  BY DEF Complete, loadVars, deviceVars, coreVars, packetVars
<1>2. PICK u \in Urbs :
           /\ u = Head(flight) /\ InFlight(u)
           /\ \A x : InFlight(x)' <=> InFlight(x) /\ x # u
           /\ \A i \in DOMAIN flight :
                \/ i = 1 /\ flight[i] = u
                \/ i \in Int /\ i - 1 \in DOMAIN flight' /\ flight'[i - 1] = flight[i]
  BY Shifted
<1>3. h'.at = "check" /\ h'.urb = u
  BY <1>1, <1>2
<1>4. Urbs' = Urbs /\ Evens' = Evens /\ \A j : Started(j)' = Started(j)
  BY <1>1 DEF Urbs, Evens, Started, Step
<1>5. Waiting'
  BY <1>1, <1>2, <1>4 DEF FInv, Waiting, AsNew
<1>6. PICK p : p = Partner(u) /\ (paired => p \in Urbs /\ Partner(p) = u /\ p # u)
  BY <1>2, PartnerIs DEF IInv
<1>7. ~Doomed
  BY <1>1 DEF Doomed
<1>8. paired /\ InFlight(p) => Doomed'
  <2>1. PICK q : q = Partner(h'.urb) /\ q = p
    BY <1>3, <1>6
  <2>2. paired /\ InFlight(p) => InFlight(q)'
    BY <1>2, <1>6, <2>1
  <2> QED  BY <1>1, <1>3, <2>1, <2>2 DEF Doomed
<1>9. StartingSingle'
  <2> SUFFICES ASSUME FirstTry, ~paired, call.at \in {"submit", "mark"}
               PROVE  /\ \A j \in Urbs : Started(j) => InFlight(j)' /\ by[j] = cmd
                      /\ AsNew \/ \E j \in Urbs : ~Started(j) /\ (InFlight(j)' \/ InHand(j)')
    BY <1>1, <1>4 DEF StartingSingle, FirstTry, AsNew
  <2>1. /\ \A j \in Urbs : Started(j) => InFlight(j) /\ by[j] = cmd
        /\ AsNew \/ \E j \in Urbs : ~Started(j) /\ InFlight(j)
    BY <1>1 DEF FInv, StartingSingle, InHand
  <2>2. by[u] # cmd
    BY <1>1, <1>2
  <2>3. InHand(u)'
    BY <1>3 DEF InHand
  <2> QED  BY <1>2, <2>1, <2>2, <2>3
<1>10. StartingPaired'
  <2> SUFFICES ASSUME FirstTry, paired, call.at \in {"submit", "mark"}
               PROVE  StartingPaired'
    BY <1>1 DEF StartingPaired, FirstTry
  <2>1. /\ \A j \in Evens : Started(j) => InFlight(j) /\ by[j] = cmd
        /\ ~spoilt
        /\ Cardinality(Unspent) + Owed({"mark", "copy"}) <= ignore
        /\ AsNew \/ \E j \in Evens : Spent(j)
    BY <1>7 DEF FInv, StartingPaired
  <2>2. by[u] # cmd
    BY <1>1, <1>2
  <2>3. (\A j \in Evens : Started(j)' => InFlight(j)' /\ by'[j] = cmd) /\ ~spoilt'
    BY <1>1, <1>2, <1>4, <2>1, <2>2
  <2>4. CASE InFlight(p)
    BY <1>1, <1>4, <1>8, <2>3, <2>4 DEF StartingPaired
  <2>5. CASE ~InFlight(p)
    <3>1. ASSUME NEW j \in Evens, Spent(j) PROVE Spent(j)'
      <4>1. j \in Urbs /\ j % 2 = 0 /\ j \in Int
        BY Sizes DEF Evens, Urbs
      <4>2. j + 1 = u => p = j
        BY <1>6, <4>1 DEF Partner
      <4> QED  BY <1>1, <1>2, <1>4, <2>1, <2>2, <2>5, <3>1, <4>2 DEF Spent
    <3>2. Unspent' \subseteq Unspent /\ Unspent \in SUBSET Evens
      BY <1>4, <3>1 DEF Unspent
    <3>3. IsFiniteSet(Unspent) /\ Cardinality(Unspent) \in Nat
      BY <3>2, EvensCounted
    <3>4. IsFiniteSet(Unspent') /\ Cardinality(Unspent') <= Cardinality(Unspent)
      BY <3>2, <3>3, FS_Subset
    <3>5. Cardinality(Unspent') \in Nat
      BY <3>4, FS_CardinalityType
    <3>6. Cardinality(Unspent') + Owed({"mark", "copy"})' <= ignore'
      <4>1. PICK a, b : a = Cardinality(Unspent) /\ b = Cardinality(Unspent')
        OBVIOUS
      <4>2. PICK m, n : m = Owed({"mark", "copy"}) /\ n = Owed({"mark", "copy"})'
        OBVIOUS
      <4>3. m = 0 /\ n = 0
        BY <1>1, <1>3, <4>2 DEF Owed
      <4>4. ignore \in Nat
        BY DriverAssumption DEF IInv, TypeOK
      <4>5. a \in Nat /\ b \in Nat /\ b <= a /\ a + m <= ignore /\ ignore' = ignore
        BY <1>1, <2>1, <3>3, <3>4, <3>5, <4>1, <4>2
      <4>6. b + n <= ignore'
        BY <4>3, <4>4, <4>5
      <4> QED  BY <4>1, <4>2, <4>6
    <3>7. AsNew' \/ \E j \in Evens : Spent(j)'
      BY <1>1, <2>1, <3>1 DEF AsNew
    <3> QED  BY <1>3, <1>4, <2>3, <3>6, <3>7, <1>1 DEF StartingPaired
  <2> QED  BY <2>4, <2>5
<1>11. Going'
  <2> SUFFICES ASSUME FirstTry, call.at = "idle", ~Doomed'
               PROVE  AllNew' \/ InTime'
    BY <1>1 DEF FInv, Going, FirstTry
  <2>1. CASE AllNew
    <3>1. \A x \in Urbs : InFlight(x)' => by'[x] = cmd /\ (paired => ~InFlight(Partner(x))')
      BY <1>1, <1>2, <2>1 DEF AllNew
    <3>2. by'[h'.urb] = cmd /\ ignore' + dropped' = Ignore
      BY <1>1, <1>2, <1>3, <2>1 DEF AllNew
    <3>3. \A x : Partner(x)' = Partner(x)
      BY DEF Partner
    <3> QED  BY <1>1, <1>4, <3>1, <3>2, <3>3 DEF AllNew
  <2>2. CASE InTime
    <3>1. PICK d \in DOMAIN flight :
            /\ InFlight(Partner(flight[d]))
            /\ d - 1 + Owed({"check", "pair", "mark", "copy"}) <= ignore
      BY <2>2 DEF InTime
    <3>2. paired /\ ~InFlight(p)
      BY <1>8, <2>2 DEF InTime
    <3>3. flight[d] # u
      BY <1>6, <3>1, <3>2
    <3>4. d \in Int /\ d - 1 \in DOMAIN flight' /\ flight'[d - 1] = flight[d]
      BY <1>2, <3>3
    <3>5. flight[d] \in Urbs /\ InFlight(flight[d])
      BY InFlightIs DEF IInv, InFlight
    <3>6. PICK x : x = Partner(flight[d]) /\ x = Partner(flight'[d - 1])
      BY <3>4
    <3>7. x # u
      <4>1. PICK y \in Urbs : y = flight[d] /\ x = Partner(y) /\ InFlight(y)
        BY <3>5, <3>6
      <4>2. Partner(x) = y
        BY <3>2, <4>1, PartnerIs DEF IInv
      <4> QED  BY <1>6, <3>2, <4>1, <4>2
    <3>8. InFlight(x)'
      BY <1>2, <3>1, <3>6, <3>7
    <3>9. (d - 1) - 1 + Owed({"check", "pair", "mark", "copy"})' <= ignore'
      <4>1. PICK m, n : /\ m = Owed({"check", "pair", "mark", "copy"})
                        /\ n = Owed({"check", "pair", "mark", "copy"})'
        OBVIOUS
      <4>2. m = 0 /\ n = 1
        BY <1>1, <1>3, <4>1 DEF Owed
      <4>3. ignore \in Int /\ ignore' = ignore
        BY <1>1 DEF IInv, TypeOK
      <4>4. d - 1 + m <= ignore
        BY <3>1, <4>1
      <4>5. (d - 1) - 1 + n <= ignore'
        BY <3>4, <4>2, <4>3, <4>4
      <4> QED  BY <4>1, <4>5
    <3> QED  BY <1>1, <3>2, <3>4, <3>6, <3>8, <3>9 DEF InTime
  <2> QED  BY <1>7, <2>1, <2>2 DEF FInv, Going
<1> QED  BY <1>5, <1>9, <1>10, <1>11 DEF FInv

(* What comes before the first URB whose partner is in flight too is       *)
(* unspent, so that it comes in time.                                      *)
LEMMA FirstRefused ==
  ASSUME IInv, paired, 2 * Ignore >= MaxUrbs, Cardinality(Unspent) <= ignore,
         h.at = "idle", \A j \in Evens : InFlight(j) /\ Started(j),
         NEW e \in Evens, InFlight(e + 1)
  PROVE  InTime
<1> DEFINE T == {d \in DOMAIN flight : InFlight(Partner(flight[d]))}
<1>1. /\ flight \in Seq(Urbs) /\ IsInjective(flight)
      /\ DOMAIN flight = 1 .. Len(flight) /\ Len(flight) \in Nat
      /\ ignore \in Nat
  BY LenProperties, DriverAssumption DEF IInv, TypeOK
<1>2. T # {} /\ T \subseteq Nat
  <2>1. e \in Urbs /\ Partner(e) = e + 1 /\ InFlight(e)
    BY PartnerIs DEF IInv, Evens
  <2>2. PICK d \in DOMAIN flight : flight[d] = e
    BY <2>1 DEF InFlight
  <2>3. InFlight(Partner(flight[d]))
    BY <2>1, <2>2
  <2> QED  BY <1>1, <2>3
<1>3. PICK d \in T : \A k \in T : d <= k
  <2> HIDE DEF T
  <2> QED  BY <1>2, Least
<1>4. d \in DOMAIN flight /\ InFlight(Partner(flight[d])) /\ d \in 1 .. Len(flight)
  BY <1>1
<1>5. ASSUME NEW i \in 1 .. d - 1
      PROVE  flight[i] \in Unspent
  <2>1. i \in DOMAIN flight /\ i < d /\ i \in Nat
    BY <1>1, <1>4
  <2>2. ~InFlight(Partner(flight[i]))
    <3> SUFFICES ASSUME InFlight(Partner(flight[i])) PROVE FALSE
      OBVIOUS
    <3>1. i \in T
      BY <2>1
    <3>2. d <= i
      BY <1>3, <3>1
    <3> QED  BY <1>4, <2>1, <3>2
  <2>3. PICK x \in Urbs : x = flight[i] /\ InFlight(x)
    BY <2>1, InFlightIs DEF IInv, InFlight
  <2>4. x \in Int /\ Partner(x) \in Urbs
    BY Sizes, PartnerIs DEF IInv, Urbs
  <2>5. x % 2 = 0
    <3> SUFFICES ASSUME x % 2 # 0 PROVE FALSE
      OBVIOUS
    <3>1. Partner(x) \in Evens
      BY <2>4 DEF Partner, Evens
    <3> QED  BY <2>2, <2>3, <3>1
  <2>6. x \in Evens /\ Partner(x) = x + 1
    BY <2>3, <2>5, PartnerIs DEF IInv, Evens
  <2>7. ~Spent(x)
    BY <2>2, <2>3, <2>6 DEF Spent
  <2> QED  BY <2>3, <2>6, <2>7 DEF Unspent
<1>6. IsFiniteSet(Unspent) /\ Cardinality(Unspent) \in Nat
  BY EvensCounted DEF Unspent
<1>7. PICK f : f = [i \in 1 .. d - 1 |-> flight[i]]
  OBVIOUS
<1>8. f \in Injection(1 .. d - 1, Unspent)
  <2>1. f \in [1 .. d - 1 -> Unspent]
    BY <1>5, <1>7
  <2>2. IsInjective(f)
    BY <1>1, <1>4, <1>7 DEF IsInjective
  <2> QED  BY <2>1, <2>2 DEF Injection
<1>9. Cardinality(1 .. d - 1) <= Cardinality(Unspent)
  BY <1>6, <1>8, FS_Injection
<1>10. Cardinality(1 .. d - 1) = d - 1
  <2>1. Cardinality(1 .. d - 1) = IF 1 > d - 1 THEN 0 ELSE (d - 1) - 1 + 1
    <3>1. PICK m \in Int : m = d - 1
      BY <1>4
    <3>2. Cardinality(1 .. m) = IF 1 > m THEN 0 ELSE m - 1 + 1
      BY FS_Interval
    <3> QED  BY <3>1, <3>2
  <2>2. (IF 1 > d - 1 THEN 0 ELSE (d - 1) - 1 + 1) = d - 1
    BY <1>4
  <2> QED  BY <2>1, <2>2
<1>11. d - 1 + Owed({"check", "pair", "mark", "copy"}) <= ignore
  <2>1. Owed({"check", "pair", "mark", "copy"}) = 0
    BY DEF Owed
  <2>2. d - 1 <= ignore
    <3>1. PICK a, b : a = Cardinality(1 .. d - 1) /\ b = Cardinality(Unspent)
      OBVIOUS
    <3>2. a = d - 1 /\ a <= b /\ b <= ignore /\ b \in Nat
      BY <1>6, <1>9, <1>10, <3>1
    <3> QED  BY <1>1, <1>4, <3>2
  <2> QED  BY <1>1, <1>4, <2>1, <2>2
<1> QED  BY <1>4, <1>11 DEF InTime

(* A start that submits a URB, or fails.                                   *)
LEMMA SubmitUrbFresh ==
  ASSUME IInv, FInv, SubmitUrb, 2 * Ignore >= MaxUrbs, ~SMP
  PROVE  FInv'
<1>1. /\ UNCHANGED <<paired, nurbs, ignore, h, inttrig, cmd, tries, dropped, spoilt>>
      /\ call.at = "submit" /\ h.at = "idle" /\ call.j \in Urbs /\ ai_cmd_running \in BOOLEAN
      /\ paired => call.j % 2 = 0
  BY DEF SubmitUrb, CallStep, IInv, CallIs, TypeOK, Urbs, loadVars, packetVars
<1>2. CASE /\ ai_cmd_running' = FALSE
           /\ runflag' = (runflag /\ call.trig)
           /\ call' = NoCall /\ UNCHANGED <<flight, by>>
  <2>1. call'.at = "idle" /\ (tries' = 0 => ~runflag') /\ ~ai_cmd_running'
    BY <1>1, <1>2 DEF FInv, Waiting, NoCall
  <2>2. Waiting'
    BY <2>1 DEF Waiting
  <2> QED  BY <2>1, <2>2, NotUnderWay
<1>3. CASE /\ Submitted(call.j) /\ call' = [call EXCEPT !.at = "mark"]
           /\ UNCHANGED <<ai_cmd_running, runflag>>
  <2>1. call'.at = "mark" /\ call'.j = call.j /\ call'.trig = call.trig
    BY <1>3 DEF IInv, TypeOK
  <2>2. Waiting'
    BY <1>1, <2>1 DEF FInv, Waiting
  <2>3. PICK c \in Urbs : c = call.j /\ c \in Int /\ ~InFlight(c)
    BY <1>1, <1>3, Sizes DEF Urbs, Submitted
  <2>4. /\ by'[c] = cmd /\ InFlight(c)'
        /\ \A x : InFlight(x) => InFlight(x)' /\ by'[x] = by[x]
    BY <1>3, <2>3, Positions, SubmittedIs DEF IInv
  <2>5. Urbs' = Urbs /\ Evens' = Evens /\ Evens \subseteq Urbs
    BY <1>1 DEF Urbs, Evens
  <2>6. \A j \in Urbs : Started(j) => Started(j)' /\ j # c
    BY <1>1, <2>1, <2>3, Sizes DEF Started, Step, Urbs
  <2>7. Going'
    BY <2>1 DEF Going
  <2>8. StartingSingle'
    <3> SUFFICES ASSUME FirstTry, ~paired
                 PROVE  /\ \A j \in Urbs : Started(j)' => InFlight(j)' /\ by'[j] = cmd
                        /\ AsNew \/ \E j \in Urbs : ~Started(j)' /\ InFlight(j)'
      BY <1>1, <1>3, <2>5 DEF StartingSingle, FirstTry, AsNew
    <3>1. \A j \in Urbs : Started(j)' <=> Started(j) \/ j = c
      BY <1>1, <2>1, <2>3, Sizes DEF Started, Step, Urbs
    <3>2. /\ \A j \in Urbs : Started(j) => InFlight(j) /\ by[j] = cmd
          /\ AsNew \/ \E j \in Urbs : ~Started(j) /\ InFlight(j)
      BY <1>1, <1>3 DEF FInv, StartingSingle, InHand
    <3> QED  BY <2>3, <2>4, <3>1, <3>2
  <2>9. StartingPaired'
    <3> SUFFICES ASSUME FirstTry, paired
                 PROVE  StartingPaired'
      BY <1>1, <1>3 DEF StartingPaired, FirstTry
    <3>1. \A j \in Evens : Started(j)' <=> Started(j) \/ j = c
      <4> SUFFICES ASSUME NEW j \in Evens
                   PROVE  Started(j)' <=> Started(j) \/ j = c
        OBVIOUS
      <4>1. j \in Int /\ j % 2 = 0 /\ c % 2 = 0 /\ c \in Int
        BY <1>1, <2>3, Sizes DEF Evens, Urbs
      <4>2. j < c + 2 <=> j < c \/ j = c
        BY <4>1
      <4> QED  BY <1>1, <2>1, <2>3, <4>2 DEF Started, Step
    <3>2. /\ \A j \in Evens : Started(j) => InFlight(j) /\ by[j] = cmd
          /\ ~spoilt
          /\ Cardinality(Unspent) + Owed({"mark", "copy"}) <= ignore
          /\ AsNew \/ \E j \in Evens : Spent(j)
      <4>1. ~Doomed
        BY <1>1 DEF Doomed
      <4> QED  BY <1>1, <1>3, <4>1 DEF FInv, StartingPaired
    <3>3. \A j \in Evens : Started(j)' => InFlight(j)' /\ by'[j] = cmd
      BY <2>3, <2>4, <3>1, <3>2
    <3>4. ASSUME NEW j \in Evens, Spent(j) PROVE Spent(j)'
      BY <1>1, <2>3, <2>4, <3>1, <3>4 DEF Spent
    <3>5. Unspent' \subseteq Unspent /\ Unspent \in SUBSET Evens
      BY <2>5, <3>4 DEF Unspent
    <3>6. IsFiniteSet(Unspent) /\ Cardinality(Unspent) \in Nat
      BY <3>5, EvensCounted
    <3>7. IsFiniteSet(Unspent') /\ Cardinality(Unspent') <= Cardinality(Unspent)
      BY <3>5, <3>6, FS_Subset
    <3>8. Cardinality(Unspent') \in Nat
      BY <3>7, FS_CardinalityType
    <3>9. Cardinality(Unspent') + Owed({"mark", "copy"})' <= ignore'
      <4>1. PICK a, b : a = Cardinality(Unspent) /\ b = Cardinality(Unspent')
        OBVIOUS
      <4>2. PICK m, n : m = Owed({"mark", "copy"}) /\ n = Owed({"mark", "copy"})'
        OBVIOUS
      <4>3. m = 0 /\ n = 0
        BY <1>1, <4>2 DEF Owed
      <4>4. ignore \in Nat
        BY DriverAssumption DEF IInv, TypeOK
      <4>5. a \in Nat /\ b \in Nat /\ b <= a /\ a + m <= ignore /\ ignore' = ignore
        BY <1>1, <3>2, <3>6, <3>7, <3>8, <4>1, <4>2
      <4>6. b + n <= ignore'
        BY <4>3, <4>4, <4>5
      <4> QED  BY <4>1, <4>2, <4>6
    <3>10. AsNew' \/ \E j \in Evens : Spent(j)'
      BY <1>1, <3>2, <3>4 DEF AsNew
    <3> QED  BY <1>1, <2>5, <3>2, <3>3, <3>9, <3>10 DEF StartingPaired
  <2> QED  BY <2>2, <2>7, <2>8, <2>9 DEF FInv
<1> QED  BY <1>2, <1>3 DEF SubmitUrb

(* The start goes on, or is done.                                          *)
LEMMA MarkUrbFresh ==
  ASSUME IInv, FInv, MarkUrb, 2 * Ignore >= MaxUrbs, ~SMP
  PROVE  FInv'
<1>1. /\ UNCHANGED <<paired, nurbs, ai_cmd_running, ignore, flight, by, h, runflag, cmd, tries, dropped, spoilt>>
      /\ h.at = "idle" /\ call.at = "mark" /\ call.j \in Urbs
      /\ \/ /\ call.j + Step < nurbs /\ inttrig' = inttrig
            /\ call' = [call EXCEPT !.at = "submit", !.j = call.j + Step]
         \/ /\ ~(call.j + Step < nurbs) /\ inttrig' = FALSE
            /\ call' = NoCall
  BY DEF MarkUrb, Step, CallStep, IInv, CallIs, TypeOK, Urbs, loadVars, deviceVars, packetVars
<1>2. \A x : InFlight(x)' <=> InFlight(x)
  BY <1>1 DEF InFlight
<1>3. Urbs' = Urbs /\ Evens' = Evens /\ Evens \subseteq Urbs
  BY <1>1 DEF Urbs, Evens
<1>4. ~Doomed
  BY <1>1 DEF Doomed
<1>5. CASE /\ call.j + Step < nurbs /\ inttrig' = inttrig
           /\ call' = [call EXCEPT !.at = "submit", !.j = call.j + Step]
  <2>1. call'.at = "submit" /\ call'.j = call.j + Step /\ call'.trig = call.trig
    BY <1>5 DEF IInv, TypeOK
  <2>2. Waiting'
    BY <1>1, <2>1 DEF FInv, Waiting
  <2>3. \A j : Started(j)' <=> Started(j)
    BY <1>1, <2>1 DEF Started, Step
  <2>4. StartingSingle'
    BY <1>1, <1>2, <1>3, <2>1, <2>3 DEF FInv, StartingSingle, FirstTry, AsNew, InHand
  <2>5. \A j \in Evens : Spent(j)' <=> Spent(j)
    BY <1>1, <1>2, <2>3 DEF Spent
  <2>6. Unspent' = Unspent
    BY <1>3, <2>5 DEF Unspent
  <2>7. StartingPaired'
    BY <1>1, <1>2, <1>3, <1>4, <2>1, <2>3, <2>5, <2>6 DEF FInv, StartingPaired, FirstTry, AsNew, Owed
  <2>8. Going'
    BY <2>1 DEF Going
  <2> QED  BY <2>2, <2>4, <2>7, <2>8 DEF FInv
<1>6. CASE ~(call.j + Step < nurbs) /\ inttrig' = FALSE /\ call' = NoCall
  <2>1. call'.at = "idle"
    BY <1>6 DEF NoCall
  <2>2. Waiting'
    BY <1>6, <2>1 DEF Waiting
  <2>3. \A j \in Urbs : Started(j)
    BY <1>1, <1>6, Sizes DEF Started, Step, Urbs
  <2>4. StartingSingle' /\ StartingPaired'
    BY <2>1 DEF StartingSingle, StartingPaired
  <2>5. Going'
    <3> SUFFICES ASSUME FirstTry
                 PROVE  ~spoilt /\ (AllNew' \/ InTime')
      BY <1>1 DEF Going, FirstTry
    <3>1. AsNew => ignore + dropped = Ignore /\ ~spoilt
      BY DriverAssumption DEF AsNew
    <3>2. CASE ~paired
      <4>1. (\A j \in Urbs : by[j] = cmd) /\ AsNew
        BY <1>1, <2>3, <3>2 DEF FInv, StartingSingle
      <4> QED  BY <1>1, <1>3, <3>1, <3>2, <4>1 DEF AllNew
    <3>3. CASE paired
      <4>1. /\ \A j \in Evens : InFlight(j) /\ by[j] = cmd
            /\ ~spoilt
            /\ Cardinality(Unspent) + Owed({"mark", "copy"}) <= ignore
            /\ AsNew \/ \E j \in Evens : Spent(j)
        BY <1>1, <1>3, <1>4, <2>3, <3>3 DEF FInv, StartingPaired
      <4>2. CASE \E j \in Evens : Spent(j)
        <5>1. PICK e \in Evens : InFlight(e + 1)
          BY <1>3, <2>3, <4>2 DEF Spent
        <5>2. Cardinality(Unspent) <= ignore
          <6>1. Owed({"mark", "copy"}) = 0
            BY <1>1 DEF Owed
          <6>2. Cardinality(Unspent) \in Nat
            BY <3>3, EvensCounted DEF Unspent
          <6> QED  BY <4>1, <6>1, <6>2
        <5>3. InTime
          BY <1>1, <1>3, <2>3, <3>3, <4>1, <5>1, <5>2, FirstRefused
        <5>4. InTime'
          BY <1>1, <1>2, <5>3 DEF InTime, InFlight, Partner, Owed
        <5> QED  BY <4>1, <5>4
      <4>3. CASE ~\E j \in Evens : Spent(j)
        <5>1. \A j \in Evens : ~InFlight(j + 1)
          BY <1>3, <2>3, <4>3 DEF Spent
        <5>2. ASSUME NEW x \in Urbs, InFlight(x)
              PROVE  by[x] = cmd /\ ~InFlight(Partner(x))
          <6>1. x \in Int /\ Partner(x) \in Urbs
            BY <3>3, Sizes, PartnerIs DEF IInv, Urbs
          <6>2. x % 2 = 0
            <7> SUFFICES ASSUME x % 2 # 0 PROVE FALSE
              OBVIOUS
            <7>1. Partner(x) \in Evens /\ Partner(x) + 1 = x
              BY <6>1 DEF Partner, Evens
            <7> QED  BY <5>1, <5>2, <7>1
          <6>3. x \in Evens /\ Partner(x) = x + 1
            BY <6>1, <6>2 DEF Partner, Evens
          <6> QED  BY <4>1, <5>1, <6>3
        <5>3. \A x : Partner(x)' = Partner(x)
          BY DEF Partner
        <5>4. \A x \in Urbs : InFlight(x)' => by'[x] = cmd /\ ~InFlight(Partner(x))'
          BY <1>1, <1>2, <5>2
        <5>5. AllNew'
          BY <1>1, <1>3, <3>1, <4>1, <4>3, <5>3, <5>4 DEF AllNew
        <5> QED  BY <4>1, <5>5
      <4> QED  BY <4>2, <4>3
    <3> QED  BY <3>2, <3>3
  <2> QED  BY <2>2, <2>4, <2>5 DEF FInv
<1> QED  BY <1>1, <1>5, <1>6

(* Nothing happens.                                                        *)
LEMMA StutterFresh ==
  ASSUME IInv, FInv, UNCHANGED vars
  PROVE  FInv'
<1>1. UNCHANGED <<port, paired, nurbs, attached, held, ai_cmd_running, ignore, urb_active, flight,
                  by, h, runflag, inttrig, call, cmd, tries, dropped, spoilt>>
  BY DEF vars, loadVars, deviceVars, urbVars, coreVars, packetVars
<1>2. \A x : InFlight(x)' <=> InFlight(x)
  BY <1>1 DEF InFlight
<1>3. /\ Urbs' = Urbs /\ Evens' = Evens /\ (AsNew' <=> AsNew) /\ (FirstTry' <=> FirstTry)
      /\ \A j : (Started(j)' <=> Started(j)) /\ (InHand(j)' <=> InHand(j)) /\ Partner(j)' = Partner(j)
  BY <1>1 DEF Urbs, Evens, AsNew, FirstTry, Started, Step, InHand, Partner
<1>4. Doomed' <=> Doomed
  BY <1>1 DEF Doomed, InFlight, Partner
<1>5. \A j \in Evens : Spent(j)' <=> Spent(j)
  BY <1>1, <1>2, <1>3 DEF Spent
<1>6. Unspent' = Unspent
  BY <1>3, <1>5 DEF Unspent
<1>7. Waiting' /\ StartingSingle'
  BY <1>1, <1>2, <1>3 DEF FInv, Waiting, StartingSingle
<1>8. StartingPaired'
  BY <1>1, <1>2, <1>3, <1>4, <1>5, <1>6 DEF FInv, StartingPaired, Owed
<1>9. InTime => InTime'
  BY <1>1 DEF InTime, InFlight, Partner, Owed
<1>10. AllNew => AllNew'
  BY <1>1, <1>2, <1>3 DEF AllNew
<1>11. Going'
  BY <1>1, <1>3, <1>4, <1>9, <1>10 DEF FInv, Going
<1> QED  BY <1>7, <1>8, <1>11 DEF FInv

(* What is passed on as data of a command was transferred for it           *)
(* (usbduxfast_4.6.5_john.c:598-602, 345-356), if a packet takes longer    *)
(* than the submission of the URBs and there are no more pairs of URBs     *)
(* than packets to ignore.                                                 *)
THEOREM AlwaysFreshData ==
  ASSUME ~SMP, Quick, 2 * Ignore >= MaxUrbs
  PROVE  Spec => []FreshData
<1>1. Init => FInv
  BY FInitHolds
<1>2. IInv /\ FInv /\ [Next]_vars => FInv'
  <2> SUFFICES ASSUME IInv, FInv, [Next]_vars PROVE FInv'
    OBVIOUS
  <2>1. CASE SystemCall
    BY <2>1, AttachFresh, DetachFresh, AiCmdFresh, AiInttrigFresh, SubmitUrbFresh, MarkUrbFresh,
       CancelFresh DEF SystemCall
  <2>2. CASE Handler
    BY <2>2, IdleFresh, CheckFresh, SubmitPairFresh, MarkPairFresh, IgnorePacketFresh, CopyFresh,
       ResubmitFresh, HandlerEndsFresh, FailFresh, StopFresh DEF Handler
  <2>3. CASE \E bad \in BOOLEAN : Complete(bad)
    BY <2>3, CompleteFresh
  <2>4. CASE UNCHANGED vars
    BY <2>4, StutterFresh
  <2> QED  BY <2>1, <2>2, <2>3, <2>4 DEF Next
<1>3. IInv /\ FInv => FreshData
  <2> SUFFICES ASSUME IInv, FInv, spoilt, ai_cmd_running, tries < 2
               PROVE  call.at \in {"submit", "mark"}
    BY DEF FreshData
  <2>1. call.at # "idle"
    BY DEF FInv, Going, FirstTry
  <2> QED  BY <2>1 DEF IInv, TypeOK, CallIs
<1>4. Spec => []FInv
  BY <1>1, <1>2, Invariance, PTL DEF Spec
<1> QED  BY <1>3, <1>4, Invariance, PTL
================================================================================
