--------------------------- MODULE SnapshotPromise ---------------------------
(***************************************************************************)
(* What a Snap command that is accepted promises (snapshot.8a, "Snap" and   *)
(* "Ztatus"), with no threads, messages, frames or ring: the files of a     *)
(* snapshot are written one after the other, part by part; one counts as    *)
(* done when all its parts are on disk; the snapshot is complete when it    *)
(* has as many files as were asked for, or it fails for good.               *)
(***************************************************************************)
EXTENDS Naturals

CONSTANTS
  Snap,    \* snapshots
  Part,    \* the parts of a file
  Count    \* numbers of files that may be asked for

VARIABLES
  phase,   \* what has become of a snapshot
  count,   \* files asked for
  done,    \* files that are whole
  copied   \* parts of the file in progress that are on disk

vars == <<phase, count, done, copied>>

Init ==
  /\ phase = [s \in Snap |-> "none"]
  /\ count = [s \in Snap |-> 0]
  /\ done = [s \in Snap |-> 0]
  /\ copied = [s \in Snap |-> {}]

(* A snapshot of n files is accepted; its first file may fail at once.      *)
Accept(s, n) ==
  /\ phase[s] = "none"
  /\ \/ phase' = [phase EXCEPT ![s] = "active"] /\ n > 0
     \/ phase' = [phase EXCEPT ![s] = "failed"] /\ n > 0
     \/ phase' = [phase EXCEPT ![s] = "complete"] /\ n = 0
  /\ count' = [count EXCEPT ![s] = n]
  /\ UNCHANGED <<done, copied>>

Copy(s, i) ==
  /\ phase[s] = "active" /\ i \notin copied[s]
  /\ copied' = [copied EXCEPT ![s] = @ \cup {i}]
  /\ UNCHANGED <<phase, count, done>>

(* A file is whole: it was the last one, the next is begun, or cannot be.   *)
FileDone(s) ==
  /\ phase[s] = "active" /\ copied[s] = Part
  /\ done' = [done EXCEPT ![s] = @ + 1]
  /\ copied' = [copied EXCEPT ![s] = {}]
  /\ \/ done[s] + 1 = count[s] /\ phase' = [phase EXCEPT ![s] = "complete"]
     \/ done[s] + 1 # count[s] /\ UNCHANGED phase
     \/ done[s] + 1 # count[s] /\ phase' = [phase EXCEPT ![s] = "failed"]
  /\ UNCHANGED count

Fail(s) ==
  /\ phase[s] = "active"
  /\ phase' = [phase EXCEPT ![s] = "failed"]
  /\ copied' = [copied EXCEPT ![s] = {}]
  /\ UNCHANGED <<count, done>>

Next ==
  \E s \in Snap :
    \/ \E n \in Count : Accept(s, n)
    \/ \E i \in Part : Copy(s, i)
    \/ FileDone(s) \/ Fail(s)

Spec == Init /\ [][Next]_vars
=============================================================================
