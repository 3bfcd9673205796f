---------------------------- MODULE MCReaderRing ----------------------------
(* Instances of ReaderRing for TLC. *)
EXTENDS ReaderRing

(* The smallest ring, its mark and window computed. *)
DefaultSetting == [bufsz |-> 8, bufhwm |-> Unset, window |-> Unset]
=============================================================================
