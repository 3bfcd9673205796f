----------------------------- MODULE MCAdcCommand -----------------------------
EXTENDS AdcCommand

S(period, range, sync, coeff) ==
  [period |-> period, range |-> range, sync |-> sync, coeff |-> coeff]

(* Both ends of the range of frequencies, both sides of every step of the   *)
(* rounding; and both ranges with coefficients on both sides of the         *)
(* overflow.                                                                *)
MCSettings ==
  {S(p, 500, FALSE, 0) : p \in {332, 350, 383, 384, 418, 449, 450, 482, 2082, 2083}}
  \cup {S(333, 500, FALSE, c) : c \in {-99, 100}}
  \cup {S(333, 750, FALSE, c) : c \in {-33, 100}}
  \cup {S(500, 750, TRUE, 0)}

(* The least sample, and an overflow on either side.                        *)
MCRaw == {0, 4096, 8191}
===============================================================================
