--------------------------- MODULE AdcCommandProofs ---------------------------
(***************************************************************************)
(* Proofs about AdcCommand, for every setting that the parameters allow,   *)
(* both drivers, whatever other programs send and whatever is sampled: the *)
(* periods agree, the program is the daemon's, what was accepted stays so, *)
(* captures are seamless and samples fit.                                  *)
(***************************************************************************)
EXTENDS AdcCommand, TLAPS
-----------------------------------------------------------------------------
(* Time.                                                                    *)

(* A period that adc_set_chan_frequency has rounded (adc.c:164-173) is a    *)
(* whole number of ticks and comes back from ticks unchanged: it is a       *)
(* multiple of 100 ns and a third or two of the next.                       *)
LEMMA RoundingExact ==
  ASSUME NEW ns \in MinPeriod .. MaxPeriod
  PROVE  /\ Quantised(ns) \in Nat
         /\ NS_TO_TICKS(Quantised(ns)) \in 9 .. 63
         /\ TICKS_TO_NS(NS_TO_TICKS(Quantised(ns))) = Quantised(ns)
<1> DEFINE h == ns \div 100
           x == ns % 100
<1>1. h \in 3 .. 20 /\ x \in 0 .. 99 /\ ns = 100 * h + x
  BY DEF MinPeriod, MaxPeriod
<1>2. Quantised(ns) \in {100 * h, 100 * h + 33, 100 * h + 67, 100 * h + 100}
  BY <1>1 DEF Quantised
<1> HIDE DEF h, x
<1>3. ASSUME NEW k \in 3 .. 21, NEW r \in {0, 33, 67}
      PROVE  NS_TO_TICKS(100 * k + r) = 3 * k + (IF r = 0 THEN 0 ELSE IF r = 33 THEN 1 ELSE 2)
  BY DEF NS_TO_TICKS
<1>4. ASSUME NEW k \in 3 .. 21, NEW j \in 0 .. 2
      PROVE  TICKS_TO_NS(3 * k + j) = 100 * k + (IF j = 0 THEN 0 ELSE IF j = 1 THEN 33 ELSE 67)
  <2>1. (3 * k + j) \div 3 = k /\ (3 * k + j) % 3 = j
    OBVIOUS
  <2> QED
    BY <2>1 DEF TICKS_TO_NS
<1>5. Quantised(ns) \in 300 .. 2100
  BY <1>1, <1>2
<1>6. PICK k \in 3 .. 21, r \in {0, 33, 67} : Quantised(ns) = 100 * k + r /\ (k = 21 => r = 0)
  BY <1>1, <1>2
<1> QED
  <2>1. CASE r = 0
    BY <2>1, <1>3, <1>4, <1>5, <1>6
  <2>2. CASE r = 33
    BY <2>2, <1>3, <1>4, <1>5, <1>6
  <2>3. CASE r = 67
    BY <2>3, <1>3, <1>4, <1>5, <1>6
  <2> QED
    BY <2>1, <2>2, <2>3

(* A rounded period is in the range of frequencies again, and rounds to     *)
(* itself, also when the division comes out one below.                      *)
LEMMA RoundingStable ==
  ASSUME NEW ns \in MinPeriod .. MaxPeriod
  PROVE  /\ ns # 383 => ValidFrequency(Quantised(ns))
         /\ \A m \in Truncated(Quantised(ns)) : Quantised(m) = Quantised(ns)
<1> DEFINE h == ns \div 100
           x == ns % 100
<1>1. h \in 3 .. 20 /\ x \in 0 .. 99 /\ ns = 100 * h + x
  BY DEF MinPeriod, MaxPeriod
<1>2. Quantised(ns) = 100 * h + (IF x > 17 /\ x < 50 THEN 33
               ELSE IF x >= 50 /\ x < 83 THEN 67
               ELSE IF x >= 84 THEN 100 ELSE 0)
  BY <1>1 DEF Quantised
<1>3. ns # 383 => ValidFrequency(Quantised(ns))
  BY <1>1, <1>2 DEF ValidFrequency, MinPeriod, MaxPeriod
<1>4. \E k \in 3 .. 21, r \in {0, 33, 67} : Quantised(ns) = 100 * k + r
  BY <1>1, <1>2
<1> HIDE DEF h, x
<1>5. ASSUME NEW k \in 3 .. 21, NEW r \in {0, 33, 67}
      PROVE  Quantised(100 * k + r) = 100 * k + r /\ Quantised(100 * k + r - 1) = 100 * k + r
  <2>1. (100 * k + r) % 100 = r
    OBVIOUS
  <2>2. (100 * k + r - 1) % 100 = IF r = 0 THEN 99 ELSE r - 1
    OBVIOUS
  <2> QED
    BY <2>1, <2>2 DEF Quantised
<1> QED
  BY <1>3, <1>4, <1>5 DEF Truncated

(* What the lemma below needs of the ticks, of the program and of its       *)
(* states.                                                                  *)
Feasible(n) == n \in 9 .. 63
Has(g, c, n, rng) == \A i \in 0 .. 4 : g[i] = SixteenChannels(c, n, rng)[i]
LengthsFit(g) == \A i \in 0 .. 4 : g[i].len \in 1 .. 255

(* The program of 16 channels loops from state 1 to state 4, which takes    *)
(* exactly the ticks of the period, and no state is too long for its byte   *)
(* (usbduxfast_4.6.5_john.c:800-876).                                       *)
LEMMA LoopLasts ==
  ASSUME NEW c, NEW rng, NEW n, Feasible(n), NEW g, Has(g, c, n, rng)
  PROVE  /\ LastState(g) = 4
         /\ LoopTicks(g) = n
         /\ LengthsFit(g)
<1> USE DEF Half, Rest, Feasible, Has
<1>1. /\ g[0] = Reset16(c, rng)
      /\ g[1] = Data(1, rng)
      /\ g[2] = Delay(Half(n - 2), rng)
      /\ g[3] = Delay(Rest(n - 2), rng)
      /\ g[4] = Decide({1}, {"CLK"} \cup rng)
  <2>1. \A i \in 0 .. 4 : SixteenChannels(c, n, rng)[i] =
          <<Reset16(c, rng), Data(1, rng), Delay(Half(n - 2), rng),
            Delay(Rest(n - 2), rng), Decide({1}, {"CLK"} \cup rng)>>[i + 1]
    BY DEF SixteenChannels, States
  <2> QED
    BY <2>1
<1>2. /\ g[0].len = 1 /\ g[1].len = 1 /\ g[2].len = (n - 2) \div 2
      /\ g[3].len = n - 2 - (n - 2) \div 2 /\ g[4].len = 1
  BY <1>1 DEF Reset16, Data, Delay, Decide
<1>3. /\ g[0].to \in {{0, 2}, {2}} /\ g[1].to = {} /\ g[2].to = {} /\ g[3].to = {}
      /\ g[4].to = {1}
  BY <1>1 DEF Reset16, Data, Delay, Decide
<1>4. \A i \in 0 .. 3 : ~BranchesBack(g, i)
  <2>1. ~BranchesBack(g, 0)
    BY <1>3 DEF BranchesBack
  <2>2. \A i \in 1 .. 3 : g[i].to = {}
    BY <1>3
  <2> QED
    BY <2>1, <2>2 DEF BranchesBack
<1>5. BranchesBack(g, 4)
  BY <1>3 DEF BranchesBack
<1>6. LastState(g) = 4
  <2> DEFINE P(i) == i \in 0 .. 6 /\ BranchesBack(g, i) /\ \A j \in 0 .. i - 1 : ~BranchesBack(g, j)
  <2>1. P(4)
    BY <1>4, <1>5
  <2>2. \A i \in 0 .. 6 : P(i) => i = 4
    <3> SUFFICES ASSUME NEW i \in 0 .. 6, P(i), i # 4 PROVE FALSE
      OBVIOUS
    <3>1. CASE i < 4
      BY <3>1, <1>4
    <3>2. CASE i > 4
      BY <3>2, <1>5
    <3> QED
      BY <3>1, <3>2
  <2>3. (CHOOSE i \in 0 .. 6 : BranchesBack(g, i)
             /\ \A j \in 0 .. i - 1 : ~BranchesBack(g, j)) = 4
    BY <2>1, <2>2
  <2> QED
    BY <2>1, <2>3 DEF LastState
<1>7. /\ Ticks(g, 0) = 0 /\ Ticks(g, 1) = 1 /\ Ticks(g, 2) = (n - 2) \div 2
      /\ Ticks(g, 3) = n - 2 - (n - 2) \div 2 /\ Ticks(g, 4) = 1
      /\ Ticks(g, 5) = 0 /\ Ticks(g, 6) = 0
  BY <1>2, <1>3, <1>6 DEF Ticks, InLoop
<1>8. (n - 2) \div 2 \in 3 .. 30 /\ n - 2 - (n - 2) \div 2 \in 3 .. 31
  OBVIOUS
<1>9. LoopTicks(g) = n
  BY <1>7, <1>8 DEF LoopTicks
<1>10. LengthsFit(g)
  BY <1>2, <1>8 DEF LengthsFit
<1> QED
  BY <1>6, <1>9, <1>10

(* A command with a rounded period and 16 equal channels passes the         *)
(* driver's test unaltered, and is compiled into the program of 16          *)
(* channels.                                                                *)
LEMMA CommandPasses ==
  ASSUME NEW p \in {"3.18", "4.6"}, NEW a, NEW ns \in MinPeriod .. MaxPeriod,
         a.a_intersample_ns = Quantised(ns)
  PROVE  /\ CmdTest(p, GenericCommand(a)) = [cmd |-> GenericCommand(a), err |-> 0]
         /\ CmdOk(p, GenericCommand(a))
         /\ Program(p, GenericCommand(a))
              = SixteenChannels(GenericCommand(a), NS_TO_TICKS(Quantised(ns)),
                                IF p = "3.18" THEN Rng(GenericCommand(a), 1) ELSE {})
<1> DEFINE c == GenericCommand(a)
           n == NS_TO_TICKS(Quantised(ns))
<1>1. /\ c = [start_src |-> IF a.a_ext_trigger THEN "EXT" ELSE "NOW", start_arg |-> 0,
              convert_arg |-> Quantised(ns), stop_src |-> "NONE", stop_arg |-> 0,
              chanlist |-> [i \in 1 .. 16 |-> a.a_range]]
      /\ n \in 9 .. 63 /\ TICKS_TO_NS(n) = Quantised(ns)
  BY RoundingExact DEF GenericCommand, N_USBDUX_CHANS
<1>2. /\ Len(c.chanlist) = 16 /\ c.chanlist # <<>>
      /\ \A i \in DOMAIN c.chanlist : c.chanlist[i] = c.chanlist[1]
      /\ DOMAIN c.chanlist = 1 .. 16
  <2>1. c.chanlist = [i \in 1 .. 16 |-> a.a_range]
    BY <1>1
  <2>2. [i \in 1 .. 16 |-> a.a_range] \in Seq({a.a_range})
    OBVIOUS
  <2>3. Len([i \in 1 .. 16 |-> a.a_range]) = 16
    BY <2>2
  <2> HIDE DEF c
  <2> QED
    BY <2>1, <2>3
<1>3. /\ c.convert_arg = Quantised(ns) /\ c.start_arg = 0 /\ c.stop_arg = 0
      /\ c.stop_src = "NONE"
  BY <1>1
<1>n. n \in 9 .. 63 /\ NS_TO_TICKS(c.convert_arg) = n /\ TICKS_TO_NS(n) = c.convert_arg
  BY <1>1, <1>3
<1>4. Steps(p, c) = n
  <2>1. LeastSteps(p, c) \in {8, 9}
    BY <1>2 DEF LeastSteps, MIN_SAMPLING_PERIOD
  <2> HIDE DEF n, c
  <2>2. AtLeast(n, LeastSteps(p, c)) = n
    BY <1>n, <2>1 DEF AtLeast
  <2>3. AtMost(n, 500) = n
    BY <1>n DEF AtMost
  <2> QED
    BY <1>n, <2>2, <2>3 DEF Steps, MAX_SAMPLING_PERIOD
<1>5. Adjusted(p, c) = c
  <2>1. Adjusted(p, c) = [c EXCEPT !.convert_arg = c.convert_arg, !.start_arg = 0, !.stop_arg = 0]
    BY <1>n, <1>3, <1>4, Zenon DEF Adjusted
  <2> QED
    BY <2>1, <1>1, <1>3
<1>6. ChanlistOk(c) /\ TriggerOk(c)
  BY <1>2 DEF ChanlistOk, TriggerOk
<1>7. CmdTest(p, c) = [cmd |-> c, err |-> 0]
  BY <1>2, <1>5, <1>6 DEF CmdTest, CmdTest318, CmdTest46
<1>8. CmdOk(p, c)
  <2> HIDE DEF c, n
  <2>1. n <= 500 /\ n >= 8
    BY <1>n
  <2> QED
    BY <2>1, <1>2, <1>n, <1>6 DEF CmdOk, CmdOk318, MIN_SAMPLING_PERIOD, MAX_SAMPLING_PERIOD
<1>9. Program(p, c) = SixteenChannels(c, n, IF p = "3.18" THEN Rng(c, 1) ELSE {})
  <2>1. Program(p, c) = IF p = "3.18" THEN Sixteen318(c, n) ELSE Sixteen46(c, n)
    BY <1>2, <1>3 DEF Program, Program318, Program46, n
  <2> QED
    BY <2>1 DEF Sixteen318, Sixteen46
<1> QED
  BY <1>7, <1>8, <1>9 DEF n
-----------------------------------------------------------------------------
(* The steps.                                                               *)

(* The states that the program of 16 channels writes: all that the chip     *)
(* will reach.                                                              *)
LEMMA SixteenIsWhole ==
  ASSUME NEW c, NEW n, NEW rng
  PROVE  DOMAIN SixteenChannels(c, n, rng) = 0 .. 4
BY DEF SixteenChannels, States

(* A command that is compiled is the author of what it writes.              *)
LEMMA CompiledCounts ==
  ASSUME TypeOK, Counted, NEW g, Compiled(g)
  PROVE  Counted' /\ sent' \in 0 .. MaxCommands /\ sent' = sent + 1
<1>1. sent \in Nat /\ sent' = sent + 1 /\ sent' \in 0 .. MaxCommands
  BY PeriodAssumption DEF TypeOK, Compiled
<1>2. author' \in [0 .. 6 -> 0 .. sent']
  BY <1>1 DEF Compiled, Counted
<1>3. gpif.by \in [0 .. 6 -> 0 .. sent']
  BY <1>1 DEF Counted
<1>4. gpif'.by \in {gpif.by, author'}
  BY DEF Compiled
<1> QED
  BY <1>1, <1>2, <1>3, <1>4 DEF Counted

(* What Param may be given.                                                 *)
LEMMA RoundedIsNat ==
  ASSUME NEW p \in Settings
  PROVE  Quantised(p.period) \in Nat /\ p.period \in MinPeriod .. MaxPeriod
<1> DEFINE ns == p.period
<1>1. ns \in MinPeriod .. MaxPeriod
  BY PeriodAssumption
<1> HIDE DEF ns
<1>2. Quantised(ns) \in Nat
  BY <1>1, RoundingExact
<1> QED
  BY <1>1, <1>2 DEF ns

(* main fills the ADC object from the parameters before any command.        *)
LEMMA InitHolds == Init => IInv
<1> SUFFICES ASSUME Init PROVE IInv
  OBVIOUS
<1>1. PICK p \in Settings :
        /\ r_settings = p /\ r_frequency = Quantised(p.period) /\ adc = Verified(p.period, p)
  BY DEF Init
<1>2. Quantised(p.period) \in Nat
  BY RoundedIsNat
<1>3. adc.a_intersample_ns \in Nat
  BY <1>1, <1>2, Zenon DEF Verified, NoAdc
<1>4. a_command.convert_arg \in Nat
  BY DEF Init, NoCommand, GenericCommand, NoAdc
<1>5. TypeOK
  BY <1>1, <1>2, <1>3, <1>4, PeriodAssumption DEF Init, TypeOK
<1>6. Counted
  BY DEF Init, Counted, NoOne
<1> QED
  BY <1>1, <1>5, <1>6 DEF Init, IInv, WrittenBack, Prepared, Loaded, Sampled, Seamless

(* A Param replaces the object and the frequency together.                  *)
LEMMA ParamKeeps ==
  ASSUME IInv, NEW p \in Settings, Param(p)
  PROVE  IInv'
<1>1. Quantised(p.period) \in Nat
  BY RoundedIsNat
<1>2. adc'.a_intersample_ns \in Nat
  BY <1>1 DEF Param, Verified, NoAdc
<1>3. a_command'.convert_arg \in Nat
  BY DEF Param, NoCommand, GenericCommand, NoAdc
<1>4. TypeOK'
  BY <1>1, <1>2, <1>3, PeriodAssumption DEF IInv, TypeOK, Param, programVars, NoData
<1>5. Counted'
  BY DEF IInv, Counted, Param, programVars
<1> QED
  BY <1>4, <1>5 DEF Param, NoData, IInv, WrittenBack, Prepared, Loaded, Sampled, Seamless

(* A Param that fails leaves an object that is not open, so that Go will    *)
(* refuse it, whatever the state is.                                        *)
LEMMA ParamFailsKeeps ==
  ASSUME IInv, NEW p \in Settings, ParamFails(p)
  PROVE  IInv'
<1>1. Quantised(p.period) \in Nat
  BY RoundedIsNat
<1>2. adc'.a_intersample_ns \in Nat /\ ~adc'.open
  BY <1>1 DEF ParamFails, NoAdc
<1>3. a_command'.convert_arg \in Nat
  BY DEF ParamFails, NoCommand, GenericCommand, NoAdc
<1>4. TypeOK'
  BY <1>1, <1>2, <1>3 DEF IInv, TypeOK, ParamFails, programVars, NoData
<1>5. Counted'
  BY DEF IInv, Counted, ParamFails, programVars
<1>6. rp_state' # "RUN"
  BY DEF ParamFails
<1>7. Prepared'
  BY <1>2, <1>6 DEF Prepared
<1> QED
  BY <1>4, <1>5, <1>6, <1>7
     DEF ParamFails, NoData, IInv, WrittenBack, Loaded, Sampled, Seamless

(* Init computes the object anew from the frequency that was written back,  *)
(* and the driver's tests change nothing of it.                             *)
LEMMA AdcInitKeeps ==
  ASSUME IInv, AdcInit
  PROVE  IInv'
<1>0. /\ rp_state = "PARAM" /\ port' = port /\ r_settings' = r_settings /\ sent' = sent
      /\ ring' = <<>> /\ frame' = <<>>
  BY DEF AdcInit, NoData, programVars
<1>1. CASE rp_state' = "ERROR"
  <2>1. adc' = NoAdc /\ a_command' = NoCommand /\ r_frequency' = r_frequency
    BY <1>1 DEF AdcInit
  <2>2. adc'.a_intersample_ns \in Nat /\ a_command'.convert_arg \in Nat
    BY <2>1 DEF NoAdc, NoCommand, GenericCommand
  <2>3. TypeOK'
    BY <1>1, <2>1, <2>2 DEF IInv, TypeOK, AdcInit, NoData, programVars
  <2>4. Counted'
    BY DEF IInv, Counted, AdcInit, programVars
  <2> QED
    BY <1>1, <2>3, <2>4
       DEF AdcInit, NoData, IInv, WrittenBack, Prepared, Loaded, Sampled, Seamless
<1>2. CASE rp_state' = "RESTING"
  <2> DEFINE s == r_settings
  <2>1. /\ s \in Settings /\ port \in {"3.18", "4.6"} /\ r_frequency = Quantised(s.period)
        /\ ValidFrequency(r_frequency)
    <3>1. r_settings \in Settings /\ port \in {"3.18", "4.6"}
      BY PeriodAssumption DEF IInv, TypeOK
    <3>2. r_frequency = Quantised(s.period)
      BY <1>0, Zenon DEF IInv, WrittenBack
    <3>3. ValidFrequency(r_frequency)
      BY <1>2, Zenon DEF AdcInit
    <3> QED
      BY <3>1, <3>2, <3>3, Zenon
  <2>2. PICK ns \in Truncated(r_frequency) :
          LET a == Verified(ns, s)
              cmd == TestedTwice(a)
          IN /\ r_frequency' = a.a_intersample_ns
             /\ a_command' = cmd
             /\ adc' = [a EXCEPT !.a_intersample_ns = cmd.convert_arg, !.open = TRUE]
             /\ LutSet(a.a_ssc_coeff)
    BY <1>2 DEF AdcInit
  <2>3. s.period \in MinPeriod .. MaxPeriod
    BY <2>1, RoundedIsNat
  <2>4. Quantised(ns) = Quantised(s.period)
    BY <2>1, <2>2, <2>3, RoundingStable
  <2> DEFINE a == Verified(ns, s)
  <2>5. /\ a.a_intersample_ns = Quantised(s.period) /\ a.a_ssc_coeff = s.coeff
    BY <2>4 DEF Verified, NoAdc
  <2>6. TestedTwice(a) = GenericCommand(a)
    <3>1. CmdTest(port, GenericCommand(a)) = [cmd |-> GenericCommand(a), err |-> 0]
      BY <2>1, <2>3, <2>5, CommandPasses
    <3> HIDE DEF a
    <3> QED
      BY <3>1 DEF TestedTwice
  <2>7. GenericCommand(a).convert_arg = Quantised(s.period)
    BY <2>5 DEF GenericCommand
  <2>8. adc' = [Verified(s.period, s) EXCEPT !.a_intersample_ns = r_frequency', !.open = TRUE]
    <3>1. adc' = [a EXCEPT !.a_intersample_ns = r_frequency', !.open = TRUE]
      BY <2>2, <2>5, <2>6, <2>7, Zenon
    <3>2. a = Verified(s.period, s)
      BY <2>4, Zenon DEF Verified
    <3> QED
      BY <3>1, <3>2, Zenon
  <2>9. a_command' = GenericCommand(adc')
    <3>1. a_command' = GenericCommand(a)
      BY <2>2, <2>6, Zenon
    <3>2. /\ adc'.a_ext_trigger = a.a_ext_trigger
          /\ adc'.a_intersample_ns = a.a_intersample_ns
          /\ adc'.a_range = a.a_range
      <4>1. adc' = [a EXCEPT !.a_intersample_ns = a.a_intersample_ns, !.open = TRUE]
        BY <2>2, <2>5, <2>6, <2>7, Zenon
      <4> QED
        BY <4>1 DEF Verified, NoAdc
    <3> QED
      BY <3>1, <3>2, Zenon DEF GenericCommand
  <2>10. r_frequency' = Quantised(s.period) /\ Quantised(s.period) \in Nat
    BY <2>1, <2>2, <2>5, RoundedIsNat
  <2>11. lut' = s.coeff /\ r_settings' = s
    BY <2>2, <2>5 DEF LutSet, AdcInit
  <2>12. Prepared'
    BY <2>3, <2>8, <2>9, <2>10, <2>11, Zenon DEF Prepared
  <2>13. adc'.a_intersample_ns \in Nat /\ a_command'.convert_arg \in Nat
    <3>1. adc'.a_intersample_ns = r_frequency'
      BY <2>8 DEF Verified, NoAdc
    <3>2. a_command'.convert_arg = adc'.a_intersample_ns
      BY <2>9 DEF GenericCommand
    <3> QED
      BY <3>1, <3>2, <2>10
  <2>14. TypeOK'
    <3>1. r_frequency' \in Nat /\ r_settings' \in Settings /\ port' \in Ports
      BY <1>0, <2>10 DEF IInv, TypeOK
    <3>2. sent' \in 0 .. MaxCommands /\ ring' \in Seq(Raw) /\ Len(frame') <= Len(ring')
      BY <1>0 DEF IInv, TypeOK
    <3> QED
      BY <1>2, <2>13, <3>1, <3>2 DEF TypeOK
  <2>15. Counted'
    BY DEF IInv, Counted, AdcInit, programVars
  <2> QED
    BY <1>2, <2>12, <2>14, <2>15 DEF AdcInit, NoData, IInv, WrittenBack, Loaded, Sampled, Seamless
<1> QED
  BY <1>1, <1>2 DEF AdcInit

(* The drivers there are, and a number of commands.                         *)
LEMMA PortAndCount ==
  ASSUME IInv
  PROVE  port \in {"3.18", "4.6"} /\ sent \in Nat
<1>1. port \in Ports /\ sent \in 0 .. MaxCommands
  BY DEF IInv, TypeOK
<1> QED
  BY <1>1, PeriodAssumption

(* A Go that ends in RUN has compiled the daemon's program and sent it: the *)
(* chip's program was written by no earlier command.                        *)
LEMMA GoKeeps ==
  ASSUME IInv, Go
  PROVE  IInv'
<1>0. /\ rp_state = "RESTING" /\ rp_state' \in {"RUN", "ERROR"}
      /\ port' = port /\ r_settings' = r_settings /\ r_frequency' = r_frequency
      /\ adc' = adc /\ a_command' = a_command /\ lut' = lut
      /\ ring' = <<>> /\ frame' = <<>>
  BY DEF Go, paramVars, adcVars, dataVars, IInv, Sampled
<1>1. Counted' /\ sent' \in 0 .. MaxCommands
  <2>1. CASE Compiled(Program(port, a_command))
    BY <2>1, CompiledCounts DEF IInv
  <2>2. CASE UNCHANGED programVars
    BY <2>2 DEF IInv, TypeOK, Counted, programVars
  <2> QED
    BY <2>1, <2>2 DEF Go
<1>2. TypeOK'
  <2>1. r_settings' \in Settings /\ r_frequency' \in Nat /\ port' \in Ports
    BY <1>0 DEF IInv, TypeOK
  <2>2. adc'.a_intersample_ns \in Nat /\ a_command'.convert_arg \in Nat
    BY <1>0, Zenon DEF IInv, TypeOK
  <2>3. ring' \in Seq(Raw) /\ Len(frame') <= Len(ring')
    BY <1>0
  <2> QED
    BY <1>0, <1>1, <2>1, <2>2, <2>3 DEF TypeOK
<1>3. CASE rp_state' = "ERROR"
  BY <1>0, <1>1, <1>2, <1>3 DEF IInv, WrittenBack, Prepared, Loaded, Sampled, Seamless
<1>4. CASE rp_state' = "RUN"
  <2>1. /\ adc.open /\ Compiled(Program(port, a_command)) /\ gpif'.by = author'
    BY <1>4, Zenon DEF Go
  <2>2. Prepared
    BY DEF IInv
  <2>3. Prepared'
    BY <1>0, <2>1, <2>2, Zenon DEF Prepared
  <2>4. PICK c, n, rng : Program(port, a_command) = SixteenChannels(c, n, rng)
    <3>1. PICK ns \in MinPeriod .. MaxPeriod : r_frequency = Quantised(ns)
      BY <1>0, <2>1, <2>2, Zenon DEF Prepared
    <3>2. a_command = GenericCommand(adc) /\ adc.a_intersample_ns = Quantised(ns)
      <4>1. /\ a_command = GenericCommand(adc)
            /\ adc = [Verified(r_settings.period, r_settings)
                        EXCEPT !.a_intersample_ns = r_frequency, !.open = TRUE]
        BY <1>0, <2>1, <2>2, Zenon DEF Prepared
      <4> QED
        BY <3>1, <4>1 DEF Verified, NoAdc
    <3>3. port \in {"3.18", "4.6"}
      BY PortAndCount
    <3> QED
      BY <3>2, <3>3, CommandPasses
  <2> DEFINE g == Program(port, a_command)
  <2>5. DOMAIN g = 0 .. 4
    BY <2>4, SixteenIsWhole
  <2> HIDE DEF g
  <2>6. /\ duxbuf' = [i \in 0 .. 6 |-> IF i \in DOMAIN g THEN g[i] ELSE duxbuf[i]]
        /\ author' = [i \in 0 .. 6 |-> IF i \in DOMAIN g THEN sent' ELSE author[i]]
        /\ gpif' \in {gpif, [program |-> duxbuf', by |-> author']}
        /\ sent' = sent + 1
    BY <2>1 DEF Compiled, g
  <2>7. \A i \in 0 .. 4 : duxbuf'[i] = g[i] /\ author'[i] = sent'
    BY <2>5, <2>6
  <2>8. gpif.by # author'
    <3>1. gpif.by[0] \in 0 .. sent /\ sent \in Nat
      BY PortAndCount DEF IInv, Counted
    <3>2. author'[0] = sent + 1
      BY <2>6, <2>7
    <3> QED
      BY <3>1, <3>2
  <2>9. gpif' = [program |-> duxbuf', by |-> author']
    BY <2>1, <2>6, <2>8
  <2>10. Loaded'
    BY <1>0, <2>7, <2>9 DEF Loaded, g
  <2> QED
    BY <1>0, <1>1, <1>2, <1>4, <2>3, <2>10 DEF IInv, WrittenBack, Sampled, Seamless
<1> QED
  BY <1>0, <1>3, <1>4

(* A Halt leaves neither object nor data.                                   *)
LEMMA HaltKeeps ==
  ASSUME IInv, Halt
  PROVE  IInv'
<1>0. /\ rp_state' = "ERROR" /\ port' = port /\ r_settings' = r_settings
      /\ r_frequency' = r_frequency /\ sent' = sent
      /\ adc' = NoAdc /\ a_command' = NoCommand
      /\ ring' = <<>> /\ frame' = <<>>
  BY DEF Halt, NoData, paramVars, programVars
<1>1. adc'.a_intersample_ns \in Nat /\ a_command'.convert_arg \in Nat
  BY <1>0 DEF NoAdc, NoCommand, GenericCommand
<1>2. TypeOK'
  <2>1. r_settings' \in Settings /\ r_frequency' \in Nat /\ port' \in Ports
        /\ sent' \in 0 .. MaxCommands
    BY <1>0 DEF IInv, TypeOK
  <2> QED
    BY <1>0, <1>1, <2>1 DEF TypeOK
<1>3. Counted'
  BY DEF Halt, programVars, IInv, Counted
<1> QED
  BY <1>0, <1>2, <1>3 DEF IInv, WrittenBack, Prepared, Loaded, Sampled, Seamless

(* Other programs use the driver only while the daemon does not sample.     *)
LEMMA OthersKeep ==
  ASSUME IInv, rp_state # "RUN", Counted', sent' \in 0 .. MaxCommands,
         UNCHANGED <<port, rp_state, paramVars, adcVars, dataVars>>
  PROVE  IInv'
<1>0. /\ port' = port /\ rp_state' = rp_state /\ r_settings' = r_settings
      /\ r_frequency' = r_frequency /\ adc' = adc /\ a_command' = a_command
      /\ lut' = lut /\ ring' = ring /\ frame' = frame
  BY DEF paramVars, adcVars, dataVars
<1>2. TypeOK'
  BY <1>0, Zenon DEF IInv, TypeOK
<1>3. Prepared'
  BY <1>0, Zenon DEF IInv, Prepared
<1>4. WrittenBack'
  BY <1>0, Zenon DEF IInv, WrittenBack
<1>5. Sampled'
  BY <1>0, Zenon DEF IInv, Sampled
<1> QED
  BY <1>0, <1>2, <1>3, <1>4, <1>5 DEF IInv, Loaded, Seamless
-----------------------------------------------------------------------------
(* Conversion, and the data.                                                *)

(* The wide range adds half (lut.c:41).                                     *)
LEMMA WidePeak ==
  ASSUME NEW q \in Nat, q <= 4095
  PROVE  Pk(750, q) = 12 * q - 24576
<1>1. RAW_500mV_TO_OUT_500mV(q) = 2 * (4 * q - 8192)
  BY DEF RAW_500mV_TO_OUT_500mV
<1>2. (2 * (4 * q - 8192)) \div 2 = 4 * q - 8192
  OBVIOUS
<1>3. Pk(750, q) = 2 * (4 * q - 8192) + (2 * (4 * q - 8192)) \div 2
  BY <1>1 DEF Pk, OUT_500mV_TO_OUT_750mV
<1> QED
  BY <1>2, <1>3

(* The table of the narrow range, with one more at either end for an        *)
(* overflow (lut.c:43-44).                                                  *)
LEMMA NarrowAmplitude ==
  ASSUME NEW q \in Nat, q <= 8191
  PROVE  /\ Amplitude(500, q) \in Int
         /\ -16385 <= Amplitude(500, q) /\ Amplitude(500, q) <= 16377
BY DEF Amplitude, OOR, Pk, RAW_500mV_TO_OUT_500mV

(* The table of the wide range (lut.c:45-46).                               *)
LEMMA WideAmplitude ==
  ASSUME NEW q \in Nat, q <= 8191
  PROVE  /\ Amplitude(750, q) \in Int
         /\ -24577 <= Amplitude(750, q) /\ Amplitude(750, q) <= 24565
<1>1. CASE q < 4096
  <2>1. q \in Nat /\ q <= 4095
    BY <1>1
  <2>2. Pk(750, q) = 12 * q - 24576
    BY <2>1, WidePeak
  <2> QED
    BY <1>1, <2>2 DEF Amplitude, OOR
<1>2. CASE q >= 4096
  <2>1. Pk(750, 0) = -24576 /\ Pk(750, 4095) = 24564
    BY WidePeak
  <2> QED
    BY <1>2, <2>1 DEF Amplitude, OOR
<1> QED
  BY <1>1, <1>2

(* What the settings and the raw samples may be.                            *)
LEMMA SettingsOf ==
  ASSUME NEW s \in Settings
  PROVE  s.range \in {500, 750} /\ s.coeff \in -100 .. 100
BY PeriodAssumption

(* Raw samples, and the one taken before the first, have 13 bits.           *)
LEMMA RawBounds == \A q \in Raw \cup {0} : q \in Nat /\ q <= 8191
<1>1. Raw \subseteq 0 .. 8191
  BY PeriodAssumption
<1>2. \A q \in 0 .. 8191 : q \in Nat /\ q <= 8191
  OBVIOUS
<1> QED
  BY <1>1, <1>2

(* The correction of a sample is a whole number.                            *)
LEMMA PartIsInt ==
  ASSUME NEW coeff \in Int, NEW a \in Int
  PROVE  Towards0(coeff * a, 100) \in Int
<1>1. coeff * a \in Int
  OBVIOUS
<1>2. \A n \in Int : Towards0(n, 100) \in Int
  BY DEF Towards0
<1> QED
  BY <1>1, <1>2

(* So is a converted sample.                                                *)
LEMMA ConvertedIsInt ==
  ASSUME NEW s \in Settings, NEW raw \in Raw, NEW prev \in Raw \cup {0}
  PROVE  Converted(s.range, s.coeff, raw, prev) \in Int
<1>1. (s.range = 500 \/ s.range = 750) /\ s.coeff \in Int
  BY SettingsOf
<1>2. raw \in Nat /\ raw <= 8191 /\ prev \in Nat /\ prev <= 8191
  BY RawBounds
<1>3. Amplitude(s.range, raw) \in Int /\ Amplitude(s.range, prev) \in Int
  <2>1. /\ Amplitude(500, raw) \in Int /\ Amplitude(500, prev) \in Int
        /\ Amplitude(750, raw) \in Int /\ Amplitude(750, prev) \in Int
    BY <1>2, NarrowAmplitude, WideAmplitude
  <2> QED
    BY <1>1, <2>1
<1> DEFINE a == Amplitude(s.range, raw)
           b == Amplitude(s.range, prev)
<1>4. Correlated(s.range, s.coeff, prev) \in Int
  BY <1>1, <1>3, PartIsInt DEF Correlated
<1>5. a - Correlated(s.range, s.coeff, prev) \in Int
  <2> HIDE DEF a
  <2>1. a \in Int
    BY <1>3 DEF a
  <2> QED
    BY <2>1, <1>4
<1>6. \A n \in Int : Short(n) \in Int
  BY DEF Short
<1> QED
  BY <1>5, <1>6, Zenon DEF Converted

(* A sample that arrives changes none of those before it.                   *)
LEMMA DeliverKeeps ==
  ASSUME IInv, NEW raw \in Raw, Deliver(raw)
  PROVE  IInv'
<1>0. /\ rp_state = "RUN" /\ port' = port /\ rp_state' = rp_state /\ r_settings' = r_settings
      /\ r_frequency' = r_frequency /\ adc' = adc /\ a_command' = a_command
      /\ lut' = lut /\ frame' = frame /\ ring' = Append(ring, raw)
      /\ author' = author /\ gpif' = gpif /\ sent' = sent
  BY DEF Deliver, paramVars, adcVars, programVars
<1>1. ring \in Seq(Raw) /\ frame \in Seq(Int) /\ Len(frame) <= Len(ring)
  BY DEF IInv, TypeOK, Sampled
<1>2. ring' \in Seq(Raw) /\ Len(frame') <= Len(ring')
  BY <1>0, <1>1
<1>3. TypeOK'
  BY <1>0, <1>2, Zenon DEF IInv, TypeOK
<1>4. Counted' /\ Prepared' /\ WrittenBack' /\ Loaded'
  BY <1>0, Zenon DEF IInv, Counted, Prepared, WrittenBack, Loaded
<1>5. Sampled'
  BY <1>0, <1>1, Zenon DEF Sampled
<1>6. Seamless'
  <2>1. \A i \in DOMAIN frame : ring'[i] = ring[i] /\ (i > 1 => ring'[i - 1] = ring[i - 1])
    BY <1>0, <1>1
  <2>2. Seamless
    BY DEF IInv
  <2> QED
    BY <1>0, <2>1, <2>2 DEF Seamless
<1> QED
  BY <1>3, <1>4, <1>5, <1>6 DEF IInv

(* Two sequences of samples, one after the other.                           *)
LEMMA ConcatParts ==
  ASSUME NEW s \in Seq(Int), NEW t \in Seq(Int)
  PROVE  /\ s \o t \in Seq(Int) /\ Len(s \o t) = Len(s) + Len(t)
         /\ \A i \in 1 .. Len(s) : (s \o t)[i] = s[i]
         /\ \A i \in Len(s) + 1 .. Len(s) + Len(t) : (s \o t)[i] = t[i - Len(s)]
<1>1. s \o t \in Seq(Int) /\ Len(s \o t) = Len(s) + Len(t)
  OBVIOUS
<1>2. \A i \in 1 .. Len(s) : (s \o t)[i] = s[i]
  OBVIOUS
<1>3. \A i \in Len(s) + 1 .. Len(s) + Len(t) : (s \o t)[i] = t[i - Len(s)]
  OBVIOUS
<1> QED
  BY <1>1, <1>2, <1>3

(* A chunk is converted as if it had not been cut off from the one before   *)
(* (chunk.c:251-262).                                                       *)
LEMMA CopyChunkKeeps ==
  ASSUME IInv, NEW n \in 1 .. MaxData, CopyChunk(n)
  PROVE  IInv'
<1>0. /\ rp_state = "RUN" /\ port' = port /\ rp_state' = rp_state /\ r_settings' = r_settings
      /\ r_frequency' = r_frequency /\ adc' = adc /\ a_command' = a_command
      /\ lut' = lut /\ ring' = ring
      /\ author' = author /\ gpif' = gpif /\ sent' = sent
  BY DEF CopyChunk, paramVars, adcVars, programVars
<1>1. ring \in Seq(Raw) /\ frame \in Seq(Int) /\ Len(frame) <= Len(ring)
  BY DEF IInv, TypeOK, Sampled
<1>2. /\ n \in Nat /\ Len(frame) + n <= Len(ring)
      /\ frame' = frame \o ConvertRaw(Len(frame), n)
  BY PeriodAssumption DEF CopyChunk
<1> DEFINE m == Len(frame)
           s == r_settings
           cv == ConvertRaw(m, n)
           good(i) == Converted(s.range, s.coeff, ring[i], IF i > 1 THEN ring[i - 1] ELSE 0)
<1>3. s \in Settings /\ adc.a_convert = s.range /\ lut = s.coeff
  <2>1. s \in Settings
    BY DEF IInv, TypeOK
  <2>2. /\ adc = [Verified(s.period, s) EXCEPT !.a_intersample_ns = r_frequency, !.open = TRUE]
        /\ lut = s.coeff
    BY <1>0, Zenon DEF IInv, Prepared
  <2> QED
    BY <2>1, <2>2 DEF Verified, NoAdc
<1>4. \A i \in 1 .. n : cv[i] = good(m + i)
  <2> SUFFICES ASSUME NEW i \in 1 .. n PROVE cv[i] = good(m + i)
    OBVIOUS
  <2>1. cv[i] = Converted(s.range, s.coeff, ring[m + i],
                  IF i > 1 THEN ring[m + i - 1] ELSE SampleBefore(m))
    BY <1>3 DEF ConvertRaw
  <2>2. (IF i > 1 THEN ring[m + i - 1] ELSE SampleBefore(m))
          = (IF m + i > 1 THEN ring[m + i - 1] ELSE 0)
    BY <1>1, <1>2 DEF SampleBefore
  <2> QED
    BY <2>1, <2>2
<1>5. \A i \in 1 .. Len(ring) : good(i) \in Int
  <2> SUFFICES ASSUME NEW i \in 1 .. Len(ring) PROVE good(i) \in Int
    OBVIOUS
  <2>1. ring[i] \in Raw /\ (IF i > 1 THEN ring[i - 1] ELSE 0) \in Raw \cup {0}
    BY <1>1
  <2> QED
    BY <2>1, <1>3, ConvertedIsInt, Zenon
<1>6. DOMAIN cv = 1 .. n
  BY DEF ConvertRaw
<1> HIDE DEF cv, s
<1>7. cv \in Seq(Int) /\ Len(cv) = n
  <2>1. \A i \in 1 .. n : cv[i] \in Int
    <3> SUFFICES ASSUME NEW i \in 1 .. n PROVE cv[i] \in Int
      OBVIOUS
    <3>1. m + i \in 1 .. Len(ring)
      BY <1>1, <1>2
    <3> QED
      BY <3>1, <1>4, <1>5
  <2>2. cv = [i \in 1 .. n |-> cv[i]]
    BY <1>6 DEF cv, ConvertRaw
  <2>3. cv \in [1 .. n -> Int]
    BY <2>1, <2>2, Zenon
  <2>4. \A f \in [1 .. n -> Int] : f \in Seq(Int) /\ Len(f) = n
    BY <1>2
  <2> QED
    BY <2>3, <2>4, Zenon
<1>8. frame' = frame \o cv
  BY <1>2 DEF cv
<1>9. /\ frame' \in Seq(Int) /\ Len(frame') = m + n
      /\ \A i \in 1 .. m : frame'[i] = frame[i]
      /\ \A i \in m + 1 .. m + n : frame'[i] = cv[i - m]
  BY <1>1, <1>7, <1>8, ConcatParts
<1>10. TypeOK'
  <2>1. ring' \in Seq(Raw) /\ Len(frame') <= Len(ring')
    BY <1>0, <1>1, <1>2, <1>9
  <2> QED
    BY <1>0, <2>1, Zenon DEF IInv, TypeOK
<1>11. Counted' /\ Prepared' /\ WrittenBack' /\ Loaded'
  BY <1>0, Zenon DEF IInv, Counted, Prepared, WrittenBack, Loaded
<1>12. Sampled'
  BY <1>0, <1>9, Zenon DEF Sampled
<1>13. \A i \in 1 .. m + n : frame'[i] = good(i)
  <2>1. \A i \in 1 .. m : frame[i] = good(i)
    BY <1>0, <1>1 DEF IInv, Seamless, s
  <2>2. \A i \in m + 1 .. m + n : i - m \in 1 .. n /\ m + (i - m) = i
    BY <1>1, <1>2
  <2>3. ASSUME NEW i \in m + 1 .. m + n PROVE frame'[i] = good(i)
    <3> HIDE DEF good
    <3> QED
      BY <2>2, <1>4, <1>9
  <2>4. \A i \in 1 .. m + n : i \in 1 .. m \/ i \in m + 1 .. m + n
    BY <1>1, <1>2
  <2> HIDE DEF good
  <2> QED
    BY <2>1, <2>3, <2>4, <1>9
<1>14. Seamless'
  <2>1. DOMAIN frame' = 1 .. m + n
    BY <1>9
  <2> QED
    BY <1>0, <1>13, <2>1, Zenon DEF Seamless, s
<1> QED
  BY <1>10, <1>11, <1>12, <1>14 DEF IInv

(* Every step keeps the invariant.                                          *)
LEMMA NextKeeps == IInv /\ [Next]_vars => IInv'
<1> SUFFICES ASSUME IInv, [Next]_vars PROVE IInv'
  OBVIOUS
<1>1. CASE UNCHANGED vars
  <2>1. /\ port' = port /\ rp_state' = rp_state /\ r_settings' = r_settings
        /\ r_frequency' = r_frequency /\ adc' = adc /\ a_command' = a_command
        /\ lut' = lut /\ author' = author /\ gpif' = gpif /\ sent' = sent
        /\ ring' = ring /\ frame' = frame
    BY <1>1 DEF vars, paramVars, adcVars, programVars, dataVars
  <2> QED
    BY <2>1, Zenon DEF IInv, TypeOK, Counted, WrittenBack, Prepared, Loaded, Sampled, Seamless
<1>2. CASE \E p \in Settings : Param(p) \/ ParamFails(p)
  BY <1>2, ParamKeeps, ParamFailsKeeps, Zenon
<1>3. CASE AdcInit \/ Go \/ Halt
  BY <1>3, AdcInitKeeps, GoKeeps, HaltKeeps, Zenon
<1>4. ASSUME NEW c \in OtherCommands, OtherCommand(c) PROVE IInv'
  <2> DEFINE g == Program(port, CmdTest(port, c).cmd)
  <2>1. /\ rp_state # "RUN" /\ Compiled(g)
        /\ UNCHANGED <<port, rp_state, paramVars, adcVars, dataVars>>
    BY <1>4, Zenon DEF OtherCommand
  <2> HIDE DEF g
  <2>2. Counted' /\ sent' \in 0 .. MaxCommands
    BY <2>1, CompiledCounts DEF IInv
  <2> QED
    BY <2>1, <2>2, OthersKeep, Zenon
<1>5. ASSUME NEW rng, InsnRead(rng) PROVE IInv'
  <2> DEFINE g == InsnProgram(rng)
  <2>1. /\ rp_state # "RUN" /\ Compiled(g)
        /\ UNCHANGED <<port, rp_state, paramVars, adcVars, dataVars>>
    BY <1>5, Zenon DEF InsnRead
  <2> HIDE DEF g
  <2>2. Counted' /\ sent' \in 0 .. MaxCommands
    BY <2>1, CompiledCounts DEF IInv
  <2> QED
    BY <2>1, <2>2, OthersKeep, Zenon
<1>8. ASSUME NEW rng, InsnReadOver(rng) PROVE IInv'
  <2>1. /\ rp_state # "RUN" /\ sent < MaxCommands /\ sent' = sent + 1
        /\ author' = [i \in 0 .. 6 |-> sent'] /\ gpif'.by = author'
        /\ UNCHANGED <<port, rp_state, paramVars, adcVars, dataVars>>
    BY <1>8 DEF InsnReadOver
  <2>2. sent' \in 0 .. MaxCommands /\ sent' \in 0 .. sent'
    <3>1. sent \in 0 .. MaxCommands /\ MaxCommands \in Nat
      BY PeriodAssumption DEF IInv, TypeOK
    <3>2. sent < MaxCommands /\ sent' = sent + 1
      BY <2>1
    <3> QED
      BY <3>1, <3>2
  <2>3. author' \in [0 .. 6 -> 0 .. sent']
    BY <2>1, <2>2
  <2>4. Counted'
    BY <2>1, <2>3, Zenon DEF Counted
  <2> QED
    BY <2>1, <2>2, <2>4, OthersKeep, Zenon
<1>6. CASE \E raw \in Raw : Deliver(raw)
  BY <1>6, DeliverKeeps, Zenon
<1>7. CASE \E n \in 1 .. MaxData : CopyChunk(n)
  BY <1>7, CopyChunkKeeps, Zenon
<1> QED
  BY <1>1, <1>2, <1>3, <1>4, <1>5, <1>6, <1>7, <1>8, Zenon DEF Next
-----------------------------------------------------------------------------
(* The results.                                                             *)

(* The invariant of the READER's parameters, the prepared command, the      *)
(* chip's program and the converted samples holds throughout.               *)
THEOREM Invariance == Spec => []IInv
  BY InitHolds, NextKeeps, PTL DEF Spec

(* Every variable keeps its type.                                           *)
THEOREM TypeCorrect == Spec => []TypeOK
<1>1. IInv => TypeOK
  BY DEF IInv
<1> QED
  BY <1>1, Invariance, PTL

(* While the daemon samples the chip runs the program of 16 channels for a  *)
(* period that was accepted.                                                *)
LEMMA RunsSixteen ==
  ASSUME IInv, rp_state = "RUN"
  PROVE  /\ LastState(gpif.program) = 4
         /\ \E ns \in MinPeriod .. MaxPeriod :
              /\ adc.a_intersample_ns = Quantised(ns)
              /\ LoopTicks(gpif.program) = NS_TO_TICKS(Quantised(ns))
         /\ \A i \in 0 .. 4 : gpif.program[i].len \in 1 .. 255
<1> DEFINE g == gpif.program
<1>1. PICK ns \in MinPeriod .. MaxPeriod : r_frequency = Quantised(ns)
  BY Zenon DEF IInv, Prepared
<1>2. a_command = GenericCommand(adc) /\ adc.a_intersample_ns = Quantised(ns)
  <2>1. /\ a_command = GenericCommand(adc)
        /\ adc = [Verified(r_settings.period, r_settings)
                    EXCEPT !.a_intersample_ns = r_frequency, !.open = TRUE]
    BY Zenon DEF IInv, Prepared
  <2> QED
    BY <1>1, <2>1 DEF Verified, NoAdc
<1> DEFINE n == NS_TO_TICKS(Quantised(ns))
<1>3. PICK rng : Program(port, a_command) = SixteenChannels(a_command, n, rng)
  BY <1>2, PortAndCount, CommandPasses
<1>4. Has(g, a_command, n, rng)
  BY <1>3 DEF IInv, Loaded, Has
<1>5. Feasible(n)
  BY RoundingExact DEF Feasible
<1> HIDE DEF g, n
<1>6. LastState(g) = 4 /\ LoopTicks(g) = n /\ LengthsFit(g)
  BY <1>4, <1>5, LoopLasts, Zenon
<1> QED
  BY <1>2, <1>6 DEF g, n, LengthsFit

(* For every frequency that is accepted and on both drivers the chip takes  *)
(* a sample exactly every a_intersample_ns (adc.c:164-173,                  *)
(* usbduxfast_4.6.5_john.c:800-876).                                        *)
THEOREM PeriodsAgree == Spec => []PeriodAgrees
<1>1. IInv => PeriodAgrees
  <2> SUFFICES ASSUME IInv, rp_state = "RUN"
               PROVE  /\ LoopTicks(gpif.program) = NS_TO_TICKS(adc.a_intersample_ns)
                      /\ adc.a_intersample_ns = TICKS_TO_NS(LoopTicks(gpif.program))
                      /\ \A i \in 0 .. LastState(gpif.program) : gpif.program[i].len \in 1 .. 255
    BY DEF PeriodAgrees
  <2>1. PICK ns \in MinPeriod .. MaxPeriod :
          /\ adc.a_intersample_ns = Quantised(ns)
          /\ LoopTicks(gpif.program) = NS_TO_TICKS(Quantised(ns))
    BY RunsSixteen
  <2>2. TICKS_TO_NS(NS_TO_TICKS(Quantised(ns))) = Quantised(ns)
    BY RoundingExact
  <2> QED
    BY <2>1, <2>2, RunsSixteen
<1> QED
  BY <1>1, Invariance, PTL

(* Whatever other programs sent before, the daemon's capture runs no state  *)
(* that they wrote.                                                         *)
THEOREM ProgramIsTheDaemons == Spec => []ProgramIsOwn
<1>1. IInv => ProgramIsOwn
  BY RunsSixteen DEF ProgramIsOwn, IInv, Loaded
<1> QED
  BY <1>1, Invariance, PTL

(* Whatever Param accepts, but 383 ns, Init accepts with the same result,   *)
(* and the driver neither alters nor refuses it (adc.c:158-175, 335-349).   *)
THEOREM AcceptanceIsStable == Spec => []AcceptedStaysAccepted
<1>1. IInv => AcceptedStaysAccepted
  <2> SUFFICES ASSUME IInv PROVE AcceptedStaysAccepted
    OBVIOUS
  <2>1. ASSUME rp_state = "PARAM", r_settings.period # 383
        PROVE  /\ ValidFrequency(r_frequency)
               /\ \A ns \in Truncated(r_frequency) : Quantised(ns) = r_frequency
    <3>1. r_frequency = Quantised(r_settings.period) /\ r_settings \in Settings
      BY <2>1, Zenon DEF IInv, WrittenBack, TypeOK
    <3>2. r_settings.period \in MinPeriod .. MaxPeriod
      BY <3>1, RoundedIsNat, Zenon
    <3> QED
      BY <2>1, <3>1, <3>2, RoundingStable, Zenon
  <2>2. ASSUME rp_state = "RESTING", adc.open
        PROVE  Accepted(a_command) /\ adc.a_intersample_ns = r_frequency
    <3>1. PICK ns \in MinPeriod .. MaxPeriod : r_frequency = Quantised(ns)
      BY <2>2, Zenon DEF IInv, Prepared
    <3>2. /\ a_command = GenericCommand(adc)
          /\ adc = [Verified(r_settings.period, r_settings)
                      EXCEPT !.a_intersample_ns = r_frequency, !.open = TRUE]
      BY <2>2, Zenon DEF IInv, Prepared
    <3>3. adc.a_intersample_ns = r_frequency
      BY <3>2 DEF Verified, NoAdc
    <3>4. CmdTest(port, a_command) = [cmd |-> a_command, err |-> 0] /\ CmdOk(port, a_command)
      BY <3>1, <3>2, <3>3, PortAndCount, CommandPasses
    <3> QED
      BY <3>3, <3>4 DEF Accepted
  <2> QED
    BY <2>1, <2>2, Zenon DEF AcceptedStaysAccepted
<1> QED
  BY <1>1, Invariance, PTL

(* However a capture is cut into chunks its samples are those of one pass.  *)
THEOREM CapturesAreSeamless == Spec => []Seamless
<1>1. IInv => Seamless
  BY DEF IInv
<1> QED
  BY <1>1, Invariance, PTL

(* A product grows with its factors.                                        *)
LEMMA ProductBound ==
  ASSUME NEW k \in Nat, NEW m \in Nat, k <= m, NEW b \in Int, NEW l \in Nat, b <= l
  PROVE  k * b <= m * l
<1>1. k * b <= k * l
  BY SMT
<1>2. k * l <= m * l
  BY SMT
<1>3. k * b \in Int /\ k * l \in Int /\ m * l \in Int
  OBVIOUS
<1> QED
  BY <1>1, <1>2, <1>3

(* A number of 16 bits is not changed by the conversion to them.            *)
LEMMA ShortFits ==
  ASSUME NEW n \in Int, -32768 <= n, n <= 32767
  PROVE  Short(n) = n
<1>1. (n + 32768) % 65536 = n + 32768
  OBVIOUS
<1> QED
  BY <1>1 DEF Short

(* The narrow range leaves room for every coefficient but -1.               *)
LEMMA NarrowFits ==
  ASSUME NEW coeff \in Int, -99 <= coeff, coeff <= 100,
         NEW raw \in Nat, raw <= 8191, NEW prev \in Nat, prev <= 8191
  PROVE  ~Wraps(500, coeff, raw, prev)
<1> DEFINE a == Amplitude(500, raw)
           b == Amplitude(500, prev)
           n == coeff * b
<1>1. /\ a \in Int /\ -16385 <= a /\ a <= 16377
      /\ b \in Int /\ -16385 <= b /\ b <= 16377
  BY NarrowAmplitude
<1> HIDE DEF a, b
<1>2. n \in Int /\ -1638500 <= n /\ n <= 1637700
  <2>1. CASE coeff >= 0
    <3>1. coeff * b <= 100 * 16377
      BY <1>1, <2>1, ProductBound
    <3>2. coeff * (-b) <= 100 * 16385
      BY <1>1, <2>1, ProductBound
    <3>3. coeff * (-b) = -(coeff * b) /\ coeff * b \in Int
      BY <1>1
    <3> QED
      BY <3>1, <3>2, <3>3
  <2>2. CASE coeff < 0
    <3> DEFINE k == -coeff
    <3>1. k \in Nat /\ k <= 99
      BY <2>2
    <3> HIDE DEF k
    <3>2. k * b <= 99 * 16377
      BY <1>1, <3>1, ProductBound
    <3>3. k * (-b) <= 99 * 16385
      BY <1>1, <3>1, ProductBound
    <3>4. k * b = -(coeff * b) /\ k * (-b) = coeff * b /\ coeff * b \in Int
      BY <1>1 DEF k
    <3> QED
      BY <3>2, <3>3, <3>4
  <2> QED
    BY <2>1, <2>2
<1> HIDE DEF n
<1>3. /\ Towards0(n, 100) \in Int
      /\ -16385 <= Towards0(n, 100) /\ Towards0(n, 100) <= 16377
  BY <1>2 DEF Towards0
<1>4. Short(a - Towards0(n, 100)) = a - Towards0(n, 100)
  BY <1>1, <1>3, ShortFits
<1> QED
  BY <1>4 DEF Wraps, Converted, Correlated, a, b, n

(* The wide range leaves room for a third.                                  *)
LEMMA WideFits ==
  ASSUME NEW coeff \in Int, -33 <= coeff, coeff <= 33,
         NEW raw \in Nat, raw <= 8191, NEW prev \in Nat, prev <= 8191
  PROVE  ~Wraps(750, coeff, raw, prev)
<1> DEFINE a == Amplitude(750, raw)
           b == Amplitude(750, prev)
           n == coeff * b
<1>1. /\ a \in Int /\ -24577 <= a /\ a <= 24565
      /\ b \in Int /\ -24577 <= b /\ b <= 24565
  BY WideAmplitude
<1> HIDE DEF a, b
<1>2. n \in Int /\ -811041 <= n /\ n <= 811041
  <2>1. CASE coeff >= 0
    <3>1. coeff * b <= 33 * 24577
      BY <1>1, <2>1, ProductBound
    <3>2. coeff * (-b) <= 33 * 24577
      BY <1>1, <2>1, ProductBound
    <3>3. coeff * (-b) = -(coeff * b) /\ coeff * b \in Int
      BY <1>1
    <3> QED
      BY <3>1, <3>2, <3>3
  <2>2. CASE coeff < 0
    <3> DEFINE k == -coeff
    <3>1. k \in Nat /\ k <= 33
      BY <2>2
    <3> HIDE DEF k
    <3>2. k * b <= 33 * 24577
      BY <1>1, <3>1, ProductBound
    <3>3. k * (-b) <= 33 * 24577
      BY <1>1, <3>1, ProductBound
    <3>4. k * b = -(coeff * b) /\ k * (-b) = coeff * b /\ coeff * b \in Int
      BY <1>1 DEF k
    <3> QED
      BY <3>2, <3>3, <3>4
  <2> QED
    BY <2>1, <2>2
<1> HIDE DEF n
<1>3. /\ Towards0(n, 100) \in Int
      /\ -8110 <= Towards0(n, 100) /\ Towards0(n, 100) <= 8110
  BY <1>2 DEF Towards0
<1>4. Short(a - Towards0(n, 100)) = a - Towards0(n, 100)
  BY <1>1, <1>3, ShortFits
<1> QED
  BY <1>4 DEF Wraps, Converted, Correlated, a, b, n

(* No sample wraps around in the narrow range, for any coefficient accepted *)
(* but -1, nor in the wide range with one of at most 33 % (lut.c:74-132).   *)
THEOREM SamplesFit == Spec => []OutputFits
<1>1. IInv => OutputFits
  <2> SUFFICES ASSUME IInv, rp_state = "RUN", NEW i \in DOMAIN frame,
                      IF adc.a_convert = 500 THEN lut >= -99 ELSE lut \in -33 .. 33
               PROVE  ~Wraps(adc.a_convert, lut, ring[i], IF i > 1 THEN ring[i - 1] ELSE 0)
    BY Zenon DEF OutputFits
  <2> DEFINE raw == ring[i]
             prev == IF i > 1 THEN ring[i - 1] ELSE 0
  <2>1. ring \in Seq(Raw) /\ frame \in Seq(Int) /\ Len(frame) <= Len(ring)
    BY DEF IInv, TypeOK, Sampled
  <2>2. ring[i] \in Raw /\ (i > 1 => ring[i - 1] \in Raw)
    BY <2>1
  <2>3. adc.a_convert \in {500, 750} /\ lut \in -100 .. 100
    <3>1. r_settings \in Settings
      BY DEF IInv, TypeOK
    <3>2. /\ adc = [Verified(r_settings.period, r_settings)
                      EXCEPT !.a_intersample_ns = r_frequency, !.open = TRUE]
          /\ lut = r_settings.coeff
      BY Zenon DEF IInv, Prepared
    <3>3. adc.a_convert = r_settings.range
      BY <3>2 DEF Verified, NoAdc
    <3>4. lut = r_settings.coeff
      BY <3>2
    <3>5. r_settings.range \in {500, 750} /\ r_settings.coeff \in -100 .. 100
      BY <3>1, SettingsOf
    <3> QED
      BY <3>3, <3>4, <3>5
  <2>4. raw \in Raw \cup {0} /\ prev \in Raw \cup {0}
    BY <2>2, Zenon
  <2> HIDE DEF raw, prev
  <2>5. raw \in Nat /\ raw <= 8191 /\ prev \in Nat /\ prev <= 8191
    BY <2>4, RawBounds
  <2>6. CASE adc.a_convert = 500
    <3>1. lut \in Int /\ -99 <= lut /\ lut <= 100
      BY <2>3, <2>6
    <3>2. ~Wraps(500, lut, raw, prev)
      BY <2>5, <3>1, NarrowFits
    <3> QED
      BY <2>6, <3>2, Zenon DEF raw, prev
  <2>7. CASE adc.a_convert = 750
    <3>1. lut \in Int /\ -33 <= lut /\ lut <= 33
      BY <2>7
    <3>2. ~Wraps(750, lut, raw, prev)
      BY <2>5, <3>1, WideFits
    <3> QED
      BY <2>7, <3>2, Zenon DEF raw, prev
  <2> QED
    BY <2>3, <2>6, <2>7
<1> QED
  BY <1>1, Invariance, PTL

(* With the driver for 3.18 the range of the hardware is that of the        *)
(* conversion (usbduxfast_3.18.35_john.c:878, adc.c:84).                    *)
THEOREM RangeIsKept == Spec => [](port = "3.18" => RangeAgrees)
<1>1. IInv => (port = "3.18" => RangeAgrees)
  <2> SUFFICES ASSUME IInv, port = "3.18", rp_state = "RUN",
                      NEW i \in 0 .. LastState(gpif.program)
               PROVE  "RNG" \in gpif.program[i].low <=> adc.a_convert = 500
    BY DEF RangeAgrees
  <2>1. i \in 0 .. 4
    BY RunsSixteen
  <2>2. PICK ns \in MinPeriod .. MaxPeriod : adc.a_intersample_ns = Quantised(ns)
    BY RunsSixteen
  <2>3. /\ a_command = GenericCommand(adc)
        /\ adc = [Verified(r_settings.period, r_settings)
                    EXCEPT !.a_intersample_ns = r_frequency, !.open = TRUE]
    BY Zenon DEF IInv, Prepared
  <2> DEFINE rng == Rng(a_command, 1)
             n == NS_TO_TICKS(Quantised(ns))
  <2>4. Program(port, a_command) = SixteenChannels(a_command, n, rng)
    BY <2>2, <2>3, CommandPasses
  <2>5. rng = IF adc.a_convert = 500 THEN {"RNG"} ELSE {}
    <3>1. adc.a_range = IF adc.a_convert = 500 THEN 1 ELSE 0
      BY <2>3 DEF Verified, NoAdc
    <3>2. a_command.chanlist[1] = adc.a_range
      BY <2>3 DEF GenericCommand, N_USBDUX_CHANS
    <3> QED
      BY <3>1, <3>2 DEF Rng
  <2>6. gpif.program[i] = SixteenChannels(a_command, n, rng)[i]
    BY <2>1, <2>4 DEF IInv, Loaded
  <2> HIDE DEF n, rng
  <2>7. SixteenChannels(a_command, n, rng)[i] =
          <<Reset16(a_command, rng), Data(1, rng), Delay(Half(n - 2), rng),
            Delay(Rest(n - 2), rng), Decide({1}, {"CLK"} \cup rng)>>[i + 1]
    BY <2>1 DEF SixteenChannels, States
  <2>8. SixteenChannels(a_command, n, rng)[i].low \in {rng, {"RST"} \cup rng, {"CLK"} \cup rng}
    BY <2>1, <2>7 DEF Reset16, Data, Delay, Decide
  <2>9. "RNG" \in gpif.program[i].low <=> "RNG" \in rng
    BY <2>6, <2>8
  <2> QED
    BY <2>5, <2>9
<1> QED
  BY <1>1, Invariance, PTL
===============================================================================
