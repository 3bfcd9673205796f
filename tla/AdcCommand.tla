------------------------------ MODULE AdcCommand ------------------------------
(***************************************************************************)
(* From the parameters of a capture to what the hardware does: the READER  *)
(* sets up its ADC object (reader.c, adc.c), Comedi has the USBDUXfast     *)
(* driver test the command, the driver compiles it into a program of the   *)
(* USB chip's state machine (kernel/), and the samples that come back are  *)
(* converted by the tables of lut.c.  Five programs on two clocks must     *)
(* agree on one period and one range; nothing checks at run time that they *)
(* do.  The ring, the purges and the states of a capture in progress are   *)
(* in ReaderRing, the transfer of the data in DuxDriver.                   *)
(*                                                                         *)
(* The repository carries ports of the author's driver to two kernels,     *)
(* "3.18" (usbduxfast_3.18.35_john.c) and "4.6" (usbduxfast_4.6.5_john.c); *)
(* port is the one that is loaded.  The state machine of the chip (GPIF)   *)
(* is external: a state lasts len ticks of 30 MHz and goes on to the next, *)
(* or is a decision (DP) that lasts one tick and goes to one of to.        *)
(***************************************************************************)
EXTENDS Integers, Sequences

CONSTANTS
  Ports,        \* driver ports, "3.18" and "4.6"
  Settings,     \* what the parameters may be: the period in ns, rounded
                \* down, that freq= comes to, range, whether syncwait is
                \* set, sscorr in percent
  OtherPeriods, \* periods asked for by other programs that use the driver
  DataPeriods,  \* bound: the periods in which the samples are followed
  Raw,          \* raw samples the device may give
  MaxData,      \* bound: samples followed
  MaxCommands   \* bound: commands sent to the device

NCHANNELS == 8
N_USBDUX_CHANS == 16

(* 1e9/(f * NCHANNELS), rounded down, at MAX_ and MIN_SAMPLING_FREQUENCY.   *)
MinPeriod == 332
MaxPeriod == 2083

ASSUME PeriodAssumption ==
  /\ Ports \subseteq {"3.18", "4.6"}
  /\ Settings \subseteq [period : MinPeriod .. MaxPeriod, range : {500, 750},
                         sync : BOOLEAN, coeff : -100 .. 100]
  /\ OtherPeriods \subseteq Nat /\ DataPeriods \subseteq Nat
  /\ Raw \subseteq 0 .. 8191
  /\ MaxData \in Nat /\ MaxCommands \in Nat

-----------------------------------------------------------------------------
(***************************************************************************)
(* Time.  NS_TO_TICKS and TICKS_TO_NS of the driver, and the rounding of   *)
(* adc_set_chan_frequency.  Periods are below 2^26 ns: no overflow.        *)
(***************************************************************************)
NS_TO_TICKS(ns) == (30 * ns + 500) \div 1000

TICKS_TO_NS(nt) ==
  100 * (nt \div 3) + 33 * (nt % 3) + (IF nt % 3 = 2 THEN 1 ELSE 0)

(* The test for the last part of the range is xtra >= 84: a period that     *)
(* ends in 83 loses its last 83 ns.  Mutant: nothing is left out, and the   *)
(* lowest frequency is rounded out of the range.                            *)
Quantised_NoGap(ns) ==
  LET xtra == ns % 100 IN
  ns - xtra + (IF xtra <= 17 THEN 0 ELSE IF xtra < 50 THEN 33
               ELSE IF xtra < 83 THEN 67 ELSE 100)
Quantised(ns) ==
  LET xtra == ns % 100 IN
  ns - xtra + (IF xtra > 17 /\ xtra < 50 THEN 33
               ELSE IF xtra >= 50 /\ xtra < 83 THEN 67
               ELSE IF xtra >= 84 THEN 100 ELSE 0)

-----------------------------------------------------------------------------
(***************************************************************************)
(* The driver's test of a command.  A command is a record of the sources   *)
(* and arguments that can differ; comedi_check_trigger_* set an argument   *)
(* that is wrong to the right value and report an error.                   *)
(***************************************************************************)
MIN_SAMPLING_PERIOD(p) == IF p = "3.18" THEN 8 ELSE 9
MAX_SAMPLING_PERIOD == 500

AtLeast(a, b) == IF a < b THEN b ELSE a
AtMost(a, b) == IF a > b THEN b ELSE a

(* The least period in ticks; the 4.6 driver has none for one channel.      *)
LeastSteps(p, c) ==
  IF Len(c.chanlist) # 1 THEN MIN_SAMPLING_PERIOD(p)
  ELSE IF p = "3.18" THEN 1 ELSE 0

Steps(p, c) == AtMost(AtLeast(NS_TO_TICKS(c.convert_arg), LeastSteps(p, c)),
                      MAX_SAMPLING_PERIOD)

ChanlistOk(c) ==
  /\ Len(c.chanlist) <= 3 \/ Len(c.chanlist) = 16
  /\ \A i \in DOMAIN c.chanlist : Len(c.chanlist) > 3 => c.chanlist[i] = c.chanlist[1]

TriggerOk(c) == c.start_src = "EXT" => Len(c.chanlist) \in {1, 16}

(* What the argument checks make of a command.                              *)
Adjusted(p, c) ==
  [c EXCEPT !.convert_arg = TICKS_TO_NS(Steps(p, c)),
            !.start_arg   = IF p = "4.6" \/ c.start_src = "NOW" THEN 0 ELSE @,
            !.stop_arg    = IF c.stop_src = "COUNT" THEN AtLeast(@, 1) ELSE 0]

(* usbduxfast_ai_cmdtest: 3 if an argument was wrong, 5 if the channel list *)
(* is.  The 3.18 driver leaves triggers and channels to ai_cmd.             *)
CmdTest318(c) ==
  [cmd |-> Adjusted("3.18", c),
   err |-> IF c.chanlist = <<>> \/ Adjusted("3.18", c) # c THEN 3 ELSE 0]
CmdTest46(c) ==
  [cmd |-> Adjusted("4.6", c),
   err |-> IF c.chanlist = <<>> \/ ~TriggerOk(c) \/ Adjusted("4.6", c) # c THEN 3
           ELSE IF ~ChanlistOk(c) THEN 5 ELSE 0]
CmdTest(p, c) == IF p = "3.18" THEN CmdTest318(c) ELSE CmdTest46(c)

(* The checks that the 3.18 driver makes in ai_cmd.                         *)
CmdOk318(c) ==
  /\ ChanlistOk(c) /\ TriggerOk(c) /\ c.chanlist # <<>>
  /\ NS_TO_TICKS(c.convert_arg) <= MAX_SAMPLING_PERIOD
  /\ Len(c.chanlist) # 1 => NS_TO_TICKS(c.convert_arg) >= MIN_SAMPLING_PERIOD("3.18")
CmdOk(p, c) == p = "3.18" => CmdOk318(c)

-----------------------------------------------------------------------------
(***************************************************************************)
(* The program of the chip.  A state: its length, whether it commits DATA  *)
(* to the FIFO, whether it is a decision and where that may go, the        *)
(* control outputs it holds low (CLK steps the multiplexer, RST resets it, *)
(* RNG is the range), and the command that wrote it.                       *)
(***************************************************************************)
Delay(len, low) == [len |-> len, data |-> FALSE, to |-> {}, low |-> low]
Data(len, low) == [len |-> len, data |-> TRUE, to |-> {}, low |-> low]
Decide(to, low) == [len |-> 1, data |-> FALSE, to |-> to, low |-> low]
DecideData(to, low) == [len |-> 1, data |-> TRUE, to |-> to, low |-> low]

Rng(c, i) == IF c.chanlist[i] > 0 THEN {"RNG"} ELSE {}

States(s) == [i \in 0 .. Len(s) - 1 |-> s[i + 1]]
Half(n) == n \div 2
Rest(n) == n - n \div 2

OneChannel(c, steps, least) ==
  LET rng == Rng(c, 1)
      start == IF c.start_src = "EXT" THEN Decide({0, 1}, rng) ELSE Delay(1, rng)
  IN States(
       IF steps >= least
         THEN <<start, Delay(Half(steps - 1), rng), Delay(Rest(steps - 1), rng),
                DecideData({1}, rng)>>
       ELSE IF steps <= 1 THEN <<start, DecideData({1}, rng)>>
       ELSE <<start, Data(steps - 1, rng), Decide({1}, rng)>>)

TwoChannels(c, steps) ==
  States(<<Data(1, Rng(c, 1)),
           Delay(Half(steps - 1), {"CLK"} \cup Rng(c, 2)), Delay(Rest(steps - 1), Rng(c, 2)),
           Data(1, Rng(c, 2)),
           Delay(Half(steps - 2), {"RST"} \cup Rng(c, 1)), Delay(Rest(steps - 2), Rng(c, 1)),
           Delay(1, Rng(c, 1))>>)

(* The loop over the first two channels is made once only: states 2 and 3   *)
(* are not written.                                                         *)
ThreeChannels(c, steps) ==
  LET first == States(<<Data(Half(steps), Rng(c, 1)),
                        Delay(Rest(steps), {"CLK"} \cup Rng(c, 2))>>)
      last == States(<<Data(Half(steps - 2), Rng(c, 2)),
                       Delay(Rest(steps - 2), {"RST"} \cup Rng(c, 1)),
                       Delay(1, Rng(c, 1))>>)
  IN [i \in {0, 1, 4, 5, 6} |-> IF i < 2 THEN first[i] ELSE last[i - 4]]

Reset16(c, rng) == Decide(IF c.start_src = "EXT" THEN {0, 2} ELSE {2}, {"RST"} \cup rng)

(* Mutants: one of two states with duration 1 is counted; the state with    *)
(* the second part of the delay is skipped.                                 *)
SixteenChannels_OneShort(c, steps, rng) ==
  States(<<Reset16(c, rng), Data(1, rng), Delay(Half(steps - 1), rng),
           Delay(Rest(steps - 1), rng), Decide({1}, {"CLK"} \cup rng)>>)
SixteenChannels_Skips(c, steps, rng) ==
  LET s == <<Reset16(c, rng), Data(1, rng), Delay(steps - 2, rng), Decide({1}, rng),
             Decide({1}, {"CLK"} \cup rng)>>
  IN [i \in {0, 1, 2, 4} |-> s[i + 1]]
SixteenChannels(c, steps, rng) ==
  States(<<Reset16(c, rng), Data(1, rng), Delay(Half(steps - 2), rng),
           Delay(Rest(steps - 2), rng), Decide({1}, {"CLK"} \cup rng)>>)

(* Sixteen channels, by which the daemon samples.  The 3.18 driver sets the *)
(* range from the first channel; the 4.6 driver leaves rngmask at 0xff.     *)
Sixteen46(c, steps) == SixteenChannels(c, steps, {})
Sixteen318(c, steps) == SixteenChannels(c, steps, Rng(c, 1))

Program318(c) ==
  LET steps == NS_TO_TICKS(c.convert_arg) IN
  CASE Len(c.chanlist) = 1  -> OneChannel(c, steps, MIN_SAMPLING_PERIOD("3.18"))
    [] Len(c.chanlist) = 2  -> TwoChannels(c, steps)
    [] Len(c.chanlist) = 3  -> ThreeChannels(c, steps)
    [] Len(c.chanlist) = 16 -> Sixteen318(c, steps)
Program46(c) ==
  LET steps == NS_TO_TICKS(c.convert_arg) IN
  CASE Len(c.chanlist) = 1  -> OneChannel(c, steps, MIN_SAMPLING_PERIOD("4.6"))
    [] Len(c.chanlist) = 2  -> TwoChannels(c, steps)
    [] Len(c.chanlist) = 3  -> ThreeChannels(c, steps)
    [] Len(c.chanlist) = 16 -> Sixteen46(c, steps)
Program(p, c) == IF p = "3.18" THEN Program318(c) ELSE Program46(c)

(* The program of a single conversion (usbduxfast_ai_insn_read).            *)
InsnProgram(rng) ==
  States(<<Data(1, rng), Delay(12, {"CLK"} \cup rng), Delay(1, {"CLK"} \cup rng),
           Delay(1, {"CLK"} \cup rng), Delay(1, {"CLK"} \cup rng), Delay(12, rng),
           Delay(1, rng)>>)

(* What the chip does with a program g: it runs from state 0 to the first   *)
(* state that always branches back, or to the last one, and loops from      *)
(* where that branches to.                                                  *)
BranchesBack(g, i) == \E t \in 0 .. i : g[i].to = {t}
LastState(g) ==
  IF \E i \in 0 .. 6 : BranchesBack(g, i)
    THEN CHOOSE i \in 0 .. 6 : BranchesBack(g, i)
                                 /\ \A j \in 0 .. i - 1 : ~BranchesBack(g, j)
    ELSE 6
InLoop(g, i) ==
  i <= LastState(g) /\ \A t \in g[LastState(g)].to : t <= i

(* The ticks of one turn of the loop, in which one sample is taken.         *)
Ticks(g, i) == IF InLoop(g, i) THEN g[i].len ELSE 0
LoopTicks(g) == Ticks(g, 0) + Ticks(g, 1) + Ticks(g, 2) + Ticks(g, 3)
                + Ticks(g, 4) + Ticks(g, 5) + Ticks(g, 6)

-----------------------------------------------------------------------------
(***************************************************************************)
(* Conversion (lut.c): 12 bits and an overflow bit become 16 bits, less a  *)
(* part of the sample before.                                              *)
(***************************************************************************)
RAW_500mV_TO_OUT_500mV(raw) == 8 * raw - 16384
(* Half of it is added; v is even.  Mutant: half is not taken.              *)
OUT_500mV_TO_OUT_750mV_Whole(v) == v + v
OUT_500mV_TO_OUT_750mV(v) == v + v \div 2
Pk(range, raw) ==
  LET v == RAW_500mV_TO_OUT_500mV(raw) IN
  IF range = 500 THEN v ELSE OUT_500mV_TO_OUT_750mV(v)

(* populate_conversion_luts: an overflow is one beyond the end of its side. *)
OOR(raw) == raw >= 4096
Amplitude(range, raw) ==
  IF ~OOR(raw) THEN Pk(range, raw)
  ELSE IF (raw - 4096) >= 2048 THEN Pk(range, 4095) + 1 ELSE Pk(range, 0) - 1

(* A product converted to short: towards zero.                              *)
Towards0(n, d) == IF n >= 0 THEN n \div d ELSE -((-n) \div d)
Correlated(range, coeff, raw) == Towards0(coeff * Amplitude(range, raw), 100)

Short(n) == ((n + 32768) % 65536) - 32768
Converted(range, coeff, raw, prev) ==
  Short(Amplitude(range, raw) - Correlated(range, coeff, prev))

-----------------------------------------------------------------------------
VARIABLES
  port,         \* the driver that is loaded
  rp_state,     \* PARAM, RESTING, RUN (ARMED and RUN of the READER) or ERROR
  r_settings,   \* the reader parameters as they were given
  r_frequency,  \* the period that rp->r_frequency stands for, written back
  adc,          \* the fields of the ADC object that come from the parameters
  a_command,    \* the command prepared by adc_init
  lut,          \* the coefficient that the conversion tables are built with
  duxbuf,       \* the driver's buffer: the program last compiled
  author,       \* which command wrote each state of it
  gpif,         \* external: the program in the chip, and who wrote its states
  sent,         \* commands compiled
  ring,         \* raw samples of the capture
  frame         \* what has been converted of them

paramVars == <<r_settings, r_frequency>>
adcVars == <<adc, a_command, lut>>
programVars == <<duxbuf, author, gpif, sent>>
dataVars == <<ring, frame>>
vars == <<port, rp_state, paramVars, adcVars, programVars, dataVars>>

NoAdc == [a_intersample_ns |-> 0, a_range |-> 0, a_convert |-> 0,
          a_ssc_coeff |-> 0, a_ext_trigger |-> FALSE, open |-> FALSE]

(* comedi_get_cmd_generic_timed, and what adc_init puts into it.            *)
GenericCommand(a) ==
  [start_src |-> IF a.a_ext_trigger THEN "EXT" ELSE "NOW", start_arg |-> 0,
   convert_arg |-> a.a_intersample_ns, stop_src |-> "NONE", stop_arg |-> 0,
   chanlist |-> [i \in 1 .. N_USBDUX_CHANS |-> a.a_range]]

NoCommand == GenericCommand(NoAdc)

Blank == [i \in 0 .. 6 |-> Delay(0, {})]
NoOne == [i \in 0 .. 6 |-> 0]

(* No buffer: the driver's pointer to it has been written over.             *)
Lost == <<>>

TypeOK ==
  /\ port \in Ports
  /\ rp_state \in {"PARAM", "RESTING", "RUN", "ERROR"}
  /\ r_settings \in Settings /\ r_frequency \in Nat
  /\ adc.a_intersample_ns \in Nat /\ a_command.convert_arg \in Nat
  /\ sent \in 0 .. MaxCommands
  /\ ring \in Seq(Raw) /\ Len(frame) <= Len(ring)
-----------------------------------------------------------------------------
(***************************************************************************)
(* The READER's commands.                                                  *)
(***************************************************************************)

(* adc_destroy zeroes the object and unmaps the ring.                       *)
NoData == ring' = <<>> /\ frame' = <<>>

(* verify_reader_params: a fresh ADC object, filled from the parameters.    *)
Verified(ns, p) ==
  [NoAdc EXCEPT !.a_intersample_ns = Quantised(ns),
                !.a_range          = IF p.range = 500 THEN 1 ELSE 0,
                !.a_convert        = p.range,
                !.a_ssc_coeff      = p.coeff,
                !.a_ext_trigger    = p.sync]

Init ==
  /\ port \in Ports
  /\ rp_state = "PARAM"
  /\ \E p \in Settings :
       /\ r_settings = p
       /\ r_frequency = Quantised(p.period)
       /\ adc = Verified(p.period, p)
  /\ a_command = NoCommand /\ lut = 0
  /\ duxbuf = Blank /\ author = NoOne /\ sent = 0
  /\ gpif = [program |-> Blank, by |-> NoOne]
  /\ ring = <<>> /\ frame = <<>>

(* freq= is read again, from its text, by every Param.                      *)
Param(p) ==
  /\ rp_state \in {"PARAM", "RESTING", "ERROR"}
  /\ rp_state' = "PARAM"
  /\ r_settings' = p /\ r_frequency' = Quantised(p.period)
  /\ adc' = Verified(p.period, p) /\ a_command' = NoCommand
  /\ UNCHANGED <<port, lut, programVars>> /\ NoData

(* Another parameter does not pass, after the ADC object has been replaced  *)
(* and the frequency set: the state stays what it was.                      *)
ParamFails(p) ==
  /\ rp_state \in {"PARAM", "RESTING", "ERROR"}
  /\ r_settings' = p /\ r_frequency' = Quantised(p.period)
  /\ adc' = [NoAdc EXCEPT !.a_intersample_ns = Quantised(p.period)]
  /\ a_command' = NoCommand /\ NoData
  /\ UNCHANGED <<port, rp_state, lut, programVars>>

(* Init computes the period anew from the frequency that was written back   *)
(* as a double: the quotient may come out just below.                       *)
Truncated(ns) == {ns, ns - 1}
ValidFrequency(ns) == MinPeriod < ns /\ ns <= MaxPeriod

(* The command is tested twice, for what the first test puts right; an      *)
(* answer above 0 to the second is ignored.                                 *)
TestedTwice(a) == CmdTest(port, CmdTest(port, GenericCommand(a)).cmd).cmd

LutSet(coeff) == lut' = coeff

AdcInit ==
  /\ rp_state = "PARAM"
  /\ UNCHANGED <<port, r_settings, programVars>> /\ NoData
  /\ \/ /\ ValidFrequency(r_frequency)
        /\ \E ns \in Truncated(r_frequency) :
             LET a == Verified(ns, r_settings)
                 cmd == TestedTwice(a)
             IN /\ r_frequency' = a.a_intersample_ns
                /\ a_command' = cmd
                /\ adc' = [a EXCEPT !.a_intersample_ns = cmd.convert_arg, !.open = TRUE]
                /\ LutSet(a.a_ssc_coeff)
        /\ rp_state' = "RESTING"
     \/ \* it may fail even if the frequency is good
        /\ rp_state' = "ERROR" /\ adc' = NoAdc /\ a_command' = NoCommand
        /\ UNCHANGED <<r_frequency, lut>>

(* usbduxfast_ai_cmd: the program is written over the one before it, and    *)
(* sent; the buffer keeps it if sending fails.  A driver that has lost its   *)
(* buffer is not followed any further.                                      *)
Compiled(g) ==
  /\ duxbuf # Lost /\ sent < MaxCommands /\ sent' = sent + 1
  /\ duxbuf' = [i \in 0 .. 6 |-> IF i \in DOMAIN g THEN g[i] ELSE duxbuf[i]]
  /\ author' = [i \in 0 .. 6 |-> IF i \in DOMAIN g THEN sent' ELSE author[i]]
  /\ gpif' \in {gpif, [program |-> duxbuf', by |-> author']}

(* comedi_command: the core tests the command once more.                    *)
Accepted(c) == CmdTest(port, c).err = 0 /\ CmdOk(port, c)

Go ==
  /\ rp_state = "RESTING"
  /\ IF adc.open /\ Accepted(a_command)
       THEN /\ Compiled(Program(port, a_command))
            /\ rp_state' = IF gpif'.by = author' THEN "RUN" ELSE "ERROR"
       ELSE rp_state' = "ERROR" /\ UNCHANGED programVars
  /\ UNCHANGED <<port, paramVars, adcVars, dataVars>>

(* Halt, a dry spell and the end of a capture all leave ERROR, and no ADC.  *)
Halt ==
  /\ rp_state = "RUN"
  /\ rp_state' = "ERROR" /\ adc' = NoAdc /\ a_command' = NoCommand /\ NoData
  /\ UNCHANGED <<port, paramVars, lut, programVars>>
-----------------------------------------------------------------------------
(***************************************************************************)
(* Other programs use the driver while the daemon is not sampling.         *)
(***************************************************************************)
OtherCommands ==
  [start_src : {"NOW"}, start_arg : {0}, convert_arg : OtherPeriods,
   stop_src : {"COUNT"}, stop_arg : {1},
   chanlist : {<<1>>, <<0, 1>>, <<0, 0, 0>>, <<1, 1, 0, 0>>}]

OtherCommand(c) ==
  /\ rp_state # "RUN"
  /\ LET tested == CmdTest(port, c).cmd IN
       Accepted(tested) /\ Compiled(Program(port, tested))
  /\ UNCHANGED <<port, rp_state, paramVars, adcVars, dataVars>>

(* A single conversion.  In the 3.18 port this is one whose data never come. *)
InsnRead(rng) ==
  /\ rp_state # "RUN"
  /\ Compiled(InsnProgram(rng))
  /\ UNCHANGED <<port, rp_state, paramVars, adcVars, dataVars>>

(* If they do, that port has them put into the array of pointers inbuf, and  *)
(* what lies behind it: the pointer to duxbuf is among that.                *)
InsnReadOver(rng) ==
  /\ port = "3.18" /\ rp_state # "RUN" /\ duxbuf # Lost
  /\ sent < MaxCommands /\ sent' = sent + 1
  /\ duxbuf' = Lost /\ author' = [i \in 0 .. 6 |-> sent']
  /\ gpif' = [program |-> InsnProgram(rng), by |-> author']
  /\ UNCHANGED <<port, rp_state, paramVars, adcVars, dataVars>>
-----------------------------------------------------------------------------
(***************************************************************************)
(* The samples.                                                            *)
(***************************************************************************)
Deliver(raw) ==
  /\ rp_state = "RUN" /\ a_command.convert_arg \in DataPeriods
  /\ Len(ring) < MaxData
  /\ ring' = Append(ring, raw)
  /\ UNCHANGED <<port, rp_state, paramVars, adcVars, programVars, frame>>

(* copy_chunk_data takes the sample before the chunk from the ring.  Mutant: *)
(* every chunk starts as the first does.                                    *)
SampleBefore_Zero(first) == 0
SampleBefore(first) == IF first > 0 THEN ring[first] ELSE 0

(* convert_raw_500mV and convert_raw_750mV of n samples from first.         *)
ConvertRaw(first, n) ==
  [i \in 1 .. n |->
     Converted(adc.a_convert, lut, ring[first + i],
               IF i > 1 THEN ring[first + i - 1] ELSE SampleBefore(first))]

CopyChunk(n) ==
  /\ rp_state = "RUN" /\ Len(frame) + n <= Len(ring)
  /\ frame' = frame \o ConvertRaw(Len(frame), n)
  /\ UNCHANGED <<port, rp_state, paramVars, adcVars, programVars, ring>>
-----------------------------------------------------------------------------
Next ==
  \/ \E p \in Settings : Param(p) \/ ParamFails(p)
  \/ AdcInit \/ Go \/ Halt
  \/ \E c \in OtherCommands : OtherCommand(c)
  \/ \E rng \in {{}, {"RNG"}} : InsnRead(rng) \/ InsnReadOver(rng)
  \/ \E raw \in Raw : Deliver(raw)
  \/ \E n \in 1 .. MaxData : CopyChunk(n)

Spec == Init /\ [][Next]_vars
-----------------------------------------------------------------------------
(***************************************************************************)
(* Properties.                                                             *)
(***************************************************************************)

(* While it samples the chip takes a sample every a_intersample_ns, by      *)
(* which the daemon turns sample numbers into times: after three roundings  *)
(* (adc.c:164-173, the driver's macros, the split of the loop into states)  *)
(* the loop has exactly the ticks of the period, and each state a length    *)
(* that its byte holds and that is not 0, which would mean 256.             *)
PeriodAgrees ==
  rp_state = "RUN" =>
    /\ LoopTicks(gpif.program) = NS_TO_TICKS(adc.a_intersample_ns)
    /\ adc.a_intersample_ns = TICKS_TO_NS(LoopTicks(gpif.program))
    /\ \A i \in 0 .. LastState(gpif.program) : gpif.program[i].len \in 1 .. 255

(* The buffer of the driver is never cleared: whatever other programs sent  *)
(* before, every state that the daemon's program reaches was written by the *)
(* daemon's command (usbduxfast_4.6.5_john.c:583-883, usbduxfast_cmd_data). *)
ProgramIsOwn ==
  rp_state = "RUN" => \A i \in 0 .. LastState(gpif.program) : gpif.by[i] = sent

(* A frequency that Param has accepted and rounded is accepted again by     *)
(* Init, whatever the doubles do, with the same result, and the driver      *)
(* neither alters it nor refuses the command (adc.c:158-175, 335-349).  All *)
(* but one: 383 ns become 300 ns, which is refused.                         *)
AcceptedStaysAccepted ==
  /\ rp_state = "PARAM" /\ adc.a_intersample_ns > 0 /\ r_settings.period # 383 =>
       /\ ValidFrequency(r_frequency)
       /\ \A ns \in Truncated(r_frequency) : Quantised(ns) = r_frequency
  /\ rp_state = "RESTING" /\ adc.open =>
       Accepted(a_command) /\ adc.a_intersample_ns = r_frequency

(* The samples of a capture are those that one pass over all of them gives, *)
(* with the parameters last accepted, however they are cut into chunks: the *)
(* sample before a chunk counts, and the tables are those of this capture   *)
(* (chunk.c:251-262, lut.c:100-132, adc.c:365).                             *)
Seamless ==
  rp_state = "RUN" =>
    \A i \in DOMAIN frame :
      frame[i] = Converted(r_settings.range, r_settings.coeff, ring[i],
                           IF i > 1 THEN ring[i - 1] ELSE 0)

(* The sample overflows the 16 bits.                                        *)
Wraps(range, coeff, raw, prev) ==
  Converted(range, coeff, raw, prev)
    # Amplitude(range, raw) - Correlated(range, coeff, prev)

(* No sample of the narrow range wraps around, unless the coefficient is -1 *)
(* - then a low overflow after a low sample does - and none of the wide     *)
(* range while the coefficient is at most 33 %; |coeff| up to 1 is accepted *)
(* for both (lut.c:74-132, reader.c:720-724).                               *)
OutputFits ==
  \A i \in DOMAIN frame :
    rp_state = "RUN" /\ (IF adc.a_convert = 500 THEN lut >= -99 ELSE lut \in -33 .. 33) =>
      ~Wraps(adc.a_convert, lut, ring[i], IF i > 1 THEN ring[i - 1] ELSE 0)

(* "Bit 3 control output is 0 iff the CR_RANGE is one" (adc.c:85-86): the   *)
(* analogue range of the hardware is the one the samples are converted by.  *)
(* Only the 3.18 port keeps to it.                                          *)
RangeAgrees ==
  rp_state = "RUN" =>
    \A i \in 0 .. LastState(gpif.program) :
      "RNG" \in gpif.program[i].low <=> adc.a_convert = 500
(* What is inductive.  Who wrote a state is one of the commands compiled.   *)
Counted == author \in [0 .. 6 -> 0 .. sent] /\ gpif.by \in [0 .. 6 -> 0 .. sent]

(* The frequency that Param wrote back, until Init takes it.                *)
WrittenBack == rp_state = "PARAM" => r_frequency = Quantised(r_settings.period)

(* Once Init has been through the ADC object holds what was accepted, and   *)
(* the command says what it holds; a Param that fails closes the object.    *)
Prepared ==
  rp_state = "RUN" \/ (rp_state = "RESTING" /\ adc.open) =>
    /\ \E ns \in MinPeriod .. MaxPeriod : r_frequency = Quantised(ns)
    /\ adc = [Verified(r_settings.period, r_settings)
                EXCEPT !.a_intersample_ns = r_frequency, !.open = TRUE]
    /\ a_command = GenericCommand(adc)
    /\ lut = r_settings.coeff

(* The chip has the daemon's program, whole.                                *)
Loaded ==
  rp_state = "RUN" =>
    \A i \in 0 .. 4 : gpif.program[i] = Program(port, a_command)[i] /\ gpif.by[i] = sent

(* There are samples only while it samples.                                 *)
Sampled == frame \in Seq(Int) /\ (rp_state # "RUN" => ring = <<>> /\ frame = <<>>)

IInv == TypeOK /\ Counted /\ WrittenBack /\ Prepared /\ Loaded /\ Sampled /\ Seamless
=============================================================================
