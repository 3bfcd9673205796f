------------------------------ MODULE ReaderRing ------------------------------
(***************************************************************************)
(* The READER thread with no chunk queued: its command state machine, the  *)
(* life of its ADC object, and the policy by which it keeps the Comedi     *)
(* ring buffer from overflowing (reader.c, adc.c), under commands that     *)
(* change the parameters.  What it does with chunks is in ChunkFlow.       *)
(*                                                                         *)
(* verify_reader_params is modelled with its arithmetic, in samples and    *)
(* whole percents.  Comedi is external: it delivers samples while the ADC  *)
(* runs, at most MaxBatch of them between two looks of the READER, and may *)
(* stop doing so.  Time is left, the ticks that remain until               *)
(* next_data_before, which is all the code compares the clock with.        *)
(***************************************************************************)
EXTENDS Integers

CONSTANTS
  Page,        \* samples in a page
  Chunk,       \* writer_chunksize_samples
  BufSize,     \* ring sizes the parameter bufsz may name
  HwmPercent,  \* high-water marks the parameter bufhwm may name
  WindowSize,  \* samples the parameter window may come to
  MinBuf, MaxBuf,        \* MIN_, MAX_COMEDI_BUF_SIZE
  MinWindow, MaxWindow,  \* READER_MIN_, READER_MAX_WINDOW
  Default,     \* the parameters the program starts with
  Unset,       \* a parameter that was not set explicitly
  SyncWait,    \* r_sync_wait_time in ticks
  DryPeriod,   \* ADC_DRY_PERIOD_DEFAULT in ticks
  Batch,       \* samples the device may deliver at a time
  MaxBatch,    \* most samples that arrive between two collections
  MaxHead,     \* bound: samples in one capture
  MaxCapture   \* bound: Go commands

Setting == [bufsz : BufSize, bufhwm : HwmPercent \cup {Unset},
            window : WindowSize \cup {Unset}]

(* READER_MIN_RBHWMF, READER_MAX_RBHWMF, READER_RB_HEADROOM_CHUNKS.         *)
MinHwm == 50
MaxHwm == 95
HeadroomChunks == 2

RoundUp(n) == Page * ((n + Page - 1) \div Page)

(* verify_reader_params: the high-water mark, set or computed.              *)
ComputedHwm(p) == RoundUp(p.bufsz - HeadroomChunks * Chunk)
Hwm(p) ==
  IF p.bufhwm # Unset THEN RoundUp((p.bufhwm * p.bufsz) \div 100)
  ELSE IF 100 * ComputedHwm(p) > MaxHwm * p.bufsz
         THEN RoundUp((MaxHwm * p.bufsz) \div 100)
         ELSE ComputedHwm(p)

(* ... and the window; it leaves room for at least a chunk per purge.       *)
Window(p) == IF p.window # Unset THEN RoundUp(p.window) ELSE Hwm(p) - Chunk

(* ... and the checks it makes.                                             *)
Valid(p) ==
  /\ p.window # Unset => MinWindow <= p.window /\ p.window <= MaxWindow
  /\ p.bufhwm # Unset => MinHwm <= p.bufhwm /\ p.bufhwm <= MaxHwm
  /\ p.bufhwm = Unset => 100 * ComputedHwm(p) >= MinHwm * p.bufsz
  /\ p.window = Unset => MinWindow <= Window(p)
  /\ Window(p) <= Hwm(p)
  /\ Chunk <= Window(p)
  /\ Hwm(p) + HeadroomChunks * Chunk <= p.bufsz
  /\ MinBuf <= p.bufsz /\ p.bufsz <= MaxBuf

ASSUME RingConstants ==
  /\ Page \in Nat \ {0} /\ Chunk \in Nat \ {0}
  /\ BufSize \subseteq Nat /\ HwmPercent \subseteq Nat /\ WindowSize \subseteq Nat
  /\ Unset \notin HwmPercent /\ Unset \notin WindowSize
  /\ MinBuf \in Nat /\ MaxBuf \in Nat /\ MinWindow \in Nat /\ MaxWindow \in Nat
  /\ SyncWait \in Nat /\ DryPeriod \in Nat
  /\ Batch \subseteq Nat /\ MaxBatch \in Nat /\ MaxHead \in Nat /\ MaxCapture \in Nat

(* The program ends at start-up if its parameters do not verify.            *)
ASSUME DefaultAssumption == Default \in Setting /\ Valid(Default)

(* The READER comes round at least once in the time of two chunks: it polls *)
(* for a fifth of a chunk, or 100 ms if that is less.                       *)
ASSUME PaceAssumption == MaxBatch <= HeadroomChunks * Chunk

VARIABLES
  rp_state,            \* READER state machine
  rpc,                 \* where the READER is in its loop
  adc,                 \* the ADC object: none, new, ready (initialised), running
  params,              \* parameter values in force
  buf_hwm_samples,     \* tail policy, set by verify_reader_params
  buf_window_samples,
  high_water_mark,     \* the READER loop's threshold for a purge
  a_bufsz,             \* samples the mapped Comedi buffer holds
  a_head,              \* samples the READER knows of
  a_tail,              \* samples given back to Comedi
  produced,            \* external: samples delivered by the device
  silent,              \* external: the device delivers no more
  left,                \* ticks until next_data_before; -1 when it is past
  capture              \* Go commands carried out

policyVars == <<params, buf_hwm_samples, buf_window_samples>>
ringVars == <<high_water_mark, a_bufsz, a_head, a_tail>>
deviceVars == <<produced, silent>>
vars == <<rp_state, rpc, adc, policyVars, ringVars, deviceVars, left, capture>>

Running == rp_state \in {"ARMED", "RUN"}

TypeOK ==
  /\ rp_state \in {"ERROR", "PARAM", "RESTING", "ARMED", "RUN"}
  /\ rpc \in {"data", "dry", "command", "ended", "aborted"}
  /\ adc \in {"none", "new", "ready", "running"}
  /\ params \in Setting
  /\ buf_hwm_samples \in Int /\ buf_window_samples \in Int
  /\ high_water_mark \in Int
  /\ a_bufsz \in Nat /\ a_head \in Nat /\ a_tail \in Nat /\ produced \in Nat
  /\ a_tail <= a_head /\ a_head <= produced
  /\ silent \in BOOLEAN /\ left \in Int /\ capture \in Nat

Init ==
  /\ rp_state = "PARAM" /\ rpc = "data" /\ adc = "new"
  /\ params = Default
  /\ buf_hwm_samples = Hwm(Default) /\ buf_window_samples = Window(Default)
  /\ high_water_mark = Hwm(Default)
  /\ a_bufsz = 0 /\ a_head = 0 /\ a_tail = 0 /\ produced = 0
  /\ silent = FALSE /\ left = -1 /\ capture = 0
-----------------------------------------------------------------------------
(***************************************************************************)
(* The device and the clock.                                               *)
(***************************************************************************)
Produce(n) ==
  /\ adc = "running" /\ ~silent
  /\ produced + n - a_head <= MaxBatch
  /\ produced + n <= MaxHead
  /\ produced - a_tail <= a_bufsz
  /\ produced' = produced + n
  /\ UNCHANGED <<rp_state, rpc, adc, policyVars, ringVars, silent, left, capture>>

FallSilent ==
  /\ adc = "running" /\ ~silent
  /\ silent' = TRUE
  /\ UNCHANGED <<rp_state, rpc, adc, policyVars, ringVars, produced, left, capture>>

Tick ==
  /\ adc = "running" /\ left >= 0
  /\ left' = left - 1
  /\ UNCHANGED <<rp_state, rpc, adc, policyVars, ringVars, deviceVars, capture>>
-----------------------------------------------------------------------------
(***************************************************************************)
(* The READER's loop: data, the dry period, at most one command.           *)
(***************************************************************************)

(* adc_data_collect tells what is new.  Mutant: what the buffer contains.   *)
NewData_Contents == produced > a_tail
NewData == produced > a_head

(* The low-water mark is unsigned in the code: below 0 it is above a_tail.  *)
(* Mutant: a chunk is kept instead of the window.                           *)
LowWater_Chunk == produced - Chunk
LowWater == produced - buf_window_samples
MustPurge == produced > high_water_mark /\ (LowWater > a_tail \/ LowWater < 0)

(* Where a purge sets the next mark.  Mutant: a buffer beyond the head.     *)
NextMark_FromHead == produced + buf_hwm_samples
NextMark == LowWater + buf_hwm_samples

(* adc_data_purge of a negative amount fails, and the loop asserts.         *)
ReaderCollect ==
  /\ rpc = "data" /\ adc = "running"
  /\ a_head' = produced
  /\ IF NewData
       THEN /\ rp_state' = "RUN" /\ left' = DryPeriod
            /\ \/ /\ ~MustPurge /\ rpc' = "dry"
                  /\ UNCHANGED <<a_tail, high_water_mark>>
               \/ /\ MustPurge /\ LowWater >= 0 /\ rpc' = "dry"
                  /\ a_tail' = LowWater /\ high_water_mark' = NextMark
               \/ /\ MustPurge /\ LowWater < 0 /\ rpc' = "aborted"
                  /\ UNCHANGED <<a_tail, high_water_mark>>
       ELSE /\ rpc' = "dry"
            /\ UNCHANGED <<rp_state, left, a_tail, high_water_mark>>
  /\ UNCHANGED <<adc, policyVars, a_bufsz, deviceVars, capture>>

(* Mutant: the state is left, but the ADC goes on.                          *)
Stopped_Running == rp_state' = "ERROR" /\ adc' = adc
(* adc_stop_data_transfer, adc_destroy, and the state they leave.           *)
Stopped == rp_state' = "ERROR" /\ adc' = "none"

ReaderDry ==
  /\ rpc = "dry" /\ rpc' = "command"
  /\ \/ left < 0 /\ Stopped
     \/ left >= 0 /\ UNCHANGED <<rp_state, adc>>
  /\ UNCHANGED <<policyVars, ringVars, deviceVars, left, capture>>

(* The ADC is not running: there may be a command.                          *)
ReaderIdle ==
  /\ rpc = "data" /\ adc # "running" /\ rpc' = "command"
  /\ UNCHANGED <<rp_state, adc, policyVars, ringVars, deviceVars, left, capture>>

ReaderPoll ==
  /\ rpc = "command" /\ rpc' = "data"
  /\ UNCHANGED <<rp_state, adc, policyVars, ringVars, deviceVars, left, capture>>

(* Parameters once set explicitly stay set.                                 *)
Assigned(p) ==
  {q \in Setting : /\ p.bufhwm # Unset => q.bufhwm # Unset
                   /\ p.window # Unset => q.window # Unset}

(* verify_reader_params passes: a new ADC object and a new tail policy.  It  *)
(* may also fail in a check of the priority, which comes before the ADC is  *)
(* replaced, or in one after that, modelled or not; the policy is kept.     *)
Verified ==
  /\ Valid(params')
  /\ adc' = "new"
  /\ buf_hwm_samples' = Hwm(params') /\ buf_window_samples' = Window(params')
NotVerified ==
  /\ adc' \in {adc, "new"}
  /\ UNCHANGED <<buf_hwm_samples, buf_window_samples>>

(* Param: not parsed, not assigned or not verified, which all leave the     *)
(* state; or verified.                                                      *)
ReaderParam ==
  /\ rpc = "command" /\ rpc' = "data"
  /\ rp_state \in {"PARAM", "RESTING", "ERROR"}
  /\ params' \in Assigned(params)
  /\ \/ Verified /\ rp_state' = "PARAM"
     \/ NotVerified /\ UNCHANGED rp_state
  /\ UNCHANGED <<ringVars, deviceVars, left, capture>>

(* adc_init opens the device, maps its buffer and empties the ring; Comedi  *)
(* may give a bigger buffer than was asked for.                             *)
AdcInit ==
  /\ adc' = "ready"
  /\ a_bufsz' \in {b \in BufSize : b >= params.bufsz}
  /\ a_head' = 0 /\ a_tail' = 0
  /\ produced' = 0 /\ silent' = FALSE
  /\ UNCHANGED high_water_mark

(* Init: the parameters are verified again.                                 *)
ReaderInit ==
  /\ rpc = "command" /\ rpc' = "data" /\ rp_state = "PARAM"
  /\ params' = params
  /\ \/ /\ NotVerified \/ Verified
        /\ rp_state' = "ERROR"
        /\ UNCHANGED <<ringVars, deviceVars>>
     \/ /\ Valid(params)
        /\ buf_hwm_samples' = Hwm(params) /\ buf_window_samples' = Window(params)
        /\ AdcInit /\ rp_state' = "RESTING"
  /\ UNCHANGED <<left, capture>>

(* adc_start_data_transfer: Comedi refuses a device that is not open.       *)
AdcStart == adc = "ready" /\ adc' = "running"

ReaderGo ==
  /\ rpc = "command" /\ rpc' = "data" /\ rp_state = "RESTING"
  /\ capture < MaxCapture
  /\ capture' = capture + 1
  /\ \/ AdcStart /\ rp_state' = "ARMED" /\ left' = SyncWait
     \/ rp_state' = "ERROR" /\ UNCHANGED <<adc, left>>
  /\ UNCHANGED <<policyVars, ringVars, deviceVars>>

ReaderHalt ==
  /\ rpc = "command" /\ rpc' = "data" /\ Running
  /\ Stopped
  /\ UNCHANGED <<policyVars, ringVars, deviceVars, left, capture>>

(* Quit, or the end of the loop after an interrupt: reader_main returns.    *)
ReaderQuit ==
  /\ rpc = "command" /\ rpc' = "ended"
  /\ adc' = IF rp_state \in {"ARMED", "RUN", "RESTING"} THEN "none" ELSE adc
  /\ UNCHANGED <<rp_state, policyVars, ringVars, deviceVars, left, capture>>
-----------------------------------------------------------------------------
Device == (\E n \in Batch : Produce(n)) \/ FallSilent

Reader == \/ ReaderCollect \/ ReaderDry \/ ReaderIdle \/ ReaderPoll
          \/ ReaderParam \/ ReaderInit \/ ReaderGo \/ ReaderHalt \/ ReaderQuit

Next == Device \/ Tick \/ Reader

Spec == Init /\ [][Next]_vars

(* The loop goes round and time passes; the device owes nothing.            *)
FairSpec == Spec /\ WF_vars(Reader) /\ WF_vars(Tick)
-----------------------------------------------------------------------------
(***************************************************************************)
(* Properties.                                                             *)
(***************************************************************************)

(* The ring never holds more than the Comedi buffer once a capture has made *)
(* its first purge, and before it if the mark it started with is no higher  *)
(* than the policy's: whatever sizes verify_reader_params let through, the  *)
(* headroom covers what arrives till the next collection (reader.c:577-589). *)
RingBound ==
  adc = "running" /\ (a_tail > 0 \/ high_water_mark <= buf_hwm_samples)
    => produced - a_tail <= a_bufsz

(* Of a running capture the last window is always there to be snapped, or   *)
(* all of it when it is shorter (adc.c:525-530, reader.c:585).              *)
WindowKept ==
  adc = "running" /\ a_tail > 0 => a_head - a_tail >= buf_window_samples

(* The state that guards the commands agrees with the ADC the loop and the  *)
(* WRITER look at, over every path of failure: data are taken exactly in    *)
(* ARMED and RUN, PARAM has an ADC to initialise, and a READER that has     *)
(* ended leaves no transfer going (reader.c:79-112, 676-679).               *)
StateMatchesAdc ==
  /\ rpc # "ended" => (Running <=> adc = "running")
  /\ rpc # "ended" /\ rp_state = "PARAM" => adc = "new"
  /\ rpc = "ended" => adc # "running"

(* The inductive invariant: the policy in force fits the buffer mapped, and *)
(* after a purge the mark and the tail agree with it.                       *)
PolicyFits ==
  /\ 0 <= buf_window_samples /\ buf_window_samples <= buf_hwm_samples
  /\ adc \in {"ready", "running"}
       => buf_hwm_samples + HeadroomChunks * Chunk <= a_bufsz

RingInv ==
  /\ adc = "ready" => a_head = 0 /\ a_tail = 0 /\ produced = 0
  /\ adc = "running" =>
       /\ produced - a_head <= MaxBatch
       /\ a_tail > 0 => /\ high_water_mark = a_tail + buf_hwm_samples
                        /\ a_head - a_tail >= buf_window_samples
       /\ a_tail > 0 \/ high_water_mark <= buf_hwm_samples
            => a_head - a_tail <= buf_hwm_samples

LoopInv ==
  /\ rpc \in {"dry", "aborted"} => adc = "running"
  /\ StateMatchesAdc

IInv == TypeOK /\ PolicyFits /\ RingInv /\ LoopInv

(* When the device falls silent the capture is stopped, whether data had    *)
(* been seen or not (reader.c:592-601).                                     *)
DrySpellEnds == (silent /\ adc = "running") ~> (adc # "running" \/ rpc = "aborted")

(* "One of periodically advancing the tail to avoid buffer overrun"         *)
(* (adc.c:526-527): the Comedi buffer is never overrun.                     *)
NoOverrun == adc = "running" => produced - a_tail <= a_bufsz
=============================================================================
