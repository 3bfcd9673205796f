-------------------------- MODULE ReaderRingProofs --------------------------
(***************************************************************************)
(* Proofs about ReaderRing: for every parameter value the program accepts, *)
(* every order of commands and every pace of the device within             *)
(* PaceAssumption.                                                         *)
(***************************************************************************)
EXTENDS ReaderRing, TLAPS

USE RingConstants, DefaultAssumption, PaceAssumption

(* The rounding of verify_reader_params yields whole samples.               *)
LEMMA RoundUpType == ASSUME NEW n \in Int PROVE RoundUp(n) \in Int
<1>1. (n + Page - 1) \div Page \in Int
  OBVIOUS
<1> QED BY <1>1 DEF RoundUp

(* Sizes computed for a setting are whole samples.                          *)
LEMMA SizesType ==
  ASSUME NEW p \in Setting
  PROVE  Hwm(p) \in Int /\ Window(p) \in Int
<1>1. p.bufsz \in Nat /\ Chunk \in Nat
  BY DEF Setting
<1>2. ComputedHwm(p) \in Int
  BY <1>1, RoundUpType DEF ComputedHwm, HeadroomChunks
<1>3. RoundUp((MaxHwm * p.bufsz) \div 100) \in Int
  <2>1. (MaxHwm * p.bufsz) \div 100 \in Int
    BY <1>1 DEF MaxHwm
  <2> QED BY <2>1, RoundUpType
<1>4. p.bufhwm # Unset => RoundUp((p.bufhwm * p.bufsz) \div 100) \in Int
  <2> SUFFICES ASSUME p.bufhwm # Unset
               PROVE  RoundUp((p.bufhwm * p.bufsz) \div 100) \in Int
    OBVIOUS
  <2>1. p.bufhwm \in Nat
    BY DEF Setting
  <2>2. p.bufhwm * p.bufsz \in Nat
    BY <1>1, <2>1
  <2>3. (p.bufhwm * p.bufsz) \div 100 \in Int
    BY <2>2
  <2> QED BY <2>3, RoundUpType
<1>5. Hwm(p) \in Int
  BY <1>2, <1>3, <1>4 DEF Hwm
<1>6. p.window # Unset => RoundUp(p.window) \in Int
  <2> SUFFICES ASSUME p.window # Unset PROVE RoundUp(p.window) \in Int
    OBVIOUS
  <2>1. p.window \in Nat
    BY DEF Setting
  <2> QED BY <2>1, RoundUpType
<1>7. Window(p) \in Int
  BY <1>1, <1>5, <1>6 DEF Window
<1> QED BY <1>5, <1>7

(* What the checks of verify_reader_params guarantee of the policy.         *)
LEMMA ValidPolicy ==
  ASSUME NEW p \in Setting, Valid(p)
  PROVE  /\ 0 <= Window(p) /\ Window(p) <= Hwm(p)
         /\ Hwm(p) + HeadroomChunks * Chunk <= p.bufsz
<1>1. Hwm(p) \in Int /\ Window(p) \in Int
  BY SizesType
<1>2. /\ Chunk <= Window(p) /\ Window(p) <= Hwm(p)
      /\ Hwm(p) + HeadroomChunks * Chunk <= p.bufsz
  BY DEF Valid
<1>3. Chunk \in Nat
  OBVIOUS
<1> QED BY <1>1, <1>2, <1>3

LEMMA InitIInv == Init => IInv
<1> SUFFICES ASSUME Init PROVE IInv
  OBVIOUS
<1>1. TypeOK
  <2>1. Default \in Setting /\ Hwm(Default) \in Int /\ Window(Default) \in Int
    BY SizesType
  <2>2. /\ rp_state \in {"ERROR", "PARAM", "RESTING", "ARMED", "RUN"}
        /\ rpc \in {"data", "dry", "command", "ended", "aborted"}
        /\ adc \in {"none", "new", "ready", "running"}
        /\ silent \in BOOLEAN
    BY DEF Init
  <2>3. params \in Setting /\ buf_hwm_samples \in Int
        /\ buf_window_samples \in Int /\ high_water_mark \in Int
    BY <2>1 DEF Init
  <2>4. /\ a_bufsz \in Nat /\ a_head \in Nat /\ a_tail \in Nat /\ produced \in Nat
        /\ a_tail <= a_head /\ a_head <= produced
        /\ left \in Int /\ capture \in Nat
    BY DEF Init
  <2> QED BY <2>2, <2>3, <2>4 DEF TypeOK
<1>2. PolicyFits
  BY ValidPolicy DEF Init, PolicyFits
<1> QED BY <1>1, <1>2 DEF Init, IInv, RingInv, LoopInv, StateMatchesAdc, Running

LEMMA Inductive == IInv /\ [Next]_vars => IInv'
<1> SUFFICES ASSUME IInv, [Next]_vars PROVE IInv'
  OBVIOUS
<1> HIDE DefaultAssumption
<1> USE DEF IInv, TypeOK, policyVars, ringVars, deviceVars
<1>1. ASSUME NEW n \in Batch, Produce(n) PROVE IInv'
  <2> USE <1>1 DEF Produce
  <2>1. TypeOK'
    OBVIOUS
  <2>2. PolicyFits'
    BY DEF PolicyFits, LoopInv, StateMatchesAdc, Running
  <2>3. RingInv'
    BY DEF RingInv, PolicyFits, LoopInv, StateMatchesAdc, Running, HeadroomChunks
  <2>4. LoopInv'
    BY DEF LoopInv, StateMatchesAdc, Running
  <2> QED BY <2>1, <2>2, <2>3, <2>4
<1>2. ASSUME FallSilent PROVE IInv'
  <2> USE <1>2 DEF FallSilent
  <2>1. TypeOK'
    OBVIOUS
  <2>2. PolicyFits'
    BY DEF PolicyFits, LoopInv, StateMatchesAdc, Running
  <2>3. RingInv'
    BY DEF RingInv, PolicyFits, LoopInv, StateMatchesAdc, Running, HeadroomChunks
  <2>4. LoopInv'
    BY DEF LoopInv, StateMatchesAdc, Running
  <2> QED BY <2>1, <2>2, <2>3, <2>4
<1>3. ASSUME Tick PROVE IInv'
  <2> USE <1>3 DEF Tick
  <2>1. TypeOK'
    OBVIOUS
  <2>2. PolicyFits'
    BY DEF PolicyFits, LoopInv, StateMatchesAdc, Running
  <2>3. RingInv'
    BY DEF RingInv, PolicyFits, LoopInv, StateMatchesAdc, Running, HeadroomChunks
  <2>4. LoopInv'
    BY DEF LoopInv, StateMatchesAdc, Running
  <2> QED BY <2>1, <2>2, <2>3, <2>4
<1>4. ASSUME ReaderCollect PROVE IInv'
  <2> USE <1>4 DEF ReaderCollect, MustPurge, LowWater, NewData, NextMark
  <2>1. TypeOK'
    <3>1. a_head' \in Nat /\ a_head <= produced /\ produced' = produced
      OBVIOUS
    <3>2. a_tail' \in Nat /\ high_water_mark' \in Int /\ a_tail' <= a_head'
      BY DEF PolicyFits
    <3>3. rp_state' \in {"ERROR", "PARAM", "RESTING", "ARMED", "RUN"}
          /\ rpc' \in {"data", "dry", "command", "ended", "aborted"}
          /\ left' \in Int
      OBVIOUS
    <3> QED BY <3>1, <3>2, <3>3
  <2>2. PolicyFits'
    BY DEF PolicyFits, LoopInv, StateMatchesAdc, Running
  <2>3. RingInv'
    BY DEF RingInv, PolicyFits, LoopInv, StateMatchesAdc, Running, HeadroomChunks
  <2>4. LoopInv'
    BY DEF LoopInv, StateMatchesAdc, Running
  <2> QED BY <2>1, <2>2, <2>3, <2>4
<1>5. ASSUME ReaderDry PROVE IInv'
  <2> USE <1>5 DEF ReaderDry, Stopped
  <2>1. TypeOK'
    OBVIOUS
  <2>2. PolicyFits'
    BY DEF PolicyFits, LoopInv, StateMatchesAdc, Running
  <2>3. RingInv'
    BY DEF RingInv, PolicyFits, LoopInv, StateMatchesAdc, Running, HeadroomChunks
  <2>4. LoopInv'
    BY DEF LoopInv, StateMatchesAdc, Running
  <2> QED BY <2>1, <2>2, <2>3, <2>4
<1>6. ASSUME ReaderIdle PROVE IInv'
  <2> USE <1>6 DEF ReaderIdle
  <2>1. TypeOK'
    OBVIOUS
  <2>2. PolicyFits'
    BY DEF PolicyFits, LoopInv, StateMatchesAdc, Running
  <2>3. RingInv'
    BY DEF RingInv, PolicyFits, LoopInv, StateMatchesAdc, Running, HeadroomChunks
  <2>4. LoopInv'
    BY DEF LoopInv, StateMatchesAdc, Running
  <2> QED BY <2>1, <2>2, <2>3, <2>4
<1>7. ASSUME ReaderPoll PROVE IInv'
  <2> USE <1>7 DEF ReaderPoll
  <2>1. TypeOK'
    OBVIOUS
  <2>2. PolicyFits'
    BY DEF PolicyFits, LoopInv, StateMatchesAdc, Running
  <2>3. RingInv'
    BY DEF RingInv, PolicyFits, LoopInv, StateMatchesAdc, Running, HeadroomChunks
  <2>4. LoopInv'
    BY DEF LoopInv, StateMatchesAdc, Running
  <2> QED BY <2>1, <2>2, <2>3, <2>4
<1>8. ASSUME ReaderParam PROVE IInv'
  <2> USE <1>8 DEF ReaderParam, Verified, NotVerified
  <2>1. params' \in Setting
    BY DEF ReaderParam, Assigned
  <2>2. Valid(params') => /\ Hwm(params') \in Int /\ Window(params') \in Int
                          /\ 0 <= Window(params') /\ Window(params') <= Hwm(params')
                          /\ Hwm(params') + HeadroomChunks * Chunk <= params'.bufsz
    BY <2>1, SizesType, ValidPolicy
  <2>3. TypeOK'
    BY <2>1, <2>2
  <2>4. PolicyFits'
    BY <2>1, <2>2 DEF PolicyFits, LoopInv, StateMatchesAdc, Running
  <2>5. RingInv'
    BY <2>1, <2>2 DEF RingInv, PolicyFits, LoopInv, StateMatchesAdc, Running, HeadroomChunks
  <2>6. LoopInv'
    BY DEF LoopInv, StateMatchesAdc, Running
  <2> QED BY <2>3, <2>4, <2>5, <2>6
<1>9. ASSUME ReaderInit PROVE IInv'
  <2> USE <1>9 DEF ReaderInit, AdcInit
  <2>1. params' = params
    OBVIOUS
  <2>2. Valid(params) => /\ Hwm(params) \in Int /\ Window(params) \in Int
                         /\ 0 <= Window(params) /\ Window(params) <= Hwm(params)
                         /\ Hwm(params) + HeadroomChunks * Chunk <= params.bufsz
    BY SizesType, ValidPolicy
  <2>3. CASE rp_state' = "ERROR"
    <3>1. /\ NotVerified \/ Verified
          /\ UNCHANGED <<ringVars, deviceVars, left, capture>>
          /\ rpc' = "data"
      BY <2>3
    <3>2. adc # "running" /\ adc' \in {"none", "new", "ready"}
      BY <3>1 DEF NotVerified, Verified, LoopInv, StateMatchesAdc, Running
    <3>3. TypeOK'
      BY <2>1, <2>2, <2>3, <3>1, <3>2 DEF NotVerified, Verified
    <3>4. PolicyFits'
      BY <2>1, <2>2, <3>1, <3>2 DEF NotVerified, Verified, PolicyFits
    <3>5. RingInv'
      BY <3>1, <3>2 DEF NotVerified, Verified, RingInv
    <3>6. LoopInv'
      BY <2>3, <3>1, <3>2 DEF LoopInv, StateMatchesAdc, Running
    <3> QED BY <3>3, <3>4, <3>5, <3>6
  <2>4. CASE rp_state' = "RESTING"
    <3>1. /\ Valid(params) /\ adc' = "ready" /\ rpc' = "data"
          /\ buf_hwm_samples' = Hwm(params) /\ buf_window_samples' = Window(params)
          /\ a_bufsz' \in BufSize /\ a_bufsz' >= params.bufsz
          /\ a_head' = 0 /\ a_tail' = 0 /\ produced' = 0 /\ silent' = FALSE
          /\ UNCHANGED <<high_water_mark, left, capture>>
      BY <2>4
    <3>2. params.bufsz \in Nat /\ a_bufsz' \in Nat
      BY <3>1 DEF Setting
    <3>3. TypeOK'
      <4>1. buf_hwm_samples' \in Int /\ buf_window_samples' \in Int
        BY <2>2, <3>1
      <4>2. /\ a_head' \in Nat /\ a_tail' \in Nat /\ produced' \in Nat
            /\ a_tail' <= a_head' /\ a_head' <= produced'
        BY <3>1
      <4>3. high_water_mark' \in Int /\ left' \in Int /\ capture' \in Nat
        BY <3>1
      <4>4. silent' \in BOOLEAN
        BY <3>1, Zenon
      <4> QED BY <2>1, <2>4, <3>1, <3>2, <4>1, <4>2, <4>3, <4>4
    <3>4. PolicyFits'
      BY <2>2, <3>1, <3>2 DEF PolicyFits, HeadroomChunks
    <3>5. RingInv'
      BY <3>1 DEF RingInv
    <3>6. LoopInv'
      BY <2>4, <3>1 DEF LoopInv, StateMatchesAdc, Running
    <3> QED BY <3>3, <3>4, <3>5, <3>6
  <2> QED BY <2>3, <2>4
<1>10. ASSUME ReaderGo PROVE IInv'
  <2> USE <1>10 DEF ReaderGo, AdcStart
  <2>1. TypeOK'
    OBVIOUS
  <2>2. PolicyFits'
    BY DEF PolicyFits, LoopInv, StateMatchesAdc, Running
  <2>3. RingInv'
    BY DEF RingInv, PolicyFits, LoopInv, StateMatchesAdc, Running, HeadroomChunks
  <2>4. LoopInv'
    BY DEF LoopInv, StateMatchesAdc, Running
  <2> QED BY <2>1, <2>2, <2>3, <2>4
<1>11. ASSUME ReaderHalt PROVE IInv'
  <2> USE <1>11 DEF ReaderHalt, Stopped
  <2>1. TypeOK'
    OBVIOUS
  <2>2. PolicyFits'
    BY DEF PolicyFits, LoopInv, StateMatchesAdc, Running
  <2>3. RingInv'
    BY DEF RingInv, PolicyFits, LoopInv, StateMatchesAdc, Running, HeadroomChunks
  <2>4. LoopInv'
    BY DEF LoopInv, StateMatchesAdc, Running
  <2> QED BY <2>1, <2>2, <2>3, <2>4
<1>12. ASSUME ReaderQuit PROVE IInv'
  <2> USE <1>12 DEF ReaderQuit
  <2>1. TypeOK'
    OBVIOUS
  <2>2. PolicyFits'
    BY DEF PolicyFits, LoopInv, StateMatchesAdc, Running
  <2>3. RingInv'
    BY DEF RingInv, PolicyFits, LoopInv, StateMatchesAdc, Running, HeadroomChunks
  <2>4. LoopInv'
    BY DEF LoopInv, StateMatchesAdc, Running
  <2> QED BY <2>1, <2>2, <2>3, <2>4
<1>13. ASSUME UNCHANGED vars PROVE IInv'
  BY <1>13 DEF vars, PolicyFits, RingInv, LoopInv, StateMatchesAdc, Running
<1> QED BY <1>1, <1>2, <1>3, <1>4, <1>5, <1>6, <1>7, <1>8, <1>9, <1>10, <1>11, <1>12, <1>13 DEF Next, Device, Reader

(* The inductive invariant holds.                                           *)
THEOREM Invariance == Spec => []IInv
<1>1. Init => IInv
  BY InitIInv
<1>2. IInv /\ [Next]_vars => IInv'
  BY Inductive
<1> QED BY <1>1, <1>2, PTL DEF Spec

(* Every variable keeps its type.                                           *)
THEOREM TypeCorrect == Spec => []TypeOK
<1>1. IInv => TypeOK
  BY DEF IInv
<1> QED BY <1>1, Invariance, PTL

(* The ring does not overflow once the mark is the policy's.                *)
THEOREM RingIsBounded == Spec => []RingBound
<1>1. IInv => RingBound
  <2> SUFFICES ASSUME IInv, adc = "running",
                      a_tail > 0 \/ high_water_mark <= buf_hwm_samples
               PROVE  produced - a_tail <= a_bufsz
    BY DEF RingBound
  <2>1. produced - a_head <= MaxBatch /\ a_head - a_tail <= buf_hwm_samples
    BY DEF IInv, RingInv
  <2>2. buf_hwm_samples + HeadroomChunks * Chunk <= a_bufsz
    BY DEF IInv, PolicyFits
  <2> QED BY <2>1, <2>2 DEF IInv, TypeOK, HeadroomChunks
<1> QED BY <1>1, Invariance, PTL

(* The last window of a running capture is never purged.                    *)
THEOREM WindowIsKept == Spec => []WindowKept
<1>1. IInv => WindowKept
  BY DEF IInv, RingInv, WindowKept
<1> QED BY <1>1, Invariance, PTL

(* The READER's state tells what its ADC is doing.                          *)
THEOREM StateTellsAdc == Spec => []StateMatchesAdc
<1>1. IInv => StateMatchesAdc
  BY DEF IInv, LoopInv
<1> QED BY <1>1, Invariance, PTL
=============================================================================
