-------------------------- MODULE IohVideoInProofs --------------------------
(***************************************************************************)
(* Proofs about IohVideoIn, for any inputs, any number of captures and any *)
(* set of departures from the plain use of the driver.                     *)
(***************************************************************************)
EXTENDS IohVideoIn, TLAPS

---------------------------------------------------------------------------
(* The inductive invariant *)

(* A call is on an open file, of a device that is there unless it was      *)
(* removed in use; while the file is closed neither the handler nor the    *)
(* engine can run, and only what is left of a callback may still be on its *)
(* way.                                                                    *)
Session ==
  /\ bound => "frames" \in held
  /\ ~bound => held \subseteq Lost
  /\ opened /\ Orderly("remove") => bound
  /\ ~opened =>
       proc = "idle" /\ lines = {} /\ isr = "idle" /\ ~DmaOn /\ ~pending
  /\ proc = "close dma" => isr = "idle" /\ "irq" \notin lines
  /\ pending => cb = "idle"

(* Nothing that starts DMA can run before the descriptors have been made   *)
(* (the first line is the bound on rings).                                 *)
Described ==
  /\ proc \in {"on setup", "on alloc"} => captures < MaxCaptures
  /\ proc = "on make" => desc # 0
  /\ proc \in {"on flag", "on arm"} => desc # 0 /\ starts = desc /\ laidOut = input
  /\ starts = 0 => isr = "idle" /\ cb = "idle" /\ ~intenb /\ ~DmaOn /\ ~pending

(* The hardware is set up for the input, as long as nobody changed it.     *)
InputSet == ~selected => hw \in {input, Invalid}

Quiet == isr = "idle" /\ cb = "idle" /\ ~pending /\ ~intenb /\ ~DmaOn

Stopping == {"off int", "off dma", "sleep", "free"}

(* A ring outlives what may start the engine on it: when cap_stop frees it *)
(* the interrupt is off and the handlers are idle, so that nobody is left  *)
(* to turn it on again, and what the engine completes then is dropped at   *)
(* cap_stop_flag before the sleep ends. Rings that a second start forgets  *)
(* are never freed.                                                        *)
Housed ==
  Orderly("stop") =>
    /\ starts \notin live => Quiet
    /\ DmaOn => dma.ring \in live
    /\ proc \in Stopping => capStopFlag
    /\ proc \in {"off dma", "sleep", "free"} => isr = "idle" /\ cb = "idle" /\ ~intenb
    /\ proc \in {"sleep", "free"} => ~dmarenb
    /\ proc = "sleep" /\ pending => "cb" \in drain
    /\ proc = "free" => Quiet

(* A capture owns the ring it runs on from StartArm to StopFree, and       *)
(* outside of that nothing moves.                                          *)
Ringed ==
  WellStopped =>
    /\ ~startCap => Quiet
    /\ startCap =>
         /\ opened /\ proc \in {"idle", "dqbuf"} \cup Stopping
         /\ desc # 0 /\ starts = desc /\ laidOut = input
         /\ DmaOn => dma.ring = desc
    /\ proc \in Stopping => startCap

Starting == {"start", "start int", "start dma", "started"}

(* cap_start_flag is set until the first vsync has started the engine at   *)
(* frame 0, with frame_index still 0.                                      *)
FirstFrame ==
  WellStopped =>
    /\ capStartFlag =>
         /\ frameIndex = 0 /\ ~pending /\ cb = "idle"
         /\ DmaOn => isr \in Starting \cup {"rearm int", "rearm dma", "clear err", "test start"}
    /\ isr \in Starting => capStartFlag
    /\ proc \in {"on setup", "on alloc", "on make", "on flag", "on arm"} => frameIndex = 0

(* How far ahead of the frame to be reported next the engine is.           *)
Gap(n, f, i) == IF f >= i THEN f - i ELSE f - i + n
Ahead == Gap(nFrameBuf, dma.frame, frameIndex)
Farthest == nFrameBuf - 1

(* A frame that has been completed will be reported. *)
Reporting == cb \in {"check", "report"} \/ (pending /\ ~capStopFlag)
(* The next frame that is completed will be reported. *)
Waiting == ~Reporting /\ ~capStopFlag /\ cb # "stop dma"

NeverLapped ==
  WellStopped /\ DmaOn =>
    /\ Reporting => Ahead # 0
    /\ Waiting => Ahead # Farthest

(* With three buffers a restart puts the engine one frame ahead of the     *)
(* report, so that from its second frame on the report finds what it       *)
(* completed the time before.                                              *)
WholeFrames ==
  WellStopped /\ nFrameBuf = 3 =>
    /\ Reporting => frameIndex \notin torn \/ restarted
    /\ Reporting /\ DmaOn /\ Ahead = 2 => (frameIndex + 1) % 3 \notin torn
    /\ Waiting /\ DmaOn /\ Ahead = 1 => frameIndex \notin torn \/ restarted

IInv ==
  /\ TypeOK /\ Session /\ Described /\ InputSet
  /\ Housed /\ Ringed /\ FirstFrame /\ NeverLapped /\ WholeFrames

---------------------------------------------------------------------------
(* Type correctness, part by part *)

ProcType == proc \in ProcPc

HandlerType == isr \in IsrPc /\ cb \in CbPc /\ drain \subseteq {"isr", "cb"}

FileType ==
  /\ held \subseteq Acquired(7) \cup Lost
  /\ lines \subseteq {"irq", "channel"}
  /\ orderly \subseteq Uses
  /\ input \in Inputs /\ hw \in Inputs \cup {Invalid} /\ laidOut \in Inputs

FlagType ==
  /\ opened \in BOOLEAN /\ startCap \in BOOLEAN /\ selected \in BOOLEAN
  /\ reset \in BOOLEAN /\ intenb \in BOOLEAN /\ dmarenb \in BOOLEAN
  /\ errFlag \in BOOLEAN /\ capStartFlag \in BOOLEAN /\ capStopFlag \in BOOLEAN
  /\ pending \in BOOLEAN /\ overflow \in BOOLEAN /\ restarted \in BOOLEAN

CountType ==
  /\ nFrameBuf \in 3..5
  /\ refreshCount \in 0..RefreshPeriod /\ frameIndex \in FrameNumbers

RingType ==
  /\ nFrameBuf \in 3..5
  /\ captures \in 0..MaxCaptures /\ live \subseteq 1..captures
  /\ desc \in {0} \cup live /\ starts \in 0..captures
  /\ dma \in {Off} \cup [ring : 1..captures, frame : FrameNumbers]
  /\ torn \subseteq FrameNumbers

LEMMA ProcStep == ProcType /\ [Next]_vars => ProcType'
<1> SUFFICES ASSUME ProcType, [Next]_vars PROVE ProcType'
  OBVIOUS
<1> USE DEF ProcType, ProcPc, fileVars, regVars, flagVars, ringVars, imageVars,
        isrVars, cbVars
<1>1. ASSUME UNCHANGED <<proc>> PROVE ProcType'
  BY <1>1
<1>2. CASE \/ Probe \/ Remove \/ Open \/ SelectInput \/ FrameDone
       \/ (\E vsync \in BOOLEAN : IsrEnter(vsync)) \/ IsrRestart \/ IsrRearm
       \/ IsrClearError \/ IsrTestStart \/ IsrStart \/ IsrStarted \/ IsrOverflow
       \/ IsrSetError \/ CbEnter \/ CbCheck \/ CbRefresh \/ CbReport
  BY <1>1, <1>2 DEF Probe, Remove, Open, SelectInput, FrameDone, IsrEnter, IsrRestart,
     IsrRearm, IsrClearError, IsrTestStart, IsrStart, IsrStarted, IsrOverflow,
     IsrSetError, CbEnter, CbCheck, CbRefresh, CbReport
<1>3. CASE CloseHw
  BY <1>3 DEF CloseHw, InitIntenb, Calls
<1>4. CASE StreamOn
  BY <1>4 DEF StreamOn, FrameNumbers, Calls
<1>5. CASE StreamOff
  BY <1>5 DEF StreamOff, Calls
<1>6. CASE DequeueBuffer
  BY <1>6 DEF DequeueBuffer, Calls
<1>7. CASE DequeueInterrupted
  BY <1>7 DEF DequeueInterrupted, Calls
<1>8. CASE CloseIrq
  BY <1>8 DEF CloseIrq, Calls
<1>9. CASE CloseDma
  BY <1>9 DEF CloseDma, StopDma, Torn, DmaOn, Off, Calls
<1>10. CASE StartSetup
  BY <1>10 DEF StartSetup, SetupHw, InitIntenb, ReadBack
<1>11. CASE StartAlloc
  BY <1>11 DEF StartAlloc
<1>12. CASE StartMake
  BY <1>12 DEF StartMake, Calls
<1>13. CASE StartFlag
  BY <1>13 DEF StartFlag, Calls
<1>14. CASE StartArm
  BY <1>14 DEF StartArm, EnableInterrupts, Calls
<1>15. CASE StopInterrupt
  BY <1>15 DEF StopInterrupt, DisableInterrupts, Calls
<1>16. CASE StopRequests
  BY <1>16 DEF StopRequests, DisableRequests, Calls
<1>17. CASE StopDisable
  BY <1>17 DEF StopDisable, StopDma, Torn, DmaOn, Off, Calls
<1>18. CASE StopFree
  BY <1>18 DEF StopFree, Calls
<1>19. CASE UNCHANGED vars
  BY <1>1, <1>19 DEF vars
<1> QED
  BY <1>2, <1>3, <1>4, <1>5, <1>6, <1>7, <1>8, <1>9, <1>10, <1>11, <1>12, <1>13, <1>14,
     <1>15, <1>16, <1>17, <1>18, <1>19
  DEF Next, CallStep, IsrStep, CbStep

LEMMA HandlerStep == HandlerType /\ [Next]_vars => HandlerType'
<1> SUFFICES ASSUME HandlerType, [Next]_vars PROVE HandlerType'
  OBVIOUS
<1> USE DEF HandlerType, IsrPc, CbPc, fileVars, regVars, flagVars, ringVars, imageVars,
        isrVars, cbVars
<1>1. ASSUME UNCHANGED <<isr, cb, drain>> PROVE HandlerType'
  BY <1>1
<1>2. CASE \/ Probe \/ Remove \/ Open \/ CloseHw \/ StreamOn \/ StreamOff
       \/ SelectInput \/ DequeueBuffer \/ DequeueInterrupted \/ CloseIrq
       \/ CloseDma \/ StartSetup \/ StartAlloc \/ StartMake \/ StartFlag
       \/ StartArm \/ StopInterrupt \/ StopDisable \/ StopFree \/ FrameDone
  BY <1>1, <1>2 DEF Probe, Remove, Open, CloseHw, InitIntenb, StreamOn, StreamOff,
     SelectInput, DequeueBuffer, DequeueInterrupted, CloseIrq, CloseDma, StartSetup, StartAlloc,
     StartMake, StartFlag, StartArm, StopInterrupt, StopDisable, StopFree, FrameDone
<1>3. CASE StopRequests
  BY <1>3 DEF StopRequests, DisableRequests, Calls
<1>4. ASSUME NEW vsync \in BOOLEAN, IsrEnter(vsync) PROVE HandlerType'
  BY <1>4 DEF IsrEnter, Min
<1>5. CASE IsrRestart
  BY <1>5 DEF IsrRestart, RestartFrame, StartDma, Torn, DmaOn, Off, OnRing, IsrGoes
<1>6. CASE IsrRearm
  BY <1>6 DEF IsrRearm, EnableRequests, IsrGoes, EnableInterrupts
<1>7. CASE IsrClearError
  BY <1>7 DEF IsrClearError, IsrGoes
<1>8. CASE IsrTestStart
  BY <1>8 DEF IsrTestStart, AfterVsync, IsrLeaves, IsrGoes
<1>9. CASE IsrStart
  BY <1>9 DEF IsrStart, StartDma, Torn, DmaOn, Off, OnRing, IsrGoes
<1>10. CASE IsrStarted
  BY <1>10 DEF IsrStarted, AfterVsync, IsrLeaves, IsrGoes
<1>11. CASE IsrOverflow
  BY <1>11 DEF IsrOverflow, EnableInterrupts, IsrGoes, SetupHw, InitIntenb, ReadBack,
     StopDma, Torn, DmaOn, Off
<1>12. CASE IsrSetError
  BY <1>12 DEF IsrSetError, IsrLeaves
<1>13. CASE CbEnter
  BY <1>13 DEF CbEnter
<1>14. CASE CbCheck
  BY <1>14 DEF CbCheck, CbGoes, Leaves
<1>15. CASE CbRefresh
  BY <1>15 DEF CbRefresh, EnableInterrupts, Leaves, SetupHw, InitIntenb, ReadBack,
     CbGoes, StopDma, Torn, DmaOn, Off
<1>16. CASE CbReport
  BY <1>16 DEF CbReport, Leaves
<1>17. CASE UNCHANGED vars
  BY <1>1, <1>17 DEF vars
<1> QED
  BY <1>2, <1>3, <1>4, <1>5, <1>6, <1>7, <1>8, <1>9, <1>10, <1>11, <1>12, <1>13, <1>14,
     <1>15, <1>16, <1>17
  DEF Next, CallStep, IsrStep, CbStep

LEMMA FileStep == FileType /\ [Next]_vars => FileType'
<1> SUFFICES ASSUME FileType, [Next]_vars PROVE FileType'
  OBVIOUS
<1> USE VideoAssumption DEF FileType, Uses, fileVars, regVars, flagVars, ringVars,
        imageVars,
        isrVars, cbVars
<1>1. ASSUME UNCHANGED <<held, lines, input, hw, laidOut, orderly>> PROVE FileType'
  BY <1>1
<1>2. CASE \/ DequeueBuffer \/ DequeueInterrupted \/ StartAlloc \/ StartFlag
       \/ StartArm \/ StopRequests \/ StopDisable \/ StopFree \/ FrameDone
       \/ IsrRestart \/ IsrRearm \/ IsrClearError \/ IsrTestStart \/ IsrStart
       \/ IsrStarted \/ IsrSetError \/ CbCheck \/ CbReport
  BY <1>1, <1>2 DEF DequeueBuffer, DequeueInterrupted, StartAlloc, StartFlag, StartArm,
     StopRequests, StopDisable, StopFree, FrameDone, IsrRestart, IsrRearm,
     IsrClearError, IsrTestStart, IsrStart, IsrStarted, IsrSetError, CbCheck, CbReport
<1>3. CASE Probe
  <2>1. held' \subseteq Acquired(7) \cup Lost
    BY <1>3 DEF Probe, Undone, Lost
  <2> QED
    BY <1>3, <2>1 DEF Probe, FreshDevice
<1>4. CASE Remove
  BY <1>4 DEF Remove, OrderlyIf, Disorder, Uses, Lost
<1>5. CASE Open
  BY <1>5 DEF Open, SetupHw, InitIntenb, ReadBack, Configured, bound, Free
<1>6. CASE CloseHw
  BY <1>6 DEF CloseHw, InitIntenb, OrderlyIf, Disorder, Uses, Calls
<1>7. CASE StreamOn
  BY <1>7 DEF StreamOn, OrderlyIf, Disorder, Uses, FrameNumbers, Orderly, Calls
<1>8. CASE StreamOff
  BY <1>8 DEF StreamOff, OrderlyIf, Disorder, Uses, Calls
<1>9. CASE SelectInput
  BY <1>9 DEF SelectInput, OrderlyIf, Disorder, Uses, Free
<1>10. CASE CloseIrq
  BY <1>10 DEF CloseIrq, Calls
<1>11. CASE CloseDma
  BY <1>11 DEF CloseDma, StopDma, Torn, DmaOn, Off, Calls
<1>12. CASE StartSetup
  BY <1>12 DEF StartSetup, SetupHw, InitIntenb, ReadBack
<1>13. CASE StartMake
  BY <1>13 DEF StartMake, Calls
<1>14. CASE StopInterrupt
  BY <1>14 DEF StopInterrupt, OrderlyIf, Disorder, Uses, DisableInterrupts, Calls
<1>15. ASSUME NEW vsync \in BOOLEAN, IsrEnter(vsync) PROVE FileType'
  BY <1>15 DEF IsrEnter, OrderlyIf, Disorder, Uses, Min
<1>16. CASE IsrOverflow
  BY <1>16 DEF IsrOverflow, EnableInterrupts, IsrGoes, SetupHw, InitIntenb, ReadBack,
     StopDma, Torn, DmaOn, Off
<1>17. CASE CbEnter
  BY <1>17 DEF CbEnter, OrderlyIf, Disorder, Uses
<1>18. CASE CbRefresh
  BY <1>18 DEF CbRefresh, EnableInterrupts, Leaves, SetupHw, InitIntenb, ReadBack,
     CbGoes, StopDma, Torn, DmaOn, Off
<1>19. CASE UNCHANGED vars
  BY <1>1, <1>19 DEF vars
<1> QED
  BY <1>2, <1>3, <1>4, <1>5, <1>6, <1>7, <1>8, <1>9, <1>10, <1>11, <1>12, <1>13, <1>14,
     <1>15, <1>16, <1>17, <1>18, <1>19
  DEF Next, CallStep, IsrStep, CbStep

LEMMA FlagStep == FlagType /\ [Next]_vars => FlagType'
<1> SUFFICES ASSUME FlagType, [Next]_vars PROVE FlagType'
  OBVIOUS
<1> USE DEF FlagType, fileVars, regVars, flagVars, ringVars, imageVars,
        isrVars, cbVars
<1>1. ASSUME UNCHANGED <<opened, startCap, reset, intenb, dmarenb, errFlag,
        capStartFlag, capStopFlag, pending, overflow, selected, restarted>> PROVE FlagType'
  BY <1>1
<1>2. CASE \/ Remove \/ DequeueBuffer \/ DequeueInterrupted \/ CloseIrq
       \/ StartAlloc \/ StartMake \/ StopDisable \/ IsrTestStart \/ IsrStart
  BY <1>1, <1>2 DEF Remove, DequeueBuffer, DequeueInterrupted, CloseIrq, StartAlloc,
     StartMake, StopDisable, IsrTestStart, IsrStart
<1>3. CASE Probe
  BY <1>3 DEF Probe, FreshDevice, FrameNumbers, bound, Free
<1>4. CASE Open
  BY <1>4 DEF Open, SetupHw, InitIntenb, ReadBack, Configured, bound, Free
<1>5. CASE CloseHw
  BY <1>5 DEF CloseHw, InitIntenb, Calls
<1>6. CASE StreamOn
  BY <1>6 DEF StreamOn, FrameNumbers, Calls
<1>7. CASE StreamOff
  BY <1>7 DEF StreamOff, Calls
<1>8. CASE SelectInput
  BY <1>8 DEF SelectInput, Free
<1>9. CASE CloseDma
  BY <1>9 DEF CloseDma, StopDma, Torn, DmaOn, Off, Calls
<1>10. CASE StartSetup
  BY <1>10 DEF StartSetup, SetupHw, InitIntenb, ReadBack
<1>11. CASE StartFlag
  BY <1>11 DEF StartFlag, Calls
<1>12. CASE StartArm
  BY <1>12 DEF StartArm, EnableInterrupts, Calls
<1>13. CASE StopInterrupt
  BY <1>13 DEF StopInterrupt, DisableInterrupts, Calls
<1>14. CASE StopRequests
  BY <1>14 DEF StopRequests, DisableRequests, Calls
<1>15. CASE StopFree
  BY <1>15 DEF StopFree, Calls
<1>16. CASE FrameDone
  BY <1>16 DEF FrameDone, OnRing, Running, DmaOn, Off
<1>17. ASSUME NEW vsync \in BOOLEAN, IsrEnter(vsync) PROVE FlagType'
  BY <1>17 DEF IsrEnter, Min
<1>18. CASE IsrRestart
  BY <1>18 DEF IsrRestart, RestartFrame, StartDma, Torn, DmaOn, Off, OnRing, IsrGoes
<1>19. CASE IsrRearm
  BY <1>19 DEF IsrRearm, EnableRequests, IsrGoes, EnableInterrupts
<1>20. CASE IsrClearError
  BY <1>20 DEF IsrClearError, IsrGoes
<1>21. CASE IsrStarted
  BY <1>21 DEF IsrStarted, AfterVsync, IsrLeaves, IsrGoes
<1>22. CASE IsrOverflow
  <2>1. reset' \in BOOLEAN /\ intenb' \in BOOLEAN /\ dmarenb' \in BOOLEAN
    BY <1>22 DEF IsrOverflow, EnableInterrupts, SetupHw, InitIntenb
  <2> QED
    BY <1>22, <2>1 DEF IsrOverflow
<1>23. CASE IsrSetError
  BY <1>23 DEF IsrSetError, IsrLeaves
<1>24. CASE CbEnter
  BY <1>24 DEF CbEnter
<1>25. CASE CbCheck
  BY <1>25 DEF CbCheck, CbGoes, Leaves
<1>26. CASE CbRefresh
  <2>1. reset' \in BOOLEAN /\ intenb' \in BOOLEAN /\ dmarenb' \in BOOLEAN
    BY <1>26 DEF CbRefresh, EnableInterrupts, SetupHw, InitIntenb
  <2> QED
    BY <1>26, <2>1 DEF CbRefresh
<1>27. CASE CbReport
  BY <1>27 DEF CbReport, Leaves
<1>28. CASE UNCHANGED vars
  BY <1>1, <1>28 DEF vars
<1> QED
  BY <1>2, <1>3, <1>4, <1>5, <1>6, <1>7, <1>8, <1>9, <1>10, <1>11, <1>12, <1>13, <1>14,
     <1>15, <1>16, <1>17, <1>18, <1>19, <1>20, <1>21, <1>22, <1>23, <1>24, <1>25, <1>26,
     <1>27, <1>28
  DEF Next, CallStep, IsrStep, CbStep

LEMMA CountStep == CountType /\ [Next]_vars => CountType'
<1> SUFFICES ASSUME CountType, [Next]_vars PROVE CountType'
  OBVIOUS
<1> USE VideoAssumption DEF CountType, FrameNumbers, fileVars, regVars, flagVars,
        ringVars, imageVars,
        isrVars, cbVars
<1>1. ASSUME UNCHANGED <<nFrameBuf, refreshCount, frameIndex>> PROVE CountType'
  BY <1>1
<1>2. CASE \/ Remove \/ Open \/ CloseHw \/ StreamOff \/ SelectInput
       \/ DequeueBuffer \/ DequeueInterrupted \/ CloseIrq \/ CloseDma \/ StartSetup
       \/ StartAlloc \/ StartMake \/ StartFlag \/ StartArm \/ StopInterrupt
       \/ StopRequests \/ StopDisable \/ StopFree \/ FrameDone \/ IsrRestart
       \/ IsrRearm \/ IsrClearError \/ IsrTestStart \/ IsrStart \/ IsrStarted
       \/ IsrOverflow \/ IsrSetError \/ CbCheck \/ CbRefresh
  BY <1>1, <1>2 DEF Remove, Open, CloseHw, InitIntenb, StreamOff, SelectInput,
     DequeueBuffer, DequeueInterrupted, CloseIrq, CloseDma, StartSetup, StartAlloc, StartMake,
     StartFlag, StartArm, StopInterrupt, StopRequests, StopDisable, StopFree, FrameDone,
     IsrRestart, IsrRearm, IsrClearError, IsrTestStart, IsrStart, IsrStarted,
     IsrOverflow, IsrSetError, CbCheck, CbRefresh
<1>3. CASE Probe
  BY <1>3 DEF Probe, FreshDevice, FrameNumbers, bound, Free
<1>4. CASE StreamOn
  <2>1. nFrameBuf' = nFrameBuf /\ refreshCount' = 0 /\ frameIndex' = 0
    BY <1>4 DEF StreamOn
  <2> QED
    BY <2>1
<1>5. ASSUME NEW vsync \in BOOLEAN, IsrEnter(vsync) PROVE CountType'
  <2>1. /\ nFrameBuf' = nFrameBuf /\ frameIndex' = frameIndex
        /\ \/ refreshCount' = refreshCount
           \/ refreshCount' = Min(refreshCount + 1, RefreshPeriod)
    BY <1>5 DEF IsrEnter
  <2> QED
    BY <2>1 DEF Min
<1>6. CASE CbEnter
  BY <1>6 DEF CbEnter
<1>7. CASE CbReport
  BY <1>7 DEF CbReport, Leaves
<1>8. CASE UNCHANGED vars
  BY <1>1, <1>8 DEF vars
<1> QED
  BY <1>2, <1>3, <1>4, <1>5, <1>6, <1>7, <1>8
  DEF Next, CallStep, IsrStep, CbStep

LEMMA RingStep == RingType /\ CountType /\ Described /\ [Next]_vars => RingType'
<1> SUFFICES ASSUME RingType, CountType, Described, [Next]_vars PROVE RingType'
  OBVIOUS
<1> USE VideoAssumption DEF RingType, CountType, FrameNumbers, Off, fileVars, regVars,
        flagVars, ringVars, imageVars,
        isrVars, cbVars
<1>1. ASSUME UNCHANGED <<nFrameBuf, captures, live, desc, starts, dma, torn>> PROVE RingType'
  BY <1>1
<1>2. CASE \/ Remove \/ Open \/ CloseHw \/ StreamOff \/ SelectInput
       \/ DequeueBuffer \/ DequeueInterrupted \/ CloseIrq \/ StartSetup
       \/ StartFlag \/ StartArm \/ StopInterrupt \/ StopRequests
       \/ (\E vsync \in BOOLEAN : IsrEnter(vsync)) \/ IsrRearm \/ IsrClearError
       \/ IsrTestStart \/ IsrStarted \/ IsrSetError \/ CbEnter \/ CbCheck
       \/ CbReport
  BY <1>1, <1>2 DEF Remove, Open, CloseHw, InitIntenb, StreamOff, SelectInput,
     DequeueBuffer, DequeueInterrupted, CloseIrq, StartSetup, StartFlag, StartArm, StopInterrupt,
     StopRequests, IsrEnter, IsrRearm, IsrClearError, IsrTestStart, IsrStarted,
     IsrSetError, CbEnter, CbCheck, CbReport
<1>3. CASE Probe
  BY <1>3 DEF Probe, FreshDevice, FrameNumbers, bound, Free
<1>4. CASE StreamOn
  BY <1>4 DEF StreamOn, FrameNumbers, Calls
<1>5. CASE CloseDma
  BY <1>5 DEF CloseDma, StopDma, Torn, DmaOn, Off, Calls
<1>6. CASE StartAlloc
  <2>1. captures' = captures + 1 /\ captures < MaxCaptures
    BY <1>6 DEF StartAlloc, Described
  <2>2. /\ nFrameBuf' = nFrameBuf /\ starts' = starts /\ dma' = dma /\ torn' = torn
        /\ \/ desc' = captures' /\ live' = live \cup {captures'}
           \/ desc' = 0 /\ live' = live
    BY <1>6 DEF StartAlloc
  <2>3. captures' \in 0..MaxCaptures /\ starts' \in 0..captures'
    BY <2>1, <2>2
  <2>4. live \subseteq 1..captures' /\ captures' \in 1..captures'
    BY <2>1
  <2>5. dma' \in {Off} \cup [ring : 1..captures', frame : FrameNumbers]
    BY <2>1, <2>2
  <2> QED
    BY <2>2, <2>3, <2>4, <2>5
<1>7. CASE StartMake
  <2>1. desc \in 0..captures
    OBVIOUS
  <2> QED
    BY <1>7, <2>1 DEF StartMake
<1>8. CASE StopDisable
  BY <1>8 DEF StopDisable, StopDma, Torn, DmaOn, Off, Calls
<1>9. CASE StopFree
  BY <1>9 DEF StopFree, Calls
<1>10. CASE FrameDone
  <2>1. dma \in [ring : 1..captures, frame : FrameNumbers]
    BY <1>10 DEF FrameDone, Running, DmaOn
  <2>2. (dma.frame + 1) % nFrameBuf \in FrameNumbers
    BY <2>1
  <2>3. dma' \in [ring : 1..captures, frame : FrameNumbers]
    BY <1>10, <2>1, <2>2 DEF FrameDone, OnRing
  <2> QED
    BY <1>10, <2>3 DEF FrameDone
<1>11. CASE IsrRestart
  <2>1. starts # 0
    BY <1>11 DEF IsrRestart, IsrGoes, Described
  <2>2. starts \in 1..captures /\ RestartFrame \in FrameNumbers
    BY <2>1 DEF RestartFrame
  <2>3. dma' = OnRing(starts, RestartFrame) /\ torn' = Torn
    BY <1>11 DEF IsrRestart, StartDma
  <2>4. dma' \in [ring : 1..captures, frame : FrameNumbers]
    BY <2>2, <2>3 DEF OnRing
  <2>5. torn' \subseteq FrameNumbers
    BY <2>3 DEF Torn, DmaOn
  <2> QED
    BY <1>11, <2>4, <2>5 DEF IsrRestart
<1>12. CASE IsrStart
  <2>1. starts # 0
    BY <1>12 DEF IsrStart, IsrGoes, Described
  <2>2. starts \in 1..captures /\ 0 \in FrameNumbers
    BY <2>1 DEF RestartFrame
  <2>3. dma' = OnRing(starts, 0) /\ torn' = Torn
    BY <1>12 DEF IsrStart, StartDma
  <2>4. dma' \in [ring : 1..captures, frame : FrameNumbers]
    BY <2>2, <2>3 DEF OnRing
  <2>5. torn' \subseteq FrameNumbers
    BY <2>3 DEF Torn, DmaOn
  <2> QED
    BY <1>12, <2>4, <2>5 DEF IsrStart
<1>13. CASE IsrOverflow
  BY <1>13 DEF IsrOverflow, EnableInterrupts, IsrGoes, SetupHw, InitIntenb, ReadBack,
     StopDma, Torn, DmaOn, Off
<1>14. CASE CbRefresh
  BY <1>14 DEF CbRefresh, EnableInterrupts, Leaves, SetupHw, InitIntenb, ReadBack,
     CbGoes, StopDma, Torn, DmaOn, Off
<1>15. CASE UNCHANGED vars
  BY <1>1, <1>15 DEF vars
<1> QED
  BY <1>2, <1>3, <1>4, <1>5, <1>6, <1>7, <1>8, <1>9, <1>10, <1>11, <1>12, <1>13, <1>14,
     <1>15
  DEF Next, CallStep, IsrStep, CbStep

LEMMA TypeStep == TypeOK /\ Described /\ [Next]_vars => TypeOK'
<1>1. TypeOK => ProcType /\ HandlerType /\ FileType /\ FlagType /\ CountType /\ RingType
  BY DEF TypeOK, ProcType, HandlerType, FileType, FlagType, CountType, RingType
<1>2. ProcType' /\ HandlerType' /\ FileType' /\ FlagType' /\ CountType' /\ RingType' => TypeOK'
  BY DEF TypeOK, ProcType, HandlerType, FileType, FlagType, CountType, RingType
<1> QED
  BY <1>1, <1>2, ProcStep, HandlerStep, FileStep, FlagStep, CountStep, RingStep

---------------------------------------------------------------------------
(* The sessions and the descriptors *)

LEMMA WholeLadder == "video" \in Acquired(7) /\ "frames" \in Acquired(7)
<1>1. Ladder[7] = "video" /\ Ladder[4] = "frames"
  BY DEF Ladder
<1>2. 7 \in 1..7 /\ 4 \in 1..7
  OBVIOUS
<1> QED
  BY <1>1, <1>2 DEF Acquired

LEMMA NewRing == TypeOK => captures + 1 # 0
<1>1. TypeOK => captures \in 0..MaxCaptures
  BY DEF TypeOK
<1> QED
  BY <1>1, VideoAssumption

(* A departure from the plain use is for good. *)
LEMMA OrderlyShrinks == [Next]_vars => orderly' \subseteq orderly
<1> SUFFICES ASSUME [Next]_vars PROVE orderly' \subseteq orderly
  OBVIOUS
<1> USE DEF fileVars, regVars, flagVars, ringVars, imageVars, isrVars, cbVars
<1>1. ASSUME UNCHANGED <<orderly>> PROVE orderly' \subseteq orderly
  BY <1>1
<1>2. CASE \/ Probe \/ Open \/ DequeueBuffer \/ DequeueInterrupted
       \/ CloseIrq \/ CloseDma \/ StartSetup \/ StartAlloc \/ StartMake
       \/ StartFlag \/ StartArm \/ StopRequests \/ StopDisable \/ StopFree
       \/ FrameDone \/ IsrRestart \/ IsrRearm \/ IsrClearError \/ IsrTestStart
       \/ IsrStart \/ IsrStarted \/ IsrOverflow \/ IsrSetError \/ CbCheck
       \/ CbRefresh \/ CbReport
  BY <1>1, <1>2 DEF Probe, Open, DequeueBuffer, DequeueInterrupted, CloseIrq,
     CloseDma, StartSetup, StartAlloc, StartMake, StartFlag, StartArm, StopRequests,
     StopDisable, StopFree, FrameDone, IsrRestart, IsrRearm, IsrClearError,
     IsrTestStart, IsrStart, IsrStarted, IsrOverflow, IsrSetError, CbCheck, CbRefresh,
     CbReport
<1>3. CASE CloseHw
  BY <1>3 DEF CloseHw, InitIntenb, OrderlyIf, Disorder
<1>4. CASE StreamOn
  BY <1>4 DEF StreamOn, OrderlyIf, Disorder, FrameNumbers, Orderly
<1>5. CASE StreamOff
  BY <1>5 DEF StreamOff, OrderlyIf, Disorder
<1>6. CASE SelectInput
  BY <1>6 DEF SelectInput, OrderlyIf, Disorder, Free
<1>7. CASE StopInterrupt
  BY <1>7 DEF StopInterrupt, OrderlyIf, Disorder, DisableInterrupts
<1>8. ASSUME NEW vsync \in BOOLEAN, IsrEnter(vsync) PROVE orderly' \subseteq orderly
  BY <1>8 DEF IsrEnter, OrderlyIf, Disorder, Min
<1>9. CASE CbEnter
  BY <1>9 DEF CbEnter, OrderlyIf, Disorder
<1>10. CASE Remove
  BY <1>10 DEF Remove, OrderlyIf, Disorder, Free
<1>11. CASE UNCHANGED vars
  BY <1>1, <1>11 DEF vars
<1> QED
  BY <1>2, <1>3, <1>4, <1>5, <1>6, <1>7, <1>8, <1>9, <1>10, <1>11
  DEF Next, CallStep, IsrStep, CbStep

LEMMA StillOrderly ==
  ASSUME [Next]_vars, NEW use, Orderly(use)' PROVE Orderly(use)
BY OrderlyShrinks DEF Orderly

LEMMA SessionStep == TypeOK /\ Session /\ [Next]_vars => Session'
<1> SUFFICES ASSUME TypeOK, Session, [Next]_vars PROVE Session'
  OBVIOUS
<1> USE DEF Session, DmaOn, bound, fileVars, regVars, flagVars, ringVars, imageVars, 
        isrVars, cbVars
<1>0. Orderly("remove")' => Orderly("remove")
  BY StillOrderly
<1>1. ASSUME UNCHANGED <<held, proc, opened, lines, dma, pending, isr, cb>> PROVE Session'
  BY <1>0, <1>1
<1>2. CASE \/ SelectInput
  BY <1>0, <1>1, <1>2 DEF SelectInput
<1>3. CASE Probe
  <2>1. held' \in {Acquired(7), {}, {"buffer"}}
    BY <1>0, <1>3 DEF Probe, Undone
  <2>2. ("video" \in held' => "frames" \in held') /\ ("video" \notin held' => held' \subseteq Lost)
    BY <2>1, WholeLadder DEF Lost
  <2>3. ~opened
    BY <1>0, <1>3 DEF Probe
  <2> QED
    BY <1>0, <1>3, <2>2, <2>3 DEF Probe, FreshDevice, Free
<1>4. CASE Remove
  BY <1>0, <1>4 DEF Remove, OrderlyIf, Disorder, Orderly, Lost, Free
<1>5. CASE Open
  BY <1>0, <1>5 DEF Open, SetupHw, InitIntenb, ReadBack, Configured, bound, Free
<1>6. CASE CloseHw
  BY <1>0, <1>6 DEF CloseHw, InitIntenb, Calls
<1>7. CASE StreamOn
  BY <1>0, <1>7 DEF StreamOn, FrameNumbers, Calls
<1>8. CASE StreamOff
  BY <1>0, <1>8 DEF StreamOff, Calls
<1>9. CASE DequeueBuffer
  BY <1>0, <1>9 DEF DequeueBuffer, Calls
<1>10. CASE DequeueInterrupted
  BY <1>0, <1>10 DEF DequeueInterrupted, Calls
<1>11. CASE CloseIrq
  BY <1>0, <1>11 DEF CloseIrq, Calls
<1>12. CASE CloseDma
  <2>1. lines \subseteq {"irq", "channel"}
    BY DEF TypeOK
  <2>2. lines' = {} /\ proc' = "idle" /\ isr' = "idle" /\ dma' = Off /\ pending' = FALSE
    BY <1>0, <1>12, <2>1 DEF CloseDma, StopDma, Calls
  <2> QED
    BY <1>0, <1>12, <2>2 DEF CloseDma
<1>13. CASE StartSetup
  BY <1>0, <1>13 DEF StartSetup, SetupHw, InitIntenb, ReadBack
<1>14. CASE StartAlloc
  BY <1>0, <1>14 DEF StartAlloc
<1>15. CASE StartMake
  BY <1>0, <1>15 DEF StartMake, Calls
<1>16. CASE StartFlag
  BY <1>0, <1>16 DEF StartFlag, Calls
<1>17. CASE StartArm
  BY <1>0, <1>17 DEF StartArm, EnableInterrupts, Calls
<1>18. CASE StopInterrupt
  BY <1>0, <1>18 DEF StopInterrupt, DisableInterrupts, Calls
<1>19. CASE StopRequests
  BY <1>0, <1>19 DEF StopRequests, DisableRequests, Calls
<1>20. CASE StopDisable
  BY <1>0, <1>20 DEF StopDisable, StopDma, Torn, DmaOn, Off, Calls
<1>21. CASE StopFree
  BY <1>0, <1>21 DEF StopFree, Calls
<1>22. CASE FrameDone
  BY <1>0, <1>22 DEF FrameDone, OnRing, Running, DmaOn, Off
<1>23. ASSUME NEW vsync \in BOOLEAN, IsrEnter(vsync) PROVE Session'
  BY <1>0, <1>23 DEF IsrEnter, Min
<1>24. CASE IsrRestart
  BY <1>0, <1>24 DEF IsrRestart, RestartFrame, StartDma, Torn, DmaOn, Off, OnRing, IsrGoes
<1>25. CASE IsrRearm
  BY <1>0, <1>25 DEF IsrRearm, EnableRequests, IsrGoes, EnableInterrupts
<1>26. CASE IsrClearError
  BY <1>0, <1>26 DEF IsrClearError, IsrGoes
<1>27. CASE IsrTestStart
  BY <1>0, <1>27 DEF IsrTestStart, AfterVsync, IsrLeaves, IsrGoes
<1>28. CASE IsrStart
  BY <1>0, <1>28 DEF IsrStart, StartDma, Torn, DmaOn, Off, OnRing, IsrGoes
<1>29. CASE IsrStarted
  BY <1>0, <1>29 DEF IsrStarted, AfterVsync, IsrLeaves, IsrGoes
<1>30. CASE IsrOverflow
  BY <1>0, <1>30 DEF IsrOverflow, EnableInterrupts, IsrGoes, SetupHw, InitIntenb, ReadBack,
     StopDma, Torn, DmaOn, Off
<1>31. CASE IsrSetError
  BY <1>0, <1>31 DEF IsrSetError, IsrLeaves
<1>32. CASE CbEnter
  BY <1>0, <1>32 DEF CbEnter
<1>33. CASE CbCheck
  BY <1>0, <1>33 DEF CbCheck, CbGoes, Leaves
<1>34. CASE CbRefresh
  BY <1>0, <1>34 DEF CbRefresh, EnableInterrupts, Leaves, SetupHw, InitIntenb, ReadBack,
     CbGoes, StopDma, Torn, DmaOn, Off
<1>35. CASE CbReport
  BY <1>0, <1>35 DEF CbReport, Leaves
<1>36. CASE UNCHANGED vars
  BY <1>0, <1>1, <1>36 DEF vars
<1> QED
  BY <1>2, <1>3, <1>4, <1>5, <1>6, <1>7, <1>8, <1>9, <1>10, <1>11, <1>12, <1>13, <1>14,
     <1>15, <1>16, <1>17, <1>18, <1>19, <1>20, <1>21, <1>22, <1>23, <1>24, <1>25, <1>26,
     <1>27, <1>28, <1>29, <1>30, <1>31, <1>32, <1>33, <1>34, <1>35, <1>36
  DEF Next, CallStep, IsrStep, CbStep

LEMMA DescribedStep == TypeOK /\ Session /\ Described /\ [Next]_vars => Described'
<1> SUFFICES ASSUME TypeOK, Session, Described, [Next]_vars PROVE Described'
  OBVIOUS
<1> USE DEF Described, DmaOn, Session, fileVars, regVars, flagVars, ringVars, imageVars, 
        isrVars, cbVars
<1>1. ASSUME UNCHANGED <<proc, input, intenb, captures, desc, starts, dma, pending,
        isr, cb, laidOut>> PROVE Described'
  BY <1>1
<1>2. CASE \/ Remove
  BY <1>1, <1>2 DEF Remove
<1>3. CASE Probe
  BY <1>3 DEF Probe, FreshDevice, FrameNumbers, bound, Free
<1>4. CASE Open
  BY <1>4 DEF Open, SetupHw, InitIntenb, ReadBack, Configured, bound, Free
<1>5. CASE CloseHw
  BY <1>5 DEF CloseHw, InitIntenb, Calls
<1>6. CASE StreamOn
  BY <1>6 DEF StreamOn, FrameNumbers, Calls
<1>7. CASE StreamOff
  BY <1>7 DEF StreamOff, Calls
<1>8. CASE SelectInput
  BY <1>8 DEF SelectInput, Free
<1>9. CASE DequeueBuffer
  BY <1>9 DEF DequeueBuffer, Calls
<1>10. CASE DequeueInterrupted
  BY <1>10 DEF DequeueInterrupted, Calls
<1>11. CASE CloseIrq
  BY <1>11 DEF CloseIrq, Calls
<1>12. CASE CloseDma
  BY <1>12 DEF CloseDma, StopDma, Torn, DmaOn, Off, Calls
<1>13. CASE StartSetup
  BY <1>13 DEF StartSetup, SetupHw, InitIntenb, ReadBack
<1>14. CASE StartAlloc
  BY <1>14, NewRing DEF StartAlloc
<1>15. CASE StartMake
  BY <1>15 DEF StartMake, Calls
<1>16. CASE StartFlag
  BY <1>16 DEF StartFlag, Calls
<1>17. CASE StartArm
  BY <1>17 DEF StartArm, EnableInterrupts, Calls
<1>18. CASE StopInterrupt
  BY <1>18 DEF StopInterrupt, DisableInterrupts, Calls
<1>19. CASE StopRequests
  BY <1>19 DEF StopRequests, DisableRequests, Calls
<1>20. CASE StopDisable
  BY <1>20 DEF StopDisable, StopDma, Torn, DmaOn, Off, Calls
<1>21. CASE StopFree
  BY <1>21 DEF StopFree, Calls
<1>22. CASE FrameDone
  BY <1>22 DEF FrameDone, OnRing, Running, DmaOn, Off
<1>23. ASSUME NEW vsync \in BOOLEAN, IsrEnter(vsync) PROVE Described'
  BY <1>23 DEF IsrEnter, Min
<1>24. CASE IsrRestart
  BY <1>24 DEF IsrRestart, RestartFrame, StartDma, Torn, DmaOn, Off, OnRing, IsrGoes
<1>25. CASE IsrRearm
  BY <1>25 DEF IsrRearm, EnableRequests, IsrGoes, EnableInterrupts
<1>26. CASE IsrClearError
  BY <1>26 DEF IsrClearError, IsrGoes
<1>27. CASE IsrTestStart
  BY <1>27 DEF IsrTestStart, AfterVsync, IsrLeaves, IsrGoes
<1>28. CASE IsrStart
  BY <1>28 DEF IsrStart, StartDma, Torn, DmaOn, Off, OnRing, IsrGoes
<1>29. CASE IsrStarted
  BY <1>29 DEF IsrStarted, AfterVsync, IsrLeaves, IsrGoes
<1>30. CASE IsrOverflow
  BY <1>30 DEF IsrOverflow, EnableInterrupts, IsrGoes, SetupHw, InitIntenb, ReadBack,
     StopDma, Torn, DmaOn, Off
<1>31. CASE IsrSetError
  BY <1>31 DEF IsrSetError, IsrLeaves
<1>32. CASE CbEnter
  BY <1>32 DEF CbEnter
<1>33. CASE CbCheck
  BY <1>33 DEF CbCheck, CbGoes, Leaves
<1>34. CASE CbRefresh
  BY <1>34 DEF CbRefresh, EnableInterrupts, Leaves, SetupHw, InitIntenb, ReadBack,
     CbGoes, StopDma, Torn, DmaOn, Off
<1>35. CASE CbReport
  BY <1>35 DEF CbReport, Leaves
<1>36. CASE UNCHANGED vars
  BY <1>1, <1>36 DEF vars
<1> QED
  BY <1>2, <1>3, <1>4, <1>5, <1>6, <1>7, <1>8, <1>9, <1>10, <1>11, <1>12, <1>13, <1>14,
     <1>15, <1>16, <1>17, <1>18, <1>19, <1>20, <1>21, <1>22, <1>23, <1>24, <1>25, <1>26,
     <1>27, <1>28, <1>29, <1>30, <1>31, <1>32, <1>33, <1>34, <1>35, <1>36
  DEF Next, CallStep, IsrStep, CbStep

LEMMA InputStep == InputSet /\ [Next]_vars => InputSet'
<1> SUFFICES ASSUME InputSet, [Next]_vars PROVE InputSet'
  OBVIOUS
<1> USE DEF InputSet, fileVars, regVars, flagVars, ringVars, imageVars, isrVars, cbVars
<1>1. ASSUME UNCHANGED <<input, hw, selected>> PROVE InputSet'
  BY <1>1
<1>2. CASE \/ Remove \/ CloseHw \/ StreamOn \/ StreamOff \/ DequeueBuffer
       \/ DequeueInterrupted \/ CloseIrq \/ CloseDma \/ StartAlloc \/ StartMake
       \/ StartFlag \/ StartArm \/ StopInterrupt \/ StopRequests \/ StopDisable
       \/ StopFree \/ FrameDone \/ (\E vsync \in BOOLEAN : IsrEnter(vsync))
       \/ IsrRestart \/ IsrRearm \/ IsrClearError \/ IsrTestStart \/ IsrStart
       \/ IsrStarted \/ IsrSetError \/ CbEnter \/ CbCheck \/ CbReport
  BY <1>1, <1>2 DEF Remove, CloseHw, InitIntenb, StreamOn, StreamOff, DequeueBuffer,
     DequeueInterrupted, CloseIrq, CloseDma, StartAlloc, StartMake, StartFlag, StartArm,
     StopInterrupt, StopRequests, StopDisable, StopFree, FrameDone, IsrEnter,
     IsrRestart, IsrRearm, IsrClearError, IsrTestStart, IsrStart, IsrStarted,
     IsrSetError, CbEnter, CbCheck, CbReport
<1>3. CASE Probe
  BY <1>3 DEF Probe, FreshDevice, FrameNumbers, bound, Free
<1>4. CASE Open
  BY <1>4 DEF Open, SetupHw, InitIntenb, ReadBack, Configured, bound, Free
<1>5. CASE SelectInput
  BY <1>5 DEF SelectInput, Free
<1>6. CASE StartSetup
  BY <1>6 DEF StartSetup, SetupHw, InitIntenb, ReadBack
<1>7. CASE IsrOverflow
  BY <1>7 DEF IsrOverflow, EnableInterrupts, IsrGoes, SetupHw, InitIntenb, ReadBack,
     StopDma, Torn, DmaOn, Off
<1>8. CASE CbRefresh
  BY <1>8 DEF CbRefresh, EnableInterrupts, Leaves, SetupHw, InitIntenb, ReadBack,
     CbGoes, StopDma, Torn, DmaOn, Off
<1>9. CASE UNCHANGED vars
  BY <1>1, <1>9 DEF vars
<1> QED
  BY <1>2, <1>3, <1>4, <1>5, <1>6, <1>7, <1>8, <1>9
  DEF Next, CallStep, IsrStep, CbStep

LEMMA Departures ==
  ASSUME [Next]_vars, WellStopped'
  PROVE  /\ WellStopped
         /\ CloseHw \/ StreamOn => ~startCap
         /\ StreamOff => startCap
         /\ StopInterrupt => isr = "idle" /\ cb = "idle"
         /\ Remove => ~opened /\ cb = "idle"
<1>1. WellStopped
  BY OrderlyShrinks DEF WellStopped, Orderly
<1>2. /\ CloseHw \/ StreamOn => ~startCap
      /\ StreamOff => startCap
      /\ StopInterrupt => isr = "idle" /\ cb = "idle"
      /\ Remove => ~opened /\ cb = "idle"
  BY DEF WellStopped, Orderly, OrderlyIf, Disorder, CloseHw, InitIntenb, StreamOn,
     StreamOff, StopInterrupt, Remove
<1> QED
  BY <1>1, <1>2

---------------------------------------------------------------------------
(* The rings and the frames *)

LEMMA HousedStep ==
  ASSUME TypeOK, Session, Described, Housed, [Next]_vars
  PROVE  Housed'
<1> SUFFICES ASSUME Orderly("stop")'
             PROVE  Housed'
  BY DEF Housed
<1>0. /\ Orderly("stop")
      /\ StopInterrupt => isr = "idle" /\ cb = "idle"
  BY StillOrderly DEF StopInterrupt, OrderlyIf, Disorder, Orderly
<1>a. desc \in {0} \cup live
  BY DEF TypeOK
<1> USE <1>0, <1>a DEF Housed, Quiet, Stopping, Session, Described, DmaOn, Off, fileVars,
        regVars, flagVars, ringVars, imageVars, isrVars, cbVars
<1>1. ASSUME UNCHANGED <<proc, intenb, dmarenb, capStopFlag, live, starts, dma, pending,
        isr, cb, drain>> PROVE Housed'
  BY <1>1
<1>2. CASE \/ Remove
  BY <1>1, <1>2 DEF Remove
<1>3. CASE Probe
  BY <1>3 DEF Probe, FreshDevice, FrameNumbers, bound, Free
<1>4. CASE Open
  BY <1>4 DEF Open, SetupHw, InitIntenb, ReadBack, Configured, bound, Free
<1>5. CASE CloseHw
  BY <1>5 DEF CloseHw, InitIntenb, Calls
<1>6. CASE StreamOn
  BY <1>6 DEF StreamOn, FrameNumbers, Calls
<1>7. CASE StreamOff
  BY <1>7 DEF StreamOff, Calls
<1>8. CASE SelectInput
  BY <1>8 DEF SelectInput, Free
<1>9. CASE DequeueBuffer
  BY <1>9 DEF DequeueBuffer, Calls
<1>10. CASE DequeueInterrupted
  BY <1>10 DEF DequeueInterrupted, Calls
<1>11. CASE CloseIrq
  BY <1>11 DEF CloseIrq, Calls
<1>12. CASE CloseDma
  BY <1>12 DEF CloseDma, StopDma, Torn, DmaOn, Off, Calls
<1>13. CASE StartSetup
  BY <1>13 DEF StartSetup, SetupHw, InitIntenb, ReadBack
<1>14. CASE StartAlloc
  BY <1>14 DEF StartAlloc
<1>15. CASE StartMake
  BY <1>15 DEF StartMake, Calls
<1>16. CASE StartFlag
  BY <1>16 DEF StartFlag, Calls
<1>17. CASE StartArm
  BY <1>17 DEF StartArm, EnableInterrupts, Calls
<1>18. CASE StopInterrupt
  BY <1>18 DEF StopInterrupt, DisableInterrupts, Calls
<1>19. CASE StopRequests
  BY <1>19 DEF StopRequests, DisableRequests, Calls
<1>20. CASE StopDisable
  BY <1>20 DEF StopDisable, StopDma, Torn, DmaOn, Off, Calls
<1>21. CASE StopFree
  BY <1>21 DEF StopFree, Calls
<1>22. CASE FrameDone
  BY <1>22 DEF FrameDone, OnRing, Running, DmaOn, Off
<1>23. ASSUME NEW vsync \in BOOLEAN, IsrEnter(vsync) PROVE Housed'
  BY <1>23 DEF IsrEnter, Min
<1>24. CASE IsrRestart
  BY <1>24 DEF IsrRestart, RestartFrame, StartDma, Torn, DmaOn, Off, OnRing, IsrGoes
<1>25. CASE IsrRearm
  BY <1>25 DEF IsrRearm, EnableRequests, IsrGoes, EnableInterrupts
<1>26. CASE IsrClearError
  BY <1>26 DEF IsrClearError, IsrGoes
<1>27. CASE IsrTestStart
  BY <1>27 DEF IsrTestStart, AfterVsync, IsrLeaves, IsrGoes
<1>28. CASE IsrStart
  BY <1>28 DEF IsrStart, StartDma, Torn, DmaOn, Off, OnRing, IsrGoes
<1>29. CASE IsrStarted
  BY <1>29 DEF IsrStarted, AfterVsync, IsrLeaves, IsrGoes
<1>30. CASE IsrOverflow
  BY <1>30 DEF IsrOverflow, EnableInterrupts, IsrGoes, SetupHw, InitIntenb, ReadBack,
     StopDma, Torn, DmaOn, Off
<1>31. CASE IsrSetError
  BY <1>31 DEF IsrSetError, IsrLeaves
<1>32. CASE CbEnter
  BY <1>32 DEF CbEnter
<1>33. CASE CbCheck
  BY <1>33 DEF CbCheck, CbGoes, Leaves
<1>34. CASE CbRefresh
  BY <1>34 DEF CbRefresh, EnableInterrupts, Leaves, SetupHw, InitIntenb, ReadBack,
     CbGoes, StopDma, Torn, DmaOn, Off
<1>35. CASE CbReport
  BY <1>35 DEF CbReport, Leaves
<1>36. CASE UNCHANGED vars
  BY <1>1, <1>36 DEF vars
<1> QED
  BY <1>2, <1>3, <1>4, <1>5, <1>6, <1>7, <1>8, <1>9, <1>10, <1>11, <1>12, <1>13, <1>14,
     <1>15, <1>16, <1>17, <1>18, <1>19, <1>20, <1>21, <1>22, <1>23, <1>24, <1>25, <1>26,
     <1>27, <1>28, <1>29, <1>30, <1>31, <1>32, <1>33, <1>34, <1>35, <1>36
  DEF Next, CallStep, IsrStep, CbStep

LEMMA RingedStep ==
  ASSUME TypeOK, Session, Described, Housed, Ringed, [Next]_vars
  PROVE  Ringed'
<1> SUFFICES ASSUME WellStopped'
             PROVE  Ringed'
  BY DEF Ringed
<1>0. WellStopped /\ Orderly("stop")
  BY Departures DEF WellStopped
<1> USE <1>0 DEF Housed, Ringed, Quiet, Stopping, Session, Described, DmaOn, Off, fileVars,
        regVars, flagVars, ringVars, imageVars, isrVars, cbVars
<1>1. ASSUME UNCHANGED <<proc, opened, startCap, input, intenb, dmarenb, capStopFlag,
        desc, starts, dma, pending, isr, cb, drain, laidOut>> PROVE Ringed'
  BY <1>1
<1>2. CASE \/ Remove
  BY <1>1, <1>2 DEF Remove
<1>3. CASE Probe
  BY <1>3 DEF Probe, FreshDevice, FrameNumbers, bound, Free
<1>4. CASE Open
  BY <1>4 DEF Open, SetupHw, InitIntenb, ReadBack, Configured, bound, Free
<1>5. CASE CloseHw
  BY <1>5, Departures DEF CloseHw, InitIntenb, Calls
<1>6. CASE StreamOn
  BY <1>6, Departures DEF StreamOn, FrameNumbers, Calls
<1>7. CASE StreamOff
  BY <1>7, Departures DEF StreamOff, Calls
<1>8. CASE SelectInput
  BY <1>8 DEF SelectInput, Free
<1>9. CASE DequeueBuffer
  BY <1>9 DEF DequeueBuffer, Calls
<1>10. CASE DequeueInterrupted
  BY <1>10 DEF DequeueInterrupted, Calls
<1>11. CASE CloseIrq
  BY <1>11 DEF CloseIrq, Calls
<1>12. CASE CloseDma
  BY <1>12 DEF CloseDma, StopDma, Torn, DmaOn, Off, Calls
<1>13. CASE StartSetup
  BY <1>13 DEF StartSetup, SetupHw, InitIntenb, ReadBack
<1>14. CASE StartAlloc
  BY <1>14 DEF StartAlloc
<1>15. CASE StartMake
  BY <1>15 DEF StartMake, Calls
<1>16. CASE StartFlag
  BY <1>16 DEF StartFlag, Calls
<1>17. CASE StartArm
  BY <1>17 DEF StartArm, EnableInterrupts, Calls
<1>18. CASE StopInterrupt
  BY <1>18, Departures DEF StopInterrupt, DisableInterrupts, Calls
<1>19. CASE StopRequests
  BY <1>19 DEF StopRequests, DisableRequests, Calls
<1>20. CASE StopDisable
  BY <1>20 DEF StopDisable, StopDma, Torn, DmaOn, Off, Calls
<1>21. CASE StopFree
  BY <1>21 DEF StopFree, Calls
<1>22. CASE FrameDone
  BY <1>22 DEF FrameDone, OnRing, Running, DmaOn, Off
<1>23. ASSUME NEW vsync \in BOOLEAN, IsrEnter(vsync) PROVE Ringed'
  BY <1>23 DEF IsrEnter, Min
<1>24. CASE IsrRestart
  BY <1>24 DEF IsrRestart, RestartFrame, StartDma, Torn, DmaOn, Off, OnRing, IsrGoes
<1>25. CASE IsrRearm
  BY <1>25 DEF IsrRearm, EnableRequests, IsrGoes, EnableInterrupts
<1>26. CASE IsrClearError
  BY <1>26 DEF IsrClearError, IsrGoes
<1>27. CASE IsrTestStart
  BY <1>27 DEF IsrTestStart, AfterVsync, IsrLeaves, IsrGoes
<1>28. CASE IsrStart
  BY <1>28 DEF IsrStart, StartDma, Torn, DmaOn, Off, OnRing, IsrGoes
<1>29. CASE IsrStarted
  BY <1>29 DEF IsrStarted, AfterVsync, IsrLeaves, IsrGoes
<1>30. CASE IsrOverflow
  BY <1>30 DEF IsrOverflow, EnableInterrupts, IsrGoes, SetupHw, InitIntenb, ReadBack,
     StopDma, Torn, DmaOn, Off
<1>31. CASE IsrSetError
  BY <1>31 DEF IsrSetError, IsrLeaves
<1>32. CASE CbEnter
  BY <1>32 DEF CbEnter
<1>33. CASE CbCheck
  BY <1>33 DEF CbCheck, CbGoes, Leaves
<1>34. CASE CbRefresh
  BY <1>34 DEF CbRefresh, EnableInterrupts, Leaves, SetupHw, InitIntenb, ReadBack,
     CbGoes, StopDma, Torn, DmaOn, Off
<1>35. CASE CbReport
  BY <1>35 DEF CbReport, Leaves
<1>36. CASE UNCHANGED vars
  BY <1>1, <1>36 DEF vars
<1> QED
  BY <1>2, <1>3, <1>4, <1>5, <1>6, <1>7, <1>8, <1>9, <1>10, <1>11, <1>12, <1>13, <1>14,
     <1>15, <1>16, <1>17, <1>18, <1>19, <1>20, <1>21, <1>22, <1>23, <1>24, <1>25, <1>26,
     <1>27, <1>28, <1>29, <1>30, <1>31, <1>32, <1>33, <1>34, <1>35, <1>36
  DEF Next, CallStep, IsrStep, CbStep

LEMMA FirstFrameStep ==
  ASSUME TypeOK, Session, Described, Housed, Ringed, FirstFrame, [Next]_vars
  PROVE  FirstFrame'
<1> SUFFICES ASSUME WellStopped'
             PROVE  FirstFrame'
  BY DEF FirstFrame
<1>0. WellStopped /\ Orderly("stop")
  BY Departures DEF WellStopped
<1> USE <1>0 DEF Housed, Ringed, Quiet, Stopping, Starting, FirstFrame, DmaOn, fileVars,
        regVars, flagVars, ringVars, imageVars, isrVars, cbVars
<1>1. ASSUME UNCHANGED <<proc, capStartFlag, frameIndex, dma, pending, isr, cb>> PROVE FirstFrame'
  BY <1>1
<1>2. CASE \/ Remove \/ Open \/ SelectInput
  BY <1>1, <1>2 DEF Remove, Open, SelectInput
<1>3. CASE Probe
  BY <1>3 DEF Probe, FreshDevice, FrameNumbers, bound, Free
<1>4. CASE CloseHw
  BY <1>4, Departures DEF CloseHw, InitIntenb, Calls
<1>5. CASE StreamOn
  BY <1>5, Departures DEF StreamOn, FrameNumbers, Calls
<1>6. CASE StreamOff
  BY <1>6, Departures DEF StreamOff, Calls
<1>7. CASE DequeueBuffer
  BY <1>7 DEF DequeueBuffer, Calls
<1>8. CASE DequeueInterrupted
  BY <1>8 DEF DequeueInterrupted, Calls
<1>9. CASE CloseIrq
  BY <1>9 DEF CloseIrq, Calls
<1>10. CASE CloseDma
  BY <1>10 DEF CloseDma, StopDma, Torn, DmaOn, Off, Calls
<1>11. CASE StartSetup
  BY <1>11 DEF StartSetup, SetupHw, InitIntenb, ReadBack
<1>12. CASE StartAlloc
  BY <1>12 DEF StartAlloc
<1>13. CASE StartMake
  BY <1>13 DEF StartMake, Calls
<1>14. CASE StartFlag
  BY <1>14 DEF StartFlag, Calls
<1>15. CASE StartArm
  BY <1>15 DEF StartArm, EnableInterrupts, Calls
<1>16. CASE StopInterrupt
  BY <1>16, Departures DEF StopInterrupt, DisableInterrupts, Calls
<1>17. CASE StopRequests
  BY <1>17 DEF StopRequests, DisableRequests, Calls
<1>18. CASE StopDisable
  BY <1>18 DEF StopDisable, StopDma, Torn, DmaOn, Off, Calls
<1>19. CASE StopFree
  BY <1>19 DEF StopFree, Calls
<1>20. CASE FrameDone
  BY <1>20 DEF FrameDone, OnRing, Running, DmaOn, Off
<1>21. ASSUME NEW vsync \in BOOLEAN, IsrEnter(vsync) PROVE FirstFrame'
  BY <1>21 DEF IsrEnter, Min
<1>22. CASE IsrRestart
  BY <1>22 DEF IsrRestart, RestartFrame, StartDma, Torn, DmaOn, Off, OnRing, IsrGoes
<1>23. CASE IsrRearm
  BY <1>23 DEF IsrRearm, EnableRequests, IsrGoes, EnableInterrupts
<1>24. CASE IsrClearError
  BY <1>24 DEF IsrClearError, IsrGoes
<1>25. CASE IsrTestStart
  BY <1>25 DEF IsrTestStart, AfterVsync, IsrLeaves, IsrGoes
<1>26. CASE IsrStart
  BY <1>26 DEF IsrStart, StartDma, Torn, DmaOn, Off, OnRing, IsrGoes
<1>27. CASE IsrStarted
  BY <1>27 DEF IsrStarted, AfterVsync, IsrLeaves, IsrGoes
<1>28. CASE IsrOverflow
  BY <1>28 DEF IsrOverflow, EnableInterrupts, IsrGoes, SetupHw, InitIntenb, ReadBack,
     StopDma, Torn, DmaOn, Off
<1>29. CASE IsrSetError
  BY <1>29 DEF IsrSetError, IsrLeaves
<1>30. CASE CbEnter
  BY <1>30 DEF CbEnter
<1>31. CASE CbCheck
  BY <1>31 DEF CbCheck, CbGoes, Leaves
<1>32. CASE CbRefresh
  BY <1>32 DEF CbRefresh, EnableInterrupts, Leaves, SetupHw, InitIntenb, ReadBack,
     CbGoes, StopDma, Torn, DmaOn, Off
<1>33. CASE CbReport
  BY <1>33 DEF CbReport, Leaves
<1>34. CASE UNCHANGED vars
  BY <1>1, <1>34 DEF vars
<1> QED
  BY <1>2, <1>3, <1>4, <1>5, <1>6, <1>7, <1>8, <1>9, <1>10, <1>11, <1>12, <1>13, <1>14,
     <1>15, <1>16, <1>17, <1>18, <1>19, <1>20, <1>21, <1>22, <1>23, <1>24, <1>25, <1>26,
     <1>27, <1>28, <1>29, <1>30, <1>31, <1>32, <1>33, <1>34
  DEF Next, CallStep, IsrStep, CbStep

(* The arithmetic of the gap: 3, 4 or 5 buffers. *)
LEMMA GapMoves ==
  ASSUME NEW n \in 3..5, NEW f \in 0..(n - 1), NEW i \in 0..(n - 1)
  PROVE  /\ Gap(n, f, i) \in 0..(n - 1)
         /\ Gap(n, (f + 1) % n, i) = IF Gap(n, f, i) = n - 1 THEN 0 ELSE Gap(n, f, i) + 1
         /\ Gap(n, f, (i + 1) % n) = IF Gap(n, f, i) = 0 THEN n - 1 ELSE Gap(n, f, i) - 1
<1>1. CASE n = 3
  BY <1>1 DEF Gap
<1>2. CASE n = 4
  BY <1>2 DEF Gap
<1>3. CASE n = 5
  BY <1>3 DEF Gap
<1> QED
  BY <1>1, <1>2, <1>3

LEMMA GapRestarts ==
  ASSUME TypeOK
  PROVE  /\ RestartFrame \in FrameNumbers
         /\ Gap(nFrameBuf, RestartFrame, frameIndex) \notin {0, nFrameBuf - 1}
         /\ nFrameBuf = 3 => Gap(nFrameBuf, RestartFrame, frameIndex) = 1
<1>1. nFrameBuf \in 3..5 /\ frameIndex \in 0..(nFrameBuf - 1)
  BY DEF TypeOK, FrameNumbers
<1> QED
  BY <1>1 DEF Gap, RestartFrame, FrameNumbers

LEMMA GapOfThree ==
  ASSUME NEW f \in 0..2, NEW i \in 0..2
  PROVE  /\ Gap(3, f, i) = 0 <=> f = i
         /\ Gap(3, f, i) = 1 <=> f = (i + 1) % 3
         /\ Gap(3, f, i) = 2 <=> f = (i + 2) % 3
BY DEF Gap

LEMMA FrameTypes ==
  TypeOK => /\ nFrameBuf \in 3..5 /\ frameIndex \in 0..(nFrameBuf - 1)
            /\ DmaOn => dma.frame \in 0..(nFrameBuf - 1)
BY DEF TypeOK, FrameNumbers, DmaOn

(* What the steps that move the engine or the report do to the gap.        *)
LEMMA FrameDoneMoves ==
  ASSUME TypeOK, FrameDone
  PROVE  /\ DmaOn /\ Farthest' = Farthest
         /\ Ahead # Farthest => Ahead' # 0
         /\ nFrameBuf = 3 => /\ Ahead \in {0, 1, 2} /\ Farthest = 2
                             /\ Ahead = 0 => dma.frame = frameIndex
                             /\ Ahead = 1 => dma.frame = (frameIndex + 1) % 3
                             /\ Ahead' = 2 => Ahead = 1
<1>1. DmaOn /\ nFrameBuf' = nFrameBuf /\ frameIndex' = frameIndex
  BY DEF FrameDone, Running, fileVars
<1>2. dma'.frame = (dma.frame + 1) % nFrameBuf
  BY DEF FrameDone, OnRing
<1>3. /\ nFrameBuf \in 3..5 /\ frameIndex \in 0..(nFrameBuf - 1)
      /\ dma.frame \in 0..(nFrameBuf - 1)
  BY <1>1, FrameTypes
<1>4. /\ Ahead \in 0..(nFrameBuf - 1)
      /\ Ahead' = IF Ahead = nFrameBuf - 1 THEN 0 ELSE Ahead + 1
  <2>1. Ahead' = Gap(nFrameBuf, (dma.frame + 1) % nFrameBuf, frameIndex)
    BY <1>1, <1>2 DEF Ahead
  <2> QED
    BY <1>3, <2>1, GapMoves DEF Ahead
<1>5. ASSUME nFrameBuf = 3
      PROVE  /\ Ahead = 0 => dma.frame = frameIndex
             /\ Ahead = 1 => dma.frame = (frameIndex + 1) % 3
  <2>1. dma.frame \in 0..2 /\ frameIndex \in 0..2
    BY <1>3, <1>5
  <2> QED
    BY <1>5, <2>1, GapOfThree DEF Ahead
<1> QED
  BY <1>1, <1>3, <1>4, <1>5 DEF Farthest

LEMMA RestartMoves ==
  ASSUME TypeOK, IsrRestart
  PROVE  /\ Ahead' # 0 /\ Ahead' # Farthest'
         /\ nFrameBuf = 3 => Ahead' # 2
<1>1. nFrameBuf' = nFrameBuf /\ frameIndex' = frameIndex /\ dma'.frame = RestartFrame
  BY DEF IsrRestart, StartDma, OnRing, fileVars
<1> QED
  BY <1>1, GapRestarts DEF Ahead, Farthest

LEMMA StartMoves ==
  ASSUME TypeOK, IsrStart, frameIndex = 0
  PROVE  Ahead' # Farthest' /\ Ahead' # 1
<1>1. nFrameBuf' = nFrameBuf /\ frameIndex' = 0 /\ dma'.frame = 0
  BY DEF IsrStart, StartDma, OnRing, fileVars
<1>2. nFrameBuf \in 3..5
  BY FrameTypes
<1> QED
  BY <1>1, <1>2 DEF Ahead, Gap, Farthest

LEMMA ReportMoves ==
  ASSUME TypeOK, CbReport, DmaOn, Ahead # 0
  PROVE  Ahead' # Farthest' /\ (Ahead' = 1 => Ahead = 2)
<1>1. nFrameBuf' = nFrameBuf /\ frameIndex' = (frameIndex + 1) % nFrameBuf /\ dma' = dma
  BY DEF CbReport, fileVars
<1>2. /\ nFrameBuf \in 3..5 /\ frameIndex \in 0..(nFrameBuf - 1)
      /\ dma.frame \in 0..(nFrameBuf - 1)
  BY FrameTypes
<1>3. Ahead \in 0..(nFrameBuf - 1) /\ Ahead' = Ahead - 1
  BY <1>1, <1>2, GapMoves DEF Ahead
<1> QED
  BY <1>1, <1>2, <1>3 DEF Farthest

LEMMA OwnFrame == TypeOK /\ DmaOn /\ Ahead # 0 => dma.frame # frameIndex
<1>1. TypeOK /\ DmaOn => /\ nFrameBuf \in 3..5 /\ frameIndex \in 0..(nFrameBuf - 1)
                         /\ dma.frame \in 0..(nFrameBuf - 1)
  BY FrameTypes
<1> QED
  BY <1>1 DEF Ahead, Gap

LEMMA NeverLappedStep ==
  ASSUME TypeOK, Session, Described, Housed, Ringed, FirstFrame, NeverLapped, [Next]_vars
  PROVE  NeverLapped'
<1> SUFFICES ASSUME WellStopped'
             PROVE  NeverLapped'
  BY DEF NeverLapped
<1>0. WellStopped /\ Orderly("stop")
  BY Departures DEF WellStopped
<1> USE <1>0 DEF Session, Housed, Ringed, Quiet, Stopping, Starting, FirstFrame, NeverLapped,
        Reporting, Waiting,
        DmaOn, fileVars, regVars, flagVars, ringVars, imageVars, isrVars, cbVars
<1>1. ASSUME UNCHANGED <<nFrameBuf, capStopFlag, frameIndex, dma, pending, cb>> PROVE NeverLapped'
  <2>1. Ahead' = Ahead /\ Farthest' = Farthest
    BY <1>1 DEF Ahead, Farthest
  <2> QED
    BY <1>1, <2>1
<1>2. CASE \/ Remove \/ Open \/ CloseHw \/ SelectInput \/ DequeueBuffer
       \/ DequeueInterrupted \/ CloseIrq \/ StartSetup \/ StartAlloc \/ StartMake
       \/ StartFlag \/ StartArm \/ StopInterrupt \/ StopRequests \/ StopFree
       \/ (\E vsync \in BOOLEAN : IsrEnter(vsync)) \/ IsrRearm \/ IsrClearError
       \/ IsrTestStart \/ IsrStarted \/ IsrSetError
  BY <1>1, <1>2 DEF Remove, Open, CloseHw, InitIntenb, SelectInput, DequeueBuffer,
     DequeueInterrupted, CloseIrq, StartSetup, StartAlloc, StartMake, StartFlag,
     StartArm, StopInterrupt, StopRequests, StopFree, IsrEnter, IsrRearm, IsrClearError,
     IsrTestStart, IsrStarted, IsrSetError
<1>3. CASE Probe
  BY <1>3 DEF Probe, FreshDevice, FrameNumbers, bound, Free
<1>4. CASE StreamOn
  BY <1>4, Departures DEF StreamOn, FrameNumbers, Calls
<1>5. CASE StreamOff
  <2>1. Ahead' = Ahead /\ Farthest' = Farthest
    BY <1>5 DEF StreamOff, Ahead, Farthest
  <2> QED
    BY <1>5, <2>1 DEF StreamOff, Calls
<1>6. CASE CloseDma
  BY <1>6 DEF CloseDma, StopDma, Torn, DmaOn, Off, Calls
<1>7. CASE StopDisable
  BY <1>7 DEF StopDisable, StopDma, Torn, DmaOn, Off, Calls
<1>8. CASE FrameDone
  <2>1. DmaOn /\ (Ahead # Farthest => Ahead' # 0)
    BY <1>8, FrameDoneMoves
  <2>2. Reporting' => ~capStopFlag /\ Waiting
    BY <1>8 DEF FrameDone
  <2>3. ~Waiting'
    BY <1>8 DEF FrameDone
  <2> QED
    BY <2>1, <2>2, <2>3
<1>9. CASE IsrRestart
  BY <1>9, RestartMoves
<1>10. CASE IsrStart
  <2>1. frameIndex = 0 /\ ~Reporting'
    BY <1>10 DEF IsrStart, IsrGoes
  <2>2. Ahead' # Farthest'
    BY <1>10, <2>1, StartMoves
  <2> QED
    BY <2>1, <2>2
<1>11. CASE IsrOverflow
  <2>1. dma' = dma => Ahead' = Ahead /\ Farthest' = Farthest
    BY <1>11 DEF IsrOverflow, Ahead, Farthest, SetupHw, InitIntenb, EnableInterrupts
  <2> QED
    BY <1>11, <2>1 DEF IsrOverflow, StopDma, IsrGoes, CbGoes, Leaves
<1>12. CASE CbEnter
  <2>1. Ahead' = Ahead /\ Farthest' = Farthest
    BY <1>12 DEF CbEnter, Ahead, Farthest
  <2> QED
    BY <1>12, <2>1 DEF CbEnter
<1>13. CASE CbCheck
  <2>1. Ahead' = Ahead /\ Farthest' = Farthest
    BY <1>13 DEF CbCheck, Ahead, Farthest
  <2> QED
    BY <1>13, <2>1 DEF CbCheck, CbGoes, Leaves
<1>14. CASE CbRefresh
  <2>1. dma' = dma => Ahead' = Ahead /\ Farthest' = Farthest
    BY <1>14 DEF CbRefresh, Ahead, Farthest, SetupHw, InitIntenb, EnableInterrupts
  <2> QED
    BY <1>14, <2>1 DEF CbRefresh, StopDma, IsrGoes, CbGoes, Leaves
<1>15. CASE CbReport
  <2>1. Reporting /\ ~Reporting' /\ dma' = dma
    BY <1>15 DEF CbReport, Leaves
  <2>2. DmaOn => Ahead' # Farthest'
    BY <1>15, <2>1, ReportMoves
  <2> QED
    BY <2>1, <2>2
<1>16. CASE UNCHANGED vars
  BY <1>1, <1>16 DEF vars
<1> QED
  BY <1>2, <1>3, <1>4, <1>5, <1>6, <1>7, <1>8, <1>9, <1>10, <1>11, <1>12, <1>13, <1>14,
     <1>15, <1>16
  DEF Next, CallStep, IsrStep, CbStep

LEMMA WholeStep ==
  ASSUME TypeOK, Session, Described, Housed, Ringed, FirstFrame, NeverLapped, WholeFrames, [Next]_vars
  PROVE  WholeFrames'
<1> SUFFICES ASSUME WellStopped'
             PROVE  WholeFrames'
  BY DEF WholeFrames
<1>0. WellStopped /\ Orderly("stop")
  BY Departures DEF WellStopped
<1> USE <1>0 DEF Session, Housed, Ringed, Quiet, Stopping, Starting, FirstFrame, NeverLapped,
        WholeFrames, Reporting,
        Waiting, DmaOn, fileVars, regVars, flagVars, ringVars, imageVars, isrVars, cbVars
<1>1. ASSUME UNCHANGED <<nFrameBuf, capStopFlag, frameIndex, dma, pending, cb, torn,
        restarted>> PROVE WholeFrames'
  <2>1. Ahead' = Ahead /\ Farthest' = Farthest
    BY <1>1 DEF Ahead, Farthest
  <2> QED
    BY <1>1, <2>1
<1>2. CASE \/ Remove \/ Open \/ CloseHw \/ SelectInput \/ DequeueBuffer
       \/ DequeueInterrupted \/ CloseIrq \/ StartSetup \/ StartAlloc \/ StartMake
       \/ StartFlag \/ StartArm \/ StopInterrupt \/ StopRequests \/ StopFree
       \/ (\E vsync \in BOOLEAN : IsrEnter(vsync)) \/ IsrRearm \/ IsrClearError
       \/ IsrTestStart \/ IsrStarted \/ IsrSetError
  BY <1>1, <1>2 DEF Remove, Open, CloseHw, InitIntenb, SelectInput, DequeueBuffer,
     DequeueInterrupted, CloseIrq, StartSetup, StartAlloc, StartMake, StartFlag,
     StartArm, StopInterrupt, StopRequests, StopFree, IsrEnter, IsrRearm, IsrClearError,
     IsrTestStart, IsrStarted, IsrSetError
<1>3. CASE Probe
  BY <1>3 DEF Probe, FreshDevice, FrameNumbers, bound, Free
<1>4. CASE StreamOn
  BY <1>4, Departures DEF StreamOn, FrameNumbers, Calls
<1>5. CASE StreamOff
  <2>1. Ahead' = Ahead /\ Farthest' = Farthest
    BY <1>5 DEF StreamOff, Ahead, Farthest
  <2> QED
    BY <1>5, <2>1 DEF StreamOff, Calls
<1>6. CASE CloseDma
  BY <1>6 DEF CloseDma, StopDma, Torn, DmaOn, Off, Calls
<1>7. CASE StopDisable
  BY <1>7 DEF StopDisable, StopDma, Torn, DmaOn, Off, Calls
<1>8. CASE FrameDone
  <2>1. CASE nFrameBuf # 3
    BY <1>8, <2>1 DEF FrameDone
  <2>2. CASE nFrameBuf = 3
    <3>1. /\ frameIndex' = frameIndex /\ restarted' = restarted
          /\ torn' = torn \ {dma.frame}
      BY <1>8 DEF FrameDone
    <3>2. Reporting' => Waiting
      BY <1>8 DEF FrameDone
    <3>3. ~Waiting'
      BY <1>8 DEF FrameDone
    <3>4. /\ DmaOn /\ Ahead \in {0, 1, 2} /\ Farthest = 2
          /\ Ahead = 0 => dma.frame = frameIndex
          /\ Ahead = 1 => dma.frame = (frameIndex + 1) % 3
          /\ Ahead' = 2 => Ahead = 1
      BY <1>8, <2>2, FrameDoneMoves
    <3>5. Waiting => Ahead \in {0, 1}
      BY <3>4
    <3>6. Waiting => frameIndex \notin torn' \/ restarted
      BY <2>2, <3>1, <3>4, <3>5
    <3>7. Ahead' = 2 => (frameIndex + 1) % 3 \notin torn'
      BY <3>1, <3>4
    <3> QED
      BY <2>2, <3>1, <3>2, <3>3, <3>6, <3>7
  <2> QED
    BY <2>1, <2>2
<1>9. CASE IsrRestart
  <2>1. nFrameBuf = 3 => Ahead' # 2
    BY <1>9, RestartMoves
  <2>2. restarted' = TRUE /\ nFrameBuf' = nFrameBuf
    BY <1>9 DEF IsrRestart
  <2> QED
    BY <2>1, <2>2
<1>10. CASE IsrStart
  <2>1. frameIndex = 0 /\ ~Reporting'
    BY <1>10 DEF IsrStart, IsrGoes
  <2>2. Ahead' # 1
    BY <1>10, <2>1, StartMoves
  <2> QED
    BY <2>1, <2>2
<1>11. CASE IsrOverflow
  <2>1. CASE UNCHANGED <<dma, torn>>
    <3>1. Ahead' = Ahead
      BY <1>11, <2>1 DEF IsrOverflow, Ahead
    <3> QED
      BY <1>11, <2>1, <3>1 DEF IsrOverflow
  <2>2. CASE StopDma
    <3>1. /\ nFrameBuf' = nFrameBuf /\ frameIndex' = frameIndex /\ restarted' = restarted
          /\ ~DmaOn' /\ torn' = Torn /\ Reporting' = Reporting
      BY <1>11, <2>2 DEF IsrOverflow, StopDma
    <3>2. DmaOn /\ Reporting => dma.frame # frameIndex
      BY OwnFrame
    <3>3. nFrameBuf = 3 /\ Reporting => frameIndex \notin torn' \/ restarted
      BY <3>1, <3>2 DEF Torn
    <3> QED
      BY <3>1, <3>3
  <2> QED
    BY <1>11, <2>1, <2>2 DEF IsrOverflow
<1>12. CASE CbEnter
  <2>1. Ahead' = Ahead /\ Farthest' = Farthest
    BY <1>12 DEF CbEnter, Ahead, Farthest
  <2> QED
    BY <1>12, <2>1 DEF CbEnter
<1>13. CASE CbCheck
  <2>1. Ahead' = Ahead /\ Farthest' = Farthest
    BY <1>13 DEF CbCheck, Ahead, Farthest
  <2> QED
    BY <1>13, <2>1 DEF CbCheck, CbGoes, Leaves
<1>14. CASE CbRefresh
  <2>1. CASE UNCHANGED <<dma, torn>>
    <3>1. Ahead' = Ahead
      BY <1>14, <2>1 DEF CbRefresh, Ahead
    <3>2. /\ cb \in {"stop dma", "setup", "arm"} /\ cb' \in {"idle", "setup", "arm"}
          /\ capStopFlag' = capStopFlag /\ pending' = pending
          /\ cb = "stop dma" => ~DmaOn
      BY <1>14, <2>1 DEF CbRefresh, CbGoes, Leaves, StopDma
    <3>3. UNCHANGED <<dma, torn, restarted, frameIndex, nFrameBuf>>
      BY <1>14, <2>1 DEF CbRefresh
    <3>4. ~Reporting' /\ (Waiting' /\ DmaOn => Waiting)
      BY <3>2
    <3> QED
      BY <3>1, <3>3, <3>4
  <2>2. CASE StopDma
    <3>1. ~DmaOn' /\ ~Reporting'
      BY <1>14, <2>2 DEF CbRefresh, StopDma, CbGoes, Leaves
    <3> QED
      BY <3>1
  <2> QED
    BY <1>14, <2>1, <2>2 DEF CbRefresh
<1>15. CASE CbReport
  <2>1. /\ nFrameBuf' = nFrameBuf /\ frameIndex' = (frameIndex + 1) % nFrameBuf
        /\ Reporting /\ ~Reporting' /\ dma' = dma /\ torn' = torn
    BY <1>15 DEF CbReport, Leaves
  <2>2. DmaOn /\ Ahead' = 1 => Ahead = 2
    BY <1>15, <2>1, ReportMoves
  <2>3. nFrameBuf = 3 /\ DmaOn /\ Ahead' = 1 => frameIndex' \notin torn'
    BY <2>1, <2>2
  <2> QED
    BY <2>1, <2>3
<1>16. CASE UNCHANGED vars
  BY <1>1, <1>16 DEF vars
<1> QED
  BY <1>2, <1>3, <1>4, <1>5, <1>6, <1>7, <1>8, <1>9, <1>10, <1>11, <1>12, <1>13, <1>14,
     <1>15, <1>16
  DEF Next, CallStep, IsrStep, CbStep

---------------------------------------------------------------------------
(* The theorems *)

(* The module as it is loaded: no device, no file, nothing running.        *)
LEMMA InitHolds == Init => IInv
<1> SUFFICES ASSUME Init PROVE IInv
  OBVIOUS
<1>1. nFrameBuf \in 3..5
  <2>1. PICK p \in FrameParams : nFrameBuf = ClampedCount(p)
    BY DEF Init
  <2>2. p \in Nat
    BY VideoAssumption
  <2> QED
    BY <2>1, <2>2 DEF ClampedCount
<1>2. 0 \in FrameNumbers /\ 0 \in 0..RefreshPeriod /\ 0 \in 0..MaxCaptures /\ 0 \in 0..0
  BY <1>1, VideoAssumption DEF FrameNumbers
<1>3. ProcType /\ HandlerType
  BY DEF Init, ProcType, HandlerType, ProcPc, IsrPc, CbPc
<1>4. FileType /\ FlagType
  BY VideoAssumption DEF Init, FileType, FlagType
<1>5. CountType /\ RingType
  BY <1>1, <1>2 DEF Init, CountType, RingType
<1>6. TypeOK
  BY <1>3, <1>4, <1>5 DEF TypeOK, ProcType, HandlerType, FileType, FlagType, CountType, RingType
<1>7. Session /\ Described /\ InputSet
  BY DEF Init, Session, Described, InputSet, bound, DmaOn
<1>8. Housed /\ Ringed /\ FirstFrame
  BY DEF Init, Housed, Ringed, FirstFrame, Quiet, Stopping, Starting, DmaOn
<1>9. NeverLapped /\ WholeFrames
  BY DEF Init, NeverLapped, WholeFrames, Reporting, Waiting, DmaOn
<1> QED
  BY <1>6, <1>7, <1>8, <1>9 DEF IInv

(* What holds of the sessions, the rings and the frames in every reachable *)
(* state.                                                                  *)
THEOREM Safety == Spec => []IInv
<1>1. IInv /\ [Next]_vars => IInv'
  BY TypeStep, SessionStep, DescribedStep, InputStep, HousedStep, RingedStep, FirstFrameStep,
     NeverLappedStep, WholeStep DEF IInv
<1> QED
  BY InitHolds, <1>1, PTL DEF Spec

(* Every variable of the capture driver stays within its range.            *)
THEOREM TypeCorrect == Spec => []TypeOK
<1>1. IInv => TypeOK
  BY DEF IInv
<1> QED
  BY <1>1, Safety, PTL

(* Unless a handler was running when a capture was stopped, or the device  *)
(* was removed in use, DMA works on an allocated ring and into allocated   *)
(* frame buffers, in whatever order captures are started and stopped.      *)
THEOREM DmaStaysHome == Spec => []DmaIntoLive
<1>1. IInv => DmaIntoLive
  <2> SUFFICES ASSUME IInv, Orderly("stop"), Orderly("remove"), DmaOn
               PROVE  dma.ring \in live /\ "frames" \in held
    BY DEF DmaIntoLive
  <2>1. dma.ring \in live
    BY DEF IInv, Housed
  <2>2. opened
    BY DEF IInv, Session
  <2> QED
    BY <2>1, <2>2 DEF IInv, Session
<1> QED
  BY <1>1, Safety, PTL

(* The frame handed to the bridge is not the one DMA is writing, for 3, 4  *)
(* and 5 buffers.                                                          *)
THEOREM NotWritten == Spec => []ReportedNotWritten
<1>1. IInv => ReportedNotWritten
  <2> SUFFICES ASSUME IInv, WellStopped, cb = "report", DmaOn PROVE dma.frame # frameIndex
    BY DEF ReportedNotWritten, Running
  <2>1. Ahead # 0
    BY DEF IInv, NeverLapped, Reporting
  <2> QED
    BY <2>1, OwnFrame DEF IInv
<1> QED
  BY <1>1, Safety, PTL

(* With three buffers, the frame handed to the bridge is whole, unless it  *)
(* is the first one after a restart.                                       *)
THEOREM ReportsAreWhole == Spec => []ReportedWhole
<1>1. IInv => ReportedWhole
  BY DEF IInv, WholeFrames, Reporting, ReportedWhole
<1> QED
  BY <1>1, Safety, PTL

(* In a session without another input selected, the descriptors DMA runs   *)
(* on are laid out for the lines the hardware sends.                       *)
THEOREM LinedUp == Spec => []FramesLineUp
<1>1. IInv => FramesLineUp
  BY DEF IInv, Ringed, Quiet, InputSet, FramesLineUp
<1> QED
  BY <1>1, Safety, PTL

(* What probe acquires is given back by its own failure and by remove, the *)
(* interrupt and the DMA channel by a failed open and by close.            *)
THEOREM AllGivenBack == Spec => []GivenBack
<1>1. IInv => GivenBack
  BY DEF IInv, Session, GivenBack
<1> QED
  BY <1>1, Safety, PTL
===========================================================================
