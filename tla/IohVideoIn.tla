----------------------------- MODULE IohVideoIn -----------------------------
(***************************************************************************)
(* The capture driver src/PF/ioh_video_in/ioh_video_in.c: probe and        *)
(* remove, the calls on the video device, the interrupt handler and the    *)
(* DMA callback.                                                           *)
(*                                                                         *)
(* Three parties act: a system call (s_mutex admits one at a time), the    *)
(* interrupt handler of the video input (vsync and overflow) and the       *)
(* callback of the DMA driver, which is another interrupt. They share      *)
(* err_flag, cap_start_flag, cap_stop_flag, frame_index, refresh_count and *)
(* the registers; dev_lock covers one write of INTENB at a time and        *)
(* nothing else. A frame buffer is its index; what matters of its content  *)
(* is whether it is a whole frame of the running capture.                  *)
(*                                                                         *)
(* The DMA driver and the video hardware are not in the repository: the    *)
(* engine follows the ring of descriptors it was given, and the callback   *)
(* of a frame is done before the next frame is (16 ms or more).            *)
(***************************************************************************)
EXTENDS Integers, Sequences, FiniteSets

CONSTANTS
  Inputs,         \* rows of ioh_vin_config_tables
  Default,        \* INPUT_DEFAULT
  Invalid,        \* INVALID_INPUT_DATA_FORMAT
  FrameParams,    \* values of the module parameter n_frame_buf
  RefreshPeriod,  \* the module parameter refresh_period
  MaxCaptures,    \* bound: descriptor rings allocated
  Misuses         \* bound: the ways in which its plain use may be left

ASSUME VideoAssumption ==
  /\ Default \in Inputs /\ Invalid \notin Inputs
  /\ FrameParams \subseteq Nat
  /\ RefreshPeriod \in Nat \ {0} /\ MaxCaptures \in Nat

VARIABLES
  held,         \* what probe has acquired and nobody has given back
  nFrameBuf,    \* n_frame_buf
  proc,         \* where the system call is that holds s_mutex
  opened,       \* IOH_VIN_FLAG_OPENED
  startCap,     \* IOH_VIN_FLAG_START_CAP
  lines,        \* "irq" requested, DMA "channel" requested
  input,        \* cur_input, and with it pix_format
  hw,           \* cur_hw_config_in and cur_hw_config_out
  reset,        \* the hardware is held in reset
  intenb,       \* intenb.vsintenb and intenb.ofintenb
  dmarenb,      \* intenb.dmarenb
  errFlag, capStartFlag, capStopFlag,
  refreshCount, frameIndex,
  captures,     \* rings allocated so far
  live,         \* rings allocated and not freed
  desc,         \* dma_desc_virt: a ring, or 0
  starts,       \* the ring desc_start and desc_end point into
  dma,          \* the ring and the frame the enabled DMA channel works on
  pending,      \* a frame is complete, its callback not yet called
  isr,          \* where ioh_vin_interrupt is
  overflow,     \* that run of it has an overflow to handle
  cb,           \* where ioh_vin_dma_callback is
  drain,        \* handlers that were running when cap_stop went to sleep
  laidOut,      \* history: the input the descriptors were made for
  selected,     \* history: s_input has changed the input since the last open
  torn,         \* history: frames that do not hold a whole frame
  restarted,    \* history: nothing was reported since DMA was restarted
  orderly       \* history: the ways in which the driver was used plainly

fileVars == <<held, nFrameBuf, opened, startCap, lines, input, selected>>
regVars == <<reset, intenb, dmarenb>>
flagVars == <<errFlag, capStartFlag, capStopFlag, refreshCount>>
ringVars == <<captures, live, desc, starts, laidOut>>
imageVars == <<dma, torn, restarted>>
isrVars == <<isr, overflow>>
cbVars == <<cb, pending>>
vars == <<fileVars, proc, hw, regVars, flagVars, frameIndex, ringVars, imageVars,
          isrVars, cbVars, drain, orderly>>

Off == [ring |-> 0, frame |-> 0]
OnRing(r, f) == [ring |-> r, frame |-> f]
DmaOn == dma # Off
Running == DmaOn /\ dmarenb /\ ~reset
FrameNumbers == 0..(nFrameBuf - 1)

Ladder == <<"device", "pci", "iomap", "frames", "v4l2", "vfd", "video">>
Acquired(i) == {Ladder[j] : j \in 1..i}
Lost == {"buffer", "video_device"}
bound == "video" \in held

ProcPc == {"idle", "on setup", "on alloc", "on make", "on flag", "on arm",
           "off int", "off dma", "sleep", "free",
           "close irq", "close dma", "dqbuf"}
IsrPc == {"idle", "restart", "rearm int", "rearm dma", "clear err", "test start",
          "start", "start int", "start dma", "started",
          "stop dma", "setup", "arm", "set err"}
CbPc == {"idle", "check", "stop dma", "setup", "arm", "report"}
Uses == {"stream", "stop", "handlers", "input", "remove"}

TypeOK ==
  /\ held \subseteq Acquired(7) \cup Lost /\ nFrameBuf \in 3..5
  /\ proc \in ProcPc /\ isr \in IsrPc /\ cb \in CbPc
  /\ opened \in BOOLEAN /\ startCap \in BOOLEAN
  /\ lines \subseteq {"irq", "channel"}
  /\ input \in Inputs /\ hw \in Inputs \cup {Invalid}
  /\ reset \in BOOLEAN /\ intenb \in BOOLEAN /\ dmarenb \in BOOLEAN
  /\ errFlag \in BOOLEAN /\ capStartFlag \in BOOLEAN /\ capStopFlag \in BOOLEAN
  /\ refreshCount \in 0..RefreshPeriod
  /\ frameIndex \in FrameNumbers
  /\ captures \in 0..MaxCaptures /\ live \subseteq 1..captures
  /\ desc \in {0} \cup live /\ starts \in 0..captures
  /\ laidOut \in Inputs /\ selected \in BOOLEAN
  /\ dma \in {Off} \cup [ring : 1..captures, frame : FrameNumbers]
  /\ pending \in BOOLEAN /\ overflow \in BOOLEAN
  /\ drain \subseteq {"isr", "cb"}
  /\ torn \subseteq FrameNumbers /\ restarted \in BOOLEAN
  /\ orderly \subseteq Uses

(* n_frame_buf after ioh_vin_set_frame_buffer. *)
ClampedCount(p) == IF p < 3 THEN 3 ELSE IF p > 5 THEN 5 ELSE p

(* The module is loaded, no device is probed. *)
Init ==
  /\ held = {} /\ nFrameBuf \in {ClampedCount(p) : p \in FrameParams}
  /\ proc = "idle" /\ isr = "idle" /\ cb = "idle"
  /\ opened = FALSE /\ startCap = FALSE /\ lines = {}
  /\ input = Default /\ hw = Default
  /\ reset = FALSE /\ intenb = FALSE /\ dmarenb = FALSE
  /\ errFlag = FALSE /\ capStartFlag = FALSE /\ capStopFlag = FALSE
  /\ refreshCount = 0 /\ frameIndex = 0
  /\ captures = 0 /\ live = {} /\ desc = 0 /\ starts = 0
  /\ laidOut = Default /\ selected = FALSE
  /\ dma = Off /\ pending = FALSE /\ overflow = FALSE /\ drain = {}
  /\ torn = FrameNumbers /\ restarted = FALSE /\ orderly = Uses

(* Bound: a behaviour departs from the plain use of the driver in one of   *)
(* these ways only.                                                        *)
Disorder(use) ==
  /\ use \in Misuses /\ orderly' = orderly \ {use}
  /\ orderly = Uses
OrderlyIf(good, use) == IF good THEN UNCHANGED orderly ELSE Disorder(use)
Orderly(use) == use \in orderly

Calls(from, to) == proc = from /\ proc' = to
Free == proc = "idle"

---------------------------------------------------------------------------
(* The hardware *)

(* set_input_format and set_output_format: the format is written and read  *)
(* back. One that does not read back, or is not in the tables, is marked   *)
(* invalid, and is then never found again.                                 *)
ReadBack(format) == {format, Invalid}

(* Everything in INTENB off. *)
InitIntenb == intenb' = FALSE /\ dmarenb' = FALSE

(* setup_hw: out of reset, INTENB initialised, the two formats set.        *)
SetupHw(format) ==
  /\ reset' = FALSE /\ InitIntenb
  /\ hw' \in ReadBack(format)

EnableInterrupts == intenb' = TRUE /\ UNCHANGED <<reset, dmarenb>>
DisableInterrupts == intenb' = FALSE /\ UNCHANGED <<reset, dmarenb>>
EnableRequests == dmarenb' = TRUE /\ UNCHANGED <<reset, intenb>>
DisableRequests == dmarenb' = FALSE /\ UNCHANGED <<reset, intenb>>

(* ioh_set_dma_desc and ioh_enable_dma, ioh_disable_dma. A frame in the    *)
(* making is left torn.                                                    *)
Torn == IF DmaOn THEN torn \cup {dma.frame} ELSE torn
StartDma(f) == dma' = OnRing(starts, f) /\ torn' = Torn
StopDma == dma' = Off /\ torn' = Torn

(* The engine completes a frame, 16 ms or more after a handler started it, *)
(* and goes on with the next of the ring.                                  *)
FrameDone ==
  /\ Running /\ isr \in {"idle", "stop dma"}
  /\ ~pending /\ cb = "idle"
  /\ dma' = OnRing(dma.ring, (dma.frame + 1) % nFrameBuf)
  /\ torn' = torn \ {dma.frame}
  /\ pending' = TRUE
  /\ UNCHANGED <<fileVars, proc, hw, regVars, flagVars, frameIndex, ringVars,
                 restarted, isrVars, cb, drain, orderly>>

---------------------------------------------------------------------------
(* probe and remove *)

(* The labels of probe and of init_device undo what the first i steps of   *)
(* the ladder acquired.                                                    *)
FaultyUndone(i) == Acquired(i) \ (IF i = 6 THEN {"frames"} ELSE {})
Undone(i) == Acquired(i)

(* alloc_frame_buffer that fails at buffer i frees those below i - 1.      *)
BuffersLost(i) == (0..(i - 1)) \ {j \in 0..(i - 1) : j < i - 1}

(* Everything in the structure is zero, the flags of the module are not    *)
(* touched.                                                                *)
FreshDevice ==
  /\ opened' = FALSE /\ startCap' = FALSE /\ lines' = {}
  /\ input' = Default
  /\ hw' = Default
  /\ reset' = FALSE /\ intenb' = FALSE /\ dmarenb' = FALSE
  /\ refreshCount' = 0 /\ frameIndex' = 0
  /\ desc' = 0 /\ starts' = 0 /\ laidOut' = Default /\ selected' = FALSE

(* All steps succeed, or the one after the first i fails. Bound: nothing   *)
(* of the last device's sessions is left when the next is probed.          *)
Probe ==
  /\ Free /\ ~bound /\ ~opened /\ cb = "idle"
  /\ \/ held' = Acquired(7)
     \/ \E i \in 0..6 : held' = Acquired(i) \ Undone(i)
     \/ \E b \in FrameNumbers :
          /\ BuffersLost(b) # {}
          /\ held' = (Acquired(3) \ Undone(3)) \cup {"buffer"}
  /\ FreshDevice
  /\ UNCHANGED <<nFrameBuf, proc, errFlag, capStartFlag, capStopFlag, captures, live,
                 imageVars, isrVars, cbVars, drain, orderly>>

(* Removal asks for s_mutex and for nothing else: a file may be open, a    *)
(* capture running, a callback under way. The frame buffers, the mapping   *)
(* and the structure are freed, that of the video device is unregistered,  *)
(* with an empty release function. What a call or a handler then finds in  *)
(* the freed structure is undefined: here it is what was there before, and *)
(* no property says anything of such a device.                             *)
Remove ==
  /\ Free /\ bound
  /\ held' = {"video_device"}
  /\ OrderlyIf(~opened /\ cb = "idle", "remove")
  /\ UNCHANGED <<nFrameBuf, opened, startCap, lines, input, selected, proc,
                 hw, regVars, flagVars, frameIndex, ringVars, imageVars,
                 isrVars, cbVars, drain>>

---------------------------------------------------------------------------
(* open and close *)

(* The row of the configuration table that an open takes over. *)
FaultyConfigured == hw     \* the configuration is kept
Configured == input

(* request_dma, request_irq or setup_hw may fail; each undoes what came    *)
(* before it.                                                              *)
Open ==
  /\ Free /\ bound /\ ~opened
  /\ \/ lines' = {"irq", "channel"} /\ opened' = TRUE
        /\ SetupHw(Configured) /\ hw' = Configured
        /\ selected' = FALSE
     \/ SetupHw(Configured) /\ hw' = Invalid
        /\ UNCHANGED <<lines, opened, selected>>
     \/ SetupHw(hw) /\ hw' = hw
        /\ UNCHANGED <<lines, opened, selected>>
  /\ UNCHANGED <<held, nFrameBuf, startCap, input, proc, flagVars, frameIndex,
                 ringVars, imageVars, isrVars, cbVars, drain, orderly>>

CloseHw ==
  /\ Calls("idle", "close irq") /\ opened
  /\ reset' = TRUE /\ InitIntenb
  /\ OrderlyIf(~startCap, "stream")
  /\ UNCHANGED <<fileVars, hw, flagVars, frameIndex, ringVars, imageVars,
                 isrVars, cbVars, drain>>

(* free_irq waits for a handler that is running. *)
CloseIrq ==
  /\ Calls("close irq", "close dma")
  /\ isr = "idle"
  /\ lines' = lines \ {"irq"}
  /\ UNCHANGED <<held, nFrameBuf, opened, startCap, input, selected, hw,
                 regVars, flagVars, frameIndex, ringVars, imageVars,
                 isrVars, cbVars, drain, orderly>>

CloseDma ==
  /\ Calls("close dma", "idle")
  /\ lines' = lines \ {"channel"}
  /\ StopDma
  /\ opened' = FALSE /\ pending' = FALSE
  /\ UNCHANGED <<held, nFrameBuf, startCap, input, selected, hw, regVars, flagVars,
                 frameIndex, ringVars, restarted, isrVars, cb, drain, orderly>>

---------------------------------------------------------------------------
(* VIDIOC_STREAMON: cap_start. Bound: a capture that was stopped under a    *)
(* running handler is the last.                                            *)

FaultyStreamOn ==      \* the frame index goes on from the last capture
  /\ Calls("idle", "on setup") /\ opened
  /\ captures < MaxCaptures /\ Orderly("stop")
  /\ refreshCount' = 0 /\ capStopFlag' = FALSE
  /\ torn' = FrameNumbers /\ restarted' = FALSE
  /\ OrderlyIf(~startCap, "stream")
  /\ UNCHANGED <<fileVars, hw, regVars, errFlag, capStartFlag, frameIndex, ringVars,
                 dma, isrVars, cbVars, drain>>

StreamOn ==
  /\ Calls("idle", "on setup") /\ opened
  /\ captures < MaxCaptures /\ Orderly("stop")
  /\ refreshCount' = 0 /\ frameIndex' = 0 /\ capStopFlag' = FALSE
  /\ torn' = FrameNumbers /\ restarted' = FALSE
  /\ OrderlyIf(~startCap, "stream")
  /\ UNCHANGED <<fileVars, hw, regVars, errFlag, capStartFlag, ringVars,
                 dma, isrVars, cbVars, drain>>

StartSetup ==
  /\ proc = "on setup"
  /\ SetupHw(hw)
  /\ proc' = IF hw' = Invalid THEN "idle" ELSE "on alloc"
  /\ UNCHANGED <<fileVars, flagVars, frameIndex, ringVars, imageVars, isrVars, cbVars,
                 drain, orderly>>

(* A ring still in use is forgotten. If the DMA driver refuses the mode or *)
(* the callback the new ring is freed at once.                             *)
StartAlloc ==
  /\ proc = "on alloc"
  /\ captures' = captures + 1
  /\ \/ desc' = captures' /\ live' = live \cup {captures'} /\ proc' = "on make"
     \/ desc' = 0 /\ proc' = "idle" /\ UNCHANGED live
  /\ UNCHANGED <<fileVars, hw, regVars, flagVars, frameIndex, starts, laidOut, imageVars, isrVars,
                 cbVars, drain, orderly>>

StartMake ==
  /\ Calls("on make", "on flag")
  /\ starts' = desc /\ laidOut' = input
  /\ UNCHANGED <<fileVars, hw, regVars, flagVars, frameIndex, captures, live, desc,
                 imageVars, isrVars, cbVars, drain, orderly>>

StartFlag ==
  /\ Calls("on flag", "on arm")
  /\ capStartFlag' = TRUE
  /\ UNCHANGED <<fileVars, hw, regVars, errFlag, capStopFlag, refreshCount, frameIndex,
                 ringVars, imageVars, isrVars, cbVars, drain, orderly>>

StartArm ==
  /\ Calls("on arm", "idle")
  /\ EnableInterrupts
  /\ startCap' = TRUE
  /\ UNCHANGED <<held, nFrameBuf, opened, lines, input, selected, hw, flagVars,
                 frameIndex, ringVars, imageVars, isrVars, cbVars, drain, orderly>>

---------------------------------------------------------------------------
(* VIDIOC_STREAMOFF: cap_stop *)

StreamOff ==
  /\ Calls("idle", "off int") /\ opened
  /\ capStopFlag' = TRUE
  /\ OrderlyIf(startCap, "stream")
  /\ UNCHANGED <<fileVars, hw, regVars, errFlag, capStartFlag, refreshCount, frameIndex,
                 ringVars, imageVars, isrVars, cbVars, drain>>

StopInterrupt ==
  /\ Calls("off int", "off dma")
  /\ DisableInterrupts
  /\ OrderlyIf(isr = "idle" /\ cb = "idle", "stop")
  /\ UNCHANGED <<fileVars, hw, flagVars, frameIndex, ringVars, imageVars, isrVars,
                 cbVars, drain>>

StopRequests ==
  /\ Calls("off dma", "sleep")
  /\ DisableRequests
  /\ drain' = (IF isr = "idle" THEN {} ELSE {"isr"})
                \cup (IF cb = "idle" /\ ~pending THEN {} ELSE {"cb"})
  /\ UNCHANGED <<fileVars, hw, flagVars, frameIndex, ringVars, imageVars, isrVars,
                 cbVars, orderly>>

FaultyStopDisable ==   \* the DMA channel is left enabled
  /\ Calls("sleep", "free")
  /\ drain = {}
  /\ UNCHANGED <<fileVars, hw, regVars, flagVars, frameIndex, ringVars, imageVars,
                 isrVars, cbVars, drain, orderly>>

(* msleep(80): a handler that was running has long finished. *)
StopDisable ==
  /\ Calls("sleep", "free")
  /\ drain = {}
  /\ StopDma
  /\ UNCHANGED <<fileVars, hw, regVars, flagVars, frameIndex, ringVars, restarted,
                 isrVars, cbVars, drain, orderly>>

StopFree ==
  /\ Calls("free", "idle")
  /\ live' = live \ {desc} /\ desc' = 0
  /\ startCap' = FALSE
  /\ UNCHANGED <<held, nFrameBuf, opened, lines, input, selected, hw, regVars, flagVars,
                 frameIndex, captures, starts, laidOut, imageVars, isrVars, cbVars, drain, orderly>>

---------------------------------------------------------------------------
(* The other calls: what they change. All of them hold s_mutex.            *)

(* VIDIOC_S_INPUT; EBUSY while a capture is on. The hardware is not told.  *)
SelectInput ==
  /\ Free /\ opened /\ ~startCap
  /\ input' \in Inputs
  /\ OrderlyIf(input' = input, "input")
  /\ selected' = (selected \/ input' # input)
  /\ UNCHANGED <<held, nFrameBuf, opened, startCap, lines, proc, hw, regVars,
                 flagVars, frameIndex, ringVars, imageVars, isrVars, cbVars, drain>>

(* VIDIOC_DQBUF, blocking: it sleeps with s_mutex held until a buffer is   *)
(* done, which no code of this driver ever does, or a signal comes.        *)
DequeueBuffer ==
  /\ Calls("idle", "dqbuf") /\ opened
  /\ UNCHANGED <<fileVars, hw, regVars, flagVars, frameIndex, ringVars, imageVars,
                 isrVars, cbVars, drain, orderly>>

DequeueInterrupted ==
  /\ Calls("dqbuf", "idle")
  /\ UNCHANGED <<fileVars, hw, regVars, flagVars, frameIndex, ringVars, imageVars,
                 isrVars, cbVars, drain, orderly>>

CallStep ==
  \/ CloseIrq \/ CloseDma
  \/ StartSetup \/ StartAlloc \/ StartMake \/ StartFlag \/ StartArm
  \/ StopInterrupt \/ StopRequests \/ StopDisable \/ StopFree

---------------------------------------------------------------------------
(* ioh_vin_interrupt *)

IsrGoes(from, to) == isr = from /\ isr' = to /\ drain' = drain

(* The end of a handler's run. *)
IsrLeaves(from) == isr = from /\ isr' = "idle" /\ drain' = drain \ {"isr"}
Leaves(from) == cb = from /\ cb' = "idle" /\ drain' = drain \ {"cb"}

AfterVsync(from) ==
  IF overflow THEN IsrGoes(from, "stop dma") ELSE IsrLeaves(from)

Min(a, b) == IF a < b THEN a ELSE b

(* A vsync, an overflow or both; not while all are masked or in reset. *)
IsrEnter(vsync) ==
  /\ "irq" \in lines /\ intenb /\ ~reset
  /\ isr = "idle"
  /\ overflow' \in (IF vsync THEN BOOLEAN ELSE {TRUE})
  /\ isr' = IF ~vsync THEN "stop dma" ELSE IF errFlag THEN "restart" ELSE "test start"
  /\ refreshCount' = IF vsync THEN Min(refreshCount + 1, RefreshPeriod) ELSE refreshCount
  /\ OrderlyIf(cb = "idle", "handlers")
  /\ UNCHANGED <<fileVars, proc, hw, regVars, errFlag, capStartFlag, capStopFlag,
                 frameIndex, ringVars, imageVars, cbVars, drain>>

(* ioh_vin_restart_dma: only the first three frames have a case. *)
FaultyRestartFrame == (frameIndex + 2) % 3
RestartFrame == IF frameIndex = 0 THEN 1 ELSE IF frameIndex = 1 THEN 2 ELSE 0

IsrRestart ==
  /\ IsrGoes("restart", "rearm int")
  /\ StartDma(RestartFrame)
  /\ restarted' = TRUE
  /\ UNCHANGED <<fileVars, proc, hw, regVars, flagVars, frameIndex, ringVars, overflow,
                 cbVars, orderly>>

IsrRearm ==
  /\ \/ IsrGoes("rearm int", "rearm dma") /\ EnableInterrupts
     \/ IsrGoes("rearm dma", "clear err") /\ EnableRequests
     \/ IsrGoes("start int", "start dma") /\ EnableInterrupts
     \/ IsrGoes("start dma", "started") /\ EnableRequests
  /\ UNCHANGED <<fileVars, proc, hw, flagVars, frameIndex, ringVars, imageVars, overflow,
                 cbVars, orderly>>

IsrClearError ==
  /\ IsrGoes("clear err", "test start")
  /\ errFlag' = FALSE
  /\ UNCHANGED <<fileVars, proc, hw, regVars, capStartFlag, capStopFlag, refreshCount,
                 frameIndex, ringVars, imageVars, overflow, cbVars, orderly>>

IsrTestStart ==
  /\ IF capStartFlag THEN IsrGoes("test start", "start") ELSE AfterVsync("test start")
  /\ UNCHANGED <<fileVars, proc, hw, regVars, flagVars, frameIndex, ringVars, imageVars,
                 overflow, cbVars, orderly>>

IsrStart ==
  /\ IsrGoes("start", "start int")
  /\ StartDma(0)
  /\ UNCHANGED <<fileVars, proc, hw, regVars, flagVars, frameIndex, ringVars, restarted,
                 overflow, cbVars, orderly>>

IsrStarted ==
  /\ AfterVsync("started")
  /\ capStartFlag' = FALSE
  /\ UNCHANGED <<fileVars, proc, hw, regVars, errFlag, capStopFlag, refreshCount,
                 frameIndex, ringVars, imageVars, overflow, cbVars, orderly>>

(* The overflow: disable_dma, setup_hw, start_interrupt, err_flag = 1.     *)
IsrOverflow ==
  /\ \/ IsrGoes("stop dma", "setup") /\ StopDma /\ UNCHANGED <<hw, regVars>>
     \/ IsrGoes("setup", "arm") /\ SetupHw(hw) /\ UNCHANGED <<dma, torn>>
     \/ IsrGoes("arm", "set err") /\ EnableInterrupts /\ UNCHANGED <<hw, dma, torn>>
  /\ UNCHANGED <<fileVars, proc, flagVars, frameIndex, ringVars, restarted, overflow,
                 cbVars, orderly>>

FaultyIsrSetError ==   \* the error is not noted
  /\ IsrLeaves("set err")
  /\ UNCHANGED <<fileVars, proc, hw, regVars, flagVars, frameIndex, ringVars, imageVars,
                 overflow, cbVars, orderly>>

IsrSetError ==
  /\ IsrLeaves("set err")
  /\ errFlag' = TRUE
  /\ UNCHANGED <<fileVars, proc, hw, regVars, capStartFlag, capStopFlag, refreshCount,
                 frameIndex, ringVars, imageVars, overflow, cbVars, orderly>>

IsrStep ==
  \/ IsrRestart \/ IsrRearm \/ IsrClearError
  \/ IsrTestStart \/ IsrStart \/ IsrStarted
  \/ IsrOverflow \/ IsrSetError

---------------------------------------------------------------------------
(* ioh_vin_dma_callback and ioh_vin_dma_complete *)

CbGoes(from, to) == cb = from /\ cb' = to /\ drain' = drain

CbEnter ==
  /\ pending /\ pending' = FALSE
  /\ \/ capStopFlag
        /\ drain' = drain \ {"cb"}
        /\ UNCHANGED <<cb, refreshCount, orderly>>
     \/ /\ ~capStopFlag
        /\ cb' = IF refreshCount >= RefreshPeriod THEN "check" ELSE "report"
        /\ refreshCount' = IF cb' = "check" THEN 0 ELSE refreshCount
        /\ OrderlyIf(isr = "idle", "handlers")
        /\ UNCHANGED drain
  /\ UNCHANGED <<fileVars, proc, hw, regVars, errFlag, capStartFlag, capStopFlag,
                 frameIndex, ringVars, imageVars, isrVars>>

(* check_desc: there is no ring, or the channel is where it should be, or  *)
(* it is not (or cannot be read).                                          *)
CbCheck ==
  /\ \/ desc = 0 /\ Leaves("check") /\ UNCHANGED errFlag
     \/ desc # 0 /\ CbGoes("check", "report") /\ UNCHANGED errFlag
     \/ desc # 0 /\ CbGoes("check", "stop dma") /\ errFlag' = TRUE
  /\ UNCHANGED <<fileVars, proc, hw, regVars, capStartFlag, capStopFlag, refreshCount,
                 frameIndex, ringVars, imageVars, isrVars, pending, orderly>>

CbRefresh ==
  /\ \/ CbGoes("stop dma", "setup") /\ StopDma /\ UNCHANGED <<hw, regVars>>
     \/ CbGoes("setup", "arm") /\ SetupHw(hw) /\ UNCHANGED <<dma, torn>>
     \/ Leaves("arm") /\ EnableInterrupts /\ UNCHANGED <<hw, dma, torn>>
  /\ UNCHANGED <<fileVars, proc, flagVars, frameIndex, ringVars, restarted, isrVars,
                 pending, orderly>>

(* The frame is handed to the bridge. A transfer that was aborted is       *)
(* reported like any other: dma_fail_count is 1 only inside this function. *)
CbReport ==
  /\ Leaves("report")
  /\ frameIndex' = (frameIndex + 1) % nFrameBuf
  /\ restarted' = FALSE
  /\ UNCHANGED <<fileVars, proc, hw, regVars, flagVars, ringVars, dma, torn, isrVars,
                 pending, orderly>>

CbStep == CbEnter \/ CbCheck \/ CbRefresh \/ CbReport

Next ==
  \/ Probe \/ Remove
  \/ Open \/ CloseHw \/ StreamOn \/ StreamOff
  \/ SelectInput \/ DequeueBuffer \/ DequeueInterrupted
  \/ CallStep
  \/ FrameDone
  \/ \E vsync \in BOOLEAN : IsrEnter(vsync)
  \/ IsrStep \/ CbStep

Spec == Init /\ [][Next]_vars

(* A call and a handler that have begun go on. The camera delivers frames: *)
(* a vsync comes between any two overflows.                                *)
Fairness ==
  /\ WF_vars(CallStep) /\ WF_vars(IsrStep) /\ WF_vars(CbStep)
  /\ SF_vars(IsrEnter(TRUE))

FairSpec == Spec /\ Fairness

---------------------------------------------------------------------------
(* Safety *)

(* Captures are started and stopped in turn, no handler was running when   *)
(* one was stopped, and the device is there.                               *)
WellStopped == Orderly("stream") /\ Orderly("stop") /\ Orderly("remove")

(* DMA works on a ring that is allocated and into frame buffers that are,  *)
(* in whatever order captures are started, stopped, forgotten at close or  *)
(* started twice: no flag left over lets a handler restart it after        *)
(* cap_stop or close. Two things break it, and are left out: a handler     *)
(* that was running when cap_stop turned the interrupt off, and the        *)
(* removal of the device under a capture.                                  *)
DmaIntoLive ==
  Orderly("stop") /\ Orderly("remove") /\ DmaOn =>
    dma.ring \in live /\ "frames" \in held

(* The frame handed to the bridge is not the one DMA is writing, for every *)
(* number of frame buffers, whatever restarts came in between.             *)
ReportedNotWritten ==
  WellStopped /\ cb = "report" /\ Running => dma.frame # frameIndex

(* With the default of three buffers, the frame handed to the bridge is    *)
(* whole, unless it is the first one after a restart.                      *)
ReportedWhole ==
  WellStopped /\ cb = "report" /\ nFrameBuf = 3 =>
    frameIndex \notin torn \/ restarted

(* The descriptors a capture runs on are laid out for the lines the        *)
(* hardware sends, in every session in which no other input was selected:  *)
(* make_dma_descriptors takes the height from pix_format, which s_input    *)
(* changes, and the hardware is set up from cur_hw_config_in, which only   *)
(* an open changes.                                                        *)
FramesLineUp ==
  WellStopped /\ DmaOn /\ ~selected => hw \in {laidOut, Invalid}

(* What probe acquires is given back when it fails and by remove, and the  *)
(* interrupt and the DMA channel by a failed open and by close.            *)
GivenBack ==
  /\ ~bound => held \subseteq Lost
  /\ Free /\ ~opened => lines = {}

(* Liveness *)

Calm == Free /\ startCap /\ WellStopped /\ Orderly("handlers")

(* A capture runs, and runs again after each overflow or refresh, as long  *)
(* as the two handlers do not get in each other's way.                     *)
CaptureResumes == Calm ~> Running \/ ~Calm
===========================================================================
