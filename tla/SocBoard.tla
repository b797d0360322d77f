------------------------------ MODULE SocBoard ------------------------------
(***************************************************************************)
(* The services of a board whose device is a whole SOC                     *)
(* (linux/pcie/src/soc.c), on top of the board's life: files connect to    *)
(* the SOC, which gives each connection an input and an output channel,    *)
(* and close them; a release closes what its file left open, a suspend or  *)
(* a reset of the device closes all.                                       *)
(*                                                                         *)
(* Each of these is a control: a request is written, and its thread waits, *)
(* with board->mutex taken, until the SOC has answered, a timeout or a     *)
(* signal. What the SOC does with the request then happens anyway.         *)
(*                                                                         *)
(* An NNC board is one on which nothing is ever connected.                 *)
(***************************************************************************)
EXTENDS BoardLifecycle, Sequences

CONSTANTS
  InputChannels, OutputChannels,
  Pairs,         \* input and output channel the SOC connects together
  MaxRequests,   \* requests the SOC has not answered
  SocContract    \* which of SocClauses hold

(* What nothing in the code ensures:                                       *)
(*   late   no control begins before the SOC is done with the last one     *)
(*   own    a file closes only channels that it has connected              *)
(*   close  the close ioctl is not given up                                *)
(*   stale  after a suspend or a reset, files that had channels then are   *)
(*          closed before another one connects                             *)
(*   marked a suspend finds the device marked as in use, if it is          *)
SocClauses == {"late", "own", "close", "stale", "marked"}

ASSUME SocAssumption ==
  /\ InputChannels \intersect OutputChannels = {} /\ MaxRequests \in Nat \ {0}
  /\ Pairs \subseteq {{i, o} : i \in InputChannels, o \in OutputChannels}
  /\ SocContract \subseteq SocClauses

VARIABLES
  soc_used_channels_bitmap, \* of each file's context
  host,                     \* file on whose lists each host channel runs
  owner,                    \* file the SOC has connected each channel for
  control,                  \* the control under way
  requests,                 \* what the SOC has still to answer
  response,                 \* in the mailbox
  control_resp_ready,
  soc_on,                   \* the SOC answers
  driver_compatible,
  survivors                 \* files with channels at the last driver_down

socVars == <<soc_used_channels_bitmap, host, owner, control, requests, response,
             control_resp_ready, soc_on, driver_compatible, survivors>>
serviceVars == <<owner, response, soc_on>>

Channels == InputChannels \union OutputChannels
Free == [c \in Channels |-> NoFile]
Request == [by : Files \union {NoFile}, call : {"connect", "close", "power_off", "release",
                                                "reset"},
            channels : SUBSET Channels]
NoControl == [by |-> NoFile, call |-> "none", channels |-> {}]
NoResponse == [code |-> "none", ok |-> FALSE, channels |-> {}]

(* control_code of the request a call sends.                               *)
Code(call) == IF call \in {"release", "reset"} THEN "close" ELSE call

SocTypeOK ==
  /\ soc_used_channels_bitmap \in [Files -> SUBSET Channels]
  /\ host \in [Channels -> Files \union {NoFile}]
  /\ owner \in [Channels -> Files \union {NoFile}]
  /\ control \in Request \union {NoControl}
  /\ requests \in Seq(Request) /\ Len(requests) <= MaxRequests
  /\ response \in [code : {"none", "connect", "close", "power_off"}, ok : BOOLEAN,
                   channels : SUBSET Channels]
  /\ control_resp_ready \in BOOLEAN
  /\ soc_on \in BOOLEAN /\ driver_compatible \in BOOLEAN
  /\ survivors \subseteq Files

SocInit ==
  /\ Init
  /\ soc_used_channels_bitmap = [f \in Files |-> {}]
  /\ host = Free /\ owner = Free
  /\ control = NoControl /\ requests = <<>> /\ response = NoResponse
  /\ control_resp_ready = FALSE
  /\ soc_on = TRUE /\ driver_compatible = TRUE
  /\ survivors = {}

----------------------------------------------------------------------------
(* soc_control up to its wait. The mutex is taken.                         *)
SocControl(f, call, bitmap) ==
  LET request == [by |-> f, call |-> call, channels |-> bitmap] IN
  /\ control = NoControl
  /\ soc_on => Len(requests) < (IF "late" \in SocContract THEN 1 ELSE MaxRequests)
  /\ mutex > 0 /\ mutex' = mutex - 1
  /\ control_resp_ready' = FALSE
  /\ requests' = IF soc_on THEN Append(requests, request) ELSE requests
  /\ control' = request

(* The SOC carries a request out, or refuses it, and answers. The handler  *)
(* (soc_irq_handler) completes the wait, if interrupts are on. With nobody *)
(* waiting the answer is lost: the next control begins with                *)
(* reinit_completion and writes its request over it.                       *)
SocAnswer ==
  LET request == Head(requests)
      Answer(ok, bitmap) ==
        response' = IF control = NoControl THEN NoResponse
                    ELSE [code |-> Code(request.call), ok |-> ok, channels |-> bitmap]
  IN
  /\ requests # <<>> /\ soc_on
  /\ \/ /\ request.call = "connect"
        /\ \E pair \in Pairs :
             /\ \A c \in pair : owner[c] = NoFile
             /\ owner' = [c \in Channels |-> IF c \in pair THEN request.by ELSE owner[c]]
             /\ Answer(TRUE, pair)
        /\ UNCHANGED soc_on
     \/ /\ Code(request.call) = "close"
        /\ owner' = [c \in Channels |-> IF c \in request.channels THEN NoFile ELSE owner[c]]
        /\ Answer(TRUE, {})
        /\ UNCHANGED soc_on
     \/ /\ request.call = "power_off"
        /\ soc_on' = FALSE /\ owner' = Free
        /\ Answer(TRUE, {})
     \/ Answer(FALSE, {}) /\ UNCHANGED <<owner, soc_on>>
  /\ requests' = Tail(requests)
  /\ control_resp_ready' = (control # NoControl
                              /\ (control_resp_ready \/ interrupts_enabled))
  /\ UNCHANGED <<vars, soc_used_channels_bitmap, host, control, driver_compatible, survivors>>

(* Mutant: a control that is given up keeps the mutex.                     *)
ControlKeepsMutex(ok) ==
  /\ \/ /\ control_resp_ready
        /\ ok = (response.ok /\ response.code = Code(control.call))
        /\ mutex' = mutex + 1
     \/ /\ "close" \in SocContract => control.call # "close"
        /\ ok = FALSE
        /\ UNCHANGED mutex
  /\ control' = NoControl
  /\ response' = NoResponse /\ control_resp_ready' = FALSE
  /\ UNCHANGED <<owner, soc_on, requests>>

(* How soc_control ends: with the answer, or given up by a timeout or a    *)
(* signal. Zero is success.                                                *)
ControlReturns(ok) ==
  /\ \/ /\ control_resp_ready
        /\ ok = (response.ok /\ response.code = Code(control.call))
     \/ /\ "close" \in SocContract => control.call # "close"
        /\ ok = FALSE
  /\ control' = NoControl
  /\ response' = NoResponse /\ control_resp_ready' = FALSE
  /\ mutex' = mutex + 1
  /\ UNCHANGED <<owner, soc_on, requests>>

----------------------------------------------------------------------------
(* hailo_soc_ioctl: the calls of files.                                    *)
SocIoctl(f) ==
  /\ IoctlRun(f) /\ driver_compatible
  /\ UNCHANGED <<pc, fileVars, ref_count, deviceVars, removalVars, freed, suspended,
                 soc_used_channels_bitmap, serviceVars, driver_compatible, survivors>>

(* hailo_soc_connect_ioctl sends its request,                              *)
Connect(f) ==
  /\ SocIoctl(f)
  /\ "stale" \in SocContract => survivors \subseteq {f}
  /\ SocControl(f, "connect", {})
  /\ UNCHANGED host

StopChannels(bitmap) ==
  host' = [c \in Channels |-> IF c \in bitmap THEN NoFile ELSE host[c]]

(* close_channels stops the channels of the host first.                    *)
Close(f, i, o) ==
  /\ SocIoctl(f)
  /\ "own" \in SocContract => {i, o} \subseteq soc_used_channels_bitmap[f]
  /\ StopChannels({i, o})
  /\ SocControl(f, "close", {i, o})

PowerOff(f) == SocIoctl(f) /\ SocControl(f, "power_off", {}) /\ UNCHANGED host

(* The ioctl ends.                                                         *)
SocIoctlReturns(f, call, ok) ==
  /\ control.call = call /\ control.by = f
  /\ ControlReturns(ok)
  /\ Goto(f, "user")
  /\ UNCHANGED <<fileVars, ref_count, deviceVars, removalVars, freed, suspended,
                 driver_compatible, survivors>>

(* Mutant: the output channel is not noted.                                *)
SetInputBit(f, bitmap) ==
  soc_used_channels_bitmap' =
    [soc_used_channels_bitmap EXCEPT ![f] = @ \union (bitmap \intersect InputChannels)]

SetBits(f, bitmap) ==
  soc_used_channels_bitmap' = [soc_used_channels_bitmap EXCEPT ![f] = @ \union bitmap]

(* The answer names the channels; if they and the file's lists are good,   *)
(* the host's are started.                                                 *)
ConnectReturns(f) ==
  \E ok \in BOOLEAN, good \in BOOLEAN :
    /\ SocIoctlReturns(f, "connect", ok)
    /\ IF ok /\ good
       THEN /\ host' = [c \in Channels |-> IF c \in response.channels THEN f ELSE host[c]]
            /\ SetBits(f, response.channels)
       ELSE UNCHANGED <<host, soc_used_channels_bitmap>>

(* Mutant: the bits stay.                                                  *)
KeepBits(f, bitmap) == UNCHANGED soc_used_channels_bitmap

ClearBits(f, bitmap) ==
  soc_used_channels_bitmap' = [soc_used_channels_bitmap EXCEPT ![f] = @ \ bitmap]

CloseReturns(f) ==
  \E ok \in BOOLEAN :
    /\ SocIoctlReturns(f, "close", ok)
    /\ IF ok THEN ClearBits(f, control.channels) ELSE UNCHANGED soc_used_channels_bitmap
    /\ UNCHANGED host

PowerOffReturns(f) ==
  \E ok \in BOOLEAN :
    SocIoctlReturns(f, "power_off", ok) /\ UNCHANGED <<host, soc_used_channels_bitmap>>

----------------------------------------------------------------------------
(* hailo_soc_file_context_finalize, in the release of the file, which goes *)
(* on whatever comes of it.                                                *)
Finalize(f) ==
  /\ pc[f] = "release" /\ soc_used_channels_bitmap[f] # {} /\ MayRelease
  /\ StopChannels(soc_used_channels_bitmap[f])
  /\ SocControl(f, "release", soc_used_channels_bitmap[f])
  /\ UNCHANGED <<pc, fileVars, ref_count, deviceVars, removalVars, freed, suspended,
                 soc_used_channels_bitmap, serviceVars, driver_compatible, survivors>>

FinalizeReturns(f) ==
  /\ control.call = "release" /\ control.by = f /\ MayRelease
  /\ \E ok \in BOOLEAN : ControlReturns(ok)
  /\ ReleaseFile(f)
  /\ ClearBits(f, Channels)
  /\ survivors' = survivors \ {f}
  /\ UNCHANGED <<removalVars, freed, suspended, host, driver_compatible>>

(* A file that has nothing connected.                                      *)
SocReleaseRun(f) ==
  /\ soc_used_channels_bitmap[f] = {}
  /\ ReleaseRun(f)
  /\ survivors' = survivors \ {f}
  /\ UNCHANGED <<soc_used_channels_bitmap, host, owner, control, requests, response,
                 control_resp_ready, soc_on, driver_compatible>>

----------------------------------------------------------------------------
Connected == {f \in Files : soc_used_channels_bitmap[f] # {}}

(* hailo_pci_reset_prepare: hailo_soc_driver_down, if the device is used.  *)
ResetPrepare ==
  /\ remover = "idle" /\ ~suspended /\ used_by_filp # NoFile
  /\ StopChannels(Channels)
  /\ SocControl(NoFile, "reset", Channels)
  /\ survivors' = Connected
  /\ UNCHANGED <<pc, fileVars, ref_count, deviceVars, removalVars, freed, suspended,
                 soc_used_channels_bitmap, serviceVars, driver_compatible>>

ResetPrepareReturns ==
  /\ control.call = "reset"
  /\ \E ok \in BOOLEAN : ControlReturns(ok)
  /\ UNCHANGED <<pc, fileVars, ref_count, deviceVars, removalVars, freed, suspended,
                 soc_used_channels_bitmap, host, driver_compatible, survivors>>

(* hailo_pcie_suspend: the same. Nothing else runs, so the wait is no step.*)
SocSuspend ==
  /\ mutex > 0
  /\ "marked" \in SocContract => host = Free \/ used_by_filp # NoFile
  /\ Suspend
  /\ StopChannels(IF used_by_filp # NoFile THEN Channels ELSE {})
  /\ survivors' = Connected
  /\ UNCHANGED <<soc_used_channels_bitmap, owner, control, requests, response,
                 control_resp_ready, soc_on, driver_compatible>>

(* hailo_pcie_resume: the SOC has kept its connections or lost them, is up *)
(* or is not, and may have come up with another version of its driver      *)
(* (hailo_soc_get_driver_info).                                            *)
SocResume ==
  /\ Resume
  /\ soc_on' \in BOOLEAN
  /\ owner' \in IF soc_on' THEN {owner, Free} ELSE {Free}
  /\ requests' = <<>> /\ control_resp_ready' = FALSE
  /\ driver_compatible' \in {driver_compatible, FALSE}
  /\ UNCHANGED <<soc_used_channels_bitmap, host, control, response, survivors>>

(* The removal does not close anything; the device is gone.                *)
SocRemoveDrop ==
  /\ RemoveDrop
  /\ host' = Free /\ owner' = Free /\ requests' = <<>> /\ soc_on' = FALSE
  /\ UNCHANGED <<soc_used_channels_bitmap, control, response, control_resp_ready,
                 driver_compatible, survivors>>

----------------------------------------------------------------------------
(* What a file does when it has no control under way. (That it enables     *)
(* vDMA channels is of no consequence to any of this.)                     *)
OtherSteps(f) ==
  /\ control.by # f
  /\ \/ GetBoard(f) \/ OpenSucceed(f) \/ OpenFail(f) \/ OpenInterrupted(f) \/ OpenDec(f)
     \/ IoctlBegin(f) \/ MarkInUse(f)
     \/ IoctlSleep(f) \/ IoctlWoken(f) \/ IoctlEnd(f)
     \/ ReleaseBegin(f) \/ ReleaseFree(f)
  /\ UNCHANGED socVars

SocClient(f) ==
  \/ OtherSteps(f)
  \/ Connect(f) \/ ConnectReturns(f)
  \/ \E i \in InputChannels, o \in OutputChannels : Close(f, i, o)
  \/ CloseReturns(f)
  \/ PowerOff(f) \/ PowerOffReturns(f)
  \/ Finalize(f) \/ FinalizeReturns(f) \/ SocReleaseRun(f)

SocNext ==
  \/ ~suspended /\ \E f \in Files : SocClient(f)
  \/ SocAnswer
  \/ ResetPrepare \/ ResetPrepareReturns
  \/ (RemoveDown \/ RemoveUnlist \/ RemoveCount \/ RemoveReturn) /\ UNCHANGED socVars
  \/ SocRemoveDrop
  \/ SocSuspend
  \/ SocResume

SocSpec == SocInit /\ [][SocNext]_<<vars, socVars>>

----------------------------------------------------------------------------
(* Properties.                                                             *)

(* A channel that runs on a file's descriptor lists is noted in the file's *)
(* bitmap, so that its release stops it before it frees the lists; the SOC *)
(* has connected it for that file; and none runs while the device sleeps.  *)
HostChannelsTracked ==
  /\ SocTypeOK
  /\ \A c \in Channels :
       host[c] # NoFile =>
         /\ c \in soc_used_channels_bitmap[host[c]]
         /\ soc_on => owner[c] = host[c]
         /\ ~suspended

(* "close only channels connected by this (by bitmap)": a file's bitmap    *)
(* never names a channel that the SOC has connected for another file, so   *)
(* its release closes nothing of anybody else's, whatever was given up,    *)
(* refused or closed from outside before.                                  *)
ClosesOnlyOwn ==
  \A f \in Files : \A c \in soc_used_channels_bitmap[f] : owner[c] \in {f, NoFile}

(* To the rest of the driver a control is an operation under the mutex.    *)
Board ==
  INSTANCE BoardLifecycle WITH
    mutex <- IF control = NoControl THEN mutex ELSE mutex + 1

(* A board with these services is a board: its files, its device and its   *)
(* removal go through the steps of BoardLifecycle, however long a control  *)
(* takes and whatever comes of it.                                         *)
SocImplementsBoard == Board!Spec
=============================================================================
