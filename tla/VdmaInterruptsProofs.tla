------------------------ MODULE VdmaInterruptsProofs ------------------------
(***************************************************************************)
(* Proofs about VdmaInterrupts, for any threads, files and channels, and   *)
(* about the ring a channel keeps the times of its interrupts in           *)
(* (VdmaTimestamps), which shares no state with it.                        *)
(***************************************************************************)
EXTENDS VdmaInterrupts, VdmaTimestamps, FiniteSetTheorems, SequenceTheorems, TLAPS

(* The channels the threads of a file enable and disable.                  *)
Named(f) == UNION {UNION EnableSets[t] : t \in {u \in Threads : FileOf[u] = f}}

(* What the driver leaves to its clients: nobody waits for a channel that  *)
(* threads of another file enable or disable, since a release wakes        *)
(* nobody. Files may contend for all others.                               *)
WaitsKeptApart ==
  \A f \in Files, t \in Threads :
    FileOf[t] # f => \A channels \in WaitSets[t] : channels \intersect Named(f) = {}

Disabling == {"disable_clear", "disable_wake"}

(* Who holds the mutex is alone with it, and nobody does when it is free.  *)
OneHolder ==
  /\ mutex \in {0, 1}
  /\ mutex = 1 <=> \A t \in Threads : pc[t] \notin Holding
  /\ \A t, u \in Threads : pc[t] \in Holding /\ pc[u] \in Holding => t = u

(* What the locals of an ioctl are good for.                               *)
Locals ==
  \A t \in Threads :
    /\ pc[t] \in Waiting => bitmap[t] \in WaitSets[t]
    /\ pc[t] \in Disabling => bitmap[t] \in EnableSets[t]
    /\ pc[t] = "disable_clear" =>
         \A c \in bitmap[t] : c \notin enabled_channels /\ ongoing[c] = 0 /\ done[c] = 0
    /\ irq_bitmap[t] # {} => pc[t] = "fill"

(* The handler is through with what it has read when it ends.              *)
SourceHandled == isr = "idle" => irq_source = {}

(* Somebody is about to wake all that sleep.                               *)
WakeComing == isr = "wake" \/ \E u \in Threads : pc[u] \in Disabling

(* What a sleeper has found wanting still is, or it will be woken.         *)
SleepersChecked ==
  \A t \in Threads : sleeping[t] =>
    /\ pc[t] \in {"check_enabled", "schedule"} /\ AnyInterrupt(t) => WakeComing
    /\ pc[t] = "schedule" /\ AnyDisabled(t) => WakeComing

(* A context names what its file's threads enabled.                        *)
ContextsNamed == \A f \in Files : context_channels[f] \subseteq Named(f)

WaitInv ==
  /\ TypeOK /\ OneHolder /\ Locals /\ SourceHandled /\ CompletionTracked
  /\ ContextsNamed /\ EnabledInSomeContext
  /\ WaitsKeptApart => SleepersChecked

----------------------------------------------------------------------------
LEMMA NamedByThreads ==
  ASSUME NEW t \in Threads, NEW channels \in EnableSets[t]
  PROVE  /\ FileOf[t] \in Files /\ channels \in SUBSET Channels
         /\ channels \subseteq Named(FileOf[t])
<1>1. FileOf[t] \in Files /\ channels \in SUBSET Channels
  BY ThreadsAssumption, RequestsAssumption
<1>2. channels \subseteq Named(FileOf[t])
  BY DEF Named
<1> QED
  BY <1>1, <1>2

(* hailo_vdma_enable_channels_ioctl and hailo_vdma_launch_transfer_ioctl,  *)
(* which keep the mutex.                                                   *)
LEMMA EnableStep ==
  ASSUME WaitInv, NEW t \in Threads, NEW channels \in EnableSets[t],
         EnableChannels(t, channels)
  PROVE  WaitInv'
<1>0. /\ FileOf[t] \in Files /\ channels \in SUBSET Channels
      /\ channels \subseteq Named(FileOf[t])
  BY NamedByThreads
<1> USE DEF WaitInv, EnableChannels, Begin, threadVars, isrVars
<1>1. TypeOK'
  BY <1>0 DEF TypeOK
<1>2. OneHolder' /\ SourceHandled'
  BY DEF OneHolder, SourceHandled
<1>3. Locals' /\ CompletionTracked'
  <2>1. \A u \in Threads : pc[u] # "disable_clear"
    BY DEF OneHolder, Holding
  <2> QED
    BY <2>1 DEF Locals, CompletionTracked
<1>4. ASSUME WaitsKeptApart PROVE SleepersChecked'
  BY <1>4 DEF SleepersChecked, WakeComing, AnyInterrupt, AnyDisabled
<1>5. ContextsNamed' /\ EnabledInSomeContext'
  <2>1. /\ context_channels'[FileOf[t]] = context_channels[FileOf[t]] \union channels
        /\ \A f \in Files : f # FileOf[t] => context_channels'[f] = context_channels[f]
    BY <1>0 DEF TypeOK
  <2> QED
    BY <1>0, <2>1 DEF ContextsNamed, EnabledInSomeContext
<1> QED
  BY <1>1, <1>2, <1>3, <1>4, <1>5

LEMMA LaunchStep ==
  ASSUME WaitInv, NEW t \in Threads, NEW c \in LaunchSets[t], LaunchTransfer(t, c)
  PROVE  WaitInv'
<1> USE DEF WaitInv, LaunchTransfer, Begin, threadVars, isrVars, engineVars
<1>1. TypeOK'
  BY RequestsAssumption DEF TypeOK
<1>2. OneHolder' /\ SourceHandled'
  BY DEF OneHolder, SourceHandled
<1>2a. ContextsNamed' /\ EnabledInSomeContext'
  BY DEF ContextsNamed, EnabledInSomeContext
<1>3. Locals'
  BY DEF TypeOK, OneHolder, Locals, Holding
<1>4. CompletionTracked'
  BY DEF CompletionTracked
<1>4a. ASSUME WaitsKeptApart PROVE SleepersChecked'
  BY <1>4a DEF SleepersChecked, WakeComing, AnyInterrupt, AnyDisabled
<1> QED
  BY <1>1, <1>2, <1>2a, <1>3, <1>4, <1>4a

----------------------------------------------------------------------------
(* hailo_vdma_disable_channels_ioctl. From its first step on it holds the  *)
(* mutex, and sleepers that see the channels disabled will be woken.       *)
LEMMA DisableStep ==
  ASSUME WaitInv, NEW t \in Threads, NEW channels \in EnableSets[t],
         DisableChannels(t, channels)
  PROVE  WaitInv'
<1>0. channels \in SUBSET Channels
  BY NamedByThreads
<1> USE DEF WaitInv
<1>a. /\ mutex = 1 /\ mutex' = 0 /\ pc[t] = "user"
      /\ pc' = [pc EXCEPT ![t] = "disable_clear"]
      /\ bitmap' = [bitmap EXCEPT ![t] = channels]
      /\ enabled_channels' = enabled_channels \ channels
      /\ ongoing' = [c \in Channels |-> IF c \in channels THEN 0 ELSE ongoing[c]]
      /\ done' = [c \in Channels |-> IF c \in channels THEN 0 ELSE done[c]]
      /\ UNCHANGED <<irq_bitmap, sleeping, interrupted_channels, context_channels, isrVars,
                     signals>>
  BY DEF DisableChannels, Begin, Enter, Goto, DropTransfers, OneHolder
<1>b. \A u \in Threads : pc[u] \notin Holding
  BY <1>a DEF OneHolder
<1>1. TypeOK'
  BY <1>0, <1>a DEF TypeOK, isrVars, Places, Holding
<1>2. OneHolder'
  BY <1>a, <1>b DEF OneHolder, TypeOK, Holding
<1>3. Locals'
  BY <1>0, <1>a DEF TypeOK, Locals, Waiting, Disabling
<1>4. SourceHandled' /\ CompletionTracked'
  BY <1>a DEF TypeOK, SourceHandled, CompletionTracked, isrVars
<1>5. ASSUME WaitsKeptApart PROVE SleepersChecked'
  <2>1. pc'[t] \in Disabling
    BY <1>5, <1>a DEF TypeOK, Disabling
  <2> QED
    BY <1>5, <2>1 DEF SleepersChecked, WakeComing
<1>6. ContextsNamed' /\ EnabledInSomeContext'
  BY <1>a DEF ContextsNamed, EnabledInSomeContext
<1> QED
  BY <1>1, <1>2, <1>3, <1>4, <1>5, <1>6

LEMMA DisableClearStep ==
  ASSUME WaitInv, NEW t \in Threads, DisableClear(t)
  PROVE  WaitInv'
<1> USE DEF WaitInv, DisableClear, Goto, isrVars
<1>0. /\ FileOf[t] \in Files /\ bitmap[t] \in EnableSets[t]
      /\ bitmap[t] \intersect enabled_channels = {}
  <2>1. bitmap[t] \in EnableSets[t]
    BY DEF Locals, Disabling
  <2>2. bitmap[t] \intersect enabled_channels = {}
    BY DEF Locals
  <2> QED
    BY <2>1, <2>2, NamedByThreads
<1>1. TypeOK'
  BY <1>0 DEF TypeOK, Places, Holding
<1>2. OneHolder'
  BY DEF OneHolder, TypeOK, Holding
<1>3. Locals' /\ SourceHandled'
  BY DEF TypeOK, Locals, Waiting, Disabling, SourceHandled
<1>4. CompletionTracked'
  BY DEF TypeOK, Locals, CompletionTracked
<1>5. ASSUME WaitsKeptApart PROVE SleepersChecked'
  <2>1. pc'[t] \in Disabling
    BY <1>5 DEF TypeOK, Disabling
  <2> QED
    BY <1>5, <2>1 DEF SleepersChecked, WakeComing
<1>6. ContextsNamed' /\ EnabledInSomeContext'
  <2>1. /\ context_channels'[FileOf[t]] = context_channels[FileOf[t]] \ bitmap[t]
        /\ \A f \in Files : f # FileOf[t] => context_channels'[f] = context_channels[f]
    BY <1>0 DEF TypeOK
  <2> QED
    BY <1>0, <2>1 DEF ContextsNamed, EnabledInSomeContext
<1> QED
  BY <1>1, <1>2, <1>3, <1>4, <1>5, <1>6

LEMMA DisableWakeStep ==
  ASSUME WaitInv, NEW t \in Threads, DisableWake(t)
  PROVE  WaitInv'
<1> USE DEF WaitInv, DisableWake, WakeUpAll, Leave, Enter, Goto, isrVars, engineVars
<1>1. TypeOK'
  BY DEF TypeOK, Places
<1>2. OneHolder'
  BY DEF OneHolder, TypeOK, Holding
<1>3. Locals' /\ SourceHandled'
  BY DEF TypeOK, Locals, Waiting, Disabling, SourceHandled
<1>4. CompletionTracked'
  BY DEF CompletionTracked
<1>4a. ASSUME WaitsKeptApart PROVE SleepersChecked'
  BY <1>4a DEF SleepersChecked
<1>5. ContextsNamed' /\ EnabledInSomeContext'
  BY DEF ContextsNamed, EnabledInSomeContext
<1> QED
  BY <1>1, <1>2, <1>3, <1>4, <1>4a, <1>5

----------------------------------------------------------------------------
(* The interrupts-wait ioctl, up to where it has the mutex again.          *)
LEMMA SleepStep ==
  ASSUME WaitInv, NEW t \in Threads,
         CallWait(t) \/ Prepare(t) \/ CheckInterrupted(t) \/ CheckEnabled(t) \/ Schedule(t)
           \/ Signal(t)
  PROVE  WaitInv'
<1>1. TypeOK'
  <2> USE DEF WaitInv, Enter, Goto, isrVars, engineVars, TypeOK, Places, Waiting
  <2>1. CASE CallWait(t)
    <3>1. PICK channels \in WaitSets[t] : WaitInterrupts(t, channels)
      BY <2>1 DEF CallWait
    <3>2. channels \in SUBSET Channels
      BY RequestsAssumption
    <3> QED
      BY <3>1, <3>2 DEF WaitInterrupts
  <2>2. CASE Prepare(t) \/ Schedule(t)
    BY <2>2 DEF Prepare, Schedule
  <2>3. CASE CheckInterrupted(t) \/ CheckEnabled(t)
    BY <2>3 DEF CheckInterrupted, CheckEnabled, CheckCondition
  <2>4. CASE Signal(t)
    BY <2>4 DEF Signal, Leave
  <2> QED
    BY <2>1, <2>2, <2>3, <2>4
<1> USE DEF WaitInv, CallWait, WaitInterrupts, Begin, Prepare, CheckInterrupted, CheckEnabled,
            CheckCondition, Schedule, Signal, Leave, Enter, Goto, isrVars, engineVars
<1>2. OneHolder'
  BY DEF OneHolder, TypeOK, Holding
<1>3. Locals' /\ SourceHandled'
  BY DEF TypeOK, Locals, Waiting, Disabling, SourceHandled
<1>4. CompletionTracked'
  BY DEF CompletionTracked
<1>5. ASSUME WaitsKeptApart PROVE SleepersChecked'
  BY <1>5 DEF TypeOK, SleepersChecked, WakeComing, AnyInterrupt, AnyDisabled, Disabling
<1>6. ContextsNamed' /\ EnabledInSomeContext'
  BY DEF ContextsNamed, EnabledInSomeContext
<1> QED
  BY <1>1, <1>2, <1>3, <1>4, <1>5, <1>6

(* Its end, under the mutex.                                               *)
LEMMA ReportStep ==
  ASSUME WaitInv, NEW t \in Threads, Redown(t) \/ ReadInterrupts(t) \/ FillIrqData(t)
  PROVE  WaitInv'
<1> USE DEF WaitInv, Redown, ReadInterrupts, FillIrqData, Leave, Enter, Goto, isrVars, engineVars
<1>1. TypeOK'
  BY DEF TypeOK, Places, Holding
<1>2. OneHolder'
  BY DEF OneHolder, TypeOK, Holding
<1>3. Locals' /\ SourceHandled'
  BY DEF TypeOK, Locals, OneHolder, Holding, Waiting, Disabling, SourceHandled
<1>4. CompletionTracked'
  BY DEF TypeOK, CompletionTracked, Locals
<1>5. ASSUME WaitsKeptApart PROVE SleepersChecked'
  BY <1>5 DEF TypeOK, SleepersChecked, WakeComing, AnyInterrupt, AnyDisabled, Disabling
<1>6. ContextsNamed' /\ EnabledInSomeContext'
  BY DEF ContextsNamed, EnabledInSomeContext
<1> QED
  BY <1>1, <1>2, <1>3, <1>4, <1>5, <1>6

----------------------------------------------------------------------------
(* hailo_vdma_file_context_finalize: it wakes nobody, and nobody waits for *)
(* the channels of a file that has no thread in an ioctl.                  *)
LEMMA ReleaseStep ==
  ASSUME WaitInv, NEW f \in Files, Release(f)
  PROVE  WaitInv'
<1> USE DEF WaitInv, Release, DropTransfers, threadVars, isrVars
<1>0. \A t \in Threads : pc[t] \notin Holding
  BY DEF OneHolder
<1>1. TypeOK'
  BY DEF TypeOK
<1>2. OneHolder' /\ SourceHandled'
  BY DEF OneHolder, SourceHandled
<1>3. Locals' /\ CompletionTracked'
  BY DEF TypeOK, Locals, CompletionTracked
<1>4. ASSUME WaitsKeptApart PROVE SleepersChecked'
  <2> SUFFICES ASSUME NEW t \in Threads, sleeping[t]
               PROVE  /\ pc[t] \in {"check_enabled", "schedule"} /\ AnyInterrupt(t)' => WakeComing'
                      /\ pc[t] = "schedule" /\ AnyDisabled(t)' => WakeComing'
    BY <1>4 DEF SleepersChecked
  <2>1. WakeComing' = WakeComing
    BY <1>4 DEF WakeComing
  <2>2. AnyInterrupt(t)' => AnyInterrupt(t)
    BY <1>4 DEF AnyInterrupt
  <2>3. ASSUME pc[t] = "schedule"
        PROVE  AnyDisabled(t)' = AnyDisabled(t)
    <3>1. FileOf[t] # f /\ bitmap[t] \in WaitSets[t]
      BY <1>4, <2>3 DEF Locals, Waiting
    <3>2. bitmap[t] \intersect context_channels[f] = {}
      BY <1>4, <3>1 DEF WaitsKeptApart, ContextsNamed
    <3> QED
      BY <1>4, <3>2 DEF AnyDisabled
  <2> QED
    BY <1>4, <2>1, <2>2, <2>3 DEF SleepersChecked
<1>5. ContextsNamed' /\ EnabledInSomeContext'
  <2>1. /\ context_channels'[f] = {}
        /\ \A g \in Files : g # f => context_channels'[g] = context_channels[g]
    BY DEF TypeOK
  <2> QED
    BY <2>1 DEF ContextsNamed, EnabledInSomeContext
<1> QED
  BY <1>1, <1>2, <1>3, <1>4, <1>5

(* The device and hailo_irqhandler.                                        *)
LEMMA InterruptStep ==
  ASSUME WaitInv,
         \/ \E c \in Channels : HwComplete(c)
         \/ \E i \in Channels \union {CloseIrq} : HwInterrupt(i)
         \/ Isr
         \/ UNCHANGED vars
  PROVE  WaitInv'
<1> USE DEF WaitInv, HwComplete, HwInterrupt, Isr, IrqRead, IrqSet, IrqWake, WakeUpAll,
            threadVars, engineVars, isrVars, vars
<1>1. TypeOK'
  <2>1. CASE \E c \in Channels : HwComplete(c)
    BY <2>1 DEF TypeOK
  <2>2. CASE \E i \in Channels \union {CloseIrq} : HwInterrupt(i)
    BY <2>2 DEF TypeOK
  <2>3. CASE Isr \/ UNCHANGED vars
    BY <2>3 DEF TypeOK
  <2> QED
    BY <2>1, <2>2, <2>3
<1>2. OneHolder' /\ SourceHandled'
  BY DEF OneHolder, SourceHandled
<1>3. Locals'
  BY DEF TypeOK, Locals
<1>4. CompletionTracked'
  BY DEF TypeOK, CompletionTracked, SourceHandled
<1>5. ASSUME WaitsKeptApart PROVE SleepersChecked'
  BY <1>5 DEF TypeOK, SleepersChecked, WakeComing, AnyInterrupt, AnyDisabled
<1>6. ContextsNamed' /\ EnabledInSomeContext'
  BY DEF ContextsNamed, EnabledInSomeContext
<1> QED
  BY <1>1, <1>2, <1>3, <1>4, <1>5, <1>6

----------------------------------------------------------------------------

LEMMA InitInv == Init => WaitInv
<1> SUFFICES ASSUME Init PROVE WaitInv
  OBVIOUS
<1> USE DEF Init
<1>1. TypeOK
  BY DEF TypeOK, Places
<1>2. OneHolder /\ Locals /\ SourceHandled
  BY DEF OneHolder, Locals, SourceHandled, Holding, Waiting, Disabling
<1>3. SleepersChecked /\ CompletionTracked
  BY DEF SleepersChecked, CompletionTracked
<1>4. ContextsNamed /\ EnabledInSomeContext
  BY DEF ContextsNamed, EnabledInSomeContext
<1> QED
  BY <1>1, <1>2, <1>3, <1>4 DEF WaitInv

LEMMA WaitInvStep ==
  ASSUME WaitInv, [Next]_vars
  PROVE  WaitInv'
<1>1. ASSUME NEW t \in Threads, Call(t)
      PROVE  WaitInv'
  BY <1>1, EnableStep, DisableStep, LaunchStep, SleepStep DEF Call
<1>2. ASSUME NEW t \in Threads, Redown(t) \/ Kernel(t) \/ Signal(t)
      PROVE  WaitInv'
  BY <1>2, DisableClearStep, DisableWakeStep, SleepStep, ReportStep DEF Kernel
<1> QED
  BY <1>1, <1>2, ReleaseStep, InterruptStep DEF Next

LEMMA Invariant == Spec => []WaitInv
<1>1. WaitInv /\ [Next]_vars => WaitInv'
  BY WaitInvStep
<1> QED
  BY <1>1, InitInv, PTL DEF Spec

(* board->mutex is held once or free, although the interrupts-wait ioctl   *)
(* gives it up and may return without it.                                  *)
THEOREM MutexCorrect == Spec => []MutexHeldOnce
<1>1. WaitInv => MutexHeldOnce
  <2> SUFFICES ASSUME WaitInv PROVE mutex + Cardinality({t \in Threads : pc[t] \in Holding}) = 1
    BY DEF WaitInv, MutexHeldOnce
  <2>1. CASE mutex = 1
    <3>1. {t \in Threads : pc[t] \in Holding} = {}
      BY <2>1 DEF WaitInv, OneHolder
    <3> QED
      BY <2>1, <3>1, FS_EmptySet
  <2>2. CASE mutex = 0
    <3>1. PICK t \in Threads : pc[t] \in Holding
      BY <2>2 DEF WaitInv, OneHolder
    <3>2. {u \in Threads : pc[u] \in Holding} = {t}
      BY <3>1 DEF WaitInv, OneHolder
    <3>3. Cardinality({u \in Threads : pc[u] \in Holding}) = 1
      BY <3>2, FS_Singleton
    <3> QED
      BY <2>2, <3>3
  <2> QED
    BY <2>1, <2>2 DEF WaitInv, OneHolder
<1> QED
  BY <1>1, Invariant, PTL

(* A thread that sleeps in hailo_vdma_interrupts_wait_ioctl although its   *)
(* condition holds is about to be woken, if it waits for no channel that   *)
(* another file may disable with its release.                              *)
THEOREM WakeupCorrect == WaitsKeptApart => (Spec => []NoLostWakeup)
<1> SUFFICES ASSUME WaitsKeptApart PROVE Spec => []NoLostWakeup
  OBVIOUS
<1>1. WaitInv => NoLostWakeup
  BY DEF WaitInv, SleepersChecked, WakeComing, NoLostWakeup, Disabling
<1> QED
  BY <1>1, Invariant, PTL

(* A finished transfer is in the interrupt status, in the handler, in      *)
(* interrupted_channels or about to be reaped by a wait, until it is.      *)
THEOREM CompletionCorrect == Spec => []CompletionTracked
<1>1. WaitInv => CompletionTracked
  BY DEF WaitInv
<1> QED
  BY <1>1, Invariant, PTL

(* A channel that is enabled is in the context of a file, so that disable  *)
(* or hailo_vdma_file_context_finalize of that file will disable it, even  *)
(* where files enable and disable channels of each other.                  *)
THEOREM EnabledCorrect == Spec => []EnabledInSomeContext
<1>1. WaitInv => EnabledInSomeContext
  BY DEF WaitInv
<1> QED
  BY <1>1, Invariant, PTL

----------------------------------------------------------------------------
(* The ring of timestamps.                                                 *)

(* The place behind i in the ring, and how far h is behind t.              *)
Next1(i) == IF i + 1 = TsSize THEN 0 ELSE i + 1
Dist(t, h) == IF h >= t THEN h - t ELSE h - t + TsSize

LEMMA RingSize == TsSize \in Nat \ {0} /\ TsSize >= 2
BY TimestampsAssumption

LEMMA RingNext ==
  ASSUME NEW i \in Indices
  PROVE  (i + 1) % TsSize = Next1(i) /\ Next1(i) \in Indices
<1>1. CASE i + 1 = TsSize
  BY <1>1, RingSize DEF Next1, Indices
<1>2. CASE i + 1 # TsSize
  BY <1>2, RingSize DEF Next1, Indices
<1> QED
  BY <1>1, <1>2

LEMMA RingDist ==
  ASSUME NEW t \in Indices, NEW h \in Indices
  PROVE  /\ (h - t) % TsSize = Dist(t, h) /\ Dist(t, h) \in Indices
         /\ (t - h - 1) % TsSize = (TsSize - 1) - Dist(t, h)
<1>0. PICK n \in Nat \ {0} : n = TsSize
  BY RingSize
<1>1. t \in 0 .. n - 1 /\ h \in 0 .. n - 1
  BY <1>0 DEF Indices
<1>2. PICK d \in Int : d = h - t
  BY <1>1
<1>3. /\ d \in -(n - 1) .. n - 1 /\ t - h - 1 = -d - 1
      /\ Dist(t, h) = IF d >= 0 THEN d ELSE d + n
  BY <1>0, <1>1, <1>2 DEF Dist
<1>4. d % n = IF d >= 0 THEN d ELSE d + n
  <2>1. CASE d >= 0
    BY <1>3, <2>1
  <2>2. CASE ~(d >= 0)
    BY <1>3, <2>2
  <2> QED
    BY <2>1, <2>2
<1>5. (-d - 1) % n = IF d >= 0 THEN n - 1 - d ELSE -d - 1
  <2>1. CASE d >= 0
    BY <1>3, <2>1
  <2>2. CASE ~(d >= 0)
    BY <1>3, <2>2
  <2> QED
    BY <2>1, <2>2
<1> QED
  BY <1>0, <1>2, <1>3, <1>4, <1>5 DEF Indices

LEMMA RingMoves ==
  ASSUME NEW t \in Indices, NEW h \in Indices
  PROVE  /\ Dist(t, h) < TsSize - 1 => Dist(t, Next1(h)) = Dist(t, h) + 1
         /\ Dist(t, h) # 0 => Dist(Next1(t), h) = Dist(t, h) - 1
         /\ Dist(t, h) = 0 <=> t = h
         /\ Dist(0, 0) = 0
BY RingSize DEF Dist, Next1, Indices

(* How many timestamps the handler is about to add,                        *)
Pending == IF "head" \in stores THEN 1 ELSE 0

(* and how many are both in the ring and in the result.                    *)
Shared == IF reader = "copied" THEN 1 ELSE 0

Held == Dist(tail, head)

(* The ring, with what is on its way into it, never uses its last place.   *)
(* A read has taken what was there at its start and what was pushed since. *)
BoundsInv ==
  /\ TsTypeOK
  /\ stores # {} => clock + Pending <= MaxInterrupts
  /\ stores = {"slot"} => clock >= 1
  /\ Held + Pending <= TsSize - 1
  /\ reader = "copied" => Held >= 1 /\ Len(result) >= 1
  /\ reader = "idle" => result = <<>>
  /\ reader # "idle" =>
       /\ pushed <= 1
       /\ Len(result) - Shared + Held + Pending <= TsSize - 1 + pushed

LEMMA RingFacts ==
  ASSUME TsTypeOK
  PROVE  /\ head \in Indices /\ tail \in Indices /\ Held \in Indices
         /\ CircCnt = Held /\ CircSpace = (TsSize - 1) - Held
         /\ Pending \in {0, 1} /\ Shared \in {0, 1} /\ Len(result) \in Nat /\ pushed \in Nat
         /\ clock \in Nat /\ TsSize \in Nat /\ TsSize >= 2
<1>1. head \in Indices /\ tail \in Indices /\ result \in Seq(Stamp) /\ pushed \in Nat /\ clock \in Nat
  BY TimestampsAssumption DEF TsTypeOK
<1>2. Held \in Indices /\ CircCnt = Held /\ CircSpace = (TsSize - 1) - Held
  BY <1>1, RingDist DEF Held, CircCnt, CircSpace
<1> QED
  BY <1>1, <1>2, RingSize DEF Pending, Shared

LEMMA InitTs == TsInit => BoundsInv
<1> SUFFICES ASSUME TsInit PROVE BoundsInv
  OBVIOUS
<1>1. 0 \in Indices /\ 0 \in 0 .. MaxInterrupts /\ 0 \in 0 .. TsDescCount /\ 0 \in Nat
  BY RingSize, TimestampsAssumption DEF Indices
<1>2. timestamps \in [Indices -> Stamp]
  BY <1>1 DEF TsInit, Stamp
<1>3. TsTypeOK
  BY <1>1, <1>2 DEF TsInit, TsTypeOK
<1>4. Held = 0 /\ Pending = 0
  BY <1>1, RingMoves DEF TsInit, Held, Pending
<1> QED
  BY <1>3, <1>4, RingSize DEF TsInit, BoundsInv

LEMMA PushStep ==
  ASSUME BoundsInv, "paced" \in TsContract, PushTimestamp
  PROVE  BoundsInv'
<1>0. /\ head \in Indices /\ tail \in Indices /\ Held \in Indices
      /\ CircSpace = (TsSize - 1) - Held
      /\ Pending \in {0, 1} /\ Shared \in {0, 1} /\ Len(result) \in Nat /\ pushed \in Nat
      /\ clock \in Nat /\ TsSize \in Nat /\ TsSize >= 2 /\ MaxInterrupts \in Nat
  BY RingFacts, TimestampsAssumption DEF BoundsInv
<1>1. /\ stores = {} /\ clock < MaxInterrupts
      /\ reader # "idle" => pushed = 0 /\ pushed' = 1
      /\ reader = "idle" => pushed' = 0
      /\ UNCHANGED <<measured, head, tail, timestamps, mask, reader, result>>
  BY DEF PushTimestamp
<1>2. Held' = Held /\ Shared' = Shared /\ Pending = 0
  BY <1>1 DEF Held, Shared, Pending
<1>3. \/ Held < TsSize - 1 /\ stores' = {"slot", "head"} /\ clock' = clock
      \/ stores' = {} /\ clock' = clock + 1
  BY <1>0, <1>1 DEF PushTimestamp, Indices
<1>4. /\ Held' + Pending' <= TsSize - 1 /\ Pending' \in {0, 1}
      /\ clock' \in 0 .. MaxInterrupts /\ stores' \subseteq {"slot", "head"}
      /\ stores' # {} => clock' + Pending' <= MaxInterrupts /\ stores' # {"slot"}
  <2>1. CASE Held < TsSize - 1 /\ stores' = {"slot", "head"} /\ clock' = clock
    <3>1. Pending' = 1
      BY <2>1 DEF Pending
    <3> QED
      BY <1>0, <1>1, <1>2, <2>1, <3>1 DEF Indices
  <2>2. CASE stores' = {} /\ clock' = clock + 1
    <3>1. Pending' = 0
      BY <2>2 DEF Pending
    <3> QED
      BY <1>0, <1>1, <1>2, <2>2, <3>1 DEF BoundsInv, Indices
  <2> QED
    BY <1>3, <2>1, <2>2
<1>5. TsTypeOK'
  <2>1. pushed' \in Nat
    BY <1>1
  <2> QED
    BY <1>1, <1>4, <2>1 DEF BoundsInv, TsTypeOK, Indices, Stamp, NoMask
<1>6. ASSUME reader # "idle"
      PROVE  Len(result) - Shared + Held' + Pending' <= TsSize - 1 + 1
  <2>1. Len(result) - Shared + Held + 0 <= TsSize - 1 + 0
    BY <1>1, <1>2, <1>6 DEF BoundsInv
  <2> QED
    BY <1>0, <1>2, <1>4, <2>1 DEF Indices
<1>7. reader = "copied" => Held >= 1 /\ Len(result) >= 1
  BY DEF BoundsInv
<1>8. reader = "idle" => result = <<>>
  BY DEF BoundsInv
<1> QED
  BY <1>1, <1>2, <1>4, <1>5, <1>6, <1>7, <1>8 DEF BoundsInv

LEMMA StoreStep == BoundsInv /\ Store => BoundsInv'
<1> SUFFICES ASSUME BoundsInv, Store PROVE BoundsInv'
  OBVIOUS
<1>0. /\ head \in Indices /\ tail \in Indices /\ Held \in Indices
      /\ Pending \in {0, 1} /\ Shared \in {0, 1} /\ Len(result) \in Nat /\ pushed \in Nat
      /\ clock \in Nat /\ TsSize \in Nat /\ TsSize >= 2 /\ MaxInterrupts \in Nat
      /\ TsDescCount \in Nat \ {0} /\ stores \subseteq {"slot", "head"} /\ TsTypeOK
  BY RingFacts, TimestampsAssumption DEF BoundsInv, TsTypeOK
<1>1. UNCHANGED <<measured, tail, mask, reader, result, pushed>> /\ Shared' = Shared
  BY DEF Store, Shared
<1>2. CASE StoreSlot /\ stores' = stores \ {"slot"}
  <2>1. PICK early \in {0, 1} : early = IF "head" \in stores THEN 0 ELSE 1
    OBVIOUS
  <2>2. PICK n \in Int : n = clock + 1 - early
    <3>1. early \in Int /\ clock \in Int
      BY <1>0
    <3>2. clock + 1 - early \in Int
      BY <3>1
    <3> QED
      BY <3>2
  <2>3. n \in 0 .. MaxInterrupts
    <3>1. "slot" \in stores /\ clock + Pending <= MaxInterrupts
      BY <1>2 DEF StoreSlot, BoundsInv
    <3> QED
      BY <1>0, <2>1, <2>2, <3>1 DEF Pending
  <2>4. PICK k \in Int : k = head - early
    BY <1>0, <2>1 DEF Indices
  <2>5. k % TsSize \in Indices /\ ((n - 1) % TsDescCount) + 1 \in 0 .. TsDescCount
    BY <1>0 DEF Indices
  <2>6. PICK st \in Stamp : st = [id |-> n, desc |-> ((n - 1) % TsDescCount) + 1]
    BY <2>3, <2>5 DEF Stamp
  <2>7. timestamps' = [timestamps EXCEPT ![k % TsSize] = st] /\ UNCHANGED <<head, clock>>
    BY <1>2, <2>1, <2>2, <2>4, <2>6 DEF StoreSlot
  <2>8. timestamps' \in [Indices -> Stamp]
    BY <1>0, <2>7 DEF TsTypeOK
  <2>9. Held' = Held /\ Pending' = Pending /\ stores' \subseteq {"slot", "head"}
    BY <1>0, <1>1, <1>2, <2>7 DEF Held, Pending
  <2>10. TsTypeOK'
    BY <1>0, <1>1, <2>7, <2>8, <2>9 DEF TsTypeOK, Indices, Stamp, NoMask
  <2>11. stores' # {"slot"} /\ (stores' # {} => stores # {})
    BY <1>2
  <2> QED
    BY <1>1, <2>7, <2>9, <2>10, <2>11 DEF BoundsInv
<1>3. CASE StoreHead /\ stores' = stores \ {"head"}
  <2>1. /\ head' = Next1(head) /\ Next1(head) \in Indices /\ clock' = clock + 1
        /\ UNCHANGED timestamps /\ "head" \in stores
    BY <1>0, <1>3, RingNext DEF StoreHead
  <2>2. Pending = 1 /\ Pending' = 0 /\ stores' \subseteq {"slot"}
    BY <1>0, <1>3, <2>1 DEF Pending
  <2>3. clock + 1 <= MaxInterrupts /\ Held + 1 <= TsSize - 1
    BY <2>1, <2>2 DEF BoundsInv
  <2>4. Held < TsSize - 1
    BY <1>0, <2>3 DEF Indices
  <2>5. Held' = Held + 1
    BY <1>0, <1>1, <2>1, <2>4, RingMoves DEF Held
  <2>6. TsTypeOK'
    BY <1>0, <1>1, <2>1, <2>2, <2>3, SMTT(40) DEF TsTypeOK, Indices, Stamp, NoMask
  <2>7. ASSUME reader # "idle"
        PROVE  Len(result) - Shared + Held' + Pending' <= TsSize - 1 + pushed
    <3>1. Len(result) - Shared + Held + 1 <= TsSize - 1 + pushed
      BY <2>2, <2>7 DEF BoundsInv
    <3> QED
      BY <1>0, <2>2, <2>5, <3>1 DEF Indices
  <2>8. Held' >= 1 /\ Held' + Pending' <= TsSize - 1 /\ clock' >= 1
        /\ clock' + Pending' <= MaxInterrupts
    BY <1>0, <2>1, <2>2, <2>3, <2>5 DEF Indices
  <2>9. /\ reader = "copied" => Len(result) >= 1
        /\ reader = "idle" => result = <<>>
        /\ reader # "idle" => pushed <= 1
    BY DEF BoundsInv
  <2> QED
    BY <1>1, <2>6, <2>7, <2>8, <2>9 DEF BoundsInv
<1> QED
  BY <1>2, <1>3 DEF Store

LEMMA ReaderStep ==
  ASSUME BoundsInv, ReadTimestamps \/ PopTimestamp \/ AdvanceTail \/ ReadReturn
  PROVE  BoundsInv'
<1>0. /\ head \in Indices /\ tail \in Indices /\ Held \in Indices /\ CircCnt = Held
      /\ Pending \in {0, 1} /\ Shared \in {0, 1} /\ Len(result) \in Nat /\ pushed \in Nat
      /\ TsSize \in Nat /\ TsSize >= 2 /\ TsTypeOK /\ result \in Seq(Stamp)
  BY RingFacts DEF BoundsInv, TsTypeOK
<1>1. /\ UNCHANGED <<measured, head, timestamps, mask, clock, stores>> /\ Pending' = Pending
      /\ stores # {} => clock + Pending <= MaxInterrupts
      /\ stores = {"slot"} => clock >= 1
      /\ Held + Pending <= TsSize - 1
      /\ reader # "idle" => /\ pushed <= 1
                            /\ Len(result) - Shared + Held + Pending <= TsSize - 1 + pushed
  BY DEF ReadTimestamps, PopTimestamp, AdvanceTail, ReadReturn, Pending, BoundsInv
<1>2. CASE ReadTimestamps
  <2>1. /\ reader' = "pop" /\ pushed' \in {0, 1} /\ UNCHANGED <<tail, result>>
        /\ result = <<>>
    BY <1>2 DEF ReadTimestamps, BoundsInv
  <2>2. Held' = Held /\ Shared' = 0 /\ Len(result) = 0
    BY <1>1, <2>1 DEF Held, Shared
  <2>3. TsTypeOK'
    BY <1>0, <1>1, <2>1 DEF TsTypeOK, Indices, Stamp, NoMask
  <2>4. Len(result') - Shared' + Held' + Pending' <= TsSize - 1 + pushed' /\ pushed' <= 1
    <3>1. PICK q \in Nat : q = pushed' /\ q <= 1
      BY <2>1
    <3>2. Len(result') = 0 /\ Held' = Held /\ Pending' = Pending /\ Shared' = 0
      BY <1>1, <2>1, <2>2
    <3>3. 0 - 0 + Held + Pending <= TsSize - 1 + q
      BY <1>0, <1>1 DEF Indices
    <3> QED
      BY <3>1, <3>2, <3>3
  <2> QED
    BY <1>1, <2>1, <2>2, <2>3, <2>4 DEF BoundsInv
<1>3. CASE PopTimestamp
  <2>1. /\ reader = "pop" /\ reader' = "copied" /\ UNCHANGED <<tail, pushed>> /\ Held # 0
        /\ result' = Append(result, Masked(timestamps[tail]))
    BY <1>0, <1>3 DEF PopTimestamp
  <2>2. Masked(timestamps[tail]) \in Stamp
    <3>1. PICK st \in Stamp : st = timestamps[tail]
      BY <1>0 DEF TsTypeOK
    <3>2. st.desc \in Nat /\ mask \in Nat \ {0} /\ mask <= TsDescCount + 1
      BY <1>0, TimestampsAssumption DEF Stamp, TsTypeOK, NoMask
    <3>3. st.desc % mask \in 0 .. TsDescCount
      <4>1. PICK d \in Nat : d = st.desc
        BY <3>2
      <4>2. d % mask \in 0 .. mask - 1
        BY <3>2
      <4> QED
        BY <3>2, <4>1, <4>2, TimestampsAssumption
    <3> QED
      BY <3>1, <3>3 DEF Masked, Stamp
  <2>3. result' \in Seq(Stamp) /\ Len(result') = Len(result) + 1
    BY <1>0, <2>1, <2>2, AppendProperties
  <2>4. Held' = Held /\ Shared' = 1 /\ Shared = 0
    BY <1>1, <2>1 DEF Held, Shared
  <2>5. TsTypeOK'
    BY <1>0, <1>1, <2>1, <2>3 DEF TsTypeOK, Indices, Stamp, NoMask
  <2>6. Len(result') - Shared' + Held' + Pending' <= TsSize - 1 + pushed'
    BY <1>0, <1>1, <2>1, <2>3, <2>4 DEF Indices
  <2>7. Held' >= 1 /\ Len(result') >= 1
    BY <1>0, <2>1, <2>3, <2>4 DEF Indices
  <2> QED
    BY <1>1, <2>1, <2>4, <2>5, <2>6, <2>7 DEF BoundsInv
<1>4. CASE AdvanceTail
  <2>1. /\ reader = "copied" /\ tail' = Next1(tail) /\ Next1(tail) \in Indices
        /\ Held >= 1 /\ Len(result) >= 1 /\ UNCHANGED pushed
    BY <1>0, <1>4, RingNext DEF AdvanceTail, BoundsInv
  <2>2. Shared = 1 /\ Held' = Held - 1
    <3>1. Held # 0
      BY <1>0, <2>1 DEF Indices
    <3> QED
      BY <1>0, <1>1, <2>1, <3>1, RingMoves DEF Held, Shared
  <2>3. Len(result) <= TsSize
    BY <1>0, <1>1, <2>1, <2>2 DEF Indices
  <2>4. reader' = "pop" /\ UNCHANGED result /\ Shared' = 0
    BY <1>4, <2>3 DEF AdvanceTail, Shared
  <2>5. TsTypeOK'
    BY <1>0, <1>1, <2>1, <2>4 DEF TsTypeOK, Indices, Stamp, NoMask
  <2>6. Len(result') - Shared' + Held' + Pending' <= TsSize - 1 + pushed'
        /\ Held' + Pending' <= TsSize - 1
    BY <1>0, <1>1, <2>1, <2>2, <2>4 DEF Indices
  <2> QED
    BY <1>1, <2>1, <2>4, <2>5, <2>6 DEF BoundsInv
<1>5. CASE ReadReturn
  <2>1. reader' = "idle" /\ result' = <<>> /\ pushed' = 0 /\ UNCHANGED tail
    BY <1>5 DEF ReadReturn
  <2>2. Held' = Held
    BY <1>1, <2>1 DEF Held
  <2>3. TsTypeOK'
    BY <1>0, <1>1, <2>1 DEF TsTypeOK, Indices, Stamp, NoMask
  <2> QED
    BY <1>1, <2>1, <2>2, <2>3 DEF BoundsInv
<1> QED
  BY <1>2, <1>3, <1>4, <1>5

LEMMA ChannelStep ==
  ASSUME BoundsInv,
         (\E on \in BOOLEAN : EnableMeasure(on)) \/ DisableMeasured \/ AttachList
  PROVE  BoundsInv'
<1>0. /\ TsTypeOK /\ TsSize \in Nat /\ TsSize >= 2 /\ Pending \in {0, 1}
      /\ reader = "idle" /\ UNCHANGED <<timestamps, clock, stores, reader, result, pushed>>
      /\ Pending' = Pending /\ result = <<>>
  BY RingFacts DEF BoundsInv, EnableMeasure, DisableMeasured, AttachList, Pending
<1>1. CASE \E on \in BOOLEAN : EnableMeasure(on)
  <2>1. measured' \in BOOLEAN /\ head' = 0 /\ tail' = 0 /\ UNCHANGED mask
    BY <1>1 DEF EnableMeasure
  <2>2. 0 \in Indices
    BY <1>0 DEF Indices
  <2>3. Held' = 0
    BY <2>1, <2>2, RingMoves DEF Held
  <2>4. TsTypeOK'
    BY <1>0, <2>1, <2>2 DEF TsTypeOK, Indices, Stamp, NoMask
  <2>5. Held' + Pending' <= TsSize - 1
    BY <1>0, <2>3
  <2> QED
    BY <1>0, <2>4, <2>5 DEF BoundsInv
<1>2. CASE DisableMeasured \/ AttachList
  <2>1. UNCHANGED <<measured, head, tail>> /\ mask' \in {NoMask, TsDescCount}
    BY <1>2 DEF DisableMeasured, AttachList
  <2>2. Held' = Held
    BY <2>1 DEF Held
  <2>3. TsTypeOK'
    BY <1>0, <2>1 DEF TsTypeOK, Indices, Stamp, NoMask
  <2> QED
    BY <1>0, <2>2, <2>3 DEF BoundsInv
<1> QED
  BY <1>1, <1>2

LEMMA BoundsStep ==
  ASSUME "paced" \in TsContract
  PROVE  BoundsInv /\ [TsNext]_tsVars => BoundsInv'
<1> SUFFICES ASSUME BoundsInv, [TsNext]_tsVars PROVE BoundsInv'
  OBVIOUS
<1>1. CASE UNCHANGED tsVars
  <2>1. UNCHANGED <<Held, Pending, Shared>>
    BY <1>1 DEF tsVars, Held, Pending, Shared
  <2>2. TsTypeOK'
    BY <1>1 DEF tsVars, BoundsInv, TsTypeOK, Indices, Stamp, NoMask
  <2> QED
    BY <1>1, <2>1, <2>2 DEF tsVars, BoundsInv
<1> QED
  BY <1>1, PushStep, StoreStep, ReaderStep, ChannelStep DEF TsNext

(* hailo_vdma_pop_timestamps_to_response copies before it compares its     *)
(* index with the size of the array, and the handler pushes while it       *)
(* loops: as long as one interrupt at most comes during a read, nothing is *)
(* written behind params->timestamps, for a ring of any size and whenever  *)
(* the channel is enabled.                                                 *)
THEOREM ReadCorrect == "paced" \in TsContract => (TsSpec => []ReadInBounds)
<1> SUFFICES ASSUME "paced" \in TsContract PROVE TsSpec => []ReadInBounds
  OBVIOUS
<1>1. ASSUME BoundsInv PROVE ReadInBounds
  <2>1. /\ Held \in Indices /\ Pending \in {0, 1} /\ Shared \in {0, 1} /\ Len(result) \in Nat
        /\ pushed \in Nat /\ TsSize \in Nat /\ TsSize >= 2 /\ TsTypeOK
    BY <1>1, RingFacts DEF BoundsInv
  <2>2. CASE reader = "idle"
    BY <1>1, <2>1, <2>2 DEF BoundsInv, ReadInBounds
  <2>3. CASE reader # "idle"
    <3>1. /\ pushed <= 1 /\ Len(result) - Shared + Held + Pending <= TsSize - 1 + pushed
          /\ reader = "copied" => Held >= 1
      BY <1>1, <2>3 DEF BoundsInv
    <3>2. Shared = 0 \/ Held >= 1
      BY <3>1 DEF Shared
    <3>3. Len(result) <= TsSize
      BY <2>1, <3>1, <3>2 DEF Indices
    <3> QED
      BY <2>1, <3>3 DEF ReadInBounds
  <2> QED
    BY <2>2, <2>3
<1> QED
  BY <1>1, InitTs, BoundsStep, PTL DEF TsSpec

----------------------------------------------------------------------------
(* The ring as a FIFO.                                                     *)

(* The place of the i-th timestamp that waits.                             *)
Place(t, i) == IF t + i - 1 < TsSize THEN t + i - 1 ELSE t + i - 1 - TsSize

LEMMA PlaceFacts ==
  ASSUME NEW t \in Indices, NEW i \in 1 .. TsSize
  PROVE  (t + i - 1) % TsSize = Place(t, i) /\ Place(t, i) \in Indices
<1>0. PICK n \in Nat \ {0} : n = TsSize
  BY RingSize
<1>1. PICK a \in 0 .. 2 * n - 1 : a = t + i - 1
  <2>1. t + i - 1 \in 0 .. 2 * n - 1
    BY <1>0 DEF Indices
  <2> QED
    BY <2>1
<1>2. a % n = IF a < n THEN a ELSE a - n
  <2>1. CASE a < n
    BY <2>1
  <2>2. CASE ~(a < n)
    BY <2>2
  <2> QED
    BY <2>1, <2>2
<1> QED
  BY <1>0, <1>1, <1>2 DEF Place, Indices

LEMMA PlaceMoves ==
  ASSUME NEW t \in Indices, NEW h \in Indices
  PROVE  /\ Place(t, 1) = t
         /\ \A i \in 1 .. TsSize - 1 : Place(Next1(t), i) = Place(t, i + 1)
         /\ Place(t, Dist(t, h) + 1) = h
         /\ \A i \in 1 .. Dist(t, h) : Place(t, i) # h
BY RingSize DEF Place, Next1, Dist, Indices

(* The counter of the device after interrupt n, and what a client makes of *)
(* it, are the same descriptor.                                            *)
LEMMA SameDescriptor ==
  ASSUME NEW d \in Nat \ {0}, NEW n \in Nat \ {0}
  PROVE  (((n - 1) % d) + 1) % d = n % d
<1>1. PICK r \in 0 .. d - 1 : r = (n - 1) % d
  <2>1. (n - 1) % d \in 0 .. d - 1
    OBVIOUS
  <2> QED
    BY <2>1
<1>2. PICK q \in Int : n - 1 = d * q + r
  <2>1. (n - 1) \div d \in Int /\ n - 1 = d * ((n - 1) \div d) + ((n - 1) % d)
    OBVIOUS
  <2> QED
    BY <1>1, <2>1
<1>3. CASE r + 1 < d
  <2>1. n = d * q + (r + 1)
    BY <1>2
  <2>2. n % d = r + 1
    BY <1>3, <2>1
  <2>3. (r + 1) % d = r + 1
    BY <1>3
  <2> QED
    BY <1>1, <2>2, <2>3
<1>4. CASE r + 1 = d
  <2>1. n = d * (q + 1)
    BY <1>2, <1>4
  <2>2. n % d = 0
    BY <2>1
  <2>3. (r + 1) % d = 0
    BY <1>4
  <2> QED
    BY <1>1, <2>2, <2>3
<1> QED
  BY <1>3, <1>4

(* The ids of the n timestamps from t on.                                  *)
Ids(ts, t, n) == [i \in 1 .. n |-> ts[(t + i - 1) % TsSize].id]

LEMMA IdsFacts ==
  ASSUME NEW ts \in [Indices -> Stamp], NEW t \in Indices, NEW n \in Indices
  PROVE  /\ Ids(ts, t, n) \in Seq(Int) /\ Len(Ids(ts, t, n)) = n
         /\ \A i \in 1 .. n : Ids(ts, t, n)[i] = ts[Place(t, i)].id
<1>0. n \in Nat /\ n < TsSize /\ TsSize \in Nat
  BY RingSize DEF Indices
<1>1. ASSUME NEW i \in 1 .. n
      PROVE  ts[(t + i - 1) % TsSize].id = ts[Place(t, i)].id /\ ts[Place(t, i)].id \in Int
  <2>1. i \in 1 .. TsSize
    BY <1>0
  <2>2. (t + i - 1) % TsSize = Place(t, i) /\ Place(t, i) \in Indices
    BY <2>1, PlaceFacts
  <2>3. ts[Place(t, i)] \in Stamp
    BY <2>2
  <2> QED
    BY <2>2, <2>3, TimestampsAssumption DEF Stamp
<1>2. PICK s : s = Ids(ts, t, n)
  OBVIOUS
<1>3. s \in [1 .. n -> Int] /\ \A i \in 1 .. n : s[i] = ts[Place(t, i)].id
  BY <1>1, <1>2 DEF Ids
<1>4. s \in Seq(Int)
  BY <1>0, <1>3, SeqDef
<1>5. DOMAIN s = 1 .. n /\ DOMAIN s = 1 .. Len(s) /\ Len(s) \in Nat
  BY <1>3, <1>4, LenProperties
<1>6. Len(s) = n
  BY <1>0, <1>5
<1> QED
  BY <1>2, <1>3, <1>4, <1>6

(* The handler's last store appends,                                       *)
LEMMA IdsAppend ==
  ASSUME NEW ts \in [Indices -> Stamp], NEW t \in Indices, NEW h \in Indices,
         Dist(t, h) < TsSize - 1
  PROVE  Ids(ts, t, Dist(t, h) + 1) = Append(Ids(ts, t, Dist(t, h)), ts[h].id)
<1>1. PICK n \in Indices : n = Dist(t, h)
  BY RingDist
<1>2. n + 1 \in Indices /\ n \in Nat
  BY <1>1, RingSize DEF Indices
<1>3. PICK s \in Seq(Int) : s = Ids(ts, t, n)
  BY IdsFacts
<1>4. Len(s) = n /\ \A i \in 1 .. n : s[i] = ts[Place(t, i)].id
  BY <1>3, IdsFacts
<1>5. PICK u \in Seq(Int) : u = Ids(ts, t, n + 1)
  BY <1>2, IdsFacts
<1>6. Len(u) = n + 1 /\ \A i \in 1 .. n + 1 : u[i] = ts[Place(t, i)].id
  BY <1>2, <1>5, IdsFacts
<1>7. PICK e \in Int : e = ts[h].id
  BY TimestampsAssumption DEF Stamp
<1>8. Place(t, n + 1) = h
  BY <1>1, PlaceMoves
<1>9. PICK v : v = Append(s, e)
  OBVIOUS
<1>10. /\ v \in Seq(Int) /\ Len(v) = n + 1
       /\ \A i \in 1 .. n : v[i] = s[i]
       /\ v[n + 1] = e
  BY <1>4, <1>9, AppendProperties
<1>11. ASSUME NEW i \in 1 .. n + 1 PROVE u[i] = v[i]
  <2>1. CASE i = n + 1
    BY <1>6, <1>7, <1>8, <1>10, <2>1
  <2>2. CASE i # n + 1
    <3>1. i \in 1 .. n
      BY <1>2, <2>2
    <3> QED
      BY <1>4, <1>6, <1>10, <3>1
  <2> QED
    BY <2>1, <2>2
<1>12. u = v
  BY <1>6, <1>10, <1>11, SeqEqual
<1> QED
  BY <1>1, <1>3, <1>5, <1>7, <1>9, <1>12

(* and the reader's takes the first one off.                               *)
LEMMA IdsTail ==
  ASSUME NEW ts \in [Indices -> Stamp], NEW t \in Indices, NEW n \in Indices, n # 0
  PROVE  /\ Ids(ts, t, n) # <<>> /\ Head(Ids(ts, t, n)) = ts[t].id
         /\ Ids(ts, Next1(t), n - 1) = Tail(Ids(ts, t, n))
<1>1. n - 1 \in Indices /\ n \in Nat /\ n >= 1 /\ n <= TsSize - 1 /\ Next1(t) \in Indices
  <2>1. Next1(t) \in Indices
    BY RingNext
  <2>2. n - 1 \in Indices /\ n \in Nat /\ n >= 1 /\ n <= TsSize - 1
    BY RingSize DEF Indices
  <2> QED
    BY <2>1, <2>2
<1>2. PICK s \in Seq(Int) : s = Ids(ts, t, n)
  BY IdsFacts
<1>3. Len(s) = n /\ \A i \in 1 .. n : s[i] = ts[Place(t, i)].id
  BY <1>2, IdsFacts
<1>4. PICK u \in Seq(Int) : u = Ids(ts, Next1(t), n - 1)
  BY <1>1, IdsFacts
<1>5. Len(u) = n - 1 /\ \A i \in 1 .. n - 1 : u[i] = ts[Place(Next1(t), i)].id
  BY <1>1, <1>4, IdsFacts
<1>6. s # <<>>
  BY <1>1, <1>3
<1>7. PICK v : v = Tail(s)
  OBVIOUS
<1>8. v \in Seq(Int) /\ Len(v) = n - 1 /\ \A i \in 1 .. n - 1 : v[i] = s[i + 1]
  BY <1>1, <1>3, <1>6, <1>7, HeadTailProperties
<1>9. ASSUME NEW i \in 1 .. n - 1 PROVE u[i] = v[i]
  <2>1. i \in 1 .. TsSize - 1 /\ i + 1 \in 1 .. n
    BY <1>1, RingSize
  <2>2. Place(Next1(t), i) = Place(t, i + 1)
    BY <2>1, PlaceMoves
  <2> QED
    BY <1>3, <1>5, <1>8, <2>1, <2>2
<1>10. u = v
  BY <1>5, <1>8, <1>9, SeqEqual
<1>11. Head(s) = s[1] /\ Place(t, 1) = t
  BY <1>6, PlaceMoves
<1> QED
  BY <1>1, <1>2, <1>3, <1>4, <1>6, <1>7, <1>10, <1>11

(* The timestamp of interrupt n.                                           *)
StampOf(n) == [id |-> n, desc |-> ((n - 1) % TsDescCount) + 1]
IsStamp(st) == \E n \in 1 .. MaxInterrupts : st = StampOf(n)

(* Every timestamp that waits is one the handler wrote, the handler has    *)
(* written the slot before it moves the head, and the last entry of the    *)
(* result is the first of the ring until the tail moves.                   *)
FifoInv ==
  /\ BoundsInv
  /\ stores \in {{}, {"slot", "head"}, {"head"}}
  /\ stores = {"head"} => timestamps[head] = StampOf(clock + 1)
  /\ \A i \in 1 .. Held : IsStamp(timestamps[Place(tail, i)])
  /\ reader # "idle" => mask = TsDescCount
  /\ reader = "copied" => result[Len(result)] = Masked(timestamps[tail])

FQueue == Ids(timestamps, tail, CircCnt)
FTaken == IF reader = "copied" THEN SubSeq(result, 1, Len(result) - 1) ELSE result

(* Descriptors of timestamps are given out as numbers below desc_count.    *)
LEMMA MaskedStamp ==
  ASSUME NEW st, IsStamp(st), mask = TsDescCount
  PROVE  Masked(st) = [id |-> st.id, desc |-> st.id % TsDescCount]
<1>1. PICK n \in 1 .. MaxInterrupts : st = StampOf(n)
  BY DEF IsStamp
<1>2. (((n - 1) % TsDescCount) + 1) % TsDescCount = n % TsDescCount
  <2>1. n \in Nat \ {0} /\ TsDescCount \in Nat \ {0}
    BY TimestampsAssumption
  <2> QED
    BY <2>1, SameDescriptor
<1> QED
  BY <1>1, <1>2 DEF StampOf, Masked

LEMMA InitFifo == TsInit => FifoInv
<1> SUFFICES ASSUME TsInit PROVE FifoInv
  OBVIOUS
<1>1. BoundsInv /\ head = 0 /\ tail = 0 /\ stores = {} /\ reader = "idle"
  BY InitTs DEF TsInit
<1>2. 0 \in Indices
  BY RingSize DEF Indices
<1>3. Held = 0
  BY <1>1, <1>2, RingMoves DEF Held
<1> QED
  BY <1>1, <1>3 DEF FifoInv

(* What is in the ring stays when neither end moves and no slot of it is   *)
(* written.                                                                *)
SameQueue ==
  /\ UNCHANGED <<head, tail>>
  /\ \A i \in 1 .. Held : timestamps'[Place(tail, i)] = timestamps[Place(tail, i)]

LEMMA SameIds ==
  ASSUME TsTypeOK, TsTypeOK', SameQueue
  PROVE  Held' = Held /\ FQueue' = FQueue
<1>1. Held' = Held /\ CircCnt = Held /\ CircCnt' = CircCnt /\ Held \in Indices /\ tail \in Indices
  BY RingFacts DEF SameQueue, Held, CircCnt
<1>2. PICK n \in Indices : n = Held
  BY <1>1
<1>3. PICK ts \in [Indices -> Stamp] : ts = timestamps
  BY DEF TsTypeOK
<1>4. PICK tt \in [Indices -> Stamp] : tt = timestamps'
  BY DEF TsTypeOK, Indices, Stamp
<1>5. PICK s \in Seq(Int) : s = Ids(ts, tail, n)
  BY <1>1, IdsFacts
<1>6. PICK u \in Seq(Int) : u = Ids(tt, tail, n)
  BY <1>1, IdsFacts
<1>7. Len(s) = n /\ \A i \in 1 .. n : s[i] = ts[Place(tail, i)].id
  BY <1>1, <1>5, IdsFacts
<1>8. Len(u) = n /\ \A i \in 1 .. n : u[i] = tt[Place(tail, i)].id
  BY <1>1, <1>6, IdsFacts
<1>9. \A i \in 1 .. n : s[i] = u[i]
  BY <1>2, <1>3, <1>4, <1>7, <1>8 DEF SameQueue
<1>10. s = u
  BY <1>7, <1>8, <1>9, SeqEqual
<1>11. FQueue = s
  BY <1>1, <1>2, <1>3, <1>5 DEF FQueue
<1>12. FQueue' = Ids(timestamps', tail', CircCnt')
  BY DEF FQueue, Ids
<1>13. FQueue' = u
  BY <1>1, <1>2, <1>4, <1>6, <1>12 DEF SameQueue
<1> QED
  BY <1>1, <1>10, <1>11, <1>13

(* The steps of TimestampQueue, over the entries of the ring.              *)
FPush ==
  /\ Len(FQueue) < TsSize - 1 /\ clock' = clock + 1
  /\ FQueue' = Append(FQueue, clock') /\ UNCHANGED FTaken
FOverflow == Len(FQueue) = TsSize - 1 /\ clock' = clock + 1 /\ UNCHANGED <<FQueue, FTaken>>
FTake ==
  /\ FQueue # <<>> /\ FQueue' = Tail(FQueue)
  /\ FTaken' = Append(FTaken, [id |-> Head(FQueue), desc |-> Head(FQueue) % TsDescCount])
  /\ UNCHANGED clock
FHandOut == FTaken' = <<>> /\ UNCHANGED <<clock, FQueue>>
FReset == FQueue' = <<>> /\ FTaken = <<>> /\ UNCHANGED <<clock, FTaken>>
FStay == UNCHANGED <<clock, FQueue, FTaken>>

LEMMA FQueueFacts ==
  ASSUME TsTypeOK
  PROVE  FQueue \in Seq(Int) /\ Len(FQueue) = Held /\ (Held = 0 => FQueue = <<>>)
<1>1. CircCnt = Held /\ Held \in Indices /\ tail \in Indices /\ timestamps \in [Indices -> Stamp]
  BY RingFacts DEF TsTypeOK
<1>2. FQueue \in Seq(Int) /\ Len(FQueue) = Held
  BY <1>1, IdsFacts DEF FQueue
<1> QED
  BY <1>2, EmptySeq

LEMMA FifoPush ==
  ASSUME FifoInv, BoundsInv', PushTimestamp
  PROVE  FifoInv' /\ (FOverflow \/ FStay)
<1>0. TsTypeOK /\ TsTypeOK'
  BY DEF FifoInv, BoundsInv
<1>1. /\ UNCHANGED <<measured, head, tail, timestamps, mask, reader, result>>
      /\ CircSpace # 0 => stores' = {"slot", "head"} /\ UNCHANGED clock
      /\ CircSpace = 0 => clock' = clock + 1 /\ UNCHANGED stores
  BY DEF PushTimestamp
<1>2. SameQueue
  BY <1>1 DEF SameQueue
<1>3. Held' = Held /\ FQueue' = FQueue
  BY <1>0, <1>2, SameIds
<1>4. FTaken' = FTaken
  BY <1>1 DEF FTaken
<1>5. stores = {}
  BY DEF PushTimestamp
<1>6. FifoInv'
  <2>1. stores' \in {{}, {"slot", "head"}} /\ stores' # {"head"}
    BY <1>1, <1>5
  <2>2. \A i \in 1 .. Held : IsStamp(timestamps[Place(tail, i)])
    BY DEF FifoInv
  <2>3. (\A i \in 1 .. Held : IsStamp(timestamps[Place(tail, i)]))'
    BY <1>1, <1>3, <2>2 DEF Place, IsStamp, StampOf
  <2> QED
    BY <1>1, <2>1, <2>3 DEF FifoInv, Masked
<1>7. CASE CircSpace = 0
  <2>1. Len(FQueue) = TsSize - 1
    <3>1. CircSpace = (TsSize - 1) - Held /\ Held \in Int /\ TsSize \in Int
      BY <1>0, RingFacts DEF Indices
    <3> QED
      BY <1>0, <1>7, <3>1, FQueueFacts
  <2> QED
    BY <1>1, <1>3, <1>4, <1>6, <1>7, <2>1 DEF FOverflow
<1> QED
  BY <1>1, <1>3, <1>4, <1>6, <1>7 DEF FStay

LEMMA FifoStore ==
  ASSUME FifoInv, BoundsInv', Store, "ordered" \in TsContract
  PROVE  FifoInv' /\ (FPush \/ FStay)
<1>0. /\ TsTypeOK /\ TsTypeOK' /\ head \in Indices /\ tail \in Indices /\ Held \in Indices
      /\ timestamps \in [Indices -> Stamp] /\ clock \in Nat /\ TsSize \in Nat /\ TsSize >= 2
      /\ CircCnt = Held
  BY RingFacts DEF FifoInv, BoundsInv, TsTypeOK
<1>1. UNCHANGED <<measured, tail, mask, reader, result, pushed>> /\ UNCHANGED FTaken
  BY DEF Store, FTaken
<1>2. CASE StoreSlot /\ stores' = stores \ {"slot"}
  <2>1. stores = {"slot", "head"} /\ stores' = {"head"}
    BY <1>2 DEF StoreSlot, FifoInv
  <2>2. /\ timestamps' = [timestamps EXCEPT ![(head - 0) % TsSize] = StampOf(clock + 1 - 0)]
        /\ UNCHANGED <<head, clock>>
    BY <1>2, <2>1 DEF StoreSlot, StampOf
  <2>3. (head - 0) % TsSize = head /\ clock + 1 - 0 = clock + 1
    BY <1>0 DEF Indices
  <2>4. timestamps'[head] = StampOf(clock + 1)
        /\ \A j \in Indices : j # head => timestamps'[j] = timestamps[j]
    BY <1>0, <2>2, <2>3
  <2>5. SameQueue
    <3>1. ASSUME NEW i \in 1 .. Held PROVE Place(tail, i) # head /\ Place(tail, i) \in Indices
      <4>1. i \in 1 .. TsSize
        BY <1>0 DEF Indices
      <4> QED
        BY <1>0, <4>1, PlaceMoves, PlaceFacts DEF Held
    <3> QED
      BY <1>1, <2>2, <2>4, <3>1 DEF SameQueue
  <2>6. Held' = Held /\ FQueue' = FQueue
    BY <1>0, <2>5, SameIds
  <2>7. ASSUME NEW i \in 1 .. Held PROVE IsStamp(timestamps'[Place(tail, i)])
    BY <2>5 DEF SameQueue, FifoInv
  <2>8. reader = "copied" => timestamps'[tail] = timestamps[tail]
    <3>1. reader = "copied" => head # tail
      BY <1>0, RingMoves DEF FifoInv, BoundsInv, Held
    <3> QED
      BY <1>0, <2>4, <3>1
  <2>9. FifoInv'
    BY <1>1, <2>1, <2>2, <2>4, <2>6, <2>7, <2>8
       DEF FifoInv, Masked, Place, IsStamp, StampOf
  <2> QED
    BY <1>1, <2>2, <2>6, <2>9 DEF FStay
<1>3. CASE StoreHead /\ stores' = stores \ {"head"}
  <2>1. /\ stores = {"head"} /\ stores' = {} /\ head' = Next1(head) /\ clock' = clock + 1
        /\ UNCHANGED timestamps
    BY <1>0, <1>3, RingNext DEF StoreHead
  <2>2. Pending = 1 /\ Held + Pending <= TsSize - 1 /\ clock + 1 <= MaxInterrupts
    BY <2>1 DEF FifoInv, BoundsInv, Pending
  <2>3. Held < TsSize - 1
    BY <1>0, <2>2 DEF Indices
  <2>4. Held' = Held + 1
    BY <1>0, <1>1, <2>1, <2>3, RingMoves DEF Held
  <2>5. timestamps[head] = StampOf(clock + 1) /\ timestamps[head].id = clock + 1
    BY <2>1 DEF FifoInv, StampOf
  <2>6. FQueue' = Append(FQueue, clock + 1)
    <3>1. CircCnt' = Held'
      BY <1>0, <1>1, <2>1, RingNext, RingDist DEF CircCnt, Held
    <3>2. FQueue' = Ids(timestamps', tail', CircCnt')
      BY DEF FQueue, Ids
    <3>3. Ids(timestamps, tail, Held + 1) = Append(Ids(timestamps, tail, Held), timestamps[head].id)
      BY <1>0, <2>3, IdsAppend DEF Held
    <3> QED
      BY <1>0, <1>1, <2>1, <2>4, <2>5, <3>1, <3>2, <3>3 DEF FQueue
  <2>7. ASSUME NEW i \in 1 .. Held + 1 PROVE IsStamp(timestamps[Place(tail, i)])
    <3>1. CASE i = Held + 1
      <4>1. Place(tail, i) = head
        BY <1>0, <3>1, PlaceMoves DEF Held
      <4>2. clock + 1 \in 1 .. MaxInterrupts
        BY <1>0, <2>2, TimestampsAssumption
      <4> QED
        BY <2>5, <4>1, <4>2 DEF IsStamp
    <3>2. CASE i # Held + 1
      <4>1. i \in 1 .. Held
        BY <1>0, <3>2 DEF Indices
      <4> QED
        BY <4>1 DEF FifoInv
    <3> QED
      BY <3>1, <3>2
  <2>8. FifoInv'
    BY <1>1, <2>1, <2>4, <2>7 DEF FifoInv, Masked, Place, IsStamp, StampOf
  <2>9. Len(FQueue) < TsSize - 1
    BY <1>0, <2>3, FQueueFacts
  <2> QED
    BY <1>1, <2>1, <2>6, <2>8, <2>9 DEF FPush
<1> QED
  BY <1>2, <1>3 DEF Store

LEMMA LastOff ==
  ASSUME NEW s \in Seq(Stamp), Len(s) >= 1
  PROVE  s = Append(SubSeq(s, 1, Len(s) - 1), s[Len(s)])
<1>0. PICK n \in Nat : n = Len(s) /\ \A i \in 1 .. n : s[i] \in Stamp
  BY LenProperties
<1>1. PICK u : u = SubSeq(s, 1, n - 1)
  OBVIOUS
<1>2. u \in Seq(Stamp) /\ Len(u) = n - 1 /\ \A i \in 1 .. n - 1 : u[i] = s[i]
  BY <1>0, <1>1
<1>3. PICK e \in Stamp : e = s[n]
  BY <1>0
<1>4. PICK v : v = Append(u, e)
  OBVIOUS
<1>5. /\ v \in Seq(Stamp) /\ Len(v) = (n - 1) + 1 /\ v[(n - 1) + 1] = e
      /\ \A i \in 1 .. n - 1 : v[i] = u[i]
  BY <1>2, <1>4, AppendProperties
<1>6. (n - 1) + 1 = n
  BY <1>0
<1>7. ASSUME NEW i \in 1 .. n PROVE s[i] = v[i]
  <2>1. i = n \/ i \in 1 .. n - 1
    BY <1>0
  <2> QED
    BY <1>2, <1>3, <1>5, <1>6, <2>1
<1>8. s = v
  BY <1>0, <1>5, <1>6, <1>7, SeqEqual
<1> QED
  BY <1>0, <1>1, <1>3, <1>4, <1>8

LEMMA AppendedOff ==
  ASSUME NEW s \in Seq(Stamp), NEW e \in Stamp
  PROVE  /\ SubSeq(Append(s, e), 1, Len(Append(s, e)) - 1) = s
         /\ Append(s, e)[Len(Append(s, e))] = e
<1>0. PICK n \in Nat : n = Len(s)
  BY LenProperties
<1>1. PICK v \in Seq(Stamp) :
        /\ v = Append(s, e) /\ Len(v) = n + 1 /\ v[n + 1] = e
        /\ \A i \in 1 .. n : v[i] = s[i]
  <2>1. PICK v : v = Append(s, e)
    OBVIOUS
  <2>2. /\ v \in Seq(Stamp) /\ Len(v) = n + 1 /\ v[n + 1] = e
        /\ \A i \in 1 .. n : v[i] = s[i]
    BY <1>0, <2>1, AppendProperties
  <2> QED
    BY <2>1, <2>2
<1>2. \A i \in 1 .. n + 1 : v[i] \in Stamp
  BY <1>1, LenProperties
<1>3. PICK u : u = SubSeq(v, 1, n)
  OBVIOUS
<1>4. u \in Seq(Stamp) /\ Len(u) = n /\ \A i \in 1 .. n : u[i] = v[i]
  BY <1>1, <1>2, <1>3
<1>5. u = s
  BY <1>0, <1>1, <1>4, SeqEqual
<1>6. (n + 1) - 1 = n
  BY <1>0
<1> QED
  BY <1>1, <1>3, <1>5, <1>6

LEMMA FifoPop ==
  ASSUME FifoInv, BoundsInv', PopTimestamp
  PROVE  FifoInv' /\ FStay
<1>0. TsTypeOK /\ TsTypeOK' /\ result \in Seq(Stamp) /\ result' \in Seq(Stamp)
  BY DEF FifoInv, BoundsInv, TsTypeOK, Stamp
<1>1. PICK e : e = Masked(timestamps[tail])
  OBVIOUS
<1>2. /\ reader = "pop" /\ reader' = "copied" /\ result' = Append(result, e)
      /\ UNCHANGED <<head, tail, timestamps, mask, clock, stores>>
  BY <1>1 DEF PopTimestamp
<1>3. e \in Stamp
  <2>1. PICK st \in Stamp : st = timestamps[tail]
    BY <1>0 DEF TsTypeOK
  <2>2. mask = TsDescCount /\ TsDescCount \in Nat \ {0} /\ st.desc \in Nat
    BY <1>2, TimestampsAssumption DEF FifoInv, Stamp
  <2>3. st.desc % mask \in 0 .. TsDescCount
    <3>1. PICK d \in Nat : d = st.desc
      BY <2>2
    <3>2. d % TsDescCount \in 0 .. TsDescCount - 1
      BY <2>2
    <3> QED
      BY <2>2, <3>1, <3>2
  <2> QED
    BY <1>1, <2>1, <2>3 DEF Masked, Stamp
<1>4. /\ SubSeq(result', 1, Len(result') - 1) = result
      /\ result'[Len(result')] = e
  BY <1>0, <1>2, <1>3, AppendedOff
<1>5. FTaken' = FTaken
  BY <1>2, <1>4 DEF FTaken
<1>6. Held' = Held /\ FQueue' = FQueue
  <2>1. SameQueue
    BY <1>2 DEF SameQueue
  <2> QED
    BY <1>0, <2>1, SameIds
<1>7. (\A i \in 1 .. Held : IsStamp(timestamps[Place(tail, i)]))'
  BY <1>2, <1>6 DEF FifoInv, Place, IsStamp, StampOf
<1>8. Masked(timestamps[tail])' = e
  BY <1>1, <1>2 DEF Masked
<1>9. FifoInv'
  BY <1>2, <1>4, <1>7, <1>8 DEF FifoInv, StampOf
<1> QED
  BY <1>2, <1>5, <1>6, <1>9 DEF FStay

LEMMA FifoAdvance ==
  ASSUME FifoInv, BoundsInv', AdvanceTail
  PROVE  FifoInv' /\ FTake
<1>0. /\ TsTypeOK /\ head \in Indices /\ tail \in Indices /\ Held \in Indices
      /\ timestamps \in [Indices -> Stamp] /\ TsSize \in Nat /\ TsSize >= 2
      /\ CircCnt = Held /\ result \in Seq(Stamp) /\ Len(result) \in Nat /\ pushed \in Nat
      /\ Pending \in {0, 1}
  BY RingFacts DEF FifoInv, BoundsInv, TsTypeOK
<1>1. /\ reader = "copied" /\ tail' = Next1(tail) /\ Next1(tail) \in Indices
      /\ Held >= 1 /\ Len(result) >= 1 /\ mask = TsDescCount
      /\ result[Len(result)] = Masked(timestamps[tail])
      /\ UNCHANGED <<head, timestamps, mask, clock, stores>>
  BY <1>0, RingNext DEF AdvanceTail, FifoInv, BoundsInv
<1>2. Len(result) <= TsSize
  <2>1. Shared = 1 /\ pushed <= 1 /\ Len(result) - Shared + Held + Pending <= TsSize - 1 + pushed
    BY <1>1 DEF Shared, FifoInv, BoundsInv
  <2> QED
    BY <1>0, <1>1, <2>1 DEF Indices
<1>3. reader' = "pop" /\ UNCHANGED result
  BY <1>2 DEF AdvanceTail
<1>4. Held # 0 /\ Held' = Held - 1
  <2>1. Held # 0
    BY <1>0, <1>1 DEF Indices
  <2> QED
    BY <1>0, <1>1, <2>1, RingMoves DEF Held
<1>5. IsStamp(timestamps[tail])
  <2>1. 1 \in 1 .. Held
    BY <1>0, <1>1 DEF Indices
  <2> QED
    BY <1>0, <2>1, PlaceMoves DEF FifoInv
<1>6. CircCnt' = Held'
  BY <1>0, <1>1, RingDist DEF CircCnt, Held
<1>7. FQueue # <<>> /\ Head(FQueue) = timestamps[tail].id /\ FQueue' = Tail(FQueue)
  <2>1. FQueue' = Ids(timestamps', tail', CircCnt')
    BY DEF FQueue, Ids
  <2>2. /\ Ids(timestamps, tail, Held) # <<>>
        /\ Head(Ids(timestamps, tail, Held)) = timestamps[tail].id
        /\ Ids(timestamps, Next1(tail), Held - 1) = Tail(Ids(timestamps, tail, Held))
    BY <1>0, <1>4, IdsTail
  <2> QED
    BY <1>0, <1>1, <1>4, <1>6, <2>1, <2>2 DEF FQueue
<1>8. FTaken' = Append(FTaken, [id |-> Head(FQueue), desc |-> Head(FQueue) % TsDescCount])
  <2>1. Masked(timestamps[tail])
          = [id |-> timestamps[tail].id, desc |-> timestamps[tail].id % TsDescCount]
    BY <1>1, <1>5, MaskedStamp
  <2>2. result = Append(SubSeq(result, 1, Len(result) - 1), result[Len(result)])
    BY <1>0, <1>1, LastOff
  <2>3. FTaken = SubSeq(result, 1, Len(result) - 1) /\ FTaken' = result
    BY <1>1, <1>3 DEF FTaken
  <2> QED
    BY <1>1, <1>7, <2>1, <2>2, <2>3
<1>9. ASSUME NEW i \in 1 .. Held - 1 PROVE IsStamp(timestamps[Place(Next1(tail), i)])
  <2>1. i \in 1 .. TsSize - 1 /\ i + 1 \in 1 .. Held
    BY <1>0 DEF Indices
  <2>2. Place(Next1(tail), i) = Place(tail, i + 1)
    BY <1>0, <2>1, PlaceMoves
  <2> QED
    BY <2>1, <2>2 DEF FifoInv
<1>10. (\A i \in 1 .. Held : IsStamp(timestamps[Place(tail, i)]))'
  BY <1>1, <1>4, <1>9 DEF Place, IsStamp, StampOf
<1>11. FifoInv'
  BY <1>1, <1>3, <1>10 DEF FifoInv, StampOf
<1> QED
  BY <1>1, <1>7, <1>8, <1>11 DEF FTake

LEMMA FifoRead ==
  ASSUME FifoInv, BoundsInv', ReadTimestamps \/ ReadReturn, "attached" \in TsContract
  PROVE  FifoInv' /\ (FStay \/ FHandOut)
<1>0. TsTypeOK /\ TsTypeOK'
  BY DEF FifoInv, BoundsInv
<1>1. UNCHANGED <<head, tail, timestamps, mask, clock, stores>>
  BY DEF ReadTimestamps, ReadReturn
<1>2. Held' = Held /\ FQueue' = FQueue
  <2>1. SameQueue
    BY <1>1 DEF SameQueue
  <2> QED
    BY <1>0, <2>1, SameIds
<1>3. (\A i \in 1 .. Held : IsStamp(timestamps[Place(tail, i)]))'
  BY <1>1, <1>2 DEF FifoInv, Place, IsStamp, StampOf
<1>4. CASE ReadTimestamps
  <2>1. reader = "idle" /\ reader' = "pop" /\ UNCHANGED result /\ mask = TsDescCount
    BY <1>0, <1>4 DEF ReadTimestamps, TsTypeOK
  <2>2. FifoInv'
    BY <1>1, <1>3, <2>1 DEF FifoInv, StampOf
  <2> QED
    BY <1>1, <1>2, <2>1, <2>2 DEF FStay, FTaken
<1>5. CASE ReadReturn
  <2>1. reader' = "idle" /\ result' = <<>>
    BY <1>5 DEF ReadReturn
  <2>2. FifoInv'
    BY <1>1, <1>3, <2>1 DEF FifoInv, StampOf
  <2> QED
    BY <1>1, <1>2, <2>1, <2>2 DEF FHandOut, FTaken
<1> QED
  BY <1>4, <1>5

LEMMA FifoChannel ==
  ASSUME FifoInv, BoundsInv', "quiet" \in TsContract,
         (\E on \in BOOLEAN : EnableMeasure(on)) \/ DisableMeasured \/ AttachList
  PROVE  FifoInv' /\ (FStay \/ FReset)
<1>0. TsTypeOK /\ TsTypeOK' /\ reader = "idle" /\ result = <<>>
      /\ UNCHANGED <<timestamps, clock, stores, reader, result>> /\ UNCHANGED FTaken
      /\ FTaken = <<>>
  BY DEF FifoInv, BoundsInv, EnableMeasure, DisableMeasured, AttachList, FTaken
<1>1. CASE \E on \in BOOLEAN : EnableMeasure(on)
  <2>1. head' = 0 /\ tail' = 0 /\ stores = {}
    BY <1>1 DEF EnableMeasure
  <2>2. 0 \in Indices
    BY RingSize DEF Indices
  <2>3. Held' = 0 /\ CircCnt' = 0
    BY <2>1, <2>2, RingMoves, RingDist DEF Held, CircCnt
  <2>4. FQueue' = <<>>
    <3>1. FQueue' = Ids(timestamps', tail', CircCnt')
      BY DEF FQueue, Ids
    <3>2. timestamps \in [Indices -> Stamp]
      BY <1>0 DEF TsTypeOK
    <3>3. Ids(timestamps, 0, 0) \in Seq(Int) /\ Len(Ids(timestamps, 0, 0)) = 0
      BY <2>2, <3>2, IdsFacts
    <3> QED
      BY <1>0, <2>1, <2>3, <3>1, <3>3, EmptySeq
  <2>5. FifoInv'
    BY <1>0, <2>1, <2>3 DEF FifoInv
  <2> QED
    BY <1>0, <2>4, <2>5 DEF FReset
<1>2. CASE DisableMeasured \/ AttachList
  <2>1. UNCHANGED <<head, tail>>
    BY <1>2 DEF DisableMeasured, AttachList
  <2>2. Held' = Held /\ FQueue' = FQueue
    <3>1. SameQueue
      BY <1>0, <2>1 DEF SameQueue
    <3> QED
      BY <1>0, <3>1, SameIds
  <2>3. (\A i \in 1 .. Held : IsStamp(timestamps[Place(tail, i)]))'
    BY <1>0, <2>1, <2>2 DEF FifoInv, Place, IsStamp, StampOf
  <2>4. FifoInv'
    BY <1>0, <2>1, <2>3 DEF FifoInv, StampOf
  <2> QED
    BY <1>0, <2>2, <2>4 DEF FStay
<1> QED
  BY <1>1, <1>2

(* The interrupt handler and the read ioctl, which share the ring without  *)
(* a lock, implement the FIFO of TimestampQueue for a ring and a           *)
(* descriptor list of any size, under the whole contract: what             *)
(* hailo_vdma_pop_timestamps_to_response hands out is each timestamp that  *)
(* hailo_vdma_push_timestamp had room for, once and in order, with its     *)
(* descriptor, and what was in the ring before                             *)
(* hailo_vdma_engine_enable_channels is gone.                              *)
THEOREM TimestampsCorrect == TsClauses \subseteq TsContract => (TsSpec => TimestampsInOrder)
<1> SUFFICES ASSUME TsClauses \subseteq TsContract PROVE TsSpec => TimestampsInOrder
  OBVIOUS
<1>0. /\ "quiet" \in TsContract /\ "paced" \in TsContract
      /\ "attached" \in TsContract /\ "ordered" \in TsContract
  BY DEF TsClauses
<1>1. TsInit => TsFifo!Init
  <2> SUFFICES ASSUME TsInit PROVE TsFifo!Init
    OBVIOUS
  <2>1. BoundsInv /\ TsTypeOK /\ head = 0 /\ tail = 0 /\ reader = "idle" /\ result = <<>> /\ clock = 0
    BY InitTs DEF BoundsInv, TsInit
  <2>2. Held = 0
    BY <2>1, RingSize, RingMoves DEF Held, Indices
  <2>3. FQueue = <<>> /\ FTaken = <<>>
    BY <2>1, <2>2, FQueueFacts DEF FTaken
  <2> QED
    BY <2>1, <2>3 DEF TsFifo!Init, FQueue, FTaken, Ids
<1>2. ASSUME FifoInv, [TsNext]_tsVars
      PROVE  FifoInv' /\ (FPush \/ FOverflow \/ FTake \/ FHandOut \/ FReset \/ FStay)
  <2>1. BoundsInv'
    BY <1>0, <1>2, BoundsStep DEF FifoInv
  <2>2. CASE UNCHANGED tsVars
    <3>1. UNCHANGED <<clock, FQueue, FTaken, Held>>
      BY <2>2 DEF tsVars, FQueue, FTaken, Ids, CircCnt, Held
    <3>2. (\A i \in 1 .. Held : IsStamp(timestamps[Place(tail, i)]))'
      BY <1>2, <2>2, <3>1 DEF tsVars, FifoInv, Place, IsStamp, StampOf
    <3>3. FifoInv'
      BY <1>2, <2>1, <2>2, <3>2 DEF tsVars, FifoInv, Masked, StampOf
    <3> QED
      BY <3>1, <3>3 DEF FStay
  <2>3. CASE PushTimestamp
    BY <1>2, <2>1, <2>3, FifoPush
  <2>4. CASE Store
    BY <1>0, <1>2, <2>1, <2>4, FifoStore
  <2>5. CASE ReadTimestamps \/ ReadReturn
    BY <1>0, <1>2, <2>1, <2>5, FifoRead
  <2>6. CASE PopTimestamp
    BY <1>2, <2>1, <2>6, FifoPop
  <2>7. CASE AdvanceTail
    BY <1>2, <2>1, <2>7, FifoAdvance
  <2>8. CASE (\E on \in BOOLEAN : EnableMeasure(on)) \/ DisableMeasured \/ AttachList
    BY <1>0, <1>2, <2>1, <2>8, FifoChannel
  <2> QED
    BY <1>2, <2>2, <2>3, <2>4, <2>5, <2>6, <2>7, <2>8 DEF TsNext
<1>3. ASSUME FPush \/ FOverflow \/ FTake \/ FHandOut \/ FReset \/ FStay
      PROVE  [TsFifo!Next]_(TsFifo!vars)
  <2>1. CASE FPush
    BY <2>1 DEF FPush, FQueue, FTaken, Ids, TsFifo!Next, TsFifo!Push
  <2>2. CASE FOverflow
    BY <2>2 DEF FOverflow, FQueue, FTaken, Ids, TsFifo!Next, TsFifo!Overflow
  <2>3. CASE FTake
    BY <2>3 DEF FTake, FQueue, FTaken, Ids, TsFifo!Next, TsFifo!Take
  <2>4. CASE FHandOut
    BY <2>4 DEF FHandOut, FQueue, FTaken, Ids, TsFifo!Next, TsFifo!HandOut
  <2>5. CASE FReset
    BY <2>5 DEF FReset, FQueue, FTaken, Ids, TsFifo!Next, TsFifo!Reset
  <2>6. CASE FStay
    BY <2>6 DEF FStay, FQueue, FTaken, Ids, TsFifo!vars
  <2> QED
    BY <1>3, <2>1, <2>2, <2>3, <2>4, <2>5, <2>6
<1>4. FifoInv /\ [TsNext]_tsVars => FifoInv' /\ [TsFifo!Next]_(TsFifo!vars)
  BY <1>2, <1>3
<1> QED
  BY <1>1, <1>4, InitFifo, PTL DEF TsSpec, TimestampsInOrder, TsFifo!Spec
=============================================================================
