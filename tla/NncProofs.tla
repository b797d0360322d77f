----------------------------- MODULE NncProofs -----------------------------
(***************************************************************************)
(* Proofs about Nnc, for any threads and files and any number of requests  *)
(* and notifications.                                                      *)
(***************************************************************************)
EXTENDS Nnc, TLAPS

(* fw_control.mutex has one holder or is free.                             *)
OneHolder ==
  /\ fw_mutex = 1 <=> \A t \in Threads : pc[t] \notin HoldingControl
  /\ \A t, u \in Threads : pc[t] \in HoldingControl /\ pc[u] \in HoldingControl => t = u

(* The handler forgets no bit of the status it has read.                   *)
SourceHandled ==
  /\ isr \in {"idle", "complete"} => irq_source = {}
  /\ isr = "cache" => irq_source = {"notification"}

(* There is a request in the mailbox when the firmware is told of one.     *)
RequestRung == doorbell => mailbox.id # None

ControlIrq == "control" \in istatus \union irq_source

(* With the clause "late" there is one request at a time between the       *)
(* mailbox, the firmware, its interrupt and the completion: the places     *)
(* exclude each other, and the mailbox is that of the control that waits.  *)
OneAnswer ==
  /\ completion \in {0, 1}
  /\ AnswerDue => completion = 0
  /\ doorbell => firmware = None /\ ~ControlIrq
  /\ firmware # None => ~ControlIrq /\ firmware = mailbox.id
  /\ ~("control" \in istatus /\ "control" \in irq_source)
  /\ ControlIrq \/ completion > 0 => mailbox.answer
  /\ \A t \in Threads :
       /\ pc[t] \in {"reinit", "write", "answer"} => ~AnswerDue
       /\ pc[t] = "write" => completion = 0
       /\ pc[t] \in {"await", "answer"} => mailbox.id = request[t]
       /\ pc[t] = "answer" => mailbox.answer

(* No reader loses the notification its completion stood for.              *)
Attentive == {"signal", "copy"} \subseteq Contract

ControlInv ==
  /\ TypeOK /\ OneHolder /\ SourceHandled /\ RequestRung /\ NoLostAnswer
  /\ "late" \in Contract => OneAnswer
  /\ Attentive => NoLostNotification

----------------------------------------------------------------------------
(* What a step does not reach: of the controls, when it moves no thread in *)
(* or out of them; of the notifications, when it moves no reader.          *)
LEMMA ControlsFramed ==
  ASSUME ControlInv, UNCHANGED <<controlVars, irqVars>>,
         \A t \in Threads :
           pc[t] \in HoldingControl \/ pc'[t] \in HoldingControl => pc'[t] = pc[t]
  PROVE  /\ OneHolder' /\ SourceHandled' /\ RequestRung' /\ NoLostAnswer'
         /\ "late" \in Contract => OneAnswer'
<1> USE DEF ControlInv, controlVars, irqVars, HoldingControl
<1>1. OneHolder' /\ SourceHandled' /\ RequestRung'
  BY DEF OneHolder, SourceHandled, RequestRung
<1>2. AnswerDue' = AnswerDue /\ ControlIrq' = ControlIrq
  BY DEF AnswerDue, ControlIrq
<1>3. NoLostAnswer'
  BY <1>2 DEF NoLostAnswer
<1>4. ASSUME "late" \in Contract PROVE OneAnswer'
  BY <1>2, <1>4 DEF OneAnswer
<1> QED
  BY <1>1, <1>3, <1>4

LEMMA NotificationsFramed ==
  ASSUME ControlInv, Attentive,
         UNCHANGED <<notification_cache, open, wait, seen>>,
         isr = "complete" => isr' = "complete",
         \A t \in Threads : pc[t] \in {"redown", "copy"} => pc'[t] \in {"redown", "copy"}
  PROVE  NoLostNotification'
BY DEF ControlInv, NoLostNotification

----------------------------------------------------------------------------
(* Threads that come and go without touching what the handler shares.      *)
LEMMA MoveStep ==
  ASSUME ControlInv, NEW t \in Threads,
         \/ Control(t) \/ ControlInterrupted(t)
         \/ ReadNotification(t) \/ ReadInterrupted(t) \/ ReadCancelled(t)
  PROVE  ControlInv'
<1>0. /\ UNCHANGED <<controlVars, irqVars, deviceVars, notificationVars>>
      /\ \E place \in Places \ HoldingControl : pc' = [pc EXCEPT ![t] = place]
      /\ pc[t] \notin HoldingControl
      /\ pc[t] # "copy"
      /\ Attentive => pc[t] # "redown" \/ wait[FileOf[t]].is_disabled
  BY DEF Control, ControlInterrupted, ReadNotification, ReadInterrupted, ReadCancelled, Begin,
     Goto, Places, HoldingControl, Attentive
<1>1. TypeOK'
  BY <1>0 DEF ControlInv, TypeOK, controlVars, irqVars, deviceVars, notificationVars
<1>2. /\ OneHolder' /\ SourceHandled' /\ RequestRung' /\ NoLostAnswer'
      /\ "late" \in Contract => OneAnswer'
  <2>1. \A u \in Threads :
          pc[u] \in HoldingControl \/ pc'[u] \in HoldingControl => pc'[u] = pc[u]
    BY <1>0 DEF ControlInv, TypeOK
  <2> QED
    BY <1>0, <2>1, ControlsFramed
<1>3. ASSUME Attentive PROVE NoLostNotification'
  BY <1>0, <1>3 DEF ControlInv, TypeOK, NoLostNotification, notificationVars, irqVars
<1> QED
  BY <1>1, <1>2, <1>3 DEF ControlInv

----------------------------------------------------------------------------
(* hailo_fw_control, from the mutex on.                                    *)
LEMMA ControlStep ==
  ASSUME ControlInv, NEW t \in Threads, ControlKernel(t)
  PROVE  ControlInv'
<1> USE DEF ControlInv, Goto
<1>0. /\ UNCHANGED <<irqVars, deviceVars, notificationVars, firmware>>
      /\ \E place \in Places : pc' = [pc EXCEPT ![t] = place]
      /\ pc[t] \in HoldingControl \union {"control"}
  BY DEF ControlKernel, ControlDown, ControlReject, ControlReinit, ControlWrite, ControlWoken,
     ControlTimeout, ControlAnswer, Places, HoldingControl
<1>1. ASSUME Attentive PROVE NoLostNotification'
  <2>1. \A u \in Threads : pc[u] \in {"redown", "copy"} => pc'[u] \in {"redown", "copy"}
    BY <1>0 DEF TypeOK, HoldingControl
  <2> QED
    BY <1>0, <1>1, <2>1, NotificationsFramed DEF irqVars, notificationVars
<1>2. SourceHandled'
  BY <1>0 DEF SourceHandled, irqVars
<1> USE DEF irqVars, deviceVars, notificationVars, HoldingControl, Places
<1>3. CASE ControlDown(t)
  <2>1. TypeOK' /\ OneHolder' /\ RequestRung' /\ NoLostAnswer'
    BY <1>3 DEF ControlDown, TypeOK, OneHolder, RequestRung, NoLostAnswer, AnswerDue
  <2>2. ASSUME "late" \in Contract PROVE OneAnswer'
    BY <1>3, <2>2 DEF ControlDown, TypeOK, OneAnswer, AnswerDue, ControlIrq
  <2> QED
    BY <1>1, <1>2, <2>1, <2>2
<1>4. CASE ControlReject(t) \/ ControlTimeout(t) \/ ControlAnswer(t)
  <2>0. /\ pc[t] \in HoldingControl /\ pc' = [pc EXCEPT ![t] = "user"]
        /\ fw_mutex' = fw_mutex + 1
        /\ UNCHANGED <<completion, request, issued, mailbox, doorbell>>
    BY <1>4 DEF ControlReject, ControlTimeout, ControlAnswer
  <2>1. fw_mutex = 0
    BY <2>0 DEF OneHolder, TypeOK
  <2>2. TypeOK' /\ RequestRung'
    BY <1>0, <2>0, <2>1 DEF TypeOK, RequestRung
  <2>3. OneHolder'
    BY <2>0, <2>1 DEF TypeOK, OneHolder
  <2>4. AnswerDue' = AnswerDue /\ ControlIrq' = ControlIrq
    BY <1>0, <2>0 DEF AnswerDue, ControlIrq
  <2>5. NoLostAnswer'
    BY <2>0, <2>4 DEF TypeOK, NoLostAnswer
  <2>6. ASSUME "late" \in Contract PROVE OneAnswer'
    BY <1>0, <2>0, <2>4, <2>6 DEF TypeOK, OneAnswer
  <2> QED
    BY <1>1, <1>2, <2>2, <2>3, <2>5, <2>6
<1>5. CASE ControlReinit(t)
  <2>1. TypeOK' /\ OneHolder' /\ RequestRung'
    BY <1>5 DEF ControlReinit, TypeOK, OneHolder, RequestRung
  <2>2. NoLostAnswer'
    BY <1>5 DEF ControlReinit, TypeOK, OneHolder, NoLostAnswer, AnswerDue
  <2>3. ASSUME "late" \in Contract PROVE OneAnswer'
    BY <1>5, <2>3 DEF ControlReinit, TypeOK, OneAnswer, AnswerDue, ControlIrq
  <2> QED
    BY <1>1, <1>2, <2>1, <2>2, <2>3
<1>6. CASE ControlWrite(t)
  <2>0. /\ pc[t] = "write" /\ pc' = [pc EXCEPT ![t] = "await"]
        /\ issued < MaxRequests /\ issued' = issued + 1 /\ issued' \in Requests
        /\ request' = [request EXCEPT ![t] = issued']
        /\ mailbox' = [answer |-> FALSE, id |-> issued']
        /\ doorbell' = TRUE /\ UNCHANGED <<fw_mutex, completion>>
    BY <1>6, BoundsAssumption DEF ControlWrite, TypeOK, Requests
  <2>1. TypeOK'
    BY <1>0, <2>0, BoundsAssumption DEF TypeOK, Requests
  <2>2. OneHolder' /\ RequestRung'
    BY <2>0 DEF TypeOK, OneHolder, RequestRung, Requests, None
  <2>3. AnswerDue' /\ NoLostAnswer'
    BY <2>0 DEF AnswerDue, NoLostAnswer
  <2>4. ASSUME "late" \in Contract PROVE OneAnswer'
    <3>1. completion = 0 /\ ~AnswerDue /\ firmware = None /\ ~ControlIrq
      BY <2>0, <2>4 DEF OneAnswer, AnswerDue, ControlIrq
    <3>2. \A u \in Threads : u # t => pc'[u] \notin HoldingControl
      BY <2>0 DEF TypeOK, OneHolder
    <3>3. ~ControlIrq' /\ completion' = 0 /\ firmware' = None
      BY <1>0, <2>0, <3>1 DEF ControlIrq
    <3>4. pc'[t] = "await" /\ mailbox'.id = request'[t]
      BY <2>0 DEF TypeOK
    <3> QED
      BY <2>0, <2>3, <3>2, <3>3, <3>4 DEF OneAnswer, ControlIrq
  <2> QED
    BY <1>1, <1>2, <2>1, <2>2, <2>3, <2>4
<1>7. CASE ControlWoken(t)
  <2>1. TypeOK' /\ OneHolder' /\ RequestRung'
    BY <1>7 DEF ControlWoken, TypeOK, OneHolder, RequestRung
  <2>2. NoLostAnswer'
    BY <1>7 DEF ControlWoken, TypeOK, OneHolder, NoLostAnswer, AnswerDue
  <2>3. ASSUME "late" \in Contract PROVE OneAnswer'
    BY <1>7, <2>3 DEF ControlWoken, TypeOK, OneAnswer, AnswerDue, ControlIrq
  <2> QED
    BY <1>1, <1>2, <2>1, <2>2, <2>3
<1> QED
  BY <1>3, <1>4, <1>5, <1>6, <1>7 DEF ControlKernel

----------------------------------------------------------------------------
(* The notifications of files.                                             *)
LEMMA NotificationStep ==
  ASSUME ControlInv,
         \/ \E t \in Threads : ReadWoken(t) \/ ReadReinit(t) \/ ReadCopy(t)
                                 \/ DisableNotification(t)
         \/ \E f \in Files : Open(f) \/ Close(f)
         \/ Finalize
  PROVE  ControlInv'
<1>a. FileOf \in [Threads -> Files]
  BY ThreadsAssumption
<1>b. TypeOK
  BY DEF ControlInv
<1>f. ASSUME UNCHANGED <<controlVars, irqVars>>, TypeOK',
             \A t \in Threads : pc'[t] # pc[t] => {pc[t], pc'[t]} \intersect HoldingControl = {},
             Attentive => NoLostNotification'
      PROVE  ControlInv'
  <2>1. \A t \in Threads :
          pc[t] \in HoldingControl \/ pc'[t] \in HoldingControl => pc'[t] = pc[t]
    BY <1>f
  <2> QED
    BY <1>f, <2>1, ControlsFramed DEF ControlInv
<1> USE <1>a, <1>b DEF Goto, controlVars, irqVars, deviceVars, Places, HoldingControl
<1>1. ASSUME NEW t \in Threads, ReadWoken(t)
      PROVE  ControlInv'
  <2>1. TypeOK'
    BY <1>1 DEF ReadWoken, TypeOK
  <2>2. ASSUME Attentive PROVE NoLostNotification'
    BY <1>1, <2>2 DEF ReadWoken, TypeOK, ControlInv, NoLostNotification
  <2> QED
    BY <1>1, <1>f, <2>1, <2>2 DEF ReadWoken, TypeOK
<1>2. ASSUME NEW t \in Threads, ReadReinit(t)
      PROVE  ControlInv'
  <2>1. TypeOK'
    BY <1>2 DEF ReadReinit, TypeOK
  <2>2. ASSUME Attentive PROVE NoLostNotification'
    BY <1>2, <2>2 DEF ReadReinit, TypeOK, ControlInv, NoLostNotification
  <2> QED
    BY <1>2, <1>f, <2>1, <2>2 DEF ReadReinit, TypeOK
<1>3. ASSUME NEW t \in Threads, ReadCopy(t)
      PROVE  ControlInv'
  <2>1. TypeOK'
    BY <1>3 DEF ReadCopy, TypeOK
  <2>2. ASSUME Attentive PROVE NoLostNotification'
    <3>1. "copy" \in Contract
      BY <2>2 DEF Attentive
    <3>2. seen' = [seen EXCEPT ![FileOf[t]] = notification_cache]
      BY <1>3, <3>1 DEF ReadCopy
    <3> QED
      BY <1>3, <2>2, <3>2 DEF ReadCopy, TypeOK, ControlInv, NoLostNotification
  <2> QED
    BY <1>3, <1>f, <2>1, <2>2 DEF ReadCopy, TypeOK
<1>4. ASSUME NEW t \in Threads, DisableNotification(t)
      PROVE  ControlInv'
  <2>1. TypeOK'
    BY <1>4 DEF DisableNotification, Disable, TypeOK
  <2>2. ASSUME Attentive PROVE NoLostNotification'
    BY <1>4, <2>2 DEF DisableNotification, Disable, TypeOK, ControlInv, NoLostNotification
  <2> QED
    BY <1>4, <1>f, <2>1, <2>2 DEF DisableNotification, TypeOK
<1>5. ASSUME NEW f \in Files, Open(f)
      PROVE  ControlInv'
  <2>1. TypeOK'
    BY <1>5 DEF Open, NewWait, TypeOK
  <2>2. ASSUME Attentive PROVE NoLostNotification'
    BY <1>5, <2>2 DEF Open, NewWait, TypeOK, ControlInv, NoLostNotification
  <2> QED
    BY <1>5, <1>f, <2>1, <2>2 DEF Open, TypeOK
<1>6. ASSUME NEW f \in Files, Close(f)
      PROVE  ControlInv'
  <2>1. TypeOK'
    BY <1>6 DEF Close, TypeOK
  <2>2. ASSUME Attentive PROVE NoLostNotification'
    BY <1>6, <2>2 DEF Close, TypeOK, ControlInv, NoLostNotification
  <2> QED
    BY <1>6, <1>f, <2>1, <2>2 DEF Close, TypeOK
<1>7. ASSUME Finalize
      PROVE  ControlInv'
  <2>1. TypeOK'
    BY <1>7 DEF Finalize, Disable, TypeOK
  <2>2. ASSUME Attentive PROVE NoLostNotification'
    BY <1>7, <2>2 DEF Finalize, Disable, TypeOK, ControlInv, NoLostNotification
  <2> QED
    BY <1>7, <1>f, <2>1, <2>2 DEF Finalize, TypeOK
<1> QED
  BY <1>1, <1>2, <1>3, <1>4, <1>5, <1>6, <1>7

----------------------------------------------------------------------------
(* The firmware, and nnc_irq_handler.                                      *)
LEMMA DeviceStep ==
  ASSUME ControlInv, FwTake \/ FwAnswer \/ FwNotify \/ Isr
  PROVE  ControlInv'
<1>b. TypeOK
  BY DEF ControlInv
<1>c. UNCHANGED <<pc, fw_mutex, request, issued, open, seen, removed>>
  BY DEF FwTake, FwAnswer, FwNotify, Isr, IrqRead, IrqControl, IrqCache, IrqComplete,
     controlVars, notificationVars
<1>h. OneHolder'
  BY <1>c DEF ControlInv, OneHolder
<1>q. ASSUME TypeOK', SourceHandled', RequestRung', NoLostAnswer',
             "late" \in Contract => OneAnswer', Attentive => NoLostNotification'
      PROVE  ControlInv'
  BY <1>q, <1>h DEF ControlInv
<1> USE <1>b, <1>c DEF controlVars, irqVars, deviceVars, notificationVars
<1>1. CASE FwTake
  <2>1. TypeOK' /\ SourceHandled' /\ RequestRung'
    BY <1>1 DEF FwTake, TypeOK, ControlInv, SourceHandled, RequestRung
  <2>2. firmware' # None
    BY <1>1 DEF FwTake, ControlInv, RequestRung
  <2>3. AnswerDue' /\ NoLostAnswer'
    BY <2>2 DEF AnswerDue, NoLostAnswer
  <2>4. ASSUME "late" \in Contract PROVE OneAnswer'
    BY <1>1, <2>2, <2>4 DEF FwTake, TypeOK, ControlInv, OneAnswer, AnswerDue, ControlIrq
  <2>5. ASSUME Attentive PROVE NoLostNotification'
    BY <1>1, <2>5, NotificationsFramed DEF FwTake
  <2> QED
    BY <1>q, <2>1, <2>3, <2>4, <2>5
<1>2. CASE FwAnswer
  <2>1. TypeOK' /\ SourceHandled'
    BY <1>2 DEF FwAnswer, TypeOK, Irqs, ControlInv, SourceHandled
  <2>2. RequestRung'
    BY <1>2 DEF FwAnswer, RequestRung
  <2>3. AnswerDue' /\ NoLostAnswer'
    BY <1>2 DEF FwAnswer, AnswerDue, NoLostAnswer
  <2>4. ASSUME "late" \in Contract PROVE OneAnswer'
    BY <1>2, <2>4 DEF FwAnswer, TypeOK, ControlInv, OneAnswer, AnswerDue, ControlIrq
  <2>5. ASSUME Attentive PROVE NoLostNotification'
    BY <1>2, <2>5, NotificationsFramed DEF FwAnswer
  <2> QED
    BY <1>q, <2>1, <2>2, <2>3, <2>4, <2>5
<1>3. CASE FwNotify
  <2>1. TypeOK' /\ SourceHandled' /\ RequestRung'
    BY <1>3, BoundsAssumption
       DEF FwNotify, TypeOK, Irqs, Notifications, ControlInv, SourceHandled, RequestRung
  <2>2. AnswerDue' = AnswerDue /\ ControlIrq' = ControlIrq
        /\ ("control" \in istatus' <=> "control" \in istatus)
    BY <1>3 DEF FwNotify, AnswerDue, ControlIrq
  <2>3. NoLostAnswer'
    BY <1>3, <2>2 DEF FwNotify, ControlInv, NoLostAnswer
  <2>4. ASSUME "late" \in Contract PROVE OneAnswer'
    BY <1>3, <2>2, <2>4 DEF FwNotify, ControlInv, OneAnswer
  <2>5. ASSUME Attentive PROVE NoLostNotification'
    BY <1>3, <2>5, NotificationsFramed DEF FwNotify
  <2> QED
    BY <1>q, <2>1, <2>3, <2>4, <2>5
<1>4. CASE IrqRead
  <2>0. irq_source = {}
    BY <1>4 DEF IrqRead, ControlInv, SourceHandled
  <2>1. TypeOK' /\ SourceHandled' /\ RequestRung'
    BY <1>4 DEF IrqRead, TypeOK, ControlInv, SourceHandled, RequestRung
  <2>2. AnswerDue' = AnswerDue /\ ControlIrq' = ControlIrq
    BY <1>4, <2>0 DEF IrqRead, AnswerDue, ControlIrq
  <2>3. NoLostAnswer'
    BY <1>4, <2>2 DEF IrqRead, ControlInv, NoLostAnswer
  <2>4. ASSUME "late" \in Contract PROVE OneAnswer'
    BY <1>4, <2>2, <2>4 DEF IrqRead, ControlInv, OneAnswer
  <2>5. ASSUME Attentive PROVE NoLostNotification'
    BY <1>4, <2>5, NotificationsFramed DEF IrqRead
  <2> QED
    BY <1>q, <2>1, <2>3, <2>4, <2>5
<1>5. CASE IrqControl
  <2>0. irq_source \subseteq {"control", "notification"}
    BY DEF TypeOK, Irqs
  <2>1. TypeOK' /\ SourceHandled' /\ RequestRung'
    <3>1. TypeOK' /\ RequestRung'
      BY <1>5 DEF IrqControl, TypeOK, ControlInv, RequestRung
    <3>2. CASE "notification" \in irq_source
      <4>1. isr' = "cache" /\ irq_source' = irq_source \ {"control"}
        BY <1>5, <3>2 DEF IrqControl
      <4>2. irq_source' = {"notification"}
        BY <2>0, <3>2, <4>1
      <4> QED
        BY <3>1, <4>1, <4>2 DEF SourceHandled
    <3>3. CASE "notification" \notin irq_source
      <4>1. isr' = "idle" /\ irq_source' = irq_source \ {"control"}
        BY <1>5, <3>3 DEF IrqControl
      <4>2. irq_source' = {}
        BY <2>0, <3>3, <4>1
      <4> QED
        BY <3>1, <4>1, <4>2 DEF SourceHandled
    <3> QED
      BY <3>2, <3>3
  <2>2. NoLostAnswer'
    BY <1>5 DEF IrqControl, TypeOK, ControlInv, NoLostAnswer, AnswerDue
  <2>3. ASSUME "late" \in Contract PROVE OneAnswer'
    BY <1>5, <2>3 DEF IrqControl, TypeOK, ControlInv, OneAnswer, AnswerDue, ControlIrq
  <2>4. ASSUME Attentive PROVE NoLostNotification'
    BY <1>5, <2>4, NotificationsFramed DEF IrqControl
  <2> QED
    BY <1>q, <2>1, <2>2, <2>3, <2>4
<1>6. CASE IrqCache
  <2>0. irq_source = {"notification"}
    BY <1>6 DEF IrqCache, ControlInv, SourceHandled
  <2>1. TypeOK' /\ SourceHandled' /\ RequestRung'
    BY <1>6 DEF IrqCache, TypeOK, ControlInv, SourceHandled, RequestRung
  <2>2. AnswerDue' = AnswerDue /\ ControlIrq' = ControlIrq
    BY <1>6, <2>0 DEF IrqCache, AnswerDue, ControlIrq
  <2>3. NoLostAnswer'
    BY <1>6, <2>2 DEF IrqCache, ControlInv, NoLostAnswer
  <2>4. ASSUME "late" \in Contract PROVE OneAnswer'
    BY <1>6, <2>0, <2>2, <2>4 DEF IrqCache, ControlInv, OneAnswer
  <2>5. ASSUME Attentive PROVE NoLostNotification'
    BY <1>6, <2>5 DEF IrqCache, ControlInv, NoLostNotification
  <2> QED
    BY <1>q, <2>1, <2>3, <2>4, <2>5
<1>7. CASE IrqComplete
  <2>1. TypeOK' /\ SourceHandled' /\ RequestRung'
    BY <1>7 DEF IrqComplete, Complete, TypeOK, ControlInv, SourceHandled, RequestRung
  <2>2. AnswerDue' = AnswerDue /\ ControlIrq' = ControlIrq
    BY <1>7 DEF IrqComplete, AnswerDue, ControlIrq
  <2>3. NoLostAnswer'
    BY <1>7, <2>2 DEF IrqComplete, ControlInv, NoLostAnswer
  <2>4. ASSUME "late" \in Contract PROVE OneAnswer'
    BY <1>7, <2>2, <2>4 DEF IrqComplete, ControlInv, OneAnswer
  <2>5. NoLostNotification'
    BY <1>7 DEF IrqComplete, Complete, TypeOK, NoLostNotification
  <2> QED
    BY <1>q, <2>1, <2>3, <2>4, <2>5
<1> QED
  BY <1>1, <1>2, <1>3, <1>4, <1>5, <1>6, <1>7 DEF Isr

----------------------------------------------------------------------------
LEMMA InitInv == Init => ControlInv
<1> SUFFICES ASSUME Init PROVE ControlInv
  OBVIOUS
<1>1. TypeOK
  <2>1. /\ pc \in [Threads -> Places] /\ request \in [Threads -> Requests \union {None}]
        /\ mailbox \in [answer : BOOLEAN, id : Requests \union {None}]
    BY DEF Init, Places
  <2>2. 0 \in Notifications /\ issued \in 0 .. MaxRequests
    BY BoundsAssumption DEF Init, Notifications
  <2>3. /\ d2h \in [in_use : BOOLEAN, id : Notifications, fits : BOOLEAN]
        /\ raised \in Notifications /\ notification_cache \in Notifications
        /\ seen \in [Files -> Notifications]
    BY <2>2 DEF Init
  <2>4. wait \in [Files -> [completion : Nat, is_disabled : BOOLEAN]]
    BY DEF Init, NewWait
  <2>5. /\ fw_mutex \in {0, 1} /\ completion \in Nat /\ doorbell \in BOOLEAN
        /\ firmware \in Requests \union {None} /\ istatus \subseteq Irqs
        /\ irq_source \subseteq Irqs /\ isr \in {"idle", "control", "cache", "complete"}
        /\ open \subseteq Files /\ removed \in BOOLEAN
    BY DEF Init
  <2> QED
    BY <2>1, <2>2, <2>3, <2>4, <2>5 DEF TypeOK
<1>2. OneHolder /\ SourceHandled /\ RequestRung /\ NoLostAnswer
  BY DEF Init, OneHolder, SourceHandled, RequestRung, NoLostAnswer, HoldingControl
<1>3. OneAnswer
  BY DEF Init, OneAnswer, AnswerDue, ControlIrq
<1>4. NoLostNotification
  BY DEF Init, NoLostNotification
<1> QED
  BY <1>1, <1>2, <1>3, <1>4 DEF ControlInv

LEMMA NextInv == ControlInv /\ [Next]_vars => ControlInv'
<1> SUFFICES ASSUME ControlInv, [Next]_vars PROVE ControlInv'
  OBVIOUS
<1>1. ASSUME NEW t \in Threads,
             \/ Control(t) \/ ControlKernel(t) \/ ControlInterrupted(t)
             \/ ReadNotification(t) \/ ReadKernel(t) \/ ReadInterrupted(t)
             \/ DisableNotification(t)
      PROVE  ControlInv'
  BY <1>1, MoveStep, ControlStep, NotificationStep DEF ReadKernel
<1>2. CASE \E f \in Files : Open(f) \/ Close(f)
  BY <1>2, NotificationStep
<1>3. CASE Finalize
  BY <1>3, NotificationStep
<1>4. CASE FwTake \/ FwAnswer \/ FwNotify \/ Isr
  BY <1>4, DeviceStep
<1>5. CASE UNCHANGED vars
  BY <1>5 DEF vars, controlVars, irqVars, deviceVars, notificationVars, ControlInv, TypeOK,
     OneHolder, SourceHandled, RequestRung, NoLostAnswer, OneAnswer, NoLostNotification,
     AnswerDue, ControlIrq
<1> QED
  BY <1>1, <1>2, <1>3, <1>4, <1>5 DEF Next

LEMMA Invariant == Spec => []ControlInv
BY InitInv, NextInv, PTL DEF Spec

(* A control that is woken finds its own answer in the mailbox, for every  *)
(* number of clients and requests, as long as a client does not send the   *)
(* next control before the late answer to one that timed out is in:        *)
(* hailo_fw_control's reinit_completion under fw_control.mutex.            *)
THEOREM AnswerCorrect == "late" \in Contract => (Spec => []AnswerIsOwn)
<1> SUFFICES ASSUME "late" \in Contract PROVE Spec => []AnswerIsOwn
  OBVIOUS
<1>1. ControlInv => AnswerIsOwn
  BY DEF ControlInv, TypeOK, OneAnswer, AnswerIsOwn
<1> QED
  BY <1>1, Invariant, PTL

(* No control waits for an answer the firmware has given and nobody will   *)
(* signal, whatever the clients do: the order of reinit_completion, the    *)
(* write to the mailbox and the doorbell in hailo_fw_control.              *)
THEOREM AnswerNotLost == Spec => []NoLostAnswer
<1>1. ControlInv => NoLostAnswer
  BY DEF ControlInv
<1> QED
  BY <1>1, Invariant, PTL

(* The latest notification in the cache reaches every open file: reader    *)
(* and interrupt handler of hailo_read_notification_ioctl lose none        *)
(* between them, unless a signal ends the second wait of a reader or its   *)
(* buffer cannot be written.                                               *)
THEOREM NotificationCorrect ==
  {"signal", "copy"} \subseteq Contract => (Spec => []NoLostNotification)
<1> SUFFICES ASSUME Attentive PROVE Spec => []NoLostNotification
  BY DEF Attentive
<1>1. ControlInv => NoLostNotification
  BY DEF ControlInv
<1> QED
  BY <1>1, Invariant, PTL

=============================================================================
