------------------------- MODULE VdmaChannelProofs -------------------------
(***************************************************************************)
(* Proofs about VdmaChannel, for every set of lists, every ring size and   *)
(* every length of a list, of a client that keeps its contract.            *)
(***************************************************************************)
EXTENDS VdmaChannel, SequenceTheorems, FiniteSetTheorems, WellFoundedInduction, TLAPS

(* A non-empty set of naturals has a least element.                        *)
LEMMA LeastNat ==
  ASSUME NEW T \in SUBSET Nat, T # {}
  PROVE  \E m \in T : \A k \in T : m <= k
<1>1. IsWellFoundedOn(OpToRel(<, Nat), Nat)
  BY NatLessThanWellFounded
<1>2. PICK m \in T : \A k \in T : ~(<<k, m>> \in OpToRel(<, Nat))
  BY <1>1, WFMin
<1>3. \A k \in T : ~(k < m)
  BY <1>2 DEF OpToRel
<1>4. \A k \in T : m <= k
  BY <1>3
<1> QED
  BY <1>4

(* The remainders that occur: at most one wrap around a list.              *)
LEMMA ModPlus ==
  ASSUME NEW n \in Nat \ {0}, NEW b \in 0 .. n - 1, NEW k \in 0 .. n
  PROVE  (b + k) % n = IF b + k < n THEN b + k ELSE b + k - n
<1>1. CASE b + k < n
  BY <1>1
<1>2. CASE ~(b + k < n)
  BY <1>2
<1> QED
  BY <1>1, <1>2

LEMMA ModRange ==
  ASSUME NEW n \in Nat \ {0}, NEW y \in Int
  PROVE  y % n \in 0 .. n - 1
OBVIOUS

LEMMA DistRange ==
  ASSUME NEW n \in Nat, NEW a \in 0 .. n - 1, NEW b \in 0 .. n - 1
  PROVE  Dist(n, a, b) \in 0 .. n - 1
BY DEF Dist

LEMMA OffRange ==
  ASSUME NEW n \in Nat, num_proc \in 0 .. n - 1, NEW x \in 0 .. n - 1
  PROVE  Off(n, x) \in Nat /\ Off(n, x) < n
BY DEF Off, Dist

(* One step ahead, short of a full turn.                                   *)
LEMMA DistSucc ==
  ASSUME NEW n \in Nat \ {0}, NEW a \in 0 .. n - 1, NEW b \in 0 .. n - 1,
         Dist(n, a, b) < n - 1
  PROVE  /\ (b + 1) % n \in 0 .. n - 1
         /\ Dist(n, a, (b + 1) % n) = Dist(n, a, b) + 1
<1>1. (b + 1) % n = IF b + 1 < n THEN b + 1 ELSE b + 1 - n
  BY ModPlus
<1> QED
  BY <1>1 DEF Dist

(* k steps ahead, short of a full turn.                                    *)
LEMMA DistPlus ==
  ASSUME NEW n \in Nat \ {0}, NEW a \in 0 .. n - 1, NEW b \in 0 .. n - 1,
         NEW k \in Nat, Dist(n, a, b) + k < n
  PROVE  /\ (b + k) % n \in 0 .. n - 1
         /\ Dist(n, a, (b + k) % n) = Dist(n, a, b) + k
<1>0. k \in 0 .. n
  BY DEF Dist
<1>1. (b + k) % n = IF b + k < n THEN b + k ELSE b + k - n
  BY <1>0, ModPlus
<1> QED
  BY <1>0, <1>1 DEF Dist

(* Distances seen from a point further on.                                 *)
LEMMA DistShift ==
  ASSUME NEW n \in Nat \ {0}, NEW a \in 0 .. n - 1, NEW b \in 0 .. n - 1,
         NEW x \in 0 .. n - 1
  PROVE  Dist(n, b, x) = IF Dist(n, a, b) <= Dist(n, a, x)
                         THEN Dist(n, a, x) - Dist(n, a, b)
                         ELSE Dist(n, a, x) - Dist(n, a, b) + n
BY DEF Dist

LEMMA DistInjective ==
  ASSUME NEW n \in Nat \ {0}, NEW a \in 0 .. n - 1, NEW b \in 0 .. n - 1,
         NEW c \in 0 .. n - 1
  PROVE  Dist(n, a, b) = Dist(n, a, c) <=> b = c
BY DEF Dist

(* is_desc_between compares distances, seen from any point a that does not *)
(* lie behind the interval's begin.                                        *)
LEMMA BetweenIsDistance ==
  ASSUME NEW n \in Nat \ {0}, NEW a \in 0 .. n - 1, NEW begin \in 0 .. n - 1,
         NEW end \in 0 .. n - 1, NEW desc \in 0 .. n - 1,
         Dist(n, a, begin) <= Dist(n, a, end),
         Dist(n, a, begin) <= Dist(n, a, desc)
  PROVE  is_desc_between(begin, end, desc) <=> Dist(n, a, desc) < Dist(n, a, end)
BY DEF Dist, is_desc_between

----------------------------------------------------------------------------
(* The list the channel works on when it has transfers in flight.          *)
LEMMA AttachedFacts ==
  ASSUME IndInv, ongoing_transfers # <<>>
  PROVE  /\ last_desc_list \in Lists
         /\ host_regs.list = last_desc_list
         /\ DescCount[last_desc_list] \in Nat \ {0}
         /\ desc_count_mask = DescCount[last_desc_list]
         /\ num_avail \in Descs(last_desc_list)
         /\ num_proc \in Descs(last_desc_list)
         /\ HwNumProc \in Descs(last_desc_list)
         /\ \A i \in 1 .. Len(ongoing_transfers) :
              ongoing_transfers[i].last_desc \in Descs(last_desc_list)
<1> USE DEF IndInv
<1>1. last_desc_list \in Lists
  BY DEF NothingUnattached, TypeOK, ScalarsOK
<1>2. last_desc_list # NoList
  BY <1>1, ListsAssumption
<1>3. host_regs.list = last_desc_list
  BY <1>2 DEF DeviceInStep
<1>4. DescCount[last_desc_list] \in Nat \ {0}
  BY <1>1, ListsAssumption
<1>5. /\ desc_count_mask = DescCount[last_desc_list]
      /\ num_avail < DescCount[last_desc_list] /\ num_proc < DescCount[last_desc_list]
      /\ \A i \in 1 .. Len(ongoing_transfers) :
           ongoing_transfers[i].last_desc < DescCount[last_desc_list]
  BY <1>2 DEF TransfersInOrder
<1>6. num_avail \in Nat /\ num_proc \in Nat /\ host_regs.num_proc \in Nat
  BY SizesAssumption DEF TypeOK, ScalarsOK, HostRegs
<1>7. \A i \in 1 .. Len(ongoing_transfers) : ongoing_transfers[i].last_desc \in Nat
  <2>1. ASSUME NEW i \in 1 .. Len(ongoing_transfers)
        PROVE  ongoing_transfers[i] \in Transfers
    BY ElementOfSeq DEF TypeOK, TransfersOK
  <2> QED
    BY <2>1 DEF Transfers
<1>8. HwNumProc \in Descs(last_desc_list)
  <2>1. host_regs.num_proc % DescCount[last_desc_list] \in 0 .. DescCount[last_desc_list] - 1
    BY <1>4, <1>6
  <2> QED
    BY <1>5, <2>1 DEF HwNumProc, Descs
<1> QED
  BY <1>1, <1>3, <1>4, <1>5, <1>6, <1>7, <1>8 DEF Descs

(* As long as the loop goes on, num_proc has not passed the device, and    *)
(* then a transfer is complete exactly when the device has passed it.      *)
LEMMA CompleteIff ==
  ASSUME IndInv, NEW i \in 1 .. Len(ongoing_transfers),
         \A j \in 1 .. i - 1 : Complete(j)
  PROVE  LET n == DescCount[last_desc_list] IN
         Complete(i) <=> Off(n, ongoing_transfers[i].last_desc) < Off(n, HwNumProc)
<1> DEFINE l == last_desc_list
           n == DescCount[l]
           q == ongoing_transfers
           h == HwNumProc
           last(k) == q[k].last_desc
<1>0. q \in Seq(Transfers) /\ q # <<>> /\ Len(q) \in Nat /\ i \in 1 .. Len(q)
  BY EmptySeq, LenProperties DEF IndInv, TypeOK, TransfersOK
<1>1. /\ l \in Lists /\ l # NoList /\ n \in Nat \ {0} /\ desc_count_mask = n
      /\ num_avail \in 0 .. n - 1 /\ num_proc \in 0 .. n - 1 /\ h \in 0 .. n - 1
      /\ \A k \in 1 .. Len(q) : last(k) \in 0 .. n - 1
  BY <1>0, AttachedFacts, ListsAssumption DEF Descs
<1>2. /\ \A j, k \in 1 .. Len(q) : j < k => Off(n, last(j)) < Off(n, last(k))
      /\ Off(n, last(Len(q))) + 1 = Off(n, num_avail)
  BY <1>0, <1>1 DEF IndInv, TransfersInOrder
<1>3. \A x \in 0 .. n - 1 : Off(n, x) \in 0 .. n - 1
  BY <1>1, DistRange DEF Off
<1> HIDE DEF l, n, q, h, last
<1>3a. /\ Off(n, h) \in Nat /\ Off(n, num_avail) \in Nat /\ Off(n, num_avail) < n
       /\ \A k \in 1 .. Len(q) : Off(n, last(k)) \in Nat
  BY <1>1, <1>3
<1>4. \A k \in 1 .. Len(q) : Off(n, last(k)) < Off(n, num_avail)
  <2> TAKE k \in 1 .. Len(q)
  <2>1. Len(q) \in 1 .. Len(q) /\ last(k) \in 0 .. n - 1 /\ last(Len(q)) \in 0 .. n - 1
    BY <1>0, <1>1
  <2>2. Off(n, last(k)) \in Int /\ Off(n, last(Len(q))) \in Int /\ Off(n, num_avail) \in Int
    BY <1>1, <1>3, <2>1
  <2>3. k = Len(q) \/ Off(n, last(k)) < Off(n, last(Len(q)))
    BY <1>0, <1>2, <2>1
  <2> QED
    BY <1>2, <2>2, <2>3
<1>5. CASE num_avail = h
  BY <1>4, <1>5 DEF Complete, is_transfer_complete, q, n, l, h, last
<1>6. CASE num_avail # h
  <2>1. \A k \in 1 .. Len(q) :
          Complete(k) <=> is_desc_between(ProcBefore(k), h, last(k))
    BY <1>6 DEF Complete, is_transfer_complete, h, last, q
  <2>2. ProcBefore(1) = num_proc /\ Off(n, num_proc) = 0
    BY <1>1 DEF ProcBefore, Off, Dist
  <2>3. ASSUME NEW k \in 2 .. Len(q)
        PROVE  /\ ProcBefore(k) = (last(k - 1) + 1) % n
               /\ ProcBefore(k) \in 0 .. n - 1
               /\ Off(n, ProcBefore(k)) = Off(n, last(k - 1)) + 1
    <3>1. k - 1 \in 1 .. Len(q) /\ k \in 1 .. Len(q) /\ k - 1 < k /\ k # 1
      BY <1>0
    <3>2. ProcBefore(k) = (last(k - 1) + 1) % n
      BY <1>1, <3>1 DEF ProcBefore, last, q
    <3>3. last(k - 1) \in 0 .. n - 1
      BY <1>1, <3>1
    <3>4. Off(n, last(k - 1)) < n - 1
      <4>1. Off(n, last(k - 1)) \in Nat
        BY <1>3a, <3>1
      <4>2. Off(n, last(k - 1)) < Off(n, num_avail)
        BY <1>4, <3>1
      <4> QED
        BY <1>1, <1>3a, <4>1, <4>2
    <3> QED
      BY <1>1, <3>2, <3>3, <3>4, DistSucc DEF Off
  <2>4. \A k \in 1 .. Len(q) :
          /\ ProcBefore(k) \in 0 .. n - 1
          /\ Off(n, ProcBefore(k)) <= Off(n, last(k))
    <3> TAKE k \in 1 .. Len(q)
    <3>1. CASE k = 1
      BY <1>1, <1>3, <2>2, <3>1, SMTT(40)
    <3>2. CASE k # 1
      <4>1. k \in 2 .. Len(q) /\ k - 1 \in 1 .. Len(q) /\ k - 1 < k
        BY <1>0, <3>2
      <4>2. Off(n, last(k - 1)) < Off(n, last(k))
        BY <1>2, <4>1
      <4>3. Off(n, last(k - 1)) \in Nat /\ Off(n, last(k)) \in Nat
        BY <1>3a, <4>1
      <4>4. ProcBefore(k) \in 0 .. n - 1 /\ Off(n, ProcBefore(k)) = Off(n, last(k - 1)) + 1
        BY <2>3, <4>1
      <4> QED
        BY <4>2, <4>3, <4>4
    <3> QED
      BY <3>1, <3>2
  <2>5. \A k \in 1 .. Len(q) : Off(n, ProcBefore(k)) <= Off(n, h) =>
          (Complete(k) <=> Off(n, last(k)) < Off(n, h))
    BY <1>1, <2>1, <2>4, BetweenIsDistance DEF Off
  <2>6. Off(n, ProcBefore(i)) <= Off(n, h)
    <3> DEFINE T == {k \in 1 .. i : ~(Off(n, ProcBefore(k)) <= Off(n, h))}
    <3>1. SUFFICES ASSUME T # {} PROVE FALSE
      BY <1>0
    <3>1a. T \in SUBSET Nat
      BY <1>0
    <3> HIDE DEF T
    <3>2. PICK m \in T : \A k \in T : m <= k
      BY <3>1, <3>1a, LeastNat
    <3>3. m \in 1 .. i /\ m \in 1 .. Len(q) /\ ~(Off(n, ProcBefore(m)) <= Off(n, h))
      BY <1>0, <3>2 DEF T
    <3>4. m # 1
      BY <1>1, <1>3, <2>2, <3>3
    <3>5. m - 1 \in 1 .. i - 1 /\ m - 1 \in 1 .. Len(q) /\ m \in 2 .. Len(q)
      BY <1>0, <3>3, <3>4
    <3>6. Off(n, ProcBefore(m - 1)) <= Off(n, h)
      BY <1>0, <3>2, <3>3, <3>5 DEF T
    <3>7. Off(n, last(m - 1)) < Off(n, h)
      BY <2>5, <3>5, <3>6
    <3>8. Off(n, ProcBefore(m)) = Off(n, last(m - 1)) + 1
      BY <2>3, <3>5
    <3>9. Off(n, last(m - 1)) \in Nat
      BY <1>3a, <3>5
    <3> QED
      BY <1>3a, <3>3, <3>7, <3>8, <3>9
  <2> QED
    BY <2>5, <2>6 DEF q, n, l, h, last
<1> QED
  BY <1>5, <1>6

(* Every transfer in flight ends before num_avail.                         *)
LEMMA LastBeforeAvail ==
  ASSUME IndInv, ongoing_transfers # <<>>, NEW i \in 1 .. Len(ongoing_transfers)
  PROVE  LET n == DescCount[last_desc_list] IN
         Off(n, ongoing_transfers[i].last_desc) < Off(n, num_avail)
<1> DEFINE n == DescCount[last_desc_list]
           m == Len(ongoing_transfers)
           O(k) == Off(n, ongoing_transfers[k].last_desc)
<1>1. m \in Nat /\ i \in 1 .. m /\ m \in 1 .. m
  BY LenProperties DEF IndInv, TypeOK, TransfersOK
<1>2. /\ \A j, k \in 1 .. m : j < k => O(j) < O(k)
      /\ O(m) + 1 = Off(n, num_avail)
  BY AttachedFacts, ListsAssumption DEF IndInv, TransfersInOrder
<1>3. /\ n \in Nat \ {0} /\ num_proc \in 0 .. n - 1
      /\ \A k \in 1 .. m : ongoing_transfers[k].last_desc \in 0 .. n - 1
  BY AttachedFacts DEF Descs
<1> HIDE DEF n, m
<1>4. \A k \in 1 .. m : O(k) \in Nat
  BY <1>3, OffRange
<1> HIDE DEF O
<1>5. O(i) < Off(n, num_avail)
  BY <1>1, <1>2, <1>4
<1> QED
  BY <1>5 DEF n, O

(* The inductive invariant gives CompletionExact.                          *)
LEMMA CompletionExactFollows ==
  ASSUME IndInv PROVE CompletionExact
<1> SUFFICES ASSUME last_desc_list # NoList,
                    NEW i \in 1 .. Len(ongoing_transfers),
                    \A j \in 1 .. i - 1 : Complete(j)
             PROVE  Complete(i) <=>
                      ongoing_transfers[i].last_desc \notin posted[last_desc_list]
  BY DEF CompletionExact
<1> DEFINE n == DescCount[last_desc_list]
           d == ongoing_transfers[i].last_desc
<1>0. ongoing_transfers # <<>>
  BY EmptySeq DEF IndInv, TypeOK, TransfersOK
<1>1. Complete(i) <=> Off(n, d) < Off(n, HwNumProc)
  BY CompleteIff
<1>2. Off(n, d) < Off(n, num_avail)
  BY <1>0, LastBeforeAvail
<1>3. /\ d \in Descs(last_desc_list) /\ num_proc \in 0 .. n - 1 /\ n \in Nat \ {0}
      /\ HwNumProc \in 0 .. n - 1 /\ host_regs.list = last_desc_list
      /\ HwNumProc = host_regs.num_proc % n
  BY <1>0, AttachedFacts DEF Descs, HwNumProc
<1>4. posted[last_desc_list] =
        {x \in Descs(last_desc_list) : Off(n, HwNumProc) <= Off(n, x)
                                         /\ Off(n, x) < Off(n, num_avail)}
  BY <1>0, <1>3 DEF IndInv, DeviceInStep
<1>3a. d \in 0 .. n - 1
  BY <1>3 DEF Descs
<1> HIDE DEF n, d
<1>5. Off(n, d) \in Int /\ Off(n, HwNumProc) \in Int
  BY <1>3, <1>3a, OffRange
<1>6. d \in posted[last_desc_list] <=> Off(n, HwNumProc) <= Off(n, d)
  BY <1>2, <1>3, <1>4
<1> QED
  BY <1>1, <1>5, <1>6 DEF n, d

(* The loop of fill_channel_irq_data ends.                                 *)
LEMMA ReapedFacts ==
  ASSUME IndInv
  PROVE  /\ Reaped \in 0 .. Len(ongoing_transfers)
         /\ \A j \in 1 .. Reaped : Complete(j)
         /\ Reaped < Len(ongoing_transfers) => ~Complete(Reaped + 1)
<1> DEFINE m == Len(ongoing_transfers)
           T == {k \in 0 .. m : k = m \/ ~Complete(k + 1)}
           P(n) == /\ \A j \in 1 .. n : Complete(j)
                   /\ n < m => ~Complete(n + 1)
<1>1. m \in Nat
  BY LenProperties DEF IndInv, TypeOK, TransfersOK
<1>2. T \in SUBSET Nat /\ m \in T
  BY <1>1
<1>3. PICK n \in T : \A k \in T : n <= k
  <2> HIDE DEF T
  <2> QED
    BY <1>2, LeastNat
<1>4. n \in 0 .. m /\ (n < m => ~Complete(n + 1))
  BY <1>1, <1>3
<1>5. ASSUME NEW j \in 1 .. n PROVE Complete(j)
  <2>1. j - 1 \in 0 .. m /\ j - 1 < n /\ j - 1 # m
    BY <1>1, <1>4
  <2>2. j - 1 \notin T
    <3> HIDE DEF T, m
    <3> QED
      BY <1>1, <1>3, <1>4, <2>1
  <2>3. Complete((j - 1) + 1)
    BY <2>1, <2>2
  <2>4. (j - 1) + 1 = j
    BY <1>1, <1>4
  <2> QED
    BY <2>3, <2>4
<1>6. \E k \in 0 .. m : P(k)
  BY <1>4, <1>5
<1>7. Reaped = CHOOSE k \in 0 .. m : P(k)
  BY DEF Reaped
<1> HIDE DEF m, P
<1>8. Reaped \in 0 .. m /\ P(Reaped)
  BY <1>6, <1>7
<1> QED
  BY <1>8 DEF m, P

----------------------------------------------------------------------------
(* The steps. FullContract is the client's side of the bargain.            *)
FullContract == Contract = Clauses

(* What a reset writes is in range.                                        *)
LEMMA ZeroInRange ==
  /\ 0 \in 0 .. U16 - 1 /\ 0 \in 0 .. 255 /\ 0 \in Int
  /\ U16 \in {U16} \union {DescCount[l] : l \in Lists}
  /\ NoList \in Lists \union {NoList}
  /\ FALSE \in BOOLEAN
<1>1. 0 \in 0 .. U16 - 1 /\ 0 \in 0 .. 255
  BY SizesAssumption
<1> QED
  BY <1>1

LEMMA InitIndInv == Init => IndInv
<1> SUFFICES ASSUME Init PROVE IndInv
  OBVIOUS
<1>1. ScalarsOK
  BY ZeroInRange DEF Init, ScalarsOK
<1>2. TransfersOK
  BY EmptySeq, SizesAssumption DEF Init, TransfersOK
<1>3. DescsOK
  BY DEF Init, DescsOK, Statuses
<1>4. host_regs \in HostRegs
  BY SizesAssumption DEF Init, HostRegs
<1>5. NothingUnattached /\ TransfersInOrder /\ DeviceInStep
  BY DEF Init, NothingUnattached, TransfersInOrder, DeviceInStep
<1> QED
  BY <1>1, <1>2, <1>3, <1>4, <1>5 DEF IndInv, TypeOK

LEMMA EnableStep ==
  ASSUME IndInv, EnableChannel PROVE IndInv'
BY DEF EnableChannel, IndInv, TypeOK, ScalarsOK, TransfersOK, DescsOK,
       NothingUnattached, TransfersInOrder, DeviceInStep, Off

LEMMA DisableStep ==
  ASSUME IndInv, DisableChannel PROVE IndInv'
<1>1. ScalarsOK'
  BY ZeroInRange DEF DisableChannel, channel_state_init, IndInv, TypeOK, ScalarsOK
<1>2. TransfersOK'
  <2>1. <<>> \in Seq(Transfers) /\ Len(<<>>) < RingSize
    BY EmptySeq, SizesAssumption
  <2>2. ongoing_transfers' = <<>>
    BY DEF DisableChannel
  <2> QED
    BY <2>1, <2>2 DEF TransfersOK
<1>3. DescsOK'
  BY DEF DisableChannel, clear_dirty_descs, IndInv, TypeOK, ScalarsOK, DescsOK
<1>4. (host_regs \in HostRegs)' /\ ~host_regs'.session
  BY DEF DisableChannel, IndInv, TypeOK, HostRegs
<1>5. (NothingUnattached /\ TransfersInOrder /\ DeviceInStep)'
  BY <1>4 DEF DisableChannel, channel_state_init, NothingUnattached, TransfersInOrder, DeviceInStep
<1> QED
  BY <1>1, <1>2, <1>3, <1>4, <1>5 DEF IndInv, TypeOK

LEMMA HwStopStep ==
  ASSUME IndInv, HwStop PROVE IndInv'
<1>1. TypeOK'
  BY DEF HwStop, IndInv, TypeOK, ScalarsOK, TransfersOK, DescsOK, HostRegs
<1>2. (NothingUnattached /\ TransfersInOrder)'
  BY DEF HwStop, IndInv, NothingUnattached, TransfersInOrder, Off
<1>3. DeviceInStep'
  BY DEF HwStop, IndInv, TypeOK, HostRegs, DeviceInStep, Off
<1> QED
  BY <1>1, <1>2, <1>3 DEF IndInv

LEMMA HwStartStep ==
  ASSUME IndInv, NEW l \in Lists, HwStart(l) PROVE IndInv'
<1>1. TypeOK'
  <2>1. (ScalarsOK /\ TransfersOK)'
    BY DEF HwStart, IndInv, TypeOK, ScalarsOK, TransfersOK
  <2>2. DescsOK'
    BY DEF HwStart, IndInv, TypeOK, DescsOK
  <2>3. (host_regs \in HostRegs)'
    BY SizesAssumption DEF HwStart, HostRegs
  <2> QED
    BY <2>1, <2>2, <2>3 DEF TypeOK
<1>2. (NothingUnattached /\ TransfersInOrder)'
  BY DEF HwStart, IndInv, NothingUnattached, TransfersInOrder, Off
<1>3. DeviceInStep'
  <2> DEFINE n == DescCount[l]
  <2>1. n \in Nat \ {0} /\ 0 % n = 0
    BY ListsAssumption
  <2>2. /\ host_regs' = [active |-> TRUE, session |-> TRUE, list |-> l,
                         num_avail |-> 0, num_proc |-> 0]
        /\ num_avail' = 0 /\ num_proc' = 0 /\ ongoing_transfers' = <<>>
        /\ last_desc_list' \in {NoList, l} /\ posted'[l] = {}
    BY DEF HwStart, IndInv, TypeOK, DescsOK
  <2>3. Off(n, 0)' = 0
    BY <2>1, <2>2 DEF Off, Dist
  <2>4. {d \in Descs(l) : Off(n, 0)' <= Off(n, d)' /\ Off(n, d)' < Off(n, 0)'} = {}
    BY <2>1, <2>2, <2>3 DEF Off, Dist, Descs
  <2> QED
    BY <2>1, <2>2, <2>3, <2>4 DEF DeviceInStep
<1> QED
  BY <1>1, <1>2, <1>3 DEF IndInv

(* While a session runs, its list bounds the counters.                     *)
LEMMA SessionFacts ==
  ASSUME IndInv, host_regs.session, host_regs.active \/ ongoing_transfers # <<>>
  PROVE  LET l == host_regs.list
             n == DescCount[l]
         IN
         /\ l \in Lists /\ n \in Nat \ {0} /\ n <= U16
         /\ last_desc_list \in {NoList, l}
         /\ num_avail \in 0 .. n - 1 /\ num_proc \in 0 .. n - 1
         /\ host_regs.num_avail = num_avail
         /\ host_regs.num_proc \in Nat
         /\ host_regs.num_proc % n \in 0 .. n - 1
<1> DEFINE l == host_regs.list
           n == DescCount[l]
<1>1. l \in Lists /\ host_regs.num_proc \in Nat
  BY SizesAssumption DEF IndInv, TypeOK, HostRegs
<1>2. n \in Nat \ {0} /\ n <= U16
  BY <1>1, ListsAssumption
<1>3. last_desc_list \in {NoList, l} /\ host_regs.num_avail = num_avail
  BY DEF IndInv, DeviceInStep
<1>4. num_avail \in Nat /\ num_proc \in Nat
  BY SizesAssumption DEF IndInv, TypeOK, ScalarsOK
<1>5. CASE last_desc_list = NoList
  <2>1. num_avail = 0 /\ num_proc = 0
    BY <1>5 DEF IndInv, NothingUnattached
  <2> HIDE DEF n
  <2>2. num_avail \in 0 .. n - 1 /\ num_proc \in 0 .. n - 1
    BY <1>2, <2>1
  <2>3. host_regs.num_proc % n \in 0 .. n - 1
    BY <1>1, <1>2
  <2> QED
    BY <1>1, <1>2, <1>3, <2>2, <2>3 DEF n
<1>6. CASE last_desc_list # NoList
  <2>1. num_avail < n /\ num_proc < n
    BY <1>3, <1>6 DEF IndInv, TransfersInOrder
  <2> HIDE DEF n
  <2>2. num_avail \in 0 .. n - 1 /\ num_proc \in 0 .. n - 1
    BY <1>2, <1>4, <2>1
  <2>3. host_regs.num_proc % n \in 0 .. n - 1
    BY <1>1, <1>2
  <2> QED
    BY <1>1, <1>2, <1>3, <2>2, <2>3 DEF n
<1> QED
  BY <1>5, <1>6

(* The device's counter is 16 bits wide, at least as wide as the list.     *)
LEMMA CounterWrap ==
  ASSUME NEW n \in Nat \ {0}, NEW u \in Nat \ {0}, n <= u, NEW d \in 0 .. n - 1
  PROVE  (d + 1) % u \in 0 .. u - 1 /\ ((d + 1) % u) % n = (d + 1) % n
<1>1. CASE d + 1 < u
  BY <1>1
<1>2. CASE d + 1 = u
  <2>1. n = u
    BY <1>2
  <2>2. (d + 1) % u = 0 /\ (d + 1) % n = 0
    BY <1>2, <2>1
  <2> QED
    BY <2>2
<1> QED
  BY <1>1, <1>2

LEMMA HwProcessStep ==
  ASSUME IndInv, HwProcess PROVE IndInv'
<1> DEFINE l == host_regs.list
           n == DescCount[l]
           d == NextDesc
<1>1. /\ host_regs.active
      /\ d # host_regs.num_avail
      /\ posted' = [posted EXCEPT ![l] = @ \ {d}]
      /\ host_regs' = [host_regs EXCEPT !.num_proc = (d + 1) % U16]
      /\ UNCHANGED <<enabled, num_avail, num_proc, desc_count_mask, last_desc_list,
                     ongoing_transfers, dirty, ret, irq_data>>
  BY DEF HwProcess
<1>2. l \in Lists /\ host_regs.num_proc \in Nat /\ n \in Nat \ {0} /\ n <= U16
  BY SizesAssumption, ListsAssumption DEF IndInv, TypeOK, HostRegs
<1>3. d \in 0 .. n - 1 /\ d = host_regs.num_proc % n
  BY <1>2 DEF NextDesc
<1>4. U16 \in Nat \ {0}
  BY SizesAssumption
<1>5. (d + 1) % U16 \in 0 .. U16 - 1 /\ ((d + 1) % U16) % n = (d + 1) % n
  <2> HIDE DEF n, d
  <2> QED
    BY <1>2, <1>3, <1>4, CounterWrap
<1>6. host_regs' \in HostRegs
  BY <1>1, <1>5 DEF IndInv, TypeOK, HostRegs
<1>7. DescsOK'
  <2>1. status' \in [Lists -> [0 .. U16 - 1 -> Statuses]]
    <3>1. status \in [Lists -> [0 .. U16 - 1 -> Statuses]]
      BY DEF IndInv, TypeOK, DescsOK
    <3>2. UNCHANGED status \/ \E st \in Statuses : status' = [status EXCEPT ![l][d] = st]
      BY DEF HwProcess, Statuses
    <3>3. ASSUME NEW st \in Statuses, status' = [status EXCEPT ![l][d] = st]
          PROVE  status' \in [Lists -> [0 .. U16 - 1 -> Statuses]]
      <4> DEFINE f == [status[l] EXCEPT ![d] = st]
      <4>1. f \in [0 .. U16 - 1 -> Statuses]
        BY <1>2, <3>1, <3>3
      <4>2. status' = [status EXCEPT ![l] = f]
        BY <3>3
      <4> HIDE DEF f
      <4> QED
        BY <1>2, <3>1, <4>1, <4>2
    <3> QED
      BY <3>1, <3>2, <3>3
  <2>2. /\ posted' \in [Lists -> SUBSET Nat]
        /\ \A k \in Lists : posted'[k] \subseteq Descs(k)
    BY <1>1 DEF IndInv, TypeOK, DescsOK
  <2> QED
    BY <1>1, <2>1, <2>2 DEF IndInv, TypeOK, DescsOK
<1>8. (ScalarsOK /\ TransfersOK)'
  BY <1>1 DEF IndInv, TypeOK, ScalarsOK, TransfersOK
<1>9. (NothingUnattached /\ TransfersInOrder)'
  BY <1>1 DEF IndInv, NothingUnattached, TransfersInOrder, Off
<1>10. /\ host_regs'.active = host_regs.active /\ host_regs'.session = host_regs.session
       /\ host_regs'.list = l /\ host_regs'.num_avail = host_regs.num_avail
       /\ host_regs'.num_proc = (d + 1) % U16
  BY <1>1 DEF IndInv, TypeOK, HostRegs
<1>11. DeviceInStep'
  <2>1. /\ ongoing_transfers' # <<>> => host_regs'.session
        /\ host_regs'.active /\ last_desc_list' # NoList => host_regs'.session
    BY <1>1, <1>10 DEF IndInv, DeviceInStep
  <2>2. ASSUME host_regs.session
        PROVE  /\ last_desc_list \in {NoList, l}
               /\ host_regs.num_avail = num_avail
               /\ Off(n, (d + 1) % n) <= Off(n, num_avail)
               /\ posted'[l] = {x \in Descs(l) : Off(n, (d + 1) % n) <= Off(n, x)
                                                  /\ Off(n, x) < Off(n, num_avail)}
    <3>1. /\ num_avail \in 0 .. n - 1 /\ num_proc \in 0 .. n - 1
          /\ host_regs.num_avail = num_avail /\ last_desc_list \in {NoList, l}
      BY <1>1, <2>2, SessionFacts
    <3>2. /\ Off(n, d) <= Off(n, num_avail)
          /\ posted[l] = {x \in Descs(l) : Off(n, d) <= Off(n, x)
                                            /\ Off(n, x) < Off(n, num_avail)}
      BY <1>1, <1>3, <2>2 DEF IndInv, DeviceInStep
    <3>3. posted'[l] = posted[l] \ {d}
      BY <1>1, <1>2 DEF IndInv, TypeOK, DescsOK
    <3>4. Descs(l) = 0 .. n - 1 /\ d # num_avail
      BY <1>1, <3>1 DEF Descs
    <3> HIDE DEF n, d, l
    <3>5. Off(n, d) # Off(n, num_avail)
      BY <1>2, <1>3, <3>1, <3>4, DistInjective DEF Off
    <3>6. Off(n, d) \in Nat /\ Off(n, num_avail) \in Nat /\ Off(n, num_avail) < n
      BY <1>2, <1>3, <3>1, OffRange
    <3>7. Off(n, d) < n - 1
      BY <1>2, <3>2, <3>5, <3>6
    <3>8. Off(n, (d + 1) % n) = Off(n, d) + 1
      BY <1>2, <1>3, <3>1, <3>7, DistSucc DEF Off
    <3>9. ASSUME NEW x \in 0 .. n - 1
          PROVE  (Off(n, d) <= Off(n, x) /\ x # d) <=> Off(n, (d + 1) % n) <= Off(n, x)
      <4>1. Off(n, x) \in Nat
        BY <1>2, <3>1, OffRange
      <4>2. Off(n, d) = Off(n, x) <=> d = x
        BY <1>2, <1>3, <3>1, DistInjective DEF Off
      <4> QED
        BY <3>6, <3>8, <4>1, <4>2
    <3>10. Off(n, (d + 1) % n) <= Off(n, num_avail)
      BY <3>2, <3>5, <3>6, <3>8
    <3>11. posted'[l] = {x \in Descs(l) : Off(n, (d + 1) % n) <= Off(n, x)
                                          /\ Off(n, x) < Off(n, num_avail)}
      BY <3>2, <3>3, <3>4, <3>9
    <3> QED
      BY <3>1, <3>10, <3>11
  <2>3. host_regs'.num_proc % n = (d + 1) % n
    BY <1>5, <1>10
  <2> HIDE DEF d
  <2> QED
    BY <1>1, <1>10, <2>1, <2>2, <2>3 DEF DeviceInStep, Off
<1> QED
  BY <1>6, <1>7, <1>8, <1>9, <1>11 DEF IndInv, TypeOK

(* A window seen from a point further on, but not past its begin.          *)
LEMMA WindowShift ==
  ASSUME NEW n \in Nat \ {0}, NEW a \in 0 .. n - 1, NEW p \in 0 .. n - 1,
         NEW h \in 0 .. n - 1, NEW v \in 0 .. n - 1,
         Dist(n, a, p) <= Dist(n, a, h), Dist(n, a, h) <= Dist(n, a, v)
  PROVE  /\ Dist(n, p, h) <= Dist(n, p, v)
         /\ \A x \in 0 .. n - 1 :
              (Dist(n, a, h) <= Dist(n, a, x) /\ Dist(n, a, x) < Dist(n, a, v)) <=>
              (Dist(n, p, h) <= Dist(n, p, x) /\ Dist(n, p, x) < Dist(n, p, v))
BY DEF Dist

(* fill_channel_irq_data: the transfers left tile the list from the new    *)
(* num_proc on, which lies behind the device or where the device is.       *)
LEMMA FillStep ==
  ASSUME IndInv, FillChannelIrqData PROVE IndInv'
<1> DEFINE l == last_desc_list
           n == DescCount[l]
           q == ongoing_transfers
           m == Len(q)
           r == Reaped
           last(k) == q[k].last_desc
<1>1. /\ l # NoList
      /\ ongoing_transfers' = SubSeq(q, r + 1, m)
      /\ num_proc' = IF r = 0 THEN num_proc ELSE (last(r) + 1) % desc_count_mask
      /\ dirty' = [dirty EXCEPT ![l] = @ \ DirtyOf(SubSeq(q, 1, r))]
      /\ irq_data' \in {NOT_ACTIVE, WITH_ERROR, r}
      /\ UNCHANGED <<enabled, num_avail, desc_count_mask, last_desc_list, status, ret,
                     host_regs, posted>>
  BY DEF FillChannelIrqData, clear_dirty_descs
<1>2. /\ q \in Seq(Transfers) /\ m \in Nat /\ r \in 0 .. m
      /\ \A j \in 1 .. r : Complete(j)
  BY ReapedFacts, LenProperties DEF IndInv, TypeOK, TransfersOK
<1>3. l \in Lists /\ n \in Nat \ {0} /\ n <= U16 /\ desc_count_mask = n
  BY <1>1, ListsAssumption DEF IndInv, TypeOK, ScalarsOK, TransfersInOrder
<1>4. DescsOK'
  BY <1>1 DEF IndInv, TypeOK, DescsOK
<1>5. TransfersOK' /\ Len(ongoing_transfers') = m - r
      /\ \A k \in 1 .. m - r : ongoing_transfers'[k] = q[k + r]
  <2>1. r + 1 \in 1 .. m + 1 /\ r + 1 \in Int /\ m \in Int
    BY <1>2
  <2>2. /\ SubSeq(q, r + 1, m) \in Seq(Transfers)
        /\ Len(SubSeq(q, r + 1, m)) = m - r
        /\ \A k \in 1 .. m - r : SubSeq(q, r + 1, m)[k] = q[k + r]
    <3> HIDE DEF q, r, m
    <3>1. \A k \in r + 1 .. m : q[k] \in Transfers
      BY <1>2, ElementOfSeq DEF m
    <3>2. SubSeq(q, r + 1, m) = [k \in 1 .. m - r |-> q[k + r]]
      BY <1>2, <2>1 DEF m
    <3>3. SubSeq(q, r + 1, m) \in Seq(Transfers)
      BY <1>2, <2>1, <3>1, <3>2
    <3>4. Len(SubSeq(q, r + 1, m)) = m - r
      BY <1>2, <2>1, <3>2
    <3> QED
      BY <3>2, <3>3, <3>4
  <2>3. m - r < RingSize
    BY <1>2, SizesAssumption DEF IndInv, TypeOK, TransfersOK
  <2> QED
    BY <1>1, <2>2, <2>3 DEF TransfersOK
<1>6. (host_regs \in HostRegs)'
  BY <1>1 DEF IndInv, TypeOK
<1>7. irq_data' \in 0 .. 255
  <2>1. r \in 0 .. 255
    BY <1>2, SizesAssumption DEF IndInv, TypeOK, TransfersOK
  <2> QED
    BY <1>1, <2>1 DEF NOT_ACTIVE, WITH_ERROR
<1>8. NothingUnattached'
  BY <1>1 DEF NothingUnattached
<1>9. CASE r = 0
  <2>1. num_proc' = num_proc
    BY <1>1, <1>9
  <2>2. ongoing_transfers' = q
    BY <1>1, <1>2, <1>9, SubSeqFull
  <2>3. ScalarsOK'
    BY <1>1, <1>7, <2>1 DEF IndInv, TypeOK, ScalarsOK
  <2> HIDE DEF q
  <2>4. (TransfersInOrder /\ DeviceInStep)'
    BY <1>1, <2>1, <2>2 DEF IndInv, TransfersInOrder, DeviceInStep, Off, q
  <2> QED
    BY <1>4, <1>5, <1>6, <1>8, <2>3, <2>4 DEF IndInv, TypeOK
<1>10. CASE r # 0
  <2> DEFINE p == (last(r) + 1) % n
             h == host_regs.num_proc % n
  <2>1. r \in 1 .. m /\ m \in 1 .. m /\ q # <<>>
    BY <1>2, <1>10, EmptySeq
  <2>2. /\ num_avail \in 0 .. n - 1 /\ num_proc \in 0 .. n - 1
        /\ HwNumProc = h /\ h \in 0 .. n - 1 /\ host_regs.list = l
        /\ \A k \in 1 .. m : last(k) \in 0 .. n - 1
    BY <2>1, AttachedFacts DEF Descs, HwNumProc
  <2>3. Off(n, last(r)) < Off(n, h)
    <3>1. Complete(r) /\ \A j \in 1 .. r - 1 : Complete(j)
      BY <1>2, <2>1
    <3> QED
      BY <2>1, <2>2, <3>1, CompleteIff
  <2>4. /\ \A j, k \in 1 .. m : j < k => Off(n, last(j)) < Off(n, last(k))
        /\ num_avail = (last(m) + 1) % n
        /\ Off(n, last(m)) + 1 = Off(n, num_avail)
    BY <1>1, <2>1 DEF IndInv, TransfersInOrder
  <2>5. /\ host_regs.session /\ host_regs.num_avail = num_avail
        /\ Off(n, h) <= Off(n, num_avail)
        /\ posted[l] = {x \in 0 .. n - 1 : Off(n, h) <= Off(n, x)
                                            /\ Off(n, x) < Off(n, num_avail)}
    BY <2>1, <2>2 DEF IndInv, DeviceInStep, Descs
  <2>6. num_proc' = p
    BY <1>1, <1>3, <1>10
  <2>7. last(r) \in 0 .. n - 1
    BY <2>1, <2>2
  <2>7a. Descs(l) = 0 .. n - 1
    BY DEF Descs
  <2> HIDE DEF l, n, q, m, r, last, h
  <2>8. Off(n, last(r)) \in Nat /\ Off(n, h) \in Nat /\ Off(n, num_avail) \in Nat
        /\ Off(n, num_avail) < n
    BY <1>3, <2>2, <2>7, OffRange
  <2>9. p \in 0 .. n - 1 /\ Off(n, p) = Off(n, last(r)) + 1
    <3>1. Off(n, last(r)) < n - 1
      BY <1>3, <2>3, <2>5, <2>8
    <3> QED
      BY <1>3, <2>2, <2>7, <3>1, DistSucc DEF Off
  <2> HIDE DEF p
  <2>10. Off(n, p) <= Off(n, h)
    BY <2>3, <2>8, <2>9
  <2>12. /\ Dist(n, p, h) <= Dist(n, p, num_avail)
         /\ \A x \in 0 .. n - 1 :
              (Off(n, h) <= Off(n, x) /\ Off(n, x) < Off(n, num_avail)) <=>
              (Dist(n, p, h) <= Dist(n, p, x) /\ Dist(n, p, x) < Dist(n, p, num_avail))
    BY <1>3, <2>2, <2>5, <2>9, <2>10, WindowShift DEF Off
  <2>13. DeviceInStep'
    <3>1. posted[l] = {x \in 0 .. n - 1 : Dist(n, p, h) <= Dist(n, p, x)
                                          /\ Dist(n, p, x) < Dist(n, p, num_avail)}
      BY <2>5, <2>12
    <3> QED
      BY <1>1, <2>2, <2>5, <2>6, <2>7a, <2>12, <3>1 DEF DeviceInStep, Off, l, n, h
  <2>14. ASSUME NEW k \in 1 .. m, r < k
         PROVE  Dist(n, p, last(k)) = Off(n, last(k)) - Off(n, p)
    <3>1. Off(n, last(r)) < Off(n, last(k)) /\ last(k) \in 0 .. n - 1
      BY <2>1, <2>2, <2>4, <2>14
    <3>2. Off(n, last(k)) \in Nat
      BY <1>3, <2>2, <3>1, OffRange
    <3>3. Off(n, p) <= Off(n, last(k))
      BY <2>8, <2>9, <3>1, <3>2
    <3> QED
      BY <1>3, <2>2, <2>9, <3>1, <3>3, DistShift DEF Off
  <2>15. TransfersInOrder'
    <3>1. num_avail < n /\ p < n
      BY <1>3, <2>2, <2>9
    <3>2. \A k \in 1 .. m - r : k + r \in 1 .. m /\ r < k + r
      BY <1>2, <2>1
    <3>3. \A k \in 1 .. m - r : ongoing_transfers'[k].last_desc = last(k + r)
      BY <1>5 DEF last, m, r, q
    <3>4. \A k \in 1 .. m - r : last(k + r) < n
      BY <1>3, <2>2, <3>2
    <3>5. \A j, k \in 1 .. m - r : j < k => Dist(n, p, last(j + r)) < Dist(n, p, last(k + r))
      <4> SUFFICES ASSUME NEW j \in 1 .. m - r, NEW k \in 1 .. m - r, j < k
                   PROVE  Dist(n, p, last(j + r)) < Dist(n, p, last(k + r))
        OBVIOUS
      <4>1. j + r \in 1 .. m /\ k + r \in 1 .. m /\ r < j + r /\ r < k + r /\ j + r < k + r
        BY <1>2, <3>2
      <4>2. Off(n, last(j + r)) < Off(n, last(k + r))
        BY <2>4, <4>1
      <4>3. Off(n, last(j + r)) \in Nat /\ Off(n, last(k + r)) \in Nat /\ Off(n, p) \in Nat
        BY <1>3, <2>2, <2>9, <4>1, OffRange
      <4>4. /\ Dist(n, p, last(j + r)) = Off(n, last(j + r)) - Off(n, p)
            /\ Dist(n, p, last(k + r)) = Off(n, last(k + r)) - Off(n, p)
        BY <2>14, <4>1
      <4> QED
        BY <4>2, <4>3, <4>4
    <3>6. ongoing_transfers' = <<>> => num_avail = p
      <4> SUFFICES ASSUME ongoing_transfers' = <<>> PROVE num_avail = p
        OBVIOUS
      <4>1. Len(ongoing_transfers') = 0
        BY EmptySeq
      <4>2. m = r
        BY <1>2, <1>5, <4>1 DEF m, r, q
      <4> QED
        BY <2>4, <4>2 DEF p
    <3>7. ongoing_transfers' # <<>> =>
            LET e == ongoing_transfers'[Len(ongoing_transfers')].last_desc IN
            num_avail = (e + 1) % n /\ Dist(n, p, e) + 1 = Dist(n, p, num_avail)
      <4> SUFFICES ASSUME ongoing_transfers' # <<>>
                   PROVE  LET e == ongoing_transfers'[Len(ongoing_transfers')].last_desc IN
                          num_avail = (e + 1) % n
                            /\ Dist(n, p, e) + 1 = Dist(n, p, num_avail)
        OBVIOUS
      <4>1. Len(ongoing_transfers') = m - r /\ m - r \in 1 .. m - r
        <5>1. Len(ongoing_transfers') = m - r /\ ongoing_transfers' \in Seq(Transfers)
          BY <1>5 DEF TransfersOK, m, r, q
        <5>2. m - r # 0
          BY <5>1, EmptySeq
        <5> QED
          BY <1>2, <5>1, <5>2 DEF m, r, q
      <4>2. ongoing_transfers'[m - r].last_desc = last((m - r) + r) /\ (m - r) + r = m
        BY <1>2, <3>3, <4>1
      <4>3. r < m
        BY <1>2, <4>1
      <4>4. Dist(n, p, last(m)) = Off(n, last(m)) - Off(n, p)
        BY <2>1, <2>14, <4>3
      <4>5. last(m) \in 0 .. n - 1 /\ Off(n, last(m)) \in Nat /\ Off(n, p) \in Nat
        BY <1>3, <2>1, <2>2, <2>9, OffRange
      <4>6. Dist(n, p, num_avail) = Off(n, num_avail) - Off(n, p)
        <5>1. Off(n, p) <= Off(n, num_avail)
          BY <2>5, <2>8, <2>10, <4>5
        <5> QED
          BY <1>3, <2>2, <2>9, <5>1, DistShift DEF Off
      <4>7. Dist(n, p, last(m)) + 1 = Dist(n, p, num_avail)
        BY <2>4, <2>8, <4>4, <4>5, <4>6
      <4> QED
        BY <2>4, <4>1, <4>2, <4>7
    <3>8. Len(ongoing_transfers') = m - r
      BY <1>5 DEF m, r, q
    <3> QED
      BY <1>1, <1>3, <2>6, <3>1, <3>3, <3>4, <3>5, <3>6, <3>7, <3>8, ZenonT(40)
      DEF TransfersInOrder, Off, l, n
  <2>16. ScalarsOK'
    <3>1. p \in 0 .. U16 - 1
      BY <1>3, <2>9, SizesAssumption
    <3> QED
      BY <1>1, <1>7, <2>6, <3>1 DEF IndInv, TypeOK, ScalarsOK
  <2> QED
    BY <1>4, <1>5, <1>6, <1>8, <2>13, <2>15, <2>16 DEF IndInv, TypeOK
<1> QED
  BY <1>9, <1>10

(* A rejected launch: the mask it overwrote has the same value, and a list *)
(* it attached is the one the device was started on.                       *)
LEMMA LaunchRejectedStep ==
  ASSUME IndInv, FullContract, NEW l \in Lists, NEW s \in Descs(l),
         NEW buffers, NEW bind,
         ClientKeeps(l, s, buffers, bind), LaunchRejected(l, s, buffers)
  PROVE  IndInv'
<1>1. /\ desc_count_mask' = DescCount[l]
      /\ last_desc_list' = IF last_desc_list = NoList THEN l ELSE last_desc_list
      /\ UNCHANGED <<enabled, num_avail, num_proc, ongoing_transfers, dirty, status,
                     irq_data, host_regs, posted>>
  BY DEF LaunchRejected, AttachList
<1>2. ret' \in Int
  BY DEF LaunchRejected, LaunchCheck, validate_channel_state, EINVAL, EFAULT,
         ECONNRESET, ENONE
<1>3. /\ last_desc_list # NoList => DescCount[l] = DescCount[last_desc_list]
      /\ host_regs.active /\ last_desc_list = NoList =>
           host_regs.session /\ l = host_regs.list
  BY DEF FullContract, Clauses, ClientKeeps
<1>4. TypeOK'
  <2>1. ScalarsOK'
    BY <1>1, <1>2 DEF IndInv, TypeOK, ScalarsOK
  <2> QED
    BY <1>1, <2>1 DEF IndInv, TypeOK, TransfersOK, DescsOK
<1>5. l # NoList /\ DescCount[l] \in Nat \ {0}
  BY ListsAssumption
<1>6. (NothingUnattached /\ TransfersInOrder /\ DeviceInStep)'
  <2>1. CASE last_desc_list = NoList
    <3>1. /\ ongoing_transfers = <<>> /\ num_avail = 0 /\ num_proc = 0
          /\ last_desc_list' = l
      BY <1>1, <2>1 DEF IndInv, NothingUnattached
    <3>2. NothingUnattached'
      BY <1>5, <3>1 DEF NothingUnattached
    <3>3. TransfersInOrder'
      <4>1. 0 < DescCount[l] /\ Len(<<>>) = 0
        BY <1>5, EmptySeq
      <4> QED
        BY <1>1, <3>1, <4>1 DEF TransfersInOrder
    <3>4. DeviceInStep'
      BY <1>1, <1>3, <2>1, <3>1 DEF IndInv, DeviceInStep, Off
    <3> QED
      BY <3>2, <3>3, <3>4
  <2>2. CASE last_desc_list # NoList
    <3>1. last_desc_list' = last_desc_list
      BY <1>1, <2>2
    <3>2. NothingUnattached'
      BY <2>2, <3>1 DEF NothingUnattached
    <3>3. TransfersInOrder'
      BY <1>1, <1>3, <2>2, <3>1 DEF IndInv, TransfersInOrder, Off
    <3>4. DeviceInStep'
      BY <1>1, <3>1 DEF IndInv, DeviceInStep, Off
    <3> QED
      BY <3>2, <3>3, <3>4
  <2> QED
    BY <2>1, <2>2
<1> QED
  BY <1>4, <1>6 DEF IndInv

(* A window extended at its end by k descriptors, short of a full turn.    *)
LEMMA WindowGrow ==
  ASSUME NEW n \in Nat \ {0}, NEW a \in 0 .. n - 1, NEW h \in 0 .. n - 1,
         NEW v \in 0 .. n - 1, NEW k \in Nat, Dist(n, a, v) + k < n,
         Dist(n, a, h) <= Dist(n, a, v)
  PROVE  {x \in 0 .. n - 1 : Dist(n, a, h) <= Dist(n, a, x) /\ Dist(n, a, x) < Dist(n, a, v)}
           \union Arc(n, v, k) =
         {x \in 0 .. n - 1 : Dist(n, a, h) <= Dist(n, a, x)
                               /\ Dist(n, a, x) < Dist(n, a, v) + k}
<1>1. ASSUME NEW x \in 0 .. n - 1
      PROVE  (Dist(n, a, h) <= Dist(n, a, x) /\ Dist(n, a, x) < Dist(n, a, v))
                \/ Dist(n, v, x) < k <=>
             Dist(n, a, h) <= Dist(n, a, x) /\ Dist(n, a, x) < Dist(n, a, v) + k
  BY DEF Dist
<1> QED
  BY <1>1 DEF Arc

(* What a launch computes from the client's buffers, within the contract.  *)
LEMMA LaunchFacts ==
  ASSUME FullContract, NEW l \in Lists, NEW s \in Descs(l), NEW buffers, NEW bind,
         InFlight(l) \in Nat, ClientKeeps(l, s, buffers, bind)
  PROVE  LET T == TotalDescs(l, buffers, bind)
             n == DescCount[l]
         IN
         /\ T \in Nat \ {0} /\ T + InFlight(l) < n
         /\ LastDesc(l, s, buffers, bind) = (s + (T - 1)) % n
         /\ NewNumAvail(l, s, buffers, bind) = (LastDesc(l, s, buffers, bind) + 1) % n
         /\ DirtyDescs(l, s, buffers, bind) \subseteq Descs(l)
         /\ LaunchedDescs(l, s, buffers, bind) = Arc(n, s, T)
<1> DEFINE T == TotalDescs(l, buffers, bind)
           n == DescCount[l]
           total == Programmed(l, buffers, bind)
<1>1. n \in Nat \ {0} /\ s \in 0 .. n - 1 /\ s \in Int
  BY ListsAssumption DEF Descs
<1>2. /\ buffers # <<>>
      /\ \A i \in 1 .. Len(buffers) : total[i] \in total[i - 1] + 1 .. total[Len(buffers)]
      /\ T \in 1 .. n - 1 - InFlight(l)
  BY DEF FullContract, Clauses, ClientKeeps
<1>3. \A i \in 1 .. Len(buffers) : total[i] \in Int
  <2> HIDE DEF total
  <2> QED
    BY <1>2
<1>4. T \in Nat \ {0} /\ T + InFlight(l) < n
  <2> HIDE DEF T, n
  <2> QED
    BY <1>1, <1>2
<1>5. LastDesc(l, s, buffers, bind) = (s + (T - 1)) % n
  <2>1. LastDesc(l, s, buffers, bind) = (s + T - 1) % n
    BY <1>2 DEF LastDesc
  <2> HIDE DEF T, n
  <2>2. s + T - 1 = s + (T - 1)
    BY <1>1, <1>4
  <2> QED
    BY <2>1, <2>2
<1>6. NewNumAvail(l, s, buffers, bind) = (LastDesc(l, s, buffers, bind) + 1) % n
  BY <1>2 DEF NewNumAvail
<1>7. DirtyDescs(l, s, buffers, bind) \subseteq Descs(l)
  <2>1. DirtyDescs(l, s, buffers, bind) =
          {s} \union {(s + total[i] - 1) % n : i \in 1 .. Len(buffers)}
    BY DEF DirtyDescs
  <2> HIDE DEF total, n
  <2>2. \A i \in 1 .. Len(buffers) : (s + total[i] - 1) % n \in 0 .. n - 1
    <3> TAKE i \in 1 .. Len(buffers)
    <3>1. s + total[i] - 1 \in Int
      BY <1>1, <1>3
    <3> QED
      BY <1>1, <3>1, ModRange
  <2>3. Descs(l) = 0 .. n - 1
    BY DEF Descs, n
  <2> QED
    BY <1>1, <2>1, <2>2, <2>3
<1>8. LaunchedDescs(l, s, buffers, bind) = Arc(n, s, T)
  BY DEF LaunchedDescs
<1> QED
  BY <1>4, <1>5, <1>6, <1>7, <1>8

(* The state in which a launch passes the checks.                          *)
LEMMA AcceptFacts ==
  ASSUME IndInv, FullContract, NEW l \in Lists, NEW s \in Descs(l),
         NEW buffers, NEW bind,
         ClientKeeps(l, s, buffers, bind), LaunchCheck(l, s, buffers) = ENONE
  PROVE  LET n == DescCount[l] IN
         /\ n \in Nat \ {0} /\ n <= U16 /\ Descs(l) = 0 .. n - 1
         /\ last_desc_list \in {NoList, l} /\ l # NoList
         /\ host_regs.active /\ host_regs.session /\ host_regs.list = l
         /\ num_avail = s
         /\ num_avail \in 0 .. n - 1 /\ num_proc \in 0 .. n - 1
         /\ host_regs.num_proc % n \in 0 .. n - 1
         /\ InFlight(l) = Off(n, num_avail) /\ InFlight(l) \in Nat
         /\ Len(ongoing_transfers) < RingSize - 1
<1>1. /\ last_desc_list \in {NoList, l} /\ host_regs.active /\ num_avail = s
  BY DEF LaunchCheck, validate_channel_state, ENONE, EINVAL, EFAULT, ECONNRESET
<1>2. l # NoList
  BY ListsAssumption
<1>3. host_regs.session /\ (last_desc_list = NoList => host_regs.list = l)
  BY <1>1 DEF FullContract, Clauses, ClientKeeps, IndInv, DeviceInStep
<1>4. host_regs.list = l
  BY <1>1, <1>2, <1>3 DEF IndInv, DeviceInStep
<1>5. LET n == DescCount[l] IN
      /\ n \in Nat \ {0} /\ n <= U16
      /\ num_avail \in 0 .. n - 1 /\ num_proc \in 0 .. n - 1
      /\ host_regs.num_proc % n \in 0 .. n - 1
  BY <1>1, <1>3, <1>4, SessionFacts
<1>6. Len(ongoing_transfers) < RingSize - 1
  BY DEF FullContract, Clauses, ClientKeeps
<1>7. InFlight(l) = Off(DescCount[l], num_avail)
  BY DEF InFlight, Off
<1>8. Off(DescCount[l], num_avail) \in Nat
  BY <1>5, OffRange
<1> QED
  BY <1>1, <1>2, <1>3, <1>4, <1>5, <1>6, <1>7, <1>8 DEF Descs

(* hailo_vdma_launch_transfer succeeds: one more transfer, right behind    *)
(* the last, and that many more descriptors for the device.                *)
LEMMA LaunchAcceptedStep ==
  ASSUME IndInv, FullContract, NEW l \in Lists, NEW s \in Descs(l),
         NEW buffers, NEW bind, NEW dbg \in BOOLEAN,
         ClientKeeps(l, s, buffers, bind), LaunchAccepted(l, s, buffers, bind, dbg)
  PROVE  IndInv'
<1> DEFINE n == DescCount[l]
           q == ongoing_transfers
           m == Len(q)
           T == TotalDescs(l, buffers, bind)
           e == LastDesc(l, s, buffers, bind)
           v == NewNumAvail(l, s, buffers, bind)
           h == host_regs.num_proc % n
           t == NewTransfer(l, s, buffers, bind, dbg)
           bound == IF bind THEN LaunchedDescs(l, s, buffers, bind) ELSE {}
<1>1. /\ LaunchCheck(l, s, buffers) = ENONE
      /\ desc_count_mask' = n
      /\ last_desc_list' = IF last_desc_list = NoList THEN l ELSE last_desc_list
      /\ dirty' = [dirty EXCEPT ![l] = (@ \ bound) \union DirtyDescs(l, s, buffers, bind)]
      /\ ongoing_transfers' = Append(q, t)
      /\ num_avail' = v
      /\ host_regs' = [host_regs EXCEPT !.num_avail = v]
      /\ posted' = [posted EXCEPT ![l] = @ \union LaunchedDescs(l, s, buffers, bind)]
      /\ ret' = T
      /\ UNCHANGED <<enabled, num_proc, irq_data>>
  BY DEF LaunchAccepted, AttachList, ProgramTransfer, SetNumAvail
<1>2. /\ n \in Nat \ {0} /\ n <= U16 /\ Descs(l) = 0 .. n - 1
      /\ last_desc_list \in {NoList, l} /\ l # NoList
      /\ host_regs.active /\ host_regs.session /\ host_regs.list = l
      /\ num_avail = s
      /\ num_avail \in 0 .. n - 1 /\ num_proc \in 0 .. n - 1
      /\ h \in 0 .. n - 1
      /\ InFlight(l) = Off(n, num_avail) /\ InFlight(l) \in Nat
      /\ m < RingSize - 1
  BY <1>1, AcceptFacts
<1>3. /\ T \in Nat \ {0} /\ T + Off(n, num_avail) < n
      /\ e = (s + (T - 1)) % n
      /\ v = (e + 1) % n
      /\ DirtyDescs(l, s, buffers, bind) \subseteq Descs(l)
      /\ LaunchedDescs(l, s, buffers, bind) = Arc(n, s, T)
  <2>1. InFlight(l) \in Nat
    BY <1>2
  <2>2. /\ T \in Nat \ {0} /\ T + InFlight(l) < n
        /\ e = (s + (T - 1)) % n
        /\ v = (e + 1) % n
        /\ DirtyDescs(l, s, buffers, bind) \subseteq Descs(l)
        /\ LaunchedDescs(l, s, buffers, bind) = Arc(n, s, T)
    BY <2>1, LaunchFacts
  <2> HIDE DEF n, T, e, v
  <2> QED
    BY <1>2, <2>2
<1>4. t.last_desc = e /\ t.first = s /\ t.is_debug = dbg
  BY DEF NewTransfer
<1>5. Off(n, num_avail) \in Nat
  BY <1>2
<1>6. e \in 0 .. n - 1 /\ Off(n, e) = Off(n, num_avail) + (T - 1)
  <2> HIDE DEF n, T, e
  <2>1. T - 1 \in Nat /\ Off(n, num_avail) + (T - 1) < n
    BY <1>2, <1>3, <1>5
  <2> QED
    BY <1>2, <1>3, <2>1, DistPlus DEF Off
<1>7. v \in 0 .. n - 1 /\ Off(n, v) = Off(n, num_avail) + T
  <2> HIDE DEF n, T, e, v
  <2>1. Off(n, e) \in Nat /\ Off(n, e) < n - 1
    BY <1>2, <1>3, <1>5, <1>6
  <2>2. v \in 0 .. n - 1 /\ Off(n, v) = Off(n, e) + 1
    BY <1>2, <1>3, <1>6, <2>1, DistSucc DEF Off
  <2> QED
    BY <1>3, <1>5, <1>6, <2>2
<1>8. last_desc_list' = l
  BY <1>1, <1>2
<1>9. q \in Seq(Transfers) /\ m \in Nat
  BY LenProperties DEF IndInv, TypeOK, TransfersOK
<1>10. t \in Transfers
  <2>1. s \in Nat /\ e \in Nat
    <3> HIDE DEF e, n
    <3> QED
      BY <1>2, <1>6
  <2>2. DirtyDescs(l, s, buffers, bind) \in SUBSET Nat
    <3> HIDE DEF n
    <3> QED
      BY <1>2, <1>3
  <2> HIDE DEF e
  <2>3. t = [first |-> s, last_desc |-> e,
             dirty_descs |-> DirtyDescs(l, s, buffers, bind), is_debug |-> dbg]
    BY DEF NewTransfer, e
  <2> QED
    BY <2>1, <2>2, <2>3 DEF Transfers
<1>11. /\ ongoing_transfers' \in Seq(Transfers)
       /\ Len(ongoing_transfers') = m + 1
       /\ \A i \in 1 .. m : ongoing_transfers'[i] = q[i]
       /\ ongoing_transfers'[m + 1] = t
  <2> HIDE DEF t
  <2> QED
    BY <1>1, <1>9, <1>10, AppendProperties
<1>12. TypeOK'
  <2>1. ScalarsOK'
    <3>1. v \in 0 .. U16 - 1 /\ T \in Int
      <4> HIDE DEF v, T, n
      <4> QED
        BY <1>2, <1>3, <1>7, SizesAssumption
    <3> HIDE DEF v, T
    <3> QED
      BY <1>1, <1>8, <3>1 DEF IndInv, TypeOK, ScalarsOK
  <2>2. TransfersOK'
    <3>1. m + 1 < RingSize
      BY <1>2, <1>9, SizesAssumption
    <3> QED
      BY <1>11, <3>1 DEF TransfersOK
  <2>3. DescsOK'
    <3>1. /\ dirty' \in [Lists -> SUBSET Nat]
          /\ \A k \in Lists : dirty'[k] \subseteq Descs(k)
      <4>1. DirtyDescs(l, s, buffers, bind) \in SUBSET Nat
        BY <1>2, <1>3
      <4> HIDE DEF bound
      <4> QED
        BY <1>1, <1>3, <4>1 DEF IndInv, TypeOK, DescsOK
    <3>2. /\ posted' \in [Lists -> SUBSET Nat]
          /\ \A k \in Lists : posted'[k] \subseteq Descs(k)
      <4>1. Arc(n, s, T) \subseteq Descs(l) /\ Arc(n, s, T) \in SUBSET Nat
        BY <1>2 DEF Arc
      <4> HIDE DEF n, T
      <4> QED
        BY <1>1, <1>3, <4>1 DEF IndInv, TypeOK, DescsOK
    <3>3. status' \in [Lists -> [0 .. U16 - 1 -> Statuses]]
      <4> DEFINE f == [d \in 0 .. U16 - 1 |->
                        IF bind /\ d \in LaunchedDescs(l, s, buffers, bind)
                        THEN "none" ELSE status[l][d]]
      <4>1. status \in [Lists -> [0 .. U16 - 1 -> Statuses]]
        BY DEF IndInv, TypeOK, DescsOK
      <4>2. f \in [0 .. U16 - 1 -> Statuses]
        BY <4>1 DEF Statuses
      <4>3. status' = [status EXCEPT ![l] = f]
        BY DEF LaunchAccepted, ProgramTransfer
      <4> HIDE DEF f
      <4> QED
        BY <4>1, <4>2, <4>3
    <3> QED
      BY <3>1, <3>2, <3>3 DEF DescsOK
  <2>4. host_regs' \in HostRegs
    <3>1. v \in 0 .. U16 - 1
      <4> HIDE DEF v, n
      <4> QED
        BY <1>2, <1>7, SizesAssumption
    <3> HIDE DEF v
    <3> QED
      BY <1>1, <3>1 DEF IndInv, TypeOK, HostRegs
  <2> QED
    BY <2>1, <2>2, <2>3, <2>4 DEF TypeOK
<1>13. NothingUnattached'
  BY <1>2, <1>8 DEF NothingUnattached
<1>14. \A i \in 1 .. m : /\ q[i].last_desc \in 0 .. n - 1
                         /\ Off(n, q[i].last_desc) \in Nat
                         /\ Off(n, q[i].last_desc) < Off(n, num_avail)
  <2> SUFFICES ASSUME NEW i \in 1 .. m
               PROVE  /\ q[i].last_desc \in 0 .. n - 1
                      /\ Off(n, q[i].last_desc) \in Nat
                      /\ Off(n, q[i].last_desc) < Off(n, num_avail)
    OBVIOUS
  <2>1. q # <<>>
    BY <1>9, EmptySeq
  <2>2. last_desc_list = l
    BY <1>2, <2>1 DEF IndInv, NothingUnattached
  <2>3. q[i].last_desc \in 0 .. n - 1
    BY <1>2, <2>1, <2>2, AttachedFacts
  <2>4. Off(n, q[i].last_desc) < Off(n, num_avail)
    BY <2>1, <2>2, LastBeforeAvail
  <2> QED
    BY <1>2, <2>3, <2>4, OffRange
<1>15. TransfersInOrder'
  <2>1. \A i, j \in 1 .. m : i < j => Off(n, q[i].last_desc) < Off(n, q[j].last_desc)
    <3>1. CASE last_desc_list = l
      BY <1>2, <3>1 DEF IndInv, TransfersInOrder
    <3>2. CASE last_desc_list = NoList
      <4>1. m = 0
        BY <3>2, EmptySeq DEF IndInv, NothingUnattached
      <4> QED
        BY <4>1
    <3> QED
      BY <1>2, <3>1, <3>2
  <2>2. \A i \in 1 .. m + 1 : i = m + 1 \/ i \in 1 .. m
    BY <1>9
  <2> DEFINE w(i) == ongoing_transfers'[i].last_desc
  <2>3. w(m + 1) = e /\ \A i \in 1 .. m : w(i) = q[i].last_desc
    BY <1>4, <1>11
  <2> HIDE DEF n, q, m, T, e, v, t, w
  <2>4. \A i \in 1 .. m + 1 : w(i) < n
    BY <1>2, <1>6, <1>14, <2>2, <2>3
  <2>5. \A i, j \in 1 .. m + 1 : i < j => Off(n, w(i)) < Off(n, w(j))
    <3> SUFFICES ASSUME NEW i \in 1 .. m + 1, NEW j \in 1 .. m + 1, i < j
                 PROVE  Off(n, w(i)) < Off(n, w(j))
      OBVIOUS
    <3>1. i \in 1 .. m
      BY <1>9
    <3>2. CASE j \in 1 .. m
      BY <2>1, <2>3, <3>1, <3>2
    <3>3. CASE j = m + 1
      <4>1. Off(n, w(i)) \in Nat /\ Off(n, w(i)) < Off(n, num_avail)
        BY <1>14, <2>3, <3>1
      <4>2. Off(n, w(j)) = Off(n, num_avail) + (T - 1)
        BY <1>6, <2>3, <3>3
      <4> QED
        BY <1>3, <1>5, <4>1, <4>2
    <3> QED
      BY <2>2, <3>2, <3>3
  <2>6. Off(n, e) + 1 = Off(n, v)
    BY <1>3, <1>5, <1>6, <1>7
  <2>7. v < n /\ num_proc < n
    BY <1>2, <1>7
  <2>8. ongoing_transfers' # <<>>
    BY <1>9, <1>11, EmptySeq DEF m, q
  <2>9. /\ desc_count_mask' = n /\ num_avail' = v /\ num_proc' = num_proc
        /\ last_desc_list' = l /\ Len(ongoing_transfers') = m + 1
        /\ v = (e + 1) % n
    BY <1>1, <1>3, <1>8, <1>11 DEF n, v, m, q, e
  <2> QED
    BY <2>3, <2>4, <2>5, <2>6, <2>7, <2>8, <2>9 DEF TransfersInOrder, Off, n, w
<1>16. DeviceInStep'
  <2>1. /\ Off(n, h) <= Off(n, num_avail)
        /\ posted[l] = {x \in 0 .. n - 1 : Off(n, h) <= Off(n, x)
                                            /\ Off(n, x) < Off(n, num_avail)}
    BY <1>2 DEF IndInv, DeviceInStep
  <2>2. posted'[l] = posted[l] \union Arc(n, s, T)
    BY <1>1, <1>3 DEF IndInv, TypeOK, DescsOK
  <2>3. /\ host_regs'.active /\ host_regs'.session /\ host_regs'.list = l
        /\ host_regs'.num_avail = v /\ host_regs'.num_proc = host_regs.num_proc
    BY <1>1, <1>2 DEF IndInv, TypeOK, HostRegs
  <2>4. h = host_regs'.num_proc % n
    BY <2>3
  <2> HIDE DEF n, T, v, h
  <2>5. posted'[l] = {x \in 0 .. n - 1 : Off(n, h) <= Off(n, x)
                                         /\ Off(n, x) < Off(n, v)}
    <3>1. Dist(n, num_proc, num_avail) + T < n /\ T \in Nat
      BY <1>3, <1>5 DEF Off
    <3>2. {x \in 0 .. n - 1 : Off(n, h) <= Off(n, x) /\ Off(n, x) < Off(n, num_avail)}
            \union Arc(n, num_avail, T) =
          {x \in 0 .. n - 1 : Off(n, h) <= Off(n, x) /\ Off(n, x) < Off(n, num_avail) + T}
      BY <1>2, <2>1, <3>1, WindowGrow DEF Off
    <3> QED
      BY <1>2, <1>7, <2>1, <2>2, <3>2
  <2>6. Off(n, h) <= Off(n, v)
    <3>1. Off(n, h) \in Nat
      BY <1>2, OffRange
    <3> QED
      BY <1>3, <1>5, <1>7, <2>1, <3>1
  <2>7. Descs(l) = 0 .. n - 1
    BY <1>2
  <2>8. num_avail' = v /\ num_proc' = num_proc /\ last_desc_list' = l
    BY <1>1, <1>8 DEF v
  <2> QED
    BY <2>3, <2>4, <2>5, <2>6, <2>7, <2>8 DEF DeviceInStep, Off, n
<1> QED
  BY <1>12, <1>13, <1>15, <1>16 DEF IndInv

(* hailo_vdma_launch_transfer, every outcome. The ring is never full.      *)
LEMMA LaunchStep ==
  ASSUME IndInv, FullContract, NEW l \in Lists, NEW s \in Descs(l),
         NEW buffers, NEW bind, NEW dbg \in BOOLEAN,
         LaunchTransfer(l, s, buffers, bind, dbg)
  PROVE  IndInv'
<1>1. ClientKeeps(l, s, buffers, bind)
  BY DEF LaunchTransfer
<1>2. CASE LaunchRejected(l, s, buffers)
  BY <1>1, <1>2, LaunchRejectedStep
<1>3. CASE LaunchRingFull(l, s, buffers, bind)
  <2>1. Len(ongoing_transfers) = RingSize - 1 /\ LaunchCheck(l, s, buffers) = ENONE
    BY <1>3 DEF LaunchRingFull
  <2>2. Len(ongoing_transfers) < RingSize - 1
    BY <1>1, <2>1, AcceptFacts
  <2> QED
    BY <2>1, <2>2, SizesAssumption
<1>4. CASE LaunchAccepted(l, s, buffers, bind, dbg)
  BY <1>1, <1>4, LaunchAcceptedStep
<1> QED
  BY <1>2, <1>3, <1>4 DEF LaunchTransfer

LEMMA StutterStep ==
  ASSUME IndInv, UNCHANGED vars PROVE IndInv'
BY DEF vars, IndInv, TypeOK, ScalarsOK, TransfersOK, DescsOK,
       NothingUnattached, TransfersInOrder, DeviceInStep, Off

LEMMA NextStep ==
  ASSUME IndInv, FullContract, [Next]_vars PROVE IndInv'
<1>1. ASSUME NEW l \in Lists, NEW buffers \in BufferSeqs, NEW bind \in BindModes,
             NEW dbg \in DebugModes, NEW s \in Descs(l),
             LaunchTransfer(l, s, buffers, bind, dbg)
      PROVE  IndInv'
  <2>1. dbg \in BOOLEAN
    BY InputsAssumption
  <2> QED
    BY <1>1, <2>1, LaunchStep
<1>2. CASE EnableChannel
  BY <1>2, EnableStep
<1>3. CASE DisableChannel
  BY <1>3, DisableStep
<1>4. CASE FillChannelIrqData
  BY <1>4, FillStep
<1>5. ASSUME NEW l \in Lists, HwStart(l) PROVE IndInv'
  BY <1>5, HwStartStep
<1>6. CASE HwStop
  BY <1>6, HwStopStep
<1>7. CASE HwProcess
  BY <1>7, HwProcessStep
<1>8. CASE UNCHANGED vars
  BY <1>8, StutterStep
<1> QED
  BY <1>1, <1>2, <1>3, <1>4, <1>5, <1>6, <1>7, <1>8 DEF Next

----------------------------------------------------------------------------
(* For a client that keeps its contract, whatever the lists, their         *)
(* lengths, the ring and the transfers: the transfers in flight tile the   *)
(* list from num_proc to num_avail, and the device is between the two.     *)
THEOREM InvariantHolds == FullContract => (Spec => []IndInv)
<1> SUFFICES ASSUME FullContract PROVE Spec => []IndInv
  OBVIOUS
<1>1. Init => IndInv
  BY InitIndInv
<1>2. IndInv /\ [Next]_vars => IndInv'
  BY NextStep
<1> QED
  BY <1>1, <1>2, PTL DEF Spec

(* Every variable of the channel keeps its type: the counters stay in 16   *)
(* bits and the ring of ongoing transfers never overflows.                 *)
THEOREM TypeCorrect == FullContract => (Spec => []TypeOK)
<1> SUFFICES ASSUME FullContract PROVE Spec => []TypeOK
  OBVIOUS
<1>1. IndInv => TypeOK
  BY DEF IndInv
<1> QED
  BY <1>1, InvariantHolds, PTL

(* fill_channel_irq_data completes a transfer exactly when the device is   *)
(* done with its last descriptor, however the three counters have wrapped. *)
THEOREM CompletionCorrect == FullContract => (Spec => []CompletionExact)
<1> SUFFICES ASSUME FullContract PROVE Spec => []CompletionExact
  OBVIOUS
<1>1. IndInv => CompletionExact
  BY CompletionExactFollows
<1> QED
  BY <1>1, InvariantHolds, PTL

(* validate_channel_state never finds the device's num_avail out of step   *)
(* with the host's in a session of this client.                            *)
THEOREM NumAvailCorrect == FullContract => (Spec => []NumAvailInSync)
<1> SUFFICES ASSUME FullContract PROVE Spec => []NumAvailInSync
  OBVIOUS
<1>1. IndInv => NumAvailInSync
  BY DEF IndInv, DeviceInStep, NumAvailInSync
<1> QED
  BY <1>1, InvariantHolds, PTL

----------------------------------------------------------------------------
(* Which descriptors are dirty. A launch makes its own stretch of the list *)
(* dirty, which starts at num_avail; cleaning up after the transfers       *)
(* reaped leaves what the others made dirty alone.                         *)

(* The running sum of a launch's buffers exists, so that Programmed is the *)
(* function its recursion describes: by the least length at which no such  *)
(* function does.                                                          *)
LEMMA ProgrammedRecursion ==
  ASSUME NEW l, NEW buffers, NEW bind, Len(buffers) \in Nat
  PROVE  LET total == Programmed(l, buffers, bind) IN
         total = [i \in 0 .. Len(buffers) |->
                    IF i = 0 THEN 0
                    ELSE total[i - 1] + program_descriptors_list(l, buffers[i], bind)]
<1> DEFINE m == Len(buffers)
           w(i) == program_descriptors_list(l, buffers[i], bind)
           R(k, f) == f = [i \in 0 .. k |-> IF i = 0 THEN 0 ELSE f[i - 1] + w(i)]
           B == {k \in 0 .. m : ~\E f : R(k, f)}
<1>1. Programmed(l, buffers, bind) = CHOOSE f : R(m, f)
  BY DEF Programmed
<1>2. SUFFICES \E f : R(m, f)
  <2> HIDE DEF m, w
  <2>1. ASSUME \E f : R(m, f) PROVE R(m, CHOOSE f : R(m, f))
    BY <2>1
  <2>2. (\E f : R(m, f)) => R(m, Programmed(l, buffers, bind))
    BY <1>1, <2>1
  <2> QED
    BY <2>2 DEF m, w
<1>3. m \in Nat
  OBVIOUS
<1> HIDE DEF m, w
<1>4. SUFFICES ASSUME B # {} PROVE FALSE
  BY <1>3
<1>5. B \in SUBSET Nat
  OBVIOUS
<1> HIDE DEF B
<1>6. PICK k \in B : \A j \in B : k <= j
  BY <1>4, <1>5, LeastNat
<1>7. k \in 0 .. m /\ ~\E f : R(k, f)
  BY <1>6 DEF B
<1>8. k # 0
  <2>1. [i \in 0 .. 0 |-> 0] = [i \in 0 .. 0 |-> IF i = 0 THEN 0 ELSE [j \in 0 .. 0 |-> 0][i - 1] + w(i)]
    OBVIOUS
  <2>2. R(0, [i \in 0 .. 0 |-> 0])
    BY <2>1
  <2> QED
    BY <1>7, <2>2
<1>9. k - 1 \in 0 .. m /\ ~(k <= k - 1)
  BY <1>3, <1>7, <1>8
<1>10. k - 1 \notin B
  BY <1>6, <1>9
<1>11. PICK f : R(k - 1, f)
  BY <1>9, <1>10 DEF B
<1> DEFINE g == [i \in 0 .. k |-> IF i = k THEN f[k - 1] + w(k) ELSE f[i]]
<1>12. ASSUME NEW i \in 0 .. k
       PROVE  g[i] = IF i = 0 THEN 0 ELSE g[i - 1] + w(i)
  <2>1. CASE i = k
    BY <1>3, <1>7, <1>8, <2>1
  <2>2. CASE i # k
    <3>1. i \in 0 .. k - 1
      BY <1>3, <1>7, <2>2
    <3>2. f[i] = IF i = 0 THEN 0 ELSE f[i - 1] + w(i)
      BY <1>11, <3>1
    <3> QED
      BY <1>3, <1>7, <2>2, <3>1, <3>2
  <2> QED
    BY <2>1, <2>2
<1>13. R(k, g)
  BY <1>12
<1> QED
  BY <1>7, <1>13

(* The offsets at which a launch ends a buffer lie within the transfer.    *)
LEMMA ProgrammedRange ==
  ASSUME FullContract, NEW l \in Lists, NEW s \in Descs(l), NEW buffers, NEW bind,
         Len(buffers) \in Nat, ClientKeeps(l, s, buffers, bind)
  PROVE  \A i \in 1 .. Len(buffers) :
           Programmed(l, buffers, bind)[i] \in 1 .. TotalDescs(l, buffers, bind)
<1> DEFINE total == Programmed(l, buffers, bind)
           m == Len(buffers)
           B == {i \in 1 .. m : ~(total[i] \in 1 .. total[m])}
<1>1. \A i \in 1 .. m : total[i] \in total[i - 1] + 1 .. total[m]
  BY DEF FullContract, Clauses, ClientKeeps
<1>2. total[0] = 0
  <2>1. 0 \in 0 .. Len(buffers)
    OBVIOUS
  <2> QED
    BY <2>1, ProgrammedRecursion
<1>3. TotalDescs(l, buffers, bind) = total[m]
  BY DEF TotalDescs
<1> HIDE DEF total, m
<1>4. SUFFICES ASSUME B # {} PROVE FALSE
  BY <1>3 DEF total, m
<1>5. m \in Nat /\ B \in SUBSET Nat
  BY DEF m
<1> HIDE DEF B
<1>6. PICK k \in B : \A j \in B : k <= j
  BY <1>4, <1>5, LeastNat
<1>7. k \in 1 .. m /\ ~(total[k] \in 1 .. total[m])
  BY <1>6 DEF B
<1>8. total[k] \in total[k - 1] + 1 .. total[m]
  BY <1>1, <1>7
<1>9. CASE k = 1
  <2>1. total[1] \in total[0] + 1 .. total[m]
    BY <1>8, <1>9
  <2> QED
    BY <1>2, <1>7, <1>9, <2>1
<1>10. CASE k # 1
  <2>1. k - 1 \in 1 .. m /\ ~(k <= k - 1)
    BY <1>5, <1>7, <1>10
  <2>2. k - 1 \notin B
    BY <1>6, <2>1
  <2>3. total[k - 1] \in 1 .. total[m]
    BY <2>1, <2>2 DEF B
  <2> QED
    BY <1>7, <1>8, <2>3
<1> QED
  BY <1>9, <1>10

(* A launch dirties descriptors between num_avail and its last one.        *)
LEMMA DirtyWithinLaunch ==
  ASSUME IndInv, FullContract, NEW l \in Lists, NEW s \in Descs(l),
         NEW buffers, NEW bind, Len(buffers) \in Nat,
         ClientKeeps(l, s, buffers, bind), LaunchCheck(l, s, buffers) = ENONE
  PROVE  LET n == DescCount[l] IN
         /\ LastDesc(l, s, buffers, bind) \in 0 .. n - 1
         /\ \A d \in DirtyDescs(l, s, buffers, bind) :
              /\ d \in 0 .. n - 1
              /\ Off(n, num_avail) <= Off(n, d)
              /\ Off(n, d) <= Off(n, LastDesc(l, s, buffers, bind))
<1> DEFINE n == DescCount[l]
           T == TotalDescs(l, buffers, bind)
           e == LastDesc(l, s, buffers, bind)
           total == Programmed(l, buffers, bind)
           D == DirtyDescs(l, s, buffers, bind)
<1>1. /\ n \in Nat \ {0} /\ num_avail = s /\ s \in 0 .. n - 1 /\ num_proc \in 0 .. n - 1
      /\ InFlight(l) = Off(n, num_avail) /\ InFlight(l) \in Nat
  BY AcceptFacts
<1>2. T \in Nat \ {0} /\ T + InFlight(l) < n /\ e = (s + (T - 1)) % n
  BY <1>1, LaunchFacts
<1>3. \A i \in 1 .. Len(buffers) : total[i] \in 1 .. T
  BY ProgrammedRange
<1>4. D = {s} \union {(s + total[i] - 1) % n : i \in 1 .. Len(buffers)}
  BY DEF DirtyDescs
<1> HIDE DEF n, T, e, total, D
<1>5. Off(n, s) \in Nat /\ T + Off(n, s) < n
  BY <1>1, <1>2
<1>6. ASSUME NEW k \in 1 .. T
      PROVE  /\ (s + (k - 1)) % n \in 0 .. n - 1
             /\ Off(n, (s + (k - 1)) % n) = Off(n, s) + (k - 1)
  <2>1. k - 1 \in Nat /\ Off(n, s) + (k - 1) < n
    BY <1>1, <1>2, <1>5
  <2> QED
    BY <1>1, <2>1, DistPlus DEF Off
<1>7. e \in 0 .. n - 1 /\ Off(n, e) = Off(n, s) + (T - 1)
  BY <1>2, <1>6
<1>8. ASSUME NEW d \in D
      PROVE  d \in 0 .. n - 1 /\ Off(n, s) <= Off(n, d) /\ Off(n, d) <= Off(n, e)
  <2>1. CASE d = s
    BY <1>1, <1>2, <1>5, <1>7, <2>1
  <2>2. CASE d # s
    <3>1. PICK i \in 1 .. Len(buffers) : d = (s + total[i] - 1) % n
      BY <1>4, <2>2
    <3>2. total[i] \in 1 .. T
      BY <1>3
    <3>3. s + total[i] - 1 = s + (total[i] - 1)
      BY <1>1, <3>2
    <3>4. d \in 0 .. n - 1 /\ Off(n, d) = Off(n, s) + (total[i] - 1)
      BY <1>6, <3>1, <3>2, <3>3
    <3> QED
      BY <1>2, <1>5, <1>7, <3>2, <3>4
  <2> QED
    BY <2>1, <2>2
<1> QED
  BY <1>1, <1>7, <1>8 DEF n, e, D

(* Dirty descriptors of a set of transfers.                                *)
LEMMA DirtyOfElement ==
  ASSUME NEW q, NEW d
  PROVE  d \in DirtyOf(q) <=> \E i \in 1 .. Len(q) : d \in q[i].dirty_descs
BY DEF DirtyOf

LEMMA DirtyOfNone == DirtyOf(<<>>) = {}
<1>1. Len(<<>>) = 0
  BY EmptySeq
<1> QED
  BY <1>1 DEF DirtyOf

LEMMA InitDirtyInv == Init => DirtyInv
<1> SUFFICES ASSUME Init PROVE DirtyInv
  OBVIOUS
<1>1. IndInv
  BY InitIndInv
<1>2. DirtyInOrder
  BY DEF Init, DirtyInOrder
<1>3. DirtyExact
  BY ListsAssumption DEF Init, DirtyExact
<1> QED
  BY <1>1, <1>2, <1>3 DEF DirtyInv

(* Steps that leave the transfers and the list alone.                      *)
LEMMA DirtyUnchanged ==
  ASSUME DirtyInOrder, DirtyExact,
         UNCHANGED <<num_proc, last_desc_list, ongoing_transfers, dirty>>
  PROVE  (DirtyInOrder /\ DirtyExact)'
BY DEF DirtyInOrder, DirtyExact, Off

(* hailo_vdma_engine_disable_channels leaves nothing dirty.                *)
LEMMA DirtyDisable ==
  ASSUME DirtyInv, DisableChannel PROVE (DirtyInOrder /\ DirtyExact)'
<1>1. DirtyInOrder'
  BY DEF DisableChannel, DirtyInOrder
<1>2. \A l \in Lists : dirty'[l] = {}
  <2> TAKE l \in Lists
  <2>1. dirty[l] = IF l = last_desc_list THEN DirtyOf(ongoing_transfers) ELSE {}
    BY DEF DirtyInv, DirtyExact
  <2>2. dirty' = clear_dirty_descs(ongoing_transfers) /\ dirty \in [Lists -> SUBSET Nat]
    BY DEF DisableChannel, DirtyInv, IndInv, TypeOK, DescsOK
  <2>3. CASE last_desc_list = NoList
    BY <2>1, <2>2, <2>3, ListsAssumption DEF clear_dirty_descs
  <2>4. CASE last_desc_list # NoList
    BY <2>1, <2>2, <2>4 DEF clear_dirty_descs
  <2> QED
    BY <2>3, <2>4
<1>3. DirtyExact'
  BY <1>2, ListsAssumption DEF DisableChannel, DirtyExact
<1> QED
  BY <1>1, <1>3

(* A launch that is rejected may attach a list, but only an idle one.      *)
LEMMA DirtyRejected ==
  ASSUME DirtyInv, NEW l \in Lists, NEW s, NEW buffers, LaunchRejected(l, s, buffers)
  PROVE  (DirtyInOrder /\ DirtyExact)'
<1>1. /\ last_desc_list' = IF last_desc_list = NoList THEN l ELSE last_desc_list
      /\ UNCHANGED <<num_proc, ongoing_transfers, dirty>>
  BY DEF LaunchRejected, AttachList
<1>2. CASE last_desc_list # NoList
  BY <1>1, <1>2, DirtyUnchanged DEF DirtyInv
<1>3. CASE last_desc_list = NoList
  <2>1. ongoing_transfers = <<>> /\ ongoing_transfers' = <<>>
    BY <1>1, <1>3 DEF DirtyInv, IndInv, NothingUnattached
  <2>2. DirtyInOrder'
    <3>1. Len(<<>>) = 0
      BY EmptySeq
    <3> QED
      BY <2>1, <3>1 DEF DirtyInOrder
  <2>3. \A k \in Lists : dirty[k] = {}
    BY <1>3, ListsAssumption DEF DirtyInv, DirtyExact
  <2>4. DirtyExact'
    BY <1>1, <2>1, <2>3, DirtyOfNone DEF DirtyExact
  <2> QED
    BY <2>2, <2>4
<1> QED
  BY <1>2, <1>3

(* hailo_vdma_launch_transfer: what the new transfer makes dirty, and what *)
(* binding it cleans, lies behind every transfer in flight.                *)
LEMMA DirtyAccepted ==
  ASSUME DirtyInv, FullContract, NEW l \in Lists, NEW s \in Descs(l),
         NEW buffers, NEW bind, NEW dbg \in BOOLEAN, Len(buffers) \in Nat,
         ClientKeeps(l, s, buffers, bind), LaunchAccepted(l, s, buffers, bind, dbg)
  PROVE  (DirtyInOrder /\ DirtyExact)'
<1> DEFINE n == DescCount[l]
           q == ongoing_transfers
           m == Len(q)
           T == TotalDescs(l, buffers, bind)
           e == LastDesc(l, s, buffers, bind)
           D == DirtyDescs(l, s, buffers, bind)
           t == NewTransfer(l, s, buffers, bind, dbg)
           bound == IF bind THEN LaunchedDescs(l, s, buffers, bind) ELSE {}
<1> USE DEF DirtyInv
<1>1. /\ LaunchCheck(l, s, buffers) = ENONE
      /\ last_desc_list' = IF last_desc_list = NoList THEN l ELSE last_desc_list
      /\ dirty' = [dirty EXCEPT ![l] = (@ \ bound) \union D]
      /\ ongoing_transfers' = Append(q, t)
      /\ num_proc' = num_proc
  BY DEF LaunchAccepted, AttachList, ProgramTransfer
<1>2. /\ n \in Nat \ {0} /\ last_desc_list \in {NoList, l} /\ l # NoList
      /\ num_avail = s /\ s \in 0 .. n - 1 /\ num_proc \in 0 .. n - 1
      /\ InFlight(l) = Off(n, s) /\ InFlight(l) \in Nat
  BY <1>1, AcceptFacts
<1>3. T \in Nat \ {0} /\ T + InFlight(l) < n /\ LaunchedDescs(l, s, buffers, bind) = Arc(n, s, T)
  BY <1>2, LaunchFacts
<1>4. /\ e \in 0 .. n - 1
      /\ \A d \in D : d \in 0 .. n - 1 /\ Off(n, s) <= Off(n, d) /\ Off(n, d) <= Off(n, e)
  BY <1>1, <1>2, DirtyWithinLaunch
<1>5. last_desc_list' = l
  BY <1>1, <1>2
<1>6. q \in Seq(Transfers) /\ m \in Nat
  BY LenProperties DEF IndInv, TypeOK, TransfersOK
<1>7. /\ Len(ongoing_transfers') = m + 1
      /\ \A i \in 1 .. m : ongoing_transfers'[i] = q[i]
      /\ ongoing_transfers'[m + 1] = t
  <2> HIDE DEF t
  <2> QED
    BY <1>1, <1>6
<1>8. t.last_desc = e /\ t.dirty_descs = D
  BY DEF NewTransfer
<1>9. \A i \in 1 .. m :
        /\ q[i].last_desc \in 0 .. n - 1 /\ Off(n, q[i].last_desc) < Off(n, s)
        /\ \A d \in q[i].dirty_descs :
             /\ d \in 0 .. n - 1 /\ Off(n, d) <= Off(n, q[i].last_desc)
             /\ \A j \in 1 .. i - 1 : Off(n, q[j].last_desc) < Off(n, d)
  <2> TAKE i \in 1 .. m
  <2>1. q # <<>>
    BY <1>6, EmptySeq
  <2>2. last_desc_list = l
    BY <1>2, <2>1 DEF IndInv, NothingUnattached
  <2>3. Off(n, q[i].last_desc) < Off(n, s)
    BY <1>2, <2>1, <2>2, LastBeforeAvail
  <2>4. q[i].last_desc \in 0 .. n - 1
    BY <2>1, <2>2, AttachedFacts DEF Descs
  <2> QED
    BY <1>2, <2>2, <2>3, <2>4 DEF DirtyInOrder
<1>10. dirty[l] = DirtyOf(q) /\ \A k \in Lists \ {l} : dirty[k] = {}
  <2>1. CASE last_desc_list = l
    BY <2>1 DEF DirtyExact
  <2>2. CASE last_desc_list = NoList
    <3>1. q = <<>>
      BY <2>2 DEF IndInv, NothingUnattached
    <3> QED
      BY <2>2, <3>1, DirtyOfNone, ListsAssumption DEF DirtyExact
  <2> QED
    BY <1>2, <2>1, <2>2
<1>11. dirty \in [Lists -> SUBSET Nat]
  BY DEF IndInv, TypeOK, DescsOK
<1>12. \A d \in bound : d \in 0 .. n - 1 /\ Dist(n, s, d) < T
  BY <1>3 DEF Arc
<1>13. \A d \in DirtyOf(q) : \E i \in 1 .. m : d \in q[i].dirty_descs
  BY DirtyOfElement
<1> HIDE DEF n, q, m, T, e, D, t, bound
<1>14. \A x \in 0 .. n - 1 : Off(n, x) \in Nat
  BY <1>2, OffRange
<1>15. DirtyOf(q) \intersect bound = {}
  <2> SUFFICES ASSUME NEW d \in DirtyOf(q), d \in bound PROVE FALSE
    OBVIOUS
  <2>1. PICK i \in 1 .. m : d \in q[i].dirty_descs
    BY <1>13
  <2>2. d \in 0 .. n - 1 /\ Off(n, d) <= Off(n, q[i].last_desc)
        /\ Off(n, q[i].last_desc) < Off(n, s) /\ q[i].last_desc \in 0 .. n - 1
    BY <1>9, <2>1
  <2>3. Off(n, d) \in Nat /\ Off(n, q[i].last_desc) \in Nat /\ Off(n, s) \in Nat
    BY <1>2, <1>14, <2>2
  <2>4. Off(n, d) < Off(n, s)
    BY <2>2, <2>3
  <2>5. Dist(n, s, d) = Off(n, d) - Off(n, s) + n
    BY <1>2, <2>2, <2>3, <2>4, DistShift DEF Off
  <2>6. Dist(n, s, d) < T
    BY <1>12
  <2> QED
    BY <1>2, <1>3, <2>3, <2>5, <2>6
<1>16. dirty'[l] = DirtyOf(q) \union D
  BY <1>1, <1>10, <1>11, <1>15
<1>17. DirtyOf(ongoing_transfers') = DirtyOf(q) \union D
  <2>1. \A i \in 1 .. m + 1 : i \in 1 .. m \/ i = m + 1
    BY <1>6
  <2>2. \A i \in 1 .. m : i \in 1 .. m + 1
    BY <1>6
  <2>3. m + 1 \in 1 .. m + 1
    BY <1>6
  <2>4. ASSUME NEW d PROVE d \in DirtyOf(ongoing_transfers') <=> d \in DirtyOf(q) \union D
    <3>1. d \in DirtyOf(ongoing_transfers') <=>
            \E i \in 1 .. m + 1 : d \in ongoing_transfers'[i].dirty_descs
      BY <1>7, DirtyOfElement
    <3>2. d \in DirtyOf(q) <=> \E i \in 1 .. m : d \in q[i].dirty_descs
      BY DirtyOfElement DEF m
    <3> QED
      BY <1>7, <1>8, <2>1, <2>2, <2>3, <3>1, <3>2
  <2> QED
    BY <2>4
<1>18. DirtyExact'
  BY <1>1, <1>5, <1>10, <1>11, <1>16, <1>17 DEF DirtyExact
<1>19. ASSUME NEW i \in 1 .. m + 1, NEW d \in ongoing_transfers'[i].dirty_descs
       PROVE  /\ d \in 0 .. n - 1
              /\ Off(n, d) <= Off(n, ongoing_transfers'[i].last_desc)
              /\ \A j \in 1 .. i - 1 : Off(n, ongoing_transfers'[j].last_desc) < Off(n, d)
  <2>1. \A j \in 1 .. i - 1 : j \in 1 .. m /\ ongoing_transfers'[j] = q[j]
    BY <1>6, <1>7
  <2>2. CASE i \in 1 .. m
    BY <1>7, <1>9, <2>1, <2>2
  <2>3. CASE i = m + 1
    <3>1. d \in D /\ ongoing_transfers'[i] = t
      BY <1>7, <1>8, <2>3
    <3>2. d \in 0 .. n - 1 /\ Off(n, s) <= Off(n, d) /\ Off(n, d) <= Off(n, e)
      BY <1>4, <3>1
    <3>3. ASSUME NEW j \in 1 .. i - 1
          PROVE  Off(n, ongoing_transfers'[j].last_desc) < Off(n, d)
      <4>1. /\ ongoing_transfers'[j] = q[j]
            /\ q[j].last_desc \in 0 .. n - 1 /\ Off(n, q[j].last_desc) < Off(n, s)
        BY <1>9, <2>1
      <4>2. Off(n, q[j].last_desc) \in Nat /\ Off(n, s) \in Nat /\ Off(n, d) \in Nat
        BY <1>2, <1>14, <3>2, <4>1
      <4> QED
        BY <3>2, <4>1, <4>2
    <3> QED
      BY <1>8, <3>1, <3>2, <3>3
  <2> QED
    BY <1>6, <2>2, <2>3
<1>20. DirtyInOrder'
  BY <1>1, <1>5, <1>7, <1>19 DEF DirtyInOrder, Off, n
<1> QED
  BY <1>18, <1>20

(* fill_channel_irq_data: seen from the new num_proc, what lies behind the *)
(* transfers reaped is as much nearer as num_proc has advanced.            *)
LEMMA FillShift ==
  ASSUME IndInv, FillChannelIrqData, Reaped # 0
  PROVE  LET n == DescCount[last_desc_list]
             o == Off(n, ongoing_transfers[Reaped].last_desc)
         IN
         /\ num_proc' \in 0 .. n - 1 /\ o \in Nat
         /\ \A x \in 0 .. n - 1 : o < Off(n, x) => Dist(n, num_proc', x) = Off(n, x) - o - 1
<1> DEFINE n == DescCount[last_desc_list]
           q == ongoing_transfers
           d == q[Reaped].last_desc
<1>1. num_proc' = (d + 1) % desc_count_mask
  BY DEF FillChannelIrqData
<1>2. Reaped \in 1 .. Len(q) /\ q # <<>>
  <2>1. Reaped \in 0 .. Len(q) /\ q \in Seq(Transfers) /\ Len(q) \in Nat
    BY ReapedFacts, LenProperties DEF IndInv, TypeOK, TransfersOK
  <2> QED
    BY <2>1, EmptySeq
<1>3. /\ n \in Nat \ {0} /\ desc_count_mask = n
      /\ num_proc \in 0 .. n - 1 /\ num_avail \in 0 .. n - 1 /\ d \in 0 .. n - 1
  BY <1>2, AttachedFacts DEF Descs
<1>4. Off(n, d) < Off(n, num_avail)
  BY <1>2, LastBeforeAvail
<1> HIDE DEF n, q, d
<1>5. Off(n, d) \in Nat /\ Off(n, num_avail) \in Nat /\ Off(n, num_avail) < n
  BY <1>3, OffRange
<1>6. num_proc' \in 0 .. n - 1 /\ Off(n, num_proc') = Off(n, d) + 1
  <2>1. Off(n, d) < n - 1
    BY <1>3, <1>4, <1>5
  <2> QED
    BY <1>1, <1>3, <2>1, DistSucc DEF Off
<1>7. ASSUME NEW x \in 0 .. n - 1, Off(n, d) < Off(n, x)
      PROVE  Dist(n, num_proc', x) = Off(n, x) - Off(n, d) - 1
  <2>1. Off(n, x) \in Nat
    BY <1>3, OffRange
  <2>2. Off(n, num_proc') <= Off(n, x)
    BY <1>5, <1>6, <1>7, <2>1
  <2>3. Dist(n, num_proc', x) = Off(n, x) - Off(n, num_proc')
    BY <1>3, <1>6, <2>2, DistShift DEF Off
  <2> QED
    BY <1>5, <1>6, <2>1, <2>3
<1> QED
  BY <1>5, <1>6, <1>7 DEF n, q, d

(* fill_channel_irq_data: cleaning what the transfers reaped made dirty    *)
(* leaves exactly what the others did.                                     *)
LEMMA DirtyFill ==
  ASSUME DirtyInv, FillChannelIrqData PROVE (DirtyInOrder /\ DirtyExact)'
<1> DEFINE l == last_desc_list
           n == DescCount[l]
           q == ongoing_transfers
           m == Len(q)
           r == Reaped
           last(k) == q[k].last_desc
<1> USE DEF DirtyInv
<1>1. /\ l # NoList /\ last_desc_list' = l
      /\ ongoing_transfers' = SubSeq(q, r + 1, m)
      /\ dirty' = [dirty EXCEPT ![l] = @ \ DirtyOf(SubSeq(q, 1, r))]
      /\ r = 0 => num_proc' = num_proc
  BY DEF FillChannelIrqData, clear_dirty_descs
<1>2. q \in Seq(Transfers) /\ m \in Nat /\ r \in 0 .. m
  BY ReapedFacts, LenProperties DEF IndInv, TypeOK, TransfersOK
<1>3. l \in Lists /\ n \in Nat \ {0} /\ dirty \in [Lists -> SUBSET Nat]
  BY <1>1, ListsAssumption DEF IndInv, TypeOK, ScalarsOK, DescsOK
<1>4. /\ Len(ongoing_transfers') = m - r
      /\ \A k \in 1 .. m - r : ongoing_transfers'[k] = q[k + r]
      /\ Len(SubSeq(q, 1, r)) = r
      /\ \A k \in 1 .. r : SubSeq(q, 1, r)[k] = q[k]
  <2> HIDE DEF q, r, m
  <2>1. SubSeq(q, r + 1, m) = [k \in 1 .. m - r |-> q[k + r]]
    BY <1>2 DEF m
  <2>2. SubSeq(q, 1, r) = [k \in 1 .. r |-> q[k]]
    BY <1>2 DEF m
  <2> QED
    BY <1>1, <1>2, <2>1, <2>2
<1>5. /\ \A k \in Lists \ {l} : dirty[k] = {}
      /\ dirty[l] = DirtyOf(q)
  BY <1>3 DEF DirtyExact
<1>6. \A i \in 1 .. m : \A d \in q[i].dirty_descs :
        /\ d \in 0 .. n - 1
        /\ Off(n, d) <= Off(n, last(i))
        /\ \A j \in 1 .. i - 1 : Off(n, last(j)) < Off(n, d)
  BY <1>1 DEF DirtyInOrder
<1>7. \A i \in 1 .. m : last(i) \in 0 .. n - 1 /\ num_proc \in 0 .. n - 1
  <2> TAKE i \in 1 .. m
  <2>1. q # <<>>
    BY <1>2, EmptySeq
  <2> QED
    BY <2>1, AttachedFacts DEF Descs
<1>8. r # 0 => /\ num_proc' \in 0 .. n - 1 /\ Off(n, last(r)) \in Nat
               /\ \A x \in 0 .. n - 1 : Off(n, last(r)) < Off(n, x) =>
                    Dist(n, num_proc', x) = Off(n, x) - Off(n, last(r)) - 1
  BY FillShift
<1>9. \A i, j \in 1 .. m : i < j => Off(n, last(i)) < Off(n, last(j))
  BY <1>1 DEF IndInv, TransfersInOrder
<1>10. \A d : d \in DirtyOf(q) <=> \E i \in 1 .. m : d \in q[i].dirty_descs
  BY DirtyOfElement
<1> HIDE DEF l, n, q, m, r, last
<1>11. \A d : d \in DirtyOf(SubSeq(q, 1, r)) <=> \E i \in 1 .. r : d \in q[i].dirty_descs
  <2> TAKE d
  <2> DEFINE z == SubSeq(q, 1, r)
  <2>1. Len(z) = r /\ \A i \in 1 .. r : z[i] = q[i]
    BY <1>4
  <2> HIDE DEF z
  <2>2. d \in DirtyOf(z) <=> \E i \in 1 .. Len(z) : d \in z[i].dirty_descs
    BY DirtyOfElement
  <2>3. d \in DirtyOf(z) <=> \E i \in 1 .. r : d \in q[i].dirty_descs
    BY <2>1, <2>2
  <2> QED
    BY <2>3 DEF z
<1>12. \A d : d \in DirtyOf(ongoing_transfers') <=>
                \E i \in 1 .. m : r < i /\ d \in q[i].dirty_descs
  <2> TAKE d
  <2>1. d \in DirtyOf(ongoing_transfers') <=> \E k \in 1 .. m - r : d \in q[k + r].dirty_descs
    BY <1>4, DirtyOfElement
  <2>2. \A k \in 1 .. m - r : k + r \in 1 .. m /\ r < k + r
    BY <1>2
  <2>3. \A i \in 1 .. m : r < i => i - r \in 1 .. m - r /\ (i - r) + r = i
    BY <1>2
  <2> QED
    BY <2>1, <2>2, <2>3
<1>13. ASSUME NEW i \in 1 .. r, NEW j \in 1 .. m, r < j, NEW d,
              d \in q[i].dirty_descs, d \in q[j].dirty_descs
       PROVE  FALSE
  <2>1. i \in 1 .. m /\ i \in 1 .. j - 1
    BY <1>2, <1>13
  <2>2. d \in 0 .. n - 1 /\ Off(n, d) <= Off(n, last(i)) /\ Off(n, last(i)) < Off(n, d)
    BY <1>6, <1>13, <2>1
  <2>3. last(i) \in 0 .. n - 1 /\ num_proc \in 0 .. n - 1
    BY <1>7, <2>1
  <2>4. Off(n, d) \in Nat /\ Off(n, last(i)) \in Nat
    BY <1>3, <2>2, <2>3, OffRange
  <2> QED
    BY <2>2, <2>4
<1>14. DirtyOf(q) \ DirtyOf(SubSeq(q, 1, r)) = DirtyOf(ongoing_transfers')
  <2>1. \A i \in 1 .. m : i \in 1 .. r \/ r < i
    BY <1>2
  <2>2. \A i \in 1 .. r : i \in 1 .. m
    BY <1>2
  <2>3. ASSUME NEW d
        PROVE  d \in DirtyOf(q) \ DirtyOf(SubSeq(q, 1, r)) <=> d \in DirtyOf(ongoing_transfers')
    BY <1>10, <1>11, <1>12, <1>13, <2>1, <2>2
  <2> QED
    BY <2>3
<1>15. DirtyExact'
  BY <1>1, <1>3, <1>5, <1>14 DEF DirtyExact
<1>16. CASE r = 0
  <2>1. num_proc' = num_proc
    BY <1>1, <1>16
  <2>2. \A i \in 1 .. m : i + r = i
    BY <1>2, <1>16
  <2>3. m - r = m
    BY <1>2, <1>16
  <2>4. Len(ongoing_transfers') = m /\ \A i \in 1 .. m : ongoing_transfers'[i] = q[i]
    BY <1>4, <2>2, <2>3
  <2>5. \A i \in 1 .. m : \A j \in 1 .. i - 1 : j \in 1 .. m
    BY <1>2
  <2> QED
    BY <1>1, <1>6, <1>15, <2>1, <2>4, <2>5, ZenonT(40) DEF DirtyInOrder, Off, last, n
<1>17. CASE r # 0
  <2> DEFINE o == Off(n, last(r))
             p == num_proc'
  <2>1. ASSUME NEW k \in 1 .. m - r, NEW d \in ongoing_transfers'[k].dirty_descs
        PROVE  /\ d \in 0 .. n - 1
               /\ Dist(n, p, d) <= Dist(n, p, ongoing_transfers'[k].last_desc)
               /\ \A j \in 1 .. k - 1 :
                    Dist(n, p, ongoing_transfers'[j].last_desc) < Dist(n, p, d)
    <3>1. /\ k + r \in 1 .. m /\ r \in 1 .. (k + r) - 1 /\ r \in 1 .. m /\ r < k + r
          /\ ongoing_transfers'[k] = q[k + r]
      BY <1>2, <1>4, <1>17
    <3>2. /\ d \in 0 .. n - 1 /\ Off(n, d) <= Off(n, last(k + r)) /\ o < Off(n, d)
          /\ \A j \in 1 .. (k + r) - 1 : Off(n, last(j)) < Off(n, d)
      BY <1>6, <3>1
    <3>3. /\ last(k + r) \in 0 .. n - 1 /\ num_proc \in 0 .. n - 1
          /\ o < Off(n, last(k + r))
      BY <1>7, <1>9, <3>1
    <3>4. o \in Nat /\ Off(n, d) \in Nat /\ Off(n, last(k + r)) \in Nat
      BY <1>3, <1>8, <1>17, <3>2, <3>3, OffRange
    <3>5. /\ Dist(n, p, d) = Off(n, d) - o - 1
          /\ Dist(n, p, last(k + r)) = Off(n, last(k + r)) - o - 1
      BY <1>8, <1>17, <3>2, <3>3
    <3> HIDE DEF o, p
    <3>6. Dist(n, p, d) <= Dist(n, p, last(k + r))
      BY <3>2, <3>4, <3>5
    <3>7. ASSUME NEW j \in 1 .. k - 1
          PROVE  Dist(n, p, ongoing_transfers'[j].last_desc) < Dist(n, p, d)
      <4>1. /\ j \in 1 .. m - r /\ j + r \in 1 .. m /\ r < j + r
            /\ j + r \in 1 .. (k + r) - 1
        BY <1>2, <3>1
      <4>2. ongoing_transfers'[j].last_desc = last(j + r)
        BY <1>4, <4>1 DEF last
      <4>3. /\ last(j + r) \in 0 .. n - 1 /\ o < Off(n, last(j + r))
            /\ Off(n, last(j + r)) < Off(n, d)
        BY <1>7, <1>9, <3>1, <3>2, <4>1 DEF o
      <4>4. Off(n, last(j + r)) \in Nat
        BY <1>3, <3>3, <4>3, OffRange
      <4>5. Dist(n, p, last(j + r)) = Off(n, last(j + r)) - o - 1
        BY <1>8, <1>17, <4>3 DEF o, p
      <4> QED
        BY <3>4, <3>5, <4>2, <4>3, <4>4, <4>5
    <3> QED
      BY <3>1, <3>2, <3>6, <3>7 DEF last
  <2> QED
    BY <1>1, <1>4, <1>15, <2>1 DEF DirtyInOrder, Off, n
<1> QED
  BY <1>15, <1>16, <1>17

LEMMA DirtyNextStep ==
  ASSUME DirtyInv, FullContract, [Next]_vars PROVE DirtyInv'
<1>0. SUFFICES (DirtyInOrder /\ DirtyExact)'
  BY NextStep DEF DirtyInv
<1>1. ASSUME NEW l \in Lists, NEW buffers \in BufferSeqs, NEW bind \in BindModes,
             NEW dbg \in DebugModes, NEW s \in Descs(l),
             LaunchTransfer(l, s, buffers, bind, dbg)
      PROVE  (DirtyInOrder /\ DirtyExact)'
  <2>1. dbg \in BOOLEAN /\ ClientKeeps(l, s, buffers, bind)
    BY <1>1, InputsAssumption DEF LaunchTransfer
  <2>2. Len(buffers) \in Nat
    <3>1. PICK k \in 0 .. MaxBuffers + 1 : buffers \in [1 .. k -> BufferSizes]
      BY DEF BufferSeqs
    <3>2. k \in Nat
      BY SizesAssumption
    <3> QED
      BY <3>1, <3>2
  <2>3. CASE LaunchRejected(l, s, buffers)
    BY <2>3, DirtyRejected
  <2>4. CASE LaunchRingFull(l, s, buffers, bind)
    <3>1. Len(ongoing_transfers) = RingSize - 1 /\ LaunchCheck(l, s, buffers) = ENONE
      BY <2>4 DEF LaunchRingFull
    <3>2. Len(ongoing_transfers) < RingSize - 1
      BY <2>1, <3>1, AcceptFacts DEF DirtyInv
    <3> QED
      BY <3>1, <3>2, SizesAssumption
  <2>5. CASE LaunchAccepted(l, s, buffers, bind, dbg)
    BY <2>1, <2>2, <2>5, DirtyAccepted
  <2> QED
    BY <1>1, <2>3, <2>4, <2>5 DEF LaunchTransfer
<1>2. CASE DisableChannel
  BY <1>2, DirtyDisable
<1>3. CASE FillChannelIrqData
  BY <1>3, DirtyFill
<1>4. ASSUME UNCHANGED <<num_proc, last_desc_list, ongoing_transfers, dirty>>
      PROVE  (DirtyInOrder /\ DirtyExact)'
  BY <1>4, DirtyUnchanged DEF DirtyInv
<1>5. CASE EnableChannel
  BY <1>4, <1>5 DEF EnableChannel
<1>6. ASSUME NEW l \in Lists, HwStart(l) PROVE (DirtyInOrder /\ DirtyExact)'
  BY <1>4, <1>6 DEF HwStart
<1>7. CASE HwStop
  BY <1>4, <1>7 DEF HwStop
<1>8. CASE HwProcess
  BY <1>4, <1>8 DEF HwProcess
<1>9. CASE UNCHANGED vars
  BY <1>4, <1>9 DEF vars
<1> QED
  BY <1>1, <1>2, <1>3, <1>5, <1>6, <1>7, <1>8, <1>9 DEF Next

(* For a client that keeps its contract, the descriptors with a control    *)
(* word other than the default are the ones the transfers in flight        *)
(* recorded: clear_dirty_descs misses none and never wipes a later         *)
(* transfer's interrupt.                                                   *)
THEOREM DirtyCorrect == FullContract => (Spec => []DirtyExact)
<1> SUFFICES ASSUME FullContract PROVE Spec => []DirtyExact
  OBVIOUS
<1>1. Init => DirtyInv
  BY InitDirtyInv
<1>2. DirtyInv /\ [Next]_vars => DirtyInv'
  BY DirtyNextStep
<1>3. DirtyInv => DirtyExact
  BY DEF DirtyInv
<1> QED
  BY <1>1, <1>2, <1>3, PTL DEF Spec

----------------------------------------------------------------------------
(* The channel implements TransferQueue. What is left of a transfer are    *)
(* the descriptors of its stretch that the device has not passed.          *)

(* A stretch from b to c, seen from a point a that does not lie in it.     *)
LEMMA StretchIsWindow ==
  ASSUME NEW n \in Nat \ {0}, NEW a \in 0 .. n - 1, NEW b \in 0 .. n - 1,
         NEW c \in 0 .. n - 1, NEW x \in 0 .. n - 1, Dist(n, a, b) <= Dist(n, a, c)
  PROVE  Dist(n, b, x) < Dist(n, b, c) + 1 <=>
           Dist(n, a, b) <= Dist(n, a, x) /\ Dist(n, a, x) <= Dist(n, a, c)
BY DEF Dist

(* An arc of k descriptors has k descriptors.                              *)
LEMMA ArcSize ==
  ASSUME NEW n \in Nat \ {0}, NEW s \in 0 .. n - 1, NEW k \in Nat, k <= n
  PROVE  Cardinality(Arc(n, s, k)) = k
<1> DEFINE f == [i \in 1 .. k |-> (s + (i - 1)) % n]
<1>1. ASSUME NEW i \in 1 .. k
      PROVE  f[i] \in 0 .. n - 1 /\ Dist(n, s, f[i]) = i - 1
  <2>1. i - 1 \in Nat /\ Dist(n, s, s) = 0 /\ 0 + (i - 1) < n
    BY DEF Dist
  <2> QED
    BY <2>1, DistPlus
<1>2. ASSUME NEW i \in 1 .. k PROVE f[i] \in Arc(n, s, k)
  <2>1. i - 1 < k
    OBVIOUS
  <2> HIDE DEF f
  <2> QED
    BY <1>1, <2>1 DEF Arc
<1>3. ASSUME NEW i \in 1 .. k, NEW j \in 1 .. k, f[i] = f[j] PROVE i = j
  <2>1. i - 1 = j - 1
    BY <1>1, <1>3
  <2> QED
    BY <2>1
<1>4. ASSUME NEW d \in Arc(n, s, k) PROVE \E i \in 1 .. k : f[i] = d
  <2>1. d \in 0 .. n - 1 /\ Dist(n, s, d) < k
    BY DEF Arc
  <2>2. Dist(n, s, d) \in 0 .. n - 1
    BY <2>1, DistRange
  <2> DEFINE i == Dist(n, s, d) + 1
  <2>3. i \in 1 .. k /\ i - 1 = Dist(n, s, d)
    BY <2>1, <2>2
  <2> HIDE DEF i
  <2>4. f[i] \in 0 .. n - 1 /\ Dist(n, s, f[i]) = Dist(n, s, d)
    BY <1>1, <2>3
  <2> HIDE DEF f
  <2>5. f[i] = d
    BY <2>1, <2>4, DistInjective
  <2> QED
    BY <2>3, <2>5
<1>5. f \in [1 .. k -> Arc(n, s, k)]
  BY <1>2
<1> HIDE DEF f
<1>6. f \in Bijection(1 .. k, Arc(n, s, k))
  BY <1>3, <1>4, <1>5 DEF Bijection, Injection, Surjection, IsInjective
<1>7. ExistsBijection(1 .. k, Arc(n, s, k))
  BY <1>6 DEF ExistsBijection
<1> QED
  BY <1>7, FS_CountingElements

(* What is left of transfer i.                                             *)
LEMMA LeftFacts ==
  ASSUME QueueInv, NEW i \in 1 .. Len(ongoing_transfers)
  PROVE  LET l == last_desc_list
             n == DescCount[l]
             t == ongoing_transfers[i]
         IN
         /\ \A d : d \in TransferDescs(t) <=>
              /\ d \in 0 .. n - 1
              /\ Off(n, t.first) <= Off(n, d) /\ Off(n, d) <= Off(n, t.last_desc)
         /\ IsFiniteSet(TransferDescs(t) \intersect posted[l])
         /\ Left(t) \in Nat
         /\ Left(t) = 0 <=> Off(n, t.last_desc) < Off(n, HwNumProc)
<1> DEFINE l == last_desc_list
           q == ongoing_transfers
           n == DescCount[l]
           t == q[i]
           h == HwNumProc
           W == TransferDescs(t) \intersect posted[l]
<1> USE DEF QueueInv
<1>1. q \in Seq(Transfers) /\ q # <<>> /\ Len(q) \in Nat
  BY EmptySeq, LenProperties DEF IndInv, TypeOK, TransfersOK
<1>2. /\ l # NoList /\ host_regs.list = l /\ n \in Nat \ {0}
      /\ num_avail \in 0 .. n - 1 /\ num_proc \in 0 .. n - 1 /\ h \in 0 .. n - 1
      /\ h = host_regs.num_proc % n /\ Descs(l) = 0 .. n - 1
      /\ \A k \in 1 .. Len(q) : q[k].last_desc \in 0 .. n - 1
  BY <1>1, AttachedFacts, ListsAssumption DEF Descs, HwNumProc
<1>3. /\ t.first \in 0 .. n - 1
      /\ Off(n, t.first) = IF i = 1 THEN 0 ELSE Off(n, q[i - 1].last_desc) + 1
  BY <1>2 DEF FirstsFollow
<1>4. Off(n, t.last_desc) < Off(n, num_avail)
  BY <1>1, LastBeforeAvail
<1>5. \A j, k \in 1 .. Len(q) : j < k => Off(n, q[j].last_desc) < Off(n, q[k].last_desc)
  BY <1>2 DEF IndInv, TransfersInOrder
<1>6. posted[l] = {d \in 0 .. n - 1 : Off(n, h) <= Off(n, d) /\ Off(n, d) < Off(n, num_avail)}
  BY <1>1, <1>2 DEF IndInv, DeviceInStep
<1>7. \A d : d \in TransferDescs(t) <=>
               d \in 0 .. n - 1 /\ Dist(n, t.first, d) < Dist(n, t.first, t.last_desc) + 1
  BY DEF TransferDescs, Arc
<1>8. Left(t) = Cardinality(W)
  BY DEF Left
<1> HIDE DEF l, q, n, h
<1>9. \A x \in 0 .. n - 1 : Off(n, x) \in Nat
  BY <1>2, OffRange
<1>10. t.last_desc \in 0 .. n - 1
  BY <1>2 DEF q
<1>11. Off(n, t.first) <= Off(n, t.last_desc)
  <2>1. CASE i = 1
    BY <1>3, <1>9, <1>10, <2>1
  <2>2. CASE i # 1
    <3>1. i - 1 \in 1 .. Len(q) /\ i \in 1 .. Len(q) /\ i - 1 < i
      BY <1>1, <2>2 DEF q
    <3>2. Off(n, q[i - 1].last_desc) < Off(n, t.last_desc)
      BY <1>5, <3>1
    <3>3. Off(n, q[i - 1].last_desc) \in Nat /\ Off(n, t.last_desc) \in Nat
      BY <1>2, <1>9, <1>10, <3>1
    <3> QED
      BY <1>3, <2>2, <3>2, <3>3
  <2> QED
    BY <2>1, <2>2
<1> HIDE DEF t
<1>12. \A d : d \in TransferDescs(t) <=>
               /\ d \in 0 .. n - 1
               /\ Off(n, t.first) <= Off(n, d) /\ Off(n, d) <= Off(n, t.last_desc)
  BY <1>2, <1>3, <1>7, <1>10, <1>11, StretchIsWindow DEF Off
<1>13. IsFiniteSet(W)
  <2>1. IsFiniteSet(0 .. n - 1)
    BY <1>2, FS_Interval
  <2>2. W \in SUBSET (0 .. n - 1)
    BY <1>12
  <2> QED
    BY <2>1, <2>2, FS_Subset
<1>14. W = {} <=> Off(n, t.last_desc) < Off(n, h)
  <2>1. Off(n, h) \in Nat /\ Off(n, t.last_desc) \in Nat
    BY <1>2, <1>9, <1>10
  <2>2. ASSUME ~(Off(n, t.last_desc) < Off(n, h)) PROVE t.last_desc \in W
    BY <1>4, <1>6, <1>10, <1>11, <1>12, <2>1, <2>2
  <2>3. ASSUME NEW d \in W PROVE ~(Off(n, t.last_desc) < Off(n, h))
    <3>1. d \in 0 .. n - 1 /\ Off(n, d) <= Off(n, t.last_desc) /\ Off(n, h) <= Off(n, d)
      BY <1>6, <1>12
    <3>2. Off(n, d) \in Nat
      BY <1>9, <3>1
    <3> QED
      BY <2>1, <3>1, <3>2
  <2> QED
    BY <2>2, <2>3
<1>15. Left(t) \in Nat /\ (Left(t) = 0 <=> W = {})
  BY <1>8, <1>13, FS_CardinalityType, FS_EmptySet
<1> QED
  BY <1>12, <1>13, <1>14, <1>15 DEF l, q, n, t, h

(* The mapping, of a list l, the descriptors P posted on it and the        *)
(* statuses S written to it.                                               *)
Stretch(l, t) ==
  LET n == DescCount[l] IN Arc(n, t.first, Dist(n, t.first, t.last_desc) + 1)

LeftOn(l, t, P) == Cardinality(Stretch(l, t) \intersect P)

ItemOn(l, t, P, S) ==
  [left |-> LeftOn(l, t, P),
   bad |-> LeftOn(l, t, P) = 0 /\ t.is_debug /\ S[t.last_desc] # "done"]

LEMMA ItemsNow ==
  ItemsInFlight =
    [i \in 1 .. Len(ongoing_transfers) |->
       ItemOn(last_desc_list, ongoing_transfers[i], posted[last_desc_list],
              status[last_desc_list])]
BY DEF ItemsInFlight, Item, Left, TransferDescs, ItemOn, LeftOn, Stretch

LEMMA ItemsNext ==
  ItemsInFlight' =
    [i \in 1 .. Len(ongoing_transfers') |->
       ItemOn(last_desc_list', ongoing_transfers'[i], posted'[last_desc_list'],
              status'[last_desc_list'])]
BY DEF ItemsInFlight, Item, Left, TransferDescs, ItemOn, LeftOn, Stretch

LEMMA LeftNow ==
  ASSUME NEW t
  PROVE  /\ Left(t) = LeftOn(last_desc_list, t, posted[last_desc_list])
         /\ TransferDescs(t) = Stretch(last_desc_list, t)
BY DEF Left, TransferDescs, LeftOn, Stretch

LEMMA ItemsNone ==
  /\ ongoing_transfers = <<>> => ItemsInFlight = <<>>
  /\ ongoing_transfers' = <<>> => ItemsInFlight' = <<>>
<1>1. Len(<<>>) = 0
  BY EmptySeq
<1>2. ASSUME ongoing_transfers = <<>> PROVE ItemsInFlight = <<>>
  <2>1. 1 .. Len(ongoing_transfers) = {}
    BY <1>1, <1>2
  <2> QED
    BY <2>1 DEF ItemsInFlight
<1>3. ASSUME ongoing_transfers' = <<>> PROVE ItemsInFlight' = <<>>
  <2>1. 1 .. Len(ongoing_transfers') = {}
    BY <1>1, <1>3
  <2> QED
    BY <2>1, ItemsNext
<1> QED
  BY <1>2, <1>3

LEMMA ItemsSame ==
  ASSUME UNCHANGED <<last_desc_list, ongoing_transfers, posted, status>>
  PROVE  ItemsInFlight' = ItemsInFlight
BY ItemsNow, ItemsNext

(* The queue is as long as the ring.                                       *)
LEMMA ItemsSeq ==
  ASSUME ongoing_transfers \in Seq(Transfers)
  PROVE  /\ Len(ongoing_transfers) \in Nat
         /\ ItemsInFlight \in Seq({Item(ongoing_transfers[i]) : i \in 1 .. Len(ongoing_transfers)})
         /\ Len(ItemsInFlight) = Len(ongoing_transfers)
         /\ \A i \in 1 .. Len(ongoing_transfers) : ItemsInFlight[i] = Item(ongoing_transfers[i])
<1>1. Len(ongoing_transfers) \in Nat
  BY LenProperties
<1> QED
  BY <1>1 DEF ItemsInFlight

LEMMA ItemParts ==
  ASSUME NEW t
  PROVE  /\ Item(t).left = Left(t)
         /\ Item(t).bad <=>
              /\ Left(t) = 0 /\ t.is_debug
              /\ status[last_desc_list][t.last_desc] # "done"
BY Zenon DEF Item

(* Steps that leave the transfers alone keep them contiguous.              *)
LEMMA FirstsUnchanged ==
  ASSUME FirstsFollow, UNCHANGED <<num_proc, last_desc_list, ongoing_transfers>>
  PROVE  FirstsFollow'
BY DEF FirstsFollow, Off

LEMMA FirstsNone ==
  ASSUME ongoing_transfers' = <<>> PROVE FirstsFollow'
<1>1. Len(<<>>) = 0
  BY EmptySeq
<1> QED
  BY <1>1 DEF FirstsFollow

(* A rejected launch is an error that leaves the queue alone.              *)
LEMMA QueueRejected ==
  ASSUME QueueInv, NEW l \in Lists, NEW s, NEW buffers, LaunchRejected(l, s, buffers)
  PROVE  FirstsFollow' /\ Queue!LaunchFails
<1>1. /\ last_desc_list' = IF last_desc_list = NoList THEN l ELSE last_desc_list
      /\ UNCHANGED <<num_proc, ongoing_transfers, posted, status, host_regs, irq_data>>
  BY DEF LaunchRejected, AttachList
<1>2. ret' \in Int /\ ret' < 0
  BY DEF LaunchRejected, LaunchCheck, validate_channel_state, EINVAL, EFAULT,
         ECONNRESET, ENONE
<1>3. FirstsFollow' /\ ItemsInFlight' = ItemsInFlight
  <2>1. CASE last_desc_list # NoList
    BY <1>1, <2>1, ItemsSame, FirstsUnchanged DEF QueueInv
  <2>2. CASE last_desc_list = NoList
    <3>1. ongoing_transfers = <<>> /\ ongoing_transfers' = <<>>
      BY <1>1, <2>2 DEF QueueInv, IndInv, NothingUnattached
    <3> QED
      BY <3>1, ItemsNone, FirstsNone
  <2> QED
    BY <2>1, <2>2
<1> QED
  BY <1>1, <1>2, <1>3 DEF Queue!LaunchFails

LEMMA QueueDisable ==
  ASSUME QueueInv, DisableChannel PROVE FirstsFollow' /\ Queue!Drop
<1>1. /\ ongoing_transfers' = <<>> /\ host_regs'.active = host_regs.active
      /\ UNCHANGED <<ret, irq_data>>
  BY DEF DisableChannel, QueueInv, IndInv, TypeOK, HostRegs
<1> QED
  BY <1>1, ItemsNone, FirstsNone DEF Queue!Drop

LEMMA QueueHwStart ==
  ASSUME QueueInv, NEW l \in Lists, HwStart(l) PROVE FirstsFollow' /\ Queue!Start
<1>1. /\ ongoing_transfers = <<>> /\ ongoing_transfers' = <<>>
      /\ ~host_regs.active /\ host_regs'.active = TRUE
      /\ UNCHANGED <<ret, irq_data>>
  BY DEF HwStart
<1> QED
  BY <1>1, ItemsNone, FirstsNone DEF Queue!Start

LEMMA QueueHwStop ==
  ASSUME QueueInv, HwStop PROVE FirstsFollow' /\ Queue!Stop
<1>1. /\ host_regs.active /\ host_regs'.active = FALSE
      /\ UNCHANGED <<num_proc, last_desc_list, ongoing_transfers, posted, status, ret, irq_data>>
  BY DEF HwStop, QueueInv, IndInv, TypeOK, HostRegs
<1> QED
  BY <1>1, ItemsSame, FirstsUnchanged DEF QueueInv, Queue!Stop

(* Descriptors handed to the device by a launch lie behind num_avail.      *)
LEMMA ArcBehind ==
  ASSUME NEW n \in Nat \ {0}, NEW a \in 0 .. n - 1, NEW s \in 0 .. n - 1,
         NEW k \in Nat, Dist(n, a, s) + k < n, NEW d \in Arc(n, s, k)
  PROVE  d \in 0 .. n - 1 /\ Dist(n, a, s) <= Dist(n, a, d)
BY DEF Arc, Dist

(* An accepted launch appends a transfer with everything left to do.       *)
LEMMA QueueAccepted ==
  ASSUME QueueInv, FullContract, NEW l \in Lists, NEW s \in Descs(l),
         NEW buffers, NEW bind, NEW dbg \in BOOLEAN,
         ClientKeeps(l, s, buffers, bind), LaunchAccepted(l, s, buffers, bind, dbg)
  PROVE  FirstsFollow' /\ Queue!Launch
<1> DEFINE n == DescCount[l]
           q == ongoing_transfers
           m == Len(q)
           T == TotalDescs(l, buffers, bind)
           e == LastDesc(l, s, buffers, bind)
           t == NewTransfer(l, s, buffers, bind, dbg)
           A == LaunchedDescs(l, s, buffers, bind)
           bound == IF bind THEN A ELSE {}
           x == [left |-> T, bad |-> FALSE]
<1> USE DEF QueueInv
<1>1. /\ LaunchCheck(l, s, buffers) = ENONE
      /\ last_desc_list' = IF last_desc_list = NoList THEN l ELSE last_desc_list
      /\ ongoing_transfers' = Append(q, t)
      /\ posted' = [posted EXCEPT ![l] = @ \union A]
      /\ status' = [status EXCEPT ![l] =
           [d \in 0 .. U16 - 1 |-> IF d \in bound THEN "none" ELSE @[d]]]
      /\ ret' = T
      /\ UNCHANGED <<num_proc, irq_data>>
  BY DEF LaunchAccepted, AttachList, ProgramTransfer
<1>1a. host_regs'.active = host_regs.active
  BY DEF LaunchAccepted, SetNumAvail, IndInv, TypeOK, HostRegs
<1>2. /\ n \in Nat \ {0} /\ n <= U16 /\ last_desc_list \in {NoList, l} /\ l # NoList
      /\ host_regs.active
      /\ num_avail = s /\ s \in 0 .. n - 1 /\ num_proc \in 0 .. n - 1
      /\ InFlight(l) = Off(n, s) /\ InFlight(l) \in Nat
      /\ m < RingSize - 1
  BY <1>1, AcceptFacts
<1>3. /\ T \in Nat \ {0} /\ T + InFlight(l) < n
      /\ e = (s + (T - 1)) % n /\ A = Arc(n, s, T)
  BY <1>2, LaunchFacts
<1>4. last_desc_list' = l
  BY <1>1, <1>2
<1>5. q \in Seq(Transfers) /\ m \in Nat
  BY LenProperties DEF IndInv, TypeOK, TransfersOK
<1>6. /\ Len(ongoing_transfers') = m + 1
      /\ \A i \in 1 .. m : ongoing_transfers'[i] = q[i]
      /\ ongoing_transfers'[m + 1] = t
  <2> HIDE DEF t
  <2> QED
    BY <1>1, <1>5
<1>7. t.first = s /\ t.last_desc = e /\ t.is_debug = dbg
  BY DEF NewTransfer
<1>8. ASSUME NEW i \in 1 .. m
      PROVE  /\ last_desc_list = l
             /\ q[i].last_desc \in 0 .. n - 1 /\ Off(n, q[i].last_desc) < Off(n, s)
             /\ \A d \in Stretch(l, q[i]) :
                  d \in 0 .. n - 1 /\ Off(n, d) <= Off(n, q[i].last_desc)
             /\ q[i].first \in 0 .. n - 1
             /\ Off(n, q[i].first) = IF i = 1 THEN 0 ELSE Off(n, q[i - 1].last_desc) + 1
  <2>1. q # <<>>
    BY <1>5, EmptySeq
  <2>2. last_desc_list = l
    BY <1>2, <2>1 DEF IndInv, NothingUnattached
  <2>3. Off(n, q[i].last_desc) < Off(n, s) /\ q[i].last_desc \in 0 .. n - 1
    BY <1>2, <2>1, <2>2, LastBeforeAvail, AttachedFacts DEF Descs
  <2>4. \A d \in Stretch(l, q[i]) : d \in 0 .. n - 1 /\ Off(n, d) <= Off(n, q[i].last_desc)
    BY <2>2, LeftFacts, LeftNow
  <2> QED
    BY <1>2, <2>2, <2>3, <2>4 DEF FirstsFollow
<1>9. Off(n, s) = IF m = 0 THEN 0 ELSE Off(n, q[m].last_desc) + 1
  <2>1. CASE m = 0
    <3>1. q = <<>>
      BY <1>5, <2>1, EmptySeq
    <3>2. num_avail = num_proc
      BY <1>2, <3>1 DEF IndInv, NothingUnattached, TransfersInOrder
    <3> QED
      BY <1>2, <2>1, <3>2 DEF Off, Dist
  <2>2. CASE m # 0
    <3>1. q # <<>>
      BY <2>2, EmptySeq
    <3>2. last_desc_list = l
      BY <1>2, <3>1 DEF IndInv, NothingUnattached
    <3> QED
      BY <1>2, <2>2, <3>1, <3>2 DEF IndInv, TransfersInOrder
  <2> QED
    BY <2>1, <2>2
<1>10. /\ posted \in [Lists -> SUBSET Nat] /\ status \in [Lists -> [0 .. U16 - 1 -> Statuses]]
  BY DEF IndInv, TypeOK, DescsOK
<1>11. /\ posted'[l] = posted[l] \union A
       /\ \A d \in 0 .. U16 - 1 : status'[l][d] = IF d \in bound THEN "none" ELSE status[l][d]
  <2> HIDE DEF bound, A
  <2> QED
    BY <1>1, <1>10
<1>12. bound \subseteq A
  OBVIOUS
<1> HIDE DEF n, q, m, T, e, t, A, bound
<1>13. \A y \in 0 .. n - 1 : Off(n, y) \in Nat
  BY <1>2, OffRange
<1>14. \A d \in A : d \in 0 .. n - 1 /\ Off(n, s) <= Off(n, d)
  <2>1. Dist(n, num_proc, s) + T < n
    BY <1>2, <1>3 DEF Off
  <2> QED
    BY <1>2, <1>3, <2>1, ArcBehind DEF Off
<1>15. FirstsFollow'
  <2>1. ASSUME NEW i \in 1 .. m + 1
        PROVE  /\ ongoing_transfers'[i].first \in 0 .. n - 1
               /\ Off(n, ongoing_transfers'[i].first) =
                    IF i = 1 THEN 0 ELSE Off(n, ongoing_transfers'[i - 1].last_desc) + 1
    <3>1. i # 1 => i - 1 \in 1 .. m /\ ongoing_transfers'[i - 1] = q[i - 1]
      BY <1>5, <1>6
    <3>2. CASE i \in 1 .. m
      BY <1>6, <1>8, <3>1, <3>2
    <3>3. CASE i = m + 1
      <4>1. m = 0 <=> i = 1
        BY <1>5, <3>3
      <4>2. i - 1 = m
        BY <1>5, <3>3
      <4> QED
        BY <1>2, <1>6, <1>7, <1>9, <3>1, <3>3, <4>1, <4>2
    <3> QED
      BY <1>5, <3>2, <3>3
  <2> QED
    BY <1>1, <1>4, <1>6, <2>1 DEF FirstsFollow, Off, n
<1>16. ASSUME NEW i \in 1 .. m
       PROVE  ItemOn(l, q[i], posted'[l], status'[l]) = ItemOn(l, q[i], posted[l], status[l])
  <2>1. /\ q[i].last_desc \in 0 .. n - 1 /\ Off(n, q[i].last_desc) < Off(n, s)
        /\ \A d \in Stretch(l, q[i]) : d \in 0 .. n - 1 /\ Off(n, d) <= Off(n, q[i].last_desc)
    BY <1>8
  <2>2. Off(n, q[i].last_desc) \in Nat /\ Off(n, s) \in Nat
    BY <1>2, <1>13, <2>1
  <2>3. Stretch(l, q[i]) \intersect A = {}
    <3> SUFFICES ASSUME NEW d \in Stretch(l, q[i]), d \in A PROVE FALSE
      OBVIOUS
    <3>1. /\ d \in 0 .. n - 1 /\ Off(n, d) <= Off(n, q[i].last_desc)
          /\ Off(n, s) <= Off(n, d)
      BY <1>14, <2>1
    <3>2. Off(n, d) \in Nat
      BY <1>13, <3>1
    <3> QED
      BY <2>1, <2>2, <3>1, <3>2
  <2>4. Stretch(l, q[i]) \intersect posted'[l] = Stretch(l, q[i]) \intersect posted[l]
    BY <1>11, <2>3
  <2>5. q[i].last_desc \notin A
    BY <1>14, <2>1, <2>2
  <2>6. q[i].last_desc \in 0 .. U16 - 1
    BY <1>2, <2>1, SizesAssumption
  <2>7. status'[l][q[i].last_desc] = status[l][q[i].last_desc]
    BY <1>11, <1>12, <2>5, <2>6
  <2> QED
    BY <2>4, <2>7 DEF ItemOn, LeftOn
<1>17. ItemOn(l, t, posted'[l], status'[l]) = x
  <2>1. Dist(n, s, e) = T - 1
    <3>1. Dist(n, s, s) = 0
      BY <1>2 DEF Dist
    <3>2. T - 1 \in Nat /\ Dist(n, s, s) + (T - 1) < n
      BY <1>2, <1>3, <3>1
    <3>3. Dist(n, s, (s + (T - 1)) % n) = Dist(n, s, s) + (T - 1)
      BY <1>2, <3>2, DistPlus
    <3> QED
      BY <1>3, <3>1, <3>2, <3>3
  <2>2. Stretch(l, t) = A
    <3>1. Dist(n, s, e) + 1 = T
      BY <1>3, <2>1
    <3>2. Stretch(l, t) = Arc(n, t.first, Dist(n, t.first, t.last_desc) + 1)
      BY DEF Stretch, n
    <3> QED
      BY <1>3, <1>7, <3>1, <3>2
  <2>3. Stretch(l, t) \intersect posted'[l] = A
    BY <1>11, <2>2
  <2>4. LeftOn(l, t, posted'[l]) = T
    <3>1. T \in Nat /\ T <= n
      BY <1>2, <1>3
    <3> QED
      BY <1>2, <1>3, <2>3, <3>1, ArcSize DEF LeftOn
  <2>5. ~(T = 0)
    BY <1>3
  <2> QED
    BY <2>4, <2>5 DEF ItemOn
<1>18. ItemsInFlight' = Append(ItemsInFlight, x)
  <2> DEFINE old == ItemsInFlight
             new == ItemsInFlight'
             V == {old[i] : i \in 1 .. m} \union {x}
  <2>1. new = [i \in 1 .. m + 1 |-> ItemOn(l, ongoing_transfers'[i], posted'[l], status'[l])]
    BY <1>4, <1>6, ItemsNext
  <2>2. \A i \in 1 .. m : old[i] = ItemOn(l, q[i], posted[l], status[l])
    BY <1>8, ItemsNow DEF q, m
  <2>3. old \in Seq(V) /\ Len(old) = m
    <3>1. Len(old) = m /\ old = [i \in 1 .. m |-> old[i]]
      BY <1>5, ItemsSeq DEF q, m, ItemsInFlight
    <3> HIDE DEF old
    <3> QED
      BY <1>5, <3>1
  <2> HIDE DEF old, x
  <2>4. /\ Append(old, x) \in Seq(V) /\ Len(Append(old, x)) = m + 1
        /\ \A i \in 1 .. m : Append(old, x)[i] = old[i]
        /\ Append(old, x)[m + 1] = x
    <3>1. x \in V
      OBVIOUS
    <3> HIDE DEF V
    <3> QED
      BY <2>3, <3>1, AppendProperties
  <2>5. ASSUME NEW i \in 1 .. m + 1
        PROVE  ItemOn(l, ongoing_transfers'[i], posted'[l], status'[l]) =
                 IF i = m + 1 THEN x ELSE old[i]
    <3>1. CASE i = m + 1
      BY <1>6, <1>17, <3>1
    <3>2. CASE i # m + 1
      <4>1. i \in 1 .. m
        BY <1>5, <3>2
      <4> QED
        BY <1>6, <1>16, <2>2, <3>2, <4>1
    <3> QED
      BY <3>1, <3>2
  <2>6. new \in Seq(V) /\ Len(new) = m + 1 /\ \A i \in 1 .. m + 1 : new[i] = Append(old, x)[i]
    <3> DEFINE w(i) == IF i = m + 1 THEN x ELSE old[i]
    <3>1. new = [i \in 1 .. m + 1 |-> w(i)]
      BY <2>1, <2>5
    <3>2. \A i \in 1 .. m + 1 : w(i) \in V /\ w(i) = Append(old, x)[i]
      <4>1. \A i \in 1 .. m + 1 : i = m + 1 \/ i \in 1 .. m
        BY <1>5
      <4> QED
        BY <2>4, <4>1
    <3> HIDE DEF w, V, new
    <3>3. new \in Seq(V) /\ Len(new) = m + 1
      BY <1>5, <3>1, <3>2
    <3>4. \A i \in 1 .. m + 1 : new[i] = w(i)
      BY <3>1
    <3> QED
      BY <3>2, <3>3, <3>4
  <2>7. new = Append(old, x)
    <3> HIDE DEF V, new
    <3> QED
      BY <2>4, <2>6, SeqEqual
  <2> QED
    BY <2>7 DEF old
<1>19. Len(ItemsInFlight) < RingSize - 1
  BY <1>2, <1>5, ItemsSeq DEF q, m
<1> QED
  BY <1>1, <1>1a, <1>2, <1>3, <1>15, <1>18, <1>19 DEF Queue!Launch

(* fill_channel_irq_data takes off the transfers that are finished.        *)
LEMMA FinishedIsReaped ==
  ASSUME QueueInv
  PROVE  /\ Queue!Finished = 1 .. Reaped
         /\ \A i \in 1 .. Reaped : Left(ongoing_transfers[i]) = 0
<1> DEFINE q == ongoing_transfers
           m == Len(q)
           r == Reaped
<1> USE DEF QueueInv
<1>1. /\ q \in Seq(Transfers) /\ m \in Nat /\ r \in 0 .. m
      /\ \A j \in 1 .. r : Complete(j)
      /\ r < m => ~Complete(r + 1)
  BY ReapedFacts, LenProperties DEF IndInv, TypeOK, TransfersOK
<1>2. ASSUME NEW i \in 1 .. m, \A j \in 1 .. i - 1 : Complete(j)
      PROVE  Complete(i) <=> Left(q[i]) = 0
  BY <1>2, CompleteIff, LeftFacts
<1>3. Queue!Finished = {i \in 1 .. m : \A j \in 1 .. i : Left(q[j]) = 0}
  <2>1. Len(ItemsInFlight) = m /\ \A j \in 1 .. m : ItemsInFlight[j].left = Left(q[j])
    BY <1>1, ItemsSeq, ItemParts
  <2>2. \A i \in 1 .. m : \A j \in 1 .. i : j \in 1 .. m
    BY <1>1
  <2> QED
    BY <2>1, <2>2 DEF Queue!Finished
<1> HIDE DEF q, m, r
<1>4. ASSUME NEW i \in 1 .. r PROVE Left(q[i]) = 0
  <2>1. i \in 1 .. m /\ \A j \in 1 .. i - 1 : Complete(j)
    BY <1>1
  <2> QED
    BY <1>1, <1>2, <2>1
<1>5. ASSUME r < m PROVE r + 1 \in 1 .. m /\ Left(q[r + 1]) # 0
  <2>1. r + 1 \in 1 .. m /\ \A j \in 1 .. (r + 1) - 1 : Complete(j)
    BY <1>1, <1>5
  <2> QED
    BY <1>1, <1>2, <1>5, <2>1
<1>6. ASSUME NEW i \in 1 .. m PROVE (\A j \in 1 .. i : Left(q[j]) = 0) <=> i \in 1 .. r
  <2>1. CASE i \in 1 .. r
    <3>1. \A j \in 1 .. i : j \in 1 .. r
      BY <1>1, <2>1
    <3> QED
      BY <1>4, <2>1, <3>1
  <2>2. CASE i \notin 1 .. r
    <3>1. r < m /\ r + 1 \in 1 .. i
      BY <1>1, <2>2
    <3> QED
      BY <1>5, <2>2, <3>1
  <2> QED
    BY <2>1, <2>2
<1>7. \A i \in 1 .. r : i \in 1 .. m
  BY <1>1
<1> QED
  BY <1>3, <1>4, <1>6, <1>7 DEF q, r

LEMMA QueueFill ==
  ASSUME QueueInv, FillChannelIrqData PROVE FirstsFollow' /\ Queue!ReadInterrupts
<1> DEFINE l == last_desc_list
           n == DescCount[l]
           q == ongoing_transfers
           m == Len(q)
           r == Reaped
           last(k) == q[k].last_desc
<1> USE DEF QueueInv
<1>1. /\ l # NoList /\ last_desc_list' = l
      /\ ongoing_transfers' = SubSeq(q, r + 1, m)
      /\ r = 0 => num_proc' = num_proc
      /\ irq_data' = IF ~host_regs.active THEN NOT_ACTIVE
                     ELSE IF \E i \in 1 .. r : FailsValidation(i) THEN WITH_ERROR
                     ELSE r
      /\ UNCHANGED <<status, posted, host_regs, ret>>
  BY DEF FillChannelIrqData
<1>2. q \in Seq(Transfers) /\ m \in Nat /\ r \in 0 .. m
  BY ReapedFacts, LenProperties DEF IndInv, TypeOK, TransfersOK
<1>3. /\ Len(ongoing_transfers') = m - r
      /\ \A k \in 1 .. m - r : ongoing_transfers'[k] = q[k + r]
  <2> HIDE DEF q, r, m
  <2>1. SubSeq(q, r + 1, m) = [k \in 1 .. m - r |-> q[k + r]]
    BY <1>2 DEF m
  <2> QED
    BY <1>1, <1>2, <2>1
<1>4. Queue!Finished = 1 .. r /\ \A i \in 1 .. r : Left(q[i]) = 0
  BY FinishedIsReaped
<1>6. Len(ItemsInFlight) = m /\ \A i \in 1 .. m : ItemsInFlight[i] = Item(q[i])
  BY <1>2, ItemsSeq
<1>7. \A i \in 1 .. r : ItemsInFlight[i].bad <=> FailsValidation(i)
  <2> TAKE i \in 1 .. r
  <2>1. i \in 1 .. m
    BY <1>2
  <2> QED
    BY <1>4, <1>6, <2>1, ItemParts, Zenon DEF FailsValidation
<1>8. \A i \in 1 .. m :
        /\ q[i].first \in 0 .. n - 1
        /\ Off(n, q[i].first) = IF i = 1 THEN 0 ELSE Off(n, last(i - 1)) + 1
  BY <1>1 DEF FirstsFollow
<1>9. \A i \in 1 .. m : last(i) \in 0 .. n - 1 /\ num_proc \in 0 .. n - 1 /\ n \in Nat \ {0}
  <2> TAKE i \in 1 .. m
  <2>1. q # <<>>
    BY <1>2, EmptySeq
  <2> QED
    BY <2>1, AttachedFacts DEF Descs
<1>10. \A i, j \in 1 .. m : i < j => Off(n, last(i)) < Off(n, last(j))
  BY <1>1 DEF IndInv, TransfersInOrder
<1>11. r # 0 => /\ Off(n, last(r)) \in Nat
                /\ \A x \in 0 .. n - 1 : Off(n, last(r)) < Off(n, x) =>
                     Dist(n, num_proc', x) = Off(n, x) - Off(n, last(r)) - 1
  BY FillShift
<1> HIDE DEF n, q, m, r, last
<1>12. ItemsInFlight' = SubSeq(ItemsInFlight, r + 1, m)
  <2> DEFINE old == ItemsInFlight
  <2>1. \A i \in 1 .. m : old[i] = ItemOn(l, q[i], posted[l], status[l])
    BY ItemsNow DEF q, m
  <2>2. ItemsInFlight' = [k \in 1 .. m - r |-> ItemOn(l, q[k + r], posted[l], status[l])]
    BY <1>1, <1>3, ItemsNext
  <2>3. \A k \in 1 .. m - r : k + r \in 1 .. m
    BY <1>2
  <2>4. ItemsInFlight' = [k \in 1 .. m - r |-> old[k + r]]
    BY <2>1, <2>2, <2>3
  <2>5. SubSeq(old, r + 1, m) = [k \in 1 .. m - r |-> old[k + r]]
    <3>1. old \in Seq({old[i] : i \in 1 .. m}) /\ Len(old) = m
      <4>1. old = [i \in 1 .. m |-> old[i]]
        BY DEF ItemsInFlight, q, m
      <4> HIDE DEF old
      <4> QED
        BY <1>2, <4>1
    <3> HIDE DEF old
    <3> QED
      BY <1>2, <3>1
  <2> QED
    BY <2>4, <2>5
<1>13. Queue!ReadInterrupts
  <2>1. (\E i \in 1 .. r : ItemsInFlight[i].bad) <=> \E i \in 1 .. r : FailsValidation(i)
    BY <1>7
  <2> QED
    BY <1>1, <1>2, <1>4, <1>6, <1>12, <2>1
    DEF Queue!ReadInterrupts, Queue!NOT_ACTIVE, Queue!WITH_ERROR, NOT_ACTIVE, WITH_ERROR
<1>14. CASE r = 0
  <2>1. num_proc' = num_proc
    BY <1>1, <1>14
  <2>2. m - r = m /\ \A i \in 1 .. m : i + r = i
    BY <1>2, <1>14
  <2>3. Len(ongoing_transfers') = m /\ \A i \in 1 .. m : ongoing_transfers'[i] = q[i]
    BY <1>3, <2>2
  <2>4. \A i \in 1 .. m : i # 1 => i - 1 \in 1 .. m
    BY <1>2
  <2>5. FirstsFollow'
    BY <1>1, <1>8, <2>1, <2>3, <2>4 DEF FirstsFollow, Off, last, n
  <2> QED
    BY <1>13, <2>5
<1>15. CASE r # 0
  <2> DEFINE o == Off(n, last(r))
             p == num_proc'
  <2>1. ASSUME NEW k \in 1 .. m - r
        PROVE  /\ ongoing_transfers'[k].first \in 0 .. n - 1
               /\ Dist(n, p, ongoing_transfers'[k].first) =
                    IF k = 1 THEN 0 ELSE Dist(n, p, ongoing_transfers'[k - 1].last_desc) + 1
    <3>1. /\ k + r \in 1 .. m /\ (k + r) - 1 \in 1 .. m /\ k + r # 1 /\ r \in 1 .. m
          /\ ongoing_transfers'[k] = q[k + r]
      BY <1>2, <1>3, <1>15
    <3>2. /\ q[k + r].first \in 0 .. n - 1
          /\ Off(n, q[k + r].first) = Off(n, last((k + r) - 1)) + 1
      BY <1>8, <3>1
    <3>3. /\ n \in Nat \ {0} /\ num_proc \in 0 .. n - 1
          /\ last((k + r) - 1) \in 0 .. n - 1 /\ last(r) \in 0 .. n - 1
      BY <1>9, <3>1
    <3>4. o \in Nat /\ Off(n, last((k + r) - 1)) \in Nat /\ Off(n, q[k + r].first) \in Nat
      BY <3>2, <3>3, OffRange
    <3>5. CASE k = 1
      <4>1. (k + r) - 1 = r
        BY <1>2, <3>5
      <4>2. Off(n, q[k + r].first) = o + 1
        BY <3>2, <4>1
      <4>3. o < Off(n, q[k + r].first)
        BY <3>4, <4>2
      <4>4. Dist(n, p, q[k + r].first) = Off(n, q[k + r].first) - o - 1
        BY <1>11, <1>15, <3>2, <4>3
      <4> HIDE DEF o, p
      <4>5. Dist(n, p, q[k + r].first) = 0
        BY <3>4, <4>2, <4>4
      <4> QED
        BY <3>1, <3>2, <3>5, <4>5
    <3>6. CASE k # 1
      <4>1. /\ k - 1 \in 1 .. m - r /\ (k - 1) + r = (k + r) - 1
            /\ r < (k + r) - 1
        BY <1>2, <3>6
      <4>2. ongoing_transfers'[k - 1].last_desc = last((k + r) - 1)
        BY <1>3, <4>1 DEF last
      <4>3. o < Off(n, last((k + r) - 1))
        BY <1>10, <3>1, <4>1
      <4>4. o < Off(n, q[k + r].first)
        BY <3>2, <3>4, <4>3
      <4>5. /\ Dist(n, p, q[k + r].first) = Off(n, q[k + r].first) - o - 1
            /\ Dist(n, p, last((k + r) - 1)) = Off(n, last((k + r) - 1)) - o - 1
        BY <1>11, <1>15, <3>2, <3>3, <4>3, <4>4
      <4> HIDE DEF o, p
      <4>6. Dist(n, p, q[k + r].first) = Dist(n, p, last((k + r) - 1)) + 1
        BY <3>2, <3>4, <4>5
      <4> QED
        BY <3>1, <3>2, <3>6, <4>2, <4>6
    <3> QED
      BY <3>5, <3>6
  <2>2. FirstsFollow'
    BY <1>1, <1>3, <2>1 DEF FirstsFollow, Off, n
  <2> QED
    BY <1>13, <2>2
<1> QED
  BY <1>14, <1>15

(* The device takes one descriptor off the first transfer that is not      *)
(* finished, and off no other.                                             *)
LEMMA ProcessedTransfer ==
  ASSUME QueueInv, HwProcess, ongoing_transfers # <<>>
  PROVE  LET l == last_desc_list
             q == ongoing_transfers
         IN
         \E i \in 1 .. Len(q) :
           /\ NextDesc \in Stretch(l, q[i]) \intersect posted[l]
           /\ \A j \in 1 .. i - 1 : Left(q[j]) = 0
           /\ \A j \in 1 .. Len(q) \ {i} :
                NextDesc \notin Stretch(l, q[j]) /\ q[j].last_desc # NextDesc
<1> DEFINE l == last_desc_list
           n == DescCount[l]
           q == ongoing_transfers
           m == Len(q)
           h == NextDesc
           last(k) == q[k].last_desc
           B == {k \in 1 .. m : ~(Off(n, last(k)) < Off(n, h))}
<1> USE DEF QueueInv
<1>1. /\ l \in Lists /\ l # NoList /\ host_regs.list = l /\ n \in Nat \ {0}
      /\ num_avail \in 0 .. n - 1 /\ num_proc \in 0 .. n - 1
      /\ h \in 0 .. n - 1 /\ h = HwNumProc /\ h = host_regs.num_proc % n
      /\ Descs(l) = 0 .. n - 1
      /\ \A k \in 1 .. m : last(k) \in 0 .. n - 1
  BY AttachedFacts, ListsAssumption DEF Descs, HwNumProc, NextDesc
<1>2. q \in Seq(Transfers) /\ m \in Nat /\ m \in 1 .. m
  <2>1. q \in Seq(Transfers) /\ m \in Nat
    BY LenProperties DEF IndInv, TypeOK, TransfersOK
  <2>2. m # 0
    BY <2>1, EmptySeq
  <2> QED
    BY <2>1, <2>2
<1>3. /\ host_regs.num_avail = num_avail
      /\ Off(n, h) <= Off(n, num_avail)
      /\ posted[l] = {d \in 0 .. n - 1 : Off(n, h) <= Off(n, d) /\ Off(n, d) < Off(n, num_avail)}
  BY <1>1 DEF IndInv, DeviceInStep
<1>4. h # num_avail
  BY <1>3 DEF HwProcess
<1>5. /\ \A j, k \in 1 .. m : j < k => Off(n, last(j)) < Off(n, last(k))
      /\ Off(n, last(m)) + 1 = Off(n, num_avail)
  BY <1>1 DEF IndInv, TransfersInOrder
<1>6. \A k \in 1 .. m :
        /\ q[k].first \in 0 .. n - 1
        /\ Off(n, q[k].first) = IF k = 1 THEN 0 ELSE Off(n, last(k - 1)) + 1
  BY <1>1 DEF FirstsFollow
<1>7. \A k \in 1 .. m : /\ Left(q[k]) = 0 <=> Off(n, last(k)) < Off(n, h)
                        /\ \A d : d \in Stretch(l, q[k]) <=>
                             /\ d \in 0 .. n - 1
                             /\ Off(n, q[k].first) <= Off(n, d) /\ Off(n, d) <= Off(n, last(k))
  BY <1>1, LeftFacts, LeftNow, ZenonT(40)
<1> HIDE DEF l, n, q, m, h, last
<1>8. \A x \in 0 .. n - 1 : Off(n, x) \in Nat
  BY <1>1, OffRange
<1>9. Off(n, h) < Off(n, num_avail)
  <2>1. Off(n, h) # Off(n, num_avail)
    BY <1>1, <1>4, DistInjective DEF Off
  <2> QED
    BY <1>1, <1>3, <1>8, <2>1
<1>9a. \A k \in 1 .. m : Off(n, last(k)) \in Nat
  BY <1>1, <1>8
<1>9b. Off(n, h) \in Nat
  BY <1>1, <1>8
<1>10. m \in B /\ B \in SUBSET Nat
  <2>1. ~(Off(n, last(m)) < Off(n, h))
    BY <1>2, <1>5, <1>9, <1>9a, <1>9b
  <2> QED
    BY <1>2, <2>1
<1> HIDE DEF B
<1>11. PICK i \in B : \A k \in B : i <= k
  BY <1>10, LeastNat
<1>12. i \in 1 .. m /\ Off(n, h) <= Off(n, last(i))
  <2>1. i \in 1 .. m /\ ~(Off(n, last(i)) < Off(n, h))
    BY <1>11 DEF B
  <2> QED
    BY <1>9a, <1>9b, <2>1
<1>13. ASSUME NEW j \in 1 .. i - 1
       PROVE  j \in 1 .. m /\ Off(n, last(j)) < Off(n, h)
  <2>1. j \in 1 .. m /\ ~(i <= j)
    BY <1>2, <1>12
  <2> QED
    BY <1>11, <2>1 DEF B
<1>14. Off(n, q[i].first) <= Off(n, h)
  <2>1. CASE i = 1
    BY <1>6, <1>9b, <1>12, <2>1
  <2>2. CASE i # 1
    <3>1. i - 1 \in 1 .. i - 1
      BY <1>2, <1>12, <2>2
    <3>2. i - 1 \in 1 .. m /\ Off(n, last(i - 1)) < Off(n, h)
      BY <1>13, <3>1
    <3>3. Off(n, last(i - 1)) \in Nat
      BY <1>9a, <3>2
    <3> QED
      BY <1>6, <1>9b, <1>12, <2>2, <3>2, <3>3
  <2> QED
    BY <2>1, <2>2
<1>15. h \in Stretch(l, q[i]) \intersect posted[l]
  <2>1. h \in Stretch(l, q[i])
    BY <1>1, <1>7, <1>12, <1>14
  <2>2. h \in posted[l]
    BY <1>1, <1>3, <1>9, <1>9b
  <2> QED
    BY <2>1, <2>2
<1>16. ASSUME NEW j \in 1 .. m \ {i}
       PROVE  h \notin Stretch(l, q[j]) /\ last(j) # h
  <2>1. j \in 1 .. m /\ Off(n, last(j)) \in Nat
    BY <1>9a
  <2>2. CASE j < i
    <3>1. j \in 1 .. i - 1
      BY <1>2, <1>12, <2>1, <2>2
    <3>2. Off(n, last(j)) < Off(n, h)
      BY <1>13, <3>1
    <3> QED
      BY <1>7, <1>9b, <2>1, <3>2
  <2>3. CASE i < j
    <3>1. j - 1 \in 1 .. m /\ j # 1 /\ (j - 1 = i \/ i < j - 1)
      BY <1>2, <1>12, <2>1, <2>3
    <3>2. Off(n, last(j - 1)) \in Nat /\ Off(n, last(i)) \in Nat
      BY <1>9a, <1>12, <3>1
    <3>3. Off(n, last(i)) <= Off(n, last(j - 1))
      BY <1>5, <1>12, <3>1, <3>2
    <3>4. Off(n, q[j].first) = Off(n, last(j - 1)) + 1
      BY <1>6, <2>1, <3>1
    <3>5. ~(Off(n, q[j].first) <= Off(n, h))
      BY <1>9b, <1>12, <3>2, <3>3, <3>4
    <3>6. Off(n, last(i)) < Off(n, last(j))
      BY <1>5, <1>12, <2>1, <2>3
    <3>7. Off(n, h) < Off(n, last(j))
      BY <1>9b, <1>12, <2>1, <3>2, <3>6
    <3> QED
      BY <1>7, <1>9b, <2>1, <3>5, <3>7
  <2> QED
    BY <1>2, <1>12, <2>1, <2>2, <2>3
<1>17. \A j \in 1 .. i - 1 : Left(q[j]) = 0
  BY <1>7, <1>13
<1>18. \A j \in 1 .. m \ {i} : h \notin Stretch(l, q[j]) /\ q[j].last_desc # h
  BY <1>16 DEF last
<1> QED
  BY <1>12, <1>15, <1>17, <1>18 DEF l, q, m, h

LEMMA QueueProcess ==
  ASSUME QueueInv, HwProcess
  PROVE  FirstsFollow' /\ (Queue!Process \/ UNCHANGED Queue!vars)
<1> DEFINE l == last_desc_list
           q == ongoing_transfers
           m == Len(q)
           h == NextDesc
<1> USE DEF QueueInv
<1>1. /\ host_regs.active /\ host_regs'.active = host_regs.active
      /\ UNCHANGED <<num_proc, last_desc_list, ongoing_transfers, ret, irq_data>>
  BY DEF HwProcess, IndInv, TypeOK, HostRegs
<1>2. FirstsFollow'
  BY <1>1, FirstsUnchanged
<1>3. CASE q = <<>>
  <2>1. ItemsInFlight' = ItemsInFlight
    BY <1>1, <1>3, ItemsNone
  <2> QED
    BY <1>1, <1>2, <2>1 DEF Queue!vars
<1>4. CASE q # <<>>
  <2>1. l \in Lists /\ host_regs.list = l
    BY <1>4, AttachedFacts
  <2>2. q \in Seq(Transfers) /\ m \in Nat
    BY LenProperties DEF IndInv, TypeOK, TransfersOK
  <2>3. PICK i \in 1 .. m :
          /\ h \in Stretch(l, q[i]) \intersect posted[l]
          /\ \A j \in 1 .. i - 1 : Left(q[j]) = 0
          /\ \A j \in 1 .. m \ {i} : h \notin Stretch(l, q[j]) /\ q[j].last_desc # h
    BY <1>4, ProcessedTransfer
  <2>4. posted'[l] = posted[l] \ {h}
    BY <2>1 DEF HwProcess, IndInv, TypeOK, DescsOK
  <2>5. \A d \in 0 .. U16 - 1 : d # h => status'[l][d] = status[l][d]
    <3>1. \/ status' = status
          \/ \E st \in {"done", "error"} : status' = [status EXCEPT ![l][h] = st]
      BY <2>1 DEF HwProcess
    <3>2. status \in [Lists -> [0 .. U16 - 1 -> Statuses]]
      BY DEF IndInv, TypeOK, DescsOK
    <3>3. status[l] \in [0 .. U16 - 1 -> Statuses]
      BY <2>1, <3>2
    <3> HIDE DEF l, h
    <3>4. CASE status' = status
      BY <3>4
    <3>5. ASSUME NEW st, status' = [status EXCEPT ![l][h] = st]
          PROVE  \A d \in 0 .. U16 - 1 : d # h => status'[l][d] = status[l][d]
      <4>1. status'[l] = [status[l] EXCEPT ![h] = st]
        BY <2>1, <3>2, <3>5
      <4> QED
        BY <3>3, <4>1
    <3> QED
      BY <3>1, <3>4, <3>5
  <2>6. \A j \in 1 .. m : q[j].last_desc \in 0 .. U16 - 1
    <3> TAKE j \in 1 .. m
    <3>1. q[j].last_desc \in 0 .. DescCount[l] - 1
      BY <1>4, AttachedFacts DEF Descs
    <3>2. DescCount[l] \in Nat /\ U16 \in Nat /\ DescCount[l] <= U16
      BY <2>1, ListsAssumption, SizesAssumption
    <3> QED
      BY <3>1, <3>2
  <2>7. /\ IsFiniteSet(Stretch(l, q[i]) \intersect posted[l])
        /\ Left(q[i]) = Cardinality(Stretch(l, q[i]) \intersect posted[l])
    BY LeftFacts, LeftNow DEF LeftOn
  <2>8. Len(ItemsInFlight) = m /\ \A j \in 1 .. m : ItemsInFlight[j].left = Left(q[j])
    BY <2>2, ItemsSeq, ItemParts
  <2> DEFINE old == ItemsInFlight
             new == ItemsInFlight'
             w == old[i].left - 1
             wrong == w = 0 /\ q[i].is_debug /\ status'[l][q[i].last_desc] # "done"
  <2>9. \A j \in 1 .. m : old[j] = ItemOn(l, q[j], posted[l], status[l])
    BY ItemsNow
  <2>10. new = [j \in 1 .. m |-> ItemOn(l, q[j], posted'[l], status'[l])]
    BY <1>1, ItemsNext
  <2>11. old = [j \in 1 .. m |-> old[j]]
    BY DEF ItemsInFlight
  <2> HIDE DEF l, q, m, h, old, new
  <2>12. old[i].left \in Nat \ {0} /\ LeftOn(l, q[i], posted'[l]) = w
    <3>1. old[i].left = Cardinality(Stretch(l, q[i]) \intersect posted[l])
      BY <2>7, <2>8 DEF old
    <3> DEFINE W == Stretch(l, q[i]) \intersect posted[l]
    <3>2. IsFiniteSet(W) /\ h \in W
      BY <2>3, <2>7
    <3>3. Stretch(l, q[i]) \intersect posted'[l] = W \ {h}
      BY <2>4
    <3> HIDE DEF W
    <3>4. Cardinality(W \ {h}) = Cardinality(W) - 1
      BY <3>2, FS_RemoveElement
    <3>5. Cardinality(W) \in Nat /\ Cardinality(W) # 0
      BY <3>2, FS_CardinalityType, FS_EmptySet
    <3> QED
      BY <3>1, <3>3, <3>4, <3>5 DEF W, LeftOn
  <2>13. ItemOn(l, q[i], posted'[l], status'[l]) = [left |-> w, bad |-> wrong]
    BY <2>12, Zenon DEF ItemOn
  <2>14. ASSUME NEW j \in 1 .. m, j # i
         PROVE  ItemOn(l, q[j], posted'[l], status'[l]) = old[j]
    <3>1. h \notin Stretch(l, q[j]) /\ q[j].last_desc # h
      BY <2>3, <2>14
    <3>2. Stretch(l, q[j]) \intersect posted'[l] = Stretch(l, q[j]) \intersect posted[l]
      BY <2>4, <3>1
    <3>3. status'[l][q[j].last_desc] = status[l][q[j].last_desc]
      BY <2>5, <2>6, <3>1
    <3> QED
      BY <2>9, <3>2, <3>3 DEF ItemOn, LeftOn
  <2>15. wrong \in BOOLEAN /\ (old[i].left # 1 => wrong = FALSE)
    <3>1. wrong \in BOOLEAN
      OBVIOUS
    <3>2. old[i].left # 1 => ~wrong
      BY <2>12
    <3> QED
      BY <3>1, <3>2
  <2> HIDE DEF wrong
  <2>16. new = [old EXCEPT ![i] = [left |-> @.left - 1, bad |-> wrong]]
    <3>1. \A j \in 1 .. m : ItemOn(l, q[j], posted'[l], status'[l]) =
                              IF j = i THEN [left |-> w, bad |-> wrong] ELSE old[j]
      BY <2>13, <2>14
    <3>2. new = [j \in 1 .. m |-> IF j = i THEN [left |-> w, bad |-> wrong] ELSE old[j]]
      BY <2>10, <3>1
    <3> QED
      BY <2>3, <2>11, <3>2
  <2>17. i \in Queue!Current
    <3>1. \A j \in 1 .. i - 1 : j \in 1 .. m
      BY <2>2, <2>3
    <3>2. old[i].left > 0 /\ \A j \in 1 .. i - 1 : old[j].left = 0
      BY <2>3, <2>8, <2>12, <3>1 DEF old
    <3> QED
      BY <2>3, <2>8, <3>2 DEF Queue!Current, old
  <2>18. wrong \in IF old[i].left = 1 THEN BOOLEAN ELSE {FALSE}
    BY <2>15
  <2> QED
    BY <1>1, <1>2, <2>16, <2>17, <2>18 DEF Queue!Process, old, new
<1> QED
  BY <1>3, <1>4

LEMMA QueueNextStep ==
  ASSUME QueueInv, FullContract, [Next]_vars
  PROVE  QueueInv' /\ [Queue!Next]_(Queue!vars)
<1>0. SUFFICES FirstsFollow' /\ [Queue!Next]_(Queue!vars)
  BY NextStep DEF QueueInv
<1> USE DEF Queue!Next
<1>1. ASSUME NEW l \in Lists, NEW buffers \in BufferSeqs, NEW bind \in BindModes,
             NEW dbg \in DebugModes, NEW s \in Descs(l),
             LaunchTransfer(l, s, buffers, bind, dbg)
      PROVE  FirstsFollow' /\ [Queue!Next]_(Queue!vars)
  <2>1. dbg \in BOOLEAN /\ ClientKeeps(l, s, buffers, bind)
    BY <1>1, InputsAssumption DEF LaunchTransfer
  <2>2. CASE LaunchRejected(l, s, buffers)
    BY <2>2, QueueRejected
  <2>3. CASE LaunchRingFull(l, s, buffers, bind)
    <3>1. Len(ongoing_transfers) = RingSize - 1 /\ LaunchCheck(l, s, buffers) = ENONE
      BY <2>3 DEF LaunchRingFull
    <3>2. Len(ongoing_transfers) < RingSize - 1
      BY <2>1, <3>1, AcceptFacts DEF QueueInv
    <3> QED
      BY <3>1, <3>2, SizesAssumption
  <2>4. CASE LaunchAccepted(l, s, buffers, bind, dbg)
    BY <2>1, <2>4, QueueAccepted
  <2> QED
    BY <1>1, <2>2, <2>3, <2>4 DEF LaunchTransfer
<1>2. CASE DisableChannel
  BY <1>2, QueueDisable
<1>3. CASE FillChannelIrqData
  BY <1>3, QueueFill
<1>4. ASSUME NEW l \in Lists, HwStart(l)
      PROVE  FirstsFollow' /\ [Queue!Next]_(Queue!vars)
  BY <1>4, QueueHwStart
<1>5. CASE HwStop
  BY <1>5, QueueHwStop
<1>6. CASE HwProcess
  BY <1>6, QueueProcess
<1>7. CASE EnableChannel \/ UNCHANGED vars
  <2>1. UNCHANGED <<num_proc, last_desc_list, ongoing_transfers, posted, status,
                    host_regs, ret, irq_data>>
    BY <1>7 DEF EnableChannel, vars
  <2>2. FirstsFollow' /\ ItemsInFlight' = ItemsInFlight
    BY <2>1, ItemsSame, FirstsUnchanged DEF QueueInv
  <2> QED
    BY <2>1, <2>2 DEF Queue!vars
<1> QED
  BY <1>1, <1>2, <1>3, <1>4, <1>5, <1>6, <1>7 DEF Next

(* For a client that keeps its contract the driver, its circular list and  *)
(* its counters are a FIFO of transfers: every step of the channel is a    *)
(* step of TransferQueue or changes nothing of it.                         *)
THEOREM QueueCorrect == FullContract => (Spec => ImplementsQueue)
<1> SUFFICES ASSUME FullContract PROVE Spec => ImplementsQueue
  OBVIOUS
<1>1. Init => QueueInv /\ Queue!Init
  <2> SUFFICES ASSUME Init PROVE QueueInv /\ Queue!Init
    OBVIOUS
  <2>1. IndInv
    BY InitIndInv
  <2>2. FirstsFollow
    BY DEF Init, FirstsFollow
  <2>3. ItemsInFlight = <<>>
    BY ItemsNone DEF Init
  <2>4. host_regs.active = FALSE /\ ret = 0 /\ irq_data = 0
    BY DEF Init
  <2> QED
    BY <2>1, <2>2, <2>3, <2>4 DEF QueueInv, Queue!Init
<1>2. QueueInv /\ [Next]_vars => QueueInv' /\ [Queue!Next]_(Queue!vars)
  BY QueueNextStep
<1> QED
  BY <1>1, <1>2, PTL DEF Spec, ImplementsQueue, Queue!Spec

=============================================================================
