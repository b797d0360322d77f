---------------------------- MODULE BoardProofs ----------------------------
(***************************************************************************)
(* Proofs about BoardLifecycle and SocBoard, for every set of files and    *)
(* channels, in an environment that keeps the contracts, and about the     *)
(* list of all boards (BoardList), which shares no state with them.        *)
(***************************************************************************)
EXTENDS SocBoard, BoardList, FiniteSetTheorems, SequenceTheorems, WellFoundedInduction,
        TLAPS

(* All that the driver leaves to luck goes well.                           *)
FullContract == Contract = Clauses

Counted == {f \in Files : pc[f] \notin {"closed", "free"}}
HasContext == {"user", "release"} \union InIoctl

(* TypeOK but for the mutex, which a board's services hold for longer.     *)
BoardTypes ==
  /\ pc \in [Files -> HasBoard \union {"closed"}]
  /\ context \in [Files -> {"none", "valid", "invalid"}]
  /\ channels \subseteq Files
  /\ used_by_filp \in Files \union {NoFile}
  /\ ref_count \in Nat
  /\ interrupts_enabled \in BOOLEAN /\ power \in {"D0", "D3hot"}
  /\ present \in BOOLEAN /\ listed \in BOOLEAN /\ engines \in BOOLEAN
  /\ freed \in Nat
  /\ remover \in {"idle", "unlist", "drop", "count", "return", "done"}
  /\ suspended \in BOOLEAN

(* The count is that of the files that have the board.                     *)
FilesCounted ==
  /\ ref_count = Cardinality(Counted)
  /\ \A f \in Files : context[f] # "none" <=> pc[f] \in HasContext
  /\ used_by_filp # NoFile => context[used_by_filp] # "none"

(* How far the removal has come says what is left of the device, and who   *)
(* may still be about: opens come before it, and the file that will free   *)
(* the board is alone with it after it.                                    *)
RemovalOrder ==
  /\ present <=> remover \in {"idle", "unlist", "drop"}
  /\ listed <=> remover \in {"idle", "unlist"}
  /\ suspended => remover = "idle"
  /\ \A f \in Files : pc[f] \in Opening => remover = "idle"
  /\ \A f \in Files : pc[f] = "free" =>
       remover \in {"return", "done"} /\ \A g \in Files \ {f} : pc[g] = "closed"

(* Interrupts are on for somebody.                                         *)
InterruptsOwned ==
  /\ interrupts_enabled => present /\ \E f \in Files : context[f] # "none"
  /\ suspended => \A f \in Files : context[f] # "valid"

BoardInv ==
  /\ BoardTypes /\ FilesCounted /\ RemovalOrder /\ InterruptsOwned
  /\ FreedExactlyOnce /\ DeviceFollowsFiles

(* The removal is all that holds the mutex between two steps.              *)
MutexInv ==
  /\ mutex \in {0, 1}
  /\ mutex = 0 <=> remover \in {"unlist", "drop"}

boardVars == <<pc, context, channels, used_by_filp, ref_count, interrupts_enabled,
               power, present, listed, engines, freed, remover, suspended>>

----------------------------------------------------------------------------
(* How the files that are counted change with the place of one.            *)
LEMMA CountedFinite ==
  /\ IsFiniteSet(Counted)
  /\ Cardinality(Counted) \in Nat
  /\ Cardinality(Counted) = 0 <=> Counted = {}
<1>1. IsFiniteSet(Counted)
  BY FilesAssumption, FS_Subset DEF Counted
<1> QED
  BY <1>1, FS_CardinalityType, FS_EmptySet

LEMMA CountedSame ==
  ASSUME pc \in [Files -> HasBoard \union {"closed"}],
         NEW f \in Files, NEW place, pc' = [pc EXCEPT ![f] = place],
         pc[f] \in {"closed", "free"} <=> place \in {"closed", "free"}
  PROVE  Counted' = Counted
BY DEF Counted

LEMMA CountedMore ==
  ASSUME pc \in [Files -> HasBoard \union {"closed"}],
         NEW f \in Files, NEW place, pc' = [pc EXCEPT ![f] = place],
         pc[f] \in {"closed", "free"}, place \notin {"closed", "free"}
  PROVE  Cardinality(Counted') = Cardinality(Counted) + 1
<1>1. Counted' = Counted \union {f} /\ f \notin Counted
  BY DEF Counted
<1> QED
  BY <1>1, CountedFinite, FS_AddElement

LEMMA CountedLess ==
  ASSUME pc \in [Files -> HasBoard \union {"closed"}],
         NEW f \in Files, NEW place, pc' = [pc EXCEPT ![f] = place],
         pc[f] \notin {"closed", "free"}, place \in {"closed", "free"}
  PROVE  /\ Cardinality(Counted') = Cardinality(Counted) - 1
         /\ Cardinality(Counted) >= 1
         /\ Cardinality(Counted) = 1 => Counted = {f}
         /\ Cardinality(Counted) # 1 => \E g \in Files \ {f} : pc[g] \notin {"closed", "free"}
<1>1. Counted' = Counted \ {f} /\ f \in Counted
  BY DEF Counted
<1>2. Cardinality(Counted') = Cardinality(Counted) - 1
  BY <1>1, CountedFinite, FS_RemoveElement
<1>3. IsFiniteSet(Counted') /\ Cardinality(Counted') \in Nat
      /\ (Cardinality(Counted') = 0 <=> Counted' = {})
  BY <1>1, CountedFinite, FS_RemoveElement, FS_CardinalityType, FS_EmptySet
<1>4. Cardinality(Counted) \in Nat
  BY CountedFinite
<1>5. Cardinality(Counted) >= 1
  BY <1>2, <1>3, <1>4
<1>6. Cardinality(Counted) = 1 => Counted = {f}
  BY <1>1, <1>2, <1>3, <1>4
<1>7. Cardinality(Counted) # 1 => Counted \ {f} # {}
  BY <1>1, <1>2, <1>3, <1>4
<1>8. Cardinality(Counted) # 1 => \E g \in Files \ {f} : pc[g] \notin {"closed", "free"}
  BY <1>7 DEF Counted
<1> QED
  BY <1>2, <1>5, <1>6, <1>8

----------------------------------------------------------------------------
(* What each step of a file preserves. The mutex plays no part in it.      *)

(* A step that only moves a file that has its context from one place to    *)
(* another.                                                                *)
LEMMA MoveInv ==
  ASSUME BoardInv, NEW f \in Files, NEW place,
         pc[f] \in HasContext, place \in HasContext, Goto(f, place),
         UNCHANGED <<context, channels, ref_count, interrupts_enabled, power, present,
                     listed, engines, freed, remover, suspended>>,
         used_by_filp' \in {used_by_filp, f}
  PROVE  BoardInv'
<1> USE DEF BoardInv, Goto, HasContext, InIoctl, HasBoard, Opening
<1>1. BoardTypes'
  BY DEF BoardTypes
<1>2. FilesCounted'
  <2>1. Counted' = Counted
    BY CountedSame DEF BoardTypes
  <2> QED
    BY <2>1 DEF FilesCounted, BoardTypes
<1>3. RemovalOrder'
  BY DEF RemovalOrder, BoardTypes
<1>4. InterruptsOwned'
  BY DEF InterruptsOwned
<1>5. FreedExactlyOnce'
  BY DEF FreedExactlyOnce, BoardTypes
<1>6. DeviceFollowsFiles'
  BY DEF DeviceFollowsFiles
<1> QED
  BY <1>1, <1>2, <1>3, <1>4, <1>5, <1>6

LEMMA GetBoardInv ==
  ASSUME BoardInv, FullContract, NEW f \in Files, GetBoard(f), ~suspended
  PROVE  BoardInv'
<1> USE DEF BoardInv, Goto, GetBoard, HasContext, InIoctl, HasBoard, Opening,
            fileVars, deviceVars, removalVars
<1>1. BoardTypes'
  BY DEF BoardTypes
<1>2. Cardinality(Counted') = Cardinality(Counted) + 1
  BY CountedMore, ZenonT(40) DEF BoardTypes
<1>3. FilesCounted'
  BY <1>2 DEF FilesCounted, BoardTypes
<1>4. RemovalOrder'
  BY DEF RemovalOrder, BoardTypes, FullContract, Clauses
<1>5. InterruptsOwned'
  BY DEF InterruptsOwned
<1>6. FreedExactlyOnce'
  BY DEF FreedExactlyOnce, BoardTypes, FullContract, Clauses
<1>7. DeviceFollowsFiles'
  BY DEF DeviceFollowsFiles, BoardTypes
<1> QED
  BY <1>1, <1>3, <1>4, <1>5, <1>6, <1>7

LEMMA OpenSucceedInv ==
  ASSUME BoardInv, NEW f \in Files, OpenSucceed(f), ~suspended
  PROVE  BoardInv'
<1> USE DEF BoardInv, Goto, OpenSucceed, HasContext, InIoctl, HasBoard, Opening, removalVars
<1>1. BoardTypes'
  BY DEF BoardTypes
<1>2. Counted' = Counted /\ f \in Counted
  BY CountedSame DEF BoardTypes, Counted
<1>3. FilesCounted'
  BY <1>2 DEF FilesCounted, BoardTypes
<1>4. RemovalOrder'
  BY DEF RemovalOrder, BoardTypes
<1>5. InterruptsOwned'
  BY DEF InterruptsOwned, BoardTypes
<1>6. FreedExactlyOnce'
  BY DEF FreedExactlyOnce, BoardTypes
<1>7. ref_count # 0
  BY <1>2, CountedFinite DEF FilesCounted
<1>8. DeviceFollowsFiles'
  BY <1>7 DEF DeviceFollowsFiles, BoardTypes
<1> QED
  BY <1>1, <1>3, <1>4, <1>5, <1>6, <1>8

(* OpenFail and OpenInterrupted.                                           *)
LEMMA OpenGivesUpInv ==
  ASSUME BoardInv, NEW f \in Files, ~suspended,
         OpenFail(f) \/ OpenInterrupted(f)
  PROVE  BoardInv'
<1>0. /\ pc[f] = "open_down" /\ Goto(f, "open_dec")
      /\ power' \in {power, "D0"}
      /\ UNCHANGED <<context, channels, used_by_filp, ref_count, interrupts_enabled,
                     present, listed, engines, freed, remover, suspended>>
  BY DEF OpenFail, OpenInterrupted, fileVars, deviceVars, removalVars
<1> USE <1>0 DEF BoardInv, Goto, HasContext, InIoctl, HasBoard, Opening
<1>1. BoardTypes'
  BY DEF BoardTypes
<1>2. Counted' = Counted
  BY CountedSame DEF BoardTypes
<1>3. FilesCounted'
  BY <1>2 DEF FilesCounted, BoardTypes
<1>4. RemovalOrder'
  BY DEF RemovalOrder, BoardTypes
<1>5. InterruptsOwned'
  BY DEF InterruptsOwned
<1>6. FreedExactlyOnce'
  BY DEF FreedExactlyOnce, BoardTypes
<1>7. DeviceFollowsFiles'
  BY DEF DeviceFollowsFiles, BoardTypes
<1> QED
  BY <1>1, <1>3, <1>4, <1>5, <1>6, <1>7

LEMMA OpenDecInv ==
  ASSUME BoardInv, NEW f \in Files, OpenDec(f), ~suspended
  PROVE  BoardInv'
<1> USE DEF BoardInv, Goto, OpenDec, HasContext, InIoctl, HasBoard, Opening,
            fileVars, deviceVars, removalVars
<1>1. /\ Cardinality(Counted') = Cardinality(Counted) - 1
      /\ Cardinality(Counted) >= 1
      /\ Cardinality(Counted) = 1 => Counted = {f}
  BY CountedLess DEF BoardTypes
<1>2. BoardTypes'
  BY <1>1 DEF BoardTypes, FilesCounted
<1>3. FilesCounted'
  BY <1>1 DEF FilesCounted, BoardTypes
<1>4. RemovalOrder'
  BY DEF RemovalOrder, BoardTypes
<1>5. InterruptsOwned'
  BY DEF InterruptsOwned
<1>6. FreedExactlyOnce'
  BY DEF FreedExactlyOnce, BoardTypes, RemovalOrder
<1>7. ref_count' = 0 => ~interrupts_enabled
  <2> SUFFICES ASSUME ref_count' = 0, interrupts_enabled PROVE FALSE
    OBVIOUS
  <2>1. Counted = {f}
    BY <1>1 DEF FilesCounted, BoardTypes
  <2>2. PICK g \in Files : context[g] # "none"
    BY DEF InterruptsOwned
  <2>3. g \in Counted /\ g # f
    BY <2>2 DEF FilesCounted, Counted
  <2> QED
    BY <2>1, <2>3
<1>8. DeviceFollowsFiles'
  BY <1>7 DEF DeviceFollowsFiles
<1> QED
  BY <1>2, <1>3, <1>4, <1>5, <1>6, <1>8

(* The release of a file, under the clauses "closes" and "last".           *)
LEMMA ReleaseFileInv ==
  ASSUME BoardInv, FullContract, NEW f \in Files, ~suspended,
         pc[f] = "release", MayRelease, ReleaseFile(f),
         UNCHANGED <<removalVars, freed, suspended>>
  PROVE  BoardInv'
<1>0. /\ context' = [context EXCEPT ![f] = "none"]
      /\ channels' = channels \ {f}
      /\ used_by_filp' = IF used_by_filp = f THEN NoFile ELSE used_by_filp
      /\ ref_count' = ref_count - 1
      /\ interrupts_enabled' = (interrupts_enabled /\ ~(ref_count = 1 /\ present))
      /\ power' \in {power, "D3hot"}
      /\ ~(ref_count = 1 /\ present) => power' = power
      /\ pc' = [pc EXCEPT ![f] = IF ref_count = 1 /\ ~present THEN "free" ELSE "closed"]
      /\ remover # "count"
      /\ \A g \in Files : pc[g] \notin Opening
  BY DEF ReleaseFile, FinalizeContext, TurnOff, PowerDown, Goto, MayRelease,
         FullContract, Clauses
<1> USE <1>0 DEF BoardInv, HasContext, InIoctl, HasBoard, Opening, removalVars
<1>1. /\ Cardinality(Counted') = Cardinality(Counted) - 1
      /\ Cardinality(Counted) >= 1
      /\ Cardinality(Counted) = 1 => Counted = {f}
      /\ Cardinality(Counted) # 1 => \E g \in Files \ {f} : pc[g] \notin {"closed", "free"}
  BY CountedLess DEF BoardTypes
<1>2. ref_count # 1 => \E g \in Files \ {f} : pc[g] \in HasContext
  BY <1>1 DEF FilesCounted, BoardTypes
<1>3. ref_count = 1 => \A g \in Files \ {f} : pc[g] = "closed"
  BY <1>1 DEF FilesCounted, Counted, RemovalOrder, BoardTypes
<1>4. BoardTypes'
  BY <1>1, FilesAssumption DEF BoardTypes, FilesCounted
<1>5. FilesCounted'
  BY <1>1, FilesAssumption DEF FilesCounted, BoardTypes
<1>6. RemovalOrder'
  BY <1>3 DEF RemovalOrder, BoardTypes
<1>7. InterruptsOwned'
  <2>1. interrupts_enabled' => present' /\ \E g \in Files : context'[g] # "none"
    BY <1>2 DEF InterruptsOwned, FilesCounted, BoardTypes
  <2> QED
    BY <2>1 DEF InterruptsOwned
<1>8. FreedExactlyOnce'
  BY <1>2, <1>3 DEF FreedExactlyOnce, BoardTypes, RemovalOrder
<1>9. DeviceFollowsFiles'
  <2>1. ref_count = 1 => \A g \in Files : context'[g] = "none"
    BY <1>3 DEF FilesCounted, BoardTypes
  <2>2. \A g \in Files : context'[g] = "valid" /\ present' =>
          interrupts_enabled' /\ power' = "D0"
    BY <2>1 DEF DeviceFollowsFiles, BoardTypes
  <2>3. ref_count' = 0 => ~interrupts_enabled'
    BY DEF BoardTypes, InterruptsOwned
  <2> QED
    BY <2>2, <2>3 DEF DeviceFollowsFiles
<1> QED
  BY <1>4, <1>5, <1>6, <1>7, <1>8, <1>9

LEMMA ReleaseFreeInv ==
  ASSUME BoardInv, NEW f \in Files, ReleaseFree(f)
  PROVE  BoardInv'
<1> USE DEF BoardInv, Goto, ReleaseFree, HasContext, InIoctl, HasBoard, Opening,
            fileVars, deviceVars, removalVars
<1>1. Counted' = Counted
  BY CountedSame DEF BoardTypes
<1>2. BoardTypes'
  BY DEF BoardTypes
<1>3. FilesCounted'
  BY <1>1 DEF FilesCounted, BoardTypes
<1>4. RemovalOrder'
  BY DEF RemovalOrder, BoardTypes
<1>5. InterruptsOwned'
  BY DEF InterruptsOwned
<1>6. FreedExactlyOnce'
  BY DEF FreedExactlyOnce, BoardTypes, RemovalOrder
<1>7. DeviceFollowsFiles'
  BY DEF DeviceFollowsFiles
<1> QED
  BY <1>2, <1>3, <1>4, <1>5, <1>6, <1>7

----------------------------------------------------------------------------
(* The removal, and sleep.                                                 *)
LEMMA RemoveInv ==
  ASSUME BoardInv, FullContract, Remove
  PROVE  BoardInv'
<1> USE DEF BoardInv, HasContext, InIoctl, HasBoard, Opening, fileVars, deviceVars
<1>0. Counted' = Counted
  BY DEF Counted, Remove, RemoveDown, RemoveUnlist, RemoveDrop, RemoveCount, RemoveReturn
<1>1. CASE RemoveDown
  BY <1>0, <1>1 DEF RemoveDown, BoardTypes, FilesCounted, RemovalOrder, InterruptsOwned,
     FreedExactlyOnce, DeviceFollowsFiles, FullContract, Clauses
<1>2. CASE RemoveUnlist
  BY <1>0, <1>2 DEF RemoveUnlist, BoardTypes, FilesCounted, RemovalOrder, InterruptsOwned,
     FreedExactlyOnce, DeviceFollowsFiles
<1>3. CASE RemoveDrop
  BY <1>0, <1>3 DEF RemoveDrop, BoardTypes, FilesCounted, RemovalOrder, InterruptsOwned,
     FreedExactlyOnce, DeviceFollowsFiles
<1>4. CASE RemoveCount
  <2>1. ref_count = 0 <=> \A f \in Files : pc[f] = "closed"
    <3>1. ref_count = 0 <=> Counted = {}
      BY CountedFinite DEF FilesCounted
    <3>2. Counted = {} <=> \A f \in Files : pc[f] \in {"closed", "free"}
      BY DEF Counted
    <3>3. \A f \in Files : pc[f] # "free"
      BY <1>4 DEF RemoveCount, RemovalOrder
    <3> QED
      BY <3>1, <3>2, <3>3
  <2>2. FreedExactlyOnce'
    BY <1>4, <2>1 DEF RemoveCount, FreedExactlyOnce
  <2> QED
    BY <1>0, <1>4, <2>2 DEF RemoveCount, BoardTypes, FilesCounted, RemovalOrder,
       InterruptsOwned, DeviceFollowsFiles
<1>5. CASE RemoveReturn
  BY <1>0, <1>5 DEF RemoveReturn, BoardTypes, FilesCounted, RemovalOrder, InterruptsOwned,
     FreedExactlyOnce, DeviceFollowsFiles
<1> QED
  BY <1>1, <1>2, <1>3, <1>4, <1>5 DEF Remove

LEMMA SuspendInv ==
  ASSUME BoardInv, Suspend
  PROVE  BoardInv'
<1>0. Counted' = Counted
  BY DEF Counted, Suspend
<1> USE DEF BoardInv, HasContext, InIoctl, HasBoard, Opening, Suspend, removalVars
<1>1. BoardTypes'
  BY DEF BoardTypes
<1>2. FilesCounted'
  BY <1>0 DEF FilesCounted, BoardTypes
<1>3. RemovalOrder'
  BY DEF RemovalOrder
<1>4. InterruptsOwned'
  BY DEF InterruptsOwned
<1>5. FreedExactlyOnce' /\ DeviceFollowsFiles'
  BY DEF FreedExactlyOnce, DeviceFollowsFiles
<1> QED
  BY <1>1, <1>2, <1>3, <1>4, <1>5

LEMMA ResumeInv ==
  ASSUME BoardInv, Resume
  PROVE  BoardInv'
<1>0. Counted' = Counted
  BY DEF Counted, Resume
<1> QED
  BY <1>0 DEF BoardInv, HasContext, InIoctl, HasBoard, Opening, Resume, removalVars, fileVars,
     PowerDown, BoardTypes, FilesCounted, RemovalOrder, InterruptsOwned, FreedExactlyOnce,
     DeviceFollowsFiles

LEMMA InitInv == Init => BoardInv
<1> SUFFICES ASSUME Init PROVE BoardInv
  OBVIOUS
<1> USE DEF Init, BoardInv, HasContext, InIoctl, HasBoard, Opening
<1>1. Counted = {}
  BY DEF Counted
<1>2. ref_count = Cardinality(Counted)
  BY <1>1, FS_EmptySet
<1>3. BoardTypes
  BY DEF BoardTypes
<1>4. FilesCounted
  BY <1>2 DEF FilesCounted
<1>5. RemovalOrder
  BY DEF RemovalOrder
<1>6. InterruptsOwned
  BY DEF InterruptsOwned
<1>7. FreedExactlyOnce
  BY DEF FreedExactlyOnce
<1>8. DeviceFollowsFiles
  BY DEF DeviceFollowsFiles
<1> QED
  BY <1>3, <1>4, <1>5, <1>6, <1>7, <1>8

LEMMA BoardMeansCounted == BoardInv /\ mutex \in {0, 1} => OpenFilesCounted
BY DEF BoardInv, BoardTypes, FilesCounted, OpenFilesCounted, TypeOK, Counted, HasContext

LEMMA BoardStutters ==
  ASSUME BoardInv, UNCHANGED boardVars
  PROVE  BoardInv'
<1>1. Counted' = Counted
  BY DEF Counted, boardVars
<1> QED
  BY <1>1 DEF BoardInv, boardVars, BoardTypes, FilesCounted, RemovalOrder, InterruptsOwned,
     FreedExactlyOnce, DeviceFollowsFiles

----------------------------------------------------------------------------
(* BoardLifecycle.                                                         *)
LEMMA ClientInv ==
  ASSUME BoardInv, FullContract, ~suspended, NEW f \in Files, Client(f)
  PROVE  BoardInv'
<1>1. CASE IoctlBegin(f) \/ IoctlEnd(f) \/ MarkInUse(f) \/ EnableChannels(f)
           \/ IoctlSleep(f) \/ IoctlWoken(f) \/ ReleaseBegin(f)
  <2>1. ASSUME EnableChannels(f)
        PROVE  BoardInv'
    <3>1. PICK place : place \in HasContext /\ pc' = [pc EXCEPT ![f] = place]
      BY <2>1 DEF EnableChannels, Goto, HasContext
    <3>2. Counted' = Counted
      BY <2>1, <3>1, CountedSame DEF BoardInv, BoardTypes, EnableChannels, IoctlRun, Goto,
         HasContext, InIoctl
    <3> QED
      BY <2>1, <3>2 DEF EnableChannels, IoctlRun, Goto, HasContext, InIoctl, HasBoard,
         Opening, BoardInv, BoardTypes, FilesCounted, RemovalOrder, InterruptsOwned,
         FreedExactlyOnce, DeviceFollowsFiles, deviceVars, removalVars
  <2>2. ASSUME ~EnableChannels(f)
        PROVE  BoardInv'
    <3>1. PICK place \in HasContext : Goto(f, place)
      BY <1>1, <2>2 DEF IoctlBegin, IoctlEnd, MarkInUse, IoctlSleep, IoctlWoken,
         ReleaseBegin, HasContext, InIoctl
    <3>2. /\ pc[f] \in HasContext
          /\ UNCHANGED <<context, channels, ref_count, interrupts_enabled, power, present,
                         listed, engines, freed, remover, suspended>>
          /\ used_by_filp' \in {used_by_filp, f}
      BY <1>1, <2>2 DEF IoctlBegin, IoctlEnd, MarkInUse, IoctlSleep, IoctlWoken, IoctlRun,
         ReleaseBegin, HasContext, InIoctl, fileVars, deviceVars, removalVars
    <3> QED
      BY <3>1, <3>2, MoveInv
  <2> QED
    BY <2>1, <2>2
<1>2. CASE GetBoard(f)
  BY <1>2, GetBoardInv
<1>3. CASE OpenSucceed(f)
  BY <1>3, OpenSucceedInv
<1>4. CASE OpenFail(f) \/ OpenInterrupted(f)
  BY <1>4, OpenGivesUpInv
<1>5. CASE OpenDec(f)
  BY <1>5, OpenDecInv
<1>6. CASE ReleaseRun(f)
  BY <1>6, ReleaseFileInv DEF ReleaseRun
<1>7. CASE ReleaseFree(f)
  BY <1>7, ReleaseFreeInv
<1> QED
  BY <1>1, <1>2, <1>3, <1>4, <1>5, <1>6, <1>7 DEF Client

LEMMA BoardStep ==
  ASSUME BoardInv, MutexInv, FullContract, [Next]_vars
  PROVE  BoardInv' /\ MutexInv'
<1>1. CASE ~suspended /\ \E f \in Files : Client(f)
  <2> PICK f \in Files : Client(f)
    BY <1>1
  <2>1. BoardInv'
    BY <1>1, ClientInv
  <2>2. UNCHANGED <<mutex, remover>>
    BY DEF Client, GetBoard, OpenSucceed, OpenFail, OpenInterrupted, OpenDec, IoctlBegin,
       MarkInUse, EnableChannels, IoctlSleep, IoctlWoken, IoctlEnd, ReleaseBegin, ReleaseRun,
       ReleaseFree, removalVars
  <2> QED
    BY <2>1, <2>2 DEF MutexInv
<1>2. CASE Remove
  <2>1. MutexInv'
    BY <1>2 DEF MutexInv, Remove, RemoveDown, RemoveUnlist, RemoveDrop, RemoveCount,
       RemoveReturn, BoardInv, BoardTypes
  <2> QED
    BY <1>2, <2>1, RemoveInv
<1>3. CASE Suspend
  BY <1>3, SuspendInv DEF MutexInv, Suspend, removalVars
<1>4. CASE Resume
  BY <1>4, ResumeInv DEF MutexInv, Resume, removalVars
<1>5. CASE UNCHANGED vars
  BY <1>5, BoardStutters DEF vars, boardVars, MutexInv
<1> QED
  BY <1>1, <1>2, <1>3, <1>4, <1>5 DEF Next

LEMMA BoardInvariant == FullContract => (Spec => [](BoardInv /\ MutexInv))
<1> SUFFICES ASSUME FullContract PROVE Spec => [](BoardInv /\ MutexInv)
  OBVIOUS
<1>1. Init => BoardInv /\ MutexInv
  BY InitInv DEF Init, MutexInv
<1>2. BoardInv /\ MutexInv /\ [Next]_vars => (BoardInv /\ MutexInv)'
  BY BoardStep
<1> QED
  BY <1>1, <1>2, PTL DEF Spec

(* Every open that found the board is counted once, until its release or   *)
(* its failure, and every open file has its context (hailo_pcie_fops_open, *)
(* hailo_pcie_fops_release).                                               *)
THEOREM ReferencesCorrect == FullContract => (Spec => []OpenFilesCounted)
<1> SUFFICES ASSUME FullContract PROVE Spec => []OpenFilesCounted
  OBVIOUS
<1>1. BoardInv /\ MutexInv => OpenFilesCounted
  BY BoardMeansCounted DEF MutexInv
<1> QED
  BY <1>1, BoardInvariant, PTL

(* The last to leave, a release or hailo_pcie_remove, frees the board, and *)
(* nobody frees it again.                                                  *)
THEOREM FreeCorrect == FullContract => (Spec => []FreedExactlyOnce)
<1> SUFFICES ASSUME FullContract PROVE Spec => []FreedExactlyOnce
  OBVIOUS
<1>1. BoardInv => FreedExactlyOnce
  BY DEF BoardInv
<1> QED
  BY <1>1, BoardInvariant, PTL

(* Files with a valid context find the device awake with its interrupts    *)
(* on, and nobody leaves them on (hailo_pcie_fops_open and _release,       *)
(* hailo_pcie_suspend and _resume).                                        *)
THEOREM DeviceCorrect == FullContract => (Spec => []DeviceFollowsFiles)
<1> SUFFICES ASSUME FullContract PROVE Spec => []DeviceFollowsFiles
  OBVIOUS
<1>1. BoardInv => DeviceFollowsFiles
  BY DEF BoardInv
<1> QED
  BY <1>1, BoardInvariant, PTL

----------------------------------------------------------------------------
(* SocBoard. The services keep all that SocClauses say, too.               *)
FullSocContract == FullContract /\ SocContract = SocClauses

(* The removal and a control exclude each other, and nothing else holds    *)
(* the mutex.                                                              *)
SocMutex ==
  /\ mutex \in {0, 1}
  /\ mutex = 0 <=> remover \in {"unlist", "drop"} \/ control # NoControl
  /\ control # NoControl => remover \notin {"unlist", "drop"} /\ ~suspended

(* The thread of a control stays where it is.                              *)
ControlPlaced ==
  /\ control.call \in {"connect", "close", "power_off"} =>
       control.by \in Files /\ pc[control.by] = "ioctl"
  /\ control.call = "release" =>
       /\ control.by \in Files /\ pc[control.by] = "release"
       /\ control.channels = soc_used_channels_bitmap[control.by]
  /\ control.call \in {"close", "release", "reset"} =>
       \A c \in control.channels : host[c] = NoFile

(* With the clause "late" there is at most one request, whose control may  *)
(* have been given up. What it closes, nobody uses.                        *)
OneRequest ==
  /\ ~soc_on => requests = <<>> /\ owner = Free
  /\ requests # <<>> =>
       /\ Len(requests) = 1
       /\ control \in {NoControl, requests[1]}
       /\ response = NoResponse /\ ~control_resp_ready
       /\ requests[1].call \in {"connect", "close", "release"} => requests[1].by \in Files
       /\ Code(requests[1].call) = "close" =>
            \A c \in requests[1].channels : host[c] = NoFile
       /\ requests[1].call \in {"close", "release"} =>
            /\ \A c \in requests[1].channels : owner[c] \in {requests[1].by, NoFile}
            /\ control = NoControl => soc_used_channels_bitmap[requests[1].by] = {}
       /\ requests[1].call = "reset" => Connected \subseteq survivors

(* So an answer that somebody waits for is that to his request.            *)
AnswerMatches ==
  /\ control = NoControl => response = NoResponse
  /\ response # NoResponse => response.code = Code(control.call)
  /\ response.ok /\ response.code = "connect" =>
       \A c \in response.channels : owner[c] = control.by \/ ~soc_on

(* The SOC has connected what a file notes for that file, unless it was    *)
(* switched off, has just closed it for the file, or the file had it       *)
(* before a sleep or a reset, and then nobody else is connected.           *)
ConnectPending(f) ==
  requests # <<>> /\ requests[1].call = "connect" /\ requests[1].by # f

BitsOwned ==
  \A f \in Files : \A c \in soc_used_channels_bitmap[f] :
    \/ owner[c] = f
    \/ ~soc_on
    \/ f \in survivors /\ ~ConnectPending(f)
    \/ /\ control.call \in {"close", "release"} /\ control.by = f
       /\ c \in control.channels /\ response.ok

ServiceInv ==
  /\ SocMutex /\ ControlPlaced /\ OneRequest /\ AnswerMatches /\ BitsOwned
  /\ suspended => Connected \subseteq survivors
  /\ HostChannelsTracked /\ ClosesOnlyOwn

SocInv == BoardInv /\ ServiceInv

----------------------------------------------------------------------------
(* Steps of the board that the services have no part in.                   *)
LEMMA OtherStepsFrame ==
  ASSUME NEW f, OtherSteps(f)
  PROVE  /\ UNCHANGED <<socVars, mutex, remover, suspended>>
         /\ control.by # f
         /\ \E place : pc' = [pc EXCEPT ![f] = place]
BY DEF OtherSteps, GetBoard, OpenSucceed, OpenFail, OpenInterrupted, OpenDec, IoctlBegin,
       MarkInUse, IoctlSleep, IoctlWoken, IoctlEnd, ReleaseBegin, ReleaseFree, removalVars, Goto

LEMMA FramedService ==
  ASSUME SocInv, UNCHANGED <<socVars, suspended>>, SocMutex',
         \A g \in Files : g = control.by => pc'[g] = pc[g]
  PROVE  ServiceInv'
<1> USE DEF SocInv, ServiceInv, socVars
<1>1. ControlPlaced'
  BY DEF ControlPlaced
<1>2. Connected' = Connected
  BY DEF Connected
<1>3. OneRequest' /\ AnswerMatches'
  BY <1>2 DEF OneRequest, AnswerMatches
<1>4. BitsOwned'
  BY DEF BitsOwned, ConnectPending
<1>5. HostChannelsTracked' /\ ClosesOnlyOwn'
  BY DEF HostChannelsTracked, SocTypeOK, ClosesOnlyOwn
<1> QED
  BY <1>1, <1>2, <1>3, <1>4, <1>5

LEMMA OtherStepsService ==
  ASSUME SocInv, NEW f \in Files, OtherSteps(f)
  PROVE  ServiceInv'
<1>1. /\ UNCHANGED <<socVars, mutex, remover, suspended>>
      /\ control.by # f
      /\ \E place : pc' = [pc EXCEPT ![f] = place]
  BY OtherStepsFrame
<1>2. SocMutex'
  BY <1>1 DEF SocInv, ServiceInv, SocMutex, socVars
<1>3. \A g \in Files : g = control.by => pc'[g] = pc[g]
  BY <1>1 DEF SocInv, BoardInv, BoardTypes
<1> QED
  BY <1>1, <1>2, <1>3, FramedService

LEMMA RemoveService ==
  ASSUME SocInv, RemoveDown \/ RemoveUnlist \/ RemoveCount \/ RemoveReturn, UNCHANGED socVars
  PROVE  ServiceInv'
<1>1. SocMutex'
  BY DEF SocInv, ServiceInv, SocMutex, socVars, RemoveDown, RemoveUnlist, RemoveCount,
     RemoveReturn, BoardInv, BoardTypes
<1>2. UNCHANGED <<pc, suspended>>
  BY DEF RemoveDown, RemoveUnlist, RemoveCount, RemoveReturn
<1> QED
  BY <1>1, <1>2, FramedService

LEMMA StutterService ==
  ASSUME SocInv, UNCHANGED <<vars, socVars>>
  PROVE  ServiceInv'
<1>1. SocMutex' /\ UNCHANGED <<pc, suspended>>
  BY DEF SocInv, ServiceInv, SocMutex, socVars, vars
<1> QED
  BY <1>1, FramedService

----------------------------------------------------------------------------
(* How a control begins.                                                   *)
Calls == {"connect", "close", "power_off", "release", "reset"}

LEMMA ControlBegins ==
  ASSUME SocInv, FullSocContract, NEW f \in Files \union {NoFile}, NEW call \in Calls,
         NEW bitmap \in SUBSET Channels, SocControl(f, call, bitmap), ~suspended
  PROVE  /\ control = NoControl /\ response = NoResponse /\ requests = <<>>
         /\ control' = [by |-> f, call |-> call, channels |-> bitmap]
         /\ control' \in Request /\ control' # NoControl
         /\ requests' = IF soc_on THEN <<control'>> ELSE <<>>
         /\ requests' \in Seq(Request) /\ Len(requests') <= MaxRequests
         /\ mutex = 1 /\ mutex' = 0 /\ remover \notin {"unlist", "drop"}
         /\ control_resp_ready' = FALSE
<1> USE DEF SocInv, ServiceInv
<1>1. /\ control = NoControl
      /\ control' = [by |-> f, call |-> call, channels |-> bitmap]
      /\ mutex > 0 /\ mutex' = mutex - 1
      /\ control_resp_ready' = FALSE
      /\ soc_on => Len(requests) < 1
      /\ requests' = IF soc_on THEN Append(requests, control') ELSE requests
  BY DEF SocControl, FullSocContract, SocClauses
<1>2. control' \in Request /\ control' # NoControl
  BY <1>1 DEF Request, Calls, NoControl
<1>3. requests = <<>>
  <2>1. requests \in Seq(Request)
    BY DEF HostChannelsTracked, SocTypeOK
  <2>2. Len(requests) < 1 => requests = <<>>
    BY <2>1
  <2> QED
    BY <1>1, <2>2 DEF OneRequest
<1>4. requests' = IF soc_on THEN <<control'>> ELSE <<>>
  BY <1>1, <1>3
<1>5. requests' \in Seq(Request) /\ Len(requests') <= MaxRequests
  BY <1>2, <1>4, SocAssumption
<1>6. mutex = 1 /\ mutex' = 0 /\ remover \notin {"unlist", "drop"}
  BY <1>1 DEF SocMutex
<1>7. response = NoResponse
  BY <1>1 DEF AnswerMatches
<1> QED
  BY <1>1, <1>2, <1>3, <1>4, <1>5, <1>6, <1>7

(* What is the same for all of them: the channels a control closes have    *)
(* been stopped, and the rest waits for the SOC.                           *)
LEMMA BeginService ==
  ASSUME SocInv, FullSocContract, NEW f \in Files \union {NoFile}, NEW call \in Calls,
         NEW bitmap \in SUBSET Channels, SocControl(f, call, bitmap), ~suspended,
         UNCHANGED <<pc, remover, suspended, soc_used_channels_bitmap, serviceVars,
                     driver_compatible>>,
         survivors' \in SUBSET Files, survivors \subseteq survivors' \/ call = "reset",
         host' = [c \in Channels |-> IF c \in bitmap THEN NoFile ELSE host[c]],
         call \in {"connect", "close", "power_off"} => f \in Files /\ pc[f] = "ioctl",
         call = "connect" => survivors \subseteq {f} /\ bitmap = {} /\ survivors' = survivors,
         call = "release" =>
           f \in Files /\ pc[f] = "release" /\ bitmap = soc_used_channels_bitmap[f],
         call = "close" => bitmap \subseteq soc_used_channels_bitmap[f],
         call = "reset" => survivors' = Connected
  PROVE  ServiceInv'
<1>0. /\ control = NoControl /\ response = NoResponse /\ requests = <<>>
      /\ control' = [by |-> f, call |-> call, channels |-> bitmap]
      /\ control' \in Request /\ control' # NoControl
      /\ requests' = IF soc_on THEN <<control'>> ELSE <<>>
      /\ requests' \in Seq(Request) /\ Len(requests') <= MaxRequests
      /\ mutex = 1 /\ mutex' = 0 /\ remover \notin {"unlist", "drop"}
      /\ control_resp_ready' = FALSE
  BY ControlBegins
<1> USE DEF SocInv, ServiceInv, serviceVars
<1>1. SocTypeOK
  BY DEF HostChannelsTracked
<1>2. SocMutex'
  BY <1>0 DEF SocMutex
<1>3. ControlPlaced'
  BY <1>0 DEF ControlPlaced
<1>4. Connected' = Connected
  BY DEF Connected
<1>5. OneRequest'
  <2>1. requests' # <<>> => requests' = <<control'>> /\ requests'[1] = control' /\ Len(requests') = 1
    BY <1>0
  <2>2. call \in {"close", "release"} => \A c \in bitmap : owner[c] \in {f, NoFile}
    BY <1>0 DEF ClosesOnlyOwn
  <2>3. \A c \in bitmap : host'[c] = NoFile
    OBVIOUS
  <2>4. call = "reset" => Connected' \subseteq survivors'
    BY <1>4
  <2>5. ~soc_on' => requests' = <<>> /\ owner' = Free
    BY <1>0 DEF OneRequest, Free
  <2> QED
    BY <1>0, <2>1, <2>2, <2>3, <2>4, <2>5 DEF OneRequest, Calls
<1>6. AnswerMatches'
  BY <1>0 DEF AnswerMatches, NoResponse
<1>7. BitsOwned'
  <2> SUFFICES ASSUME NEW g \in Files, NEW c \in soc_used_channels_bitmap[g],
                      owner[c] # g, soc_on
               PROVE  g \in survivors' /\ ~ConnectPending(g)'
    BY DEF BitsOwned
  <2>1. g \in survivors
    BY <1>0 DEF BitsOwned, NoControl
  <2>2. requests'[1] = control'
    BY <1>0
  <2>3. ~ConnectPending(g)'
    BY <1>0, <2>1, <2>2 DEF ConnectPending
  <2>4. g \in survivors'
    BY <2>1 DEF Connected
  <2> QED
    BY <2>3, <2>4
<1>8. HostChannelsTracked' /\ ClosesOnlyOwn'
  BY <1>0, <1>1 DEF HostChannelsTracked, SocTypeOK, ClosesOnlyOwn
<1>9. suspended' => Connected' \subseteq survivors'
  OBVIOUS
<1> QED
  BY <1>2, <1>3, <1>5, <1>6, <1>7, <1>8, <1>9

(* Connect, Close, PowerOff, Finalize and ResetPrepare.                    *)
LEMMA CallsService ==
  ASSUME SocInv, FullSocContract, ~suspended,
         \/ \E f \in Files : \/ Connect(f) \/ PowerOff(f) \/ Finalize(f)
                             \/ \E i \in InputChannels, o \in OutputChannels : Close(f, i, o)
         \/ ResetPrepare
  PROVE  ServiceInv'
<1>0. SocTypeOK
  BY DEF SocInv, ServiceInv, HostChannelsTracked
<1>h. host = [c \in Channels |-> IF c \in {} THEN NoFile ELSE host[c]]
  BY <1>0 DEF SocTypeOK
<1> USE DEF Calls, removalVars
<1>1. ASSUME NEW f \in Files, Connect(f)
      PROVE  ServiceInv'
  <2>1. /\ SocControl(f, "connect", {})
        /\ UNCHANGED <<pc, remover, suspended, soc_used_channels_bitmap, serviceVars,
                       driver_compatible, survivors, host>>
        /\ pc[f] = "ioctl" /\ survivors \subseteq {f}
    BY <1>1 DEF Connect, SocIoctl, IoctlRun, FullSocContract, SocClauses
  <2>2. survivors' \in SUBSET Files
    BY <2>1, <1>0 DEF SocTypeOK
  <2> QED
    BY <1>h, <2>1, <2>2, BeginService
<1>2. ASSUME NEW f \in Files, PowerOff(f)
      PROVE  ServiceInv'
  <2>1. /\ SocControl(f, "power_off", {})
        /\ UNCHANGED <<pc, remover, suspended, soc_used_channels_bitmap, serviceVars,
                       driver_compatible, survivors, host>>
        /\ pc[f] = "ioctl"
    BY <1>2 DEF PowerOff, SocIoctl, IoctlRun
  <2>2. survivors' \in SUBSET Files
    BY <2>1, <1>0 DEF SocTypeOK
  <2> QED
    BY <1>h, <2>1, <2>2, BeginService
<1>3. ASSUME NEW f \in Files, Finalize(f)
      PROVE  ServiceInv'
  <2>1. /\ SocControl(f, "release", soc_used_channels_bitmap[f])
        /\ UNCHANGED <<pc, remover, suspended, soc_used_channels_bitmap, serviceVars,
                       driver_compatible, survivors>>
        /\ pc[f] = "release" /\ StopChannels(soc_used_channels_bitmap[f])
    BY <1>3 DEF Finalize
  <2>2. survivors' \in SUBSET Files /\ soc_used_channels_bitmap[f] \in SUBSET Channels
    BY <2>1, <1>0 DEF SocTypeOK
  <2> QED
    BY <2>1, <2>2, BeginService DEF StopChannels
<1>4. ASSUME NEW f \in Files, NEW i \in InputChannels, NEW o \in OutputChannels, Close(f, i, o)
      PROVE  ServiceInv'
  <2>1. /\ SocControl(f, "close", {i, o})
        /\ UNCHANGED <<pc, remover, suspended, soc_used_channels_bitmap, serviceVars,
                       driver_compatible, survivors>>
        /\ pc[f] = "ioctl" /\ StopChannels({i, o})
        /\ {i, o} \subseteq soc_used_channels_bitmap[f]
    BY <1>4 DEF Close, SocIoctl, IoctlRun, FullSocContract, SocClauses
  <2>2. survivors' \in SUBSET Files /\ {i, o} \in SUBSET Channels
    BY <2>1, <1>0 DEF SocTypeOK, Channels
  <2> QED
    BY <2>1, <2>2, BeginService DEF StopChannels
<1>5. ASSUME ResetPrepare
      PROVE  ServiceInv'
  <2>1. /\ SocControl(NoFile, "reset", Channels)
        /\ UNCHANGED <<pc, remover, suspended, soc_used_channels_bitmap, serviceVars,
                       driver_compatible>>
        /\ survivors' = Connected /\ StopChannels(Channels)
    BY <1>5 DEF ResetPrepare
  <2>2. survivors' \in SUBSET Files /\ Channels \in SUBSET Channels
    BY <2>1 DEF Connected
  <2> QED
    BY <2>1, <2>2, BeginService DEF StopChannels
<1> QED
  BY <1>1, <1>2, <1>3, <1>4, <1>5

----------------------------------------------------------------------------
LEMMA OneElement ==
  ASSUME NEW S, NEW s \in Seq(S), Len(s) = 1
  PROVE  Head(s) = s[1] /\ s[1] \in S /\ Tail(s) = <<>>
<1>1. Tail(s) \in Seq(S) /\ Len(Tail(s)) = 0
  OBVIOUS
<1>2. \A t \in Seq(S) : Len(t) = 0 => t = <<>>
  OBVIOUS
<1>3. Head(s) = s[1] /\ s[1] \in S
  OBVIOUS
<1> QED
  BY <1>1, <1>2, <1>3

(* The SOC's answer to the one request there is.                           *)
LEMMA AnswerService ==
  ASSUME SocInv, SocAnswer
  PROVE  ServiceInv'
<1> DEFINE request == requests[1]
<1> USE DEF SocInv, ServiceInv
<1>0. SocTypeOK
  BY DEF HostChannelsTracked
<1>1. /\ requests # <<>> /\ Head(requests) = request /\ request \in Request
      /\ Len(requests) = 1 /\ Tail(requests) = <<>>
      /\ soc_on /\ control \in {NoControl, request} /\ response = NoResponse
  <2>1. requests # <<>> /\ soc_on /\ requests \in Seq(Request)
    BY <1>0 DEF SocAnswer, SocTypeOK
  <2>2. Len(requests) = 1 /\ control \in {NoControl, request} /\ response = NoResponse
    BY <2>1 DEF OneRequest
  <2>3. Head(requests) = request /\ Tail(requests) = <<>> /\ request \in Request
    BY <2>1, <2>2, OneElement
  <2> QED
    BY <2>1, <2>2, <2>3
<1>2. /\ requests' = <<>>
      /\ control_resp_ready' \in BOOLEAN
      /\ UNCHANGED <<pc, mutex, remover, suspended, soc_used_channels_bitmap, host, control,
                     driver_compatible, survivors>>
  BY <1>1 DEF SocAnswer, vars
<1>3. Connected' = Connected /\ SocMutex' /\ ControlPlaced'
  BY <1>2 DEF Connected, SocMutex, ControlPlaced
<1> DEFINE Answer(ok, bitmap) ==
             response' = IF control = NoControl THEN NoResponse
                         ELSE [code |-> Code(request.call), ok |-> ok, channels |-> bitmap]
           Rest ==
             /\ owner' \in [Channels -> Files \union {NoFile}] /\ soc_on' \in BOOLEAN
             /\ ~soc_on' => owner' = Free
             /\ AnswerMatches' /\ BitsOwned' /\ ClosesOnlyOwn'
             /\ response' \in [code : {"none", "connect", "close", "power_off"}, ok : BOOLEAN,
                               channels : SUBSET Channels]
             /\ \A c \in Channels : host[c] # NoFile /\ soc_on' => owner'[c] = host[c]
<1>t. /\ request.by \in Files \union {NoFile} /\ request.channels \in SUBSET Channels
      /\ request.call \in Calls
      /\ Code(request.call) \in {"connect", "close", "power_off"}
      /\ control # NoControl => control = request
  <2>1. /\ request.by \in Files \union {NoFile} /\ request.channels \in SUBSET Channels
        /\ request.call \in Calls
    BY <1>1 DEF Request, Calls
  <2> QED
    BY <1>1, <2>1 DEF Code, Calls
<1>r. ASSUME NEW ok \in BOOLEAN, NEW bitmap \in SUBSET Channels, Answer(ok, bitmap)
      PROVE  response' \in [code : {"none", "connect", "close", "power_off"}, ok : BOOLEAN,
                            channels : SUBSET Channels]
  BY <1>t, <1>r DEF NoResponse
<1>4. ASSUME request.call = "connect", UNCHANGED soc_on, NEW pair \in Pairs,
             \A c \in pair : owner[c] = NoFile,
             owner' = [c \in Channels |-> IF c \in pair THEN request.by ELSE owner[c]],
             Answer(TRUE, pair)
      PROVE  Rest
  <2>1. pair \in SUBSET Channels
    BY SocAssumption DEF Channels
  <2>2. request.by \in Files
    BY <1>1, <1>4 DEF OneRequest
  <2>3. \A g \in Files : \A c \in soc_used_channels_bitmap[g] : c \in pair => g = request.by
    <3> SUFFICES ASSUME NEW g \in Files, NEW c \in soc_used_channels_bitmap[g], c \in pair,
                        g # request.by
                 PROVE  FALSE
      OBVIOUS
    <3>1. owner[c] # g
      BY <1>4, FilesAssumption
    <3>2. ConnectPending(g)
      BY <1>1, <1>4 DEF ConnectPending
    <3>3. control.call \notin {"close", "release"}
      BY <1>1, <1>4 DEF NoControl
    <3> QED
      BY <1>1, <3>1, <3>2, <3>3 DEF BitsOwned
  <2>4. BitsOwned'
    <3> SUFFICES ASSUME NEW g \in Files, NEW c \in soc_used_channels_bitmap[g]
                 PROVE  owner'[c] = g \/ (g \in survivors /\ ~ConnectPending(g)')
      BY <1>2 DEF BitsOwned
    <3>1. ~ConnectPending(g)'
      BY <1>2 DEF ConnectPending
    <3>2. c \in Channels
      BY <1>0 DEF SocTypeOK
    <3>3. CASE c \in pair
      BY <2>3, <3>2, <3>3, <1>4
    <3>4. CASE c \notin pair
      <4>1. control.call \notin {"close", "release"}
        BY <1>1, <1>4 DEF NoControl
      <4> QED
        BY <1>1, <1>4, <3>1, <3>2, <3>4, <4>1 DEF BitsOwned
    <3> QED
      BY <3>3, <3>4
  <2>5. ClosesOnlyOwn'
    BY <1>0, <1>2, <1>4, <2>3 DEF ClosesOnlyOwn, SocTypeOK
  <2>6. AnswerMatches'
    BY <1>1, <1>2, <1>4, <1>t, <2>1 DEF AnswerMatches, NoResponse, Code
  <2>7. \A c \in Channels : host[c] # NoFile /\ soc_on' => owner'[c] = host[c]
    BY <1>1, <1>4 DEF HostChannelsTracked
  <2>8. owner' \in [Channels -> Files \union {NoFile}]
    BY <1>0, <1>4, <2>2 DEF SocTypeOK
  <2> QED
    BY <1>0, <1>1, <1>4, <1>r, <2>1, <2>4, <2>5, <2>6, <2>7, <2>8 DEF SocTypeOK
<1>5. ASSUME Code(request.call) = "close", UNCHANGED soc_on,
             owner' = [c \in Channels |-> IF c \in request.channels THEN NoFile ELSE owner[c]],
             Answer(TRUE, {})
      PROVE  Rest
  <2>1. request.call \in {"close", "release", "reset"}
    BY <1>5, <1>t DEF Code, Calls
  <2>2. BitsOwned'
    <3> SUFFICES ASSUME NEW g \in Files, NEW c \in soc_used_channels_bitmap[g], owner'[c] # g
                 PROVE  \/ g \in survivors /\ ~ConnectPending(g)'
                        \/ /\ control.call \in {"close", "release"} /\ control.by = g
                           /\ c \in control.channels /\ response'.ok
      BY <1>2 DEF BitsOwned
    <3>1. ~ConnectPending(g)'
      BY <1>2 DEF ConnectPending
    <3>2. c \in Channels
      BY <1>0 DEF SocTypeOK
    <3>3. CASE owner[c] # g
      <4>1. ~response.ok
        BY <1>1 DEF NoResponse
      <4> QED
        BY <1>1, <3>1, <3>3, <4>1 DEF BitsOwned
    <3>4. CASE owner[c] = g
      <4>1. c \in request.channels
        BY <1>5, <3>2, <3>4
      <4>2. CASE request.call = "reset"
        <5>1. g \in Connected
          BY DEF Connected
        <5> QED
          BY <1>1, <3>1, <4>2, <5>1 DEF OneRequest
      <4>3. CASE request.call \in {"close", "release"}
        <5>1. request.by = g
          BY <1>1, <3>4, <4>1, <4>3, FilesAssumption DEF OneRequest
        <5>2. CASE control = NoControl
          <6>1. soc_used_channels_bitmap[g] = {}
            BY <1>1, <4>3, <5>1, <5>2 DEF OneRequest
          <6> QED
            BY <6>1
        <5>3. CASE control = request
          BY <1>5, <4>1, <4>3, <5>1, <5>3, <1>1 DEF Request, NoControl
        <5> QED
          BY <1>1, <5>2, <5>3
      <4> QED
        BY <2>1, <4>2, <4>3
    <3> QED
      BY <3>3, <3>4
  <2>3. ClosesOnlyOwn'
    BY <1>0, <1>2, <1>5 DEF ClosesOnlyOwn, SocTypeOK
  <2>4. AnswerMatches'
    BY <1>1, <1>2, <1>5, <1>t DEF AnswerMatches, NoResponse
  <2>5. \A c \in Channels : host[c] # NoFile /\ soc_on' => owner'[c] = host[c]
    BY <1>1, <1>5 DEF HostChannelsTracked, OneRequest
  <2> QED
    BY <1>0, <1>1, <1>5, <1>r, <2>2, <2>3, <2>4, <2>5 DEF SocTypeOK
<1>6. ASSUME request.call = "power_off", soc_on' = FALSE, owner' = Free, Answer(TRUE, {})
      PROVE  Rest
  <2>1. BitsOwned' /\ ClosesOnlyOwn'
    BY <1>0, <1>2, <1>6 DEF BitsOwned, ClosesOnlyOwn, Free, SocTypeOK
  <2>2. AnswerMatches'
    BY <1>1, <1>2, <1>6, <1>t DEF AnswerMatches, NoResponse
  <2>3. owner' \in [Channels -> Files \union {NoFile}]
    BY <1>6 DEF Free
  <2>4. response' \in [code : {"none", "connect", "close", "power_off"}, ok : BOOLEAN,
                       channels : SUBSET Channels]
    BY <1>6, <1>t DEF NoResponse
  <2> QED
    BY <1>6, <2>1, <2>2, <2>3, <2>4
<1>7. ASSUME Answer(FALSE, {}), UNCHANGED <<owner, soc_on>>
      PROVE  Rest
  <2>1. BitsOwned'
    <3> SUFFICES ASSUME NEW g \in Files, NEW c \in soc_used_channels_bitmap[g], owner[c] # g
                 PROVE  g \in survivors /\ ~ConnectPending(g)'
      BY <1>2, <1>7 DEF BitsOwned
    <3>1. ~ConnectPending(g)'
      BY <1>2 DEF ConnectPending
    <3>2. ~response.ok
      BY <1>1 DEF NoResponse
    <3> QED
      BY <1>1, <3>1, <3>2 DEF BitsOwned
  <2>2. ClosesOnlyOwn'
    BY <1>2, <1>7 DEF ClosesOnlyOwn
  <2>3. AnswerMatches'
    BY <1>1, <1>2, <1>7, <1>t DEF AnswerMatches, NoResponse
  <2>4. \A c \in Channels : host[c] # NoFile /\ soc_on' => owner'[c] = host[c]
    BY <1>7 DEF HostChannelsTracked
  <2>5. response' \in [code : {"none", "connect", "close", "power_off"}, ok : BOOLEAN,
                       channels : SUBSET Channels]
    BY <1>7, <1>t DEF NoResponse
  <2>6. /\ owner' \in [Channels -> Files \union {NoFile}] /\ soc_on' \in BOOLEAN
        /\ ~soc_on' => owner' = Free
    BY <1>0, <1>1, <1>7 DEF SocTypeOK
  <2> QED
    BY <2>1, <2>2, <2>3, <2>4, <2>5, <2>6
<1>8. Rest
  BY <1>1, <1>4, <1>5, <1>6, <1>7 DEF SocAnswer
<1>9. SocTypeOK'
  <2>1. requests' \in Seq(Request) /\ Len(requests') <= MaxRequests
    BY <1>2, SocAssumption
  <2> QED
    BY <1>0, <1>2, <1>8, <2>1 DEF SocTypeOK
<1>10. HostChannelsTracked'
  BY <1>2, <1>8, <1>9 DEF HostChannelsTracked
<1>11. OneRequest'
  BY <1>2, <1>8 DEF OneRequest, Free
<1> QED
  BY <1>2, <1>3, <1>8, <1>10, <1>11

----------------------------------------------------------------------------
(* How a control ends.                                                     *)
LEMMA ReturnService ==
  ASSUME SocInv, NEW ok \in BOOLEAN, ControlReturns(ok), control # NoControl,
         UNCHANGED <<remover, suspended, driver_compatible>>,
         survivors' \in SUBSET Files,
         soc_used_channels_bitmap' \in [Files -> SUBSET Channels],
         host' \in [Channels -> Files \union {NoFile}],
         requests # <<>> =>
           /\ host' = host
           /\ control.call \in {"close", "release"} =>
                soc_used_channels_bitmap'[control.by] = {}
           /\ control.call = "reset" => Connected' \subseteq survivors',
         \A g \in Files : \A c \in soc_used_channels_bitmap'[g] :
           \/ /\ c \in soc_used_channels_bitmap[g]
              /\ g \in survivors => g \in survivors'
              /\ ~(/\ control.call \in {"close", "release"} /\ control.by = g
                   /\ c \in control.channels /\ response.ok)
           \/ owner[c] = g
           \/ ~soc_on,
         \A c \in Channels : host'[c] # NoFile =>
           c \in soc_used_channels_bitmap'[host'[c]] /\ (soc_on => owner[c] = host'[c])
  PROVE  ServiceInv'
<1> USE DEF SocInv, ServiceInv
<1>0. SocTypeOK
  BY DEF HostChannelsTracked
<1>1. /\ control' = NoControl /\ response' = NoResponse /\ control_resp_ready' = FALSE
      /\ mutex' = mutex + 1 /\ UNCHANGED <<owner, soc_on, requests>>
  BY DEF ControlReturns
<1>2. mutex = 0 /\ remover \notin {"unlist", "drop"} /\ ~suspended
  BY DEF SocMutex
<1>3. SocMutex'
  BY <1>1, <1>2 DEF SocMutex
<1>4. ControlPlaced'
  BY <1>1 DEF ControlPlaced, NoControl
<1>5. AnswerMatches'
  BY <1>1 DEF AnswerMatches, NoResponse
<1>6. OneRequest'
  <2>1. ~soc_on' => requests' = <<>> /\ owner' = Free
    BY <1>1 DEF OneRequest, Free
  <2>2. CASE requests = <<>>
    BY <1>1, <2>1, <2>2 DEF OneRequest
  <2>3. CASE requests # <<>>
    <3>1. control = requests[1]
      BY <2>3 DEF OneRequest
    <3> QED
      BY <1>1, <2>1, <2>3, <3>1 DEF OneRequest
  <2> QED
    BY <2>2, <2>3
<1>7. BitsOwned'
  <2> SUFFICES ASSUME NEW g \in Files, NEW c \in soc_used_channels_bitmap'[g],
                      owner[c] # g, soc_on
               PROVE  g \in survivors' /\ ~ConnectPending(g)'
    BY <1>1 DEF BitsOwned
  <2>1. /\ c \in soc_used_channels_bitmap[g]
        /\ g \in survivors => g \in survivors'
        /\ ~(/\ control.call \in {"close", "release"} /\ control.by = g
             /\ c \in control.channels /\ response.ok)
    OBVIOUS
  <2>2. g \in survivors /\ ~ConnectPending(g)
    BY <2>1 DEF BitsOwned
  <2> QED
    BY <1>1, <2>1, <2>2 DEF ConnectPending
<1>8. ClosesOnlyOwn'
  <2> SUFFICES ASSUME NEW g \in Files, NEW c \in soc_used_channels_bitmap'[g]
               PROVE  owner[c] \in {g, NoFile}
    BY <1>1 DEF ClosesOnlyOwn
  <2>1. c \in Channels
    OBVIOUS
  <2> QED
    BY <2>1 DEF ClosesOnlyOwn, OneRequest, Free
<1>9. SocTypeOK'
  BY <1>0, <1>1 DEF SocTypeOK, NoResponse
<1>10. HostChannelsTracked'
  BY <1>1, <1>2, <1>9 DEF HostChannelsTracked
<1> QED
  BY <1>2, <1>3, <1>4, <1>5, <1>6, <1>7, <1>8, <1>10

(* The four ways for a control that nobody gave up to be over, or for one  *)
(* that was.                                                               *)
LEMMA ReturnsService ==
  ASSUME SocInv, FullSocContract,
         \/ \E f \in Files : \/ ConnectReturns(f) \/ CloseReturns(f) \/ PowerOffReturns(f)
                             \/ FinalizeReturns(f)
         \/ ResetPrepareReturns
  PROVE  ServiceInv'
<1> USE DEF SocInv, ServiceInv
<1>0. SocTypeOK
  BY DEF HostChannelsTracked
<1>u. /\ soc_used_channels_bitmap \in [Files -> SUBSET Channels]
      /\ host \in [Channels -> Files \union {NoFile}] /\ survivors \in SUBSET Files
      /\ control \in Request \union {NoControl} /\ response.channels \in SUBSET Channels
  BY <1>0 DEF SocTypeOK
<1>h. \A c \in Channels : host[c] # NoFile =>
        c \in soc_used_channels_bitmap[host[c]] /\ (soc_on => owner[c] = host[c])
  BY DEF HostChannelsTracked
<1>1. ASSUME NEW f \in Files, NEW ok \in BOOLEAN, SocIoctlReturns(f, "connect", ok),
             NEW good \in BOOLEAN,
             IF ok /\ good
             THEN /\ host' = [c \in Channels |-> IF c \in response.channels THEN f ELSE host[c]]
                  /\ SetBits(f, response.channels)
             ELSE UNCHANGED <<host, soc_used_channels_bitmap>>
      PROVE  ServiceInv'
  <2>1. /\ control.call = "connect" /\ control.by = f /\ ControlReturns(ok)
        /\ UNCHANGED <<remover, suspended, driver_compatible, survivors>>
        /\ control # NoControl
    BY <1>1 DEF SocIoctlReturns, removalVars, NoControl
  <2>2. CASE ~(ok /\ good)
    <3>1. UNCHANGED <<host, soc_used_channels_bitmap>> /\ Connected' = Connected
      BY <1>1, <2>2 DEF Connected
    <3> QED
      BY <1>u, <1>h, <2>1, <3>1, ReturnService
  <2>3. CASE ok /\ good
    <3>1. requests = <<>> /\ response.ok /\ response.code = "connect"
      BY <2>1, <2>3 DEF ControlReturns, OneRequest, Code
    <3>2. \A c \in response.channels : owner[c] = f \/ ~soc_on
      BY <2>1, <3>1 DEF AnswerMatches
    <3>3. /\ host' = [c \in Channels |-> IF c \in response.channels THEN f ELSE host[c]]
          /\ soc_used_channels_bitmap' =
               [soc_used_channels_bitmap EXCEPT ![f] = @ \union response.channels]
      BY <1>1, <2>3 DEF SetBits
    <3>4. /\ host' \in [Channels -> Files \union {NoFile}]
          /\ soc_used_channels_bitmap' \in [Files -> SUBSET Channels]
      BY <1>u, <3>3
    <3>5. \A g \in Files : \A c \in soc_used_channels_bitmap'[g] :
            c \in soc_used_channels_bitmap[g] \/ owner[c] = g \/ ~soc_on
      BY <1>u, <3>2, <3>3
    <3>6. \A c \in Channels : host'[c] # NoFile =>
            c \in soc_used_channels_bitmap'[host'[c]] /\ (soc_on => owner[c] = host'[c])
      BY <1>u, <1>h, <3>2, <3>3
    <3> QED
      BY <1>u, <2>1, <3>1, <3>4, <3>5, <3>6, ReturnService
  <2> QED
    BY <2>2, <2>3
<1>2. ASSUME NEW f \in Files, NEW ok \in BOOLEAN, SocIoctlReturns(f, "close", ok),
             IF ok THEN ClearBits(f, control.channels) ELSE UNCHANGED soc_used_channels_bitmap,
             UNCHANGED host
      PROVE  ServiceInv'
  <2>1. /\ control.call = "close" /\ control.by = f /\ ControlReturns(ok)
        /\ UNCHANGED <<remover, suspended, driver_compatible, survivors>>
        /\ control # NoControl
    BY <1>2 DEF SocIoctlReturns, removalVars, NoControl
  <2>2. control_resp_ready /\ ok = (response.ok /\ response.code = "close")
    BY <2>1 DEF ControlReturns, FullSocContract, SocClauses, Code
  <2>3. requests = <<>>
    BY <2>2 DEF OneRequest
  <2>3a. response.ok => response.code = "close"
    BY <2>1 DEF AnswerMatches, NoResponse, Code
  <2>4. response.ok => ok
    BY <2>2, <2>3a
  <2>5. /\ soc_used_channels_bitmap' \in [Files -> SUBSET Channels]
        /\ \A g \in Files : soc_used_channels_bitmap'[g] =
             IF ok /\ g = f THEN soc_used_channels_bitmap[g] \ control.channels
             ELSE soc_used_channels_bitmap[g]
    BY <1>2, <1>u DEF ClearBits
  <2>6. \A c \in control.channels : host[c] = NoFile
    BY <2>1 DEF ControlPlaced
  <2>7. \A g \in Files : \A c \in soc_used_channels_bitmap'[g] :
          /\ c \in soc_used_channels_bitmap[g]
          /\ ~(control.by = g /\ c \in control.channels /\ response.ok)
    BY <2>1, <2>4, <2>5
  <2>8. \A c \in Channels : host[c] # NoFile =>
          c \in soc_used_channels_bitmap'[host[c]] /\ (soc_on => owner[c] = host[c])
    BY <1>u, <1>h, <2>5, <2>6
  <2> QED
    BY <1>2, <1>u, <2>1, <2>3, <2>5, <2>7, <2>8, ReturnService
<1>3. ASSUME NEW f \in Files, NEW ok \in BOOLEAN, SocIoctlReturns(f, "power_off", ok),
             UNCHANGED <<host, soc_used_channels_bitmap>>
      PROVE  ServiceInv'
  <2>1. /\ control.call = "power_off" /\ control.by = f /\ ControlReturns(ok)
        /\ UNCHANGED <<remover, suspended, driver_compatible, survivors>>
        /\ control # NoControl
    BY <1>3 DEF SocIoctlReturns, removalVars, NoControl
  <2> QED
    BY <1>3, <1>u, <1>h, <2>1, ReturnService
<1>4. ASSUME NEW f \in Files, FinalizeReturns(f)
      PROVE  ServiceInv'
  <2>1. PICK ok \in BOOLEAN : ControlReturns(ok)
    BY <1>4 DEF FinalizeReturns
  <2>2. /\ control.call = "release" /\ control.by = f
        /\ UNCHANGED <<remover, suspended, driver_compatible, host>>
        /\ survivors' = survivors \ {f} /\ control # NoControl
        /\ ClearBits(f, Channels)
    BY <1>4 DEF FinalizeReturns, removalVars, NoControl
  <2>3. /\ soc_used_channels_bitmap' \in [Files -> SUBSET Channels]
        /\ \A g \in Files : soc_used_channels_bitmap'[g] =
             IF g = f THEN {} ELSE soc_used_channels_bitmap[g]
    BY <2>2, <1>u DEF ClearBits
  <2>4. \A c \in soc_used_channels_bitmap[f] : host[c] = NoFile
    BY <2>2 DEF ControlPlaced
  <2>5. \A g \in Files : \A c \in soc_used_channels_bitmap'[g] :
          /\ c \in soc_used_channels_bitmap[g] /\ g # f
          /\ g \in survivors => g \in survivors'
    BY <2>2, <2>3
  <2>6. \A c \in Channels : host[c] # NoFile =>
          c \in soc_used_channels_bitmap'[host[c]] /\ (soc_on => owner[c] = host[c])
    BY <1>u, <1>h, <2>3, <2>4
  <2> QED
    BY <1>u, <2>1, <2>2, <2>3, <2>5, <2>6, ReturnService
<1>5. ASSUME ResetPrepareReturns
      PROVE  ServiceInv'
  <2>1. PICK ok \in BOOLEAN : ControlReturns(ok)
    BY <1>5 DEF ResetPrepareReturns
  <2>2. /\ control.call = "reset" /\ control # NoControl
        /\ UNCHANGED <<remover, suspended, driver_compatible, host, survivors,
                       soc_used_channels_bitmap>>
    BY <1>5 DEF ResetPrepareReturns, removalVars, NoControl
  <2>3. requests # <<>> => Connected' \subseteq survivors'
    BY <2>2 DEF OneRequest, Connected
  <2> QED
    BY <1>u, <1>h, <2>1, <2>2, <2>3, ReturnService
<1> QED
  BY <1>1, <1>2, <1>3, <1>4, <1>5 DEF ConnectReturns, CloseReturns, PowerOffReturns

----------------------------------------------------------------------------
(* The steps of the board that take the services with them.                *)
LEMMA ReleaseRunService ==
  ASSUME SocInv, NEW f \in Files, SocReleaseRun(f), ~suspended
  PROVE  ServiceInv'
<1> USE DEF SocInv, ServiceInv
<1>1. /\ soc_used_channels_bitmap[f] = {} /\ mutex > 0 /\ survivors' = survivors \ {f}
      /\ UNCHANGED <<soc_used_channels_bitmap, host, owner, control, requests, response,
                     control_resp_ready, soc_on, driver_compatible, mutex, remover, suspended>>
  BY DEF SocReleaseRun, ReleaseRun, removalVars
<1>2. control = NoControl
  BY <1>1 DEF SocMutex
<1>3. Connected' = Connected /\ f \notin Connected
  BY <1>1 DEF Connected
<1>4. SocMutex' /\ ControlPlaced' /\ AnswerMatches' /\ ClosesOnlyOwn'
  BY <1>1, <1>2 DEF SocMutex, ControlPlaced, AnswerMatches, ClosesOnlyOwn, NoControl
<1>5. OneRequest'
  BY <1>1, <1>3 DEF OneRequest
<1>6. BitsOwned'
  BY <1>1 DEF BitsOwned, ConnectPending
<1>7. HostChannelsTracked'
  BY <1>1 DEF HostChannelsTracked, SocTypeOK
<1> QED
  BY <1>1, <1>3, <1>4, <1>5, <1>6, <1>7

LEMMA SuspendService ==
  ASSUME SocInv, FullSocContract, SocSuspend
  PROVE  ServiceInv'
<1> USE DEF SocInv, ServiceInv
<1>0. SocTypeOK
  BY DEF HostChannelsTracked
<1>1. /\ mutex > 0 /\ survivors' = Connected /\ suspended' = TRUE /\ remover = "idle"
      /\ UNCHANGED <<soc_used_channels_bitmap, owner, control, requests, response, pc,
                     control_resp_ready, soc_on, driver_compatible, mutex, remover>>
  BY DEF SocSuspend, Suspend, removalVars
<1>2. host' = Free
  BY <1>0 DEF SocSuspend, StopChannels, Free, SocTypeOK, FullSocContract, SocClauses
<1>3. control = NoControl
  BY <1>1 DEF SocMutex
<1>4. Connected' = Connected
  BY <1>1 DEF Connected
<1>5. SocMutex' /\ ControlPlaced' /\ AnswerMatches' /\ ClosesOnlyOwn'
  BY <1>1, <1>3 DEF SocMutex, ControlPlaced, AnswerMatches, ClosesOnlyOwn, NoControl
<1>6. OneRequest'
  <2>1. \A r \in Request : \A c \in r.channels : host'[c] = NoFile
    BY <1>2 DEF Free, Request
  <2>2. requests # <<>> => requests[1] \in Request
    BY <1>0 DEF SocTypeOK
  <2> QED
    BY <1>1, <1>4, <2>1, <2>2 DEF OneRequest
<1>7. BitsOwned'
  <2> SUFFICES ASSUME NEW g \in Files, NEW c \in soc_used_channels_bitmap[g],
                      owner[c] # g, soc_on
               PROVE  g \in Connected /\ ~ConnectPending(g)'
    BY <1>1 DEF BitsOwned
  <2>1. ~ConnectPending(g)
    BY <1>3 DEF BitsOwned, NoControl
  <2> QED
    BY <1>1, <2>1 DEF ConnectPending, Connected
<1>8. SocTypeOK'
  BY <1>0, <1>1, <1>2 DEF SocTypeOK, Free, Connected
<1>9. HostChannelsTracked'
  BY <1>2, <1>8 DEF HostChannelsTracked, Free
<1> QED
  BY <1>1, <1>4, <1>5, <1>6, <1>7, <1>9

LEMMA ResumeService ==
  ASSUME SocInv, SocResume
  PROVE  ServiceInv'
<1> USE DEF SocInv, ServiceInv
<1>0. SocTypeOK
  BY DEF HostChannelsTracked
<1>1. /\ suspended /\ ~suspended' /\ soc_on' \in BOOLEAN
      /\ owner' \in {owner, Free} /\ (~soc_on' => owner' = Free)
      /\ requests' = <<>> /\ control_resp_ready' = FALSE
      /\ driver_compatible' \in BOOLEAN
      /\ UNCHANGED <<soc_used_channels_bitmap, host, control, response, survivors, pc, mutex,
                     remover>>
  BY <1>0 DEF SocResume, Resume, removalVars, SocTypeOK
<1>2. control = NoControl
  BY <1>1 DEF SocMutex
<1>3. Connected \subseteq survivors /\ \A c \in Channels : host[c] = NoFile
  BY <1>1 DEF HostChannelsTracked
<1>4. SocMutex' /\ ControlPlaced'
  BY <1>1, <1>2 DEF SocMutex, ControlPlaced, NoControl
<1>5. AnswerMatches'
  BY <1>1, <1>2 DEF AnswerMatches, NoResponse
<1>6. OneRequest'
  BY <1>1 DEF OneRequest, Free
<1>7. BitsOwned'
  BY <1>1, <1>3 DEF BitsOwned, Connected, ConnectPending
<1>8. ClosesOnlyOwn'
  BY <1>0, <1>1 DEF ClosesOnlyOwn, Free, SocTypeOK
<1>9. SocTypeOK'
  <2>1. requests' \in Seq(Request) /\ Len(requests') <= MaxRequests
    BY <1>1, SocAssumption
  <2>2. owner' \in [Channels -> Files \union {NoFile}]
    BY <1>0, <1>1 DEF Free, SocTypeOK
  <2> QED
    BY <1>0, <1>1, <2>1, <2>2 DEF SocTypeOK
<1>10. HostChannelsTracked'
  BY <1>1, <1>3, <1>9 DEF HostChannelsTracked
<1> QED
  BY <1>1, <1>4, <1>5, <1>6, <1>7, <1>8, <1>10

LEMMA RemoveDropService ==
  ASSUME SocInv, SocRemoveDrop
  PROVE  ServiceInv'
<1> USE DEF SocInv, ServiceInv
<1>0. SocTypeOK
  BY DEF HostChannelsTracked
<1>1. /\ remover = "drop" /\ remover' = "count" /\ mutex' = mutex + 1
      /\ host' = Free /\ owner' = Free /\ requests' = <<>> /\ soc_on' = FALSE
      /\ UNCHANGED <<soc_used_channels_bitmap, control, response, control_resp_ready,
                     driver_compatible, survivors, pc, suspended>>
  BY DEF SocRemoveDrop, RemoveDrop
<1>2. control = NoControl /\ mutex = 0
  BY <1>1 DEF SocMutex
<1>3. Connected' = Connected
  BY <1>1 DEF Connected
<1>4. SocMutex' /\ ControlPlaced' /\ AnswerMatches'
  BY <1>1, <1>2 DEF SocMutex, ControlPlaced, NoControl, AnswerMatches, NoResponse
<1>5. OneRequest'
  BY <1>1 DEF OneRequest, Free
<1>6. BitsOwned' /\ ClosesOnlyOwn'
  BY <1>0, <1>1 DEF BitsOwned, ClosesOnlyOwn, Free, SocTypeOK
<1>7. SocTypeOK'
  <2>1. requests' \in Seq(Request) /\ Len(requests') <= MaxRequests
    BY <1>1, SocAssumption
  <2> QED
    BY <1>0, <1>1, <2>1 DEF SocTypeOK, Free
<1>8. HostChannelsTracked'
  BY <1>1, <1>7 DEF HostChannelsTracked, Free
<1> QED
  BY <1>1, <1>3, <1>4, <1>5, <1>6, <1>8

LEMMA InitService == SocInit => SocInv
<1> SUFFICES ASSUME SocInit PROVE SocInv
  OBVIOUS
<1> USE DEF SocInit, Init
<1>1. BoardInv
  BY InitInv
<1>2. SocTypeOK
  <2>1. requests \in Seq(Request) /\ Len(requests) <= MaxRequests
    BY SocAssumption
  <2> QED
    BY <2>1 DEF SocTypeOK, Free, NoResponse
<1>3. HostChannelsTracked /\ ClosesOnlyOwn
  BY <1>2 DEF HostChannelsTracked, ClosesOnlyOwn, Free
<1>4. SocMutex /\ ControlPlaced /\ AnswerMatches
  BY DEF SocMutex, ControlPlaced, NoControl, AnswerMatches, NoResponse
<1>5. OneRequest /\ BitsOwned
  BY DEF OneRequest, BitsOwned, Free
<1> QED
  BY <1>1, <1>3, <1>4, <1>5 DEF SocInv, ServiceInv

----------------------------------------------------------------------------
(* What a control is to the board: to begin it and to answer it is nothing,*)
(* to end it is the end of an ioctl or of a release.                       *)
Begins ==
  \/ \E f \in Files : \/ Connect(f) \/ PowerOff(f) \/ Finalize(f)
                      \/ \E i \in InputChannels, o \in OutputChannels : Close(f, i, o)
  \/ ResetPrepare

IoctlReturns(f) == ConnectReturns(f) \/ CloseReturns(f) \/ PowerOffReturns(f)

LEMMA BeginsFrame ==
  ASSUME SocInv, Begins
  PROVE  /\ UNCHANGED boardVars
         /\ control = NoControl /\ control' # NoControl
         /\ mutex' = mutex - 1 /\ mutex \in {0, 1}
<1> USE DEF SocControl, NoControl, fileVars, deviceVars, removalVars, boardVars
<1>0. mutex \in {0, 1}
  BY DEF SocInv, ServiceInv, SocMutex
<1>1. ASSUME NEW f \in Files, Connect(f) \/ PowerOff(f)
      PROVE  /\ UNCHANGED boardVars
             /\ control = NoControl /\ control' # NoControl /\ mutex' = mutex - 1
  BY <1>1 DEF Connect, PowerOff, SocIoctl
<1>2. ASSUME NEW f \in Files, Finalize(f)
      PROVE  /\ UNCHANGED boardVars
             /\ control = NoControl /\ control' # NoControl /\ mutex' = mutex - 1
  BY <1>2 DEF Finalize
<1>3. ASSUME NEW f \in Files, NEW i \in InputChannels, NEW o \in OutputChannels, Close(f, i, o)
      PROVE  /\ UNCHANGED boardVars
             /\ control = NoControl /\ control' # NoControl /\ mutex' = mutex - 1
  BY <1>3 DEF Close, SocIoctl
<1>4. ASSUME ResetPrepare
      PROVE  /\ UNCHANGED boardVars
             /\ control = NoControl /\ control' # NoControl /\ mutex' = mutex - 1
  BY <1>4 DEF ResetPrepare
<1> QED
  BY <1>0, <1>1, <1>2, <1>3, <1>4 DEF Begins

LEMMA IoctlReturnsFrame ==
  ASSUME SocInv, NEW f \in Files, IoctlReturns(f)
  PROVE  /\ Goto(f, "user") /\ pc[f] = "ioctl"
         /\ UNCHANGED <<fileVars, ref_count, deviceVars, removalVars, freed, suspended>>
         /\ control # NoControl /\ control' = NoControl
         /\ mutex' = mutex + 1 /\ mutex = 0
<1>1. PICK ok \in BOOLEAN, call \in {"connect", "close", "power_off"} : SocIoctlReturns(f, call, ok)
  BY DEF IoctlReturns, ConnectReturns, CloseReturns, PowerOffReturns
<1>2. /\ Goto(f, "user") /\ control.call = call /\ control.by = f /\ control' = NoControl
      /\ UNCHANGED <<fileVars, ref_count, deviceVars, removalVars, freed, suspended>>
      /\ mutex' = mutex + 1
  BY <1>1 DEF SocIoctlReturns, ControlReturns
<1>3. control # NoControl
  BY <1>2 DEF NoControl
<1>4. pc[f] = "ioctl" /\ mutex = 0
  BY <1>2, <1>3 DEF SocInv, ServiceInv, ControlPlaced, SocMutex
<1> QED
  BY <1>2, <1>3, <1>4

LEMMA FinalizeReturnsFrame ==
  ASSUME SocInv, NEW f \in Files, FinalizeReturns(f)
  PROVE  /\ pc[f] = "release" /\ MayRelease /\ ReleaseFile(f)
         /\ UNCHANGED <<removalVars, freed, suspended>>
         /\ control # NoControl /\ control' = NoControl
         /\ mutex' = mutex + 1 /\ mutex = 0
<1>1. /\ control.call = "release" /\ control.by = f /\ control' = NoControl /\ mutex' = mutex + 1
      /\ MayRelease /\ ReleaseFile(f) /\ UNCHANGED <<removalVars, freed, suspended>>
  BY DEF FinalizeReturns, ControlReturns
<1>2. control # NoControl
  BY <1>1 DEF NoControl
<1>3. pc[f] = "release" /\ mutex = 0
  BY <1>1, <1>2 DEF SocInv, ServiceInv, ControlPlaced, SocMutex
<1> QED
  BY <1>1, <1>2, <1>3

LEMMA ResetReturnsFrame ==
  ASSUME SocInv, ResetPrepareReturns
  PROVE  /\ UNCHANGED boardVars
         /\ control # NoControl /\ control' = NoControl
         /\ mutex' = mutex + 1 /\ mutex = 0
<1>1. /\ control.call = "reset" /\ control' = NoControl /\ mutex' = mutex + 1
      /\ UNCHANGED boardVars
  BY DEF ResetPrepareReturns, ControlReturns, fileVars, deviceVars, removalVars, boardVars
<1>2. control # NoControl
  BY <1>1 DEF NoControl
<1> QED
  BY <1>1, <1>2 DEF SocInv, ServiceInv, SocMutex

(* The steps of the whole, sorted.                                         *)
LEMMA SocSteps ==
  ASSUME [SocNext]_<<vars, socVars>>
  PROVE  \/ ~suspended /\ Begins
         \/ ~suspended /\ \E f \in Files : OtherSteps(f)
         \/ ~suspended /\ \E f \in Files : IoctlReturns(f)
         \/ ~suspended /\ \E f \in Files : FinalizeReturns(f)
         \/ ~suspended /\ \E f \in Files : SocReleaseRun(f)
         \/ ResetPrepareReturns
         \/ SocAnswer
         \/ (RemoveDown \/ RemoveUnlist \/ RemoveCount \/ RemoveReturn) /\ UNCHANGED socVars
         \/ SocRemoveDrop \/ SocSuspend \/ SocResume
         \/ UNCHANGED <<vars, socVars>>
<1>1. ResetPrepare => ~suspended /\ Begins
  BY DEF ResetPrepare, Begins
<1>2. ASSUME ~suspended, NEW f \in Files, SocClient(f)
      PROVE  \/ Begins \/ OtherSteps(f) \/ IoctlReturns(f) \/ FinalizeReturns(f)
             \/ SocReleaseRun(f)
  BY <1>2, Zenon DEF SocClient, Begins, IoctlReturns
<1> QED
  BY <1>1, <1>2, Zenon DEF SocNext

LEMMA SocStep ==
  ASSUME SocInv, FullSocContract, [SocNext]_<<vars, socVars>>
  PROVE  SocInv'
<1>0. BoardInv /\ FullContract
  BY DEF SocInv, FullSocContract
<1>1. CASE ~suspended /\ Begins
  <2>1. BoardInv'
    BY <1>0, <1>1, BeginsFrame, BoardStutters
  <2>2. ServiceInv'
    BY <1>1, CallsService DEF Begins
  <2> QED
    BY <2>1, <2>2 DEF SocInv
<1>2. ASSUME ~suspended, NEW f \in Files, OtherSteps(f)
      PROVE  SocInv'
  <2>1. Client(f)
    BY <1>2, Zenon DEF OtherSteps, Client
  <2>2. BoardInv'
    BY <1>0, <1>2, <2>1, ClientInv
  <2> QED
    BY <1>2, <2>2, OtherStepsService DEF SocInv
<1>3. ASSUME NEW f \in Files, IoctlReturns(f)
      PROVE  SocInv'
  <2>1. BoardInv'
    <3>1. "ioctl" \in HasContext /\ "user" \in HasContext
      BY DEF HasContext, InIoctl
    <3> QED
      BY <1>0, <1>3, <3>1, IoctlReturnsFrame, MoveInv DEF fileVars, deviceVars, removalVars
  <2>2. ServiceInv'
    BY <1>3, ReturnsService DEF IoctlReturns
  <2> QED
    BY <2>1, <2>2 DEF SocInv
<1>4. ASSUME ~suspended, NEW f \in Files, FinalizeReturns(f)
      PROVE  SocInv'
  <2>1. BoardInv'
    BY <1>0, <1>4, FinalizeReturnsFrame, ReleaseFileInv
  <2>2. ServiceInv'
    BY <1>4, ReturnsService
  <2> QED
    BY <2>1, <2>2 DEF SocInv
<1>5. ASSUME ~suspended, NEW f \in Files, SocReleaseRun(f)
      PROVE  SocInv'
  <2>1. BoardInv'
    BY <1>0, <1>5, ReleaseFileInv DEF SocReleaseRun, ReleaseRun
  <2> QED
    BY <1>5, <2>1, ReleaseRunService DEF SocInv
<1>6. CASE ResetPrepareReturns
  BY <1>0, <1>6, ResetReturnsFrame, BoardStutters, ReturnsService DEF SocInv
<1>7. CASE SocAnswer
  <2>1. UNCHANGED boardVars
    BY <1>7 DEF SocAnswer, vars, boardVars
  <2> QED
    BY <1>0, <1>7, <2>1, BoardStutters, AnswerService DEF SocInv
<1>8. CASE (RemoveDown \/ RemoveUnlist \/ RemoveCount \/ RemoveReturn) /\ UNCHANGED socVars
  BY <1>0, <1>8, RemoveInv, RemoveService DEF Remove, SocInv
<1>9. CASE SocRemoveDrop
  BY <1>0, <1>9, RemoveInv, RemoveDropService DEF Remove, SocRemoveDrop, SocInv
<1>10. CASE SocSuspend
  BY <1>0, <1>10, SuspendInv, SuspendService DEF SocSuspend, SocInv
<1>11. CASE SocResume
  BY <1>0, <1>11, ResumeInv, ResumeService DEF SocResume, SocInv
<1>12. CASE UNCHANGED <<vars, socVars>>
  <2>1. UNCHANGED boardVars
    BY <1>12 DEF vars, boardVars
  <2> QED
    BY <1>0, <1>12, <2>1, BoardStutters, StutterService DEF SocInv
<1> QED
  BY <1>1, <1>2, <1>3, <1>4, <1>5, <1>6, <1>7, <1>8, <1>9, <1>10, <1>11, <1>12, SocSteps

LEMMA SocInvariant == FullSocContract => (SocSpec => []SocInv)
<1> SUFFICES ASSUME FullSocContract PROVE SocSpec => []SocInv
  OBVIOUS
<1>1. SocInv /\ [SocNext]_<<vars, socVars>> => SocInv'
  BY SocStep
<1> QED
  BY <1>1, InitService, PTL DEF SocSpec

(* However long a control waits for the SOC, the references, the release   *)
(* of the board and the device are as without it (hailo_soc_ioctl,         *)
(* hailo_soc_file_context_finalize, hailo_soc_driver_down).                *)
THEOREM SocBoardCorrect ==
  FullSocContract =>
    (SocSpec => [](OpenFilesCounted /\ FreedExactlyOnce /\ DeviceFollowsFiles))
<1> SUFFICES ASSUME FullSocContract
             PROVE  SocSpec => [](OpenFilesCounted /\ FreedExactlyOnce /\ DeviceFollowsFiles)
  OBVIOUS
<1>1. SocInv => OpenFilesCounted /\ FreedExactlyOnce /\ DeviceFollowsFiles
  BY BoardMeansCounted DEF SocInv, ServiceInv, SocMutex, BoardInv
<1> QED
  BY <1>1, SocInvariant, PTL

(* A host channel that runs is noted in its file's bitmap and connected    *)
(* for that file by the SOC, and none runs while the device sleeps         *)
(* (hailo_soc_connect_ioctl, close_channels).                              *)
THEOREM HostChannelsCorrect == FullSocContract => (SocSpec => []HostChannelsTracked)
<1> SUFFICES ASSUME FullSocContract PROVE SocSpec => []HostChannelsTracked
  OBVIOUS
<1>1. SocInv => HostChannelsTracked
  BY DEF SocInv, ServiceInv
<1> QED
  BY <1>1, SocInvariant, PTL

(* The bitmap a release closes names nothing that the SOC has connected    *)
(* for another file (hailo_soc_file_context_finalize).                     *)
THEOREM CloseCorrect == FullSocContract => (SocSpec => []ClosesOnlyOwn)
<1> SUFFICES ASSUME FullSocContract PROVE SocSpec => []ClosesOnlyOwn
  OBVIOUS
<1>1. SocInv => ClosesOnlyOwn
  BY DEF SocInv, ServiceInv
<1> QED
  BY <1>1, SocInvariant, PTL

----------------------------------------------------------------------------
(* The refinement: the mutex a control holds is free to the board.         *)
LEMMA SocRefinesInit == SocInit => Board!Init
BY DEF SocInit, Init, Board!Init

LEMMA SocRefinesStep ==
  ASSUME SocInv, [SocNext]_<<vars, socVars>>
  PROVE  [Board!Next]_Board!vars
<1> DEFINE m == IF control = NoControl THEN mutex ELSE mutex + 1
<1>0. mutex \in {0, 1} /\ (mutex = 1 => control = NoControl)
  BY DEF SocInv, ServiceInv, SocMutex
<1>s. UNCHANGED boardVars /\ m' = m => UNCHANGED Board!vars
  BY DEF boardVars, Board!vars
<1>1. CASE ~suspended /\ Begins
  <2>1. m' = m
    BY <1>0, <1>1, BeginsFrame
  <2> QED
    BY <1>1, <1>s, <2>1, BeginsFrame
<1>2. ASSUME ~suspended, NEW f \in Files, OtherSteps(f)
      PROVE  Board!Next
  <2>1. UNCHANGED <<mutex, control>>
    BY <1>2, OtherStepsFrame DEF socVars
  <2>2. Board!Client(f)
    BY <1>0, <1>2, <2>1 DEF OtherSteps, Board!Client,
       GetBoard, OpenSucceed, OpenFail, OpenInterrupted, OpenDec, IoctlBegin, MarkInUse,
       IoctlSleep, IoctlWoken, IoctlEnd, ReleaseBegin, ReleaseFree, IoctlRun, Goto,
       Board!GetBoard, Board!OpenSucceed, Board!OpenFail, Board!OpenInterrupted,
       Board!OpenDec, Board!IoctlBegin, Board!MarkInUse, Board!IoctlSleep, Board!IoctlWoken,
       Board!IoctlEnd, Board!ReleaseBegin, Board!ReleaseFree, Board!IoctlRun, Board!Goto,
       fileVars, deviceVars, removalVars, Board!fileVars, Board!deviceVars,
       Board!removalVars, InIoctl, Board!InIoctl
  <2> QED
    BY <1>2, <2>2 DEF Board!Next
<1>3. ASSUME ~suspended, NEW f \in Files, IoctlReturns(f)
      PROVE  Board!Next
  <2>1. m' = m
    BY <1>3, IoctlReturnsFrame
  <2>2. Board!IoctlEnd(f)
    BY <1>3, <2>1, IoctlReturnsFrame DEF Board!IoctlEnd, Board!InIoctl, Goto, Board!Goto,
       fileVars, deviceVars, removalVars, Board!fileVars, Board!deviceVars, Board!removalVars
  <2> QED
    BY <1>3, <2>2 DEF Board!Next, Board!Client
<1>4. ASSUME ~suspended, NEW f \in Files,
             FinalizeReturns(f) \/ SocReleaseRun(f)
      PROVE  Board!Next
  <2>1. /\ pc[f] = "release" /\ MayRelease /\ ReleaseFile(f)
        /\ UNCHANGED <<removalVars, freed, suspended>>
        /\ m' = m /\ m > 0
    <3>1. CASE FinalizeReturns(f)
      BY <3>1, FinalizeReturnsFrame
    <3>2. CASE SocReleaseRun(f)
      BY <3>2, <1>0 DEF SocReleaseRun, ReleaseRun
    <3> QED
      BY <1>4, <3>1, <3>2
  <2>2. Board!MayRelease /\ Board!ReleaseFile(f)
    BY <2>1 DEF MayRelease, Board!MayRelease, ReleaseFile, Board!ReleaseFile, Opening,
       Board!Opening, FinalizeContext, Board!FinalizeContext, TurnOff, Board!TurnOff,
       PowerDown, Board!PowerDown, Goto, Board!Goto
  <2>3. Board!ReleaseRun(f)
    BY <2>1, <2>2 DEF Board!ReleaseRun, removalVars, Board!removalVars
  <2> QED
    BY <1>4, <2>3 DEF Board!Next, Board!Client
<1>5. CASE ResetPrepareReturns
  <2>1. m' = m
    BY <1>5, ResetReturnsFrame
  <2> QED
    BY <1>5, <1>s, <2>1, ResetReturnsFrame
<1>6. CASE SocAnswer
  BY <1>6, <1>s DEF SocAnswer, vars, boardVars
<1>7. CASE (RemoveDown \/ RemoveUnlist \/ RemoveCount \/ RemoveReturn) /\ UNCHANGED socVars
  <2>1. control' = control
    BY <1>7 DEF socVars
  <2>2. Board!Remove
    BY <1>0, <1>7, <2>1 DEF RemoveDown, RemoveUnlist, RemoveCount, RemoveReturn, Board!Remove,
       Board!RemoveDown, Board!RemoveUnlist, Board!RemoveCount, Board!RemoveReturn,
       fileVars, deviceVars, Board!fileVars, Board!deviceVars, Opening, Board!Opening
  <2> QED
    BY <2>2 DEF Board!Next
<1>8. CASE SocRemoveDrop
  <2>1. m = mutex /\ m' = mutex'
    BY <1>8 DEF SocRemoveDrop, RemoveDrop, SocInv, ServiceInv, SocMutex
  <2> QED
    BY <1>8, <2>1 DEF SocRemoveDrop, RemoveDrop, Board!Next, Board!Remove, Board!RemoveDrop,
       fileVars, Board!fileVars
<1>9. CASE SocSuspend
  BY <1>9 DEF SocSuspend, Suspend, Board!Next, Board!Suspend, removalVars, Board!removalVars
<1>10. CASE SocResume
  BY <1>10 DEF SocResume, Resume, Board!Next, Board!Resume, PowerDown, Board!PowerDown,
     fileVars, Board!fileVars, removalVars, Board!removalVars
<1>11. CASE UNCHANGED <<vars, socVars>>
  BY <1>11, <1>s DEF vars, socVars, boardVars
<1> QED
  BY <1>1, <1>2, <1>3, <1>4, <1>5, <1>6, <1>7, <1>8, <1>9, <1>10, <1>11, SocSteps

(* A board with the services of the SOC is a board: every step of it is a  *)
(* step of BoardLifecycle, or none, whatever is given up, refused or       *)
(* answered late (soc_control under the board's mutex).                    *)
THEOREM SocRefinesBoard == FullSocContract => (SocSpec => SocImplementsBoard)
<1> SUFFICES ASSUME FullSocContract PROVE SocSpec => Board!Spec
  BY DEF SocImplementsBoard
<1>1. SocInv /\ [SocNext]_<<vars, socVars>> => [Board!Next]_Board!vars
  BY SocRefinesStep
<1> QED
  BY <1>1, SocRefinesInit, SocInvariant, PTL DEF SocSpec, Board!Spec

----------------------------------------------------------------------------
(* The list of boards.                                                     *)

(* A set of natural numbers has a least one.                               *)
LEMMA Least ==
  ASSUME NEW T \in SUBSET Nat, T # {}
  PROVE  \E x \in T : \A y \in T : x <= y
<1>1. PICK x \in T : \A y \in T : ~(<<y, x>> \in OpToRel(<, Nat))
  BY NatLessThanWellFounded, WFMin
<1>2. ASSUME NEW y \in T PROVE x <= y
  <2>1. x \in Nat /\ y \in Nat
    OBVIOUS
  <2>2. ASSUME y < x PROVE <<y, x>> \in OpToRel(<, Nat)
    <3>1. <<y, x>> \in Nat \X Nat /\ <<y, x>>[1] < <<y, x>>[2]
      BY <2>1, <2>2
    <3> QED
      BY <3>1 DEF OpToRel
  <2>3. ~(y < x)
    BY <1>1, <2>2, Zenon
  <2> QED
    BY <2>1, <2>3
<1> QED
  BY <1>2

(* What a list is when x was put behind its first p entries,               *)
IsInserted(s, t, x, p) ==
  /\ t \in Seq(Boards) /\ Len(t) = Len(s) + 1
  /\ \A i \in 1 .. p : t[i] = s[i]
  /\ t[p + 1] = x
  /\ \A i \in p + 2 .. Len(s) + 1 : t[i] = s[i - 1]

LEMMA InsertedList ==
  ASSUME NEW s \in Seq(Boards), NEW x \in Boards, NEW p \in 0 .. Len(s)
  PROVE  IsInserted(s, SubSeq(s, 1, p) \o <<x>> \o SubSeq(s, p + 1, Len(s)), x, p)
<1>0. PICK n \in Nat : n = Len(s) /\ \A i \in 1 .. n : s[i] \in Boards
  BY LenProperties
<1>1. PICK u : u = SubSeq(s, 1, p)
  OBVIOUS
<1>2. PICK v : v = SubSeq(s, p + 1, n)
  OBVIOUS
<1>3. p \in Int /\ n \in Int /\ p <= n /\ 0 <= p
  BY <1>0
<1>4. /\ u \in Seq(Boards) /\ Len(u) = p
      /\ \A i \in 1 .. p : u[i] = s[i]
  BY <1>0, <1>1, <1>3
<1>5. /\ v \in Seq(Boards) /\ Len(v) = n - p
      /\ \A i \in 1 .. n - p : v[i] = s[p + i]
  BY <1>0, <1>2, <1>3
<1>6. PICK w : w = u \o <<x>>
  OBVIOUS
<1>7. /\ w \in Seq(Boards) /\ Len(w) = p + 1 /\ w[p + 1] = x
      /\ \A i \in 1 .. p : w[i] = s[i]
  BY <1>3, <1>4, <1>6
<1>8. /\ w \o v \in Seq(Boards) /\ Len(w \o v) = n + 1
      /\ \A i \in 1 .. n + 1 : (w \o v)[i] = IF i <= p + 1 THEN w[i] ELSE v[i - (p + 1)]
  <2>1. (p + 1) + (n - p) = n + 1
    BY <1>3
  <2>2. PICK l \in Nat, m \in Nat : l = p + 1 /\ m = n - p /\ Len(w) = l /\ Len(v) = m
    BY <1>3, <1>5, <1>7
  <2>3. /\ w \o v \in Seq(Boards) /\ Len(w \o v) = l + m
        /\ \A i \in 1 .. l + m : (w \o v)[i] = IF i <= l THEN w[i] ELSE v[i - l]
    <3>1. w \in Seq(Boards) /\ v \in Seq(Boards)
      BY <1>5, <1>7
    <3>2. w \o v \in Seq(Boards) /\ Len(w \o v) = Len(w) + Len(v)
      BY <3>1, ConcatProperties, Zenon
    <3>3. \A i \in 1 .. Len(w) + Len(v) :
            (w \o v)[i] = IF i <= Len(w) THEN w[i] ELSE v[i - Len(w)]
      BY <3>1, ConcatProperties, Zenon
    <3> QED
      BY ONLY <2>2, <3>2, <3>3
  <2> QED
    BY ONLY <2>1, <2>2, <2>3
<1>9. ASSUME NEW i \in p + 2 .. n + 1 PROVE (w \o v)[i] = s[i - 1]
  <2>1. i - (p + 1) \in 1 .. n - p /\ p + (i - (p + 1)) = i - 1 /\ ~(i <= p + 1) /\ i \in 1 .. n + 1
    BY <1>3
  <2> QED
    BY <1>5, <1>8, <2>1
<1>10. /\ \A i \in 1 .. p : (w \o v)[i] = s[i]
       /\ (w \o v)[p + 1] = x
  BY <1>3, <1>7, <1>8
<1>11. IsInserted(s, w \o v, x, p)
  BY <1>0, <1>8, <1>9, <1>10 DEF IsInserted
<1> QED
  BY <1>0, <1>1, <1>2, <1>6, <1>11

(* and when its k-th entry was taken out.                                  *)
IsRemoved(s, t, k) ==
  /\ t \in Seq(Boards) /\ Len(t) = Len(s) - 1
  /\ \A i \in 1 .. k - 1 : t[i] = s[i]
  /\ \A i \in k .. Len(s) - 1 : t[i] = s[i + 1]

LEMMA RemovedList ==
  ASSUME NEW s \in Seq(Boards), NEW k \in 1 .. Len(s)
  PROVE  IsRemoved(s, SubSeq(s, 1, k - 1) \o SubSeq(s, k + 1, Len(s)), k)
<1>0. PICK n \in Nat : n = Len(s) /\ \A i \in 1 .. n : s[i] \in Boards
  BY LenProperties
<1>1. PICK u : u = SubSeq(s, 1, k - 1)
  OBVIOUS
<1>2. PICK v : v = SubSeq(s, k + 1, n)
  OBVIOUS
<1>3. k \in Int /\ n \in Int /\ k <= n /\ 1 <= k
  BY <1>0
<1>4. /\ u \in Seq(Boards) /\ Len(u) = k - 1
      /\ \A i \in 1 .. k - 1 : u[i] = s[i]
  BY <1>0, <1>1, <1>3
<1>5. /\ v \in Seq(Boards) /\ Len(v) = n - k
      /\ \A i \in 1 .. n - k : v[i] = s[k + i]
  BY <1>0, <1>2, <1>3
<1>6. /\ u \o v \in Seq(Boards) /\ Len(u \o v) = n - 1
      /\ \A i \in 1 .. n - 1 : (u \o v)[i] = IF i <= k - 1 THEN u[i] ELSE v[i - (k - 1)]
  <2>1. /\ u \o v \in Seq(Boards) /\ Len(u \o v) = Len(u) + Len(v)
        /\ \A i \in 1 .. Len(u) + Len(v) :
             (u \o v)[i] = IF i <= Len(u) THEN u[i] ELSE v[i - Len(u)]
    BY <1>4, <1>5, ConcatProperties
  <2>2. Len(u) = k - 1 /\ Len(u) + Len(v) = n - 1
    BY <1>3, <1>4, <1>5
  <2> QED
    BY <2>1, <2>2
<1>7. ASSUME NEW i \in k .. n - 1 PROVE (u \o v)[i] = s[i + 1]
  <2>1. i - (k - 1) \in 1 .. n - k /\ k + (i - (k - 1)) = i + 1 /\ ~(i <= k - 1) /\ i \in 1 .. n - 1
    BY <1>3
  <2> QED
    BY <1>5, <1>6, <2>1
<1>8. ASSUME NEW i \in 1 .. k - 1 PROVE (u \o v)[i] = s[i]
  BY <1>3, <1>4, <1>6
<1> QED
  BY <1>0, <1>1, <1>2, <1>6, <1>7, <1>8 DEF IsRemoved

----------------------------------------------------------------------------
(* The boards that are numbered are the ones in the list, in the order of  *)
(* their numbers, and each device node leads to the board that made it     *)
(* until that board destroys it.                                           *)
Ordered(s, idx) ==
  \A i \in 1 .. Len(s), j \in 1 .. Len(s) : i < j => idx[s[i]] < idx[s[j]]

ListedInv == \A b \in Boards : b \in Listed <=> stage[b] \in {"create", "live"}

NumberInv ==
  /\ Ordered(board_list, board_index)
  /\ \A i \in 1 .. Len(board_list) : board_index[board_list[i]] \in Minors

NodeInv ==
  \A m \in Minors, b \in Boards :
    nodes[m] = b <=> stage[b] \in {"live", "delisted"} /\ board_index[b] = m

(* The mutex is free between two calls, and g_chrdev_class never an error  *)
(* pointer, where class_create succeeds.                                   *)
ListInv ==
  /\ ListTypeOK /\ list_mutex = 1 /\ chrdev_class # "error"
  /\ ListedInv /\ NumberInv /\ NodeInv
  /\ \A b \in Boards : stage[b] \in {"live", "delisted"} => board_index[b] \in Minors

LEMMA ListFacts ==
  ASSUME ListTypeOK
  PROVE  /\ Len(board_list) \in Nat /\ Cardinality(Boards) \in Nat
         /\ \A i \in 1 .. Len(board_list) : board_list[i] \in Boards
         /\ \A b \in Listed : \E i \in 1 .. Len(board_list) : board_list[i] = b
BY BoardsAssumption, FS_CardinalityType, LenProperties DEF ListTypeOK, Listed

(* No two entries of the list have the same number.                        *)
LEMMA OneNumber ==
  ASSUME ListTypeOK, NumberInv, NEW b \in Listed, NEW c \in Listed,
         board_index[b] = board_index[c]
  PROVE  b = c
<1>1. PICK i \in 1 .. Len(board_list) : board_list[i] = b
  BY DEF Listed
<1>2. PICK j \in 1 .. Len(board_list) : board_list[j] = c
  BY DEF Listed
<1>3. board_index[b] \in Nat /\ i \in Int /\ j \in Int
  <2>1. b \in Boards
    BY ListFacts, <1>1
  <2> QED
    BY <2>1 DEF ListTypeOK
<1>4. ~(i < j) /\ ~(j < i)
  BY <1>1, <1>2, <1>3 DEF NumberInv, Ordered
<1> QED
  BY <1>1, <1>2, <1>3, <1>4

(* A list without all boards has fewer entries than there are boards.      *)
LEMMA RoomForOne ==
  ASSUME ListTypeOK, NumberInv, NEW b \in Boards, b \notin Listed
  PROVE  Len(board_list) < Cardinality(Boards)
<1>0. PICK n \in Nat : n = Len(board_list)
  BY ListFacts
<1>1. board_list \in [1 .. n -> Boards \ {b}]
  <2>1. board_list \in [1 .. n -> Boards]
    BY <1>0, LenProperties DEF ListTypeOK
  <2>2. \A i \in 1 .. n : board_list[i] # b
    BY <1>0 DEF Listed
  <2> QED
    BY <2>1, <2>2
<1>2. ASSUME NEW i \in 1 .. n, NEW j \in 1 .. n, board_list[i] = board_list[j]
      PROVE  i = j
  <2>1. board_index[board_list[i]] \in Nat
    BY <1>0, ListFacts DEF ListTypeOK
  <2>2. ~(i < j) /\ ~(j < i)
    BY <1>0, <1>2, <2>1 DEF NumberInv, Ordered
  <2> QED
    BY <2>2
<1>3. board_list \in Injection(1 .. n, Boards \ {b})
  BY <1>1, <1>2 DEF Injection, IsInjective
<1>4. /\ IsFiniteSet(Boards \ {b}) /\ Cardinality(Boards \ {b}) = Cardinality(Boards) - 1
      /\ Cardinality(Boards) \in Nat
  BY BoardsAssumption, FS_RemoveElement, FS_CardinalityType
<1>5. Cardinality(1 .. n) <= Cardinality(Boards \ {b})
  BY <1>3, <1>4, FS_Injection
<1>6. Cardinality(1 .. n) = n
  BY FS_Interval
<1> QED
  BY <1>0, <1>4, <1>5, <1>6

(* InsertPosition counts the boards in front of the first free number.     *)
PositionOK(p) ==
  /\ p \in 0 .. Len(board_list)
  /\ \A j \in 1 .. p : board_index[board_list[j]] = j - 1
  /\ \A j \in p + 1 .. Len(board_list) : board_index[board_list[j]] > p

LEMMA InsertFacts ==
  ASSUME ListTypeOK, NumberInv
  PROVE  PositionOK(InsertPosition)
<1>0. PICK n \in Nat : n = Len(board_list) /\ \A i \in 1 .. n : board_list[i] \in Boards
  BY ListFacts
<1>1. PICK x : x = [i \in 1 .. n |-> board_index[board_list[i]]]
  OBVIOUS
<1>2. \A i \in 1 .. n : x[i] = board_index[board_list[i]] /\ x[i] \in Nat
  BY <1>0, <1>1 DEF ListTypeOK
<1>3. \A i \in 1 .. n, j \in 1 .. n : i < j => x[i] < x[j]
  BY <1>0, <1>2 DEF NumberInv, Ordered
<1>4. CASE board_list = <<>> \/ board_index[board_list[1]] > 0
  <2>1. InsertPosition = 0 /\ (n = 0 \/ (n > 0 /\ x[1] > 0))
    BY <1>0, <1>2, <1>4 DEF InsertPosition
  <2>2. ASSUME NEW j \in 1 .. n PROVE x[j] > 0
    BY <1>2, <1>3, <2>1
  <2> QED
    BY <1>0, <1>2, <2>1, <2>2 DEF PositionOK
<1>5. CASE ~(board_list = <<>> \/ board_index[board_list[1]] > 0)
  <2>1. n > 0 /\ x[1] = 0
    <3>1. n # 0
      BY <1>0, <1>5, EmptySeq DEF ListTypeOK
    <3> QED
      BY <1>0, <1>2, <1>5, <3>1
  <2> DEFINE Stop(i) == i = n \/ x[i] + 1 # x[i + 1]
             Good(i) == Stop(i) /\ \A j \in 1 .. i - 1 : x[j] + 1 = x[j + 1]
  <2>2. \E i \in 1 .. n : Good(i)
    <3>1. n \in {i \in 1 .. n : Stop(i)}
      BY <2>1
    <3>2. PICK i \in {i \in 1 .. n : Stop(i)} : \A k \in {i_1 \in 1 .. n : Stop(i_1)} : i <= k
      <4>1. {i \in 1 .. n : Stop(i)} \in SUBSET Nat
        OBVIOUS
      <4> HIDE DEF Stop
      <4> QED
        BY <3>1, <4>1, Least
    <3>3. ASSUME NEW j \in 1 .. i - 1 PROVE x[j] + 1 = x[j + 1]
      <4>1. j \in 1 .. n /\ ~(i <= j)
        BY <3>2
      <4> QED
        BY <3>2, <4>1
    <3> QED
      BY <3>2, <3>3
  <2>3. InsertPosition = CHOOSE i \in 1 .. n : Good(i)
    <3>1. ASSUME NEW i \in 1 .. n
          PROVE  Good(i) <=>
                 /\ i = Len(board_list)
                      \/ board_index[board_list[i]] + 1 # board_index[board_list[i + 1]]
                 /\ \A j \in 1 .. i - 1 :
                      board_index[board_list[j]] + 1 = board_index[board_list[j + 1]]
      <4>1. Stop(i) <=>
              \/ i = Len(board_list)
              \/ board_index[board_list[i]] + 1 # board_index[board_list[i + 1]]
        <5>1. i = n \/ i + 1 \in 1 .. n
          OBVIOUS
        <5> QED
          BY <1>0, <1>2, <5>1
      <4>2. ASSUME NEW j \in 1 .. i - 1
            PROVE  /\ x[j] = board_index[board_list[j]]
                   /\ x[j + 1] = board_index[board_list[j + 1]]
        <5>1. j \in 1 .. n /\ j + 1 \in 1 .. n
          OBVIOUS
        <5> QED
          BY <1>2, <5>1
      <4> HIDE DEF Stop
      <4> QED
        BY <4>1, <4>2
    <3> HIDE DEF Good
    <3> QED
      BY <1>0, <1>5, <3>1 DEF InsertPosition
  <2>4. PICK p \in 1 .. n : p = InsertPosition /\ Good(p)
    <3> HIDE DEF Good
    <3> QED
      BY <2>2, <2>3
  <2>5. ASSUME NEW j \in 1 .. p PROVE x[j] = j - 1
    <3> DEFINE Bad == {i \in 1 .. p : x[i] # i - 1}
    <3> SUFFICES ASSUME Bad # {} PROVE FALSE
      OBVIOUS
    <3>1. PICK i \in Bad : \A k \in Bad : i <= k
      <4>1. Bad \in SUBSET Nat
        OBVIOUS
      <4> HIDE DEF Bad
      <4> QED
        BY <4>1, Least
    <3>2. i \in 2 .. p /\ x[i] # i - 1
      BY <2>1, <3>1
    <3>3. x[i - 1] = (i - 1) - 1
      <4>1. i - 1 \in 1 .. p /\ ~(i <= i - 1)
        BY <3>2
      <4> QED
        BY <3>1, <4>1
    <3>4. x[i - 1] + 1 = x[(i - 1) + 1]
      BY <2>4, <3>2
    <3> QED
      BY <3>2, <3>3, <3>4
  <2>6. ASSUME NEW j \in p + 1 .. n PROVE x[j] > p
    <3>1. x[p] = p - 1 /\ x[p + 1] # p /\ x[p] < x[p + 1] /\ x[p + 1] \in Nat
      BY <1>2, <1>3, <2>4, <2>5
    <3>2. x[p + 1] > p
      BY <3>1
    <3>3. j = p + 1 \/ x[p + 1] < x[j]
      BY <1>3
    <3> QED
      BY <1>2, <3>1, <3>2, <3>3
  <2> QED
    BY <1>0, <1>2, <2>4, <2>5, <2>6, SMTT(40) DEF PositionOK
<1> QED
  BY <1>4, <1>5

(* list_del takes one board out and leaves the order of the others.        *)
LEMMA WithoutFacts ==
  ASSUME ListTypeOK, NumberInv, NEW b \in Listed, board_list' = Without(b),
         UNCHANGED board_index
  PROVE  board_list' \in Seq(Boards) /\ Listed' = Listed \ {b} /\ NumberInv'
<1>0. PICK n \in Nat : n = Len(board_list) /\ \A i \in 1 .. n : board_list[i] \in Boards
  BY ListFacts
<1>1. PICK k \in 1 .. n :
        /\ board_list[k] = b
        /\ Without(b) = SubSeq(board_list, 1, k - 1) \o SubSeq(board_list, k + 1, n)
  <2>1. \E i \in 1 .. n : board_list[i] = b
    BY <1>0 DEF Listed
  <2>2. PICK k : k = CHOOSE i \in 1 .. n : board_list[i] = b
    OBVIOUS
  <2> QED
    BY <1>0, <2>1, <2>2 DEF Without
<1>2. PICK t : t = board_list'
  OBVIOUS
<1>3. /\ t \in Seq(Boards) /\ Len(t) = n - 1
      /\ \A i \in 1 .. k - 1 : t[i] = board_list[i]
      /\ \A i \in k .. n - 1 : t[i] = board_list[i + 1]
  BY <1>0, <1>1, <1>2, RemovedList DEF IsRemoved, ListTypeOK
<1>4. ASSUME NEW i \in 1 .. n, i # k PROVE board_list[i] # b
  <2>1. board_index[b] \in Nat
    BY <1>0, <1>1 DEF ListTypeOK
  <2>2. i < k \/ k < i
    BY <1>4
  <2> QED
    BY <1>0, <1>1, <2>1, <2>2 DEF NumberInv, Ordered
<1>5. ASSUME NEW i \in 1 .. n - 1
      PROVE  \E j \in 1 .. n : /\ j # k /\ t[i] = board_list[j]
                               /\ j = IF i < k THEN i ELSE i + 1
  <2>1. CASE i < k
    BY <1>3, <2>1
  <2>2. CASE ~(i < k)
    BY <1>3, <2>2
  <2> QED
    BY <2>1, <2>2
<1>6. Listed' = Listed \ {b}
  <2>1. ASSUME NEW i \in 1 .. n, i # k PROVE \E j \in 1 .. n - 1 : t[j] = board_list[i]
    <3>1. CASE i < k
      BY <1>3, <3>1
    <3>2. CASE i > k
      <4>1. i - 1 \in k .. n - 1 /\ (i - 1) + 1 = i /\ i - 1 \in 1 .. n - 1
        BY <3>2
      <4> QED
        BY <1>3, <4>1
    <3> QED
      BY <2>1, <3>1, <3>2
  <2>2. Listed' = {t[i] : i \in 1 .. n - 1} /\ Listed = {board_list[i] : i \in 1 .. n}
    BY <1>0, <1>2, <1>3 DEF Listed
  <2>3. ASSUME NEW c \in Listed' PROVE c \in Listed \ {b}
    BY <1>4, <1>5, <2>2
  <2>4. ASSUME NEW c \in Listed, c # b PROVE c \in Listed'
    BY <1>1, <2>1, <2>2, <2>4
  <2> QED
    BY <2>3, <2>4
<1>7. NumberInv'
  <2>1. ASSUME NEW i \in 1 .. n - 1, NEW j \in 1 .. n - 1, i < j
        PROVE  board_index[t[i]] < board_index[t[j]]
    <3>1. PICK u \in 1 .. n : t[i] = board_list[u] /\ u = IF i < k THEN i ELSE i + 1
      BY <1>5
    <3>2. PICK v \in 1 .. n : t[j] = board_list[v] /\ v = IF j < k THEN j ELSE j + 1
      BY <1>5
    <3>3. u < v
      BY <2>1, <3>1, <3>2
    <3> QED
      BY <1>0, <3>1, <3>2, <3>3 DEF NumberInv, Ordered
  <2>2. ASSUME NEW i \in 1 .. n - 1 PROVE board_index[t[i]] \in Minors
    BY <1>0, <1>5 DEF NumberInv
  <2> QED
    BY <1>2, <1>3, <2>1, <2>2 DEF NumberInv, Ordered, Minors
<1> QED
  BY <1>2, <1>3, <1>6, <1>7

(* hailo_pcie_insert_board gives a new board the first free number, and    *)
(* puts it where its number belongs.                                       *)
LEMMA InsertedFacts ==
  ASSUME ListTypeOK, NumberInv, NEW b \in Boards, b \notin Listed,
         NEW p, p = InsertPosition,
         board_list' = SubSeq(board_list, 1, p) \o <<b>>
                         \o SubSeq(board_list, p + 1, Len(board_list)),
         board_index' = [board_index EXCEPT ![b] =
                           IF p = 0 THEN 0 ELSE board_index[board_list[p]] + 1]
  PROVE  /\ board_list' \in Seq(Boards) /\ Listed' = Listed \union {b} /\ NumberInv'
         /\ board_index' \in [Boards -> Nat]
         /\ \A c \in Boards : c # b => board_index'[c] = board_index[c]
<1>0. PICK n \in Nat : n = Len(board_list) /\ \A i \in 1 .. n : board_list[i] \in Boards
  BY ListFacts
<1>1. /\ p \in 0 .. n
      /\ \A j \in 1 .. p : board_index[board_list[j]] = j - 1
      /\ \A j \in p + 1 .. n : board_index[board_list[j]] > p
  BY <1>0, InsertFacts DEF PositionOK
<1>2. PICK t : t = board_list'
  OBVIOUS
<1>3. /\ t \in Seq(Boards) /\ Len(t) = n + 1
      /\ \A i \in 1 .. p : t[i] = board_list[i]
      /\ t[p + 1] = b
      /\ \A i \in p + 2 .. n + 1 : t[i] = board_list[i - 1]
  <2>1. board_list \in Seq(Boards) /\ p \in 0 .. Len(board_list)
    BY <1>0, <1>1 DEF ListTypeOK
  <2>2. IsInserted(board_list,
          SubSeq(board_list, 1, p) \o <<b>> \o SubSeq(board_list, p + 1, Len(board_list)), b, p)
    BY <2>1, InsertedList, Zenon
  <2>3. IsInserted(board_list, t, b, p)
    BY <1>2, <2>2, Zenon
  <2> QED
    BY <1>0, <2>3 DEF IsInserted
<1>4. \A i \in 1 .. n : board_list[i] # b
  BY <1>0 DEF Listed
<1>5. PICK x : x = board_index'
  OBVIOUS
<1>6. /\ x[b] = p /\ x \in [Boards -> Nat]
      /\ \A c \in Boards : c # b => x[c] = board_index[c]
  <2>1. board_index \in [Boards -> Nat]
    BY DEF ListTypeOK
  <2>2. p = (IF p = 0 THEN 0 ELSE board_index[board_list[p]] + 1) /\ p \in Nat
    BY <1>1
  <2>3. x = [board_index EXCEPT ![b] = p]
    BY <1>5, <2>2, Zenon
  <2> QED
    BY <2>1, <2>2, <2>3
<1>7. \A i \in 1 .. n : x[board_list[i]] = board_index[board_list[i]]
  BY <1>0, <1>4, <1>6
<1>8. p < Cardinality(Boards) /\ Cardinality(Boards) \in Nat
  BY <1>0, <1>1, RoomForOne, ListFacts
<1>9. Listed' = Listed \union {b}
  <2>1. Listed' = {t[i] : i \in 1 .. n + 1} /\ Listed = {board_list[i] : i \in 1 .. n}
    BY <1>0, <1>2, <1>3, ZenonT(40) DEF Listed
  <2>2. ASSUME NEW i \in 1 .. n PROVE \E j \in 1 .. n + 1 : t[j] = board_list[i]
    <3>1. CASE i <= p
      BY <1>3, <3>1
    <3>2. CASE i > p
      <4>1. i + 1 \in p + 2 .. n + 1 /\ (i + 1) - 1 = i /\ i + 1 \in 1 .. n + 1
        BY <1>1, <3>2
      <4> QED
        BY <1>3, <4>1
    <3> QED
      BY <1>1, <3>1, <3>2
  <2>3. ASSUME NEW i \in 1 .. n + 1 PROVE t[i] = b \/ \E j \in 1 .. n : t[i] = board_list[j]
    <3>1. CASE i <= p
      BY <1>1, <1>3, <3>1
    <3>2. CASE i > p + 1
      <4>1. i \in p + 2 .. n + 1 /\ i - 1 \in 1 .. n
        BY <1>1, <3>2
      <4> QED
        BY <1>3, <4>1
    <3> QED
      BY <1>1, <1>3, <3>1, <3>2
  <2>4. p + 1 \in 1 .. n + 1
    BY <1>1
  <2>5. ASSUME NEW c \in Listed' PROVE c \in Listed \union {b}
    BY <2>1, <2>3
  <2>6. ASSUME NEW c \in Listed PROVE c \in Listed'
    BY <2>1, <2>2
  <2>7. b \in Listed'
    BY <1>3, <2>1, <2>4
  <2> QED
    BY <2>5, <2>6, <2>7
<1>10. NumberInv'
  <2>0. ASSUME NEW i \in 1 .. n + 1
        PROVE  /\ i <= p => x[t[i]] = i - 1
               /\ i = p + 1 => x[t[i]] = p
               /\ i > p + 1 => /\ i - 1 \in p + 1 .. n
                               /\ x[t[i]] = board_index[board_list[i - 1]] /\ x[t[i]] > p
    <3>1. ASSUME i <= p PROVE x[t[i]] = i - 1
      <4>1. i \in 1 .. p /\ i \in 1 .. n
        BY <1>1, <3>1
      <4> QED
        BY <1>1, <1>3, <1>7, <4>1
    <3>2. ASSUME i > p + 1
          PROVE  /\ i - 1 \in p + 1 .. n
                 /\ x[t[i]] = board_index[board_list[i - 1]] /\ x[t[i]] > p
      <4>1. i \in p + 2 .. n + 1 /\ i - 1 \in p + 1 .. n /\ i - 1 \in 1 .. n
        BY <1>1, <3>2
      <4> QED
        BY <1>1, <1>3, <1>7, <4>1
    <3>3. i = p + 1 => x[t[i]] = p
      BY <1>3, <1>6
    <3> QED
      BY <3>1, <3>2, <3>3
  <2>1. ASSUME NEW i \in 1 .. n + 1, NEW j \in 1 .. n + 1, i < j
        PROVE  x[t[i]] < x[t[j]]
    <3>1. CASE i > p + 1
      <4>1. j > p + 1 /\ i - 1 < j - 1 /\ i - 1 \in 1 .. n /\ j - 1 \in 1 .. n
        BY <1>1, <2>1, <3>1
      <4>2. board_index[board_list[i - 1]] < board_index[board_list[j - 1]]
        BY <1>0, <4>1 DEF NumberInv, Ordered
      <4> QED
        BY <2>0, <3>1, <4>1, <4>2
    <3>2. CASE i <= p + 1 /\ j > p + 1
      <4>1. x[t[i]] \in Int /\ x[t[i]] <= p /\ x[t[j]] > p
        BY <1>1, <2>0, <3>2
      <4>2. x[t[j]] \in Int
        BY <1>3, <1>6
      <4> QED
        BY <1>1, <4>1, <4>2
    <3>3. CASE j <= p + 1
      BY <1>1, <2>0, <2>1, <3>3
    <3> QED
      BY <1>1, <3>1, <3>2, <3>3
  <2>2. ASSUME NEW i \in 1 .. n + 1 PROVE x[t[i]] \in Minors
    <3>1. CASE i > p + 1
      <4>1. i - 1 \in 1 .. n /\ x[t[i]] = board_index[board_list[i - 1]]
        BY <1>1, <2>0, <3>1
      <4> QED
        BY <1>0, <4>1 DEF NumberInv
    <3>2. CASE i <= p + 1
      BY <1>1, <1>8, <2>0, <3>2 DEF Minors
    <3> QED
      BY <1>1, <3>1, <3>2
  <2> QED
    BY <1>2, <1>3, <1>5, <2>1, <2>2, ZenonT(40) DEF NumberInv, Ordered, Minors
<1> QED
  BY <1>2, <1>3, <1>5, <1>6, <1>9, <1>10

LEMMA InitList == ListInit => ListInv
<1> SUFFICES ASSUME ListInit PROVE ListInv
  OBVIOUS
<1>1. board_list = <<>> /\ board_list \in Seq(Boards) /\ Len(board_list) = 0
  BY DEF ListInit
<1>2. ListTypeOK
  <2>1. 0 \in 0 .. MaxOpens
    BY BoardsAssumption
  <2>2. /\ opened \in [Boards -> 0 .. MaxOpens] /\ board_index \in [Boards -> Nat]
        /\ stage \in [Boards -> Stages] /\ nodes \in [Minors -> Boards \union {NoBoard}]
    BY <2>1 DEF ListInit, Stages
  <2> QED
    BY <1>1, <2>2 DEF ListInit, ListTypeOK
<1>3. Listed = {}
  BY <1>1 DEF Listed
<1>4. NumberInv
  BY <1>1 DEF NumberInv, Ordered
<1>5. \A b \in Boards : stage[b] = "absent"
  BY DEF ListInit
<1>6. NodeInv
  BY <1>5, BoardsAssumption DEF NodeInv, ListInit
<1> QED
  BY <1>2, <1>3, <1>4, <1>5, <1>6 DEF ListInv, ListedInv, ListInit

(* A step that leaves the list alone.                                      *)
LEMMA SameList ==
  ASSUME ListInv, ListTypeOK', UNCHANGED <<board_list, board_index, list_mutex, chrdev_class>>,
         ListedInv', NodeInv',
         \A b \in Boards : stage'[b] \in {"live", "delisted"} => board_index[b] \in Minors
  PROVE  ListInv'
<1>1. NumberInv'
  BY DEF ListInv, NumberInv, Ordered, Minors
<1>2. Minors' = Minors
  BY DEF Minors
<1> QED
  BY <1>1, <1>2 DEF ListInv

LEMMA ModuleStep == ListInv /\ (ModuleInit \/ ModuleExit) => ListInv'
<1> SUFFICES ASSUME ListInv, ModuleInit \/ ModuleExit PROVE ListInv'
  OBVIOUS
<1>1. /\ UNCHANGED <<list_mutex, board_list, board_index, stage, nodes, opened>>
      /\ module' \in {"out", "loaded"} /\ chrdev' \in BOOLEAN /\ chrdev_class' = "none"
  BY DEF ModuleInit, ModuleExit, UnregisterChrdev, ListInv, ListTypeOK
<1>2. ListTypeOK'
  BY <1>1 DEF ListInv, ListTypeOK, Minors, Stages
<1>3. ListedInv' /\ NodeInv'
  BY <1>1 DEF ListInv, ListedInv, NodeInv, Listed, Minors
<1>4. NumberInv'
  BY <1>1 DEF ListInv, NumberInv, Ordered, Minors
<1> QED
  BY <1>1, <1>2, <1>3, <1>4 DEF ListInv, Minors

LEMMA InsertStep ==
  ASSUME ListInv, "class" \in ListContract, NEW b \in Boards, InsertBoard(b)
  PROVE  ListInv'
<1>1. PICK p : p = InsertPosition
  OBVIOUS
<1>2. /\ stage[b] = "insert" /\ chrdev_class' \in {"none", "made"}
      /\ board_list' = SubSeq(board_list, 1, p) \o <<b>>
                         \o SubSeq(board_list, p + 1, Len(board_list))
      /\ board_index' = [board_index EXCEPT ![b] =
                           IF p = 0 THEN 0 ELSE board_index[board_list[p]] + 1]
      /\ stage' = [stage EXCEPT ![b] = "create"]
      /\ UNCHANGED <<list_mutex, module, chrdev, nodes, opened>>
  BY <1>1 DEF InsertBoard, ListInv, ListTypeOK
<1>3. ListTypeOK /\ NumberInv /\ b \notin Listed
  BY <1>2 DEF ListInv, ListedInv
<1>4. /\ board_list' \in Seq(Boards) /\ Listed' = Listed \union {b} /\ NumberInv'
      /\ board_index' \in [Boards -> Nat]
      /\ \A c \in Boards : c # b => board_index'[c] = board_index[c]
  BY <1>1, <1>2, <1>3, InsertedFacts
<1>5. /\ stage' \in [Boards -> Stages] /\ stage'[b] = "create"
      /\ \A c \in Boards : c # b => stage'[c] = stage[c]
  BY <1>2, <1>3 DEF ListTypeOK, Stages
<1>6. ListTypeOK'
  BY <1>2, <1>3, <1>4, <1>5 DEF ListTypeOK, Minors
<1>7. ListedInv'
  BY <1>4, <1>5 DEF ListInv, ListedInv
<1>8. NodeInv'
  <2>1. ASSUME NEW m \in Minors, NEW c \in Boards
        PROVE  nodes'[m] = c <=> stage'[c] \in {"live", "delisted"} /\ board_index'[c] = m
    BY <1>2, <1>4, <1>5 DEF ListInv, NodeInv
  <2> QED
    BY <2>1 DEF NodeInv, Minors
<1>9. ASSUME NEW c \in Boards, stage'[c] \in {"live", "delisted"}
      PROVE  board_index'[c] \in Minors
  BY <1>4, <1>5, <1>9 DEF ListInv
<1> QED
  BY <1>2, <1>4, <1>6, <1>7, <1>8, <1>9 DEF ListInv, Minors

(* What a step does that changes the stage of one board only.              *)
StageOf(b, s) ==
  /\ stage' = [stage EXCEPT ![b] = s]
  /\ UNCHANGED <<module, chrdev, chrdev_class, list_mutex, board_index>>

LEMMA ProbeStep ==
  ASSUME ListInv, NEW b \in Boards, Probe(b) \/ ProbeFails(b)
  PROVE  ListInv'
<1>1. /\ stage[b] \in {"absent", "insert"} /\ UNCHANGED <<board_list, nodes, opened>>
      /\ \E s \in {"absent", "insert"} : StageOf(b, s)
  BY DEF Probe, ProbeFails, StageOf
<1>2. PICK s \in {"absent", "insert"} : StageOf(b, s)
  BY <1>1
<1>3. ListTypeOK /\ ListedInv /\ NodeInv
  BY DEF ListInv
<1>4. /\ stage' \in [Boards -> Stages] /\ stage'[b] = s
      /\ \A c \in Boards : c # b => stage'[c] = stage[c]
  BY <1>2, <1>3 DEF StageOf, ListTypeOK, Stages
<1>5. ListTypeOK'
  BY <1>1, <1>2, <1>3, <1>4 DEF StageOf, ListTypeOK, Minors
<1>6. ListedInv'
  BY <1>1, <1>3, <1>4 DEF ListedInv, Listed
<1>7. NodeInv'
  BY <1>1, <1>2, <1>3, <1>4 DEF NodeInv, StageOf, Minors
<1>8. \A c \in Boards : stage'[c] \in {"live", "delisted"} => board_index[c] \in Minors
  BY <1>4 DEF ListInv
<1> QED
  BY <1>1, <1>2, <1>5, <1>6, <1>7, <1>8, SameList DEF StageOf

LEMMA CreateStep ==
  ASSUME ListInv, NEW b \in Boards, CreateNode(b)
  PROVE  ListInv'
<1>1. /\ stage[b] = "create" /\ nodes[board_index[b]] = NoBoard
      /\ nodes' = [nodes EXCEPT ![board_index[b]] = b]
      /\ StageOf(b, "live") /\ UNCHANGED <<board_list, opened>>
  BY DEF CreateNode, StageOf
<1>2. ListTypeOK /\ ListedInv /\ NodeInv /\ NumberInv
  BY DEF ListInv
<1>3. board_index[b] \in Minors
  <2>1. b \in Listed
    BY <1>1, <1>2 DEF ListedInv
  <2> QED
    BY <1>2, <2>1 DEF NumberInv, Listed
<1>4. /\ stage' \in [Boards -> Stages] /\ stage'[b] = "live"
      /\ \A c \in Boards : c # b => stage'[c] = stage[c]
  BY <1>1, <1>2 DEF StageOf, ListTypeOK, Stages
<1>5. nodes' \in [Minors -> Boards \union {NoBoard}] /\ nodes'[board_index[b]] = b
      /\ \A m \in Minors : m # board_index[b] => nodes'[m] = nodes[m]
  BY <1>1, <1>2, <1>3 DEF ListTypeOK
<1>6. ListTypeOK'
  BY <1>1, <1>2, <1>4, <1>5 DEF StageOf, ListTypeOK, Minors
<1>7. ListedInv'
  BY <1>1, <1>2, <1>4 DEF ListedInv, Listed
<1>8. NodeInv'
  <2>1. ASSUME NEW m \in Minors, NEW c \in Boards
        PROVE  nodes'[m] = c <=> stage'[c] \in {"live", "delisted"} /\ board_index[c] = m
    <3>1. NoBoard # c
      BY BoardsAssumption
    <3>2. CASE c = b
      BY <1>1, <1>2, <1>4, <1>5, <3>2 DEF NodeInv
    <3>3. CASE c # b
      BY <1>1, <1>2, <1>3, <1>4, <1>5, <3>1, <3>3 DEF NodeInv
    <3> QED
      BY <3>2, <3>3
  <2> QED
    BY <1>1, <2>1 DEF NodeInv, Minors, StageOf
<1>9. \A c \in Boards : stage'[c] \in {"live", "delisted"} => board_index[c] \in Minors
  BY <1>3, <1>4 DEF ListInv
<1> QED
  BY <1>1, <1>6, <1>7, <1>8, <1>9, SameList DEF StageOf

(* A board leaves the list: probe_remove_board or hailo_pcie_remove_board. *)
LEMMA UnlistStep ==
  ASSUME ListInv, NEW b \in Boards, CreateFails(b) \/ Delist(b)
  PROVE  ListInv'
<1>1. PICK s \in {"absent", "delisted"} :
        /\ s = "absent" => stage[b] = "create"
        /\ s = "delisted" => stage[b] = "live"
        /\ board_list' = Without(b) /\ StageOf(b, s) /\ UNCHANGED <<nodes, opened>>
  BY DEF CreateFails, Delist, StageOf
<1>2. ListTypeOK /\ ListedInv /\ NodeInv /\ NumberInv /\ b \in Listed
  BY <1>1 DEF ListInv, ListedInv
<1>3. board_list' \in Seq(Boards) /\ Listed' = Listed \ {b} /\ NumberInv'
  BY <1>1, <1>2, WithoutFacts DEF StageOf
<1>4. /\ stage' \in [Boards -> Stages] /\ stage'[b] = s
      /\ \A c \in Boards : c # b => stage'[c] = stage[c]
  BY <1>1, <1>2 DEF StageOf, ListTypeOK, Stages
<1>5. ListTypeOK'
  BY <1>1, <1>2, <1>3, <1>4 DEF StageOf, ListTypeOK, Minors
<1>6. ListedInv'
  BY <1>2, <1>3, <1>4 DEF ListedInv
<1>7. NodeInv'
  BY <1>1, <1>2, <1>4 DEF NodeInv, StageOf, Minors
<1>8. \A c \in Boards : stage'[c] \in {"live", "delisted"} => board_index[c] \in Minors
  BY <1>1, <1>4 DEF ListInv
<1> QED
  BY <1>1, <1>3, <1>5, <1>6, <1>7, <1>8 DEF ListInv, StageOf, Minors

LEMMA DestroyStep ==
  ASSUME ListInv, NEW b \in Boards, DestroyNode(b)
  PROVE  ListInv'
<1>1. PICK s \in {"absent", "orphan"} :
        /\ stage[b] = "delisted" /\ nodes' = [nodes EXCEPT ![board_index[b]] = NoBoard]
        /\ StageOf(b, s) /\ UNCHANGED <<board_list, opened>>
  BY DEF DestroyNode, StageOf
<1>2. ListTypeOK /\ ListedInv /\ NodeInv /\ board_index[b] \in Minors
  BY <1>1 DEF ListInv
<1>3. nodes[board_index[b]] = b
  BY <1>1, <1>2 DEF NodeInv
<1>4. /\ stage' \in [Boards -> Stages] /\ stage'[b] = s
      /\ \A c \in Boards : c # b => stage'[c] = stage[c]
  BY <1>1, <1>2 DEF StageOf, ListTypeOK, Stages
<1>5. nodes' \in [Minors -> Boards \union {NoBoard}] /\ nodes'[board_index[b]] = NoBoard
      /\ \A m \in Minors : m # board_index[b] => nodes'[m] = nodes[m]
  BY <1>1, <1>2 DEF ListTypeOK
<1>6. ListTypeOK'
  BY <1>1, <1>2, <1>4, <1>5 DEF StageOf, ListTypeOK, Minors
<1>7. ListedInv'
  BY <1>1, <1>2, <1>4 DEF ListedInv, Listed
<1>8. NodeInv'
  <2>1. ASSUME NEW m \in Minors, NEW c \in Boards
        PROVE  nodes'[m] = c <=> stage'[c] \in {"live", "delisted"} /\ board_index[c] = m
    <3>1. NoBoard # c
      BY BoardsAssumption
    <3>2. CASE c = b
      BY <1>1, <1>2, <1>4, <1>5, <3>1, <3>2 DEF NodeInv
    <3>3. CASE c # b
      BY <1>2, <1>3, <1>4, <1>5, <3>1, <3>3 DEF NodeInv
    <3> QED
      BY <3>2, <3>3
  <2> QED
    BY <1>1, <2>1 DEF NodeInv, Minors, StageOf
<1>9. \A c \in Boards : stage'[c] \in {"live", "delisted"} => board_index[c] \in Minors
  BY <1>4 DEF ListInv
<1> QED
  BY <1>1, <1>6, <1>7, <1>8, <1>9, SameList DEF StageOf

LEMMA OpenStep ==
  ASSUME ListInv, NEW m \in Minors, OpenNode(m)
  PROVE  ListInv'
<1>1. /\ \E b \in Boards : opened' = [opened EXCEPT ![b] = @ + 1] /\ opened[b] < MaxOpens
      /\ UNCHANGED <<module, chrdev, chrdev_class, list_mutex, board_list, board_index, stage,
                     nodes>>
  <2>1. Listed \subseteq Boards
    BY ListFacts DEF ListInv, Listed
  <2> QED
    BY <2>1 DEF OpenNode
<1>2. ListTypeOK /\ ListedInv /\ NodeInv
  BY DEF ListInv
<1>3. opened' \in [Boards -> 0 .. MaxOpens]
  BY <1>1, <1>2, BoardsAssumption DEF ListTypeOK
<1>4. ListTypeOK' /\ ListedInv' /\ NodeInv'
  BY <1>1, <1>2, <1>3 DEF ListTypeOK, ListedInv, NodeInv, Listed, Minors, Stages
<1> QED
  BY <1>1, <1>4, SameList DEF ListInv

LEMMA CloseStep ==
  ASSUME ListInv, NEW b \in Boards, CloseFile(b)
  PROVE  ListInv'
<1>1. PICK s \in Stages :
        /\ s = stage[b] \/ (stage[b] = "orphan" /\ s = "absent")
        /\ StageOf(b, s) /\ opened[b] > 0
        /\ opened' = [opened EXCEPT ![b] = @ - 1] /\ UNCHANGED <<board_list, nodes>>
  BY DEF CloseFile, StageOf, ListInv, ListTypeOK, Stages
<1>2. ListTypeOK /\ ListedInv /\ NodeInv
  BY DEF ListInv
<1>3. opened' \in [Boards -> 0 .. MaxOpens]
  BY <1>1, <1>2, BoardsAssumption DEF ListTypeOK
<1>4. /\ stage' \in [Boards -> Stages] /\ stage'[b] = s
      /\ \A c \in Boards : c # b => stage'[c] = stage[c]
  BY <1>1, <1>2 DEF StageOf, ListTypeOK
<1>5. ListTypeOK'
  BY <1>1, <1>2, <1>3, <1>4 DEF StageOf, ListTypeOK, Minors
<1>6. ListedInv'
  BY <1>1, <1>2, <1>4 DEF ListedInv, Listed
<1>7. NodeInv'
  BY <1>1, <1>2, <1>4 DEF NodeInv, StageOf, Minors
<1>8. \A c \in Boards : stage'[c] \in {"live", "delisted"} => board_index[c] \in Minors
  BY <1>1, <1>4 DEF ListInv
<1> QED
  BY <1>1, <1>5, <1>6, <1>7, <1>8, SameList DEF StageOf

LEMMA ListStep ==
  ASSUME "class" \in ListContract
  PROVE  ListInv /\ [ListNext]_listVars => ListInv'
<1> SUFFICES ASSUME ListInv, [ListNext]_listVars PROVE ListInv'
  OBVIOUS
<1>1. CASE UNCHANGED listVars
  BY <1>1 DEF listVars, ListInv, ListTypeOK, ListedInv, NodeInv, NumberInv, Ordered, Listed,
              Minors, Stages
<1> QED
  BY <1>1, ModuleStep, InsertStep, ProbeStep, CreateStep, UnlistStep, DestroyStep, OpenStep,
     CloseStep DEF ListNext

(* hailo_pcie_insert_board and hailo_pcie_remove_board keep the list in    *)
(* the order of the numbers, give a board the first number that is free    *)
(* and give back the mutex, and the device node of a board that was probed *)
(* is its own, for any number of boards: if class_create succeeds.         *)
THEOREM BoardsCorrect == "class" \in ListContract => (ListSpec => []BoardsNumbered)
<1> SUFFICES ASSUME "class" \in ListContract PROVE ListSpec => []BoardsNumbered
  OBVIOUS
<1>1. ListInv => BoardsNumbered
  <2> SUFFICES ASSUME ListInv PROVE BoardsNumbered
    OBVIOUS
  <2>1. ListTypeOK /\ list_mutex = 1 /\ ListedInv /\ NodeInv /\ NumberInv
    BY DEF ListInv
  <2>2. ASSUME NEW i \in 1 .. Len(board_list) - 1
        PROVE  board_index[board_list[i]] < board_index[board_list[i + 1]]
    <3>1. i \in 1 .. Len(board_list) /\ i + 1 \in 1 .. Len(board_list) /\ i < i + 1
      BY <2>1, ListFacts
    <3> QED
      BY <2>1, <3>1 DEF NumberInv, Ordered
  <2>3. \A b \in Listed : board_index[b] \in Minors
    BY <2>1 DEF NumberInv, Listed
  <2>4. \A b \in Boards : stage[b] = "live" => b \in Listed /\ nodes[board_index[b]] = b
    BY <2>1, <2>3 DEF ListedInv, NodeInv
  <2> QED
    BY <2>1, <2>2, <2>3, <2>4 DEF BoardsNumbered
<1> QED
  BY <1>1, InitList, ListStep, PTL DEF ListSpec

(* With the whole contract, no board is about to get a node while another  *)
(* one still has that of a number it gave up, so that a file is only ever  *)
(* opened on a board whose probe is over.                                  *)
DanglingInv ==
  /\ ListInv
  /\ \A b \in Boards, c \in Boards :
       stage[b] = "delisted" => stage[c] \notin {"insert", "create"}
  /\ \A b \in Boards : opened[b] > 0 => stage[b] \in {"live", "delisted", "orphan"}
  /\ module = "out" => ~chrdev

(* An open finds a board whose probe is over.                              *)
LEMMA OpensLive ==
  ASSUME DanglingInv, NEW m \in Minors, NEW b \in Listed, nodes[m] # NoBoard, board_index[b] = m
  PROVE  b \in Boards /\ stage[b] = "live"
<1>1. ListTypeOK /\ NumberInv /\ ListedInv /\ NodeInv
  BY DEF DanglingInv, ListInv
<1>2. b \in Boards /\ stage[b] \in {"create", "live"}
  BY <1>1, ListFacts DEF ListedInv, Listed
<1>3. PICK c \in Boards : nodes[m] = c
  BY <1>1 DEF ListTypeOK
<1>4. stage[c] \in {"live", "delisted"} /\ board_index[c] = m
  BY <1>1, <1>3 DEF NodeInv
<1>5. CASE stage[c] = "delisted"
  BY <1>2, <1>5 DEF DanglingInv
<1>6. CASE stage[c] = "live"
  <2>1. c \in Listed
    BY <1>1, <1>6 DEF ListedInv
  <2>2. c = b
    BY <1>1, <1>4, <2>1, OneNumber
  <2> QED
    BY <1>2, <1>6, <2>2
<1> QED
  BY <1>4, <1>5, <1>6

(* hailo_pcie_probe frees the board without a look at ref_count, and       *)
(* hailo_pcie_unregister_chrdev returns early when there is no class: no   *)
(* file is ever open on a board that was freed, and no character device    *)
(* is left by a module that is gone, as long as no device is probed while  *)
(* another is removed, classes can be made and a device was found.         *)
THEOREM DanglingCorrect == ListClauses \subseteq ListContract => (ListSpec => []NothingDangles)
<1> SUFFICES ASSUME ListClauses \subseteq ListContract PROVE ListSpec => []NothingDangles
  OBVIOUS
<1>1. "class" \in ListContract /\ "serial" \in ListContract /\ "probed" \in ListContract
  BY DEF ListClauses
<1>2. ListInit => DanglingInv
  BY InitList DEF ListInit, DanglingInv
<1>3. ASSUME DanglingInv, [ListNext]_listVars PROVE DanglingInv'
  <2>1. ListInv' /\ ListTypeOK
    BY <1>1, <1>3, ListStep DEF DanglingInv, ListInv
  <2>2. CASE UNCHANGED listVars
    BY <1>3, <2>1, <2>2 DEF listVars, DanglingInv
  <2>3. CASE ModuleInit
    BY <1>1, <1>3, <2>1, <2>3 DEF ModuleInit, DanglingInv
  <2>4. CASE ModuleExit
    BY <1>1, <1>3, <2>1, <2>4 DEF ModuleExit, UnregisterChrdev, DanglingInv
  <2>5. CASE \E m \in Minors : OpenNode(m)
    <3>1. PICK m \in Minors, b \in Listed :
            /\ nodes[m] # NoBoard /\ board_index[b] = m
            /\ opened' = [opened EXCEPT ![b] = @ + 1] /\ UNCHANGED <<module, chrdev, stage>>
      BY <2>5 DEF OpenNode
    <3>2. b \in Boards /\ stage[b] = "live"
      BY <1>3, <3>1, OpensLive
    <3> QED
      BY <1>3, <2>1, <3>1, <3>2 DEF DanglingInv, ListTypeOK
  <2>6. ASSUME NEW b \in Boards,
               Probe(b) \/ ProbeFails(b) \/ InsertBoard(b) \/ CreateNode(b) \/ CreateFails(b)
                 \/ Delist(b)
        PROVE  DanglingInv'
    <3>1. PICK s \in Stages \ {"orphan"} :
            /\ stage' = [stage EXCEPT ![b] = s]
            /\ UNCHANGED <<module, chrdev, opened>>
            /\ stage[b] \in {"live", "delisted", "orphan"} => s = "delisted"
            /\ s = "delisted" => \A c \in Boards : stage[c] \notin {"insert", "create"}
            /\ s = "insert" => \A c \in Boards : stage[c] # "delisted"
            /\ s = "create" => stage[b] = "insert"
      BY <1>1, <1>3, <2>6 DEF Probe, ProbeFails, InsertBoard, CreateNode, CreateFails, Delist,
                              DanglingInv, Stages
    <3>2. stage'[b] = s /\ \A c \in Boards : c # b => stage'[c] = stage[c]
      BY <2>1, <3>1 DEF ListTypeOK
    <3> QED
      BY <1>3, <2>1, <3>1, <3>2 DEF DanglingInv
  <2>7. ASSUME NEW b \in Boards, DestroyNode(b) PROVE DanglingInv'
    <3>1. /\ stage' = [stage EXCEPT ![b] = IF opened[b] = 0 THEN "absent" ELSE "orphan"]
          /\ UNCHANGED <<module, chrdev, opened>> /\ opened[b] \in Nat
      BY <2>1, <2>7, BoardsAssumption DEF DestroyNode, ListTypeOK
    <3> QED
      BY <1>3, <2>1, <3>1 DEF DanglingInv, ListTypeOK
  <2>8. ASSUME NEW b \in Boards, CloseFile(b) PROVE DanglingInv'
    <3>1. /\ stage' = [stage EXCEPT ![b] =
                         IF stage[b] = "orphan" /\ opened[b] = 1 THEN "absent" ELSE stage[b]]
          /\ opened' = [opened EXCEPT ![b] = opened[b] - 1]
          /\ UNCHANGED <<module, chrdev>> /\ opened[b] \in Nat /\ opened[b] > 0
      BY <2>1, <2>8, BoardsAssumption DEF CloseFile, ListTypeOK
    <3> QED
      BY <1>3, <2>1, <3>1 DEF DanglingInv, ListTypeOK
  <2> QED
    BY <1>3, <2>2, <2>3, <2>4, <2>5, <2>6, <2>7, <2>8 DEF ListNext
<1>4. DanglingInv => NothingDangles
  BY DEF DanglingInv, NothingDangles
<1> QED
  BY <1>2, <1>3, <1>4, PTL DEF ListSpec
=============================================================================
