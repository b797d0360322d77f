----------------------------- MODULE BoardList -----------------------------
(***************************************************************************)
(* The boards of the driver (linux/pcie/src/pcie.c): the module is loaded  *)
(* and unloaded, devices are probed and removed, each by a thread of its   *)
(* own, and files are opened through device nodes. The list of boards is   *)
(* under g_hailo_add_board_mutex; device nodes are made and destroyed      *)
(* outside of it.                                                          *)
(*                                                                         *)
(* A board is a struct hailo_pcie_board, whose memory may be used again.   *)
(* What happens on one board between its open and its release is in        *)
(* BoardLifecycle.                                                         *)
(***************************************************************************)
EXTENDS Integers, Sequences, FiniteSets

CONSTANTS
  Boards,
  NoBoard,
  MaxOpens,     \* open files of a board
  ListContract  \* which of ListClauses hold

(* What the driver leaves to luck:                                         *)
(*   class  class_create succeeds                                          *)
(*   serial no device is probed while another is being removed             *)
(*   probed the module is not given up before a device was found           *)
ListClauses == {"class", "serial", "probed"}

ASSUME BoardsAssumption ==
  /\ IsFiniteSet(Boards) /\ NoBoard \notin Boards /\ MaxOpens \in Nat
  /\ ListContract \subseteq ListClauses

VARIABLES
  module,       \* loaded or not
  chrdev,       \* the character device is registered
  chrdev_class, \* g_chrdev_class: none, made, or an error pointer
  list_mutex,   \* count of g_hailo_add_board_mutex
  board_list,   \* g_hailo_board_list
  board_index,
  stage,        \* where the probe or the removal of each board is
  nodes,        \* board of each device node
  opened        \* files open on each board

listVars ==
  <<module, chrdev, chrdev_class, list_mutex, board_list, board_index, stage, nodes, opened>>

Minors == 0 .. Cardinality(Boards) - 1
Stages == {"absent", "insert", "create", "live", "delisted", "orphan"}

ListTypeOK ==
  /\ module \in {"out", "loaded"} /\ chrdev \in BOOLEAN
  /\ chrdev_class \in {"none", "made", "error"}
  /\ list_mutex \in {0, 1}
  /\ board_list \in Seq(Boards)
  /\ board_index \in [Boards -> Nat]
  /\ stage \in [Boards -> Stages]
  /\ nodes \in [Minors -> Boards \union {NoBoard}]
  /\ opened \in [Boards -> 0 .. MaxOpens]

ListInit ==
  /\ module = "out" /\ chrdev = FALSE /\ chrdev_class = "none" /\ list_mutex = 1
  /\ board_list = <<>>
  /\ board_index = [b \in Boards |-> 0]
  /\ stage = [b \in Boards |-> "absent"]
  /\ nodes = [m \in Minors |-> NoBoard]
  /\ opened = [b \in Boards |-> 0]

Listed == {board_list[i] : i \in 1 .. Len(board_list)}

----------------------------------------------------------------------------
(* hailo_pcie_unregister_chrdev: "if (!g_chrdev_class) return".            *)
UnregisterChrdev ==
  /\ chrdev_class' = "none"
  /\ chrdev' = (chrdev /\ chrdev_class = "none")

(* hailo_pcie_module_init. When pci_register_driver fails there is no class*)
(* yet, so hailo_pcie_unregister_chrdev does nothing.                      *)
ModuleInit ==
  /\ module = "out"
  /\ module' \in {"loaded"} \union IF "probed" \in ListContract THEN {} ELSE {"out"}
  /\ chrdev' = TRUE /\ chrdev_class' = "none"
  /\ UNCHANGED <<list_mutex, board_list, board_index, stage, nodes, opened>>

(* hailo_pcie_module_exit, once every device is removed and, as the module *)
(* is in use by every open file, none is open.                             *)
ModuleExit ==
  /\ module = "loaded" /\ \A b \in Boards : stage[b] = "absent"
  /\ "probed" \in ListContract => chrdev_class # "none"
  /\ UnregisterChrdev
  /\ module' = "out"
  /\ UNCHANGED <<list_mutex, board_list, board_index, stage, nodes, opened>>

----------------------------------------------------------------------------
(* hailo_pcie_probe up to the activation of the board.                     *)
Probe(b) ==
  /\ module = "loaded" /\ stage[b] = "absent"
  /\ "serial" \in ListContract => \A c \in Boards : stage[c] # "delisted"
  /\ stage' = [stage EXCEPT ![b] = "insert"]
  /\ UNCHANGED <<module, chrdev, chrdev_class, list_mutex, board_list, board_index, nodes,
                 opened>>

(* A failure on the way there, or to insert the board, frees it.           *)
ProbeFails(b) ==
  /\ stage[b] = "insert"
  /\ stage' = [stage EXCEPT ![b] = "absent"]
  /\ UNCHANGED <<module, chrdev, chrdev_class, list_mutex, board_list, board_index, nodes,
                 opened>>

(* Mutant: behind the last board, as in a list that never has gaps.        *)
AppendPosition == Len(board_list)

(* Where hailo_pcie_insert_board adds the board: in front of a list that   *)
(* does not begin with index 0, else behind the first board whose          *)
(* successor does not have the next index.                                 *)
InsertPosition ==
  IF board_list = <<>> \/ board_index[board_list[1]] > 0 THEN 0
  ELSE CHOOSE i \in 1 .. Len(board_list) :
         /\ i = Len(board_list)
              \/ board_index[board_list[i]] + 1 # board_index[board_list[i + 1]]
         /\ \A j \in 1 .. i - 1 :
              board_index[board_list[j]] + 1 = board_index[board_list[j + 1]]

(* hailo_pcie_insert_board. If there is no class the call returns with the *)
(* mutex taken, and the probe fails.                                       *)
InsertBoard(b) ==
  LET p == InsertPosition
      made == IF chrdev_class = "none" THEN {"made", "error"} ELSE {chrdev_class}
  IN
  /\ stage[b] = "insert" /\ list_mutex = 1
  /\ chrdev_class' \in IF "class" \in ListContract THEN made \ {"error"} ELSE made
  /\ IF chrdev_class = "none" /\ chrdev_class' = "error"
     THEN /\ list_mutex' = 0
          /\ stage' = [stage EXCEPT ![b] = "absent"]
          /\ UNCHANGED <<board_list, board_index>>
     ELSE /\ board_index' = [board_index EXCEPT ![b] =
                               IF p = 0 THEN 0 ELSE board_index[board_list[p]] + 1]
          /\ board_list' = SubSeq(board_list, 1, p) \o <<b>>
                             \o SubSeq(board_list, p + 1, Len(board_list))
          /\ stage' = [stage EXCEPT ![b] = "create"]
          /\ UNCHANGED list_mutex
  /\ UNCHANGED <<module, chrdev, nodes, opened>>

(* device_create_with_groups: the name must be new.                        *)
CreateNode(b) ==
  /\ stage[b] = "create" /\ nodes[board_index[b]] = NoBoard
  /\ nodes' = [nodes EXCEPT ![board_index[b]] = b]
  /\ stage' = [stage EXCEPT ![b] = "live"]
  /\ UNCHANGED <<module, chrdev, chrdev_class, list_mutex, board_list, board_index, opened>>

(* list_del *)
Without(b) ==
  LET i == CHOOSE i \in 1 .. Len(board_list) : board_list[i] = b
  IN SubSeq(board_list, 1, i - 1) \o SubSeq(board_list, i + 1, Len(board_list))

(* The node cannot be made: probe_remove_board and on, to kfree(pBoard).   *)
CreateFails(b) ==
  /\ stage[b] = "create" /\ list_mutex = 1
  /\ board_list' = Without(b)
  /\ stage' = [stage EXCEPT ![b] = "absent"]
  /\ UNCHANGED <<module, chrdev, chrdev_class, list_mutex, board_index, nodes, opened>>

----------------------------------------------------------------------------
(* hailo_pcie_remove: hailo_pcie_remove_board,                             *)
Delist(b) ==
  /\ stage[b] = "live" /\ list_mutex = 1
  /\ "serial" \in ListContract => \A c \in Boards : stage[c] \notin {"insert", "create"}
  /\ board_list' = Without(b)
  /\ stage' = [stage EXCEPT ![b] = "delisted"]
  /\ UNCHANGED <<module, chrdev, chrdev_class, list_mutex, board_index, nodes, opened>>

(* Mutant: the board is freed although files are open on it.               *)
DestroyFrees(b) ==
  /\ stage[b] = "delisted"
  /\ nodes' = [nodes EXCEPT ![board_index[b]] = NoBoard]
  /\ stage' = [stage EXCEPT ![b] = "absent"]
  /\ UNCHANGED <<module, chrdev, chrdev_class, list_mutex, board_list, board_index, opened>>

(* then device_destroy, by number, and the rest: the board is freed, or    *)
(* left to its last close.                                                 *)
DestroyNode(b) ==
  /\ stage[b] = "delisted"
  /\ nodes' = [nodes EXCEPT ![board_index[b]] = NoBoard]
  /\ stage' = [stage EXCEPT ![b] = IF opened[b] = 0 THEN "absent" ELSE "orphan"]
  /\ UNCHANGED <<module, chrdev, chrdev_class, list_mutex, board_list, board_index, opened>>

(* hailo_pcie_get_board_index, for an open through a device node.          *)
OpenNode(m) ==
  \E b \in Listed :
    /\ nodes[m] # NoBoard /\ board_index[b] = m /\ list_mutex = 1
    /\ opened[b] < MaxOpens
    /\ opened' = [opened EXCEPT ![b] = @ + 1]
    /\ UNCHANGED <<module, chrdev, chrdev_class, list_mutex, board_list, board_index, stage,
                   nodes>>

(* The last close of a board whose device is gone frees it.                *)
CloseFile(b) ==
  /\ opened[b] > 0
  /\ opened' = [opened EXCEPT ![b] = @ - 1]
  /\ stage' = [stage EXCEPT ![b] = IF @ = "orphan" /\ opened[b] = 1 THEN "absent" ELSE @]
  /\ UNCHANGED <<module, chrdev, chrdev_class, list_mutex, board_list, board_index, nodes>>

ListNext ==
  \/ ModuleInit
  \/ ModuleExit
  \/ \E b \in Boards :
       \/ Probe(b) \/ ProbeFails(b) \/ InsertBoard(b) \/ CreateNode(b) \/ CreateFails(b)
       \/ Delist(b) \/ DestroyNode(b) \/ CloseFile(b)
  \/ \E m \in Minors : OpenNode(m)

ListSpec == ListInit /\ [][ListNext]_listVars

----------------------------------------------------------------------------
(* Properties.                                                             *)

(* Every board has a number of its own, the smallest that was free: the    *)
(* list is in the order of the numbers, whatever was removed from it       *)
(* before, and they never run past the number of boards. A board that was  *)
(* probed is the one its device node leads to. The list's mutex is given   *)
(* back by every call.                                                     *)
BoardsNumbered ==
  /\ ListTypeOK
  /\ list_mutex = 1
  /\ \A i \in 1 .. Len(board_list) - 1 :
       board_index[board_list[i]] < board_index[board_list[i + 1]]
  /\ \A b \in Listed : board_index[b] \in Minors
  /\ \A b \in Boards : stage[b] = "live" => b \in Listed /\ nodes[board_index[b]] = b

(* Nothing is left that leads to memory or code that is gone: a file never *)
(* outlives its board, although the probe frees a board without a look at  *)
(* ref_count, and an unloaded module leaves no character device whose      *)
(* operations are its code.                                                *)
NothingDangles ==
  /\ \A b \in Boards : opened[b] > 0 => stage[b] # "absent"
  /\ module = "out" => ~chrdev
=============================================================================
