----------------------------- MODULE AtrAccess -----------------------------
(***************************************************************************)
(* Access to the device's memory (common/pcie_common.c) through a window   *)
(* that the first entry of the address translation table places. The same  *)
(* entry "is also used by the firmware": read_memory and write_memory save *)
(* it, move it along in steps of the window and restore it, and the        *)
(* firmware sets it when it comes up, which on Hailo-8 is how the driver   *)
(* sees that it did (hailo_pcie_is_firmware_loaded).                       *)
(*                                                                         *)
(* The k-th byte of the source of a write has the value k; the byte the    *)
(* device has at address a to begin with is -a.                            *)
(***************************************************************************)
EXTENDS Integers, Sequences

CONSTANTS
  AtrSize,      \* ATR_TABLE_SIZE
  MemSize,      \* bytes of the device's memory
  Ranges,       \* [addr, len] of the accesses
  Trigger,      \* trigger_address: writing it starts the firmware
  FwAddress,    \* where the firmware points the window
  MaxAccesses,
  AtrContract   \* which of AtrClauses hold

(* What the driver relies on:                                              *)
(*   slow  the firmware does not come up before the write that starts it,  *)
(*         or another access, has restored the entry                       *)
AtrClauses == {"slow"}

ASSUME AtrAssumption ==
  /\ AtrSize \in Nat \ {0} /\ MemSize \in Nat /\ MaxAccesses \in Nat
  /\ \A r \in Ranges : r.len \in Nat \ {0} /\ r.addr \in Nat /\ r.addr + r.len <= MemSize
  /\ AtrContract \subseteq AtrClauses

VARIABLES
  atr,        \* trsl_addr of entry 0
  memory,     \* the device's memory
  firmware,   \* off, started or up
  access,     \* the access under way, or the last one
  accesses    \* how many there were

atrVars == <<atr, memory, firmware, access, accesses>>

Addresses == 0 .. MemSize - 1
Idle == [at |-> "idle", op |-> "read", addr |-> 0, len |-> 0, offset |-> 0,
         previous |-> 0, data |-> <<>>, before |-> <<>>]

AtrInit ==
  /\ atr = 0
  /\ memory = [a \in Addresses |-> -a]
  /\ firmware = "off"
  /\ access = Idle /\ accesses = 0

----------------------------------------------------------------------------
(* The bytes an access of the window at dest_offset meets: the device adds *)
(* the offset to the translated address, of which it takes whole windows.  *)
Translated(dest_offset) == (atr - (atr % AtrSize)) + dest_offset

(* Mutant: the first chunk fills a window.                                 *)
FirstChunkLong(addr, len) == IF AtrSize < len THEN AtrSize ELSE len

(* A first chunk that is not aligned ends with its window.                 *)
FirstChunk(addr, len) ==
  LET rest == AtrSize - (addr % AtrSize) IN IF rest < len THEN rest ELSE len

(* The next chunk of the access: where the window goes, the offset in it   *)
(* and the length.                                                         *)
Chunk ==
  LET dest == access.addr + access.offset
      left == access.len - access.offset
  IN
  IF access.offset = 0 /\ dest % AtrSize # 0
  THEN [base |-> dest - (dest % AtrSize), offset |-> dest % AtrSize,
        len |-> FirstChunk(dest, left)]
  ELSE [base |-> dest, offset |-> 0, len |-> IF left < AtrSize THEN left ELSE AtrSize]

(* write_memory and read_memory save the entry,                            *)
BeginAccess(op, r) ==
  /\ access.at = "idle" /\ accesses < MaxAccesses
  /\ accesses' = accesses + 1
  /\ access' = [at |-> "configure", op |-> op, addr |-> r.addr, len |-> r.len,
                offset |-> 0, previous |-> atr, data |-> <<>>, before |-> memory]
  /\ UNCHANGED <<atr, memory, firmware>>

(* write_memory_chunk and read_memory_chunk: hailo_pcie_configure_atr_table*)
(* for the chunk,                                                          *)
ConfigureAtr ==
  /\ access.at = "configure"
  /\ atr' = Chunk.base
  /\ access' = [access EXCEPT !.at = "chunk"]
  /\ UNCHANGED <<memory, firmware, accesses>>

(* then the access itself.                                                 *)
AccessChunk ==
  LET c == Chunk
      Met(i) == Translated(c.offset) + i
  IN
  /\ access.at = "chunk"
  /\ access' = [access EXCEPT
                  !.at = IF access.offset + c.len < access.len THEN "configure" ELSE "restore",
                  !.offset = @ + c.len,
                  !.data = IF access.op = "write" THEN @
                           ELSE @ \o [i \in 1 .. c.len |-> memory[Met(i - 1)]]]
  /\ memory' = IF access.op = "read" THEN memory
               ELSE [a \in Addresses |->
                       IF \E i \in 0 .. c.len - 1 : Met(i) = a
                       THEN access.offset + a - Met(0) + 1 ELSE memory[a]]
  /\ firmware' = IF access.op = "write" /\ firmware = "off"
                      /\ Trigger \in Met(0) .. Met(c.len - 1)
                 THEN "started" ELSE firmware
  /\ UNCHANGED <<atr, accesses>>

RestoreAtr ==
  /\ access.at = "restore"
  /\ atr' = access.previous
  /\ access' = [access EXCEPT !.at = "idle"]
  /\ UNCHANGED <<memory, firmware, accesses>>

(* The firmware comes up and places the window for controls and vDMA.      *)
FirmwareUp ==
  /\ firmware = "started"
  /\ "slow" \in AtrContract => access.at = "idle"
  /\ firmware' = "up"
  /\ atr' = FwAddress
  /\ UNCHANGED <<memory, access, accesses>>

AtrNext ==
  \/ \E op \in {"read", "write"}, r \in Ranges : BeginAccess(op, r)
  \/ ConfigureAtr
  \/ AccessChunk
  \/ RestoreAtr
  \/ FirmwareUp

AtrSpec == AtrInit /\ [][AtrNext]_atrVars

----------------------------------------------------------------------------
(* Properties.                                                             *)

(* An access in chunks reads or writes exactly the bytes it names, in      *)
(* order, however they lie in the windows, and no chunk leaves its window  *)
(* (the BUG_ON in write_memory_chunk). When it is over the window is where *)
(* it was, so the firmware's place survives and                            *)
(* hailo_pcie_is_firmware_loaded finds it.                                 *)
WindowAccessExact ==
  /\ access.at \in {"configure", "chunk"} => Chunk.offset + Chunk.len <= AtrSize
  /\ access.at = "restore" =>
       /\ access.op = "read" =>
            access.data = [i \in 1 .. access.len |-> memory[access.addr + i - 1]]
       /\ memory = [a \in Addresses |->
                      IF access.op = "write"
                           /\ a \in access.addr .. access.addr + access.len - 1
                      THEN a - access.addr + 1 ELSE access.before[a]]
  /\ access.at = "idle" => atr = IF firmware = "up" THEN FwAddress ELSE 0
=============================================================================
