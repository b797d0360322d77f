------------------------------ MODULE FwImage ------------------------------
(***************************************************************************)
(* The check of a firmware file before it is written to the device         *)
(* (common/fw_validation.c, write_single_file in common/pcie_common.c). A  *)
(* file with headers is                                                    *)
(*   header, code, certificate header, key, content                        *)
(* and, for an NNC, a second header and its code. Headers say how long     *)
(* what follows them is, and may say anything: every size of a header is   *)
(* picked when the header is read. Offsets are u32, here modulo 2^Word.    *)
(***************************************************************************)
EXTENDS Integers, Sequences

CONSTANTS
  Word,             \* bits of an offset
  ImageSizes,       \* sizes of files
  ImageMaxSize,     \* max_size of the file in the table of files
  HeaderSize,       \* sizeof(firmware_header_t)
  CertHeaderSize,   \* sizeof(secure_boot_certificate_header_t)
  MinCode,          \* MINIMUM_FIRMWARE_CODE_SIZE
  MaxAppCode,       \* MAXIMUM_APP_FIRMWARE_CODE_SIZE
  MaxCoreCode,      \* MAXIMUM_CORE_FIRMWARE_CODE_SIZE
  MaxCert           \* MAXIMUM_FIRMWARE_CERT_KEY_SIZE and ..._CONTENT_SIZE

(* Two sizes that pass never overflow an offset.                           *)
ASSUME ImageAssumption ==
  /\ ImageSizes \subseteq Nat /\ ImageMaxSize \in Nat
  /\ 2^Word \in Nat /\ 2 * ImageMaxSize < 2^Word
  /\ HeaderSize \in 1 .. ImageMaxSize /\ CertHeaderSize \in 1 .. ImageMaxSize

VARIABLES
  headers,   \* of the file, by has_header, has_core and accelerator_type
  size,      \* firmware_size
  consumed,  \* consumed_firmware_offset
  step,      \* what is checked next, or "accepted", "rejected"
  pieces,    \* the pieces found so far: what, where and how long
  touched,   \* [from, size] of every access to the file
  written    \* how many pieces were written to the device

imageVars == <<headers, size, consumed, step, pieces, touched, written>>

U32 == 0 .. 2^Word - 1
Code == [app |-> "app_code", core |-> "core_code"]  \* what follows a header

ImageInit ==
  /\ headers \in {"none", "app", "app and core"}
  /\ size \in ImageSizes
  /\ consumed = 0 /\ step = "size" /\ pieces = <<>> /\ touched = {} /\ written = 0

----------------------------------------------------------------------------
(* Mutant: each size is compared with the file's, their sum is not.        *)
InImageEach(offset, n) == n <= size

(* The comparisons of CONSUME_FIRMWARE.                                    *)
InImage(offset, n) == n <= size /\ (offset + n) % 2^Word <= size

Found(name, from, n) == [name |-> name, from |-> from, size |-> n]

(* `size > max_size' is -EFBIG; a file without headers is taken as it is.  *)
CheckMaxSize ==
  /\ step = "size"
  /\ step' = IF size > ImageMaxSize THEN "rejected"
             ELSE IF headers = "none" THEN "accepted" ELSE "app"
  /\ pieces' = IF step' = "accepted" THEN <<Found("file", 0, size)>> ELSE <<>>
  /\ UNCHANGED <<headers, size, consumed, touched, written>>

Reject ==
  /\ step' = "rejected"
  /\ UNCHANGED <<consumed, pieces>>

(* The pieces that were found are taken off the file, up to the offset end.*)
Consume(found, end, next) ==
  /\ step' = next
  /\ consumed' = end % 2^Word
  /\ pieces' = pieces \o found

(* FW_VALIDATION__validate_fw_header. The header is read once it is known  *)
(* to be in the file; its magic and version are good or not.               *)
ValidateFwHeader(at, max_code_size, next) ==
  LET code == consumed + HeaderSize IN
  /\ step = at
  /\ IF ~InImage(consumed, HeaderSize)
     THEN Reject /\ UNCHANGED touched
     ELSE /\ touched' = touched \union {[from |-> consumed, size |-> HeaderSize]}
          /\ \/ Reject
             \/ \E code_size \in U32 :
                  IF /\ code_size \in MinCode .. max_code_size
                     /\ InImage(code, code_size)
                  THEN Consume(<<Found(at, consumed, HeaderSize),
                                 Found(Code[at], code, code_size)>>, code + code_size, next)
                  ELSE Reject
  /\ UNCHANGED <<headers, size, written>>

(* FW_VALIDATION__validate_cert_header                                     *)
ValidateCertHeader ==
  LET next == IF headers = "app" THEN "end" ELSE "core"
      key == consumed + CertHeaderSize
  IN
  /\ step = "cert"
  /\ IF ~InImage(consumed, CertHeaderSize)
     THEN Reject /\ UNCHANGED touched
     ELSE /\ touched' = touched \union {[from |-> consumed, size |-> CertHeaderSize]}
          /\ \E key_size \in U32, content_size \in U32 :
               IF /\ key_size <= MaxCert /\ content_size <= MaxCert
                  /\ InImage(key, key_size)
                  /\ InImage(key + key_size, content_size)
               THEN Consume(<<Found("cert", consumed, CertHeaderSize),
                              Found("key", key, key_size),
                              Found("content", key + key_size, content_size)>>,
                            key + key_size + content_size, next)
               ELSE Reject
  /\ UNCHANGED <<headers, size, written>>

(* The end of FW_VALIDATION__validate_fw_headers: nothing may be left.     *)
CheckLeftover ==
  /\ step = "end"
  /\ step' = IF consumed = size THEN "accepted" ELSE "rejected"
  /\ UNCHANGED <<headers, size, consumed, pieces, touched, written>>

(* hailo_write_app_firmware and, with a core, hailo_write_core_firmware    *)
(* write the pieces one by one, by what the headers say.                   *)
WriteOrder ==
  CASE headers = "none" -> <<"file">>
    [] headers = "app" -> <<"app", "app_code", "key", "content">>
    [] OTHER -> <<"app", "app_code", "key", "content", "core_code", "core">>

WritePiece ==
  /\ step = "accepted" /\ written < Len(WriteOrder)
  /\ \E i \in 1 .. Len(pieces) :
       /\ pieces[i].name = WriteOrder[written + 1]
       /\ touched' = touched \union {[from |-> pieces[i].from, size |-> pieces[i].size]}
  /\ written' = written + 1
  /\ UNCHANGED <<headers, size, consumed, step, pieces>>

ImageNext ==
  \/ CheckMaxSize
  \/ ValidateFwHeader("app", MaxAppCode, "cert")
  \/ ValidateCertHeader
  \/ ValidateFwHeader("core", MaxCoreCode, "end")
  \/ CheckLeftover
  \/ WritePiece

ImageSpec == ImageInit /\ [][ImageNext]_imageVars

----------------------------------------------------------------------------
(* Properties.                                                             *)

(* "when reading the firmware we don't want to read past the              *)
(* firmware_size": whatever the headers say, no access leaves the file; a  *)
(* file that is accepted is its pieces, one behind the other from its first*)
(* byte to its last.                                                       *)
ImageInBounds ==
  /\ \A t \in touched : t.from + t.size <= size
  /\ step = "accepted" =>
       /\ \A i \in 1 .. Len(pieces) - 1 : pieces[i].from + pieces[i].size = pieces[i + 1].from
       /\ pieces[1].from = 0
       /\ pieces[Len(pieces)].from + pieces[Len(pieces)].size = size
=============================================================================
