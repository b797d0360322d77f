---------------------------- MODULE DeviceProofs ----------------------------
(***************************************************************************)
(* Proofs about what the driver does with the memory and the firmware of   *)
(* the device: the shutdown of a network (NncShutdown), the window into    *)
(* its memory (AtrAccess), its log (FwLog) and the image of its firmware   *)
(* (FwImage). The modules share no state.                                  *)
(***************************************************************************)
EXTENDS NncShutdown, AtrAccess, FwLog, FwImage, SequenceTheorems, TLAPS

----------------------------------------------------------------------------
(* The shutdown of a network.                                              *)

(* A request that was made is in one place: with the firmware, raised, in  *)
(* the handler or counted.                                                 *)
ShutdownInv ==
  /\ running \in BOOLEAN /\ shutdown \in BOOLEAN
  /\ down_irq \in BOOLEAN /\ handling \in BOOLEAN
  /\ reset_completed \in {0, 1}
  /\ shutdown => ~down_irq /\ ~handling /\ reset_completed = 0
  /\ down_irq => ~handling /\ reset_completed = 0
  /\ handling => reset_completed = 0
  /\ down # "nobody" => shutdown \/ down_irq \/ handling \/ reset_completed = 1
  /\ down # "nobody" /\ ~shutdown => ~running
  /\ outcome = "done" => ~running

(* hailo_nnc_driver_down takes no answer for another's: of callers that do *)
(* not ask again before the answer to a shutdown that timed out is in, one *)
(* that is told of success finds the firmware's vDMA stopped.              *)
THEOREM ShutdownCorrect == "late" \in DownContract => (DownSpec => []ShutdownStopsVdma)
<1> SUFFICES ASSUME "late" \in DownContract PROVE DownSpec => []ShutdownStopsVdma
  OBVIOUS
<1>1. DownInit => ShutdownInv
  BY DEF DownInit, ShutdownInv
<1>2. ShutdownInv /\ [DownNext]_downVars => ShutdownInv'
  <2> SUFFICES ASSUME ShutdownInv, [DownNext]_downVars PROVE ShutdownInv'
    OBVIOUS
  <2>1. ASSUME NEW f \in Users, MarkAsInUse(f) PROVE ShutdownInv'
    BY <2>1 DEF MarkAsInUse, ShutdownInv
  <2>2. CASE FwStart
    BY <2>2 DEF FwStart, ShutdownInv
  <2>3. CASE ReleaseUser \/ ResetPrepare
    <3>1. /\ shutdown' = TRUE /\ down_irq' = FALSE /\ handling' = FALSE
          /\ reset_completed' = 0 /\ UNCHANGED <<running, outcome>>
      BY <2>3, Zenon DEF ReleaseUser, ResetPrepare, DriverDown, ShutdownInv
    <3> QED
      BY <3>1 DEF ShutdownInv
  <2>4. CASE DriverDownReturns
    BY <2>4 DEF DriverDownReturns, ShutdownInv
  <2>5. CASE FwShutdown
    BY <2>5 DEF FwShutdown, ShutdownInv
  <2>6. CASE DownIrqRead
    BY <2>6 DEF DownIrqRead, ShutdownInv
  <2>7. CASE DownIrqComplete
    <3>1. reset_completed' = 1
      BY <2>7 DEF DownIrqComplete, ShutdownInv
    <3>2. /\ shutdown' = FALSE /\ down_irq' = FALSE /\ handling' = FALSE /\ shutdown = FALSE
          /\ UNCHANGED <<running, outcome, down>>
      BY <2>7, Zenon DEF DownIrqComplete, ShutdownInv
    <3> QED
      BY <3>1, <3>2 DEF ShutdownInv
  <2>8. CASE UNCHANGED downVars
    BY <2>8 DEF downVars, ShutdownInv
  <2> QED
    BY <2>1, <2>2, <2>3, <2>4, <2>5, <2>6, <2>7, <2>8 DEF DownNext
<1>3. ShutdownInv => ShutdownStopsVdma
  BY DEF ShutdownInv, ShutdownStopsVdma
<1> QED
  BY <1>1, <1>2, <1>3, PTL DEF DownSpec

----------------------------------------------------------------------------
(* The check of a firmware file.                                           *)

Piecewise == {"app", "cert", "core", "end"}

(* The pieces ps lie one behind the other, from the offset begin to end.   *)
Covers(ps, begin, end) ==
  /\ \A i \in 1 .. Len(ps) - 1 : ps[i].from + ps[i].size = ps[i + 1].from
  /\ ps = <<>> => end = begin
  /\ ps # <<>> => ps[1].from = begin /\ ps[Len(ps)].from + ps[Len(ps)].size = end

PieceNames == {"file", "app", "app_code", "cert", "key", "content", "core", "core_code"}
FoundPiece == [name : PieceNames, from : Nat, size : Nat]

ImageInv ==
  /\ size \in Nat /\ consumed \in Nat /\ pieces \in Seq(FoundPiece)
  /\ step \in Piecewise \union {"size", "accepted", "rejected"}
  /\ step = "size" => consumed = 0 /\ pieces = <<>>
  /\ step \in Piecewise => consumed <= size /\ size <= ImageMaxSize /\ Covers(pieces, 0, consumed)
  /\ step \in {"cert", "core", "end", "accepted"} => pieces # <<>>
  /\ step = "accepted" => Covers(pieces, 0, size)
  /\ step # "rejected" => \A i \in 1 .. Len(pieces) : pieces[i].from + pieces[i].size <= size
  /\ \A t \in touched : t.from + t.size <= size

LEMMA ImageBounds ==
  /\ ImageMaxSize \in Nat /\ 2^Word \in Nat /\ 2 * ImageMaxSize < 2^Word
  /\ HeaderSize \in Nat \ {0} /\ CertHeaderSize \in Nat \ {0}
BY ImageAssumption

(* The comparisons of CONSUME_FIRMWARE are exact: no sum wraps.            *)
LEMMA InImageExact ==
  ASSUME NEW offset \in Nat, NEW n \in Nat, size \in Nat,
         offset <= size, size <= ImageMaxSize, InImage(offset, n)
  PROVE  offset + n <= size /\ (offset + n) % 2^Word = offset + n
<1>1. offset + n \in 0 .. 2^Word - 1
  BY ImageBounds DEF InImage
<1>2. PICK w \in Nat : w = 2^Word
  BY ImageBounds
<1>3. (offset + n) % w = offset + n
  BY <1>1, <1>2
<1> QED
  BY <1>2, <1>3 DEF InImage

LEMMA CoversMore ==
  ASSUME NEW ps \in Seq(FoundPiece), NEW qs \in Seq(FoundPiece), NEW m, NEW end,
         Covers(ps, 0, m), Covers(qs, m, end), qs # <<>>
  PROVE  /\ ps \o qs \in Seq(FoundPiece) /\ ps \o qs # <<>>
         /\ Covers(ps \o qs, 0, end)
<1> DEFINE a == Len(ps)
           b == Len(qs)
           all == ps \o qs
<1>1. a \in Nat /\ b \in Nat \ {0} /\ (ps = <<>> <=> a = 0)
  BY EmptySeq
<1>2. /\ all \in Seq(FoundPiece) /\ Len(all) = a + b
      /\ \A i \in 1 .. a + b : all[i] = IF i <= a THEN ps[i] ELSE qs[i - a]
  BY ConcatProperties
<1> HIDE DEF a, b, all
<1>3. all # <<>>
  BY <1>1, <1>2
<1>4. all[1].from = 0
  <2>1. CASE a = 0
    BY <1>1, <1>2, <2>1 DEF Covers
  <2>2. CASE a # 0
    BY <1>1, <1>2, <2>2 DEF Covers
  <2> QED
    BY <2>1, <2>2
<1>5. all[Len(all)].from + all[Len(all)].size = end
  BY <1>1, <1>2 DEF Covers, b
<1>6. ASSUME NEW i \in 1 .. Len(all) - 1 PROVE all[i].from + all[i].size = all[i + 1].from
  <2>1. CASE i < a
    BY <1>1, <1>2, <2>1 DEF Covers, a
  <2>2. CASE i = a
    <3>1. all[i] = ps[a] /\ all[i + 1] = qs[1]
      BY <1>1, <1>2, <2>2
    <3> QED
      BY <1>1, <2>2, <3>1 DEF Covers, a
  <2>3. CASE i > a
    <3>1. all[i] = qs[i - a] /\ all[i + 1] = qs[(i - a) + 1] /\ i - a \in 1 .. b - 1
      BY <1>1, <1>2, <2>3
    <3> QED
      BY <3>1 DEF Covers, b
  <2> QED
    BY <1>1, <1>2, <2>1, <2>2, <2>3
<1> QED
  BY <1>2, <1>3, <1>4, <1>5, <1>6 DEF Covers, all

(* What CONSUME_FIRMWARE leaves behind a header that is good.              *)
LEMMA ConsumeStep ==
  ASSUME ImageInv, step \in Piecewise, NEW found \in Seq(FoundPiece), found # <<>>,
         NEW end \in Nat, end <= size, Covers(found, consumed, end),
         \A i \in 1 .. Len(found) : found[i].from + found[i].size <= size,
         NEW next \in {"cert", "core", "end"}, Consume(found, end, next),
         UNCHANGED size, \A t \in touched' : t.from + t.size <= size
  PROVE  ImageInv'
<1>1. /\ size \in Nat /\ size <= ImageMaxSize /\ Covers(pieces, 0, consumed)
      /\ pieces \in Seq(FoundPiece)
      /\ \A i \in 1 .. Len(pieces) : pieces[i].from + pieces[i].size <= size
  BY DEF ImageInv, Piecewise
<1>2. step' = next /\ pieces' = pieces \o found /\ consumed' = end % 2^Word
  BY DEF Consume
<1>3. consumed' = end
  <2>1. PICK w \in Nat : w = 2^Word
    BY ImageBounds
  <2>2. end < w /\ w > 0
    BY <1>1, <2>1, ImageBounds
  <2>3. end % w = end
    BY <2>1, <2>2
  <2> QED
    BY <1>2, <2>1, <2>3
<1>4. /\ pieces' \in Seq(FoundPiece) /\ pieces' # <<>>
      /\ Covers(pieces', 0, consumed')
  BY <1>1, <1>2, <1>3, CoversMore
<1>5. ASSUME NEW i \in 1 .. Len(pieces') PROVE pieces'[i].from + pieces'[i].size <= size
  <2>1. /\ Len(pieces') = Len(pieces) + Len(found) /\ Len(pieces) \in Nat /\ Len(found) \in Nat
        /\ pieces'[i] = IF i <= Len(pieces) THEN pieces[i] ELSE found[i - Len(pieces)]
    BY <1>1, <1>2, ConcatProperties
  <2> QED
    BY <1>1, <2>1
<1> QED
  BY <1>1, <1>2, <1>3, <1>4, <1>5 DEF ImageInv, Piecewise

LEMMA RejectStep ==
  ASSUME ImageInv, Reject, UNCHANGED size, \A t \in touched' : t.from + t.size <= size
  PROVE  ImageInv'
BY DEF ImageInv, Reject, Piecewise

LEMMA FwHeaderStep ==
  ASSUME ImageInv, NEW at \in {"app", "core"}, NEW max_code_size,
         NEW next \in {"cert", "end"}, ValidateFwHeader(at, max_code_size, next)
  PROVE  ImageInv'
<1> DEFINE code == consumed + HeaderSize
<1>1. /\ step = at /\ step \in Piecewise /\ UNCHANGED size
      /\ size \in Nat /\ consumed \in Nat /\ consumed <= size /\ size <= ImageMaxSize
      /\ HeaderSize \in Nat \ {0}
      /\ \A t \in touched : t.from + t.size <= size
  BY ImageBounds DEF ValidateFwHeader, ImageInv, Piecewise
<1>2. CASE Reject /\ UNCHANGED touched
  BY <1>1, <1>2, RejectStep
<1>3. CASE /\ InImage(consumed, HeaderSize)
           /\ touched' = touched \union {[from |-> consumed, size |-> HeaderSize]}
           /\ \/ Reject
              \/ \E code_size \in U32 :
                   IF code_size \in MinCode .. max_code_size /\ InImage(code, code_size)
                   THEN Consume(<<Found(at, consumed, HeaderSize),
                                  Found(Code[at], code, code_size)>>, code + code_size, next)
                   ELSE Reject
  <2>1. code \in Nat /\ code <= size
    BY <1>1, <1>3, InImageExact
  <2>2. \A t \in touched' : t.from + t.size <= size
    BY <1>1, <1>3, <2>1
  <2>3. CASE Reject
    BY <1>1, <2>2, <2>3, RejectStep
  <2>4. ASSUME NEW code_size \in U32, InImage(code, code_size),
               Consume(<<Found(at, consumed, HeaderSize),
                         Found(Code[at], code, code_size)>>, code + code_size, next)
        PROVE  ImageInv'
    <3> DEFINE found == <<Found(at, consumed, HeaderSize), Found(Code[at], code, code_size)>>
    <3>1. code_size \in Nat
      BY ImageBounds DEF U32
    <3>2. code + code_size \in Nat /\ code + code_size <= size
      BY <1>1, <2>1, <2>4, <3>1, InImageExact
    <3>3. Code[at] \in PieceNames /\ at \in PieceNames
      BY DEF Code, PieceNames
    <3>4. /\ Found(at, consumed, HeaderSize) \in FoundPiece
          /\ Found(Code[at], code, code_size) \in FoundPiece
      BY <1>1, <2>1, <3>1, <3>3 DEF Found, FoundPiece
    <3>5. found \in Seq(FoundPiece) /\ Len(found) = 2 /\ found # <<>>
      BY <3>4
    <3>6. Covers(found, consumed, code + code_size)
      BY <1>1, <3>5 DEF Covers, Found
    <3>7. \A i \in 1 .. Len(found) : found[i].from + found[i].size <= size
      BY <2>1, <3>2, <3>5 DEF Found
    <3>8. Consume(found, code + code_size, next)
      BY <2>4
    <3> HIDE DEF found, code
    <3> QED
      BY <1>1, <2>2, <3>2, <3>5, <3>6, <3>7, <3>8, ConsumeStep
  <2> QED
    BY <1>3, <2>3, <2>4
<1> QED
  BY <1>2, <1>3 DEF ValidateFwHeader

LEMMA CertHeaderStep == ImageInv /\ ValidateCertHeader => ImageInv'
<1> SUFFICES ASSUME ImageInv, ValidateCertHeader PROVE ImageInv'
  OBVIOUS
<1> DEFINE next == IF headers = "app" THEN "end" ELSE "core"
           key == consumed + CertHeaderSize
           Taken(key_size, content_size) ==
             <<Found("cert", consumed, CertHeaderSize), Found("key", key, key_size),
               Found("content", key + key_size, content_size)>>
<1>1. /\ step \in Piecewise /\ UNCHANGED size
      /\ size \in Nat /\ consumed \in Nat /\ consumed <= size /\ size <= ImageMaxSize
      /\ CertHeaderSize \in Nat \ {0}
      /\ \A t \in touched : t.from + t.size <= size
  BY ImageBounds DEF ValidateCertHeader, ImageInv, Piecewise
<1>2. CASE Reject /\ UNCHANGED touched
  BY <1>1, <1>2, RejectStep
<1>3. CASE /\ InImage(consumed, CertHeaderSize)
           /\ touched' = touched \union {[from |-> consumed, size |-> CertHeaderSize]}
           /\ \E key_size \in U32, content_size \in U32 :
                IF /\ key_size <= MaxCert /\ content_size <= MaxCert
                   /\ InImage(key, key_size) /\ InImage(key + key_size, content_size)
                THEN Consume(Taken(key_size, content_size), key + key_size + content_size, next)
                ELSE Reject
  <2>1. key \in Nat /\ key <= size
    BY <1>1, <1>3, InImageExact
  <2>2. \A t \in touched' : t.from + t.size <= size
    BY <1>1, <1>3, <2>1
  <2>3. CASE Reject
    BY <1>1, <2>2, <2>3, RejectStep
  <2>4. ASSUME NEW key_size \in U32, NEW content_size \in U32,
               InImage(key, key_size), InImage(key + key_size, content_size),
               Consume(Taken(key_size, content_size), key + key_size + content_size, next)
        PROVE  ImageInv'
    <3> DEFINE found == Taken(key_size, content_size)
               end == key + key_size + content_size
    <3>1. key_size \in Nat /\ content_size \in Nat
      BY ImageBounds DEF U32
    <3>2. key + key_size \in Nat /\ key + key_size <= size
      BY <1>1, <2>1, <2>4, <3>1, InImageExact
    <3>3. end \in Nat /\ end <= size
      BY <1>1, <2>4, <3>1, <3>2, InImageExact
    <3>4. /\ Found("cert", consumed, CertHeaderSize) \in FoundPiece
          /\ Found("key", key, key_size) \in FoundPiece
          /\ Found("content", key + key_size, content_size) \in FoundPiece
      BY <1>1, <2>1, <3>1, <3>2 DEF Found, FoundPiece, PieceNames
    <3>5. found \in Seq(FoundPiece) /\ Len(found) = 3 /\ found # <<>>
      BY <3>4
    <3>6. Covers(found, consumed, end)
      BY <1>1, <3>5 DEF Covers, Found
    <3>7. \A i \in 1 .. Len(found) : found[i].from + found[i].size <= size
      BY <2>1, <3>2, <3>3, <3>5 DEF Found
    <3>8. Consume(found, end, next) /\ next \in {"end", "core"}
      BY <2>4
    <3> HIDE DEF found, end, next, key, Taken
    <3> QED
      BY <1>1, <2>2, <3>3, <3>5, <3>6, <3>7, <3>8, ConsumeStep
  <2> QED
    BY <1>3, <2>3, <2>4
<1> QED
  BY <1>2, <1>3 DEF ValidateCertHeader

(* "when reading the firmware we don't want to read past the               *)
(* firmware_size" (fw_validation.c): for files and headers of any sizes    *)
(* that max_size keeps below half of an offset's range, no access of the   *)
(* validation or of write_single_file leaves the file, and what is written *)
(* is the file, piece by piece.                                            *)
THEOREM ImageCorrect == ImageSpec => []ImageInBounds
<1>1. ImageInit => ImageInv
  <2> SUFFICES ASSUME ImageInit PROVE ImageInv
    OBVIOUS
  <2>1. /\ size \in Nat /\ consumed = 0 /\ step = "size" /\ pieces = <<>> /\ touched = {}
    BY ImageAssumption DEF ImageInit
  <2>2. pieces \in Seq(FoundPiece) /\ Len(pieces) = 0
    BY <2>1
  <2> QED
    BY <2>1, <2>2 DEF ImageInv, Piecewise
<1>2. ImageInv /\ [ImageNext]_imageVars => ImageInv'
  <2> SUFFICES ASSUME ImageInv, [ImageNext]_imageVars PROVE ImageInv'
    OBVIOUS
  <2>1. CASE CheckMaxSize
    <3>1. /\ step = "size" /\ size \in Nat /\ consumed = 0 /\ pieces = <<>>
          /\ UNCHANGED <<size, consumed, touched>>
          /\ step' \in {"rejected", "accepted", "app"}
          /\ step' # "rejected" => size <= ImageMaxSize
          /\ pieces' = IF step' = "accepted" THEN <<Found("file", 0, size)>> ELSE <<>>
      BY <2>1, ImageBounds DEF CheckMaxSize, ImageInv
    <3>2. Found("file", 0, size) \in FoundPiece
      BY <3>1 DEF Found, FoundPiece, PieceNames
    <3>3. CASE step' = "accepted"
      <4>1. /\ pieces' = <<Found("file", 0, size)>> /\ pieces' \in Seq(FoundPiece)
            /\ Len(pieces') = 1 /\ pieces' # <<>>
        BY <3>1, <3>2, <3>3
      <4>2. pieces'[1].from = 0 /\ pieces'[1].size = size
        BY <4>1 DEF Found
      <4>3. Covers(pieces', 0, size)
        BY <3>1, <4>1, <4>2 DEF Covers
      <4> QED
        BY <3>1, <3>3, <4>1, <4>2, <4>3 DEF ImageInv, Piecewise
    <3>4. CASE step' # "accepted"
      <4>1. pieces' = <<>> /\ pieces' \in Seq(FoundPiece) /\ Covers(pieces', 0, 0)
        BY <3>1, <3>4 DEF Covers
      <4> QED
        BY <3>1, <3>4, <4>1 DEF ImageInv, Piecewise
    <3> QED
      BY <3>3, <3>4
  <2>2. CASE ValidateFwHeader("app", MaxAppCode, "cert")
    BY <2>2, FwHeaderStep
  <2>3. CASE ValidateCertHeader
    BY <2>3, CertHeaderStep
  <2>4. CASE ValidateFwHeader("core", MaxCoreCode, "end")
    BY <2>4, FwHeaderStep
  <2>5. CASE CheckLeftover
    BY <2>5 DEF CheckLeftover, ImageInv, Piecewise
  <2>6. CASE WritePiece
    <3>1. /\ step = "accepted" /\ UNCHANGED <<size, consumed, step, pieces>>
          /\ \E i \in 1 .. Len(pieces) :
               touched' = touched \union {[from |-> pieces[i].from, size |-> pieces[i].size]}
      BY <2>6 DEF WritePiece
    <3>2. \A t \in touched' : t.from + t.size <= size
      BY <3>1 DEF ImageInv
    <3> QED
      BY <3>1, <3>2 DEF ImageInv, Piecewise
  <2>7. CASE UNCHANGED imageVars
    BY <2>7 DEF imageVars, ImageInv
  <2> QED
    BY <2>1, <2>2, <2>3, <2>4, <2>5, <2>6, <2>7 DEF ImageNext
<1>3. ImageInv => ImageInBounds
  BY DEF ImageInv, ImageInBounds, Covers
<1> QED
  BY <1>1, <1>2, <1>3, PTL DEF ImageSpec

----------------------------------------------------------------------------
(* Remainders that wrap at most once.                                      *)

Wrap(n, a) == IF a < n THEN a ELSE a - n
Back(n, a) == IF a >= 0 THEN a ELSE a + n

LEMMA WrapMod ==
  ASSUME NEW n \in Nat \ {0}, NEW a \in 0 .. 2 * n - 1
  PROVE  a % n = Wrap(n, a) /\ Wrap(n, a) \in 0 .. n - 1
<1>1. CASE a < n
  BY <1>1 DEF Wrap
<1>2. CASE ~(a < n)
  BY <1>2 DEF Wrap
<1> QED
  BY <1>1, <1>2

LEMMA BackMod ==
  ASSUME NEW n \in Nat \ {0}, NEW a \in -n .. n - 1, a # -n
  PROVE  a % n = Back(n, a) /\ Back(n, a) \in 0 .. n - 1
<1>1. CASE a >= 0
  BY <1>1 DEF Back
<1>2. CASE ~(a >= 0)
  BY <1>2 DEF Back
<1> QED
  BY <1>1, <1>2

----------------------------------------------------------------------------
(* The firmware's log.                                                     *)

(* The k-th byte that waits: its place in the ring and its number.         *)
Slot(k) == Wrap(LogSize, host_offset + k)
Byte(k) == Wrap(2 * LogSize, log_read + k)

(* The ring holds the bytes from log_read to log_next, ...                 *)
RingInv ==
  /\ chip_offset = Slot(LogReadyToRead) /\ log_next = Byte(LogReadyToRead)
  /\ \A k \in 0 .. LogReadyToRead - 1 : log_data[Slot(k)] = Byte(k)

(* ... and a read under way holds the first of them.                       *)
ReaderInv ==
  LET r == log_reader
      wraps == LogSize <= host_offset + r.ready
  IN
  /\ r.ready <= LogReadyToRead
  /\ \A i \in 1 .. Len(r.buffer) : r.buffer[i] = Byte(i - 1)
  /\ r.at = "idle" => Len(r.buffer) = 0
  /\ r.at = "first" => r.host = host_offset /\ Len(r.buffer) = 0 /\ wraps
  /\ r.at = "second" => /\ r.host = host_offset
                        /\ Len(r.buffer) = IF wraps THEN LogSize - host_offset ELSE 0
  /\ r.at = "advance" => r.host = Slot(r.ready) /\ Len(r.buffer) = r.ready

LogInv == LogTypeOK /\ RingInv /\ ReaderInv

LogBounds ==
  /\ LogSize \in Nat /\ LogSize >= 2 /\ chip_offset \in Nat /\ chip_offset < LogSize
  /\ host_offset \in Nat /\ host_offset < LogSize
  /\ log_next \in Nat /\ log_next < 2 * LogSize
  /\ log_read \in Nat /\ log_read < 2 * LogSize
  /\ LogReadyToRead \in Nat /\ LogReadyToRead < LogSize
  /\ log_reader.host \in Nat /\ log_reader.host < LogSize
  /\ log_reader.ready \in Nat /\ log_reader.ready < LogSize
  /\ log_reader.buffer \in Seq(Bytes) /\ Len(log_reader.buffer) \in Nat

LEMMA LogFacts == LogTypeOK => LogBounds
BY LogAssumption DEF LogBounds, LogTypeOK, Bytes, Offsets, LogReadyToRead

LEMMA InitLog == LogInit => LogInv
<1> SUFFICES ASSUME LogInit PROVE LogInv
  OBVIOUS
<1>1. LogTypeOK
  <2>1. NoReader.buffer \in Seq(Bytes)
    BY DEF NoReader
  <2> QED
    BY <2>1, LogAssumption DEF LogInit, LogTypeOK, Bytes, Offsets, NoReader
<1>2. LogReadyToRead = 0 /\ Len(log_reader.buffer) = 0
  BY DEF LogInit, LogReadyToRead, NoReader
<1>3. RingInv
  BY <1>1, <1>2, LogFacts DEF LogInit, LogBounds, RingInv, Slot, Byte, Wrap
<1>4. ReaderInv
  BY <1>2, LogAssumption DEF LogInit, ReaderInv, NoReader
<1> QED
  BY <1>1, <1>3, <1>4 DEF LogInv

LEMMA WriteLogStep == LogInv /\ FwLogWrite => LogInv'
<1> SUFFICES ASSUME LogInv, FwLogWrite PROVE LogInv'
  OBVIOUS
<1>0. LogBounds /\ LogTypeOK /\ RingInv /\ ReaderInv
  BY LogFacts DEF LogInv
<1>1. /\ (chip_offset + 1) % LogSize = Wrap(LogSize, chip_offset + 1)
      /\ (log_next + 1) % (2 * LogSize) = Wrap(2 * LogSize, log_next + 1)
  <2>1. LogSize \in Nat \ {0} /\ chip_offset + 1 \in 0 .. 2 * LogSize - 1
    BY <1>0 DEF LogBounds
  <2>2. 2 * LogSize \in Nat \ {0} /\ log_next + 1 \in 0 .. 2 * (2 * LogSize) - 1
    BY <1>0 DEF LogBounds
  <2> QED
    BY <2>1, <2>2, WrapMod
<1>2. /\ chip_offset' = Wrap(LogSize, chip_offset + 1) /\ chip_offset' # host_offset
      /\ log_next' = Wrap(2 * LogSize, log_next + 1)
      /\ log_data' = [log_data EXCEPT ![chip_offset] = log_next]
      /\ UNCHANGED <<host_offset, log_read, log_reader>>
  BY <1>1 DEF FwLogWrite
<1>3. LogTypeOK'
  <2>1. chip_offset' \in Offsets /\ log_next' \in Bytes
    BY <1>0, <1>2 DEF LogBounds, Offsets, Bytes, Wrap
  <2>2. log_data' \in [Offsets -> Bytes]
    BY <1>0, <1>2 DEF LogTypeOK
  <2> QED
    BY <1>0, <1>2, <2>1, <2>2 DEF LogTypeOK
<1>4. LogReadyToRead' = LogReadyToRead + 1
  BY <1>0, <1>2 DEF LogBounds, LogReadyToRead, Wrap
<1>5. chip_offset = Slot(LogReadyToRead) /\ log_next = Byte(LogReadyToRead)
  BY <1>0 DEF RingInv
<1>6. /\ chip_offset' = Wrap(LogSize, host_offset + LogReadyToRead + 1)
      /\ log_next' = Wrap(2 * LogSize, log_read + LogReadyToRead + 1)
  BY <1>0, <1>2, <1>5 DEF LogBounds, Slot, Byte, Wrap
<1>7. ASSUME NEW k \in 0 .. LogReadyToRead
      PROVE  log_data'[Wrap(LogSize, host_offset + k)] = Wrap(2 * LogSize, log_read + k)
  <2>1. CASE k = LogReadyToRead
    BY <1>0, <1>2, <1>5, <2>1 DEF Slot, Byte, LogTypeOK
  <2>2. CASE k # LogReadyToRead
    <3>1. Slot(k) # chip_offset /\ Slot(k) \in Offsets
      BY <1>0, <1>5, <2>2 DEF LogBounds, Slot, Wrap, Offsets
    <3> QED
      <4>1. k \in 0 .. LogReadyToRead - 1
        BY <1>0, <2>2 DEF LogBounds
      <4> QED
        BY <1>0, <1>2, <3>1, <4>1 DEF RingInv, Slot, Byte, LogTypeOK
  <2> QED
    BY <2>1, <2>2
<1>8. RingInv'
  <2>1. /\ chip_offset' = Slot(LogReadyToRead)' /\ log_next' = Byte(LogReadyToRead)'
    BY <1>0, <1>2, <1>4, <1>6 DEF LogBounds, Slot, Byte
  <2>2. \A k \in 0 .. LogReadyToRead' - 1 :
          log_data'[Wrap(LogSize, host_offset + k)] = Wrap(2 * LogSize, log_read + k)
    BY <1>0, <1>4, <1>7 DEF LogBounds
  <2> QED
    BY <1>2, <2>1, <2>2 DEF RingInv, Slot, Byte
<1>9. ReaderInv'
  BY <1>0, <1>2, <1>4 DEF LogBounds, ReaderInv, Slot, Byte
<1> QED
  BY <1>3, <1>8, <1>9 DEF LogInv

(* A step of the read leaves the ring alone.                               *)
RingKept == UNCHANGED <<chip_offset, host_offset, log_data, log_next, log_read>>

LEMMA ReaderStep ==
  ASSUME LogInv, RingKept, NEW at \in {"first", "second", "advance"}, NEW host \in Offsets,
         NEW ready \in 0 .. LogSize - 1, NEW buffer \in Seq(Bytes),
         log_reader' = [at |-> at, host |-> host, ready |-> ready, buffer |-> buffer],
         ReaderInv'
  PROVE  LogInv'
<1>1. log_reader' \in [at : {"idle", "first", "second", "advance"}, host : Offsets,
                       ready : 0 .. LogSize - 1, buffer : Seq(Bytes)]
  OBVIOUS
<1>2. LogTypeOK'
  BY <1>1 DEF LogInv, LogTypeOK, RingKept
<1>3. RingInv'
  BY DEF LogInv, RingInv, RingKept, LogReadyToRead, Slot, Byte
<1> QED
  BY <1>2, <1>3 DEF LogInv

LEMMA HeaderStep ==
  ASSUME LogInv, NEW buffer_size \in LogBufferSizes, ReadLogHeader(buffer_size)
  PROVE  LogInv'
<1>0. LogBounds /\ LogTypeOK /\ buffer_size \in Nat
  BY LogFacts, LogAssumption DEF LogInv
<1> DEFINE ready == AtMost(LogReadyToRead, buffer_size)
           at == IF Wraps(host_offset, ready) THEN "first" ELSE "second"
<1>1. /\ ready > 0 /\ RingKept
      /\ log_reader' = [at |-> at, host |-> host_offset, ready |-> ready, buffer |-> <<>>]
  BY DEF ReadLogHeader, RingKept
<1>2. ready \in 0 .. LogSize - 1 /\ ready <= LogReadyToRead
  BY <1>0 DEF LogBounds, AtMost
<1>3. /\ at \in {"first", "second"}
      /\ at = "first" <=> LogSize <= host_offset + ready
  BY DEF Wraps
<1> HIDE DEF ready, at
<1>4. <<>> \in Seq(Bytes) /\ Len(<<>>) = 0 /\ host_offset \in Offsets
  BY <1>0 DEF LogTypeOK
<1>5. /\ log_reader'.at = at /\ log_reader'.host = host_offset /\ log_reader'.ready = ready
      /\ log_reader'.buffer = <<>>
  BY <1>1
<1>6. ReaderInv'
  BY <1>0, <1>1, <1>2, <1>3, <1>4, <1>5 DEF ReaderInv, RingKept, LogReadyToRead
<1> QED
  BY <1>1, <1>2, <1>3, <1>4, <1>6, ReaderStep

LEMMA PieceFacts ==
  ASSUME LogTypeOK, NEW from \in Nat, NEW n \in Nat, from + n <= LogSize
  PROVE  /\ Piece(from, n) \in Seq(Bytes) /\ Len(Piece(from, n)) = n
         /\ \A i \in 1 .. n : Piece(from, n)[i] = log_data[from + i - 1]
<1>1. ASSUME NEW i \in 1 .. n PROVE log_data[from + i - 1] \in Bytes
  <2>1. from + i - 1 \in Offsets
    BY LogAssumption DEF Offsets
  <2> QED
    BY <2>1 DEF LogTypeOK
<1> QED
  BY <1>1 DEF Piece

LEMMA FirstStep == LogInv /\ ReadLogFirst => LogInv'
<1> SUFFICES ASSUME LogInv, ReadLogFirst PROVE LogInv'
  OBVIOUS
<1>0. LogBounds /\ LogTypeOK /\ RingInv /\ ReaderInv
  BY LogFacts DEF LogInv
<1> DEFINE n == LogSize - host_offset
           b == Piece(host_offset, n)
           ready == log_reader.ready
<1>1. log_reader.at = "first" /\ log_reader.host = host_offset /\ RingKept
  BY <1>0 DEF ReadLogFirst, RingKept, ReaderInv
<1>2. log_reader' = [at |-> "second", host |-> host_offset, ready |-> ready, buffer |-> b]
  BY <1>0, <1>1 DEF ReadLogFirst, LogTypeOK
<1>3. n \in Nat /\ host_offset + n <= LogSize /\ n <= ready /\ ready <= LogReadyToRead
      /\ LogSize <= host_offset + ready
  BY <1>0, <1>1 DEF LogBounds, ReaderInv
<1>4. /\ b \in Seq(Bytes) /\ Len(b) = n
      /\ \A i \in 1 .. n : b[i] = log_data[host_offset + i - 1]
  BY <1>0, <1>3, PieceFacts DEF LogBounds
<1>5. ASSUME NEW i \in 1 .. n PROVE b[i] = Byte(i - 1)
  <2>1. Slot(i - 1) = host_offset + i - 1 /\ i - 1 \in 0 .. LogReadyToRead - 1
    BY <1>0, <1>3 DEF Slot, Wrap, LogBounds
  <2> QED
    BY <1>0, <1>4, <2>1 DEF RingInv
<1>6. ready \in 0 .. LogSize - 1 /\ host_offset \in Offsets
  BY <1>0 DEF LogTypeOK, LogBounds
<1> HIDE DEF b, ready
<1>7. /\ log_reader'.at = "second" /\ log_reader'.host = host_offset
      /\ log_reader'.ready = ready /\ log_reader'.buffer = b
  BY <1>2
<1>8. ReaderInv'
  <2>1. \A i \in 1 .. Len(log_reader'.buffer) : log_reader'.buffer[i] = Byte(i - 1)'
    BY <1>1, <1>4, <1>5, <1>7 DEF Byte, RingKept
  <2>2. log_reader'.ready <= LogReadyToRead'
    BY <1>1, <1>3, <1>7 DEF RingKept, LogReadyToRead
  <2> QED
    BY <1>1, <1>3, <1>4, <1>7, <2>1, <2>2 DEF ReaderInv, RingKept
<1> QED
  BY <1>1, <1>2, <1>4, <1>6, <1>8, ReaderStep

LEMMA SecondStep == LogInv /\ ReadLogSecond => LogInv'
<1> SUFFICES ASSUME LogInv, ReadLogSecond PROVE LogInv'
  OBVIOUS
<1>0. LogBounds /\ LogTypeOK /\ RingInv /\ ReaderInv
  BY LogFacts DEF LogInv
<1> DEFINE ready == log_reader.ready
           a == log_reader.buffer
           from == SecondFrom
           n == SecondSize
           b == Piece(from, n)
           wraps == LogSize <= host_offset + ready
<1>1. log_reader.at = "second" /\ log_reader.host = host_offset /\ RingKept
  BY <1>0 DEF ReadLogSecond, RingKept, ReaderInv
<1>2. log_reader' = [at |-> "advance", host |-> from + n, ready |-> ready, buffer |-> a \o b]
  BY <1>0, <1>1 DEF ReadLogSecond, LogTypeOK
<1>3. /\ ready \in Nat /\ ready < LogSize /\ ready <= LogReadyToRead
      /\ a \in Seq(Bytes) /\ Len(a) \in Nat
      /\ Len(a) = IF wraps THEN LogSize - host_offset ELSE 0
      /\ \A i \in 1 .. Len(a) : a[i] = Byte(i - 1)
      /\ from = IF wraps THEN 0 ELSE host_offset
      /\ n = ready - Len(a)
  BY <1>0, <1>1 DEF LogBounds, ReaderInv, SecondFrom, SecondSize, Wraps
<1> HIDE DEF ready, a, from, n
<1>4. /\ from \in Nat /\ n \in Nat /\ from + n < LogSize
      /\ from + n <= LogSize /\ Len(a) + n = ready /\ from + n = Slot(ready)
  BY <1>0, <1>3 DEF LogBounds, Slot, Wrap
<1>5. /\ b \in Seq(Bytes) /\ Len(b) = n
      /\ \A i \in 1 .. n : b[i] = log_data[from + i - 1]
  BY <1>0, <1>4, PieceFacts
<1> HIDE DEF b
<1>6. /\ a \o b \in Seq(Bytes) /\ Len(a \o b) = ready
      /\ \A i \in 1 .. ready : (a \o b)[i] = IF i <= Len(a) THEN a[i] ELSE b[i - Len(a)]
  <2>1. /\ a \o b \in Seq(Bytes) /\ Len(a \o b) = Len(a) + Len(b)
        /\ \A i \in 1 .. Len(a) + Len(b) :
             (a \o b)[i] = IF i <= Len(a) THEN a[i] ELSE b[i - Len(a)]
    BY <1>3, <1>5, ConcatProperties
  <2> QED
    BY <1>4, <1>5, <2>1
<1>7. ASSUME NEW i \in 1 .. ready PROVE (a \o b)[i] = Byte(i - 1)
  <2>1. CASE i <= Len(a)
    BY <1>3, <1>6, <2>1
  <2>2. CASE ~(i <= Len(a))
    <3>1. i - Len(a) \in 1 .. n
      BY <1>3, <2>2
    <3>2. Slot(i - 1) = from + (i - Len(a)) - 1 /\ i - 1 \in 0 .. LogReadyToRead - 1
      BY <1>0, <1>3, <2>2 DEF LogBounds, Slot, Wrap
    <3>3. (a \o b)[i] = log_data[Slot(i - 1)]
      BY <1>5, <1>6, <2>2, <3>1, <3>2
    <3> QED
      BY <1>0, <3>2, <3>3 DEF RingInv
  <2> QED
    BY <2>1, <2>2
<1>8. ready \in 0 .. LogSize - 1 /\ from + n \in Offsets
  BY <1>0, <1>3, <1>4 DEF LogBounds, Offsets
<1>9. /\ log_reader'.at = "advance" /\ log_reader'.host = Slot(ready)
      /\ log_reader'.ready = ready /\ log_reader'.buffer = a \o b
  BY <1>2, <1>4
<1>10. ReaderInv'
  <2>1. \A i \in 1 .. Len(log_reader'.buffer) : log_reader'.buffer[i] = Byte(i - 1)'
    BY <1>1, <1>6, <1>7, <1>9 DEF Byte, RingKept
  <2>2. log_reader'.ready <= LogReadyToRead'
    BY <1>1, <1>3, <1>9 DEF RingKept, LogReadyToRead
  <2>3. log_reader'.host = Wrap(LogSize, host_offset' + log_reader'.ready)
    BY <1>1, <1>9 DEF RingKept, Slot
  <2> QED
    BY <1>1, <1>6, <1>9, <2>1, <2>2, <2>3 DEF ReaderInv, RingKept, Slot
<1> QED
  BY <1>1, <1>2, <1>6, <1>8, <1>10, ReaderStep

LEMMA AdvanceStep == LogInv /\ AdvanceHostOffset => LogInv'
<1> SUFFICES ASSUME LogInv, AdvanceHostOffset PROVE LogInv'
  OBVIOUS
<1>0. LogBounds /\ LogTypeOK /\ RingInv /\ ReaderInv
  BY LogFacts DEF LogInv
<1> DEFINE ready == log_reader.ready
<1>1. /\ ready \in Nat /\ ready <= LogReadyToRead
      /\ host_offset' = Slot(ready)
      /\ log_read' = (log_read + ready) % (2 * LogSize)
      /\ log_reader' = NoReader /\ UNCHANGED <<chip_offset, log_data, log_next>>
  BY <1>0 DEF AdvanceHostOffset, ReaderInv, LogBounds
<1> HIDE DEF ready
<1>2. log_read' = Byte(ready)
  <2>1. 2 * LogSize \in Nat \ {0} /\ log_read + ready \in 0 .. 2 * (2 * LogSize) - 1
    BY <1>0, <1>1 DEF LogBounds
  <2> QED
    BY <1>1, <2>1, WrapMod DEF Byte
<1>3. LogTypeOK'
  <2>1. host_offset' \in Offsets /\ log_read' \in Bytes
    BY <1>0, <1>1, <1>2 DEF LogBounds, Offsets, Bytes, Slot, Byte, Wrap
  <2>2. <<>> \in Seq(Bytes) /\ 0 \in Offsets /\ 0 \in 0 .. LogSize - 1
    BY <1>0 DEF LogBounds, Offsets
  <2>3. NoReader \in [at : {"idle", "first", "second", "advance"}, host : Offsets,
                      ready : 0 .. LogSize - 1, buffer : Seq(Bytes)]
    BY <2>2 DEF NoReader
  <2> QED
    BY <1>0, <1>1, <2>1, <2>3 DEF LogTypeOK
<1>4. chip_offset = Slot(LogReadyToRead) /\ log_next = Byte(LogReadyToRead)
  BY <1>0 DEF RingInv
<1>5. LogReadyToRead' = LogReadyToRead - ready
  <2>1. LogReadyToRead' = IF chip_offset >= host_offset' THEN chip_offset - host_offset'
                          ELSE LogSize - (host_offset' - chip_offset)
    BY <1>1 DEF LogReadyToRead
  <2> QED
    BY <1>0, <1>1, <1>4, <2>1 DEF LogBounds, Slot, Wrap
<1>6. ASSUME NEW k \in 0 .. LogReadyToRead - ready
      PROVE  /\ Slot(k)' = Slot(ready + k)
             /\ Byte(k)' = Byte(ready + k)
  BY <1>0, <1>1, <1>2 DEF LogBounds, Slot, Byte, Wrap
<1>7. RingInv'
  <2>1. LogReadyToRead - ready \in 0 .. LogReadyToRead - ready
    BY <1>0, <1>1 DEF LogBounds
  <2>2. /\ Wrap(LogSize, host_offset' + (LogReadyToRead - ready)) = Slot(LogReadyToRead)
        /\ Wrap(2 * LogSize, log_read' + (LogReadyToRead - ready)) = Byte(LogReadyToRead)
    BY <1>0, <1>1, <1>2 DEF LogBounds, Slot, Byte, Wrap
  <2>3. ASSUME NEW k \in 0 .. LogReadyToRead - ready - 1
        PROVE  log_data'[Slot(k)'] = Byte(k)'
    <3>1. ready + k \in 0 .. LogReadyToRead - 1 /\ k \in 0 .. LogReadyToRead - ready
      BY <1>0, <1>1 DEF LogBounds
    <3> QED
      BY <1>0, <1>1, <1>6, <3>1 DEF RingInv
  <2>4. \A k \in 0 .. LogReadyToRead - ready - 1 :
          log_data'[Wrap(LogSize, host_offset' + k)] = Wrap(2 * LogSize, log_read' + k)
    BY <2>3 DEF Slot, Byte
  <2> QED
    BY <1>1, <1>4, <1>5, <2>2, <2>4 DEF RingInv, Slot, Byte
<1>8. ReaderInv'
  <2>1. log_reader'.at = "idle" /\ log_reader'.ready = 0 /\ Len(log_reader'.buffer) = 0
    BY <1>1 DEF NoReader
  <2> QED
    BY <1>0, <1>1, <1>5, <2>1 DEF LogBounds, ReaderInv
<1> QED
  BY <1>3, <1>7, <1>8 DEF LogInv

(* hailo_read_firmware_log returns the bytes of the log in order, none     *)
(* twice, none overwritten, for rings and buffers of any size: the offset  *)
(* it writes back after its two copies frees only what it has copied, and  *)
(* the firmware, which knows no lock, writes only to what is free.         *)
THEOREM LogCorrect == LogSpec => []LogReadInOrder
<1>1. LogInv /\ [LogNext]_logVars => LogInv'
  <2> SUFFICES ASSUME LogInv, [LogNext]_logVars PROVE LogInv'
    OBVIOUS
  <2>1. CASE UNCHANGED logVars
    BY <2>1 DEF logVars, LogInv, LogTypeOK, RingInv, ReaderInv, LogReadyToRead, Slot, Byte
  <2> QED
    BY <2>1, WriteLogStep, HeaderStep, FirstStep, SecondStep, AdvanceStep DEF LogNext
<1>2. LogInv => LogReadInOrder
  <2> SUFFICES ASSUME LogInv PROVE LogReadInOrder
    OBVIOUS
  <2>0. LogBounds /\ LogTypeOK /\ RingInv /\ ReaderInv
    BY LogFacts DEF LogInv
  <2>1. Len(log_reader.buffer) <= LogSize
    BY <2>0 DEF LogBounds, ReaderInv, LogTypeOK
  <2>2. ASSUME NEW i \in 1 .. Len(log_reader.buffer)
        PROVE  log_reader.buffer[i] = (log_read + i - 1) % (2 * LogSize)
    <3>1. 2 * LogSize \in Nat \ {0} /\ log_read + i - 1 \in 0 .. 2 * (2 * LogSize) - 1
      BY <2>0, <2>1 DEF LogBounds
    <3>2. (log_read + i - 1) % (2 * LogSize) = Wrap(2 * LogSize, log_read + i - 1)
      BY <3>1, WrapMod
    <3>3. log_read + (i - 1) = log_read + i - 1
      BY <2>0 DEF LogBounds
    <3> QED
      BY <2>0, <3>2, <3>3 DEF ReaderInv, Byte
  <2>3. (log_next - log_read) % (2 * LogSize) = LogReadyToRead
    <3>1. /\ 2 * LogSize \in Nat \ {0}
          /\ log_next - log_read \in -(2 * LogSize) .. 2 * LogSize - 1
          /\ log_next - log_read # -(2 * LogSize)
      BY <2>0 DEF LogBounds
    <3>2. (log_next - log_read) % (2 * LogSize) = Back(2 * LogSize, log_next - log_read)
      BY <3>1, BackMod
    <3> QED
      BY <2>0, <3>2 DEF LogBounds, RingInv, Byte, Wrap, Back
  <2> QED
    BY <2>0, <2>2, <2>3 DEF LogReadInOrder
<1> QED
  BY <1>1, <1>2, InitLog, PTL DEF LogSpec

----------------------------------------------------------------------------
(* The window into the device's memory.                                    *)

(* Where the window is while nothing is accessed.                          *)
Home == IF firmware = "up" THEN FwAddress ELSE 0

AccessType ==
  [at : {"idle", "configure", "chunk", "restore"}, op : {"read", "write"},
   addr : Nat, len : Nat, offset : Nat, previous : {0, FwAddress},
   data : Seq(Int), before : [Addresses -> Int] \union {<<>>}]

(* What an access has read or written: the bytes before its offset.        *)
DoneInv ==
  /\ access.op = "read" =>
       /\ Len(access.data) = access.offset
       /\ \A i \in 1 .. access.offset : access.data[i] = memory[access.addr + i - 1]
  /\ \A a \in Addresses :
       memory[a] = IF access.op = "write"
                        /\ a \in access.addr .. access.addr + access.offset - 1
                   THEN a - access.addr + 1 ELSE access.before[a]

(* Behind the first chunk an access is at the begin of a window.           *)
AtrInv ==
  /\ access \in AccessType /\ memory \in [Addresses -> Int]
  /\ access.at = "idle" => atr = Home
  /\ access.at # "idle" => /\ access.previous = Home
                           /\ access.addr + access.len <= MemSize
                           /\ DoneInv
  /\ access.at \in {"configure", "chunk"} =>
       /\ access.offset < access.len
       /\ access.offset # 0 => (access.addr + access.offset) % AtrSize = 0
  /\ access.at = "chunk" => atr = Chunk.base
  /\ access.at = "restore" => access.offset = access.len

LEMMA Multiple ==
  ASSUME NEW n \in Nat \ {0}, NEW q \in Int
  PROVE  (n * q) % n = 0
OBVIOUS

LEMMA Align ==
  ASSUME NEW n \in Nat \ {0}, NEW x \in Nat
  PROVE  /\ x % n \in 0 .. n - 1
         /\ x - (x % n) \in Nat /\ (x - (x % n)) % n = 0
         /\ (x + (n - (x % n))) % n = 0
<1>1. PICK q \in Int : x = n * q + (x % n)
  <2>1. x \div n \in Int /\ x = n * (x \div n) + (x % n)
    OBVIOUS
  <2> QED
    BY <2>1
<1>2. x % n \in 0 .. n - 1 /\ x % n <= x
  OBVIOUS
<1>3. x - (x % n) = n * q
  BY <1>1, <1>2
<1>4. x + (n - (x % n)) = n * (q + 1)
  BY <1>1, <1>2
<1>5. (n * q) % n = 0 /\ (n * (q + 1)) % n = 0
  BY Multiple
<1> QED
  BY <1>2, <1>3, <1>4, <1>5

(* A chunk starts where the access is, and stays in its window.            *)
ChunkOK(c) ==
  /\ c.base \in Nat /\ c.offset \in Nat /\ c.len \in Nat \ {0}
  /\ c.len <= access.len - access.offset
  /\ c.base % AtrSize = 0 /\ c.base + c.offset = access.addr + access.offset
  /\ c.offset + c.len <= AtrSize
  /\ access.offset + c.len < access.len =>
       (access.addr + (access.offset + c.len)) % AtrSize = 0

LEMMA ChunkFacts ==
  ASSUME AtrInv, access.at \in {"configure", "chunk"}
  PROVE  ChunkOK(Chunk)
<1> DEFINE dest == access.addr + access.offset
           left == access.len - access.offset
<1>1. /\ AtrSize \in Nat \ {0} /\ access.addr \in Nat /\ access.offset \in Nat /\ access.len \in Nat
      /\ dest \in Nat /\ left \in Nat \ {0}
  BY AtrAssumption DEF AtrInv, AccessType
<1>2. /\ dest % AtrSize \in 0 .. AtrSize - 1 /\ dest - (dest % AtrSize) \in Nat
      /\ (dest - (dest % AtrSize)) % AtrSize = 0
      /\ (dest + (AtrSize - (dest % AtrSize))) % AtrSize = 0
  BY <1>1, Align
<1>3. PICK r \in 0 .. AtrSize - 1 : r = dest % AtrSize
  BY <1>2
<1>4. CASE access.offset = 0 /\ r # 0
  <2>1. /\ Chunk.base = dest - r /\ Chunk.offset = r
        /\ Chunk.len = IF AtrSize - r < left THEN AtrSize - r ELSE left
    BY <1>3, <1>4 DEF Chunk, FirstChunk
  <2>2. Chunk.len = AtrSize - r \/ Chunk.len = left
    BY <2>1
  <2>3. Chunk.len < left => access.addr + (access.offset + Chunk.len) = dest + (AtrSize - r)
    BY <1>1, <2>1, <2>2
  <2>4. /\ Chunk.base \in Nat /\ Chunk.offset \in Nat /\ Chunk.len \in Nat \ {0}
        /\ Chunk.len <= left /\ Chunk.base + Chunk.offset = dest
        /\ Chunk.offset + Chunk.len <= AtrSize
    <3>1. dest - r \in Nat
      BY <1>2, <1>3
    <3> HIDE DEF dest, left
    <3>2. Chunk.len \in Nat \ {0} /\ Chunk.len <= left /\ r + Chunk.len <= AtrSize
      BY <1>1, <1>4, <2>1
    <3> QED
      BY <1>1, <2>1, <3>1, <3>2
  <2>5. Chunk.base % AtrSize = 0
    BY <1>2, <1>3, <2>1
  <2>6. access.offset + Chunk.len < access.len => Chunk.len < left
    BY <1>1, <2>4
  <2>7. access.offset + Chunk.len < access.len =>
          (access.addr + (access.offset + Chunk.len)) % AtrSize = 0
    BY <1>2, <1>3, <2>3, <2>6
  <2> QED
    BY <2>4, <2>5, <2>7 DEF ChunkOK
<1>5. CASE ~(access.offset = 0 /\ r # 0)
  <2>0. r = 0
    BY <1>3, <1>5 DEF AtrInv
  <2>1. /\ Chunk.base = dest /\ Chunk.offset = 0
        /\ Chunk.len = IF left < AtrSize THEN left ELSE AtrSize
    BY <1>3, <1>5 DEF Chunk
  <2>2. Chunk.len < left => access.addr + (access.offset + Chunk.len) = dest + (AtrSize - r)
    BY <1>1, <2>0, <2>1
  <2>4. /\ Chunk.base \in Nat /\ Chunk.offset \in Nat /\ Chunk.len \in Nat \ {0}
        /\ Chunk.len <= left /\ Chunk.base + Chunk.offset = dest
        /\ Chunk.offset + Chunk.len <= AtrSize
    BY <1>1, <2>1
  <2>5. Chunk.base % AtrSize = 0
    BY <1>3, <2>0, <2>1
  <2>6. access.offset + Chunk.len < access.len => Chunk.len < left
    BY <1>1, <2>4
  <2>7. access.offset + Chunk.len < access.len =>
          (access.addr + (access.offset + Chunk.len)) % AtrSize = 0
    BY <1>2, <1>3, <2>2, <2>6
  <2> QED
    BY <2>4, <2>5, <2>7 DEF ChunkOK
<1> QED
  BY <1>4, <1>5

LEMMA InitAtr == AtrInit => AtrInv
<1> SUFFICES ASSUME AtrInit PROVE AtrInv
  OBVIOUS
<1>1. access = Idle /\ firmware = "off" /\ atr = 0
  BY DEF AtrInit
<1>2. <<>> \in Seq(Int)
  OBVIOUS
<1>3. access \in AccessType
  BY <1>1, <1>2 DEF Idle, AccessType
<1>4. memory \in [Addresses -> Int]
  BY DEF AtrInit, Addresses
<1> QED
  BY <1>1, <1>3, <1>4 DEF AtrInv, Idle, Home

LEMMA BeginStep ==
  ASSUME AtrInv, NEW op \in {"read", "write"}, NEW r \in Ranges, BeginAccess(op, r)
  PROVE  AtrInv'
<1>1. r.len \in Nat \ {0} /\ r.addr \in Nat /\ r.addr + r.len <= MemSize
  BY AtrAssumption
<1>2. /\ access' = [at |-> "configure", op |-> op, addr |-> r.addr, len |-> r.len,
                    offset |-> 0, previous |-> atr, data |-> <<>>, before |-> memory]
      /\ access.at = "idle" /\ UNCHANGED <<atr, memory, firmware>>
  BY DEF BeginAccess
<1>3. atr \in {0, FwAddress} /\ atr = Home /\ memory \in [Addresses -> Int]
  BY <1>2 DEF AtrInv, Home
<1>4. <<>> \in Seq(Int) /\ Len(<<>>) = 0
  OBVIOUS
<1>5. access' \in AccessType
  BY <1>1, <1>2, <1>3, <1>4 DEF AccessType
<1>6. DoneInv'
  BY <1>1, <1>2, <1>4 DEF DoneInv, Addresses
<1> QED
  BY <1>1, <1>2, <1>3, <1>5, <1>6 DEF AtrInv, Home

LEMMA ConfigureStep == AtrInv /\ ConfigureAtr => AtrInv'
<1> SUFFICES ASSUME AtrInv, ConfigureAtr PROVE AtrInv'
  OBVIOUS
<1>1. /\ access.at = "configure" /\ atr' = Chunk.base /\ access \in AccessType
      /\ access' = [access EXCEPT !.at = "chunk"] /\ UNCHANGED <<memory, firmware>>
  BY DEF ConfigureAtr, AtrInv
<1>2. /\ access' \in AccessType /\ access'.at = "chunk"
      /\ access'.op = access.op /\ access'.addr = access.addr /\ access'.len = access.len
      /\ access'.offset = access.offset /\ access'.previous = access.previous
      /\ access'.data = access.data /\ access'.before = access.before
  BY <1>1 DEF AccessType
<1>3. Chunk' = Chunk
  BY <1>2 DEF Chunk
<1>4. DoneInv'
  BY <1>1, <1>2 DEF AtrInv, DoneInv
<1> QED
  BY <1>1, <1>2, <1>3, <1>4 DEF AtrInv, Home

LEMMA RestoreStep == AtrInv /\ RestoreAtr => AtrInv'
<1> SUFFICES ASSUME AtrInv, RestoreAtr PROVE AtrInv'
  OBVIOUS
<1>1. /\ access.at = "restore" /\ atr' = access.previous /\ access \in AccessType
      /\ access' = [access EXCEPT !.at = "idle"] /\ UNCHANGED <<memory, firmware>>
  BY DEF RestoreAtr, AtrInv
<1>2. access' \in AccessType /\ access'.at = "idle"
  BY <1>1 DEF AccessType
<1> QED
  BY <1>1, <1>2 DEF AtrInv, Home

(* What the chunk of n bytes at address m does to the memory and the data. *)
LEMMA WriteChunk ==
  ASSUME NEW ad \in Nat, NEW o \in Nat, NEW n \in Nat \ {0}, NEW a \in Nat
  PROVE  /\ (\E i \in 0 .. n - 1 : (ad + o) + i = a) <=>
              a \in ad + o .. ad + (o + n) - 1
         /\ a \in ad .. ad + (o + n) - 1 <=>
              a \in ad .. ad + o - 1 \/ a \in ad + o .. ad + (o + n) - 1
         /\ o + a - (ad + o) + 1 = a - ad + 1
<1>1. ASSUME a \in ad + o .. ad + (o + n) - 1
      PROVE  \E i \in 0 .. n - 1 : (ad + o) + i = a
  <2>1. a - (ad + o) \in 0 .. n - 1 /\ (ad + o) + (a - (ad + o)) = a
    BY <1>1
  <2> QED
    BY <2>1
<1>2. ASSUME NEW i \in 0 .. n - 1, (ad + o) + i = a
      PROVE  a \in ad + o .. ad + (o + n) - 1
  BY <1>2
<1>3. /\ a \in ad .. ad + (o + n) - 1 <=>
           a \in ad .. ad + o - 1 \/ a \in ad + o .. ad + (o + n) - 1
      /\ o + a - (ad + o) + 1 = a - ad + 1
  OBVIOUS
<1> QED
  BY <1>1, <1>2, <1>3

MemoryPiece(mem, m, n) == [i \in 1 .. n |-> mem[m + (i - 1)]]
ReadTo(mem, ad, d, k) == Len(d) = k /\ \A i \in 1 .. k : d[i] = mem[ad + i - 1]

LEMMA ReadChunk ==
  ASSUME NEW ad \in Nat, NEW o \in Nat, NEW n \in Nat \ {0}, NEW d \in Seq(Int),
         NEW mem \in [Addresses -> Int], ad + (o + n) <= MemSize,
         NEW piece, piece = MemoryPiece(mem, ad + o, n)
  PROVE  /\ d \o piece \in Seq(Int)
         /\ ReadTo(mem, ad, d, o) => ReadTo(mem, ad, d \o piece, o + n)
<1>1. ASSUME NEW i \in 1 .. n PROVE mem[(ad + o) + (i - 1)] \in Int
  <2>1. (ad + o) + (i - 1) \in Addresses
    BY AtrAssumption DEF Addresses
  <2> QED
    BY <2>1
<1>2. /\ piece \in Seq(Int) /\ Len(piece) = n
      /\ \A i \in 1 .. n : piece[i] = mem[(ad + o) + (i - 1)]
  <2>1. piece \in [1 .. n -> Int]
    BY <1>1 DEF MemoryPiece
  <2>2. piece \in Seq(Int)
    BY <2>1, SeqDef
  <2>3. DOMAIN piece = 1 .. n /\ DOMAIN piece = 1 .. Len(piece) /\ Len(piece) \in Nat
    BY <2>1, <2>2, LenProperties
  <2>4. Len(piece) = n
    BY <2>3
  <2>5. \A i \in 1 .. n : piece[i] = mem[(ad + o) + (i - 1)]
    BY DEF MemoryPiece
  <2> QED
    BY <2>2, <2>4, <2>5
<1>3. /\ d \o piece \in Seq(Int) /\ Len(d \o piece) = Len(d) + Len(piece)
      /\ \A i \in 1 .. Len(d) + Len(piece) :
           (d \o piece)[i] = IF i <= Len(d) THEN d[i] ELSE piece[i - Len(d)]
  BY <1>2, ConcatProperties
<1>4. ASSUME Len(d) = o, \A i \in 1 .. o : d[i] = mem[ad + i - 1], NEW i \in 1 .. o + n
      PROVE  (d \o piece)[i] = mem[ad + i - 1]
  <2>1. CASE i <= o
    BY <1>2, <1>3, <1>4, <2>1
  <2>2. CASE ~(i <= o)
    <3>1. i - o \in 1 .. n /\ (ad + o) + ((i - o) - 1) = ad + i - 1
      BY <2>2
    <3>2. (d \o piece)[i] = piece[i - o]
      BY <1>2, <1>3, <1>4, <2>2
    <3> QED
      BY <1>2, <3>1, <3>2
  <2> QED
    BY <2>1, <2>2
<1> QED
  BY <1>2, <1>3, <1>4 DEF ReadTo

LEMMA AccessStep == AtrInv /\ AccessChunk => AtrInv'
<1> SUFFICES ASSUME AtrInv, AccessChunk PROVE AtrInv'
  OBVIOUS
<1>0. /\ access.at = "chunk" /\ access \in AccessType /\ atr = Chunk.base /\ DoneInv
      /\ memory \in [Addresses -> Int] /\ access.offset < access.len
      /\ access.addr + access.len <= MemSize /\ access.previous = Home
  BY DEF AccessChunk, AtrInv
<1>1. PICK c : c = Chunk /\ ChunkOK(c)
  BY <1>0, ChunkFacts
<1>2. PICK ad \in Nat, o \in Nat, l \in Nat, n \in Nat \ {0} :
        ad = access.addr /\ o = access.offset /\ l = access.len /\ n = c.len
  BY <1>0, <1>1 DEF AccessType, ChunkOK
<1>3. o + n <= l /\ ad + l <= MemSize /\ ad + (o + n) <= MemSize
      /\ (o + n < l => (ad + (o + n)) % AtrSize = 0)
  <2>1. n <= l - o /\ ad + l <= MemSize
    BY <1>0, <1>1, <1>2 DEF ChunkOK
  <2>2. o + n < l => (ad + (o + n)) % AtrSize = 0
    BY <1>1, <1>2 DEF ChunkOK
  <2> QED
    BY <2>1, <2>2, AtrAssumption
<1>4. Translated(c.offset) = ad + o
  <2>1. atr = c.base /\ atr % AtrSize = 0 /\ c.base \in Nat /\ c.offset \in Nat
        /\ c.base + c.offset = ad + o
    BY <1>0, <1>1, <1>2 DEF ChunkOK
  <2> QED
    BY <2>1 DEF Translated
<1>5. PICK piece : piece = [i \in 1 .. n |-> memory[(ad + o) + (i - 1)]]
  OBVIOUS
<1>6. PICK data : data = IF access.op = "write" THEN access.data ELSE access.data \o piece
  OBVIOUS
<1>7. PICK at : at = IF o + n < l THEN "configure" ELSE "restore"
  OBVIOUS
<1>8. /\ access' = [access EXCEPT !.at = at, !.offset = o + n, !.data = data]
      /\ memory' = IF access.op = "read" THEN memory
                   ELSE [a \in Addresses |->
                           IF \E i \in 0 .. n - 1 : (ad + o) + i = a
                           THEN o + a - ((ad + o) + 0) + 1 ELSE memory[a]]
      /\ firmware' = firmware \/ (firmware = "off" /\ firmware' = "started")
      /\ UNCHANGED atr
  BY <1>1, <1>2, <1>4, <1>5, <1>6, <1>7 DEF AccessChunk
<1>9. /\ access.op \in {"read", "write"} /\ access.data \in Seq(Int)
      /\ access.data \o piece \in Seq(Int)
      /\ access.op = "read" =>
           /\ Len(access.data \o piece) = o + n
           /\ \A i \in 1 .. o + n : (access.data \o piece)[i] = memory[ad + i - 1]
  <2>1. access.op \in {"read", "write"} /\ access.data \in Seq(Int)
    BY <1>0 DEF AccessType
  <2>2. access.op = "read" =>
          Len(access.data) = o /\ \A i \in 1 .. o : access.data[i] = memory[ad + i - 1]
    BY <1>0, <1>2 DEF DoneInv
  <2>3. PICK d \in Seq(Int) : d = access.data
    BY <2>1
  <2>4. PICK mem \in [Addresses -> Int] : mem = memory
    BY <1>0
  <2>5. piece = MemoryPiece(mem, ad + o, n)
    BY <1>5, <2>4 DEF MemoryPiece
  <2>6. /\ d \o piece \in Seq(Int)
        /\ ReadTo(mem, ad, d, o) => ReadTo(mem, ad, d \o piece, o + n)
    BY <1>3, <2>5, ReadChunk, Zenon
  <2> QED
    BY <2>1, <2>2, <2>3, <2>4, <2>6 DEF ReadTo
<1>10. data \in Seq(Int) /\ at \in {"configure", "restore"} /\ o + n \in Nat
  BY <1>6, <1>7, <1>9
<1>11. /\ access'.at = at /\ access'.offset = o + n /\ access'.data = data
       /\ access'.op = access.op /\ access'.addr = ad /\ access'.len = l
       /\ access'.previous = access.previous /\ access'.before = access.before
  BY <1>0, <1>2, <1>8 DEF AccessType
<1>12. access' \in AccessType
  BY <1>0, <1>8, <1>10 DEF AccessType
<1>13. ASSUME NEW a \in Addresses
       PROVE  /\ memory'[a] \in Int
              /\ memory'[a] = IF access.op = "write" /\ a \in ad .. ad + (o + n) - 1
                              THEN a - ad + 1 ELSE access.before[a]
  <2>0. a \in Nat /\ memory[a] \in Int
    BY <1>0 DEF Addresses
  <2>1. memory[a] = IF access.op = "write" /\ a \in ad .. ad + o - 1
                    THEN a - ad + 1 ELSE access.before[a]
    BY <1>0, <1>2 DEF DoneInv
  <2>2. CASE access.op = "read"
    BY <1>8, <2>0, <2>1, <2>2
  <2>3. CASE access.op = "write"
    <3>1. memory'[a] = IF \E i \in 0 .. n - 1 : (ad + o) + i = a
                       THEN o + a - ((ad + o) + 0) + 1 ELSE memory[a]
      BY <1>8, <2>3
    <3>2. /\ (\E i \in 0 .. n - 1 : (ad + o) + i = a) <=> a \in ad + o .. ad + (o + n) - 1
          /\ a \in ad .. ad + (o + n) - 1 <=>
               a \in ad .. ad + o - 1 \/ a \in ad + o .. ad + (o + n) - 1
          /\ o + a - (ad + o) + 1 = a - ad + 1
      BY <2>0, WriteChunk
    <3>3. (ad + o) + 0 = ad + o /\ a - ad + 1 \in Int
      BY <2>0
    <3> QED
      BY <2>0, <2>1, <2>3, <3>1, <3>2, <3>3
  <2> QED
    BY <1>9, <2>2, <2>3
<1>14. memory' \in [Addresses -> Int]
  <2>1. memory' = [a \in Addresses |-> memory'[a]]
    BY <1>0, <1>8
  <2> QED
    BY <1>13, <2>1
<1>15. DoneInv'
  <2>1. access.op = "read" =>
          /\ Len(data) = o + n
          /\ \A i \in 1 .. o + n : data[i] = memory'[ad + i - 1]
    BY <1>6, <1>8, <1>9
  <2> QED
    BY <1>11, <1>13, <2>1 DEF DoneInv
<1>16. /\ at = "configure" => o + n < l /\ (ad + (o + n)) % AtrSize = 0
       /\ at = "restore" => o + n = l
  BY <1>3, <1>7
<1>17. Home' = Home
  BY <1>8 DEF Home
<1> QED
  BY <1>0, <1>3, <1>8, <1>10, <1>11, <1>12, <1>14, <1>15, <1>16, <1>17 DEF AtrInv

(* read_memory and write_memory move exactly the bytes they are asked to,  *)
(* through a window of any size that starts anywhere before them, and      *)
(* leave the window where it was: if the firmware that a write starts does *)
(* not come up before the entry is restored.                               *)
THEOREM WindowCorrect == "slow" \in AtrContract => (AtrSpec => []WindowAccessExact)
<1> SUFFICES ASSUME "slow" \in AtrContract PROVE AtrSpec => []WindowAccessExact
  OBVIOUS
<1>1. AtrInv /\ [AtrNext]_atrVars => AtrInv'
  <2> SUFFICES ASSUME AtrInv, [AtrNext]_atrVars PROVE AtrInv'
    OBVIOUS
  <2>1. CASE FirmwareUp
    BY <2>1 DEF FirmwareUp, AtrInv, Home
  <2>2. CASE UNCHANGED atrVars
    BY <2>2 DEF atrVars, AtrInv, Home, DoneInv, Chunk
  <2> QED
    BY <2>1, <2>2, BeginStep, ConfigureStep, AccessStep, RestoreStep DEF AtrNext
<1>2. AtrInv => WindowAccessExact
  <2> SUFFICES ASSUME AtrInv PROVE WindowAccessExact
    OBVIOUS
  <2>1. access.at \in {"configure", "chunk"} => Chunk.offset + Chunk.len <= AtrSize
    BY ChunkFacts DEF ChunkOK
  <2>2. ASSUME access.at = "restore"
        PROVE  /\ access.op = "read" =>
                    access.data = [i \in 1 .. access.len |-> memory[access.addr + i - 1]]
               /\ memory = [a \in Addresses |->
                              IF access.op = "write"
                                   /\ a \in access.addr .. access.addr + access.len - 1
                              THEN a - access.addr + 1 ELSE access.before[a]]
    <3>1. /\ access.offset = access.len /\ DoneInv /\ access.data \in Seq(Int)
          /\ memory \in [Addresses -> Int] /\ access.len \in Nat
      BY <2>2 DEF AtrInv, AccessType
    <3>2. ASSUME access.op = "read"
          PROVE  access.data = [i \in 1 .. access.len |-> memory[access.addr + i - 1]]
      <4>1. access.data = [i \in 1 .. Len(access.data) |-> access.data[i]]
        BY <3>1
      <4> QED
        BY <3>1, <3>2, <4>1 DEF DoneInv
    <3> QED
      BY <3>1, <3>2 DEF DoneInv
  <2>3. access.at = "idle" => atr = IF firmware = "up" THEN FwAddress ELSE 0
    BY DEF AtrInv, Home
  <2> QED
    BY <2>1, <2>2, <2>3 DEF WindowAccessExact
<1> QED
  BY <1>1, <1>2, InitAtr, PTL DEF AtrSpec

=============================================================================
