----------------------------- MODULE FootPressure -----------------------------
(***************************************************************************)
(* The reader of the foot pressure sensor (FootPressureSensor): frames of  *)
(* fixed length come over a serial line, in pieces of any size, and are    *)
(* put together again in a buffer.                                         *)
(*                                                                         *)
(* A frame is head, source, data, checksum, tail; the model keeps one data *)
(* byte and bytes of fewer values, so that head and tail values turn up    *)
(* inside frames as they may in the code.  The bytes DST, FUNC, CMD, LEN   *)
(* are data to the parser, which does not look at them.                    *)
(*                                                                         *)
(* External: the sensor and the line.  The sensor may be in the middle of a*)
(* frame when the reader starts; a byte may be lost or changed.            *)
(* Left out: statistics, the timestamp, and the mutex of m_cached, a copy  *)
(* of the last frame delivered that the RT thread takes every period.      *)
(***************************************************************************)
EXTENDS Integers, Sequences

CONSTANTS
  Byte,              \* number of values of a byte, 256 in the code
  HeadByte, SrcByte, TailByte,  \* FOOT_PRESSURE_FRAME_HEAD, _SRC, _TAIL
  ReadMax,           \* sizeof(tmp), the most a read() returns
  RingSize,          \* FOOT_PRESSURE_RING_BUF_SIZE
  MaxFrames,         \* bound on the frames sent
  MaxFaults          \* bound on bytes lost or changed

FrameLen == 5
Bytes == 0 .. Byte - 1

ASSUME ByteAssumption ==
  Byte \in Nat \ {0} /\ {HeadByte, SrcByte, TailByte} \subseteq 0 .. Byte - 1
ASSUME RingAssumption ==
  /\ {ReadMax, RingSize} \subseteq Nat \ {0}
  /\ FrameLen - 1 + ReadMax < RingSize
ASSUME LineAssumption == {MaxFrames, MaxFaults} \subseteq Nat

VARIABLES
  line,      \* bytes sent and not yet read
  buf,       \* ring_buf[0 .. avail - 1]
  parsing,   \* the reader is in its inner loop, not in read()
  delivered, \* the data of the frames written to m_cached, in order
  stream,    \* history: all bytes read
  sent,      \* history: the data of all frames sent
  faults

reader == <<buf, parsing, delivered, stream>>
footVars == <<line, reader, sent, faults>>

CheckSum(f) == (f[2] + f[3]) % Byte
Frame(d) == <<HeadByte, SrcByte, d, (SrcByte + d) % Byte, TailByte>>

(* A frame that was already on its way counts as a fault.                  *)
FootInit ==
  /\ \/ line = <<>> /\ faults = 0
     \/ /\ \E d \in Bytes, k \in 2 .. FrameLen :
             line = SubSeq(Frame(d), k, FrameLen)
        /\ faults = 1
  /\ buf = <<>> /\ parsing = FALSE
  /\ delivered = <<>> /\ stream = <<>> /\ sent = <<>>

-----------------------------------------------------------------------------
(* The sensor and the line.                                                *)

Send(d) ==
  /\ Len(sent) < MaxFrames
  /\ line' = line \o Frame(d)
  /\ sent' = Append(sent, d)
  /\ UNCHANGED <<reader, faults>>

Lose ==
  /\ line # <<>> /\ faults < MaxFaults
  /\ line' = Tail(line) /\ faults' = faults + 1
  /\ UNCHANGED <<reader, sent>>

Change(b) ==
  /\ line # <<>> /\ faults < MaxFaults
  /\ line' = <<b>> \o Tail(line) /\ faults' = faults + 1
  /\ UNCHANGED <<reader, sent>>

-----------------------------------------------------------------------------
(* _ReaderThread.                                                          *)

(* What the ring holds from its start, after bytes were appended: the code *)
(* takes the write position for the number of bytes (and 0 for a full      *)
(* ring), so past the end only what was wrapped is left.                   *)
Ring(bytes) ==
  IF Len(bytes) <= RingSize THEN bytes
  ELSE SubSeq(bytes, RingSize + 1, Len(bytes))

ReadBytes(n) ==
  /\ ~parsing /\ n <= Len(line)
  /\ buf' = Ring(buf \o SubSeq(line, 1, n))
  /\ stream' = stream \o SubSeq(line, 1, n)
  /\ line' = SubSeq(line, n + 1, Len(line))
  /\ parsing' = TRUE
  /\ UNCHANGED <<delivered, sent, faults>>

(* _ParseFrame, of at least FrameLen bytes: does it find a frame, and how  *)
(* many bytes are done with.                                               *)
Heads(b) == {i \in DOMAIN b : b[i] = HeadByte}
FirstHead(b) == CHOOSE i \in Heads(b) : \A j \in Heads(b) : i <= j
Ok(b) ==
  b[1] = HeadByte /\ b[FrameLen] = TailByte /\ b[2] = SrcByte /\ b[4] = CheckSum(b)

(* Mutants: everything goes after a frame; a wrong tail costs a frame of   *)
(* bytes, or whatever has come in.                                         *)
ConsumedAll(b) == Len(b)
ConsumedOnError(b) ==
  CASE Heads(b) = {} -> Len(b)
    [] b[1] # HeadByte /\ Heads(b) # {} -> FirstHead(b) - 1
    [] OTHER -> IF Ok(b) THEN FrameLen ELSE Len(b)

Consumed(b) ==
  CASE Heads(b) = {} -> Len(b)
    [] b[1] # HeadByte /\ Heads(b) # {} -> FirstHead(b) - 1
    [] b[1] = HeadByte ->
         IF Ok(b) \/ (b[FrameLen] = TailByte /\ b[2] # SrcByte) THEN FrameLen ELSE 1

Parse ==
  /\ parsing /\ Len(buf) >= FrameLen
  /\ delivered' = IF Ok(buf) THEN Append(delivered, buf[3]) ELSE delivered
  /\ buf' = SubSeq(buf, Consumed(buf) + 1, Len(buf))
  /\ UNCHANGED <<line, parsing, stream, sent, faults>>

Wait ==
  /\ parsing /\ Len(buf) < FrameLen
  /\ parsing' = FALSE
  /\ UNCHANGED <<line, buf, delivered, stream, sent, faults>>

FootNext ==
  \/ (\E d \in Bytes : Send(d)) \/ Lose \/ (\E b \in Bytes : Change(b))
  \/ (\E n \in 1 .. ReadMax : ReadBytes(n)) \/ Parse \/ Wait

FootSpec == FootInit /\ [][FootNext]_footVars

-----------------------------------------------------------------------------
FootTypeOK ==
  /\ {line, buf, delivered, stream, sent} \subseteq Seq(Bytes)
  /\ parsing \in BOOLEAN /\ faults \in Nat
  /\ Len(buf) < RingSize /\ (~parsing => Len(buf) < FrameLen)

(* Reference: the frames in a whole stream, from each position on, scanned *)
(* byte by byte.                                                           *)
ScanFrom(s) ==
  LET At(p) == SubSeq(s, p, p + FrameLen - 1)
      from[p \in 1 .. Len(s) + FrameLen] ==
        IF p + FrameLen - 1 > Len(s) THEN <<>>
        ELSE IF Ok(At(p)) THEN <<s[p + 2]>> \o from[p + FrameLen]
        ELSE IF s[p] = HeadByte /\ s[p + FrameLen - 1] = TailByte /\ s[p + 1] # SrcByte
        THEN from[p + FrameLen]
        ELSE from[p + 1]
  IN from

Scan(s) == ScanFrom(s)[1]

(* Which frames are delivered depends on the bytes of the line alone, not  *)
(* on the pieces in which read() returned them (_ReaderThread): no byte is *)
(* lost at the end of the buffer, skipped or parsed twice.                 *)
ChunkingIrrelevant == ~parsing => delivered = Scan(stream)

(* On an undisturbed line no frame is lost and none made up, whatever the  *)
(* data: head and tail values inside a frame do not lead the parser astray.*)
CleanLineIsLossless ==
  ~parsing /\ faults = 0 =>
    delivered = SubSeq(sent, 1, Len(stream) \div FrameLen)

(* The buffer never reaches its end, and the clean line loses nothing.     *)
FootInv == FootTypeOK /\ CleanLineIsLossless
=============================================================================
