------------------------------ MODULE Framing -------------------------------
(***************************************************************************)
(* read_msg (msg/util/read.rs): one message off a byte stream that arrives *)
(* in pieces and may be cut anywhere.  Bytes are counted, not named: what  *)
(* matters is where each buffer's cursor stands and where the stream is    *)
(* left.  The type byte was read before; put_header writes it anew.        *)
(***************************************************************************)
EXTENDS Naturals

CONSTANTS
    MaxU32,   \* the largest length a u32 holds, 2^32 - 1 in the code
    MaxWire   \* how many bytes the peer sends at most

ASSUME WidthAssumption == MaxU32 \in Nat /\ MaxU32 >= 4
ASSUME WireAssumption == MaxWire \in Nat

VARIABLES
    pc,             \* ReadLen, ReadBody, Decode or Done
    typed,          \* Msg::TYPE_BYTE_OPT is Some
    debug,          \* overflow checks are compiled in
    specified_len,  \* the length field that the peer sends
    arrived, eof,   \* bytes the peer has sent, and whether it hung up
    consumed,       \* bytes taken off the stream
    filled,         \* bytes in the buffer of the read_exact under way
    vecLen,         \* the length of the Vec that alloc_vec makes
    targetPos,      \* BytesTarget::pos in it, the end of the header
    sourcePos,      \* BytesSource::pos in the rest of it, the body
    result          \* what read_msg returned

vars == <<pc, typed, debug, specified_len, arrived, eof, consumed, filled, vecLen, targetPos,
          sourcePos, result>>

LenBytes == 4  \* size_of::<u32>()

Init ==
    /\ pc = "ReadLen"
    /\ typed \in BOOLEAN /\ debug \in BOOLEAN
    /\ specified_len \in 0 .. MaxU32
    /\ arrived = 0 /\ eof = FALSE
    /\ consumed = 0 /\ filled = 0
    /\ vecLen = 0 /\ targetPos = 0 /\ sourcePos = 0
    /\ result = "Running"

-----------------------------------------------------------------------------
(***************************************************************************)
(* The peer (external).                                                    *)
(***************************************************************************)
Arrive ==
    /\ ~eof
    /\ \E n \in 1 .. MaxWire - arrived : arrived' = arrived + n
    /\ UNCHANGED <<pc, typed, debug, specified_len, eof, consumed, filled, vecLen, targetPos,
                   sourcePos, result>>

HangUp ==
    /\ ~eof
    /\ eof' = TRUE
    /\ UNCHANGED <<pc, typed, debug, specified_len, arrived, consumed, filled, vecLen,
                   targetPos, sourcePos, result>>

-----------------------------------------------------------------------------
Finish(r) == pc' = "Done" /\ result' = r

\* A mistake: read in place of read_exact, whose buffer is taken for full whatever has come.
ChunkAsAsked(n) == {k \in {n - filled} : k > 0}

\* What one poll of read_exact, for a buffer of n bytes, may take: what is there and fits.
Chunk(n) == {k \in 1 .. n - filled : consumed + k <= arrived}

\* Mistakes: a pause is taken for the end; the end is never noticed.
CutByPause(n) == filled < n /\ consumed = arrived
CutNever(n) == FALSE /\ filled < n

\* read_exact fails with UnexpectedEof.
Cut(n) == filled < n /\ eof /\ consumed = arrived

\* alloc_vec: the addition of two u32 wraps, or panics where overflow is checked.
TypeLen == IF typed THEN 1 ELSE 0
FullLen == TypeLen + specified_len
Overflows == FullLen > MaxU32
\* A mistake: the type byte is not counted.
AllocVecUntyped == specified_len
AllocVec == FullLen % (MaxU32 + 1)

\* A mistake: an off-by-one.
FitsOneMore(pos, n, len) == pos + n <= len + 1

\* put_bounded! n bytes at a position of a slice: whether they fit, and where it leaves the cursor.
Fits(pos, n, len) == pos + n <= len
Advance(pos, n, len) == IF Fits(pos, n, len) THEN pos + n ELSE len

(***************************************************************************)
(* put_header: the type byte, when there is one, and the length.           *)
(***************************************************************************)
PutHeader(len) ==
    LET pos == Advance(0, TypeLen, len)
    IN  [ok |-> Fits(0, TypeLen, len) /\ Fits(pos, LenBytes, len),
         pos |-> IF Fits(0, TypeLen, len) THEN Advance(pos, LenBytes, len) ELSE pos]

\* The length is read: allocate, put the header, and go on with a new buffer for the body.
\* An empty body needs no read.
Headed ==
    IF Overflows /\ debug THEN Finish("Panicked") /\ UNCHANGED <<vecLen, targetPos>>
    ELSE
        LET header == PutHeader(AllocVec)
        IN  /\ vecLen' = AllocVec
            /\ targetPos' = header.pos
            /\ IF ~header.ok THEN Finish("EncodeError")
               ELSE /\ pc' = IF AllocVec = header.pos THEN "Decode" ELSE "ReadBody"
                    /\ UNCHANGED result

ReadLen ==
    /\ pc = "ReadLen"
    /\ \/ /\ Cut(LenBytes)
          /\ Finish("IoError")
          /\ UNCHANGED <<consumed, filled, vecLen, targetPos>>
       \/ \E k \in Chunk(LenBytes) :
            /\ consumed' = consumed + k
            /\ IF filled + k < LenBytes
               THEN filled' = filled + k /\ UNCHANGED <<pc, vecLen, targetPos, result>>
               ELSE filled' = 0 /\ Headed
    /\ UNCHANGED <<typed, debug, specified_len, arrived, eof, sourcePos>>

\* bytes_target.rest() is the buffer that the body is read into, and decoded from.
BodyLen == vecLen - targetPos

ReadBody ==
    /\ pc = "ReadBody"
    /\ \/ Cut(BodyLen) /\ Finish("IoError") /\ UNCHANGED <<consumed, filled>>
       \/ \E k \in Chunk(BodyLen) :
            /\ consumed' = consumed + k
            /\ filled' = filled + k
            /\ pc' = IF filled + k = BodyLen THEN "Decode" ELSE pc
            /\ UNCHANGED result
    /\ UNCHANGED <<typed, debug, specified_len, arrived, eof, vecLen, targetPos, sourcePos>>

(***************************************************************************)
(* decode_body, as any sequence of the operations of BytesSource.          *)
(***************************************************************************)
Left == BodyLen - sourcePos

\* take_bounded: take_u8, take_u16, take_u32, take_slice, take_vec.
TakeBounded(n) ==
    /\ pc = "Decode"
    /\ sourcePos' = Advance(sourcePos, n, BodyLen)
    /\ IF Fits(sourcePos, n, BodyLen) THEN UNCHANGED <<pc, result>>
       ELSE Finish("DecodeError")
    /\ UNCHANGED <<typed, debug, specified_len, arrived, eof, consumed, filled, vecLen,
                   targetPos>>

\* take_until_null: up to and over a 0-byte, wherever one lies, or to the end.
TakeUntilNull ==
    /\ pc = "Decode"
    /\ \/ \E null_pos \in sourcePos .. BodyLen - 1 :
            sourcePos' = null_pos + 1 /\ UNCHANGED <<pc, result>>
       \/ sourcePos' = BodyLen /\ Finish("DecodeError")
    /\ UNCHANGED <<typed, debug, specified_len, arrived, eof, consumed, filled, vecLen,
                   targetPos>>

\* decode_body is content, or finds a value Incorrect or Unknown.
Decoded ==
    /\ pc = "Decode"
    /\ \E r \in {IF Left = 0 THEN "Ok" ELSE "LeftUndecoded", "DecodeError"} : Finish(r)
    /\ UNCHANGED <<typed, debug, specified_len, arrived, eof, consumed, filled, vecLen,
                   targetPos, sourcePos>>

\* u8, u16, u32, and a length found in the message, which may be absurd.
TakeSizes == {1, 2, 4, MaxU32}

Read == ReadLen \/ ReadBody
Decode == (\E n \in TakeSizes : TakeBounded(n)) \/ TakeUntilNull \/ Decoded

Next == Arrive \/ HangUp \/ Read \/ Decode

\* The executor polls a read that can go on.  The loops of decode_body end: each round of
\* them takes a byte or is one of a count.
Spec == Init /\ [][Next]_vars /\ WF_vars(Read) /\ WF_vars(Decoded)

-----------------------------------------------------------------------------
\* Type correctness of read_msg's buffers and cursors; only bytes that have come are taken.
FramingTypeOK ==
    /\ pc \in {"ReadLen", "ReadBody", "Decode", "Done"}
    /\ typed \in BOOLEAN /\ debug \in BOOLEAN /\ eof \in BOOLEAN
    /\ specified_len \in 0 .. MaxU32
    /\ arrived \in 0 .. MaxWire /\ consumed \in 0 .. arrived
    /\ filled \in Nat /\ vecLen \in 0 .. MaxU32
    /\ targetPos \in Nat /\ sourcePos \in Nat
    /\ result \in {"Running", "Ok", "DecodeError", "LeftUndecoded", "IoError", "EncodeError",
                   "Panicked"}

(***************************************************************************)
(* read_msg leaves the stream at the first byte after the message, however *)
(* the bytes arrived and whatever decode_body made of them, and its bytes  *)
(* are the type byte and the whole message.  Else the next type byte would *)
(* be taken from the middle of a message.                                  *)
(***************************************************************************)
Aligned ==
    pc = "Decode" \/ result \in {"Ok", "DecodeError", "LeftUndecoded"} =>
        /\ consumed = specified_len
        /\ vecLen = TypeLen + specified_len
        /\ targetPos = TypeLen + LenBytes

(***************************************************************************)
(* No cursor passes the end of its slice, so that neither rest() nor       *)
(* left() nor a sub-slice panics.                                          *)
(***************************************************************************)
CursorsInside ==
    /\ targetPos <= vecLen
    /\ sourcePos <= vecLen - targetPos
    /\ consumed <= arrived

(***************************************************************************)
(* A length that does not even count itself is refused with EncodeError,   *)
(* and so is the largest one of a typed message, where type_len + it wraps *)
(* around; nothing else is.  Not a byte of the body is read then.          *)
(***************************************************************************)
Refused ==
    result \in {"EncodeError", "Panicked"} <=>
        /\ pc = "Done"
        /\ consumed = LenBytes
        /\ specified_len < LenBytes \/ (typed /\ specified_len = MaxU32)

(***************************************************************************)
(* read_msg fails with an IoError only for a message that really was cut:  *)
(* a pause in the middle of it is no end.                                  *)
(***************************************************************************)
CutOnlyIfShort ==
    result = "IoError" => eof /\ (arrived < LenBytes \/ arrived < specified_len)

(***************************************************************************)
(* Once the peer hung up, read_msg returns.                                *)
(***************************************************************************)
Returns == eof ~> pc = "Done"
=============================================================================
