--------------------------- MODULE FramingProofs ----------------------------
(***************************************************************************)
(* read_msg for every width of the length field, the real 2^32 - 1         *)
(* included, and for streams of any length: the stream is left aligned,    *)
(* the cursors stay in their slices, and the lengths that are refused are  *)
(* exactly those that cannot be.                                           *)
(***************************************************************************)
EXTENDS Framing, TLAPS

\* The length counts itself and type_len + it fits a u32.
Sound == LenBytes <= specified_len /\ FullLen <= MaxU32

\* The header is in place, and the body's buffer is as long as the body.
HeaderPut ==
    /\ Sound
    /\ vecLen = FullLen
    /\ targetPos = TypeLen + LenBytes

(***************************************************************************)
(* Where read_msg has come to at each await, and at its end.               *)
(***************************************************************************)
Progress ==
    /\ pc = "ReadLen" => /\ consumed = filled /\ filled < LenBytes
                         /\ vecLen = 0 /\ targetPos = 0 /\ sourcePos = 0
    /\ pc = "ReadBody" => /\ HeaderPut
                          /\ consumed = LenBytes + filled /\ filled < BodyLen
                          /\ sourcePos = 0
    /\ pc = "Decode" => HeaderPut /\ consumed = specified_len
    /\ (pc = "Done") <=> (result # "Running")
    /\ result = "IoError" => consumed < LenBytes \/ HeaderPut
    /\ result \in {"Ok", "DecodeError", "LeftUndecoded"} =>
          HeaderPut /\ consumed = specified_len
    /\ result \in {"EncodeError", "Panicked"} => ~Sound /\ consumed = LenBytes

\* A read that failed took all there is, and it was not enough.
CutShort ==
    result = "IoError" =>
        /\ eof
        /\ consumed = arrived
        /\ consumed < LenBytes \/ consumed < specified_len

IInv == FramingTypeOK /\ CursorsInside /\ Progress /\ CutShort

-----------------------------------------------------------------------------
\* alloc_vec's sum as a u32: itself when it fits, 0 when it is one too large.
LEMMA Wrapped ==
    /\ \A n \in 0 .. MaxU32 : n % (MaxU32 + 1) = n
    /\ (MaxU32 + 1) % (MaxU32 + 1) = 0
  <1>1. ASSUME NEW n \in 0 .. MaxU32 PROVE n % (MaxU32 + 1) = n
    BY WidthAssumption
  <1>2. (MaxU32 + 1) % (MaxU32 + 1) = 0
    BY WidthAssumption
  <1> QED BY <1>1, <1>2

\* What put_header returns, and where it leaves the cursor.
LEMMA PutHeaderFields ==
    ASSUME NEW len
    PROVE  /\ PutHeader(len).ok =
                  (/\ Fits(0, TypeLen, len)
                   /\ Fits(Advance(0, TypeLen, len), LenBytes, len))
           /\ PutHeader(len).pos =
                  IF Fits(0, TypeLen, len) THEN Advance(Advance(0, TypeLen, len), LenBytes, len)
                  ELSE Advance(0, TypeLen, len)
  BY Zenon DEF PutHeader

\* put_header succeeds exactly for the lengths that are sound, and then ends where the body begins;
\* it never leaves the cursor behind the end.
LEMMA PutHeaderFits ==
    ASSUME specified_len \in 0 .. MaxU32, typed \in BOOLEAN
    PROVE  /\ AllocVec \in 0 .. MaxU32
           /\ PutHeader(AllocVec).pos \in 0 .. AllocVec
           /\ PutHeader(AllocVec).ok <=> Sound
           /\ Sound => /\ AllocVec = FullLen
                       /\ PutHeader(AllocVec).pos = TypeLen + LenBytes
  <1>1. TypeLen \in {0, 1} /\ FullLen = TypeLen + specified_len
    BY DEF TypeLen, FullLen
  <1>2. CASE FullLen <= MaxU32
    <2>1. AllocVec = FullLen
      BY <1>1, <1>2, Wrapped, WidthAssumption DEF AllocVec
    <2>2. AllocVec \in 0 .. MaxU32 /\ TypeLen <= AllocVec
      BY <1>1, <1>2, <2>1, WidthAssumption
    <2>3. /\ PutHeader(AllocVec).ok <=> TypeLen + LenBytes <= AllocVec
          /\ PutHeader(AllocVec).pos =
                 IF TypeLen + LenBytes <= AllocVec THEN TypeLen + LenBytes ELSE AllocVec
      <3>1. Fits(0, TypeLen, AllocVec) /\ Advance(0, TypeLen, AllocVec) = TypeLen
        BY <1>1, <2>2 DEF Advance, Fits
      <3>2. Fits(TypeLen, LenBytes, AllocVec) <=> TypeLen + LenBytes <= AllocVec
        BY DEF Fits
      <3>3. PutHeader(AllocVec).ok <=> TypeLen + LenBytes <= AllocVec
        BY <3>1, <3>2, PutHeaderFields, Zenon
      <3>4. PutHeader(AllocVec).pos = Advance(TypeLen, LenBytes, AllocVec)
        BY <3>1, PutHeaderFields, Zenon
      <3> QED BY <3>2, <3>3, <3>4 DEF Advance
    <2>4. TypeLen + LenBytes <= AllocVec <=> Sound
      BY <1>1, <1>2, <2>1 DEF Sound, LenBytes
    <2> QED BY <1>1, <2>1, <2>2, <2>3, <2>4 DEF LenBytes
  <1>3. CASE FullLen > MaxU32
    <2>1. FullLen = MaxU32 + 1
      BY <1>1, <1>3, WidthAssumption
    <2>2. AllocVec = 0
      BY <2>1, Wrapped DEF AllocVec
    <2>3. ~Sound
      BY <1>1, <1>3, WidthAssumption DEF Sound
    <2>4. ~PutHeader(0).ok /\ PutHeader(0).pos = 0
      <3>1. Advance(0, TypeLen, 0) = 0 /\ ~Fits(0, LenBytes, 0) /\ Advance(0, LenBytes, 0) = 0
        BY <1>1 DEF Advance, Fits, LenBytes
      <3> QED BY <3>1, PutHeaderFields, Zenon
    <2> QED BY <2>2, <2>3, <2>4, WidthAssumption
  <1> QED BY <1>1, <1>2, <1>3, WidthAssumption

\* A length is unsound exactly when it is below 4 or, with a type byte, the largest.
LEMMA Unsound ==
    ASSUME specified_len \in 0 .. MaxU32, typed \in BOOLEAN
    PROVE  ~Sound <=> specified_len < LenBytes \/ (typed /\ specified_len = MaxU32)
  BY WidthAssumption DEF Sound, FullLen, TypeLen, LenBytes

\* What Progress says of the lengths follows from HeaderPut.
LEMMA BodyIsRest ==
    ASSUME FramingTypeOK, HeaderPut
    PROVE  BodyLen = specified_len - LenBytes /\ BodyLen \in Nat /\ targetPos <= vecLen
  BY WidthAssumption DEF FramingTypeOK, HeaderPut, Sound, BodyLen, FullLen, TypeLen, LenBytes

-----------------------------------------------------------------------------
\* Nothing was read yet.
LEMMA InitHolds == Init => IInv
  <1> SUFFICES ASSUME Init PROVE IInv
    OBVIOUS
  <1>1. typed \in BOOLEAN /\ debug \in BOOLEAN /\ eof \in BOOLEAN
    BY Zenon DEF Init
  <1>2. FramingTypeOK
    BY <1>1, WidthAssumption, WireAssumption DEF Init, FramingTypeOK
  <1>3. CursorsInside
    BY DEF Init, CursorsInside
  <1>4. Progress
    BY DEF Init, Progress, LenBytes
  <1>5. CutShort
    BY DEF Init, CutShort
  <1> QED BY <1>2, <1>3, <1>4, <1>5 DEF IInv

\* The peer's steps only add to the stream, or end it.
LEMMA PeerKeeps ==
    ASSUME IInv, Arrive \/ HangUp
    PROVE  IInv'
  <1>1. /\ UNCHANGED <<pc, typed, debug, specified_len, consumed, filled, vecLen, targetPos,
                       sourcePos, result>>
        /\ arrived' \in 0 .. MaxWire /\ arrived <= arrived' /\ eof' \in BOOLEAN
    <2>1. arrived \in 0 .. MaxWire /\ eof \in BOOLEAN
      BY DEF IInv, FramingTypeOK
    <2>2. CASE Arrive
      <3>1. eof' = eof
        BY <2>2 DEF Arrive
      <3>2. arrived' \in 0 .. MaxWire /\ arrived <= arrived'
        BY <2>1, <2>2, WireAssumption DEF Arrive
      <3> QED BY <2>1, <2>2, <3>1, <3>2 DEF Arrive
    <2>3. CASE HangUp
      <3>1. eof' \in BOOLEAN
        BY <2>3, Zenon DEF HangUp
      <3>2. arrived' = arrived /\ arrived <= arrived
        BY <2>1, <2>3 DEF HangUp
      <3> QED BY <2>1, <2>3, <3>1, <3>2 DEF HangUp
    <2> QED BY <2>2, <2>3
  <1>2. FramingTypeOK'
    BY <1>1 DEF IInv, FramingTypeOK
  <1>3. CursorsInside'
    BY <1>1, WireAssumption DEF IInv, FramingTypeOK, CursorsInside
  <1>4. Progress'
    BY <1>1 DEF IInv, Progress, HeaderPut, Sound, FullLen, TypeLen, BodyLen
  <1>5. CutShort'
    BY DEF Arrive, HangUp, IInv, CutShort
  <1> QED BY <1>2, <1>3, <1>4, <1>5 DEF IInv

\* Another piece of the length field, or all of it and then the header.
LEMMA ReadLenKeeps ==
    ASSUME IInv, ReadLen
    PROVE  IInv'
  <1>1. /\ pc = "ReadLen" /\ result = "Running" /\ consumed = filled /\ filled < LenBytes
        /\ vecLen = 0 /\ targetPos = 0 /\ sourcePos = 0
        /\ UNCHANGED <<typed, debug, specified_len, arrived, eof, sourcePos>>
        /\ FramingTypeOK /\ CursorsInside
    BY DEF ReadLen, IInv, Progress
  <1>2. /\ UNCHANGED <<TypeLen, FullLen, Sound>>
        /\ specified_len \in 0 .. MaxU32 /\ typed \in BOOLEAN
    BY <1>1 DEF TypeLen, FullLen, Sound, FramingTypeOK
  <1>3. CASE Cut(LenBytes) /\ Finish("IoError") /\ UNCHANGED <<consumed, filled, vecLen, targetPos>>
    <2>1. FramingTypeOK' /\ CursorsInside'
      BY <1>1, <1>3 DEF FramingTypeOK, CursorsInside, Finish
    <2>2. Progress'
      BY <1>1, <1>3 DEF Progress, Finish
    <2>3. CutShort'
      BY <1>1, <1>3 DEF CutShort, Cut
    <2> QED BY <2>1, <2>2, <2>3 DEF IInv
  <1>4. ASSUME NEW k \in Chunk(LenBytes), consumed' = consumed + k,
               filled + k < LenBytes, filled' = filled + k,
               UNCHANGED <<pc, vecLen, targetPos, result>>
        PROVE  IInv'
    <2>1. k \in Nat /\ consumed + k <= arrived
      BY <1>1, <1>4 DEF Chunk, FramingTypeOK, LenBytes
    <2>2. FramingTypeOK' /\ CursorsInside'
      BY <1>1, <1>4, <2>1, WireAssumption DEF FramingTypeOK, CursorsInside
    <2>3. Progress' /\ CutShort'
      BY <1>1, <1>4, <2>1 DEF Progress, CutShort
    <2> QED BY <2>2, <2>3 DEF IInv
  <1>5. ASSUME NEW k \in Chunk(LenBytes), consumed' = consumed + k,
               ~(filled + k < LenBytes), filled' = 0, Headed
        PROVE  IInv'
    <2>1. consumed' = LenBytes /\ LenBytes <= arrived /\ LenBytes \in Nat
      BY <1>1, <1>5 DEF Chunk, FramingTypeOK, LenBytes
    <2>2. CASE Overflows /\ debug
      <3>1. pc' = "Done" /\ result' = "Panicked" /\ UNCHANGED <<vecLen, targetPos>>
        BY <1>5, <2>2 DEF Headed, Finish
      <3>2. ~Sound
        BY <1>2, <2>2, WidthAssumption DEF Overflows, Sound, FullLen, TypeLen
      <3>3. FramingTypeOK' /\ CursorsInside'
        BY <1>1, <1>5, <2>1, <3>1, WireAssumption DEF FramingTypeOK, CursorsInside
      <3>4. Progress' /\ CutShort'
        BY <1>2, <2>1, <3>1, <3>2 DEF Progress, CutShort
      <3> QED BY <3>3, <3>4 DEF IInv
    <2>3. CASE ~(Overflows /\ debug) /\ ~PutHeader(AllocVec).ok
      <3>1. /\ pc' = "Done" /\ result' = "EncodeError"
            /\ vecLen' = AllocVec /\ targetPos' = PutHeader(AllocVec).pos
        BY <1>5, <2>3 DEF Headed, Finish
      <3>2. ~Sound /\ AllocVec \in 0 .. MaxU32 /\ PutHeader(AllocVec).pos \in 0 .. AllocVec
        BY <1>2, <2>3, PutHeaderFits
      <3>3. FramingTypeOK' /\ CursorsInside'
        BY <1>1, <1>5, <2>1, <3>1, <3>2, WidthAssumption, WireAssumption
        DEF FramingTypeOK, CursorsInside
      <3>4. Progress' /\ CutShort'
        BY <1>2, <2>1, <3>1, <3>2 DEF Progress, CutShort
      <3> QED BY <3>3, <3>4 DEF IInv
    <2>4. CASE ~(Overflows /\ debug) /\ PutHeader(AllocVec).ok
      <3>1. /\ vecLen' = AllocVec /\ targetPos' = PutHeader(AllocVec).pos
            /\ pc' = (IF AllocVec = PutHeader(AllocVec).pos THEN "Decode" ELSE "ReadBody")
            /\ result' = result
        BY <1>5, <2>4 DEF Headed
      <3>2. /\ Sound /\ AllocVec = FullLen /\ PutHeader(AllocVec).pos = TypeLen + LenBytes
            /\ AllocVec \in 0 .. MaxU32 /\ PutHeader(AllocVec).pos \in 0 .. AllocVec
        BY <1>2, <2>4, PutHeaderFits
      <3>3. FramingTypeOK' /\ CursorsInside'
        BY <1>1, <1>5, <2>1, <3>1, <3>2, WidthAssumption, WireAssumption
        DEF FramingTypeOK, CursorsInside
      <3>4. HeaderPut'
        BY <1>2, <3>1, <3>2 DEF HeaderPut
      <3>5. BodyLen' = specified_len' - LenBytes /\ BodyLen' \in Nat
        <4>1. /\ vecLen' = TypeLen + specified_len /\ targetPos' = TypeLen + LenBytes
              /\ TypeLen \in {0, 1} /\ LenBytes <= specified_len
          BY <3>1, <3>2 DEF FullLen, Sound, TypeLen
        <4> QED BY <1>1, <1>2, <2>1, <4>1 DEF BodyLen
      <3>6. (pc' = "Decode" /\ specified_len' = LenBytes) \/ (pc' = "ReadBody" /\ 0 < BodyLen')
        <4>1. /\ AllocVec = TypeLen + specified_len /\ TypeLen \in {0, 1}
              /\ PutHeader(AllocVec).pos = TypeLen + LenBytes /\ LenBytes <= specified_len
          BY <3>2 DEF FullLen, Sound, TypeLen
        <4> QED BY <1>1, <1>2, <2>1, <3>1, <3>5, <4>1
      <3>7. Progress' /\ CutShort'
        BY <1>1, <1>5, <2>1, <3>1, <3>4, <3>6 DEF Progress, CutShort
      <3> QED BY <3>3, <3>7 DEF IInv
    <2> QED BY <2>2, <2>3, <2>4
  <1> QED BY <1>3, <1>4, <1>5 DEF ReadLen

\* Another piece of the body, or its end.
LEMMA ReadBodyKeeps ==
    ASSUME IInv, ReadBody
    PROVE  IInv'
  <1>1. /\ pc = "ReadBody" /\ result = "Running" /\ HeaderPut
        /\ consumed = LenBytes + filled /\ filled < BodyLen /\ sourcePos = 0
        /\ UNCHANGED <<typed, debug, specified_len, arrived, eof, vecLen, targetPos, sourcePos>>
        /\ FramingTypeOK /\ CursorsInside
    BY DEF ReadBody, IInv, Progress
  <1>2. HeaderPut' /\ BodyLen' = BodyLen
    BY <1>1 DEF HeaderPut, Sound, FullLen, TypeLen, BodyLen
  <1>3. BodyLen = specified_len - LenBytes /\ BodyLen \in Nat
    BY <1>1, BodyIsRest
  <1>4. CASE Cut(BodyLen) /\ Finish("IoError") /\ UNCHANGED <<consumed, filled>>
    <2>1. FramingTypeOK' /\ CursorsInside'
      BY <1>1, <1>4 DEF FramingTypeOK, CursorsInside, Finish
    <2>2. Progress'
      BY <1>2, <1>4 DEF Progress, Finish
    <2>3. consumed < specified_len
      BY <1>1, <1>3 DEF FramingTypeOK, LenBytes
    <2>4. CutShort'
      BY <1>1, <1>4, <2>3 DEF CutShort, Cut
    <2> QED BY <2>1, <2>2, <2>4 DEF IInv
  <1>5. ASSUME NEW k \in Chunk(BodyLen), consumed' = consumed + k, filled' = filled + k,
               pc' = (IF filled + k = BodyLen THEN "Decode" ELSE pc), result' = result
        PROVE  IInv'
    <2>1. k \in Nat /\ consumed + k <= arrived /\ filled + k <= BodyLen
      BY <1>1, <1>3, <1>5 DEF Chunk, FramingTypeOK
    <2>2. FramingTypeOK' /\ CursorsInside'
      BY <1>1, <1>5, <2>1, WireAssumption DEF FramingTypeOK, CursorsInside
    <2>3. /\ consumed' = LenBytes + filled'
          /\ (pc' = "Decode" /\ consumed' = specified_len') \/ (pc' = "ReadBody" /\ filled' < BodyLen')
      BY <1>1, <1>2, <1>3, <1>5, <2>1 DEF FramingTypeOK, LenBytes
    <2>4. Progress' /\ CutShort'
      BY <1>1, <1>2, <1>5, <2>3 DEF Progress, CutShort
    <2> QED BY <2>2, <2>4 DEF IInv
  <1> QED BY <1>4, <1>5 DEF ReadBody

\* decode_body moves only the cursor of BytesSource, and inside the body.
LEMMA DecodeKeeps ==
    ASSUME IInv, Decode
    PROVE  IInv'
  <1>1. /\ pc = "Decode" /\ result = "Running" /\ HeaderPut /\ consumed = specified_len
        /\ UNCHANGED <<typed, debug, specified_len, arrived, eof, consumed, filled, vecLen, targetPos>>
        /\ FramingTypeOK /\ CursorsInside
    BY DEF Decode, TakeBounded, TakeUntilNull, Decoded, IInv, Progress
  <1>2. BodyLen \in Nat /\ BodyLen = vecLen - targetPos /\ sourcePos <= BodyLen /\ sourcePos \in Nat
    BY <1>1, BodyIsRest DEF BodyLen, CursorsInside, FramingTypeOK
  <1>3. HeaderPut' /\ BodyLen' = BodyLen
    BY <1>1 DEF HeaderPut, Sound, FullLen, TypeLen, BodyLen
  <1>4. sourcePos' \in Nat /\ sourcePos' <= BodyLen
    <2>1. ASSUME NEW n \in TakeSizes, TakeBounded(n) PROVE sourcePos' \in Nat /\ sourcePos' <= BodyLen
      BY <1>2, <2>1, WidthAssumption DEF TakeBounded, Advance, Fits, TakeSizes
    <2>2. CASE TakeUntilNull
      BY <1>2, <2>2 DEF TakeUntilNull
    <2>3. CASE Decoded
      BY <1>2, <2>3 DEF Decoded
    <2> QED BY <2>1, <2>2, <2>3 DEF Decode
  <1>5. \/ pc' = "Decode" /\ result' = "Running"
        \/ pc' = "Done" /\ result' \in {"Ok", "DecodeError", "LeftUndecoded"}
    BY <1>1 DEF Decode, TakeBounded, TakeUntilNull, Decoded, Finish
  <1>6. FramingTypeOK'
    BY <1>1, <1>4, <1>5 DEF FramingTypeOK
  <1>7. CursorsInside'
    BY <1>1, <1>2, <1>4 DEF CursorsInside
  <1>8. Progress' /\ CutShort'
    BY <1>1, <1>3, <1>5 DEF Progress, CutShort
  <1> QED BY <1>6, <1>7, <1>8 DEF IInv

\* Every step of read_msg and of its peer keeps the invariant.
LEMMA NextKeeps == IInv /\ [Next]_vars => IInv'
  <1> SUFFICES ASSUME IInv, [Next]_vars PROVE IInv'
    OBVIOUS
  <1>1. CASE UNCHANGED vars
    BY <1>1
    DEF vars, IInv, FramingTypeOK, CursorsInside, Progress, CutShort, HeaderPut, Sound, FullLen,
        TypeLen, BodyLen
  <1>2. CASE Next
    BY <1>2, PeerKeeps, ReadLenKeeps, ReadBodyKeeps, DecodeKeeps DEF Next, Read
  <1> QED BY <1>1, <1>2

\* Always, from Init and NextKeeps.
LEMMA Invariant == Spec => []IInv
  BY InitHolds, NextKeeps, PTL DEF Spec

-----------------------------------------------------------------------------
(***************************************************************************)
(* The buffers and cursors of read_msg keep their types; in particular the *)
(* length of its Vec is a u32 whatever length field the peer sends.        *)
(***************************************************************************)
THEOREM FramingTypes == Spec => []FramingTypeOK
  <1>1. IInv => FramingTypeOK
    BY DEF IInv
  <1> QED BY <1>1, Invariant, PTL

(***************************************************************************)
(* read_msg leaves the stream at the first byte after the message, however *)
(* the bytes arrive and whatever decode_body makes of them.                *)
(***************************************************************************)
THEOREM LeavesAligned == Spec => []Aligned
  <1>1. IInv => Aligned
    BY DEF IInv, Progress, HeaderPut, FullLen, Aligned
  <1> QED BY <1>1, Invariant, PTL

(***************************************************************************)
(* The cursors of BytesTarget and BytesSource stay inside their slices, so *)
(* that rest(), left() and the sub-slices of take_bounded do not panic.    *)
(***************************************************************************)
THEOREM CursorsStayInside == Spec => []CursorsInside
  <1>1. IInv => CursorsInside
    BY DEF IInv
  <1> QED BY <1>1, Invariant, PTL

(***************************************************************************)
(* alloc_vec and put_header refuse exactly the lengths that do not count   *)
(* themselves and, with a type byte, the largest one, and they do so       *)
(* before a byte of the body is read.                                      *)
(***************************************************************************)
THEOREM RefusedExactly == Spec => []Refused
  <1>1. ASSUME IInv PROVE Refused
    <2>1. /\ ~Sound <=> specified_len < LenBytes \/ (typed /\ specified_len = MaxU32)
          /\ consumed \in Nat /\ LenBytes \in Nat
      BY <1>1, Unsound, WireAssumption DEF IInv, FramingTypeOK, LenBytes
    <2>2. CASE result \in {"EncodeError", "Panicked"}
      BY <1>1, <2>1, <2>2 DEF IInv, Progress, Refused
    <2>3. CASE result \notin {"EncodeError", "Panicked"}
      <3>1. ~(pc = "Done" /\ consumed = LenBytes /\ ~Sound)
        BY <1>1, <2>1, <2>3 DEF IInv, Progress, HeaderPut, FramingTypeOK
      <3> QED BY <2>1, <2>3, <3>1 DEF Refused
    <2> QED BY <2>2, <2>3
  <1> QED BY <1>1, Invariant, PTL

(***************************************************************************)
(* read_msg fails with an IoError only for a message that really was cut,  *)
(* in its length field or in its body, however the bytes arrived.          *)
(***************************************************************************)
THEOREM CutOnlyShort == Spec => []CutOnlyIfShort
  <1>1. IInv => CutOnlyIfShort
    BY DEF IInv, CutShort, CutOnlyIfShort
  <1> QED BY <1>1, Invariant, PTL
=============================================================================
