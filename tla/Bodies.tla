------------------------------- MODULE Bodies -------------------------------
(***************************************************************************)
(* decode_body of every message type (msg/body/*.rs, msg/parts.rs): what   *)
(* is made of a body, byte by byte.  A type's body is a list of parts; the *)
(* decoders of the parts follow the code, and are compared with a grammar  *)
(* that says which byte strings encode which values.                       *)
(*                                                                         *)
(* Everything is scaled down: a byte has Base values, a u16 has U16 bytes  *)
(* and a u32 has U32 bytes, so that every value of each occurs.            *)
(***************************************************************************)
EXTENDS Integers, Sequences, SequencesExt, TLC

CONSTANTS
    Base, U16, U32,                   \* 256, 2 and 4 in the code
    MagicMajor, CancelMinor, TlsMinor,  \* 1234, 5678 and 5679
    StatusByte, FieldByte,            \* I, T, E; and the types of error and notice fields
    Tried,                            \* the message types to try
    Alphabet, MaxBytes                \* the bytes to try, and how many at most

ASSUME WidthsAssumption ==
    /\ Base \in Nat \ {0} /\ U16 \in Nat \ {0} /\ U32 \in Nat \ {0}
    /\ Base % 2 = 0  \* an i32 has a sign bit
    /\ "Authentication" \in Tried => Base ^ U32 > 13  \* its codes fit
    /\ StatusByte \cup FieldByte \cup {MagicMajor, CancelMinor, TlsMinor} \subseteq 1 .. Base - 1
    /\ Alphabet \subseteq 0 .. Base - 1 /\ MaxBytes \in Nat

VARIABLES
    msg,     \* the type whose decode_body is called
    bytes,   \* the body it is given
    verdict  \* what comes back

vars == <<msg, bytes, verdict>>

-----------------------------------------------------------------------------
(***************************************************************************)
(* The bodies, as lists of parts.  Vec has a count of the given width      *)
(* before its items; Many has a text before the other parts of each item,  *)
(* and ends with an empty one.                                             *)
(***************************************************************************)
Part(kind, width, of) == [kind |-> kind, width |-> width, of |-> of]

UInt(width) == Part("UInt", width, <<>>)
SInt(width) == Part("SInt", width, <<>>)
Salt == Part("Salt", U32, <<>>)
Text == Part("Text", 0, <<>>)
Format == Part("Format", U16, <<>>)
Value == Part("Value", U32, <<>>)
Status == Part("Status", 1, <<>>)
Rest == Part("Rest", 0, <<>>)
Fields == Part("Fields", 1, <<>>)
Vec(width, item) == Part("Vec", width, item)
Many(item) == Part("Many", 0, item)

Authentication == <<UInt(U32)>>
BackendKeyData == <<UInt(U32), UInt(U32)>>
Bind == <<Text, Text, Vec(U16, <<Format>>), Vec(U16, <<Value>>), Vec(U16, <<Format>>)>>
BindComplete == <<>>
CommandComplete == <<Text>>
DataRow == <<Vec(U16, <<Value>>)>>
EmptyQueryResponse == <<>>
ErrorResponse == <<Fields>>
Execute == <<Text, UInt(U32)>>
GssResponse == <<Rest>>
Initial == <<UInt(U16), UInt(U16)>>
NegotiateProtocolVersion == <<UInt(U32), Vec(U32, <<Text>>)>>
NoticeResponse == <<Fields>>
ParameterStatus == <<Text, Text>>
Parse == <<Text, Text, Vec(U16, <<UInt(U32)>>)>>
ParseComplete == <<>>
Password == <<Text>>
PortalSuspended == <<>>
Query == <<Text>>
ReadyForQuery == <<Status>>
Field == <<Text, UInt(U32), UInt(U16), UInt(U32), SInt(U16), SInt(U32), Format>>
RowDescription == <<Vec(U16, Field)>>
SaslInitialResponse == <<Text, Value>>
SaslResponse == <<Rest>>
Sync == <<>>
Terminate == <<>>

Layout == [
    Authentication |-> Authentication, BackendKeyData |-> BackendKeyData, Bind |-> Bind,
    BindComplete |-> BindComplete, CommandComplete |-> CommandComplete, DataRow |-> DataRow,
    EmptyQueryResponse |-> EmptyQueryResponse, ErrorResponse |-> ErrorResponse,
    Execute |-> Execute, GssResponse |-> GssResponse, Initial |-> Initial,
    NegotiateProtocolVersion |-> NegotiateProtocolVersion, NoticeResponse |-> NoticeResponse,
    ParameterStatus |-> ParameterStatus, Parse |-> Parse, ParseComplete |-> ParseComplete,
    Password |-> Password, PortalSuspended |-> PortalSuspended, Query |-> Query,
    ReadyForQuery |-> ReadyForQuery, RowDescription |-> RowDescription,
    SaslInitialResponse |-> SaslInitialResponse, SaslResponse |-> SaslResponse, Sync |-> Sync,
    Terminate |-> Terminate]

\* What follows the code of an Authentication: the salt of Md5Password (5), the data of
\* GssContinue (8), the mechanisms of Sasl (10), the data of SaslContinue and SaslFinal.
AfterCode == [c \in {0, 2, 3, 6, 7, 9} |-> <<>>] @@ (5 :> <<Salt>>) @@ (8 :> <<Rest>>)
             @@ (10 :> <<Many(<<>>)>>) @@ (11 :> <<Rest>>) @@ (12 :> <<Rest>>)

\* What follows the Version of an Initial: a Cancel, a TLS request, or a Startup.
AfterVersion(version) ==
    CASE version = <<MagicMajor, CancelMinor>> -> <<UInt(U32), UInt(U32)>>
      [] version = <<MagicMajor, TlsMinor>> -> <<>>
      [] OTHER -> <<Many(<<Text>>)>>

\* The first parts may be ones that decode_body does not know, and say what is to follow.
Recognised(m, v) == m = "Authentication" => v[1] \in DOMAIN AfterCode
After(m, v) == CASE m = "Authentication" -> AfterCode[v[1]]
                 [] m = "Initial" -> AfterVersion(v)
                 [] OTHER -> <<>>

-----------------------------------------------------------------------------
(***************************************************************************)
(* DecodeResult, with the position at which BytesSource is left.           *)
(***************************************************************************)
NoProblem == "NoProblem"
Ok(value, pos) == [problem |-> NoProblem, more |-> 0, value |-> value, pos |-> pos]
Err(problem, more, pos) == [problem |-> problem, more |-> more, value |-> <<>>, pos |-> pos]

\* The ? operator, and map.
AndThen(r, F(_, _)) == IF r.problem = NoProblem THEN F(r.value, r.pos) ELSE r
Map(r, F(_)) == IF r.problem = NoProblem THEN Ok(F(r.value), r.pos) ELSE r

\* Mistakes: the end of the slice is missed by one; the bytes that are left are not taken off
\* what is needed.
TakeBoundedPast(s, pos, needed) ==
    IF pos + needed <= Len(s) + 1 THEN Ok(SubSeq(s, pos + 1, Len(s)), pos + needed)
    ELSE Err("NeedMoreBytes", needed - (Len(s) - pos), Len(s))

TakeBoundedAll(s, pos, needed) ==
    IF pos + needed <= Len(s) THEN Ok(SubSeq(s, pos + 1, pos + needed), pos + needed)
    ELSE Err("NeedMoreBytes", needed, Len(s))

TakeBounded(s, pos, needed) ==
    IF pos + needed <= Len(s) THEN Ok(SubSeq(s, pos + 1, pos + needed), pos + needed)
    ELSE Err("NeedMoreBytes", needed - (Len(s) - pos), Len(s))

\* A mistake: the cursor is left on the 0-byte.
TakeUntilNullBefore(s, pos) ==
    LET null_pos == SelectInSubSeq(s, pos + 1, Len(s), LAMBDA b : b = 0)
    IN  IF null_pos = 0 THEN Err("NoNullByte", 0, Len(s))
        ELSE Ok(SubSeq(s, pos + 1, null_pos - 1), null_pos - 1)

TakeUntilNull(s, pos) ==
    LET null_pos == SelectInSubSeq(s, pos + 1, Len(s), LAMBDA b : b = 0)
    IN  IF null_pos = 0 THEN Err("NoNullByte", 0, Len(s))
        ELSE Ok(SubSeq(s, pos + 1, null_pos - 1), null_pos)

\* from_be_bytes, and the cast of a u16 or a u32 to the signed type of its width.
FromBeBytes(b) == FoldLeft(LAMBDA n, d : n * Base + d, 0, b)
TakeUInt(s, pos, width) == Map(TakeBounded(s, pos, width), FromBeBytes)
Signed(n, width) == IF 2 * n < Base ^ width THEN n ELSE n - Base ^ width

DecodeFormat(s, pos) ==
    AndThen(TakeUInt(s, pos, U16), LAMBDA x, p :
        CASE x = 0 -> Ok("Text", p) [] x = 1 -> Ok("Binary", p) [] OTHER -> Err("Unknown", 0, p))

\* A mistake: the length is not cast to i32.
DecodeValueUnsigned(s, pos) ==
    AndThen(TakeUInt(s, pos, U32), LAMBDA len, p :
        IF len = Base ^ U32 - 1 THEN Ok(<<>>, p) ELSE Map(TakeBounded(s, p, len), LAMBDA b : <<b>>))

\* Value::decode, and the data of a SaslInitialResponse: Null is <<>>, Bytes(b) is <<b>>.
DecodeValue(s, pos) ==
    AndThen(TakeUInt(s, pos, U32), LAMBDA x, p :
        LET len == Signed(x, U32)
        IN  CASE len = -1 -> Ok(<<>>, p)
              [] len >= 0 -> Map(TakeBounded(s, p, len), LAMBDA b : <<b>>)
              [] OTHER -> Err("Incorrect", 0, p))

DecodeStatus(s, pos) ==
    AndThen(TakeUInt(s, pos, 1), LAMBDA x, p :
        IF x \in StatusByte THEN Ok(x, p) ELSE Err("Unknown", 0, p))

\* read_struct_of_opt_fields!: a field that comes again replaces what came before.
RECURSIVE DecodeFields(_, _, _)
DecodeFields(s, pos, body) ==
    AndThen(TakeUInt(s, pos, 1), LAMBDA x, p :
        CASE x = 0 -> Ok(body, p)
          [] x \in FieldByte ->
                AndThen(TakeUntilNull(s, p),
                        LAMBDA v, q : DecodeFields(s, q, [body EXCEPT ![x] = <<v>>]))
          [] OTHER -> Err("Unknown", 0, p))

RECURSIVE Decode(_, _, _, _), DecodeVec(_, _, _, _, _), DecodeMany(_, _, _, _)

DecodePart(part, s, pos) ==
    CASE part.kind = "UInt" -> TakeUInt(s, pos, part.width)
      [] part.kind = "SInt" -> Map(TakeUInt(s, pos, part.width), LAMBDA n : Signed(n, part.width))
      [] part.kind = "Salt" -> TakeBounded(s, pos, part.width)
      [] part.kind = "Text" -> TakeUntilNull(s, pos)
      [] part.kind = "Format" -> DecodeFormat(s, pos)
      [] part.kind = "Value" -> DecodeValue(s, pos)
      [] part.kind = "Status" -> DecodeStatus(s, pos)
      [] part.kind = "Rest" -> TakeBounded(s, pos, Len(s) - pos)
      [] part.kind = "Fields" -> DecodeFields(s, pos, [f \in FieldByte |-> <<>>])
      [] part.kind = "Vec" -> AndThen(TakeUInt(s, pos, part.width),
                                      LAMBDA count, p : DecodeVec(part.of, count, s, p, <<>>))
      [] part.kind = "Many" -> DecodeMany(part.of, s, pos, <<>>)

\* Parts one after the other, the first problem ending it.
Decode(parts, s, pos, done) ==
    IF parts = <<>> THEN Ok(done, pos)
    ELSE AndThen(DecodePart(Head(parts), s, pos),
                 LAMBDA v, p : Decode(Tail(parts), s, p, Append(done, v)))

DecodeVec(item, count, s, pos, items) ==
    IF count = 0 THEN Ok(items, pos)
    ELSE AndThen(Decode(item, s, pos, <<>>),
                 LAMBDA v, p : DecodeVec(item, count - 1, s, p, Append(items, v)))

\* The loops of decode_sasl and StartupParam::decode_many.
DecodeMany(item, s, pos, items) ==
    AndThen(TakeUntilNull(s, pos), LAMBDA name, p :
        IF name = <<>> THEN Ok(items, p)
        ELSE AndThen(Decode(item, s, p, <<name>>),
                     LAMBDA v, q : DecodeMany(item, s, q, Append(items, v))))

DecodeBody(m, s) ==
    AndThen(Decode(Layout[m], s, 0, <<>>), LAMBDA v, p :
        IF Recognised(m, v) THEN Decode(After(m, v), s, p, v) ELSE Err("Unknown", 0, p))

\* A mistake: bytes that decode_body leaves are let pass.
ReadMsgLenient(m, s) == DecodeBody(m, s)

\* The end of read_msg: a body has to be used up; what left() counts is behind the cursor.
ReadMsg(m, s) ==
    LET r == DecodeBody(m, s)
    IN  IF r.problem = NoProblem /\ r.pos < Len(s) THEN Err("LeftUndecoded", 0, r.pos) ELSE r

-----------------------------------------------------------------------------
(***************************************************************************)
(* A body grows by a byte until it can only be refused.                    *)
(***************************************************************************)
Init ==
    /\ msg \in Tried
    /\ bytes = <<>>
    /\ verdict = ReadMsg(msg, <<>>)

Grow ==
    /\ verdict.problem \in {NoProblem, "NeedMoreBytes", "NoNullByte"}
    /\ Len(bytes) < MaxBytes
    /\ \E b \in Alphabet : bytes' = Append(bytes, b)
    /\ verdict' = ReadMsg(msg, bytes')
    /\ UNCHANGED msg

Spec == Init /\ [][Grow]_vars

-----------------------------------------------------------------------------
(***************************************************************************)
(* The grammar: all the encodings of up to n bytes, each with the value it *)
(* stands for, made from the values.                                       *)
(***************************************************************************)
ToBytes(k, width) == [i \in 1 .. width |-> (k \div Base ^ (width - i)) % Base]
Enc(b, v) == [b |-> b, v |-> v]
Empty == {Enc(<<>>, <<>>)}
MaxI32 == Base ^ U32 \div 2 - 1

RECURSIVE Encodings(_, _), Lists(_, _)

OfPart(part, n) ==
    LET w == part.width
        Texts == BoundedSeq(Alphabet \ {0}, n - 1)
    IN  CASE part.kind = "UInt" -> {Enc(ToBytes(k, w), k) : k \in 0 .. Base ^ w - 1}
          [] part.kind = "SInt" ->
                {Enc(ToBytes(k % Base ^ w, w), k) : k \in -(Base ^ w \div 2) .. Base ^ w \div 2 - 1}
          [] part.kind = "Salt" -> {Enc(b, b) : b \in TupleOf(Alphabet, w)}
          [] part.kind = "Text" -> {Enc(Append(t, 0), t) : t \in Texts}
          [] part.kind = "Format" -> {Enc(ToBytes(0, w), "Text"), Enc(ToBytes(1, w), "Binary")}
          [] part.kind = "Value" ->
                {Enc(ToBytes(Base ^ w - 1, w), <<>>)} \cup
                {Enc(ToBytes(Len(b), w) \o b, <<b>>) :
                    b \in UNION {TupleOf(Alphabet, k) : k \in {j \in 0 .. n - w : j <= MaxI32}}}
          [] part.kind = "Status" -> {Enc(<<x>>, x) : x \in StatusByte}
          [] part.kind = "Rest" -> {Enc(b, b) : b \in BoundedSeq(Alphabet, n)}
          [] part.kind = "Fields" ->
                {Enc(Append(e.b, 0),
                     [f \in FieldByte |->
                         LET last == SelectLastInSeq(e.v, LAMBDA x : x[1] = f)
                         IN  IF last = 0 THEN <<>> ELSE <<e.v[last][2]>>]) :
                    e \in Lists(<<Part("FieldType", 1, <<>>), Text>>, n - 1)}
          [] part.kind = "FieldType" -> {Enc(<<f>>, f) : f \in FieldByte}
          [] part.kind = "Vec" ->
                {Enc(ToBytes(Len(e.v), w) \o e.b, e.v) :
                    e \in {x \in Lists(part.of, n - w) : Len(x.v) < Base ^ w}}
          [] part.kind = "Many" ->
                {Enc(Append(e.b, 0), e.v) :
                    e \in {x \in Lists(<<Text>> \o part.of, n - 1) :
                               \A i \in DOMAIN x.v : x.v[i][1] # <<>>}}

\* One encoding after the other, no longer than n bytes together.
Joined(first, Then(_), n) ==
    UNION {{Enc(h.b \o t.b, <<h.v>> \o t.v) : t \in Then(n - Len(h.b))} :
               h \in {x \in first : Len(x.b) <= n /\ Range(x.b) \subseteq Alphabet}}

Encodings(parts, n) ==
    IF parts = <<>> THEN Empty
    ELSE Joined(OfPart(Head(parts), n), LAMBDA left : Encodings(Tail(parts), left), n)

\* Any number of items; each has a byte at least.
Lists(item, n) ==
    IF n = 0 THEN Empty
    ELSE Empty \cup Joined(Encodings(item, n), LAMBDA left : Lists(item, left), n)

Messages ==
    [m \in Tried |->
        UNION {{Enc(h.b \o t.b, h.v \o t.v) : t \in Encodings(After(m, h.v), MaxBytes - Len(h.b))} :
                   h \in {x \in Encodings(Layout[m], MaxBytes) : Recognised(m, x.v)}}]

\* The messages without their last k bytes.
Beginnings ==
    LET all == Messages
    IN  [m \in Tried |-> [k \in 0 .. MaxBytes |->
            {SubSeq(e.b, 1, Len(e.b) - k) : e \in {x \in all[m] : Len(x.b) >= k}}]]

-----------------------------------------------------------------------------
\* Type correctness of what a decoder gives back, its cursor within the body.
BodiesTypeOK ==
    /\ msg \in DOMAIN Layout
    /\ bytes \in Seq(0 .. Base - 1)
    /\ verdict.problem \in {NoProblem, "NeedMoreBytes", "NoNullByte", "Incorrect", "Unknown",
                            "LeftUndecoded"}
    /\ verdict.pos \in 0 .. Len(bytes)
    /\ verdict.more \in Nat

(***************************************************************************)
(* A body is accepted exactly if it encodes a value, and then that value,  *)
(* its only one, is what decode_body returns: the callback logs what was   *)
(* sent, although lengths, counts and terminators are the sender's.        *)
(***************************************************************************)
Exact ==
    IF verdict.problem = NoProblem THEN Enc(bytes, verdict.value) \in Messages[msg]
    ELSE bytes \notin Beginnings[msg][0]

(***************************************************************************)
(* A Problem tells what is wrong: Incorrect, Unknown or bytes left over    *)
(* mean that nothing that follows could mend the body; NeedMoreBytes(n),   *)
(* that no fewer than n more would, n being no negative length; and        *)
(* NoNullByte that at least one is missing.                                *)
(***************************************************************************)
Diagnosis ==
    LET missing == CASE verdict.problem = "NeedMoreBytes" -> verdict.more
                     [] verdict.problem = "NoNullByte" -> 1
                     [] verdict.problem = NoProblem -> 0
                     [] OTHER -> MaxBytes + 1
    IN  /\ \A k \in 0 .. MaxBytes : k < missing => bytes \notin Beginnings[msg][k]
        /\ verdict.more <= MaxI32
        /\ verdict.problem = "NeedMoreBytes" => verdict.more > 0
=============================================================================
