--------------------------- MODULE ConveyorProofs ---------------------------
(***************************************************************************)
(* What holds of the conveyor whoever its peers are: facts about the table *)
(* of go(), and that every step keeps the types, given what is in hand at  *)
(* the await it starts from (InHand).  AnyPeersProofs and SessionProofs rest *)
(* on them.                                                                *)
(***************************************************************************)
EXTENDS Conveyor, SequenceTheorems, TLAPS

\* What the callback is told of, and what the conveyor holds.
Entry == [side : Side, msg : Msg, body : Byte \cup Body]
Hand == [side : Side, msg : Msg \cup {TlsResponse}, units : Seq(Unit), then : Then]

(***************************************************************************)
(* What is in hand at each await, as far as the types of the steps need    *)
(* it: what is written is there, and what follows the write is a place to  *)
(* go on from.                                                             *)
(***************************************************************************)
InHand ==
    /\ pc = "ReadMsg" =>
          /\ hand.msg \in Msg
          /\ hand.then \in State \cup {Same, Auth, First, FirstInTls, "Ok"}
          /\ hand.then \in {Same, Auth} => state \in State
    /\ pc = "Write" =>
          /\ hand.units # <<>>
          /\ hand.then \in State \cup Result \cup {"ReadTlsResponse", "SwitchFrontend"}
    /\ pc \in {"SwitchBackend", "AwaitBackend"} =>
          hand.units # <<>> /\ hand.then = "SwitchFrontend"
    /\ pc \in {"Select", "PollFrontend", "Parked"} => state \in State

-----------------------------------------------------------------------------
(***************************************************************************)
(* The vocabulary: facts about the tables, so that they need not be        *)
(* expanded again.                                                         *)
(***************************************************************************)

\* Every message type but Initial has one of the bytes of TypeByte (TYPE_BYTE_OPT).
LEMMA TypeByteType ==
    \A m \in Msg : IF m = "Initial" THEN TypeByteOf[m] = "" ELSE TypeByteOf[m] \in TypeByte
  <1>1. Msg = {"Authentication", "BackendKeyData", "Bind", "BindComplete", "CommandComplete",
               "DataRow", "EmptyQueryResponse", "ErrorResponse", "Execute", "GssResponse",
               "Initial", "NegotiateProtocolVersion", "NoticeResponse", "ParameterStatus",
               "Parse", "ParseComplete", "Password", "PortalSuspended", "Query",
               "ReadyForQuery", "RowDescription", "SaslInitialResponse", "SaslResponse",
               "Sync", "Terminate"}
    BY DEF Msg, TypeByteOf
  <1>2. /\ TypeByteOf["Authentication"] = "R" /\ TypeByteOf["BackendKeyData"] = "K"
        /\ TypeByteOf["Bind"] = "B" /\ TypeByteOf["BindComplete"] = "2"
        /\ TypeByteOf["CommandComplete"] = "C" /\ TypeByteOf["DataRow"] = "D"
        /\ TypeByteOf["EmptyQueryResponse"] = "I" /\ TypeByteOf["ErrorResponse"] = "E"
        /\ TypeByteOf["Execute"] = "E" /\ TypeByteOf["GssResponse"] = "p"
        /\ TypeByteOf["Initial"] = "" /\ TypeByteOf["NegotiateProtocolVersion"] = "v"
        /\ TypeByteOf["NoticeResponse"] = "N" /\ TypeByteOf["ParameterStatus"] = "S"
        /\ TypeByteOf["Parse"] = "P" /\ TypeByteOf["ParseComplete"] = "1"
        /\ TypeByteOf["Password"] = "p" /\ TypeByteOf["PortalSuspended"] = "s"
        /\ TypeByteOf["Query"] = "Q" /\ TypeByteOf["ReadyForQuery"] = "Z"
        /\ TypeByteOf["RowDescription"] = "T" /\ TypeByteOf["SaslInitialResponse"] = "p"
        /\ TypeByteOf["SaslResponse"] = "p" /\ TypeByteOf["Sync"] = "S"
        /\ TypeByteOf["Terminate"] = "X"
    BY DEF TypeByteOf
  <1>3. ASSUME NEW m \in Msg
        PROVE  IF m = "Initial" THEN TypeByteOf[m] = "" ELSE TypeByteOf[m] \in TypeByte
    BY <1>1, <1>2, ZenonT(60) DEF TypeByte
  <1> QED BY <1>3

\* The names that are used as messages are message types; TlsResponse is none.
LEMMA MsgFacts ==
    /\ {"Initial", "ErrorResponse"} \subseteq Msg
    /\ TlsResponse \notin Msg
    /\ TypeByteOf["ErrorResponse"] = "E"
    /\ "" \notin TypeByte
  BY DEF Msg, TypeByteOf, TlsResponse, TypeByte

\* The results, states and other names that "then" may hold do not overlap.
LEMMA NameFacts ==
    /\ {"ReadTlsResponse", "SwitchFrontend"} \cap (State \cup Result) = {}
    /\ {Same, Auth, First, FirstInTls} \cap (State \cup Result) = {}
    /\ State \cap Result = {}
    /\ {"Ok", "IoError", "HandshakeDisrupted", "UnknownType", "UnexpectedType", "Panicked",
        "TlsRequestedInsideTls", "Todo", "Unsupported"} \subseteq Result
    /\ "GotStartup" \in State
  BY DEF State, Result, Same, Auth, First, FirstInTls

\* What an arm of go()'s match may ask for.
LEMMA ArmsType ==
    \A a \in AllArms :
        a.msg \in Msg \ {"Initial"} /\ a.to \in State \cup {Same, Auth, "Ok"}
  BY DEF AllArms, BackendArms, FrontendArms, Arm, Msg, TypeByteOf, State, Same, Auth

\* After a message of the loop, go() is in a state of the loop or at its end.
LEMMA ContinuationInLoop ==
    ASSUME NEW to \in State \cup {Same, Auth, "Ok"}, NEW b, NEW st,
           to \in {Same, Auth} => st \in State
    PROVE  Continuation(to, b, st) \in State \cup Result
  <1>1. ProcessBackendAuthentication(b, st) \in State \cup Result
    BY DEF ProcessBackendAuthentication, State, Result
  <1>2. to \notin {First, FirstInTls}
    BY NameFacts DEF Same, Auth, First, FirstInTls
  <1> QED BY <1>1, <1>2, NameFacts DEF Continuation, Same, Auth, First, FirstInTls

\* After an Initial, only a request for TLS outside of TLS leads to ReadTlsResponse.
LEMMA ContinuationOfInitial ==
    ASSUME NEW to \in {First, FirstInTls}, NEW b, NEW st
    PROVE  /\ Continuation(to, b, st) \in State \cup Result \cup {"ReadTlsResponse"}
           /\ Continuation(to, b, st) = "ReadTlsResponse" <=> to = First /\ b = "TLS"
  BY NameFacts DEF Continuation, OnInitial, First, FirstInTls, Same, Auth

\* A body of an Initial is one unit of its own, no type byte.
LEMMA UnitFacts ==
    /\ \A b \in Byte, e \in BOOLEAN : ByteUnit(b, e) \in Unit /\ ByteUnit(b, e).val = b
    /\ \A u \in Unit, e \in BOOLEAN :
         [u EXCEPT !.enc = e] \in Unit /\ [u EXCEPT !.enc = e].val = u.val
    /\ \A u \in Unit : u.val \in Byte \cup Body
  BY DEF Unit, ByteUnit, Quality

-----------------------------------------------------------------------------
(***************************************************************************)
(* Reading.                                                                *)
(***************************************************************************)

\* A unit that is read is a unit, and leaves a sequence of units.
LEMMA Popped ==
    ASSUME TypeOK, NEW s \in Side, inbox[s] # <<>>, Pop(s)
    PROVE  inbox' \in [Side -> Seq(Unit)] /\ Head(inbox[s]) \in Unit
  <1>1. inbox \in [Side -> Seq(Unit)] /\ inbox[s] \in Seq(Unit)
    BY DEF TypeOK
  <1>2. Tail(inbox[s]) \in Seq(Unit) /\ Head(inbox[s]) \in Unit
    BY <1>1, HeadTailProperties
  <1> QED BY <1>1, <1>2 DEF Pop

\* The type byte that is seen is the one that arrived, unless nobody knows it.
LEMMA HeadByteKnown ==
    ASSUME NEW s, HeadByte(s) \in TypeByte
    PROVE  Head(inbox[s]).val = HeadByte(s)
  <1>1. UnknownByte \notin TypeByte
    BY DEF UnknownByte, TypeByte
  <1> QED BY <1>1 DEF HeadByte

\* What Hold makes is a hand.
LEMMA HoldType ==
    ASSUME NEW s \in Side, NEW m \in Msg \cup {TlsResponse}, NEW us \in Seq(Unit),
           NEW then \in Then
    PROVE  Hold(s, m, us, then) \in Hand
  BY DEF Hold, Hand

\* A hand of at most one unit holds at most two after a read.
LEMMA OneMore ==
    ASSUME NEW n, NEW more, n = 0 \/ n = 1, more = n + 1
    PROVE  more <= 2
  OBVIOUS

-----------------------------------------------------------------------------
(***************************************************************************)
(* Every step keeps the types and InHand, whatever the peers did before.     *)
(***************************************************************************)

\* A step that ends go() keeps InHand; nothing is held then.
LEMMA InHandDone ==
    ASSUME pc' = "Done"
    PROVE  InHand'
  BY DEF InHand

\* The types after a step, from those of what it assigns.
LEMMA StepParts ==
    ASSUME TypeOK, pc' \in Pc, state' \in State \cup {NoState}, wrap' \in [Side -> Wrap],
           inbox' \in [Side -> Seq(Unit)], outbox' \in [Side -> Seq(Unit)], hand' \in Hand,
           told' \in Seq(Entry), result' \in Result \cup {Running}, eof' = eof
    PROVE  TypeOK'
  BY DEF TypeOK, Entry, Hand

\* The types, with the abbreviations.
LEMMA Parts ==
    ASSUME TypeOK
    PROVE  /\ pc \in Pc /\ state \in State \cup {NoState} /\ wrap \in [Side -> Wrap]
           /\ inbox \in [Side -> Seq(Unit)] /\ outbox \in [Side -> Seq(Unit)]
           /\ hand \in Hand /\ hand.side \in Side /\ hand.units \in Seq(Unit)
           /\ hand.msg \in Msg \cup {TlsResponse} /\ hand.then \in Then
           /\ result \in Result \cup {Running}
  BY DEF TypeOK, Entry, Hand

\* read_through! up to its write keeps the types.
LEMMA ReadMsgTypes ==
    ASSUME TypeOK, InHand, ReadMsg
    PROVE  TypeOK' /\ InHand'
  <1> DEFINE s == hand.side
             u == Head(inbox[s])
             got == Append(hand.units, u)
             then == Continuation(hand.then, u.val, state)
  <1>1. /\ hand.msg \in Msg
        /\ hand.then \in State \cup {Same, Auth, First, FirstInTls, "Ok"}
        /\ hand.then \in {Same, Auth} => state \in State
    BY DEF InHand, ReadMsg
  <1>2. UNCHANGED <<state, wrap, eof, outbox>>
    BY DEF ReadMsg
  <1>3. CASE Fails(s)
    <2>1. pc' = "Done" /\ result' = Failure(s) /\ told' = <<>> /\ UNCHANGED <<inbox, hand>>
      BY <1>3 DEF ReadMsg, Finish
    <2>2. Failure(s) \in Result
      BY NameFacts DEF Failure
    <2> QED BY <1>2, <2>1, <2>2, Parts, StepParts, InHandDone, EmptySeq, "Done" \in Pc DEF Pc
  <1>4. CASE ~Fails(s)
    <2>1. inbox[s] # <<>> /\ Pop(s)
      BY <1>4 DEF ReadMsg, Fails
    <2>2. inbox' \in [Side -> Seq(Unit)] /\ u \in Unit
      BY <2>1, Parts, Popped
    <2>3. got \in Seq(Unit) /\ got # <<>>
      <3>1. hand.units \in Seq(Unit)
        BY Parts
      <3> HIDE DEF u
      <3> QED BY <2>2, <3>1, AppendProperties
    <2>4. PICK r \in Outcomes(u, hand.msg) :
            IF r = "ok" THEN
                /\ pc' = "Write"
                /\ hand' = Hold(s, hand.msg, got, then)
                /\ told' = <<Message(s, hand.msg, u.val)>>
                /\ UNCHANGED result
            ELSE
                /\ Finish(r)
                /\ hand' = [hand EXCEPT !.units = got]
                /\ told' = <<>>
      BY <1>4 DEF ReadMsg
    <2>5. CASE r = "ok"
      <3>1. then \in State \cup Result \cup {"ReadTlsResponse"}
        <4>1. CASE hand.then \in {First, FirstInTls}
          BY <4>1, ContinuationOfInitial
        <4>2. CASE hand.then \notin {First, FirstInTls}
          BY <1>1, <4>2, ContinuationInLoop
        <4> QED BY <4>1, <4>2
      <3>2. Message(s, hand.msg, u.val) \in Entry
        BY <1>1, <2>2, Parts, UnitFacts DEF Message, Entry
      <3>3. /\ pc' = "Write" /\ hand' = Hold(s, hand.msg, got, then) /\ result' = result
            /\ told' = <<Message(s, hand.msg, u.val)>>
        BY <2>4, <2>5
      <3> HIDE DEF then, got, u
      <3>4. hand' \in Hand /\ hand'.units = got /\ hand'.then = then
        BY <1>1, <2>3, <3>1, <3>3, Parts DEF Hold, Hand, Then
      <3>5. told' \in Seq(Entry)
        BY <3>2, <3>3
      <3>6. TypeOK'
        BY <1>2, <2>2, <3>3, <3>4, <3>5, Parts, StepParts, "Write" \in Pc DEF Pc
      <3> QED BY <2>3, <3>1, <3>3, <3>4, <3>6 DEF InHand
    <2>6. CASE r # "ok"
      <3>1. pc' = "Done" /\ result' = r /\ hand' = [hand EXCEPT !.units = got] /\ told' = <<>>
        BY <2>4, <2>6 DEF Finish
      <3>2. r \in {"EncodeError", "Panicked", "DecodeError", "LeftUndecoded"}
        BY <2>6, Zenon DEF Outcomes
      <3>3. r \in Result
        BY <3>2 DEF Result
      <3> HIDE DEF got, u
      <3>4. hand' \in Hand
        BY <3>1, <2>3, Parts DEF Hand
      <3> QED BY <1>2, <2>2, <3>1, <3>3, <3>4, Parts, StepParts, InHandDone, EmptySeq,
                 "Done" \in Pc DEF Pc
    <2> QED BY <2>5, <2>6
  <1> QED BY <1>3, <1>4

\* put_header writes a type byte or nothing.
LEMMA HeaderType ==
    ASSUME NEW m \in Msg, NEW enc \in BOOLEAN
    PROVE  Header(m, enc) \in Seq(Unit)
  <1>1. CASE m = "Initial"
    <2>1. Header(m, enc) = <<>>
      BY <1>1, TypeByteType DEF Header
    <2> QED BY <2>1, EmptySeq
  <1>2. CASE m # "Initial"
    <2>1. TypeByteOf[m] \in TypeByte /\ TypeByteOf[m] # ""
      BY <1>2, TypeByteType, MsgFacts
    <2>2. ByteUnit(TypeByteOf[m], enc) \in Unit
      BY <2>1, UnitFacts DEF Byte
    <2>3. Header(m, enc) = <<ByteUnit(TypeByteOf[m], enc)>>
      BY <2>1 DEF Header
    <2> QED BY <2>2, <2>3
  <1> QED BY <1>1, <1>2

\* What is written for what is in hand are units.
LEMMA OutgoingType ==
    ASSUME TypeOK, hand.units # <<>>, NEW enc \in BOOLEAN
    PROVE  Outgoing(hand, enc) \in Seq(Unit)
  <1>1. CASE hand.msg = TlsResponse
    <2>1. ByteUnit(TLS_SUPPORTED, enc) \in Unit
      BY UnitFacts DEF Byte, TypeByte, TLS_SUPPORTED
    <2> QED BY <1>1, <2>1 DEF Outgoing
  <1>2. CASE hand.msg # TlsResponse
    <2>1. hand.msg \in Msg /\ hand.units \in Seq(Unit)
      BY <1>2, Parts
    <2>2. Header(hand.msg, enc) \in Seq(Unit)
      BY <2>1, HeaderType
    <2>3. hand.units[Len(hand.units)] \in Unit
      BY <2>1
    <2>4. [hand.units[Len(hand.units)] EXCEPT !.enc = enc] \in Unit
      BY <2>3, UnitFacts
    <2> DEFINE last == [hand.units[Len(hand.units)] EXCEPT !.enc = enc]
    <2> HIDE DEF last
    <2>5. <<last>> \in Seq(Unit)
      BY <2>4 DEF last
    <2>6. Outgoing(hand, enc) = Header(hand.msg, enc) \o <<last>>
      BY <1>2 DEF Outgoing, last
    <2> QED BY <2>2, <2>5, <2>6, ConcatProperties
  <1> QED BY <1>1, <1>2

\* An outbox that is added to is a sequence of units.
LEMMA OutboxType ==
    ASSUME TypeOK, NEW p \in Side, NEW us \in Seq(Unit),
           outbox' = [outbox EXCEPT ![p] = @ \o us]
    PROVE  outbox' \in [Side -> Seq(Unit)]
  <1>1. outbox \in [Side -> Seq(Unit)] /\ outbox[p] \in Seq(Unit)
    BY Parts
  <1>2. outbox[p] \o us \in Seq(Unit)
    BY <1>1, ConcatProperties
  <1> QED BY <1>1, <1>2

\* write_frontend and write_backend keep the types.
LEMMA WriteTypes ==
    ASSUME TypeOK, InHand, Write
    PROVE  TypeOK' /\ InHand'
  <1> DEFINE p == Peer(hand.side)
             enc == wrap[p] = "Tls"
             out == Outgoing(hand, enc)
  <1>1. /\ hand.units # <<>>
        /\ hand.then \in State \cup Result \cup {"ReadTlsResponse", "SwitchFrontend"}
    BY DEF InHand, Write
  <1>2. told' = <<>> /\ UNCHANGED <<wrap, inbox, eof>>
    BY DEF Write
  <1>3. p \in Side
    BY Parts DEF Peer, Side
  <1>4. out \in Seq(Unit)
    <2>1. enc \in BOOLEAN
      OBVIOUS
    <2> QED BY <1>1, <2>1, OutgoingType
  <1>5. CASE Disrupted(p)
    <2>1. Finish("HandshakeDisrupted") /\ UNCHANGED <<state, outbox, hand>>
      BY <1>5 DEF Write
    <2> QED BY <1>2, <2>1, NameFacts, Parts, StepParts, InHandDone, EmptySeq, "Done" \in Pc
            DEF Pc, Finish
  <1>6. CASE Written
    <2>1. outbox' = [outbox EXCEPT ![p] = @ \o out] /\ hand' = [hand EXCEPT !.units = <<>>]
      BY <1>6 DEF Written
    <2> HIDE DEF out
    <2>2. outbox' \in [Side -> Seq(Unit)]
      BY <1>3, <1>4, <2>1, OutboxType
    <2>3. hand' \in Hand
      BY <2>1, Parts, EmptySeq DEF Hand
    <2>4. CASE hand.then \in State
      <3>1. pc' = "Select" /\ state' = hand.then /\ result' = result
        BY <1>6, <2>4 DEF Written
      <3>2. TypeOK'
        BY <1>2, <2>2, <2>3, <2>4, <3>1, Parts, StepParts, EmptySeq, "Select" \in Pc DEF Pc
      <3> QED BY <2>4, <3>1, <3>2 DEF InHand
    <2>5. CASE hand.then \in Result
      <3>1. hand.then \notin State
        BY <2>5, NameFacts
      <3>2. pc' = "Done" /\ result' = hand.then /\ state' = state
        BY <1>6, <2>5, <3>1 DEF Written, Finish
      <3> QED BY <1>2, <2>2, <2>3, <2>5, <3>2, Parts, StepParts, InHandDone, EmptySeq,
                 "Done" \in Pc DEF Pc
    <2>6. CASE hand.then \in {"ReadTlsResponse", "SwitchFrontend"}
      <3>1. hand.then \notin State \cup Result
        BY <2>6, NameFacts
      <3>2. pc' = hand.then /\ state' = state /\ result' = result
        BY <1>6, <3>1 DEF Written
      <3>3. pc' \in {"ReadTlsResponse", "SwitchFrontend"} /\ pc' \in Pc
        BY <2>6, <3>2 DEF Pc
      <3>4. TypeOK'
        BY <1>2, <2>2, <2>3, <3>2, <3>3, Parts, StepParts, EmptySeq
      <3> QED BY <3>3, <3>4 DEF InHand
    <2> QED BY <1>1, <2>4, <2>5, <2>6
  <1>7. CASE WriteFails
    <2>1. /\ pc' = "Done" /\ result' = "IoError" /\ state' = state
          /\ \E k \in 0 .. Len(out) - 1 :
               /\ outbox' = [outbox EXCEPT ![p] = @ \o SubSeq(out, 1, k)]
               /\ hand' = [hand EXCEPT !.units = SubSeq(@, k + 1, Len(@))]
      BY <1>7 DEF WriteFails, Finish
    <2> HIDE DEF out
    <2>2. PICK k \in 0 .. Len(out) - 1 :
               /\ outbox' = [outbox EXCEPT ![p] = @ \o SubSeq(out, 1, k)]
               /\ hand' = [hand EXCEPT !.units = SubSeq(@, k + 1, Len(@))]
      BY <2>1
    <2>3. SubSeq(out, 1, k) \in Seq(Unit)
      BY <1>4
    <2>4. SubSeq(hand.units, k + 1, Len(hand.units)) \in Seq(Unit)
      <3>1. hand.units \in Seq(Unit) /\ k \in Nat
        BY <1>4, Parts
      <3> QED BY <3>1
    <2>5. outbox' \in [Side -> Seq(Unit)]
      BY <1>3, <2>2, <2>3, OutboxType
    <2>6. hand' \in Hand
      <3> DEFINE rest == SubSeq(hand.units, k + 1, Len(hand.units))
      <3>1. hand' = [hand EXCEPT !.units = rest] /\ rest \in Seq(Unit)
        BY <2>2, <2>4
      <3> HIDE DEF rest
      <3> QED BY <3>1, Parts DEF Hand
    <2> QED BY <1>2, <2>1, <2>5, <2>6, NameFacts, Parts, StepParts, InHandDone, EmptySeq,
               "Done" \in Pc DEF Pc
  <1> QED BY <1>5, <1>6, <1>7 DEF Write

\* A byte that is read can be taken in hand.
LEMMA ByteInHand ==
    ASSUME TypeOK, NEW s \in Side, inbox[s] # <<>>, Pop(s)
    PROVE  /\ inbox' \in [Side -> Seq(Unit)]
           /\ <<Head(inbox[s])>> \in Seq(Unit) /\ <<Head(inbox[s])>> # <<>>
           /\ \A m \in Msg \cup {TlsResponse}, then \in Then :
                Hold(s, m, <<Head(inbox[s])>>, then) \in Hand
           /\ [hand EXCEPT !.side = s, !.units = <<Head(inbox[s])>>] \in Hand
  <1> DEFINE byte == <<Head(inbox[s])>>
  <1>1. inbox' \in [Side -> Seq(Unit)] /\ Head(inbox[s]) \in Unit
    BY Popped
  <1>2. byte \in Seq(Unit) /\ byte # <<>>
    BY <1>1
  <1> HIDE DEF byte
  <1>3. \A m \in Msg \cup {TlsResponse}, then \in Then : Hold(s, m, byte, then) \in Hand
    BY <1>2, HoldType
  <1>4. [hand EXCEPT !.side = s, !.units = byte] \in Hand
    BY <1>2, Parts DEF Hand
  <1> QED BY <1>1, <1>2, <1>3, <1>4 DEF byte

\* The answer to a request for TLS keeps the types.
LEMMA ReadTlsResponseTypes ==
    ASSUME TypeOK, InHand, ReadTlsResponse
    PROVE  TypeOK' /\ InHand'
  <1> DEFINE b == HeadByte("Backend")
             byte == <<Head(inbox["Backend"])>>
  <1>1. told' = <<>> /\ UNCHANGED <<state, wrap, eof, outbox>>
    BY DEF ReadTlsResponse
  <1>2. CASE Fails("Backend")
    <2>1. pc' = "Done" /\ result' = Failure("Backend") /\ UNCHANGED <<inbox, hand>>
      BY <1>2 DEF ReadTlsResponse, Finish
    <2>2. Failure("Backend") \in Result
      BY NameFacts DEF Failure
    <2> QED BY <1>1, <2>1, <2>2, Parts, StepParts, InHandDone, EmptySeq, "Done" \in Pc DEF Pc
  <1>3. CASE ~Fails("Backend")
    <2>1. /\ inbox["Backend"] # <<>> /\ Pop("Backend")
          /\ \/ /\ pc' \in {"Write", "SwitchBackend"}
                /\ hand' = Hold("Backend", TlsResponse, byte, "SwitchFrontend")
                /\ result' = result
             \/ /\ pc' = "ReadMsg"
                /\ hand' = Hold("Backend", "ErrorResponse", byte, "Ok")
                /\ result' = result
             \/ /\ Finish("UnknownType")
                /\ hand' = [hand EXCEPT !.side = "Backend", !.units = byte]
      <3>1. TLS_NOT_SUPPORTED # TLS_SUPPORTED
        BY DEF TLS_NOT_SUPPORTED, TLS_SUPPORTED
      <3>2. CASE b = TLS_NOT_SUPPORTED
        BY <1>3, <3>2, MsgFacts
           DEF ReadTlsResponse, Fails, TLS_NOT_SUPPORTED, TLS_SUPPORTED
      <3>3. CASE b = TLS_SUPPORTED
        BY <1>3, <3>3, MsgFacts
           DEF ReadTlsResponse, Fails, TLS_NOT_SUPPORTED, TLS_SUPPORTED
      <3>4. CASE b = "E"
        BY <1>3, <3>4, MsgFacts
           DEF ReadTlsResponse, Fails, TLS_NOT_SUPPORTED, TLS_SUPPORTED
      <3>5. CASE b \notin {TLS_NOT_SUPPORTED, TLS_SUPPORTED, "E"}
        BY <1>3, <3>5, MsgFacts DEF ReadTlsResponse, Fails
      <3> QED BY <3>2, <3>3, <3>4, <3>5
    <2>2. /\ inbox' \in [Side -> Seq(Unit)] /\ byte # <<>>
          /\ Hold("Backend", TlsResponse, byte, "SwitchFrontend") \in Hand
          /\ Hold("Backend", "ErrorResponse", byte, "Ok") \in Hand
          /\ [hand EXCEPT !.side = "Backend", !.units = byte] \in Hand
      BY <2>1, ByteInHand, MsgFacts, NameFacts DEF Side, Then
    <2> HIDE DEF byte
    <2>3. CASE /\ pc' \in {"Write", "SwitchBackend"}
               /\ hand' = Hold("Backend", TlsResponse, byte, "SwitchFrontend")
               /\ result' = result
      <3>1. TypeOK'
        BY <1>1, <2>2, <2>3, Parts, StepParts, EmptySeq DEF Pc
      <3>2. hand'.units # <<>> /\ hand'.then = "SwitchFrontend"
        BY <2>2, <2>3 DEF Hold
      <3> QED BY <2>3, <3>1, <3>2 DEF InHand
    <2>4. CASE /\ pc' = "ReadMsg"
               /\ hand' = Hold("Backend", "ErrorResponse", byte, "Ok")
               /\ result' = result
      <3>1. TypeOK'
        BY <1>1, <2>2, <2>4, Parts, StepParts, EmptySeq DEF Pc
      <3>2. hand'.msg = "ErrorResponse" /\ hand'.then = "Ok"
        BY <2>4 DEF Hold
      <3>3. hand'.then \notin {Same, Auth}
        BY <3>2 DEF Same, Auth
      <3> QED BY <2>4, <3>1, <3>2, <3>3, MsgFacts DEF InHand
    <2>5. CASE /\ Finish("UnknownType")
               /\ hand' = [hand EXCEPT !.side = "Backend", !.units = byte]
      BY <1>1, <2>2, <2>5, NameFacts, Parts, StepParts, InHandDone, EmptySeq, "Done" \in Pc
      DEF Pc, Finish
    <2> QED BY <2>1, <2>3, <2>4, <2>5
  <1> QED BY <1>2, <1>3

\* switch_to_tls up to its await keeps the types.
LEMMA SwitchToTlsTypes ==
    ASSUME TypeOK, InHand, NEW s \in Side, SwitchToTls(s)
    PROVE  TypeOK' /\ InHand'
  <1>1. /\ told' = <<>> /\ UNCHANGED <<state, inbox, eof, outbox, hand>>
        /\ pc = (IF s = "Backend" THEN "SwitchBackend" ELSE "SwitchFrontend")
    BY DEF SwitchToTls
  <1>2. CASE wrap[s] = "Plain"
    <2>1. /\ wrap' = [wrap EXCEPT ![s] = "TlsHandshake"] /\ result' = result
          /\ pc' = IF s = "Backend" THEN "AwaitBackend" ELSE "AwaitFrontend"
      BY <1>2 DEF SwitchToTls
    <2>2. wrap' \in [Side -> Wrap] /\ pc' \in Pc
      BY <2>1, Parts DEF Wrap, Pc
    <2>3. TypeOK'
      BY <1>1, <2>1, <2>2, Parts, StepParts, EmptySeq
    <2>4. InHand'
      BY <1>1, <2>1 DEF InHand, Side
    <2> QED BY <2>3, <2>4
  <1>3. CASE wrap[s] # "Plain"
    <2>1. Finish("HandshakeDisrupted") /\ wrap' = wrap
      BY <1>3 DEF SwitchToTls
    <2> QED BY <1>1, <2>1, NameFacts, Parts, StepParts, InHandDone, EmptySeq, "Done" \in Pc
            DEF Pc, Finish
  <1> QED BY <1>2, <1>3

\* The end of a handshake keeps the types.
LEMMA AwaitTlsTypes ==
    ASSUME TypeOK, InHand, NEW s \in Side, AwaitTls(s)
    PROVE  TypeOK' /\ InHand'
  <1>1. /\ told' = <<>> /\ UNCHANGED <<state, inbox, eof, outbox>>
        /\ pc = (IF s = "Backend" THEN "AwaitBackend" ELSE "AwaitFrontend")
    BY DEF AwaitTls
  <1>2. [wrap EXCEPT ![s] = "Tls"] \in [Side -> Wrap]
    BY Parts DEF Wrap
  <1>3. CASE /\ pc' = "Done" /\ result' \in {"Panicked", "HandshakeDisrupted"} /\ hand' = hand
             /\ wrap' = wrap \/ wrap' = [wrap EXCEPT ![s] = "Tls"]
    BY <1>1, <1>2, <1>3, NameFacts, Parts, StepParts, InHandDone, EmptySeq DEF Pc
  <1>4. CASE /\ wrap' = [wrap EXCEPT ![s] = "Tls"] /\ s = "Backend" /\ pc' = "Write"
             /\ UNCHANGED <<hand, result>>
    <2>1. TypeOK'
      BY <1>1, <1>2, <1>4, Parts, StepParts, EmptySeq DEF Pc
    <2> QED BY <1>1, <1>4, <2>1 DEF InHand
  <1>5. CASE /\ wrap' = [wrap EXCEPT ![s] = "Tls"] /\ pc' = "ReadMsg" /\ result' = result
             /\ hand' = Hold("Frontend", "Initial", <<>>, FirstInTls)
    <2>1. hand' \in Hand
      BY <1>5, HoldType, EmptySeq, MsgFacts DEF Side, Then
    <2>2. TypeOK'
      BY <1>1, <1>2, <1>5, <2>1, Parts, StepParts, EmptySeq DEF Pc
    <2>3. /\ hand'.msg = "Initial" /\ hand'.then = FirstInTls
          /\ hand'.then \notin {Same, Auth}
      BY <1>5 DEF Hold, FirstInTls, Same, Auth
    <2> QED BY <1>5, <2>2, <2>3, MsgFacts DEF InHand
  <1> QED BY <1>3, <1>4, <1>5 DEF AwaitTls, Finish

\* A poll of select keeps the types: a byte asks for a message, ends go(), or is not there.
LEMMA PollTypes ==
    ASSUME TypeOK, InHand, NEW s \in Side, NEW at \in {"Select", "PollFrontend"},
           NEW otherwise \in {"PollFrontend", "Parked"}, Poll(s, at, otherwise)
    PROVE  TypeOK' /\ InHand'
  <1> DEFINE b == HeadByte(s)
             byte == <<Head(inbox[s])>>
  <1>1. told' = <<>> /\ UNCHANGED <<state, wrap, eof, outbox>> /\ state \in State
    BY DEF Poll, InHand
  <1>2. CASE ~Readable(s)
    <2>1. pc' = otherwise /\ UNCHANGED <<inbox, hand, result>>
      BY <1>2 DEF Poll
    <2>2. TypeOK'
      BY <1>1, <2>1, Parts, StepParts, EmptySeq DEF Pc
    <2> QED BY <1>1, <2>1, <2>2 DEF InHand
  <1>3. CASE Readable(s) /\ Fails(s)
    <2>1. pc' = "Done" /\ result' = Failure(s) /\ UNCHANGED <<inbox, hand>>
      BY <1>3 DEF Poll, Dispatch, Finish
    <2>2. Failure(s) \in Result
      BY NameFacts DEF Failure
    <2> QED BY <1>1, <2>1, <2>2, Parts, StepParts, InHandDone, EmptySeq, "Done" \in Pc DEF Pc
  <1>4. CASE Readable(s) /\ ~Fails(s)
    <2>1. /\ inbox[s] # <<>> /\ Pop(s)
          /\ \/ /\ pc' = "Done" /\ result' \in {"UnexpectedType", "UnknownType"}
                /\ hand' = [hand EXCEPT !.side = s, !.units = byte]
             \/ /\ pc' = "ReadMsg" /\ result' = result
                /\ \E a \in Matching(s, b, state) : hand' = Hold(s, a.msg, byte, a.to)
      BY <1>4 DEF Poll, Dispatch, Fails, Finish
    <2>2. /\ inbox' \in [Side -> Seq(Unit)]
          /\ \A m \in Msg \cup {TlsResponse}, then \in Then : Hold(s, m, byte, then) \in Hand
          /\ [hand EXCEPT !.side = s, !.units = byte] \in Hand
      BY <2>1, ByteInHand
    <2> HIDE DEF byte, b
    <2>3. CASE /\ pc' = "Done" /\ result' \in {"UnexpectedType", "UnknownType"}
               /\ hand' = [hand EXCEPT !.side = s, !.units = byte]
      BY <1>1, <2>2, <2>3, NameFacts, Parts, StepParts, InHandDone, EmptySeq DEF Pc
    <2>4. CASE /\ pc' = "ReadMsg" /\ result' = result
               /\ \E a \in Matching(s, b, state) : hand' = Hold(s, a.msg, byte, a.to)
      <3>1. PICK a \in Matching(s, b, state) : hand' = Hold(s, a.msg, byte, a.to)
        BY <2>4
      <3>2. a.msg \in Msg /\ a.to \in State \cup {Same, Auth, "Ok"}
        BY ArmsType DEF Matching
      <3>3. hand' \in Hand
        BY <2>2, <3>1, <3>2, NameFacts DEF Then
      <3>4. hand'.msg = a.msg /\ hand'.then = a.to
        BY <3>1 DEF Hold
      <3>5. TypeOK'
        BY <1>1, <2>2, <2>4, <3>3, Parts, StepParts, EmptySeq DEF Pc
      <3> QED BY <1>1, <2>4, <3>2, <3>4, <3>5 DEF InHand
    <2> QED BY <2>1, <2>3, <2>4
  <1> QED BY <1>2, <1>3, <1>4

\* Whatever its peers sent and took, a step of the conveyor keeps the types.
LEMMA StepTypes ==
    ASSUME TypeOK, InHand, Step
    PROVE  TypeOK' /\ InHand'
  <1>1. CASE ReadMsg
    BY <1>1, ReadMsgTypes
  <1>2. CASE Write
    BY <1>2, WriteTypes
  <1>3. CASE ReadTlsResponse
    BY <1>3, ReadTlsResponseTypes
  <1>4. CASE \E s \in Side : SwitchToTls(s) \/ AwaitTls(s)
    BY <1>4, SwitchToTlsTypes, AwaitTlsTypes
  <1>5. CASE PollBackend
    BY <1>5, PollTypes DEF PollBackend, Side
  <1>6. CASE PollFrontend
    BY <1>6, PollTypes DEF PollFrontend, Side
  <1>7. CASE Wake
    <2>1. pc' = "Select" /\ told' = <<>> /\ state \in State
      BY <1>7 DEF Wake, InHand
    <2>2. UNCHANGED <<state, wrap, inbox, eof, outbox, hand, result>>
      BY <1>7 DEF Wake
    <2>3. TypeOK'
      BY <2>1, <2>2, Parts, StepParts, EmptySeq DEF Pc
    <2> QED BY <2>1, <2>2, <2>3 DEF InHand
  <1> QED BY <1>1, <1>2, <1>3, <1>4, <1>5, <1>6, <1>7 DEF Step

\* Conveyor::new is well typed.
LEMMA InitTypes ==
    ASSUME Init
    PROVE  TypeOK /\ InHand
  <1>1. hand \in Hand /\ hand.msg = "Initial" /\ hand.then = First
    BY HoldType, EmptySeq, MsgFacts DEF Init, Hold, Side, Then
  <1>2. TypeOK
    BY <1>1, EmptySeq DEF Init, TypeOK, Hand, Pc, Wrap
  <1>3. First \notin {Same, Auth}
    BY DEF First, Same, Auth
  <1> QED BY <1>1, <1>2, <1>3, MsgFacts DEF Init, InHand
=============================================================================
