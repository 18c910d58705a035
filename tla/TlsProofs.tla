----------------------------- MODULE TlsProofs ------------------------------
(***************************************************************************)
(* Proofs about TLS in AnyPeers, for every choice of what the peers say:   *)
(* no stream is touched while its handshake is under way, and what goes    *)
(* over the wire is encrypted exactly as agreed.  Both rest on the variant *)
(* of StreamWrap that each side is in at each await (Wraps).               *)
(***************************************************************************)
EXTENDS AnyPeersProofs

\* The backend agreed to TLS.
Agreed == sent["Backend"][1].val = TLS_SUPPORTED

\* An agreed handshake with the backend is over, its answer not yet written.
Secured == pc = "Write" /\ TlsHeld /\ hand.units[1].val = TLS_SUPPORTED

(***************************************************************************)
(* The streams before TLS was asked for, between the request and the       *)
(* answer that the frontend hears, and after it.                           *)
(***************************************************************************)
WrapsAsked ==
    /\ Len(outbox["Backend"]) = 1
    /\ wrap["Frontend"] = "Plain"
    /\ wrap["Backend"] = IF pc = "AwaitBackend" THEN "TlsHandshake"
                         ELSE IF Secured THEN "Tls" ELSE "Plain"

WrapsAnswered ==
    /\ outbox["Frontend"][1].val = TLS_SUPPORTED
    /\ wrap["Backend"] = IF Agreed THEN "Tls" ELSE "Plain"
    /\ wrap["Frontend"] = IF pc = "SwitchFrontend" THEN "Plain"
                          ELSE IF pc = "AwaitFrontend" THEN "TlsHandshake" ELSE "Tls"

Wraps ==
    /\ ~Asked => wrap["Frontend"] = "Plain" /\ wrap["Backend"] = "Plain"
    /\ Asked /\ outbox["Frontend"] = <<>> => WrapsAsked
    /\ Asked /\ outbox["Frontend"] # <<>> => WrapsAnswered
    /\ pc \in {"SwitchBackend", "AwaitBackend"} => hand.units[1].val = TLS_SUPPORTED
    /\ pc \in {"SwitchFrontend", "AwaitFrontend"} => Asked /\ outbox["Frontend"] # <<>>

(***************************************************************************)
(* How go() ends: nothing it is about to return, or has returned, is       *)
(* HandshakeDisrupted.                                                     *)
(***************************************************************************)
Ending ==
    /\ result = Running <=> pc # "Done"
    /\ result # "HandshakeDisrupted"
    /\ pc = "Write" => hand.then # "HandshakeDisrupted"
    /\ pc = "Done" /\ result # "Panicked" => \A s \in Side : wrap[s] # "TlsHandshake"

TInv == (pc # "Done" => Wraps) /\ Ending /\ TlsAsAgreed

-----------------------------------------------------------------------------
(***************************************************************************)
(* What the wraps say at single awaits.                                    *)
(***************************************************************************)

\* The names of the wraps and of the answers differ.
LEMMA WrapFacts ==
    /\ TLS_SUPPORTED = "S" /\ TLS_NOT_SUPPORTED = "N"
    /\ Running \notin Result
    /\ "HandshakeDisrupted" \notin State
  BY DEF TLS_SUPPORTED, TLS_NOT_SUPPORTED, Running, Result, State

\* What go() returns after a write is what an arm or a decision on a body says.
LEMMA ContinuationEnds ==
    ASSUME NEW to \in State \cup {Same, Auth, First, FirstInTls, "Ok"}, NEW b, NEW st,
           to \in {Same, Auth} => st \in State
    PROVE  Continuation(to, b, st) # "HandshakeDisrupted"
  <1>1. OnInitial(b, TRUE) # "HandshakeDisrupted" /\ OnInitial(b, FALSE) # "HandshakeDisrupted"
    BY DEF OnInitial
  <1>2. ProcessBackendAuthentication(b, st) # "HandshakeDisrupted"
    BY DEF ProcessBackendAuthentication
  <1> QED BY <1>1, <1>2, WrapFacts DEF Continuation, Same, Auth, First, FirstInTls

\* Where go() reads or writes, no handshake is under way.
LEMMA NoHandshake ==
    ASSUME Wraps, pc \notin {"AwaitBackend", "AwaitFrontend"}, NEW s \in Side
    PROVE  wrap[s] # "TlsHandshake"
  BY DEF Wraps, WrapsAsked, WrapsAnswered, Side

\* So a read can only fail because its peer is gone.
LEMMA FailureIsIo ==
    ASSUME TInv, pc \notin {"AwaitBackend", "AwaitFrontend", "Done"}, NEW s \in Side
    PROVE  ~Disrupted(s) /\ Failure(s) = "IoError"
  BY NoHandshake DEF TInv, Disrupted, Failure

\* TlsAsAgreed speaks of the outboxes and of what was sent only.
LEMMA AgreedStill ==
    ASSUME TlsAsAgreed, UNCHANGED <<outbox, sent>>
    PROVE  TlsAsAgreed'
  BY DEF TlsAsAgreed, AskedTls

\* A step that changes nothing the invariant speaks of.
LEMMA TUnchanged ==
    ASSUME TInv, UNCHANGED <<pc, wrap, outbox, hand, result, sent>>
    PROVE  TInv'
  <1>1. TlsAsAgreed'
    BY AgreedStill DEF TInv
  <1>2. Ending'
    BY DEF TInv, Ending
  <1>3. pc # "Done" => Wraps'
    BY DEF TInv, Wraps, WrapsAsked, WrapsAnswered, Asked, Agreed, Secured, TlsHeld
  <1> QED BY <1>1, <1>2, <1>3 DEF TInv

\* A step that ends go() without a write, where no handshake is left behind.
LEMMA TEnd ==
    ASSUME TInv, pc' = "Done", result' \in Result \ {"HandshakeDisrupted"},
           result' # "Panicked" => pc \notin {"AwaitBackend", "AwaitFrontend", "Done"},
           UNCHANGED <<outbox, sent, wrap>>
    PROVE  TInv'
  <1>1. TlsAsAgreed'
    BY AgreedStill DEF TInv
  <1>2. result' # "Panicked" => \A s \in Side : wrap[s] # "TlsHandshake"
    BY NoHandshake DEF TInv
  <1>3. Ending'
    BY <1>2, WrapFacts DEF Ending
  <1> QED BY <1>1, <1>3 DEF TInv

\* A step between awaits that touch no wrap and write nothing.
LEMMA TStill ==
    ASSUME TInv,
           pc \notin {"AwaitBackend", "AwaitFrontend", "SwitchFrontend", "SwitchBackend", "Done"},
           pc' \notin {"AwaitBackend", "AwaitFrontend", "SwitchFrontend", "SwitchBackend", "Done"},
           ~Secured, ~Secured', pc' = "Write" => hand'.then # "HandshakeDisrupted",
           UNCHANGED <<outbox, sent, wrap, result>>
    PROVE  TInv'
  <1>1. TlsAsAgreed'
    BY AgreedStill DEF TInv
  <1>2. Ending'
    BY DEF TInv, Ending
  <1>3. Wraps'
    BY DEF TInv, Wraps, WrapsAsked, WrapsAnswered, Asked, Agreed
  <1> QED BY <1>1, <1>2, <1>3 DEF TInv

-----------------------------------------------------------------------------
(***************************************************************************)
(* One lemma per action of the conveyor.                                   *)
(***************************************************************************)

\* read_through! up to its write.
LEMMA ReadMsgTls ==
    ASSUME IInv, TInv, ReadMsg, Recorded
    PROVE  TInv'
  <1> DEFINE s == hand.side
             u == Head(inbox[s])
             then == Continuation(hand.then, u.val, state)
  <1>1. /\ pc = "ReadMsg" /\ s \in Side /\ UNCHANGED <<wrap, outbox, sent>>
        /\ hand.msg \in Msg
        /\ hand.then \in State \cup {Same, Auth, First, FirstInTls, "Ok"}
        /\ hand.then \in {Same, Auth} => state \in State
    BY Types DEF IInv, ReadMsg, Recorded, Shape, HoldsMsg, Side
  <1>2. CASE Fails(s)
    <2>1. pc' = "Done" /\ result' = Failure(s)
      BY <1>2 DEF ReadMsg, Finish
    <2> QED BY <1>1, <2>1, FailureIsIo, TEnd, NameFacts
  <1>3. CASE ~Fails(s)
    <2>1. PICK r \in Outcomes(u, hand.msg) :
            IF r = "ok" THEN
                /\ pc' = "Write"
                /\ hand' = Hold(s, hand.msg, Append(hand.units, u), then)
                /\ UNCHANGED result
            ELSE Finish(r)
      BY <1>3 DEF ReadMsg
    <2>2. CASE r = "ok"
      <3>1. pc' = "Write" /\ hand'.msg = hand.msg /\ hand'.then = then /\ result' = result
        BY <2>1, <2>2 DEF Hold
      <3>2. then # "HandshakeDisrupted"
        BY <1>1, ContinuationEnds
      <3>3. ~TlsHeld' /\ ~Secured /\ ~Secured'
        BY <1>1, <3>1, MsgFacts DEF TlsHeld, Secured
      <3> QED BY <1>1, <3>1, <3>2, <3>3, TStill
    <2>3. CASE r # "ok"
      <3>1. r \in {"EncodeError", "Panicked", "DecodeError", "LeftUndecoded"}
        BY <2>3, Zenon DEF Outcomes
      <3>2. pc' = "Done" /\ result' \in Result \ {"HandshakeDisrupted"}
        BY <2>1, <2>3, <3>1 DEF Finish, Result
      <3> QED BY <1>1, <3>2, TEnd
    <2> QED BY <2>2, <2>3
  <1> QED BY <1>2, <1>3

\* The answer to the request for TLS.
LEMMA ReadTlsResponseTls ==
    ASSUME IInv, TInv, ReadTlsResponse, Recorded, IInv'
    PROVE  TInv'
  <1> DEFINE b == HeadByte("Backend")
             u == Head(inbox["Backend"])
  <1>1. /\ pc = "ReadTlsResponse" /\ "Backend" \in Side /\ UNCHANGED <<wrap, outbox, sent>>
        /\ Asked /\ outbox["Frontend"] = <<>>
    BY DEF IInv, ReadTlsResponse, Recorded, Phase, Side
  <1>2. CASE Fails("Backend")
    <2>1. pc' = "Done" /\ result' = Failure("Backend")
      BY <1>2 DEF ReadTlsResponse, Finish
    <2> QED BY <1>1, <2>1, FailureIsIo, TEnd, NameFacts
  <1>3. CASE ~Fails("Backend") /\ b \in {"S", "N"}
    <2>1. /\ result' = result
          /\ pc' = IF b = "S" THEN "SwitchBackend" ELSE "Write"
          /\ hand' = Hold("Backend", TlsResponse, <<u>>, "SwitchFrontend")
      BY <1>3, MsgFacts DEF ReadTlsResponse, TLS_SUPPORTED, TLS_NOT_SUPPORTED
    <2>2. b \in TypeByte
      BY <1>3 DEF TypeByte
    <2>3. u.val = b
      BY <2>2, HeadByteKnown
    <2> HIDE DEF b, u
    <2>4. hand'.units = <<u>> /\ hand'.then = "SwitchFrontend"
      BY <2>1 DEF Hold
    <2>5. hand'.units[1].val = b
      BY <2>3, <2>4
    <2>6. ~Secured /\ ~Secured'
      BY <1>1, <2>1, <2>5, WrapFacts DEF Secured
    <2>7. Wraps'
      BY <1>1, <2>1, <2>5, <2>6, WrapFacts DEF TInv, Wraps, WrapsAsked, Asked
    <2>8. Ending'
      BY <1>1, <2>1, <2>4 DEF TInv, Ending
    <2> QED BY <1>1, <2>7, <2>8, AgreedStill DEF TInv
  <1>4. CASE ~Fails("Backend") /\ b = "E"
    <2>1. /\ pc' = "ReadMsg" /\ result' = result
      BY <1>4, MsgFacts DEF ReadTlsResponse, TLS_SUPPORTED, TLS_NOT_SUPPORTED
    <2> QED BY <1>1, <2>1, TStill DEF Secured
  <1>5. CASE ~Fails("Backend") /\ b \notin {"S", "N", "E"}
    <2>1. pc' = "Done" /\ result' = "UnknownType"
      BY <1>5, MsgFacts DEF ReadTlsResponse, Finish, TLS_SUPPORTED, TLS_NOT_SUPPORTED
    <2> QED BY <1>1, <2>1, TEnd, NameFacts
  <1> QED BY <1>2, <1>3, <1>4, <1>5

\* switch_to_tls always finds the plain stream.
LEMMA SwitchToTlsTls ==
    ASSUME IInv, TInv, NEW s \in Side, SwitchToTls(s), Recorded, IInv'
    PROVE  TInv'
  <1>1. /\ UNCHANGED <<outbox, sent, hand>> /\ wrap \in [Side -> Wrap]
        /\ pc = (IF s = "Backend" THEN "SwitchBackend" ELSE "SwitchFrontend")
        /\ Wraps /\ ~Secured
    BY TypeParts DEF IInv, SwitchToTls, Recorded, TInv, Secured
  <1>2. /\ s = "Backend" => Asked /\ outbox["Frontend"] = <<>>
        /\ s = "Frontend" => Asked /\ outbox["Frontend"] # <<>>
    BY <1>1 DEF Wraps, IInv, Shape, TlsHeld
  <1>3. wrap[s] = "Plain"
    BY <1>1, <1>2 DEF Wraps, WrapsAsked, WrapsAnswered, Side
  <1>4. /\ wrap' = [wrap EXCEPT ![s] = "TlsHandshake"] /\ result' = result
        /\ pc' = IF s = "Backend" THEN "AwaitBackend" ELSE "AwaitFrontend"
    BY <1>3 DEF SwitchToTls
  <1>5. wrap'[s] = "TlsHandshake" /\ \A t \in Side \ {s} : wrap'[t] = wrap[t]
    BY <1>1, <1>4
  <1>6. Wraps'
    BY <1>1, <1>2, <1>4, <1>5 DEF Wraps, WrapsAsked, WrapsAnswered, Asked, Agreed, Side
  <1>7. Ending'
    BY <1>1, <1>4 DEF TInv, Ending
  <1> QED BY <1>1, <1>6, <1>7, AgreedStill DEF TInv

\* The provider's answer ends the handshake that switch_to_tls began, or go().
LEMMA AwaitTlsTls ==
    ASSUME IInv, TInv, NEW s \in Side, AwaitTls(s), Recorded, IInv'
    PROVE  TInv'
  <1>1. /\ UNCHANGED <<outbox, sent>> /\ wrap \in [Side -> Wrap]
        /\ pc = (IF s = "Backend" THEN "AwaitBackend" ELSE "AwaitFrontend")
        /\ Wraps /\ ~Secured
    BY TypeParts DEF IInv, AwaitTls, Recorded, TInv, Secured
  <1>2. /\ s = "Backend" => Asked /\ outbox["Frontend"] = <<>> /\ TlsHeld
        /\ s = "Frontend" => Asked /\ outbox["Frontend"] # <<>>
    BY <1>1 DEF Wraps, IInv, Shape, TlsHeld
  <1>3. wrap[s] = "TlsHandshake"
    BY <1>1, <1>2 DEF Wraps, WrapsAsked, WrapsAnswered, Side
  <1>4. CASE Finish("Panicked") /\ UNCHANGED <<wrap, hand>>
    BY <1>1, <1>4, TEnd, NameFacts DEF Finish
  <1>5. CASE ~(Finish("Panicked") /\ UNCHANGED <<wrap, hand>>)
    <2>1. wrap' = [wrap EXCEPT ![s] = "Tls"] /\ result' = result
      BY <1>3, <1>5 DEF AwaitTls
    <2>2. wrap'[s] = "Tls" /\ \A t \in Side \ {s} : wrap'[t] = wrap[t]
      BY <1>1, <2>1
    <2>3. CASE s = "Backend"
      <3>1. pc' = "Write" /\ hand' = hand
        BY <1>3, <1>5, <2>3 DEF AwaitTls
      <3>2. Secured'
        BY <1>1, <1>2, <2>3, <3>1 DEF Secured, TlsHeld, Wraps, Asked
      <3>3. Wraps'
        BY <1>1, <1>2, <2>2, <2>3, <3>1, <3>2 DEF Wraps, WrapsAsked, Asked, Side
      <3>4. Ending'
        BY <1>1, <1>2, <2>1, <2>3, <3>1 DEF TInv, Ending, TlsHeld
      <3> QED BY <1>1, <3>3, <3>4, AgreedStill DEF TInv
    <2>4. CASE s = "Frontend"
      <3>1. pc' = "ReadMsg"
        BY <1>3, <1>5, <2>4 DEF AwaitTls
      <3>2. Wraps'
        BY <1>1, <1>2, <2>2, <2>4, <3>1 DEF Wraps, WrapsAnswered, Asked, Agreed, Side
      <3>3. Ending'
        BY <1>1, <2>1, <2>4, <3>1 DEF TInv, Ending
      <3> QED BY <1>1, <3>2, <3>3, AgreedStill DEF TInv
    <2> QED BY <2>3, <2>4 DEF Side
  <1> QED BY <1>4, <1>5

\* A poll of either side.
LEMMA PollTls ==
    ASSUME IInv, TInv, NEW s \in Side, NEW at \in {"Select", "PollFrontend"},
           NEW otherwise \in {"PollFrontend", "Parked"}, Poll(s, at, otherwise), Recorded
    PROVE  TInv'
  <1>1. pc = at /\ UNCHANGED <<outbox, sent, wrap>> /\ ~Secured
    BY DEF Poll, Recorded, Secured
  <1>2. CASE ~Readable(s)
    <2>1. pc' = otherwise /\ result' = result
      BY <1>2 DEF Poll
    <2> QED BY <1>1, <2>1, TStill DEF Secured
  <1>3. CASE Readable(s) /\ Fails(s)
    <2>1. pc' = "Done" /\ result' = Failure(s)
      BY <1>3 DEF Poll, Dispatch, Finish
    <2> QED BY <1>1, <2>1, FailureIsIo, TEnd, NameFacts
  <1>4. CASE Readable(s) /\ ~Fails(s)
    <2>1. \/ pc' = "Done" /\ result' \in {"UnexpectedType", "UnknownType"}
          \/ pc' = "ReadMsg" /\ result' = result
      BY <1>4 DEF Poll, Dispatch, Finish
    <2>2. CASE pc' = "Done" /\ result' \in {"UnexpectedType", "UnknownType"}
      BY <1>1, <2>2, TEnd, NameFacts
    <2>3. CASE pc' = "ReadMsg" /\ result' = result
      BY <1>1, <2>3, TStill DEF Secured
    <2> QED BY <2>1, <2>2, <2>3
  <1> QED BY <1>2, <1>3, <1>4

\* The task is woken.
LEMMA WakeTls ==
    ASSUME IInv, TInv, Wake, Recorded
    PROVE  TInv'
  BY TStill DEF Wake, Recorded, Secured

-----------------------------------------------------------------------------
(***************************************************************************)
(* The write, and what the peers send.                                     *)
(***************************************************************************)

\* The frontend was told that TLS is supported, and what goes to s is encrypted since.
Answered == outbox["Frontend"] # <<>> /\ AskedTls /\ outbox["Frontend"][1].val = TLS_SUPPORTED
Sealed(s) == Answered /\ (s = "Backend" => Agreed)

\* Of the units that went to a side, all but the first are encrypted, or none is.
SealedAs(us, yes) == \A i \in 1 .. Len(us) : us[i].enc = (i > 1 /\ yes)

\* TlsAsAgreed in these words.
LEMMA AgreedIsSealed ==
    TlsAsAgreed <=> \A s \in Side : SealedAs(outbox[s], Sealed(s))
  BY DEF TlsAsAgreed, SealedAs, Sealed, Answered, Agreed

\* The same of the next state.
LEMMA SealedIsAgreed ==
    ASSUME \A s \in Side : SealedAs(outbox'[s], Sealed(s)')
    PROVE  TlsAsAgreed'
  BY DEF TlsAsAgreed, SealedAs, Sealed, Answered, Agreed

\* A stream stays sealed when what is written to it is encrypted as it should be.
LEMMA SealedAppend ==
    ASSUME NEW out \in Seq(Unit), NEW w \in Seq(Unit), NEW enc \in BOOLEAN, NEW yes \in BOOLEAN,
           \A i \in 1 .. Len(w) : w[i].enc = enc,
           SealedAs(out, yes),
           out = <<>> => ~enc /\ (Len(w) <= 1 \/ ~yes),
           out # <<>> => enc = yes
    PROVE  SealedAs(out \o w, yes)
  <1>1. /\ Len(out) \in Nat /\ Len(w) \in Nat /\ Len(out \o w) = Len(out) + Len(w)
        /\ \A i \in 1 .. Len(out) + Len(w) :
             (out \o w)[i] = IF i <= Len(out) THEN out[i] ELSE w[i - Len(out)]
    BY Concat
  <1>2. ASSUME NEW i \in 1 .. Len(out \o w)
        PROVE  (out \o w)[i].enc = (i > 1 /\ yes)
    <2>1. CASE i <= Len(out)
      <3>1. (out \o w)[i] = out[i] /\ i \in 1 .. Len(out)
        BY <1>1, <2>1
      <3> QED BY <3>1 DEF SealedAs
    <2>2. CASE ~(i <= Len(out))
      <3>1. (out \o w)[i] = w[i - Len(out)] /\ i - Len(out) \in 1 .. Len(w)
        BY <1>1, <2>2
      <3>2. (out \o w)[i].enc = enc
        BY <3>1
      <3>3. CASE out = <<>>
        <4>1. i = 1 \/ ~yes
          BY <3>1, <3>3, <1>1
        <4> QED BY <3>2, <3>3, <4>1
      <3>4. CASE out # <<>>
        <4>1. Len(out) # 0
          BY <3>4, EmptySeq
        <4>2. i > 1
          BY <4>1, <1>1, <2>2
        <4> QED BY <3>2, <3>4, <4>2
      <3> QED BY <3>3, <3>4
    <2> QED BY <2>1, <2>2
  <1> QED BY <1>2 DEF SealedAs

\* Every unit of a message is written to the same stream.
LEMMA OutgoingEnc ==
    ASSUME IInv, pc = "Write", NEW enc \in BOOLEAN
    PROVE  \A i \in 1 .. Len(Outgoing(hand, enc)) : Outgoing(hand, enc)[i].enc = enc
  <1>1. \A b : ByteUnit(b, enc).enc = enc
    BY DEF ByteUnit
  <1>2. CASE TlsHeld
    <2> DEFINE first == ByteUnit(TLS_SUPPORTED, enc)
    <2>1. Outgoing(hand, enc) = <<first>> /\ first.enc = enc
      BY <1>1, <1>2 DEF Outgoing, TlsHeld
    <2> HIDE DEF first
    <2> QED BY <2>1
  <1>3. CASE ~TlsHeld
    <2> DEFINE n == Len(hand.units)
               last == [hand.units[n] EXCEPT !.enc = enc]
               head == Header(hand.msg, enc)
    <2>1. AnyTypeOK /\ HoldsMsg(1) /\ hand.units \in Seq(Unit)
      BY <1>3, TypeParts DEF IInv, Shape, Hand
    <2>2. n = 1 \/ n = 2
      BY <2>1 DEF HoldsMsg
    <2>3. n \in 1 .. Len(hand.units)
      <3> HIDE DEF n
      <3>1. n \in 1 .. n
        BY <2>2
      <3> QED BY <3>1 DEF n
    <2>4. hand.units[n] \in Unit
      BY <2>1, <2>3, ElementOfSeq
    <2>5. last.enc = enc
      BY <2>4 DEF Unit
    <2>6. Outgoing(hand, enc) = head \o <<last>>
      BY <2>1, MsgFacts DEF Outgoing, HoldsMsg
    <2> HIDE DEF last
    <2>7. last \in Unit
      BY <2>4, UnitFacts DEF last
    <2>8. head \in Seq(Unit) /\ \A i \in 1 .. Len(head) : head[i].enc = enc
      <3>1. CASE TypeByteOf[hand.msg] = ""
        <4>1. head = <<>>
          BY <3>1 DEF Header
        <4> HIDE DEF head
        <4> QED BY <4>1
      <3>2. CASE TypeByteOf[hand.msg] # ""
        <4> DEFINE first == ByteUnit(TypeByteOf[hand.msg], enc)
        <4>1. TypeByteOf[hand.msg] \in Byte
          BY <3>2, <2>1, TypeByteType DEF Byte, HoldsMsg
        <4>2. head = <<first>> /\ first.enc = enc
          BY <3>2, <1>1 DEF Header
        <4>3. first \in Unit
          BY <4>1, UnitFacts
        <4> HIDE DEF first
        <4> QED BY <4>2, <4>3
      <3> QED BY <3>1, <3>2
    <2> HIDE DEF head
    <2>9. <<last>> \in Seq(Unit) /\ Len(<<last>>) = 1 /\ <<last>>[1] = last
      BY <2>7
    <2>10. /\ Len(head) \in Nat /\ Len(head \o <<last>>) = Len(head) + 1
           /\ \A i \in 1 .. Len(head) + 1 :
                (head \o <<last>>)[i] = IF i <= Len(head) THEN head[i] ELSE <<last>>[i - Len(head)]
      BY <2>8, <2>9, Concat
    <2>11. ASSUME NEW i \in 1 .. Len(head) + 1 PROVE (head \o <<last>>)[i].enc = enc
      <3>1. CASE i <= Len(head)
        BY <3>1, <2>8, <2>10
      <3>2. CASE ~(i <= Len(head))
        <4>1. i - Len(head) = 1
          BY <3>2, <2>10
        <4> QED BY <4>1, <3>2, <2>5, <2>9, <2>10
      <3> QED BY <3>1, <3>2
    <2> QED BY <2>6, <2>10, <2>11
  <1> QED BY <1>2, <1>3

\* The answer of the backend, in hand, is the first thing that it sent.
LEMMA HeldIsFirst ==
    ASSUME IInv, TlsHeld
    PROVE  sent["Backend"] # <<>> /\ sent["Backend"][1] = hand.units[1]
  <1> DEFINE rest == Held("Backend") \o inbox["Backend"]
  <1>1. /\ AnyTypeOK /\ hand.units \in Seq(Unit) /\ Len(hand.units) = 1
        /\ inbox["Backend"] \in Seq(Unit) /\ sent["Backend"] \in Seq(Unit)
        /\ outbox["Frontend"] = <<>> /\ Held("Backend") = hand.units
    BY Types DEF IInv, TlsHeld, Side, Held
  <1>2. Carried("Backend", sent["Backend"], outbox["Frontend"], rest, AskedTls)
    BY DEF IInv, Conserved, Side, Peer
  <1>3. /\ Len(sent["Backend"]) = Len(outbox["Frontend"]) + Len(rest)
        /\ \A i \in 1 .. Len(rest) : rest[i] = sent["Backend"][Len(outbox["Frontend"]) + i]
    BY <1>2, Zenon DEF Carried
  <1>4. Len(rest) \in Nat /\ Len(rest) >= 1 /\ rest[1] = hand.units[1]
    <2>1. rest = hand.units \o inbox["Backend"]
      BY <1>1
    <2> HIDE DEF rest
    <2>2. /\ Len(rest) = Len(hand.units) + Len(inbox["Backend"])
          /\ \A i \in 1 .. Len(hand.units) + Len(inbox["Backend"]) :
               rest[i] = IF i <= Len(hand.units) THEN hand.units[i]
                         ELSE inbox["Backend"][i - Len(hand.units)]
      BY <1>1, <2>1, Concat
    <2>3. Len(inbox["Backend"]) \in Nat
      BY <1>1
    <2> QED BY <1>1, <2>2, <2>3
  <1> HIDE DEF rest
  <1>5. Len(outbox["Frontend"]) = 0
    BY <1>1
  <1>6. Len(sent["Backend"]) # 0 /\ sent["Backend"][1] = rest[1]
    BY <1>3, <1>4, <1>5
  <1> QED BY <1>1, <1>4, <1>6

\* Of the units that a write gets out, as many as k: their type, encryption and first value.
LEMMA PartWritten ==
    ASSUME IInv, pc = "Write", NEW enc \in BOOLEAN, NEW k \in 0 .. Len(hand.units)
    PROVE  LET w == SubSeq(Outgoing(hand, enc), 1, k)
           IN  /\ w \in Seq(Unit) /\ Len(w) = k
               /\ \A i \in 1 .. Len(w) : w[i].enc = enc
               /\ k > 0 => w[1].val = Outgoing(hand, enc)[1].val
  <1> DEFINE out == Outgoing(hand, enc)
             w == SubSeq(out, 1, k)
  <1>1. out \in Seq(Unit) /\ Len(out) = Len(hand.units)
    BY OutgoingIsHeard
  <1>2. \A i \in 1 .. Len(out) : out[i].enc = enc
    BY OutgoingEnc
  <1>3. Len(hand.units) \in Nat
    BY TypeParts DEF IInv, Hand
  <1> HIDE DEF out
  <1>4. w \in Seq(Unit) /\ Len(w) = k /\ \A i \in 1 .. k : w[i] = out[i]
    BY <1>1, <1>3, SubSeqProperties, 1 \in Int, k \in Int, \A i \in 1 .. k : out[i] \in Unit
  <1> HIDE DEF w
  <1>5. \A i \in 1 .. Len(w) : w[i].enc = enc
    BY <1>1, <1>2, <1>3, <1>4
  <1>6. k > 0 => w[1].val = out[1].val
    BY <1>3, <1>4
  <1> QED BY <1>4, <1>5, <1>6 DEF w, out

\* What gets out of a message, all or a part of it, is encrypted as agreed.
LEMMA WriteSealed ==
    ASSUME IInv, TInv, pc = "Write", NEW k \in 0 .. Len(hand.units),
           outbox' = [outbox EXCEPT ![Peer(hand.side)] =
               @ \o SubSeq(Outgoing(hand, wrap[Peer(hand.side)] = "Tls"), 1, k)],
           sent' = sent
    PROVE  TlsAsAgreed'
  <1> DEFINE s == hand.side
             p == Peer(s)
             enc == wrap[p] = "Tls"
             w == SubSeq(Outgoing(hand, enc), 1, k)
  <1>1. /\ AnyTypeOK /\ Conserved /\ Shape /\ Phase /\ Wraps /\ TlsAsAgreed
        /\ s \in Side /\ p \in Side /\ p # s /\ outbox \in [Side -> Seq(Unit)]
        /\ outbox[p] \in Seq(Unit) /\ hand.units \in Seq(Unit) /\ Len(hand.units) \in Nat
        /\ \A t \in Side \ {p} : t = s
    BY Types, TypeParts DEF IInv, TInv, Side, Peer
  <1>2. /\ w \in Seq(Unit) /\ Len(w) = k /\ enc \in BOOLEAN
        /\ \A i \in 1 .. Len(w) : w[i].enc = enc
        /\ k > 0 => w[1].val = Outgoing(hand, enc)[1].val
    BY PartWritten
  <1>3. outbox' = [outbox EXCEPT ![p] = @ \o w]
    OBVIOUS
  <1>4. outbox'[p] = outbox[p] \o w /\ outbox'[s] = outbox[s]
    BY <1>1, <1>3
  <1>5. /\ outbox[p] # <<>> => outbox'[p] # <<>> /\ outbox'[p][1] = outbox[p][1]
        /\ outbox[p] = <<>> => outbox'[p] = w
    BY <1>1, <1>2, <1>4, FirstWritten, ConcatEmptySeq, ZenonT(40)
  <1>6. \A t \in Side : SealedAs(outbox[t], Sealed(t)) /\ Sealed(t) \in BOOLEAN
    BY <1>1, AgreedIsSealed DEF Sealed, Answered
  <1>7. enc <=> wrap[p] = "Tls"
    OBVIOUS
  <1>8. AskedTls' <=> AskedTls
    BY DEF AskedTls
  <1>9. Agreed' <=> Agreed
    BY DEF Agreed
  <1> HIDE DEF w, enc
  <1>10. CASE outbox["Backend"] = <<>>
    <2>1. /\ s = "Frontend" /\ p = "Backend" /\ outbox["Frontend"] = <<>>
          /\ hand.msg = "Initial" /\ ~Asked
      BY <1>1, <1>10 DEF Phase, Opening, Asked, Peer
    <2>2. outbox'["Frontend"] = <<>> /\ outbox'["Backend"] = w
      BY <2>1, <1>4, <1>5, <1>10
    <2>3. ~enc
      BY <1>1, <1>7, <2>1 DEF Wraps
    <2>4. \A t \in Side : Sealed(t)' = FALSE
      BY <2>2 DEF Sealed, Answered
    <2>5. SealedAs(w, FALSE) /\ SealedAs(<<>>, FALSE)
      BY <1>2, <2>3 DEF SealedAs
    <2>6. \A t \in Side : SealedAs(outbox'[t], FALSE)
      BY <2>2, <2>5 DEF Side
    <2>7. \A t \in Side : SealedAs(outbox'[t], Sealed(t)')
      BY <2>4, <2>6, Zenon
    <2> QED BY <2>7, SealedIsAgreed
  <1>11. CASE outbox["Backend"] # <<>> /\ ~Asked
    <2>1. ~AskedTls /\ \A t \in Side : Sealed(t) = FALSE /\ Sealed(t)' = FALSE
      BY <1>1, <1>8, <1>11, AskedAgrees DEF Sealed, Answered
    <2>2. ~enc
      BY <1>1, <1>7, <1>11 DEF Wraps, Side
    <2>3. SealedAs(outbox[p], FALSE) /\ SealedAs(outbox[s], FALSE)
      BY <1>1, <1>6, <2>1, Zenon
    <2>4. SealedAs(outbox[p] \o w, FALSE)
      BY <1>1, <1>2, <2>2, <2>3, SealedAppend
    <2>5. \A t \in Side : SealedAs(outbox'[t], FALSE)
      BY <1>1, <1>4, <2>3, <2>4
    <2>6. \A t \in Side : SealedAs(outbox'[t], Sealed(t)')
      BY <2>1, <2>5, Zenon
    <2> QED BY <2>6, SealedIsAgreed
  <1>12. CASE Asked /\ outbox["Frontend"] = <<>>
    <2>1. /\ s = "Backend" /\ p = "Frontend"
          /\ TlsHeld \/ hand.msg = "ErrorResponse"
      BY <1>1, <1>12 DEF Phase, Answering, TlsHeld, Peer
    <2>2. ~enc /\ Len(outbox["Backend"]) = 1
      BY <1>1, <1>7, <1>12, <2>1 DEF Wraps, WrapsAsked
    <2>3. outbox'["Frontend"] = w /\ outbox'["Backend"] = outbox["Backend"]
      BY <1>4, <1>5, <1>12, <2>1
    <2>4. ~Sealed("Backend") /\ "Backend" \in Side
      BY <1>12 DEF Sealed, Answered, Side
    <2>5. outbox["Backend"][1].enc = FALSE
      BY <1>6, <2>2, <2>4 DEF SealedAs
    <2>6. ASSUME NEW yes \in BOOLEAN PROVE SealedAs(outbox["Backend"], yes)
      <3>1. \A i \in 1 .. Len(outbox["Backend"]) : i = 1
        BY <2>2
      <3>2. (1 > 1 /\ yes) = FALSE
        OBVIOUS
      <3> QED BY <2>5, <3>1, <3>2, Zenon DEF SealedAs
    <2>7. SealedAs(w, Sealed("Frontend")')
      <3>1. CASE TlsHeld
        <4>1. Len(w) <= 1
          BY <3>1, <1>1, <1>2 DEF TlsHeld
        <4> QED BY <4>1, <1>2, <2>2 DEF SealedAs
      <3>2. CASE ~TlsHeld
        <4>1. HoldsMsg(1) /\ hand.msg = "ErrorResponse"
          BY <3>2, <1>1, <2>1 DEF Shape
        <4>2. Outgoing(hand, enc)[1].val = "E"
          <5>1. Len(hand.units) = 2 /\ hand.units[1].val = TypeByteOf["ErrorResponse"]
            BY <4>1 DEF HoldsMsg
          <5>2. \A i \in 1 .. Len(hand.units) : Outgoing(hand, enc)[i].val = hand.units[i].val
            BY <4>1, <1>1, <1>2, OutgoingMsg
          <5>3. 1 \in 1 .. Len(hand.units)
            BY <5>1
          <5> QED BY <5>1, <5>2, <5>3, MsgFacts, Zenon
        <4>3. ~Sealed("Frontend")'
          <5>1. w # <<>> => k > 0
            BY <1>1, <1>2, EmptySeq
          <5>2. w # <<>> => w[1].val = "E"
            BY <5>1, <4>2, <1>2
          <5> QED BY <5>2, <2>3 DEF Sealed, Answered, TLS_SUPPORTED
        <4> QED BY <4>3, <1>2, <2>2 DEF SealedAs
      <3> QED BY <3>1, <3>2
    <2>8. \A t \in Side : Sealed(t)' \in BOOLEAN
      BY DEF Sealed, Answered
    <2>9. \A t \in Side : SealedAs(outbox'[t], Sealed(t)')
      BY <2>3, <2>6, <2>7, <2>8 DEF Side
    <2> QED BY <2>9, SealedIsAgreed
  <1>13. CASE Asked /\ outbox["Frontend"] # <<>>
    <2>1. AskedTls /\ outbox["Backend"] # <<>>
      BY <1>1, <1>13, AskedAgrees DEF Asked
    <2>2. Answered /\ WrapsAnswered
      BY <1>1, <1>13, <2>1 DEF Wraps, WrapsAnswered, Answered
    <2>3. outbox'["Frontend"] # <<>> /\ outbox'["Frontend"][1] = outbox["Frontend"][1]
      BY <1>1, <1>4, <1>5, <1>13 DEF Side
    <2>4. Answered'
      BY <1>8, <2>2, <2>3 DEF Answered
    <2>5. \A t \in Side : Sealed(t)' = Sealed(t)
      BY <1>9, <2>2, <2>4 DEF Sealed
    <2>6. enc = Sealed(p) /\ outbox[p] # <<>>
      BY <1>1, <1>7, <1>13, <2>1, <2>2 DEF WrapsAnswered, Sealed, Side
    <2>7. SealedAs(outbox[p] \o w, Sealed(p))
      <3> DEFINE yes == Sealed(p)
      <3>1. yes \in BOOLEAN /\ SealedAs(outbox[p], yes) /\ enc = yes
        BY <1>1, <1>6, <2>6
      <3> HIDE DEF yes
      <3>2. SealedAs(outbox[p] \o w, yes)
        BY <1>1, <1>2, <2>6, <3>1, SealedAppend
      <3> QED BY <3>2 DEF yes
    <2>8. \A t \in Side : SealedAs(outbox'[t], Sealed(t)')
      BY <1>1, <1>4, <1>6, <2>5, <2>7
    <2> QED BY <2>8, SealedIsAgreed
  <1> QED BY <1>10, <1>11, <1>12, <1>13

\* write_backend, write_frontend when all of the message gets out.
LEMMA WrittenTls ==
    ASSUME IInv, TInv, pc = "Write", Written, wrap' = wrap, sent' = sent
    PROVE  TInv'
  <1> DEFINE s == hand.side
             p == Peer(s)
             enc == wrap[p] = "Tls"
             w == Outgoing(hand, enc)
  <1>1. /\ AnyTypeOK /\ Conserved /\ Shape /\ Phase /\ Wraps /\ Ending
        /\ s \in Side /\ p \in Side /\ p # s /\ outbox \in [Side -> Seq(Unit)]
        /\ outbox[p] \in Seq(Unit) /\ hand.units \in Seq(Unit) /\ Len(hand.units) \in Nat
    BY Types, TypeParts DEF IInv, TInv, Side, Peer
  <1>2. w \in Seq(Unit) /\ Len(w) = Len(hand.units) /\ enc \in BOOLEAN
    BY OutgoingIsHeard
  <1>3. outbox' = [outbox EXCEPT ![p] = @ \o w]
    BY DEF Written
  <1>4. TlsAsAgreed'
    <2>1. SubSeq(w, 1, Len(hand.units)) = w
      BY <1>2, SubSeqFull
    <2>2. Len(hand.units) \in 0 .. Len(hand.units)
      BY <1>1
    <2>3. outbox' = [outbox EXCEPT ![p] = @ \o SubSeq(w, 1, Len(hand.units))]
      BY <1>3, <2>1
    <2> QED BY <2>2, <2>3, WriteSealed
  <1>5. outbox'[p] = outbox[p] \o w /\ outbox'[s] = outbox[s]
    BY <1>1, <1>3
  <1>6. Len(hand.units) \in 1 .. 2
    BY <1>1 DEF Shape, TlsHeld, HoldsMsg
  <1> HIDE DEF w, enc
  <1>7. w # <<>>
    BY <1>2, <1>6
  <1>8. /\ outbox'[p] # <<>>
        /\ outbox[p] # <<>> => outbox'[p][1] = outbox[p][1]
        /\ outbox[p] = <<>> => outbox'[p] = w
    BY <1>1, <1>2, <1>5, <1>7, FirstWritten, ConcatEmptySeq
  <1>9. /\ hand.then \in State => pc' = "Select" /\ result' = result
        /\ hand.then \in Result => pc' = "Done" /\ result' = hand.then
        /\ hand.then \in {"ReadTlsResponse", "SwitchFrontend"} =>
              pc' = hand.then /\ result' = result
        /\ hand.then \in State \cup Result \cup {"ReadTlsResponse", "SwitchFrontend"}
    BY <1>1, NameFacts DEF Written, Finish, Shape, TlsHeld
  <1>10. pc' \in {"Select", "Done", "ReadTlsResponse", "SwitchFrontend"}
    BY <1>9
  <1>11. Ending'
    <2>1. \A t \in Side : wrap[t] # "TlsHandshake"
      BY <1>1, NoHandshake
    <2>2. pc' = "Done" => result' = hand.then /\ hand.then \in Result
      BY <1>9
    <2>3. pc' # "Done" => result' = result
      BY <1>9
    <2> QED BY <1>1, <1>10, <2>1, <2>2, <2>3, WrapFacts DEF Ending
  <1>12. ASSUME pc' # "Done" PROVE Wraps'
    <2>1. pc' \in {"Select", "ReadTlsResponse", "SwitchFrontend"} /\ ~Secured'
      BY <1>10, <1>12 DEF Secured
    <2>2. CASE outbox["Backend"] = <<>>
      <3>1. /\ s = "Frontend" /\ p = "Backend" /\ outbox["Frontend"] = <<>>
            /\ hand.msg = "Initial" /\ ~Asked /\ ~TlsHeld
        BY <1>1, <2>2 DEF Phase, Opening, Asked, Peer, TlsHeld
      <3>2. outbox'["Frontend"] = <<>> /\ outbox'["Backend"] = w
        BY <2>2, <3>1, <1>5, <1>8
      <3>3. Len(outbox'["Backend"]) = 1
        <4>1. Len(hand.units) = 1
          BY <1>1, <3>1 DEF Shape, HoldsMsg
        <4> QED BY <3>2, <4>1, <1>2
      <3>4. hand.then # "SwitchFrontend"
        BY <1>1, <3>1, NameFacts DEF Shape
      <3>5. pc' # "SwitchFrontend"
        BY <3>4, <1>9
      <3>6. wrap["Frontend"] = "Plain" /\ wrap["Backend"] = "Plain"
        BY <1>1, <3>1 DEF Wraps
      <3> QED BY <2>1, <3>2, <3>3, <3>5, <3>6 DEF Wraps, WrapsAsked
    <2>3. CASE outbox["Backend"] # <<>> /\ ~Asked
      <3>1. ~Asked'
        BY <1>1, <1>5, <1>8, <2>3 DEF Asked, Side
      <3>2. ~TlsHeld /\ hand.then # "SwitchFrontend"
        BY <1>1, <2>3, NameFacts DEF Shape, TlsHeld
      <3>3. pc' # "SwitchFrontend"
        BY <3>2, <1>9
      <3> QED BY <1>1, <2>1, <2>3, <3>1, <3>3 DEF Wraps
    <2>4. CASE Asked /\ outbox["Frontend"] = <<>>
      <3>1. TlsHeld /\ s = "Backend" /\ p = "Frontend"
        <4>1. hand.then # "Ok"
          BY <1>9, <1>12, NameFacts
        <4>2. TlsHeld
          BY <4>1, <1>1, <2>4 DEF Phase, Answering
        <4> QED BY <4>2 DEF TlsHeld, Peer
      <3>2. pc' = "SwitchFrontend"
        BY <3>1, <1>9 DEF TlsHeld
      <3>3. outbox'["Backend"] = outbox["Backend"] /\ outbox'["Frontend"] = w
        BY <2>4, <3>1, <1>5, <1>8
      <3>4. Asked' /\ outbox'["Frontend"] # <<>>
        BY <2>4, <3>3, <1>7 DEF Asked
      <3>5. outbox'["Frontend"][1].val = TLS_SUPPORTED
        <4>1. w = <<ByteUnit("S", enc)>> /\ ByteUnit("S", enc).val = "S"
          BY <3>1, <1>2, OutgoingTls DEF w, ByteUnit
        <4> QED BY <4>1, <3>3, WrapFacts
      <3>6. Secured <=> Agreed'
        BY <3>1, HeldIsFirst DEF Secured, Agreed
      <3>7. wrap["Frontend"] = "Plain" /\ wrap["Backend"] = IF Secured THEN "Tls" ELSE "Plain"
        BY <1>1, <2>4 DEF Wraps, WrapsAsked
      <3> QED BY <3>2, <3>4, <3>5, <3>6, <3>7 DEF Wraps, WrapsAnswered
    <2>5. CASE Asked /\ outbox["Frontend"] # <<>>
      <3>1. /\ ~TlsHeld /\ outbox["Backend"] # <<>>
            /\ hand.then \notin {"SwitchFrontend", "ReadTlsResponse"}
        BY <1>1, <2>5, NameFacts DEF Shape, TlsHeld, Phase, Asked
      <3>2. pc' = "Select"
        BY <3>1, <1>9, <1>12
      <3>3. /\ outbox'["Frontend"] # <<>> /\ outbox'["Frontend"][1] = outbox["Frontend"][1]
            /\ outbox'["Backend"] # <<>> /\ outbox'["Backend"][1] = outbox["Backend"][1]
        BY <1>1, <1>5, <1>8, <2>5, <3>1 DEF Side
      <3>4. Asked' /\ (Agreed' <=> Agreed)
        BY <2>5, <3>3 DEF Asked, Agreed
      <3>5. WrapsAnswered
        BY <1>1, <2>5 DEF Wraps
      <3> QED BY <3>2, <3>3, <3>4, <3>5 DEF Wraps, WrapsAnswered
    <2> QED BY <2>2, <2>3, <2>4, <2>5
  <1> QED BY <1>4, <1>11, <1>12 DEF TInv

\* A write that fails halfway ends go(); what got out is encrypted as the rest.
LEMMA WriteFailsTls ==
    ASSUME IInv, TInv, pc = "Write", WriteFails, wrap' = wrap, sent' = sent
    PROVE  TInv'
  <1> DEFINE p == Peer(hand.side)
             w == Outgoing(hand, wrap[p] = "Tls")
  <1>1. PICK k \in 0 .. Len(w) - 1 : outbox' = [outbox EXCEPT ![p] = @ \o SubSeq(w, 1, k)]
    BY DEF WriteFails
  <1>2. Len(w) = Len(hand.units)
    BY OutgoingIsHeard, (wrap[p] = "Tls") \in BOOLEAN
  <1>3. k \in 0 .. Len(hand.units)
    <2>1. Len(hand.units) \in Nat
      BY TypeParts DEF IInv, Hand
    <2> HIDE DEF w
    <2> QED BY <1>1, <1>2, <2>1
  <1>4. TlsAsAgreed'
    BY <1>1, <1>3, WriteSealed
  <1>5. pc' = "Done" /\ result' = "IoError"
    BY DEF WriteFails, Finish
  <1>6. Ending'
    BY <1>5, NoHandshake, NameFacts, WrapFacts DEF TInv, Ending
  <1> QED BY <1>4, <1>5, <1>6 DEF TInv

\* A write never meets a handshake.
LEMMA WriteTls ==
    ASSUME IInv, TInv, Write, Recorded
    PROVE  TInv'
  <1>1. pc = "Write" /\ wrap' = wrap /\ sent' = sent /\ Peer(hand.side) \in Side
    BY Types DEF Write, Recorded, Side, Peer
  <1>2. ~Disrupted(Peer(hand.side))
    BY <1>1, FailureIsIo
  <1>3. Written \/ WriteFails
    BY <1>2 DEF Write
  <1> QED BY <1>1, <1>3, WrittenTls, WriteFailsTls

\* Whatever a peer sends comes behind what decided on TLS.
LEMMA EmitTls ==
    ASSUME IInv, TInv, NEW s \in Side, NEW us \in Seq(Unit), Emit(s, us)
    PROVE  TInv'
  <1>1. /\ AnyTypeOK /\ Conserved /\ Phase /\ TlsAsAgreed /\ Ending
        /\ sent' = [sent EXCEPT ![s] = @ \o us]
        /\ UNCHANGED <<pc, wrap, outbox, hand, result>>
    BY DEF IInv, TInv, Emit
  <1>2. /\ sent \in [Side -> Seq(Unit)] /\ sent'[s] = sent[s] \o us
        /\ \A t \in Side \ {s} : sent'[t] = sent[t]
    BY <1>1 DEF AnyTypeOK
  <1>3. ASSUME NEW t \in Side, sent[t] # <<>>
        PROVE  sent'[t] # <<>> /\ sent'[t][1] = sent[t][1]
    BY <1>2, <1>3, FirstWritten
  <1>4. outbox["Backend"] # <<>> => AskedTls' = AskedTls
    <2>1. outbox["Backend"] # <<>> => sent["Frontend"] # <<>> /\ "Frontend" \in Side
      BY <1>1, AskedAgrees DEF Side
    <2> QED BY <2>1, <1>3 DEF AskedTls
  <1>5. outbox["Frontend"] # <<>> => Agreed' = Agreed
    <2>1. ASSUME outbox["Frontend"] # <<>> PROVE sent["Backend"] # <<>> /\ "Backend" \in Side
      <3> DEFINE rest == Held("Backend") \o inbox["Backend"]
      <3>1. Len(sent["Backend"]) = Len(outbox["Frontend"]) + Len(rest)
        BY <1>1, Zenon DEF Conserved, Side, Peer, Carried
      <3>2. /\ rest \in Seq(Unit) /\ outbox["Frontend"] \in Seq(Unit)
            /\ sent["Backend"] \in Seq(Unit)
        BY <1>1, Types, Concat DEF Side
      <3> HIDE DEF rest
      <3>3. Len(rest) \in Nat /\ Len(outbox["Frontend"]) \in Nat \ {0}
        BY <2>1, <3>2, EmptySeq
      <3>4. Len(sent["Backend"]) # 0
        BY <3>1, <3>3
      <3> QED BY <3>2, <3>4 DEF Side
    <2> QED BY <2>1, <1>3 DEF Agreed
  <1>6. TlsAsAgreed'
    <2>1. \A t \in Side : outbox[t] # <<>> => outbox["Backend"] # <<>>
      BY <1>1 DEF Phase, Side
    <2>2. ASSUME NEW t \in Side, outbox[t] # <<>> PROVE Sealed(t)' = Sealed(t)
      BY <1>1, <1>4, <1>5, <2>1, <2>2 DEF Sealed, Answered
    <2>3. ASSUME NEW t \in Side PROVE SealedAs(outbox'[t], Sealed(t)')
      <3>1. CASE outbox[t] # <<>>
        BY <3>1, <2>2, <1>1, AgreedIsSealed
      <3>2. CASE outbox[t] = <<>>
        BY <3>2, <1>1 DEF SealedAs
      <3> QED BY <3>1, <3>2
    <2> QED BY <2>3, SealedIsAgreed
  <1>7. pc # "Done" => Wraps'
    BY <1>1, <1>5 DEF TInv, Wraps, WrapsAsked, WrapsAnswered, Asked, Secured, TlsHeld
  <1>8. Ending'
    BY <1>1 DEF Ending
  <1> QED BY <1>1, <1>6, <1>7, <1>8 DEF TInv

\* No move of a peer breaks the invariant.
LEMMA PeersTls ==
    ASSUME IInv, TInv, NEW s \in Side,
           Send(s) \/ SendUnknown(s) \/ AnswerTls \/ Cut(s) \/ Close(s)
    PROVE  TInv'
  <1>1. CASE Send(s) \/ Cut(s)
    <2>1. PICK b \in Says[s] :
            \/ Emit(s, Header(MsgOf(b.val), wrap[s] = "Tls") \o <<OnWire(s, b)>>)
            \/ Emit(s, Header(MsgOf(b.val), wrap[s] = "Tls"))
      BY <1>1 DEF Send, Cut
    <2> QED BY <2>1, MessageUnits, EmitTls
  <1>2. CASE SendUnknown(s)
    <2>1. ByteUnit(UnknownByte, wrap[s] = "Tls") \in Unit
      BY UnitFacts DEF Byte
    <2>2. <<ByteUnit(UnknownByte, wrap[s] = "Tls")>> \in Seq(Unit)
      BY <2>1
    <2> QED BY <1>2, <2>2, EmitTls DEF SendUnknown
  <1>3. CASE AnswerTls
    <2>1. PICK b \in {TLS_SUPPORTED, TLS_NOT_SUPPORTED} :
            Emit("Backend", <<ByteUnit(b, wrap["Backend"] = "Tls")>>)
      BY <1>3 DEF AnswerTls
    <2>2. b \in Byte
      BY DEF TLS_SUPPORTED, TLS_NOT_SUPPORTED, Byte, TypeByte
    <2>3. ByteUnit(b, wrap["Backend"] = "Tls") \in Unit
      BY <2>2, UnitFacts
    <2>4. <<ByteUnit(b, wrap["Backend"] = "Tls")>> \in Seq(Unit)
      BY <2>3
    <2> QED BY <2>1, <2>4, EmitTls, "Backend" \in Side DEF Side
  <1>4. CASE Close(s)
    <2>1. UNCHANGED <<pc, wrap, outbox, hand, result, sent>>
      BY <1>4 DEF Close
    <2> QED BY <2>1, TUnchanged
  <1> QED BY <1>1, <1>2, <1>3, <1>4

\* Conveyor::new: both streams are plain and nothing was written.
LEMMA InitTls ==
    ASSUME AnyInit
    PROVE  TInv
  <1>1. /\ wrap["Frontend"] = "Plain" /\ wrap["Backend"] = "Plain" /\ pc = "ReadMsg"
        /\ outbox["Backend"] = <<>> /\ outbox["Frontend"] = <<>> /\ result = Running
    BY DEF AnyInit, Init, Side
  <1>2. Wraps /\ Ending
    BY <1>1 DEF Wraps, Ending, Asked, Running
  <1>3. TlsAsAgreed
    <2>1. \A s \in Side : outbox[s] = <<>>
      BY <1>1 DEF Side
    <2>2. 1 .. Len(<<>>) = {}
      OBVIOUS
    <2> QED BY <2>1, <2>2, Zenon DEF TlsAsAgreed
  <1> QED BY <1>2, <1>3 DEF TInv

\* With IInv, TInv is inductive.
LEMMA NextTls ==
    ASSUME IInv, TInv, [AnyNext]_allVars, IInv'
    PROVE  TInv'
  <1>1. CASE Convey
    <2>1. Step /\ Recorded
      BY <1>1 DEF Convey, Recorded
    <2>2. CASE ReadMsg
      BY <2>1, <2>2, ReadMsgTls
    <2>3. CASE Write
      BY <2>1, <2>3, WriteTls
    <2>4. CASE ReadTlsResponse
      BY <2>1, <2>4, ReadTlsResponseTls
    <2>5. ASSUME NEW s \in Side, SwitchToTls(s) PROVE TInv'
      BY <2>1, <2>5, SwitchToTlsTls
    <2>6. ASSUME NEW s \in Side, AwaitTls(s) PROVE TInv'
      BY <2>1, <2>6, AwaitTlsTls
    <2>7. CASE PollBackend
      BY <2>1, <2>7, PollTls DEF PollBackend, Side
    <2>8. CASE PollFrontend
      BY <2>1, <2>8, PollTls DEF PollFrontend, Side
    <2>9. CASE Wake
      BY <2>1, <2>9, WakeTls
    <2> QED BY <2>1, <2>2, <2>3, <2>4, <2>5, <2>6, <2>7, <2>8, <2>9 DEF Step
  <1>2. CASE AnswerTls
    BY <1>2, PeersTls, "Backend" \in Side DEF Side
  <1>3. ASSUME NEW s \in Side, Send(s) \/ SendUnknown(s) \/ Cut(s) \/ Close(s) PROVE TInv'
    BY <1>3, PeersTls
  <1>4. CASE UNCHANGED allVars
    BY <1>4, TUnchanged DEF allVars
  <1> QED BY <1>1, <1>2, <1>3, <1>4 DEF AnyNext

\* TInv holds in every reachable state.
LEMMA TInvAlways == Spec => []TInv
  <1>1. AnyInit => TInv
    BY InitTls
  <1>2. IInv /\ IInv' /\ TInv /\ [AnyNext]_allVars => TInv'
    BY NextTls
  <1> QED BY <1>1, <1>2, IInvAlways, PTL DEF Spec

(***************************************************************************)
(* switch_to_tls, the reads and the writes never meet a stream in          *)
(* TlsHandshake, so go() never returns HandshakeDisrupted: only a panic    *)
(* leaves a stream in the middle of a handshake.                           *)
(***************************************************************************)
THEOREM HandshakesUndisturbed == Spec => []NeverDisrupted
  <1>1. TInv => NeverDisrupted
    <2> SUFFICES ASSUME TInv PROVE NeverDisrupted
      OBVIOUS
    <2>1. result # "HandshakeDisrupted"
      BY DEF TInv, Ending
    <2>2. ASSUME NEW s \in Side, wrap[s] = "TlsHandshake", result # "Panicked"
          PROVE  pc = (IF s = "Backend" THEN "AwaitBackend" ELSE "AwaitFrontend")
      <3>1. Wraps
        BY <2>2 DEF TInv, Ending
      <3> QED BY <2>2, <3>1 DEF Wraps, WrapsAsked, WrapsAnswered, Side
    <2> QED BY <2>1, <2>2 DEF NeverDisrupted
  <1> QED BY <1>1, TInvAlways, PTL

(***************************************************************************)
(* write_backend and write_frontend encrypt exactly what was agreed, also  *)
(* when a write fails halfway, whatever and whenever the peers send.       *)
(***************************************************************************)
THEOREM TlsIsAsAgreed == Spec => []TlsAsAgreed
  <1>1. TInv => TlsAsAgreed
    BY DEF TInv
  <1> QED BY <1>1, TInvAlways, PTL
=============================================================================
