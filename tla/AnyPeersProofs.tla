--------------------------- MODULE AnyPeersProofs ---------------------------
(***************************************************************************)
(* Proofs about AnyPeers, for every choice of what the peers say and of    *)
(* the bounds: type correctness, Conserved, and from it the refinement of  *)
(* Pipe.  Conserved is not inductive alone: that the bytes written are the *)
(* bytes read rests on the shape of what is in hand at each await (Shape), *)
(* and that only the answer to a TLS request is translated rests on the    *)
(* order of the opening (Phase).                                           *)
(***************************************************************************)
EXTENDS AnyPeers, ConveyorProofs

\* The frontend's request for TLS has reached the backend.
Asked == outbox["Backend"] # <<>> /\ outbox["Backend"][1].val = "TLS"

\* The answer to it is in hand.
TlsHeld ==
    /\ hand.side = "Backend"
    /\ hand.msg = TlsResponse
    /\ Len(hand.units) = 1
    /\ hand.units[1].val \in {TLS_SUPPORTED, TLS_NOT_SUPPORTED}
    /\ hand.then = "SwitchFrontend"
    /\ Asked
    /\ outbox["Frontend"] = <<>>

\* In hand is the type byte of the message, when it has one, and after it n bodies.
HoldsMsg(n) ==
    /\ hand.msg \in Msg
    /\ IF hand.msg = "Initial" THEN Len(hand.units) = n
       ELSE Len(hand.units) = n + 1 /\ hand.units[1].val = TypeByteOf[hand.msg]

(***************************************************************************)
(* What is in hand at each await.                                          *)
(***************************************************************************)
Shape ==
    /\ pc = "ReadMsg" =>
          /\ HoldsMsg(0)
          /\ hand.then \in State \cup {Same, Auth, First, FirstInTls, "Ok"}
          /\ hand.then \in {Same, Auth} => state \in State
          /\ hand.msg = "Initial" <=> hand.then \in {First, FirstInTls}
    /\ pc = "Write" =>
          \/ TlsHeld
          \/ HoldsMsg(1) /\ hand.then \in State \cup Result \cup {"ReadTlsResponse"}
    /\ pc \in {"SwitchBackend", "AwaitBackend"} => TlsHeld
    /\ pc \in {"Select", "PollFrontend", "Parked"} => hand.units = <<>> /\ state \in State
    /\ pc \in {"ReadTlsResponse", "SwitchFrontend", "AwaitFrontend"} => hand.units = <<>>

(***************************************************************************)
(* The order of the opening: the backend hears the frontend first, and     *)
(* when it is asked for TLS the frontend hears nothing before the answer.  *)
(***************************************************************************)
Opening ==
    /\ hand.msg = "Initial"
    /\ hand.side = "Frontend"
    /\ \/ pc = "ReadMsg" /\ hand.then = First
       \/ pc = "Write" /\ (hand.units[1].val = "TLS" => hand.then = "ReadTlsResponse")

Answering ==
    \/ pc \in {"ReadTlsResponse", "SwitchBackend", "AwaitBackend"}
    \/ pc = "Write" /\ TlsHeld
    \/ /\ pc \in {"ReadMsg", "Write"}
       /\ hand.msg = "ErrorResponse" /\ hand.side = "Backend" /\ hand.then = "Ok"

Phase ==
    /\ outbox["Frontend"] # <<>> => outbox["Backend"] # <<>>
    /\ outbox["Backend"] = <<>> /\ pc # "Done" => Opening
    /\ Asked /\ outbox["Frontend"] = <<>> /\ pc # "Done" => Answering
    /\ pc = "ReadTlsResponse" => Asked /\ outbox["Frontend"] = <<>>
    /\ pc = "ReadMsg" /\ hand.then = First => outbox["Backend"] = <<>>
    /\ pc = "Write" /\ hand.then = "ReadTlsResponse" =>
          outbox["Backend"] = <<>> /\ hand.units[1].val = "TLS"

IInv == AnyTypeOK /\ Conserved /\ Shape /\ Phase

-----------------------------------------------------------------------------
(***************************************************************************)
(* Carried, as units are sent, read and written.                           *)
(***************************************************************************)

\* Where the elements of a concatenation come from.
LEMMA Concat ==
    ASSUME NEW a \in Seq(Unit), NEW b \in Seq(Unit)
    PROVE  /\ a \o b \in Seq(Unit)
           /\ Len(a \o b) = Len(a) + Len(b)
           /\ \A i \in 1 .. Len(a) + Len(b) :
                (a \o b)[i] = IF i <= Len(a) THEN a[i] ELSE b[i - Len(a)]
  BY ConcatProperties

\* How three sequences are put together does not matter.
LEMMA ConcatThree ==
    ASSUME NEW a \in Seq(Unit), NEW b \in Seq(Unit), NEW c \in Seq(Unit)
    PROVE  a \o (b \o c) = (a \o b) \o c
  BY ConcatAssociative

\* Sending adds the same units at both ends.
LEMMA CarriedSend ==
    ASSUME NEW s, NEW asked, NEW all \in Seq(Unit), NEW out \in Seq(Unit),
           NEW held \in Seq(Unit), NEW unread \in Seq(Unit), NEW us \in Seq(Unit),
           Carried(s, all, out, held \o unread, asked)
    PROVE  Carried(s, all \o us, out, held \o (unread \o us), asked)
  <1> DEFINE rest == held \o unread
  <1>1. rest \in Seq(Unit)
    BY Concat
  <1>2. held \o (unread \o us) = rest \o us
    BY ConcatThree, ZenonT(40)
  <1>3. /\ Len(all) = Len(out) + Len(rest)
        /\ \A i \in 1 .. Len(out) : out[i].val = Heard(s, i, all[i].val, asked)
        /\ \A i \in 1 .. Len(rest) : rest[i] = all[Len(out) + i]
    BY DEF Carried
  <1> HIDE DEF rest
  <1>4. Len(all \o us) = Len(out) + Len(rest \o us)
    <2>1. Len(all \o us) = Len(all) + Len(us) /\ Len(rest \o us) = Len(rest) + Len(us)
      BY <1>1, Concat
    <2>2. Len(out) \in Nat /\ Len(rest) \in Nat /\ Len(us) \in Nat
      BY <1>1
    <2> QED BY <2>1, <2>2, <1>3
  <1>5. ASSUME NEW i \in 1 .. Len(out)
        PROVE  out[i].val = Heard(s, i, (all \o us)[i].val, asked)
    <2>1. (all \o us)[i] = all[i]
      BY <1>1, <1>3, Concat
    <2> QED BY <2>1, <1>3
  <1>6. ASSUME NEW i \in 1 .. Len(rest \o us)
        PROVE  (rest \o us)[i] = (all \o us)[Len(out) + i]
    <2>1. Len(out) \in Nat /\ Len(rest) \in Nat /\ Len(us) \in Nat
      BY <1>1
    <2>2. /\ i \in 1 .. Len(rest) + Len(us)
          /\ Len(out) + i \in 1 .. Len(all) + Len(us)
      BY <1>1, <1>3, <2>1, Concat
    <2>3. /\ (rest \o us)[i] = IF i <= Len(rest) THEN rest[i] ELSE us[i - Len(rest)]
          /\ (all \o us)[Len(out) + i] =
               IF Len(out) + i <= Len(all) THEN all[Len(out) + i]
               ELSE us[(Len(out) + i) - Len(all)]
      BY <1>1, <2>2, Concat
    <2> QED BY <2>1, <2>2, <2>3, <1>3
  <1> QED BY <1>2, <1>4, <1>5, <1>6 DEF Carried

\* Reading moves a unit from the stream to the hand.
LEMMA CarriedRead ==
    ASSUME NEW s, NEW asked, NEW all \in Seq(Unit), NEW out \in Seq(Unit),
           NEW held \in Seq(Unit), NEW unread \in Seq(Unit), unread # <<>>,
           Carried(s, all, out, held \o unread, asked)
    PROVE  Carried(s, all, out, Append(held, Head(unread)) \o Tail(unread), asked)
  BY DEF Carried

\* Writing k of the units in hand, as they are heard on the other side, keeps the rest.
LEMMA CarriedWrite ==
    ASSUME NEW s, NEW asked, NEW all \in Seq(Unit), NEW out \in Seq(Unit),
           NEW held \in Seq(Unit), NEW unread \in Seq(Unit), NEW w \in Seq(Unit),
           Len(w) <= Len(held),
           \A i \in 1 .. Len(w) : w[i].val = Heard(s, Len(out) + i, held[i].val, asked),
           Carried(s, all, out, held \o unread, asked)
    PROVE  Carried(s, all, out \o w, SubSeq(held, Len(w) + 1, Len(held)) \o unread, asked)
  <1> DEFINE rest == held \o unread
             kept == SubSeq(held, Len(w) + 1, Len(held))
  <1>1. /\ Len(out) \in Nat /\ Len(held) \in Nat /\ Len(unread) \in Nat /\ Len(w) \in Nat
        /\ Len(all) \in Nat
    OBVIOUS
  <1>2. /\ kept \in Seq(Unit)
        /\ Len(kept) = Len(held) - Len(w)
        /\ \A i \in 1 .. Len(held) - Len(w) : kept[i] = held[Len(w) + i]
    BY <1>1, SubSeqProperties, Len(w) + 1 \in Int, Len(held) \in Int,
       \A i \in Len(w) + 1 .. Len(held) : held[i] \in Unit
  <1>3. /\ Len(all) = Len(out) + Len(rest)
        /\ \A i \in 1 .. Len(out) : out[i].val = Heard(s, i, all[i].val, asked)
        /\ \A i \in 1 .. Len(rest) : rest[i] = all[Len(out) + i]
    BY DEF Carried
  <1>4. /\ Len(rest) = Len(held) + Len(unread)
        /\ \A i \in 1 .. Len(held) + Len(unread) :
             rest[i] = IF i <= Len(held) THEN held[i] ELSE unread[i - Len(held)]
    BY Concat
  <1> HIDE DEF kept, rest
  <1>5. /\ Len(kept \o unread) = Len(kept) + Len(unread)
        /\ \A i \in 1 .. Len(kept) + Len(unread) :
             (kept \o unread)[i] = IF i <= Len(kept) THEN kept[i] ELSE unread[i - Len(kept)]
    BY <1>2, Concat
  <1>6. Len(all) = Len(out \o w) + Len(kept \o unread)
    BY <1>1, <1>2, <1>3, <1>4, <1>5, Concat
  <1>7. ASSUME NEW i \in 1 .. Len(out \o w)
        PROVE  (out \o w)[i].val = Heard(s, i, all[i].val, asked)
    <2>1. /\ i \in 1 .. Len(out) + Len(w)
          /\ (out \o w)[i] = IF i <= Len(out) THEN out[i] ELSE w[i - Len(out)]
      BY Concat
    <2>2. CASE i <= Len(out)
      <3>1. (out \o w)[i] = out[i] /\ i \in 1 .. Len(out)
        BY <1>1, <2>1, <2>2
      <3> QED BY <3>1, <1>3
    <2>3. CASE ~(i <= Len(out))
      <3> DEFINE j == i - Len(out)
      <3>1. j \in 1 .. Len(w) /\ i = Len(out) + j
        BY <1>1, <2>1, <2>3
      <3>2. (out \o w)[i] = w[j]
        BY <2>1, <2>3
      <3>3. held[j] = all[i]
        BY <1>1, <3>1, <1>3, <1>4
      <3> HIDE DEF j
      <3> QED BY <3>1, <3>2, <3>3
    <2> QED BY <2>2, <2>3
  <1>8. ASSUME NEW i \in 1 .. Len(kept \o unread)
        PROVE  (kept \o unread)[i] = all[Len(out \o w) + i]
    <2>1. (kept \o unread)[i] = rest[Len(w) + i] /\ Len(w) + i \in 1 .. Len(rest)
      BY <1>1, <1>2, <1>4, <1>5
    <2>2. Len(out \o w) + i = Len(out) + (Len(w) + i)
      BY <1>1, Concat
    <2> QED BY <2>1, <2>2, <1>3
  <1> QED BY <1>6, <1>7, <1>8 DEF Carried, kept

\* Whether TLS was asked for matters only to a backend that was heard already.
LEMMA CarriedAsked ==
    ASSUME NEW s, NEW asked, NEW askedNow, NEW all, NEW out \in Seq(Unit), NEW rest,
           s = "Backend" /\ out # <<>> => asked = askedNow,
           Carried(s, all, out, rest, asked)
    PROVE  Carried(s, all, out, rest, askedNow)
  BY DEF Carried, Heard

-----------------------------------------------------------------------------
(***************************************************************************)
(* What is written for what is in hand.                                    *)
(***************************************************************************)
LEMMA OutgoingMsg ==
    ASSUME AnyTypeOK, HoldsMsg(1), NEW enc \in BOOLEAN
    PROVE  /\ Outgoing(hand, enc) \in Seq(Unit)
           /\ Len(Outgoing(hand, enc)) = Len(hand.units)
           /\ \A i \in 1 .. Len(hand.units) : Outgoing(hand, enc)[i].val = hand.units[i].val
  <1> DEFINE n == Len(hand.units)
             last == [hand.units[n] EXCEPT !.enc = enc]
             head == Header(hand.msg, enc)
  <1>1. hand.units \in Seq(Unit) /\ hand.msg \in Msg /\ hand.msg # TlsResponse
    BY MsgFacts DEF AnyTypeOK, TypeOK, HoldsMsg
  <1>2. n = 1 \/ n = 2
    BY DEF HoldsMsg
  <1>3. hand.units[n] \in Unit
    <2>1. n \in 1 .. Len(hand.units)
      <3> HIDE DEF n
      <3>1. n \in 1 .. n
        BY <1>2
      <3> QED BY <3>1 DEF n
    <2> QED BY <1>1, <2>1, ElementOfSeq
  <1>4. last \in Unit /\ last.val = hand.units[n].val
    BY <1>3, UnitFacts
  <1> HIDE DEF last
  <1>5. /\ head \in Seq(Unit)
        /\ n = Len(head) + 1
        /\ \A i \in 1 .. Len(head) : head[i].val = hand.units[i].val
    <2>1. CASE hand.msg = "Initial"
      <3>1. head = <<>> /\ n = 1
        BY <2>1, TypeByteType, MsgFacts DEF Header, HoldsMsg
      <3> QED BY <3>1, EmptySeq
    <2>2. CASE hand.msg # "Initial"
      <3> DEFINE first == ByteUnit(TypeByteOf[hand.msg], enc)
      <3>1. TypeByteOf[hand.msg] \in TypeByte /\ TypeByteOf[hand.msg] # ""
        BY <1>1, <2>2, TypeByteType, MsgFacts
      <3>2. first \in Unit /\ first.val = TypeByteOf[hand.msg]
        BY <3>1, UnitFacts DEF Byte
      <3> HIDE DEF first
      <3>3. head = <<first>>
        BY <3>1 DEF Header, first
      <3>4. n = 2 /\ hand.units[1].val = TypeByteOf[hand.msg]
        BY <2>2 DEF HoldsMsg
      <3> QED BY <3>2, <3>3, <3>4
    <2> QED BY <2>1, <2>2
  <1>6. Outgoing(hand, enc) = head \o <<last>>
    BY <1>1 DEF Outgoing, last
  <1> HIDE DEF head
  <1>7. <<last>> \in Seq(Unit) /\ Len(<<last>>) = 1 /\ <<last>>[1] = last
    BY <1>4
  <1>8. /\ head \o <<last>> \in Seq(Unit)
        /\ Len(head \o <<last>>) = Len(head) + 1
        /\ \A i \in 1 .. Len(head) + 1 :
             (head \o <<last>>)[i] = IF i <= Len(head) THEN head[i] ELSE <<last>>[i - Len(head)]
    BY <1>5, <1>7, Concat
  <1>9. ASSUME NEW i \in 1 .. n PROVE Outgoing(hand, enc)[i].val = hand.units[i].val
    <2>1. CASE i <= Len(head)
      BY <2>1, <1>5, <1>6, <1>8
    <2>2. CASE ~(i <= Len(head))
      <3>1. i = n /\ i - Len(head) = 1
        BY <2>2, <1>2, <1>5
      <3> QED BY <3>1, <2>2, <1>4, <1>5, <1>6, <1>7, <1>8
    <2> QED BY <2>1, <2>2
  <1> QED BY <1>5, <1>6, <1>8, <1>9

LEMMA OutgoingTls ==
    ASSUME TlsHeld, NEW enc \in BOOLEAN
    PROVE  Outgoing(hand, enc) = <<ByteUnit("S", enc)>> /\ ByteUnit("S", enc) \in Unit
  <1>1. "S" \in Byte
    BY DEF Byte, TypeByte
  <1> QED BY <1>1, UnitFacts DEF Outgoing, TlsHeld, TLS_SUPPORTED

\* The frontend's pipe tells the same about TLS at both its ends.
LEMMA AskedAgrees ==
    ASSUME AnyTypeOK, Conserved, outbox["Backend"] # <<>>
    PROVE  sent["Frontend"] # <<>> /\ (AskedTls <=> Asked)
  <1>1. /\ outbox["Backend"] \in Seq(Unit) /\ sent["Frontend"] \in Seq(Unit)
        /\ Held("Frontend") \o inbox["Frontend"] \in Seq(Unit)
    BY Concat, EmptySeq DEF AnyTypeOK, TypeOK, Side, Held
  <1>2. Carried("Frontend", sent["Frontend"], outbox["Backend"],
                Held("Frontend") \o inbox["Frontend"], AskedTls)
    BY DEF Conserved, Side, Peer
  <1>3. Len(outbox["Backend"]) \in Nat \ {0} /\ 1 \in 1 .. Len(outbox["Backend"])
    BY <1>1
  <1>4. Len(sent["Frontend"]) # 0
    <2> DEFINE rest == Held("Frontend") \o inbox["Frontend"]
    <2>1. Len(sent["Frontend"]) = Len(outbox["Backend"]) + Len(rest)
      BY <1>2, Zenon DEF Carried
    <2>2. Len(rest) \in Nat
      BY <1>1
    <2> HIDE DEF rest
    <2> QED BY <1>3, <2>1, <2>2
  <1>5. outbox["Backend"][1].val = sent["Frontend"][1].val
    <2>1. outbox["Backend"][1].val = Heard("Frontend", 1, sent["Frontend"][1].val, AskedTls)
      BY <1>2, <1>3, Zenon DEF Carried
    <2> QED BY <2>1 DEF Heard
  <1> QED BY <1>1, <1>4, <1>5 DEF Asked, AskedTls

-----------------------------------------------------------------------------
(***************************************************************************)
(* The parts of the type invariant that the other facts use.               *)
(***************************************************************************)
LEMMA Types ==
    ASSUME AnyTypeOK, NEW s \in Side
    PROVE  /\ inbox[s] \in Seq(Unit) /\ outbox[s] \in Seq(Unit) /\ sent[s] \in Seq(Unit)
           /\ hand.side \in Side /\ hand.units \in Seq(Unit) /\ Held(s) \in Seq(Unit)
           /\ hand = [side |-> hand.side, msg |-> hand.msg, units |-> hand.units,
                      then |-> hand.then]
           /\ Peer(s) \in Side /\ Peer(s) # s /\ Peer(Peer(s)) = s
           /\ wrap[s] \in Wrap
  BY EmptySeq DEF AnyTypeOK, TypeOK, Held, Side, Peer

\* A step that moves no unit conserves them.
LEMMA ConservedStill ==
    ASSUME Conserved, UNCHANGED <<inbox, outbox, sent>>, hand'.units = hand.units,
           hand'.side = hand.side \/ hand.units = <<>>
    PROVE  Conserved'
  <1>1. AskedTls' = AskedTls
    BY DEF AskedTls
  <1>2. \A s \in Side : Held(s)' = Held(s)
    BY DEF Held
  <1> QED BY <1>1, <1>2 DEF Conserved

\* A read takes a unit of one side into the hand, behind what was held of that side.
LEMMA ConservedRead ==
    ASSUME AnyTypeOK, Conserved, NEW s \in Side, inbox[s] # <<>>,
           hand.side = s \/ hand.units = <<>>,
           inbox' = [inbox EXCEPT ![s] = Tail(@)], UNCHANGED <<outbox, sent>>,
           hand'.side = s, hand'.units = Append(hand.units, Head(inbox[s]))
    PROVE  Conserved'
  <1>1. AskedTls' = AskedTls
    BY DEF AskedTls
  <1>2. inbox'[s] = Tail(inbox[s]) /\ \A t \in Side \ {s} : inbox'[t] = inbox[t]
    BY DEF AnyTypeOK, TypeOK
  <1>3. ASSUME NEW t \in Side
        PROVE  Carried(t, sent[t], outbox[Peer(t)], Held(t)' \o inbox'[t], AskedTls)
    <2>1. Carried(t, sent[t], outbox[Peer(t)], Held(t) \o inbox[t], AskedTls)
      BY DEF Conserved
    <2>2. CASE t = s
      <3>1. Held(t) = hand.units /\ Held(t)' = Append(hand.units, Head(inbox[s]))
        BY <2>2 DEF Held
      <3>2. Carried(t, sent[t], outbox[Peer(t)],
                    Append(hand.units, Head(inbox[s])) \o Tail(inbox[s]), AskedTls)
        BY <2>1, <2>2, <3>1, CarriedRead, Types
      <3> QED BY <3>1, <3>2, <2>2, <1>2
    <2>3. CASE t # s
      <3>1. Held(t)' = Held(t) /\ inbox'[t] = inbox[t]
        BY <2>3, <1>2 DEF Held
      <3> QED BY <2>1, <3>1
    <2> QED BY <2>2, <2>3
  <1> QED BY <1>1, <1>3 DEF Conserved

\* What is written is heard as it was read, or is the answer to the request for TLS.
LEMMA OutgoingIsHeard ==
    ASSUME IInv, pc = "Write", NEW enc \in BOOLEAN
    PROVE  /\ Outgoing(hand, enc) \in Seq(Unit)
           /\ Len(Outgoing(hand, enc)) = Len(hand.units)
           /\ \A i \in 1 .. Len(hand.units) :
                Outgoing(hand, enc)[i].val =
                    Heard(hand.side, Len(outbox[Peer(hand.side)]) + i, hand.units[i].val, AskedTls)
  <1> DEFINE w == Outgoing(hand, enc)
             p == Peer(hand.side)
             n == Len(outbox[p])
  <1>1. /\ AnyTypeOK /\ Conserved /\ Shape /\ Phase
        /\ outbox[p] \in Seq(Unit) /\ hand.side \in Side /\ hand.units \in Seq(Unit)
        /\ n \in Nat /\ Len(hand.units) \in Nat
    BY Types DEF IInv, Side, Peer
  <1>2. CASE TlsHeld
    <2>1. w = <<ByteUnit("S", enc)>> /\ ByteUnit("S", enc) \in Unit /\ ByteUnit("S", enc).val = "S"
      BY <1>2, OutgoingTls DEF ByteUnit
    <2>2. AskedTls
      BY <1>1, <1>2, AskedAgrees DEF TlsHeld, Asked
    <2>3. /\ hand.side = "Backend" /\ n = 0 /\ Len(hand.units) = 1
          /\ hand.units[1].val \in {"S", "N"}
      BY <1>2 DEF TlsHeld, Peer, TLS_SUPPORTED, TLS_NOT_SUPPORTED
    <2>4. Heard(hand.side, n + 1, hand.units[1].val, AskedTls) = "S"
      BY <2>2, <2>3 DEF Heard, TLS_SUPPORTED, TLS_NOT_SUPPORTED
    <2>5. w \in Seq(Unit) /\ Len(w) = 1 /\ w[1].val = "S"
      BY <2>1
    <2> HIDE DEF w, n
    <2>6. \A i \in 1 .. Len(hand.units) : i = 1
      BY <2>3
    <2> QED BY <2>3, <2>4, <2>5, <2>6 DEF w, n
  <1>3. CASE ~TlsHeld
    <2>1. HoldsMsg(1)
      BY <1>1, <1>3 DEF Shape
    <2>2. /\ w \in Seq(Unit) /\ Len(w) = Len(hand.units)
          /\ \A i \in 1 .. Len(hand.units) : w[i].val = hand.units[i].val
      BY <1>1, <2>1, OutgoingMsg
    <2> HIDE DEF w
    <2>3. ASSUME NEW i \in 1 .. Len(hand.units)
          PROVE  Heard(hand.side, n + i, hand.units[i].val, AskedTls) = hand.units[i].val
      <3>1. CASE hand.side = "Backend" /\ n + i = 1 /\ AskedTls
        <4>1. i = 1 /\ outbox["Frontend"] = <<>>
          BY <3>1, <1>1 DEF Peer
        <4>2. outbox["Backend"] # <<>>
          BY <3>1, <1>1 DEF Phase, Opening
        <4>3. Asked
          BY <4>2, <3>1, <1>1, AskedAgrees
        <4>4. hand.msg = "ErrorResponse"
          BY <4>1, <4>3, <1>1, <1>3 DEF Phase, Answering
        <4>5. hand.units[i].val = "E"
          BY <4>1, <4>4, <2>1, MsgFacts DEF HoldsMsg
        <4> QED BY <4>5 DEF Heard, TLS_NOT_SUPPORTED
      <3>2. CASE ~(hand.side = "Backend" /\ n + i = 1 /\ AskedTls)
        BY <3>2 DEF Heard
      <3> QED BY <3>1, <3>2
    <2> QED BY <2>2, <2>3 DEF w
  <1> QED BY <1>2, <1>3

\* A write moves the first units of the hand to the other side.
LEMMA ConservedWrite ==
    ASSUME IInv, pc = "Write", NEW enc \in BOOLEAN, NEW k \in 0 .. Len(hand.units),
           outbox' = [outbox EXCEPT ![Peer(hand.side)] =
                         @ \o SubSeq(Outgoing(hand, enc), 1, k)],
           hand'.side = hand.side,
           hand'.units = SubSeq(hand.units, k + 1, Len(hand.units)),
           UNCHANGED <<inbox, sent>>
    PROVE  Conserved'
  <1> DEFINE s == hand.side
             p == Peer(s)
             out == Outgoing(hand, enc)
             w == SubSeq(out, 1, k)
  <1>1. /\ AnyTypeOK /\ Conserved
        /\ s \in Side /\ p \in Side /\ p # s /\ Peer(p) = s
        /\ hand.units \in Seq(Unit) /\ Len(hand.units) \in Nat /\ outbox[p] \in Seq(Unit)
    BY Types DEF IInv, Side, Peer
  <1>2. /\ out \in Seq(Unit) /\ Len(out) = Len(hand.units)
        /\ \A i \in 1 .. Len(hand.units) :
             out[i].val = Heard(s, Len(outbox[p]) + i, hand.units[i].val, AskedTls)
    BY OutgoingIsHeard
  <1> HIDE DEF out
  <1>3. w \in Seq(Unit) /\ Len(w) = k /\ \A i \in 1 .. k : w[i] = out[i]
    BY <1>1, <1>2, SubSeqProperties, 1 \in Int, k \in Int, \A i \in 1 .. k : out[i] \in Unit
  <1>4. outbox' = [outbox EXCEPT ![p] = @ \o w]
    BY DEF out
  <1> HIDE DEF w
  <1>5. outbox'[p] = outbox[p] \o w /\ outbox'[s] = outbox[s]
    BY <1>1, <1>4 DEF AnyTypeOK, TypeOK
  <1>6. AskedTls' = AskedTls
    BY DEF AskedTls
  <1>7. ASSUME NEW t \in Side
        PROVE  Carried(t, sent[t], outbox'[Peer(t)], Held(t)' \o inbox[t], AskedTls)
    <2>1. Carried(t, sent[t], outbox[Peer(t)], Held(t) \o inbox[t], AskedTls)
      BY <1>1 DEF Conserved
    <2>2. CASE t = s
      <3>1. /\ Held(t) = hand.units
            /\ Held(t)' = SubSeq(hand.units, Len(w) + 1, Len(hand.units))
        BY <2>2, <1>3 DEF Held
      <3>2. ASSUME NEW i \in 1 .. Len(w)
            PROVE  w[i].val = Heard(s, Len(outbox[p]) + i, hand.units[i].val, AskedTls)
        <4>1. i \in 1 .. k /\ i \in 1 .. Len(hand.units)
          BY <1>1, <1>3
        <4>2. w[i] = out[i]
          BY <4>1, <1>3
        <4>3. out[i].val = Heard(s, Len(outbox[p]) + i, hand.units[i].val, AskedTls)
          BY <4>1, <1>2, Zenon
        <4> QED BY <4>2, <4>3
      <3>3. /\ Carried(s, sent[s], outbox[p], hand.units \o inbox[s], AskedTls)
            /\ sent[s] \in Seq(Unit) /\ inbox[s] \in Seq(Unit) /\ Len(w) <= Len(hand.units)
        BY <2>1, <2>2, <3>1, <1>1, <1>3, Types
      <3>4. Carried(s, sent[s], outbox[p] \o w,
                    SubSeq(hand.units, Len(w) + 1, Len(hand.units)) \o inbox[s], AskedTls)
        BY <3>2, <3>3, <1>1, <1>3, CarriedWrite
      <3> QED BY <3>1, <3>4, <2>2, <1>5
    <2>3. CASE t # s
      <3>1. Held(t)' = Held(t) /\ outbox'[Peer(t)] = outbox[Peer(t)]
        BY <2>3, <1>1, <1>5 DEF Held, Side, Peer
      <3> QED BY <2>1, <3>1
    <2> QED BY <2>2, <2>3
  <1> QED BY <1>6, <1>7 DEF Conserved

\* What a peer sends is unread; only before the first message does it decide on TLS.
LEMMA ConservedSend ==
    ASSUME IInv, NEW s \in Side, NEW us \in Seq(Unit),
           inbox' = [inbox EXCEPT ![s] = @ \o us], sent' = [sent EXCEPT ![s] = @ \o us],
           UNCHANGED <<outbox, hand>>
    PROVE  Conserved'
  <1>1. AnyTypeOK /\ Conserved /\ Phase
    BY DEF IInv
  <1>2. /\ inbox'[s] = inbox[s] \o us /\ sent'[s] = sent[s] \o us
        /\ \A t \in Side \ {s} : inbox'[t] = inbox[t] /\ sent'[t] = sent[t]
    BY <1>1 DEF AnyTypeOK, TypeOK
  <1>3. ASSUME outbox["Frontend"] # <<>> PROVE AskedTls' = AskedTls
    <2>1. outbox["Backend"] # <<>>
      BY <1>1, <1>3 DEF Phase
    <2>2. sent["Frontend"] # <<>> /\ sent["Frontend"] \in Seq(Unit) /\ "Frontend" \in Side
      BY <2>1, <1>1, AskedAgrees, Types DEF Side
    <2>3. sent'["Frontend"] # <<>> /\ sent'["Frontend"][1] = sent["Frontend"][1]
      <3>1. CASE s = "Frontend"
        <4>1. sent'["Frontend"] = sent["Frontend"] \o us
          BY <3>1, <1>2
        <4>2. Len(sent["Frontend"]) \in Nat \ {0} /\ Len(us) \in Nat
          BY <2>2
        <4>3. Len(sent["Frontend"] \o us) # 0 /\ (sent["Frontend"] \o us)[1] = sent["Frontend"][1]
          BY <2>2, <4>2, Concat
        <4> QED BY <4>1, <4>3
      <3>2. CASE s # "Frontend"
        BY <3>2, <2>2, <1>2
      <3> QED BY <3>1, <3>2
    <2> QED BY <2>2, <2>3 DEF AskedTls
  <1>4. ASSUME NEW t \in Side
        PROVE  Carried(t, sent'[t], outbox[Peer(t)], Held(t) \o inbox'[t], AskedTls')
    <2>1. /\ Carried(t, sent[t], outbox[Peer(t)], Held(t) \o inbox[t], AskedTls)
          /\ sent[t] \in Seq(Unit) /\ outbox[Peer(t)] \in Seq(Unit) /\ inbox[t] \in Seq(Unit)
          /\ Held(t) \in Seq(Unit)
      BY <1>1, Types DEF Conserved, Side, Peer
    <2>2. Carried(t, sent'[t], outbox[Peer(t)], Held(t) \o inbox'[t], AskedTls)
      <3>1. CASE t = s
        <4>1. Carried(t, sent[t] \o us, outbox[Peer(t)], Held(t) \o (inbox[t] \o us), AskedTls)
          BY <2>1, CarriedSend
        <4>2. sent'[t] = sent[t] \o us /\ inbox'[t] = inbox[t] \o us
          BY <3>1, <1>2
        <4> QED BY <4>1, <4>2
      <3>2. CASE t # s
        BY <3>2, <2>1, <1>2
      <3> QED BY <3>1, <3>2
    <2>3. t = "Backend" /\ outbox[Peer(t)] # <<>> => AskedTls' = AskedTls
      BY <1>3 DEF Peer
    <2> QED BY <2>1, <2>2, <2>3, CarriedAsked
  <1>5. \A t \in Side : Held(t)' = Held(t)
    BY DEF Held
  <1> QED BY <1>4, <1>5 DEF Conserved

-----------------------------------------------------------------------------
(***************************************************************************)
(* Frames: what a step keeps of the invariant because of what it leaves    *)
(* alone.                                                                  *)
(***************************************************************************)
\* What Convey adds to a step of the conveyor.
Recorded == sent' = sent /\ log' = log \o told'

\* The type invariant after a step of the conveyor, from the types of what it assigns.
LEMMA TypeStep ==
    ASSUME AnyTypeOK, pc' \in Pc, state' \in State \cup {NoState}, wrap' \in [Side -> Wrap],
           inbox' \in [Side -> Seq(Unit)], outbox' \in [Side -> Seq(Unit)], hand' \in Hand,
           Len(hand'.units) <= 2, told' \in Seq(Entry), result' \in Result \cup {Running},
           eof' = eof, Recorded
    PROVE  AnyTypeOK'
  <1>1. log \in Seq(Entry)
    BY DEF AnyTypeOK, Entry
  <1>2. log' \in Seq(Entry)
    BY <1>1, ConcatProperties DEF Recorded
  <1> QED BY <1>2 DEF AnyTypeOK, TypeOK, Entry, Hand, Recorded

\* The type invariant, with the abbreviations.
LEMMA TypeParts ==
    ASSUME AnyTypeOK
    PROVE  /\ TypeOK
           /\ pc \in Pc /\ state \in State \cup {NoState} /\ wrap \in [Side -> Wrap]
           /\ inbox \in [Side -> Seq(Unit)] /\ outbox \in [Side -> Seq(Unit)]
           /\ hand \in Hand /\ Len(hand.units) <= 2 /\ told \in Seq(Entry)
           /\ result \in Result \cup {Running}
  BY DEF AnyTypeOK, TypeOK, Entry, Hand

\* Shape and Phase say nothing of the streams' ends, the wraps and the histories.
LEMMA OrderStill ==
    ASSUME Shape, Phase, UNCHANGED <<pc, state, outbox, hand>>
    PROVE  Shape' /\ Phase'
  BY DEF Shape, Phase, Opening, Answering, Asked, TlsHeld, HoldsMsg

\* After go() has returned, only the order of the outboxes is claimed.
LEMMA OrderDone ==
    ASSUME pc' = "Done", outbox'["Frontend"] # <<>> => outbox'["Backend"] # <<>>
    PROVE  Shape' /\ Phase'
  BY DEF Shape, Phase

-----------------------------------------------------------------------------
(***************************************************************************)
(* One lemma per action of the conveyor.                                   *)
(***************************************************************************)

\* read_through! up to its write: the body joins the hand, or go() ends.
LEMMA ReadMsgKeeps ==
    ASSUME IInv, ReadMsg, Recorded
    PROVE  IInv'
  <1> DEFINE s == hand.side
             u == Head(inbox[s])
             got == Append(hand.units, u)
  <1>1. /\ AnyTypeOK /\ Conserved /\ Shape /\ Phase
        /\ s \in Side /\ hand.units \in Seq(Unit) /\ hand \in Hand
    BY Types, TypeParts DEF IInv, Side
  <1>2. /\ HoldsMsg(0)
        /\ hand.then \in State \cup {Same, Auth, First, FirstInTls, "Ok"}
        /\ hand.then \in {Same, Auth} => state \in State
        /\ hand.msg = "Initial" <=> hand.then \in {First, FirstInTls}
    BY <1>1 DEF Shape, ReadMsg
  <1>3. UNCHANGED <<state, wrap, eof, outbox, sent>>
    BY DEF ReadMsg, Recorded
  <1>4. CASE Fails(s)
    <2>1. pc' = "Done" /\ result' = Failure(s) /\ told' = <<>> /\ UNCHANGED <<inbox, hand>>
      BY <1>4 DEF ReadMsg, Finish
    <2>2. Failure(s) \in Result
      BY NameFacts DEF Failure
    <2>3. AnyTypeOK'
      BY <1>1, <1>3, <2>1, <2>2, TypeParts, TypeStep, EmptySeq, "Done" \in Pc DEF Pc
    <2>4. Conserved'
      BY <1>1, <1>3, <2>1, ConservedStill
    <2>5. Shape' /\ Phase'
      BY <1>1, <1>3, <2>1, OrderDone DEF Phase
    <2> QED BY <2>3, <2>4, <2>5 DEF IInv
  <1>5. CASE ~Fails(s)
    <2>1. inbox[s] # <<>> /\ Pop(s)
      BY <1>5 DEF ReadMsg, Fails
    <2>2. inbox' \in [Side -> Seq(Unit)] /\ u \in Unit
      BY <1>1, <2>1, TypeParts, Popped
    <2>3. got \in Seq(Unit) /\ Len(got) = Len(hand.units) + 1
      BY <1>1, <2>2, AppendProperties
    <2>4. Len(got) <= 2
      <3> HIDE DEF got
      <3>1. Len(hand.units) = 0 \/ Len(hand.units) = 1
        BY <1>2 DEF HoldsMsg
      <3> QED BY <3>1, <2>3, OneMore, Zenon
    <2>5. PICK r \in Outcomes(u, hand.msg) :
            IF r = "ok" THEN
                /\ pc' = "Write"
                /\ hand' = Hold(s, hand.msg, got, Continuation(hand.then, u.val, state))
                /\ told' = <<Message(s, hand.msg, u.val)>>
                /\ UNCHANGED result
            ELSE
                /\ Finish(r)
                /\ hand' = [hand EXCEPT !.units = got]
                /\ told' = <<>>
      BY <1>5 DEF ReadMsg
    <2>6. hand'.side = s /\ hand'.units = got
      BY <2>5, <1>1 DEF Hold, Hand
    <2>7. Conserved'
      BY <1>1, <1>3, <2>1, <2>6, ConservedRead DEF Pop
    <2>8. CASE r = "ok"
      <3> DEFINE then == Continuation(hand.then, u.val, state)
      <3>1. /\ pc' = "Write" /\ hand' = Hold(s, hand.msg, got, then)
            /\ told' = <<Message(s, hand.msg, u.val)>> /\ result' = result
        BY <2>5, <2>8
      <3>2. /\ then \in State \cup Result \cup {"ReadTlsResponse"}
            /\ then = "ReadTlsResponse" => hand.then = First /\ u.val = "TLS"
            /\ hand.then = First /\ u.val = "TLS" => then = "ReadTlsResponse"
        <4>1. CASE hand.then \in {First, FirstInTls}
          BY <4>1, ContinuationOfInitial
        <4>2. CASE hand.then \notin {First, FirstInTls}
          <5>1. hand.then \in State \cup {Same, Auth, "Ok"}
            BY <1>2, <4>2
          <5>2. then \in State \cup Result
            BY <1>2, <5>1, ContinuationInLoop
          <5> QED BY <5>2, <4>2, NameFacts
        <4> QED BY <4>1, <4>2
      <3>3. hand.then = "Ok" => then = "Ok"
        BY DEF Continuation, First, FirstInTls, Auth, Same
      <3> HIDE DEF then, got, u
      <3>4. hand' \in Hand /\ hand'.msg = hand.msg /\ hand'.then = then
        BY <3>1, <3>2, <2>3, <1>1 DEF Hand, Hold, Then
      <3>5. told' \in Seq(Entry)
        <4>1. Message(s, hand.msg, u.val) \in Entry
          BY <1>1, <1>2, <2>2, UnitFacts DEF Message, Entry, HoldsMsg
        <4> QED BY <4>1, <3>1
      <3>6. AnyTypeOK'
        BY <1>1, <1>3, <2>2, <2>4, <2>6, <3>1, <3>4, <3>5, TypeParts, TypeStep, "Write" \in Pc
        DEF Pc
      <3>7. HoldsMsg(1)'
        <4>1. CASE hand.msg = "Initial"
          <5>1. Len(hand.units) = 0 /\ hand.msg \in Msg
            BY <4>1, <1>2 DEF HoldsMsg
          <5>2. Len(got) = 1
            BY <5>1, <2>3
          <5> QED BY <4>1, <5>1, <5>2, <2>6, <3>4 DEF HoldsMsg
        <4>2. CASE hand.msg # "Initial"
          <5>1. Len(hand.units) = 1 /\ hand.units[1].val = TypeByteOf[hand.msg]
            BY <4>2, <1>2 DEF HoldsMsg
          <5>2. got[1] = hand.units[1]
            BY <5>1, <1>1, <2>2, AppendProperties DEF got
          <5> QED BY <5>1, <5>2, <1>2, <4>2, <2>3, <2>6, <3>4 DEF HoldsMsg
        <4> QED BY <4>1, <4>2
      <3>8. Shape'
        BY <3>1, <3>2, <3>4, <3>7 DEF Shape
      <3>9. hand.msg = "Initial" => hand'.units[1] = u
        <4>1. ASSUME hand.msg = "Initial" PROVE Len(hand.units) = 0
          BY <4>1, <1>2 DEF HoldsMsg
        <4>2. ASSUME Len(hand.units) = 0 PROVE got[1] = u
          BY <4>2, <1>1, <2>2, AppendProperties DEF got
        <4> QED BY <4>1, <4>2, <2>6
      <3>10. Phase'
        <4>1. outbox["Backend"] = <<>> => Opening'
          <5>1. ASSUME outbox["Backend"] = <<>>
                PROVE  hand.msg = "Initial" /\ s = "Frontend" /\ hand.then = First
            BY <5>1, <1>1 DEF Phase, Opening, ReadMsg
          <5> QED BY <5>1, <3>1, <3>2, <3>4, <3>9, <2>6 DEF Opening
        <4>2. Asked /\ outbox["Frontend"] = <<>> => Answering'
          <5>1. ASSUME Asked, outbox["Frontend"] = <<>>
                PROVE  hand.msg = "ErrorResponse" /\ s = "Backend" /\ hand.then = "Ok"
            BY <5>1, <1>1 DEF Phase, Answering, ReadMsg
          <5> QED BY <5>1, <3>1, <3>3, <3>4, <2>6 DEF Answering
        <4>3. then = "ReadTlsResponse" =>
                outbox["Backend"] = <<>> /\ hand'.units[1].val = "TLS"
          BY <3>2, <3>9, <1>1, <1>2 DEF Phase, ReadMsg
        <4> QED BY <1>1, <1>3, <3>1, <3>4, <4>1, <4>2, <4>3 DEF Phase, Asked
      <3> QED BY <2>7, <3>6, <3>8, <3>10 DEF IInv
    <2>9. CASE r # "ok"
      <3>1. pc' = "Done" /\ result' = r /\ hand' = [hand EXCEPT !.units = got] /\ told' = <<>>
        BY <2>5, <2>9 DEF Finish
      <3>2. r \in Result
        <4>1. r \in {"EncodeError", "Panicked", "DecodeError", "LeftUndecoded"}
          BY <2>9, Zenon DEF Outcomes
        <4> QED BY <4>1 DEF Result
      <3> HIDE DEF got, u
      <3>3. hand' \in Hand
        BY <3>1, <2>3, <1>1 DEF Hand
      <3>4. AnyTypeOK'
        BY <1>1, <1>3, <2>2, <2>4, <2>6, <3>1, <3>2, <3>3, TypeParts, TypeStep, EmptySeq,
           "Done" \in Pc DEF Pc
      <3>5. Shape' /\ Phase'
        BY <1>1, <1>3, <3>1, OrderDone DEF Phase
      <3> QED BY <2>7, <3>4, <3>5 DEF IInv
    <2> QED BY <2>8, <2>9
  <1> QED BY <1>4, <1>5

\* After a write, what goes to a peer that had nothing is the first thing in hand.
LEMMA FirstWritten ==
    ASSUME NEW out \in Seq(Unit), NEW w \in Seq(Unit)
    PROVE  /\ out \o w \in Seq(Unit)
           /\ out # <<>> => out \o w # <<>> /\ (out \o w)[1] = out[1]
           /\ out = <<>> /\ w # <<>> => out \o w # <<>> /\ (out \o w)[1] = w[1]
  <1>1. Len(out) \in Nat /\ Len(w) \in Nat
    OBVIOUS
  <1>2. /\ out \o w \in Seq(Unit) /\ Len(out \o w) = Len(out) + Len(w)
        /\ \A i \in 1 .. Len(out) + Len(w) :
             (out \o w)[i] = IF i <= Len(out) THEN out[i] ELSE w[i - Len(out)]
    BY Concat
  <1>3. ASSUME out # <<>> PROVE out \o w # <<>> /\ (out \o w)[1] = out[1]
    <2>1. Len(out) >= 1
      BY <1>1, <1>3, EmptySeq
    <2> QED BY <2>1, <1>1, <1>2
  <1>4. ASSUME out = <<>>, w # <<>> PROVE out \o w = w
    BY <1>4, ConcatEmptySeq
  <1> QED BY <1>2, <1>3, <1>4

\* write_backend, write_frontend when all of the message gets out.
LEMMA WrittenKeeps ==
    ASSUME IInv, pc = "Write", Written, told' = <<>>, UNCHANGED <<wrap, inbox, eof>>, Recorded
    PROVE  IInv'
  <1> DEFINE s == hand.side
             p == Peer(s)
             enc == wrap[p] = "Tls"
             w == Outgoing(hand, enc)
  <1>1. /\ AnyTypeOK /\ Conserved /\ Shape /\ Phase
        /\ s \in Side /\ p \in Side /\ p # s /\ hand.units \in Seq(Unit) /\ hand \in Hand
        /\ outbox \in [Side -> Seq(Unit)] /\ outbox[p] \in Seq(Unit)
    BY Types, TypeParts DEF IInv, Side, Peer
  <1>2. w \in Seq(Unit) /\ Len(w) = Len(hand.units) /\ enc \in BOOLEAN
    BY OutgoingIsHeard
  <1>3. Len(hand.units) \in 1 .. 2
    BY <1>1 DEF Shape, TlsHeld, HoldsMsg
  <1>4. w # <<>>
    BY <1>2, <1>3
  <1>5. outbox' = [outbox EXCEPT ![p] = @ \o w] /\ hand' = [hand EXCEPT !.units = <<>>]
    BY DEF Written
  <1>6. sent' = sent
    BY DEF Recorded
  <1>7. hand'.units = <<>> /\ hand'.side = s /\ hand' \in Hand
    BY <1>1, <1>5, EmptySeq DEF Hand
  <1>8. Conserved'
    <2>1. SubSeq(w, 1, Len(hand.units)) = w
      BY <1>2, SubSeqFull
    <2>2. SubSeq(hand.units, Len(hand.units) + 1, Len(hand.units)) = <<>>
      BY <1>1, SubSeqEmpty
    <2>3. Len(hand.units) \in 0 .. Len(hand.units)
      BY <1>1
    <2>4. outbox' = [outbox EXCEPT ![p] = @ \o SubSeq(w, 1, Len(hand.units))]
      BY <1>5, <2>1
    <2>5. hand'.units = SubSeq(hand.units, Len(hand.units) + 1, Len(hand.units))
      BY <1>7, <2>2
    <2> QED BY <1>2, <1>6, <1>7, <2>3, <2>4, <2>5, ConservedWrite
  <1> HIDE DEF w, enc
  <1>9. /\ outbox'[p] = outbox[p] \o w /\ \A t \in Side \ {p} : outbox'[t] = outbox[t]
        /\ outbox' \in [Side -> Seq(Unit)]
    BY <1>1, <1>2, <1>5, FirstWritten
  <1>10. /\ outbox'[p] # <<>>
         /\ outbox[p] # <<>> => outbox'[p][1] = outbox[p][1]
         /\ outbox[p] = <<>> => outbox'[p][1] = w[1]
    BY <1>1, <1>2, <1>4, <1>9, FirstWritten
  <1>11. /\ hand.then \in State => pc' = "Select" /\ state' = hand.then /\ result' = result
         /\ hand.then \in Result => pc' = "Done" /\ result' = hand.then /\ state' = state
         /\ hand.then \notin State \cup Result =>
               pc' = hand.then /\ state' = state /\ result' = result
    BY NameFacts DEF Written, Finish
  <1>12. hand.then \in State \cup Result \cup {"ReadTlsResponse", "SwitchFrontend"}
    BY <1>1 DEF Shape, TlsHeld
  <1>13. /\ hand.then = "ReadTlsResponse" => pc' = "ReadTlsResponse"
         /\ hand.then = "SwitchFrontend" => pc' = "SwitchFrontend"
    BY <1>11, NameFacts
  <1>14. AnyTypeOK'
    <2>1. pc' \in Pc
      BY <1>11, <1>12 DEF Pc
    <2>2. state' \in State \cup {NoState} /\ result' \in Result \cup {Running}
      BY <1>1, <1>11, <1>12, TypeParts
    <2>3. Len(hand'.units) <= 2 /\ told' \in Seq(Entry)
      BY <1>7, EmptySeq
    <2> QED BY <1>1, <1>7, <1>9, <2>1, <2>2, <2>3, TypeParts, TypeStep
  <1>15. Shape'
    <2>1. pc' \in {"Select", "Done", "ReadTlsResponse", "SwitchFrontend"}
      BY <1>11, <1>12
    <2>2. pc' = "Select" => state' \in State
      BY <1>11, <1>12, NameFacts
    <2> QED BY <1>7, <2>1, <2>2 DEF Shape
  <1>16. Phase'
    <2>1. CASE s = "Backend"
      <3>1. p = "Frontend" /\ outbox'["Backend"] = outbox["Backend"] /\ outbox'["Frontend"] # <<>>
        BY <2>1, <1>9, <1>10 DEF Peer, Side
      <3>2. outbox["Backend"] # <<>>
        BY <2>1, <1>1 DEF Phase, Opening
      <3>3. hand.then # "ReadTlsResponse"
        BY <3>2, <1>1 DEF Phase
      <3>4. pc' \in {"Select", "Done", "SwitchFrontend"}
        BY <1>11, <1>12, <3>3
      <3> QED BY <3>1, <3>2, <3>4 DEF Phase
    <2>2. CASE s = "Frontend"
      <3>1. p = "Backend" /\ outbox'["Frontend"] = outbox["Frontend"] /\ outbox'["Backend"] # <<>>
        BY <2>2, <1>9, <1>10 DEF Peer, Side
      <3>2. ~TlsHeld /\ HoldsMsg(1)
        BY <2>2, <1>1 DEF TlsHeld, Shape
      <3>3. w[1].val = hand.units[1].val
        BY <1>1, <1>2, <1>3, <3>2, OutgoingMsg DEF w
      <3>4. CASE outbox["Backend"] = <<>>
        <4>1. outbox'["Backend"][1].val = hand.units[1].val /\ outbox["Frontend"] = <<>>
          BY <3>1, <3>3, <3>4, <1>1, <1>10 DEF Phase
        <4>2. hand.units[1].val = "TLS" => hand.then = "ReadTlsResponse"
          BY <3>4, <1>1 DEF Phase, Opening
        <4>3. Asked' <=> hand.units[1].val = "TLS"
          BY <3>1, <4>1 DEF Asked
        <4>4. pc' \in {"Select", "Done", "ReadTlsResponse"}
          BY <1>1, <3>2, <1>11, <1>13 DEF Shape
        <4>5. pc' = "ReadTlsResponse" => hand.then = "ReadTlsResponse"
          BY <1>11, <1>12, NameFacts
        <4>6. pc' = "ReadTlsResponse" => Asked' /\ outbox'["Frontend"] = <<>>
          BY <4>1, <4>3, <4>5, <3>1, <1>1 DEF Phase
        <4>7. Asked' => pc' = "ReadTlsResponse"
          BY <4>2, <4>3, <1>13
        <4> QED BY <3>1, <4>1, <4>4, <4>6, <4>7 DEF Phase, Answering
      <3>5. CASE outbox["Backend"] # <<>>
        <4>1. hand.then # "ReadTlsResponse"
          BY <3>5, <1>1 DEF Phase
        <4>2. Asked' <=> Asked
          BY <3>1, <3>5, <1>10 DEF Asked
        <4>3. ~(Asked /\ outbox["Frontend"] = <<>>)
          BY <2>2, <3>2, <1>1 DEF Phase, Answering
        <4>4. pc' \in {"Select", "Done"}
          BY <4>1, <1>1, <3>2, <1>11 DEF Shape
        <4> QED BY <3>1, <4>2, <4>3, <4>4 DEF Phase
      <3> QED BY <3>4, <3>5
    <2> QED BY <2>1, <2>2, <1>1 DEF Side
  <1> QED BY <1>8, <1>14, <1>15, <1>16 DEF IInv

\* A write that fails halfway: a part of the message got out, the rest is held at the end.
LEMMA WriteFailsKeeps ==
    ASSUME IInv, pc = "Write", WriteFails, told' = <<>>, UNCHANGED <<wrap, inbox, eof>>, Recorded
    PROVE  IInv'
  <1> DEFINE s == hand.side
             p == Peer(s)
             enc == wrap[p] = "Tls"
             w == Outgoing(hand, enc)
  <1>1. /\ AnyTypeOK /\ Conserved /\ Shape /\ Phase
        /\ s \in Side /\ p \in Side /\ p # s /\ hand.units \in Seq(Unit) /\ hand \in Hand
        /\ outbox \in [Side -> Seq(Unit)] /\ outbox[p] \in Seq(Unit) /\ Len(hand.units) <= 2
    BY Types, TypeParts DEF IInv, Side, Peer
  <1>2. w \in Seq(Unit) /\ Len(w) = Len(hand.units) /\ enc \in BOOLEAN
    BY OutgoingIsHeard
  <1>3. PICK k \in 0 .. Len(w) - 1 :
          /\ outbox' = [outbox EXCEPT ![p] = @ \o SubSeq(w, 1, k)]
          /\ hand' = [hand EXCEPT !.units = SubSeq(@, k + 1, Len(@))]
    BY DEF WriteFails
  <1>4. /\ pc' = "Done" /\ result' = "IoError" /\ state' = state /\ sent' = sent
        /\ result' \in Result
    BY NameFacts DEF WriteFails, Finish, Recorded
  <1> HIDE DEF w, enc
  <1>5. k \in 0 .. Len(hand.units) /\ k \in Nat /\ k <= Len(w) /\ Len(hand.units) \in Nat
    BY <1>1, <1>2
  <1>6. /\ hand'.side = s /\ hand'.units = SubSeq(hand.units, k + 1, Len(hand.units))
        /\ hand'.msg = hand.msg /\ hand'.then = hand.then
        /\ hand' = [hand EXCEPT !.units = SubSeq(hand.units, k + 1, Len(hand.units))]
    BY <1>1, <1>3 DEF Hand
  <1>7. Conserved'
    BY <1>2, <1>3, <1>4, <1>5, <1>6, ConservedWrite DEF w
  <1>8. /\ SubSeq(hand.units, k + 1, Len(hand.units)) \in Seq(Unit)
        /\ Len(SubSeq(hand.units, k + 1, Len(hand.units))) <= 2
    BY <1>1, <1>5, SubSeqProperties, k + 1 \in Int, Len(hand.units) \in Int,
       \A i \in k + 1 .. Len(hand.units) : hand.units[i] \in Unit
  <1>9. SubSeq(w, 1, k) \in Seq(Unit)
    BY <1>2, <1>5, SubSeqProperties, 1 \in Int, k \in Int, \A i \in 1 .. k : w[i] \in Unit
  <1>10. hand' \in Hand
    BY <1>1, <1>6, <1>8 DEF Hand
  <1>11. /\ outbox' \in [Side -> Seq(Unit)]
         /\ outbox'[p] = outbox[p] \o SubSeq(w, 1, k)
         /\ \A t \in Side \ {p} : outbox'[t] = outbox[t]
    BY <1>1, <1>3, <1>9, FirstWritten
  <1>12. AnyTypeOK'
    BY <1>1, <1>4, <1>6, <1>8, <1>10, <1>11, TypeParts, TypeStep, EmptySeq, "Done" \in Pc DEF Pc
  <1>13. outbox'["Frontend"] # <<>> => outbox'["Backend"] # <<>>
    <2>1. CASE s = "Backend"
      BY <2>1, <1>1, <1>11 DEF Phase, Opening, Peer, Side
    <2>2. CASE s = "Frontend"
      <3>1. p = "Backend" /\ outbox'["Frontend"] = outbox["Frontend"]
        BY <2>2, <1>11 DEF Peer, Side
      <3>2. outbox["Backend"] # <<>> => outbox'["Backend"] # <<>>
        BY <3>1, <1>1, <1>9, <1>11, FirstWritten
      <3> QED BY <3>1, <3>2, <1>1 DEF Phase
    <2> QED BY <2>1, <2>2, <1>1 DEF Side
  <1>14. Shape' /\ Phase'
    BY <1>4, <1>13, OrderDone
  <1> QED BY <1>7, <1>12, <1>14 DEF IInv

\* A step that ends go() and moves nothing.
LEMMA EndKeeps ==
    ASSUME IInv, pc' = "Done", result' \in Result, told' = <<>>, wrap' \in [Side -> Wrap],
           UNCHANGED <<state, inbox, eof, outbox, hand>>, Recorded
    PROVE  IInv'
  <1>1. AnyTypeOK /\ Conserved /\ Phase /\ sent' = sent
    BY DEF IInv, Recorded
  <1>2. AnyTypeOK'
    BY <1>1, TypeParts, TypeStep, EmptySeq, "Done" \in Pc DEF Pc
  <1>3. Conserved'
    BY <1>1, ConservedStill
  <1>4. Shape' /\ Phase'
    BY <1>1, OrderDone DEF Phase
  <1> QED BY <1>2, <1>3, <1>4 DEF IInv

\* The write, with its three outcomes.
LEMMA WriteKeeps ==
    ASSUME IInv, Write, Recorded
    PROVE  IInv'
  <1>1. pc = "Write" /\ told' = <<>> /\ UNCHANGED <<wrap, inbox, eof>>
    BY DEF Write
  <1>2. CASE Disrupted(Peer(hand.side))
    <2>1. pc' = "Done" /\ result' = "HandshakeDisrupted" /\ UNCHANGED <<state, outbox, hand>>
      BY <1>2 DEF Write, Finish
    <2>2. wrap' \in [Side -> Wrap]
      BY <1>1, TypeParts DEF IInv
    <2> QED BY <1>1, <2>1, <2>2, EndKeeps, NameFacts
  <1>3. CASE ~Disrupted(Peer(hand.side))
    <2>1. Written \/ WriteFails
      BY <1>3 DEF Write
    <2> QED BY <2>1, <1>1, WrittenKeeps, WriteFailsKeeps
  <1> QED BY <1>2, <1>3

\* A byte read with an empty hand: the parts of the invariant that do not depend on its use.
LEMMA ByteRead ==
    ASSUME IInv, NEW s \in Side, inbox[s] # <<>>, hand.units = <<>>, Pop(s), told' = <<>>,
           UNCHANGED <<state, wrap, eof, outbox>>, Recorded,
           hand'.side = s, hand'.units = <<Head(inbox[s])>>,
           hand'.msg \in Msg \cup {TlsResponse}, hand'.then \in Then,
           hand' = Hold(hand'.side, hand'.msg, hand'.units, hand'.then),
           pc' \in Pc, result' \in Result \cup {Running}
    PROVE  /\ AnyTypeOK' /\ Conserved'
           /\ Len(hand'.units) = 1 /\ hand'.units[1] = Head(inbox[s])
  <1>1. AnyTypeOK /\ Conserved /\ sent' = sent
    BY DEF IInv, Recorded
  <1>2. inbox' \in [Side -> Seq(Unit)] /\ Head(inbox[s]) \in Unit
    BY <1>1, TypeParts, Popped
  <1>3. /\ <<Head(inbox[s])>> \in Seq(Unit) /\ Len(<<Head(inbox[s])>>) = 1
        /\ <<Head(inbox[s])>>[1] = Head(inbox[s])
        /\ Append(<<>>, Head(inbox[s])) = <<Head(inbox[s])>>
    BY <1>2
  <1>4. hand' \in Hand /\ Len(hand'.units) = 1 /\ Len(hand'.units) <= 2
    <2>1. hand'.units \in Seq(Unit)
      BY <1>3
    <2>2. hand' \in Hand
      BY <2>1, HoldType, Zenon
    <2>3. Len(hand'.units) = 1
      BY <1>3
    <2> QED BY <2>2, <2>3
  <1>5. AnyTypeOK'
    BY <1>1, <1>2, <1>4, TypeParts, TypeStep, EmptySeq
  <1>6. Conserved'
    BY <1>1, <1>3, ConservedRead DEF Pop
  <1> QED BY <1>3, <1>4, <1>5, <1>6

\* The answer to the request for TLS is taken in hand, or an error's type byte.
LEMMA ReadTlsResponseKeeps ==
    ASSUME IInv, ReadTlsResponse, Recorded
    PROVE  IInv'
  <1> DEFINE b == HeadByte("Backend")
             u == Head(inbox["Backend"])
  <1>1. /\ AnyTypeOK /\ Conserved /\ Shape /\ Phase /\ pc = "ReadTlsResponse"
        /\ "Backend" \in Side /\ hand \in Hand /\ wrap \in [Side -> Wrap]
    BY TypeParts DEF IInv, ReadTlsResponse, Side
  <1>2. hand.units = <<>> /\ Asked /\ outbox["Frontend"] = <<>> /\ outbox["Backend"] # <<>>
    BY <1>1 DEF Shape, Phase, Asked
  <1>3. told' = <<>> /\ UNCHANGED <<state, wrap, eof, outbox>>
    BY DEF ReadTlsResponse
  <1>4. CASE Fails("Backend")
    <2>1. pc' = "Done" /\ result' = Failure("Backend") /\ UNCHANGED <<inbox, hand>>
      BY <1>4 DEF ReadTlsResponse, Finish
    <2>2. Failure("Backend") \in Result
      BY NameFacts DEF Failure
    <2> QED BY <1>1, <1>3, <2>1, <2>2, EndKeeps
  <1>5. CASE ~Fails("Backend")
    <2>1. inbox["Backend"] # <<>> /\ Pop("Backend")
      BY <1>5 DEF ReadTlsResponse, Fails
    <2>2. result \in Result \cup {Running}
      BY <1>1, TypeParts
    <2>3. {"S", "N", "E"} \subseteq TypeByte
      BY DEF TypeByte
    <2>4. CASE b \in {"S", "N"}
      <3>1. /\ pc' \in {"Write", "SwitchBackend"} /\ result' = result
            /\ hand' = Hold("Backend", TlsResponse, <<u>>, "SwitchFrontend")
        BY <2>4, <1>5, MsgFacts DEF ReadTlsResponse, TLS_SUPPORTED, TLS_NOT_SUPPORTED
      <3> HIDE DEF b, u
      <3>2. /\ hand'.side = "Backend" /\ hand'.msg = TlsResponse /\ hand'.units = <<u>>
            /\ hand'.then = "SwitchFrontend"
            /\ hand' = Hold(hand'.side, hand'.msg, hand'.units, hand'.then)
        BY <3>1 DEF Hold
      <3>3. pc' \in Pc /\ hand'.then \in Then
        BY <3>1, <3>2 DEF Pc, Then
      <3>4. AnyTypeOK' /\ Conserved' /\ Len(hand'.units) = 1 /\ hand'.units[1] = u
        BY <1>1, <1>2, <1>3, <2>1, <2>2, <3>1, <3>2, <3>3, ByteRead DEF u
      <3>5. u.val = b
        BY <2>3, <2>4, HeadByteKnown DEF u, b
      <3>6. TlsHeld'
        BY <1>2, <1>3, <2>4, <3>2, <3>4, <3>5
        DEF TlsHeld, Asked, TLS_SUPPORTED, TLS_NOT_SUPPORTED
      <3>7. Shape'
        BY <3>1, <3>6 DEF Shape
      <3>8. Phase'
        BY <1>2, <1>3, <3>1, <3>2, <3>6 DEF Phase, Answering
      <3> QED BY <3>4, <3>7, <3>8 DEF IInv
    <2>5. CASE b = "E"
      <3>1. /\ pc' = "ReadMsg" /\ result' = result
            /\ hand' = Hold("Backend", "ErrorResponse", <<u>>, "Ok")
        BY <2>5, <1>5, MsgFacts DEF ReadTlsResponse, TLS_SUPPORTED, TLS_NOT_SUPPORTED
      <3> HIDE DEF b, u
      <3>2. /\ hand'.side = "Backend" /\ hand'.msg = "ErrorResponse" /\ hand'.units = <<u>>
            /\ hand'.then = "Ok"
            /\ hand' = Hold(hand'.side, hand'.msg, hand'.units, hand'.then)
        BY <3>1 DEF Hold
      <3>3. pc' \in Pc /\ hand'.then \in Then /\ hand'.msg \in Msg
        BY <3>1, <3>2, NameFacts, MsgFacts DEF Pc, Then
      <3>4. AnyTypeOK' /\ Conserved' /\ Len(hand'.units) = 1 /\ hand'.units[1] = u
        BY <1>1, <1>2, <1>3, <2>1, <2>2, <3>1, <3>2, <3>3, ByteRead DEF u
      <3>5. u.val = TypeByteOf["ErrorResponse"]
        BY <2>3, <2>5, HeadByteKnown, MsgFacts DEF u, b
      <3>6. "Ok" \notin {Same, Auth, First, FirstInTls}
        BY DEF Same, Auth, First, FirstInTls
      <3>7. Shape'
        BY <3>1, <3>2, <3>3, <3>4, <3>5, <3>6 DEF Shape, HoldsMsg
      <3>8. Phase'
        BY <1>2, <1>3, <3>1, <3>2, <3>6 DEF Phase, Answering
      <3> QED BY <3>4, <3>7, <3>8 DEF IInv
    <2>6. CASE b \notin {"S", "N", "E"}
      <3>1. /\ pc' = "Done" /\ result' = "UnknownType"
            /\ hand' = [hand EXCEPT !.side = "Backend", !.units = <<u>>]
        BY <2>6, <1>5, MsgFacts DEF ReadTlsResponse, Finish, TLS_SUPPORTED, TLS_NOT_SUPPORTED
      <3> HIDE DEF b, u
      <3>2. /\ hand'.side = "Backend" /\ hand'.units = <<u>>
            /\ hand'.msg \in Msg \cup {TlsResponse} /\ hand'.then \in Then
            /\ hand' = Hold(hand'.side, hand'.msg, hand'.units, hand'.then)
        BY <1>1, <3>1 DEF Hold, Hand
      <3>3. pc' \in Pc /\ result' \in Result
        BY <3>1, NameFacts DEF Pc
      <3>4. AnyTypeOK' /\ Conserved'
        BY <1>1, <1>2, <1>3, <2>1, <3>2, <3>3, ByteRead DEF u
      <3>5. Shape' /\ Phase'
        BY <1>2, <1>3, <3>1, OrderDone
      <3> QED BY <3>4, <3>5 DEF IInv
    <2> QED BY <2>4, <2>5, <2>6
  <1> QED BY <1>4, <1>5

\* A step to another await, with nothing moved.
LEMMA StillKeeps ==
    ASSUME IInv, pc' \in Pc, wrap' \in [Side -> Wrap], told' = <<>>, result' = result,
           UNCHANGED <<state, inbox, eof, outbox, hand>>, Recorded
    PROVE  AnyTypeOK' /\ Conserved'
  <1>1. AnyTypeOK /\ Conserved /\ sent' = sent
    BY DEF IInv, Recorded
  <1>2. AnyTypeOK'
    BY <1>1, TypeParts, TypeStep, EmptySeq
  <1>3. Conserved'
    BY <1>1, ConservedStill
  <1> QED BY <1>2, <1>3

\* switch_to_tls up to its await.
LEMMA SwitchToTlsKeeps ==
    ASSUME IInv, NEW s \in Side, SwitchToTls(s), Recorded
    PROVE  IInv'
  <1>1. /\ Shape /\ Phase /\ wrap \in [Side -> Wrap]
        /\ told' = <<>> /\ UNCHANGED <<state, inbox, eof, outbox, hand>>
    BY TypeParts DEF IInv, SwitchToTls
  <1>2. CASE wrap[s] = "Plain"
    <2>1. /\ result' = result
          /\ \/ pc = "SwitchBackend" /\ pc' = "AwaitBackend"
             \/ pc = "SwitchFrontend" /\ pc' = "AwaitFrontend"
          /\ wrap' = [wrap EXCEPT ![s] = "TlsHandshake"]
      BY <1>2 DEF SwitchToTls, Side
    <2>2. pc' \in Pc /\ wrap' \in [Side -> Wrap]
      BY <1>1, <2>1 DEF Pc, Wrap
    <2>3. AnyTypeOK' /\ Conserved'
      BY <1>1, <2>1, <2>2, StillKeeps
    <2>4. Shape'
      BY <1>1, <2>1 DEF Shape, TlsHeld, Asked
    <2>5. Phase'
      BY <1>1, <2>1 DEF Phase, Opening, Answering, Asked
    <2> QED BY <2>3, <2>4, <2>5 DEF IInv
  <1>3. CASE wrap[s] # "Plain"
    <2>1. pc' = "Done" /\ result' = "HandshakeDisrupted" /\ wrap' = wrap
      BY <1>3 DEF SwitchToTls, Finish
    <2> QED BY <1>1, <2>1, EndKeeps, NameFacts
  <1> QED BY <1>2, <1>3

\* The TLS provider answers; then the byte in hand is written, or an Initial awaited again.
LEMMA AwaitTlsKeeps ==
    ASSUME IInv, NEW s \in Side, AwaitTls(s), Recorded
    PROVE  IInv'
  <1> DEFINE Refused == Finish("Panicked") /\ UNCHANGED <<wrap, hand>>
  <1>1. /\ AnyTypeOK /\ Conserved /\ Shape /\ Phase /\ wrap \in [Side -> Wrap]
        /\ told' = <<>> /\ UNCHANGED <<state, inbox, eof, outbox>> /\ sent' = sent
        /\ pc = (IF s = "Backend" THEN "AwaitBackend" ELSE "AwaitFrontend")
    BY TypeParts DEF IInv, AwaitTls, Recorded
  <1>2. [wrap EXCEPT ![s] = "Tls"] \in [Side -> Wrap]
    BY <1>1 DEF Wrap
  <1>3. CASE Refused
    <2>1. pc' = "Done" /\ result' = "Panicked" /\ UNCHANGED <<wrap, hand>>
      BY <1>3 DEF AwaitTls, Finish
    <2> QED BY <1>1, <2>1, EndKeeps, NameFacts
  <1>4. CASE ~Refused /\ wrap[s] # "TlsHandshake"
    <2>1. /\ pc' = "Done" /\ result' = "HandshakeDisrupted" /\ hand' = hand
          /\ wrap' = [wrap EXCEPT ![s] = "Tls"]
      BY <1>4 DEF AwaitTls, Finish
    <2> QED BY <1>1, <1>2, <2>1, EndKeeps, NameFacts
  <1>5. CASE ~Refused /\ wrap[s] = "TlsHandshake" /\ s = "Backend"
    <2>1. /\ pc = "AwaitBackend" /\ pc' = "Write" /\ hand' = hand /\ result' = result
          /\ wrap' = [wrap EXCEPT ![s] = "Tls"]
      BY <1>5 DEF AwaitTls
    <2>2. AnyTypeOK' /\ Conserved'
      BY <1>1, <1>2, <2>1, StillKeeps, "Write" \in Pc DEF Pc
    <2>3. TlsHeld'
      BY <1>1, <2>1 DEF Shape, TlsHeld, Asked
    <2>4. Shape'
      BY <2>1, <2>3 DEF Shape
    <2>5. Phase'
      BY <1>1, <2>1, <2>3 DEF Phase, Answering, TlsHeld, Asked
    <2> QED BY <2>2, <2>4, <2>5 DEF IInv
  <1>6. CASE ~Refused /\ wrap[s] = "TlsHandshake" /\ s # "Backend"
    <2>1. /\ pc = "AwaitFrontend" /\ pc' = "ReadMsg" /\ result' = result
          /\ hand' = Hold("Frontend", "Initial", <<>>, FirstInTls)
          /\ wrap' = [wrap EXCEPT ![s] = "Tls"]
      BY <1>6, <1>1 DEF AwaitTls
    <2>2. /\ hand'.side = "Frontend" /\ hand'.msg = "Initial" /\ hand'.units = <<>>
          /\ hand'.then = FirstInTls
      BY <2>1 DEF Hold
    <2>3. hand.units = <<>>
      BY <1>1, <2>1 DEF Shape
    <2>4. hand' \in Hand
      BY <2>1, HoldType, EmptySeq, MsgFacts DEF Side, Then
    <2>5. AnyTypeOK'
      <3>1. Len(hand'.units) <= 2 /\ told' \in Seq(Entry) /\ pc' \in Pc
        BY <1>1, <2>1, <2>2, EmptySeq DEF Pc
      <3> QED BY <1>1, <1>2, <2>1, <2>4, <3>1, TypeParts, TypeStep
    <2>6. Conserved'
      BY <1>1, <2>2, <2>3, ConservedStill
    <2>7. FirstInTls \notin {Same, Auth, First}
      BY DEF FirstInTls, Same, Auth, First
    <2>8. Shape'
      BY <2>1, <2>2, <2>7, MsgFacts, EmptySeq DEF Shape, HoldsMsg
    <2>9. Phase'
      BY <1>1, <2>1, <2>2, <2>7 DEF Phase, Opening, Answering, Asked
    <2> QED BY <2>5, <2>6, <2>8, <2>9 DEF IInv
  <1> QED BY <1>3, <1>4, <1>5, <1>6

\* A poll of read_type_byte_from_both: an arm's message is begun, go() ends, or nothing came.
LEMMA PollKeeps ==
    ASSUME IInv, NEW s \in Side, NEW at \in {"Select", "PollFrontend"},
           NEW otherwise \in {"PollFrontend", "Parked"}, Poll(s, at, otherwise), Recorded
    PROVE  IInv'
  <1> DEFINE b == HeadByte(s)
             u == Head(inbox[s])
  <1>1. /\ AnyTypeOK /\ Conserved /\ Shape /\ Phase /\ pc = at
        /\ hand \in Hand /\ wrap \in [Side -> Wrap] /\ result \in Result \cup {Running}
    BY TypeParts DEF IInv, Poll
  <1>2. /\ hand.units = <<>> /\ state \in State /\ outbox["Backend"] # <<>>
        /\ ~(Asked /\ outbox["Frontend"] = <<>>)
    BY <1>1 DEF Shape, Phase, Opening, Answering
  <1>3. told' = <<>> /\ UNCHANGED <<state, wrap, eof, outbox>>
    BY DEF Poll
  <1>4. CASE ~Readable(s)
    <2>1. pc' = otherwise /\ UNCHANGED <<inbox, hand, result>>
      BY <1>4 DEF Poll
    <2>2. AnyTypeOK' /\ Conserved'
      BY <1>1, <1>3, <2>1, StillKeeps, otherwise \in Pc DEF Pc
    <2>3. Shape' /\ Phase'
      BY <1>2, <1>3, <2>1 DEF Shape, Phase, Asked
    <2> QED BY <2>2, <2>3 DEF IInv
  <1>5. CASE Readable(s) /\ Fails(s)
    <2>1. pc' = "Done" /\ result' = Failure(s) /\ UNCHANGED <<inbox, hand>>
      BY <1>5 DEF Poll, Dispatch, Finish
    <2>2. Failure(s) \in Result
      BY NameFacts DEF Failure
    <2> QED BY <1>1, <1>3, <2>1, <2>2, EndKeeps
  <1>6. CASE Readable(s) /\ ~Fails(s)
    <2>1. Dispatch(s) /\ inbox[s] # <<>> /\ Pop(s)
      BY <1>6 DEF Poll, Dispatch, Fails
    <2>2. CASE Matching(s, b, state) = {}
      <3>1. /\ pc' = "Done" /\ result' \in {"UnexpectedType", "UnknownType"}
            /\ hand' = [hand EXCEPT !.side = s, !.units = <<u>>]
        BY <2>1, <2>2, <1>6 DEF Dispatch, Finish
      <3> HIDE DEF b, u
      <3>2. /\ hand'.side = s /\ hand'.units = <<u>>
            /\ hand'.msg \in Msg \cup {TlsResponse} /\ hand'.then \in Then
            /\ hand' = Hold(hand'.side, hand'.msg, hand'.units, hand'.then)
        BY <1>1, <3>1 DEF Hold, Hand
      <3>3. pc' \in Pc /\ result' \in Result
        BY <3>1, NameFacts DEF Pc
      <3>4. AnyTypeOK' /\ Conserved'
        BY <1>2, <1>3, <2>1, <3>2, <3>3, ByteRead DEF u
      <3>5. Shape' /\ Phase'
        BY <1>2, <1>3, <3>1, OrderDone
      <3> QED BY <3>4, <3>5 DEF IInv
    <2>3. CASE Matching(s, b, state) # {}
      <3>1. PICK a \in Matching(s, b, state) : hand' = Hold(s, a.msg, <<u>>, a.to)
        BY <2>1, <2>3, <1>6 DEF Dispatch
      <3>2. pc' = "ReadMsg" /\ result' = result
        BY <2>1, <2>3, <1>6 DEF Dispatch
      <3>3. a \in AllArms /\ TypeByteOf[a.msg] = b
        BY DEF Matching
      <3>4. a.msg \in Msg /\ a.msg # "Initial" /\ a.to \in State \cup {Same, Auth, "Ok"}
        BY <3>3, ArmsType
      <3> HIDE DEF b, u
      <3>5. b \in TypeByte
        BY <3>3, <3>4, TypeByteType
      <3>6. u.val = b
        BY <3>5, HeadByteKnown DEF u, b
      <3>7. /\ hand'.side = s /\ hand'.msg = a.msg /\ hand'.units = <<u>> /\ hand'.then = a.to
            /\ hand' = Hold(hand'.side, hand'.msg, hand'.units, hand'.then)
        BY <3>1 DEF Hold
      <3>8. pc' \in Pc /\ hand'.then \in Then
        BY <3>2, <3>4, <3>7, NameFacts DEF Pc, Then
      <3>9. AnyTypeOK' /\ Conserved' /\ Len(hand'.units) = 1 /\ hand'.units[1] = u
        BY <1>1, <1>2, <1>3, <2>1, <3>2, <3>4, <3>7, <3>8, ByteRead DEF u
      <3>10. a.to \notin {First, FirstInTls}
        BY <3>4, NameFacts DEF Same, Auth, First, FirstInTls
      <3>11. Shape'
        BY <1>2, <1>3, <3>2, <3>3, <3>4, <3>6, <3>7, <3>9, <3>10 DEF Shape, HoldsMsg
      <3>12. Phase'
        BY <1>2, <1>3, <3>2, <3>7, <3>10 DEF Phase, Asked
      <3> QED BY <3>9, <3>11, <3>12 DEF IInv
    <2> QED BY <2>2, <2>3
  <1> QED BY <1>4, <1>5, <1>6

\* The task is woken and polls both sides again.
LEMMA WakeKeeps ==
    ASSUME IInv, Wake, Recorded
    PROVE  IInv'
  <1>1. /\ Shape /\ Phase /\ wrap \in [Side -> Wrap] /\ pc = "Parked" /\ pc' = "Select"
        /\ told' = <<>> /\ UNCHANGED <<state, wrap, inbox, eof, outbox, hand, result>>
    BY TypeParts DEF IInv, Wake
  <1>2. AnyTypeOK' /\ Conserved'
    BY <1>1, StillKeeps, "Select" \in Pc DEF Pc
  <1>3. Shape' /\ Phase'
    BY <1>1 DEF Shape, Phase, Opening, Answering, Asked
  <1> QED BY <1>2, <1>3 DEF IInv

-----------------------------------------------------------------------------
(***************************************************************************)
(* The peers, the initial state and the theorems.                          *)
(***************************************************************************)

\* Whatever a peer sends, and whether it closes the connection or not.
LEMMA EmitKeeps ==
    ASSUME IInv, NEW s \in Side, NEW us \in Seq(Unit), Emit(s, us),
           eof' \in [Side -> BOOLEAN]
    PROVE  IInv'
  <1>1. /\ AnyTypeOK /\ Shape /\ Phase
        /\ inbox' = [inbox EXCEPT ![s] = @ \o us] /\ sent' = [sent EXCEPT ![s] = @ \o us]
        /\ UNCHANGED <<pc, state, wrap, outbox, hand, told, result, log>>
    BY DEF IInv, Emit
  <1>2. inbox[s] \o us \in Seq(Unit) /\ sent[s] \o us \in Seq(Unit)
    BY <1>1, Types, Concat
  <1>3. inbox' \in [Side -> Seq(Unit)] /\ sent' \in [Side -> Seq(Unit)]
    BY <1>1, <1>2 DEF AnyTypeOK, TypeOK
  <1>4. AnyTypeOK'
    BY <1>1, <1>3 DEF AnyTypeOK, TypeOK
  <1>5. Conserved'
    BY <1>1, ConservedSend
  <1>6. Shape' /\ Phase'
    BY <1>1, OrderStill
  <1> QED BY <1>4, <1>5, <1>6 DEF IInv

\* A message as a peer encodes it, and its type byte alone, are units.
LEMMA MessageUnits ==
    ASSUME NEW s \in Side, NEW b \in Says[s]
    PROVE  /\ MsgOf(b.val) \in Msg
           /\ Header(MsgOf(b.val), wrap[s] = "Tls") \in Seq(Unit)
           /\ Header(MsgOf(b.val), wrap[s] = "Tls") \o <<OnWire(s, b)>> \in Seq(Unit)
  <1> DEFINE m == MsgOf(b.val)
             enc == wrap[s] = "Tls"
  <1>1. b \in [val : Body, quality : Quality]
    BY SaysAssumption
  <1>2. b.val \in Body /\ b.quality \in Quality
    BY <1>1
  <1>3. m \in Msg
    BY <1>2, MsgFacts, "Authentication" \in Msg DEF MsgOf, Body, Msg, TypeByteOf
  <1> HIDE DEF m
  <1>4. Header(m, enc) \in Seq(Unit)
    <2>1. CASE TypeByteOf[m] = ""
      BY <2>1, EmptySeq DEF Header
    <2>2. CASE TypeByteOf[m] # ""
      <3>1. TypeByteOf[m] \in Byte
        BY <1>3, <2>2, TypeByteType DEF Byte
      <3> DEFINE first == ByteUnit(TypeByteOf[m], enc)
      <3>2. first \in Unit
        BY <3>1, UnitFacts
      <3>3. Header(m, enc) = <<first>>
        BY <2>2 DEF Header
      <3> HIDE DEF first
      <3>4. <<first>> \in Seq(Unit)
        BY <3>2
      <3> QED BY <3>3, <3>4
    <2> QED BY <2>1, <2>2
  <1>5. OnWire(s, b) \in Unit
    BY <1>2 DEF OnWire, Unit
  <1>6. <<OnWire(s, b)>> \in Seq(Unit)
    BY <1>5
  <1> QED BY <1>3, <1>4, <1>6, Concat DEF m

\* No move of a peer breaks the invariant.
LEMMA PeersKeep ==
    ASSUME IInv, NEW s \in Side, Send(s) \/ SendUnknown(s) \/ AnswerTls \/ Cut(s) \/ Close(s)
    PROVE  IInv'
  <1>1. AnyTypeOK /\ eof \in [Side -> BOOLEAN]
    BY DEF IInv, AnyTypeOK, TypeOK
  <1>2. [eof EXCEPT ![s] = TRUE] \in [Side -> BOOLEAN]
    BY <1>1
  <1>3. CASE Send(s)
    <2>1. PICK b \in Says[s] :
            Emit(s, Header(MsgOf(b.val), wrap[s] = "Tls") \o <<OnWire(s, b)>>)
      BY <1>3 DEF Send
    <2> QED BY <1>1, <1>3, <2>1, MessageUnits, EmitKeeps DEF Send
  <1>4. CASE SendUnknown(s)
    <2>1. ByteUnit(UnknownByte, wrap[s] = "Tls") \in Unit
      BY UnitFacts DEF Byte
    <2>2. <<ByteUnit(UnknownByte, wrap[s] = "Tls")>> \in Seq(Unit)
      BY <2>1
    <2> QED BY <1>1, <1>4, <2>2, EmitKeeps DEF SendUnknown
  <1>5. CASE AnswerTls
    <2>1. PICK b \in {TLS_SUPPORTED, TLS_NOT_SUPPORTED} :
            Emit("Backend", <<ByteUnit(b, wrap["Backend"] = "Tls")>>)
      BY <1>5 DEF AnswerTls
    <2>2. b \in Byte
      BY DEF TLS_SUPPORTED, TLS_NOT_SUPPORTED, Byte, TypeByte
    <2>3. ByteUnit(b, wrap["Backend"] = "Tls") \in Unit
      BY <2>2, UnitFacts
    <2>4. <<ByteUnit(b, wrap["Backend"] = "Tls")>> \in Seq(Unit)
      BY <2>3
    <2> QED BY <1>1, <1>5, <2>1, <2>4, EmitKeeps, "Backend" \in Side DEF AnswerTls, Side
  <1>6. CASE Cut(s)
    <2>1. PICK b \in Says[s] : Emit(s, Header(MsgOf(b.val), wrap[s] = "Tls"))
      BY <1>6 DEF Cut
    <2> QED BY <1>2, <1>6, <2>1, MessageUnits, EmitKeeps DEF Cut
  <1>7. CASE Close(s)
    <2>1. /\ UNCHANGED <<pc, state, wrap, inbox, outbox, hand, told, result, sent, log>>
          /\ eof' = [eof EXCEPT ![s] = TRUE]
      BY <1>7 DEF Close
    <2>2. AnyTypeOK'
      BY <1>1, <1>2, <2>1 DEF AnyTypeOK, TypeOK
    <2>3. Conserved'
      BY <2>1, ConservedStill DEF IInv
    <2>4. Shape' /\ Phase'
      BY <2>1, OrderStill DEF IInv
    <2> QED BY <2>2, <2>3, <2>4 DEF IInv
  <1> QED BY <1>3, <1>4, <1>5, <1>6, <1>7

\* The state in which Conveyor::new leaves a session.
LEMMA InitHolds ==
    ASSUME AnyInit
    PROVE  IInv
  <1>1. /\ hand.side = "Frontend" /\ hand.msg = "Initial" /\ hand.units = <<>>
        /\ hand.then = First
    BY DEF AnyInit, Init, Hold
  <1>2. hand \in Hand
    BY HoldType, EmptySeq, MsgFacts DEF AnyInit, Init, Side, Then
  <1>3. AnyTypeOK
    BY <1>1, <1>2, EmptySeq DEF AnyInit, Init, AnyTypeOK, TypeOK, Hand, Pc, Wrap
  <1>4. Conserved
    <2>1. ASSUME NEW s \in Side PROVE Held(s) \o inbox[s] = <<>>
      <3>1. Held(s) = <<>> /\ inbox[s] = <<>>
        BY <1>1 DEF Held, AnyInit, Init
      <3> QED BY <3>1, ConcatEmptySeq, EmptySeq
    <2>2. ASSUME NEW s \in Side PROVE sent[s] = <<>> /\ outbox[Peer(s)] = <<>>
      BY DEF AnyInit, Init, Peer, Side
    <2>3. ASSUME NEW s \in Side PROVE Carried(s, <<>>, <<>>, <<>>, AskedTls)
      <3>1. Len(<<>>) = 0 /\ 1 .. 0 = {} /\ 0 + 0 = 0
        OBVIOUS
      <3> QED BY <3>1, Zenon DEF Carried
    <2> QED BY <2>1, <2>2, <2>3 DEF Conserved
  <1>5. Shape
    BY <1>1, MsgFacts DEF AnyInit, Init, Shape, HoldsMsg, First, FirstInTls, Same, Auth
  <1>6. Phase
    BY <1>1 DEF AnyInit, Init, Phase, Opening, Answering, Asked, Side
  <1> QED BY <1>3, <1>4, <1>5, <1>6 DEF IInv

\* IInv is inductive: every step of the conveyor and of its peers keeps it.
LEMMA NextKeeps ==
    ASSUME IInv, [AnyNext]_allVars
    PROVE  IInv'
  <1>1. CASE Convey
    <2>1. Step /\ Recorded
      BY <1>1 DEF Convey, Recorded
    <2>2. CASE ReadMsg
      BY <2>1, <2>2, ReadMsgKeeps
    <2>3. CASE Write
      BY <2>1, <2>3, WriteKeeps
    <2>4. CASE ReadTlsResponse
      BY <2>1, <2>4, ReadTlsResponseKeeps
    <2>5. ASSUME NEW s \in Side, SwitchToTls(s) PROVE IInv'
      BY <2>1, <2>5, SwitchToTlsKeeps
    <2>6. ASSUME NEW s \in Side, AwaitTls(s) PROVE IInv'
      BY <2>1, <2>6, AwaitTlsKeeps
    <2>7. CASE PollBackend
      BY <2>1, <2>7, PollKeeps DEF PollBackend, Side
    <2>8. CASE PollFrontend
      BY <2>1, <2>8, PollKeeps DEF PollFrontend, Side
    <2>9. CASE Wake
      BY <2>1, <2>9, WakeKeeps
    <2> QED BY <2>1, <2>2, <2>3, <2>4, <2>5, <2>6, <2>7, <2>8, <2>9 DEF Step
  <1>2. CASE AnswerTls
    BY <1>2, PeersKeep, "Backend" \in Side DEF Side
  <1>3. ASSUME NEW s \in Side, Send(s) \/ SendUnknown(s) \/ Cut(s) \/ Close(s) PROVE IInv'
    BY <1>3, PeersKeep
  <1>4. CASE UNCHANGED allVars
    <2>1. UNCHANGED <<pc, state, wrap, inbox, eof, outbox, hand, told, result, sent, log>>
      BY <1>4 DEF allVars
    <2>2. AnyTypeOK'
      BY <2>1 DEF IInv, AnyTypeOK, TypeOK
    <2>3. Conserved'
      BY <2>1, ConservedStill DEF IInv
    <2>4. Shape' /\ Phase'
      BY <2>1, OrderStill DEF IInv
    <2> QED BY <2>2, <2>3, <2>4 DEF IInv
  <1> QED BY <1>1, <1>2, <1>3, <1>4 DEF AnyNext

\* IInv holds in every reachable state; the other proofs about AnyPeers start from it.
LEMMA IInvAlways == Spec => []IInv
  <1>1. AnyInit => IInv
    BY InitHolds
  <1>2. IInv /\ [AnyNext]_allVars => IInv'
    BY NextKeeps
  <1> QED BY <1>1, <1>2, PTL DEF Spec

(***************************************************************************)
(* Every reachable state of go() and its histories is of its type, and at  *)
(* most one message is ever in hand, whatever the peers say.               *)
(***************************************************************************)
THEOREM TypeCorrect == Spec => []AnyTypeOK
  <1>1. IInv => AnyTypeOK
    BY DEF IInv
  <1> QED BY <1>1, IInvAlways, PTL

(***************************************************************************)
(* go() loses, duplicates, reorders and alters nothing it reads, but for   *)
(* the refusal of TLS that the frontend hears as TLS_SUPPORTED: for peers  *)
(* that say anything, and however they interleave with its awaits.         *)
(***************************************************************************)
THEOREM NothingLost == Spec => []Conserved
  <1>1. IInv => Conserved
    BY DEF IInv
  <1> QED BY <1>1, IInvAlways, PTL

-----------------------------------------------------------------------------
(***************************************************************************)
(* AnyPeers implements Pipe: every step of a session puts something into   *)
(* one of the two pipes, gets the next of what was put in out of one, or   *)
(* is not seen there at all.  The steps need only IInv: Conserved before   *)
(* and after a step tells what the step wrote.                             *)
(***************************************************************************)
\* The pipes' ends, as the refinement mapping names them.
Ins == [s \in Side |-> Vals(sent[s])]
Outs == [s \in Side |-> Vals(outbox[s])]

Val == Byte \cup Body

-----------------------------------------------------------------------------
(***************************************************************************)
(* Values of units.                                                        *)
(***************************************************************************)

\* The values of a sequence of units are a sequence of the same length.
LEMMA ValsFacts ==
    ASSUME NEW us \in Seq(Unit)
    PROVE  /\ Vals(us) \in Seq(Val)
           /\ Len(Vals(us)) = Len(us)
           /\ \A i \in 1 .. Len(us) : Vals(us)[i] = us[i].val
           /\ us = <<>> <=> Vals(us) = <<>>
  <1>1. Len(us) \in Nat /\ \A i \in 1 .. Len(us) : us[i].val \in Val
    BY UnitFacts, ElementOfSeq DEF Val
  <1>2. Vals(us) \in Seq(Val)
    BY <1>1 DEF Vals
  <1>3. Len(Vals(us)) = Len(us)
    BY <1>1 DEF Vals
  <1>4. \A i \in 1 .. Len(us) : Vals(us)[i] = us[i].val
    BY DEF Vals
  <1>5. us = <<>> <=> Vals(us) = <<>>
    BY <1>2, <1>3
  <1> QED BY <1>2, <1>3, <1>4, <1>5

\* What was put in before is what the values behind it leave alone.
LEMMA ValsOfConcat ==
    ASSUME NEW us \in Seq(Unit), NEW more \in Seq(Unit)
    PROVE  /\ Vals(us) = SubSeq(Vals(us \o more), 1, Len(Vals(us)))
           /\ Vals(us \o more) = Vals(us) \o Vals(more)
  <1> DEFINE all == us \o more
  <1>1. /\ all \in Seq(Unit) /\ Len(us) \in Nat /\ Len(more) \in Nat
        /\ Len(all) = Len(us) + Len(more)
        /\ \A i \in 1 .. Len(us) + Len(more) :
             all[i] = IF i <= Len(us) THEN us[i] ELSE more[i - Len(us)]
    BY Concat
  <1> HIDE DEF all
  <1>2. /\ Vals(all) \in Seq(Val) /\ Len(Vals(all)) = Len(all)
        /\ \A i \in 1 .. Len(all) : Vals(all)[i] = all[i].val
    BY <1>1, ValsFacts
  <1>3. /\ Vals(us) \in Seq(Val) /\ Len(Vals(us)) = Len(us)
        /\ \A i \in 1 .. Len(us) : Vals(us)[i] = us[i].val
    BY ValsFacts
  <1>4. /\ Vals(more) \in Seq(Val) /\ Len(Vals(more)) = Len(more)
        /\ \A i \in 1 .. Len(more) : Vals(more)[i] = more[i].val
    BY ValsFacts
  <1>5. Vals(all) = Vals(us) \o Vals(more)
    <2> DEFINE a == Vals(us)
               b == Vals(more)
               cat == a \o b
    <2> HIDE DEF a, b
    <2>1. /\ cat \in Seq(Val) /\ Len(cat) = Len(us) + Len(more)
          /\ \A i \in 1 .. Len(us) + Len(more) :
               cat[i] = IF i <= Len(us) THEN a[i] ELSE b[i - Len(us)]
      <3>1. a \in Seq(Val) /\ b \in Seq(Val) /\ Len(a) = Len(us) /\ Len(b) = Len(more)
        BY <1>3, <1>4 DEF a, b
      <3>2. /\ cat \in Seq(Val) /\ Len(cat) = Len(a) + Len(b)
            /\ \A i \in 1 .. Len(a) + Len(b) :
                 cat[i] = IF i <= Len(a) THEN a[i] ELSE b[i - Len(a)]
        BY <3>1, ConcatProperties
      <3> QED BY <3>1, <3>2
    <2> HIDE DEF cat
    <2>2. ASSUME NEW i \in 1 .. Len(all) PROVE Vals(all)[i] = cat[i]
      <3>1. CASE i <= Len(us)
        BY <3>1, <2>1, <1>1, <1>2, <1>3 DEF a
      <3>2. CASE ~(i <= Len(us))
        <4>1. i - Len(us) \in 1 .. Len(more)
          BY <3>2, <1>1
        <4> QED BY <3>2, <4>1, <2>1, <1>1, <1>2, <1>4 DEF b
      <3> QED BY <3>1, <3>2
    <2>3. Vals(all) = cat
      BY <2>1, <2>2, <1>1, <1>2, SeqEqual
    <2> QED BY <2>3 DEF cat, a, b
  <1>6. Vals(us) = SubSeq(Vals(all), 1, Len(us))
    <2> DEFINE v == Vals(all)
               n == Len(us)
               part == SubSeq(v, 1, n)
    <2>1. \A i \in 1 .. Len(us) : Vals(all)[i] \in Val
      BY <1>1, <1>2, ElementOfSeq
    <2>2. n \in Nat /\ \A i \in 1 .. n : v[i] \in Val
      BY <1>1, <2>1
    <2> HIDE DEF v, n
    <2>3. /\ part \in Seq(Val) /\ Len(part) = n
          /\ \A i \in 1 .. n : part[i] = v[i]
      BY <2>2, SubSeqProperties
    <2> HIDE DEF part
    <2>4. ASSUME NEW i \in 1 .. Len(us) PROVE part[i] = Vals(us)[i]
      <3>1. all[i] = us[i] /\ i \in 1 .. Len(all)
        BY <1>1
      <3>2. part[i] = v[i] /\ v[i] = all[i].val
        BY <3>1, <2>3, <1>2 DEF v, n
      <3> QED BY <3>1, <3>2, <1>3
    <2>5. part = Vals(us)
      BY <2>3, <2>4, <1>3, SeqEqual DEF n
    <2> QED BY <2>5 DEF part, v, n
  <1> QED BY <1>3, <1>5, <1>6 DEF all

-----------------------------------------------------------------------------
(***************************************************************************)
(* Steps of the pipe.                                                      *)
(***************************************************************************)

\* What a peer sends goes into its pipe.
LEMMA SendIsPut ==
    ASSUME AnyTypeOK, NEW s \in Side, NEW us \in Seq(Unit), us # <<>>,
           sent' = [sent EXCEPT ![s] = @ \o us], outbox' = outbox
    PROVE  P!Put(s)
  <1>1. /\ sent \in [Side -> Seq(Unit)] /\ sent[s] \in Seq(Unit) /\ sent' \in [Side -> Seq(Unit)]
        /\ sent'[s] = sent[s] \o us /\ sent'[Peer(s)] = sent[Peer(s)]
        /\ Peer(s) \in Side
    <2>1. sent \in [Side -> Seq(Unit)] /\ sent[s] \in Seq(Unit)
      BY DEF AnyTypeOK
    <2>2. sent[s] \o us \in Seq(Unit)
      BY <2>1, Concat
    <2> QED BY <2>1, <2>2, Types
  <1>2. Len(us) \in Nat \ {0}
    BY EmptySeq
  <1>3. /\ Ins[s] = Vals(sent[s]) /\ Ins'[s] = Vals(sent'[s])
        /\ Ins[Peer(s)] = Vals(sent[Peer(s)]) /\ Ins'[Peer(s)] = Vals(sent'[Peer(s)])
    BY <1>1 DEF Ins
  <1>4. Len(Ins'[s]) > Len(Ins[s])
    <2>1. Len(Ins[s]) = Len(sent[s]) /\ Len(Ins'[s]) = Len(sent[s] \o us)
      BY <1>1, <1>3, ValsFacts
    <2>2. Len(sent[s] \o us) = Len(sent[s]) + Len(us) /\ Len(sent[s]) \in Nat
      BY <1>1, Concat
    <2> QED BY <2>1, <2>2, <1>2
  <1>5. Ins[s] = SubSeq(Ins'[s], 1, Len(Ins[s]))
    BY <1>1, <1>3, ValsOfConcat
  <1>6. Ins'[Peer(s)] = Ins[Peer(s)] /\ Outs' = Outs
    BY <1>1, <1>3 DEF Outs
  <1>7. P!Peer(s) = Peer(s)
    BY DEF P!Peer, Peer
  <1> QED BY <1>4, <1>5, <1>6, <1>7, Zenon DEF P!Put, Ins, Outs

\* What the pipe expects next is what Carried says is heard.
LEMMA ExpectedIsHeard ==
    ASSUME AnyTypeOK, NEW s \in Side, NEW i \in 1 .. Len(sent[s])
    PROVE  P!Expected(s, i) = Heard(s, i, sent[s][i].val, AskedTls)
  <1>1. /\ "Frontend" \in Side /\ sent["Frontend"] \in Seq(Unit) /\ sent[s] \in Seq(Unit)
    BY Types DEF Side
  <1>2. Ins["Frontend"] = Vals(sent["Frontend"]) /\ Ins[s] = Vals(sent[s])
    BY <1>1 DEF Ins
  <1>3. Ins[s][i] = sent[s][i].val
    BY <1>1, <1>2, ValsFacts
  <1>4. Ins["Frontend"] # <<>> /\ Ins["Frontend"][1] = "TLS" <=> AskedTls
    <2>1. Ins["Frontend"] # <<>> <=> sent["Frontend"] # <<>>
      BY <1>1, <1>2, ValsFacts
    <2>2. sent["Frontend"] # <<>> => Ins["Frontend"][1] = sent["Frontend"][1].val
      <3>1. sent["Frontend"] # <<>> => 1 \in 1 .. Len(sent["Frontend"])
        BY <1>1, EmptySeq
      <3> QED BY <3>1, <1>1, <1>2, ValsFacts
    <2> QED BY <2>1, <2>2 DEF AskedTls
  <1>5. P!AnswersTls(s, i) <=> s = "Backend" /\ i = 1 /\ AskedTls
    BY <1>4, Zenon DEF P!AnswersTls, Ins
  <1>6. P!TLS_SUPPORTED = TLS_SUPPORTED /\ P!TLS_NOT_SUPPORTED = TLS_NOT_SUPPORTED
    BY DEF P!TLS_SUPPORTED, P!TLS_NOT_SUPPORTED, TLS_SUPPORTED, TLS_NOT_SUPPORTED
  <1>7. P!Expected(s, i) =
          IF P!AnswersTls(s, i) /\ Ins[s][1] = TLS_NOT_SUPPORTED THEN TLS_SUPPORTED ELSE Ins[s][i]
    BY <1>6, Zenon DEF P!Expected, Ins
  <1>8. CASE s = "Backend" /\ i = 1 /\ AskedTls
    BY <1>8, <1>3, <1>5, <1>7 DEF Heard
  <1>9. CASE ~(s = "Backend" /\ i = 1 /\ AskedTls)
    BY <1>9, <1>3, <1>5, <1>7 DEF Heard
  <1> QED BY <1>8, <1>9

\* What is written comes out of the other side's pipe: the next of what was put in.
LEMMA WriteIsGet ==
    ASSUME AnyTypeOK, AnyTypeOK', Conserved', NEW s \in Side, NEW w \in Seq(Unit),
           Len(w) \in 1 .. 2, outbox' = [outbox EXCEPT ![Peer(s)] = @ \o w], sent' = sent
    PROVE  P!Get(s)
  <1> DEFINE p == Peer(s)
             n == Len(outbox[p])
             k == Len(w)
             next == [i \in 1 .. k |-> P!Expected(s, n + i)]
  <1>1. /\ p \in Side /\ p # s /\ outbox \in [Side -> Seq(Unit)] /\ outbox[p] \in Seq(Unit)
        /\ sent[s] \in Seq(Unit) /\ n \in Nat /\ k \in 1 .. 2 /\ Len(sent[s]) \in Nat
    BY Types, TypeParts, SMTT(40)
  <1>2. outbox'[p] = outbox[p] \o w /\ \A t \in Side \ {p} : outbox'[t] = outbox[t]
    BY <1>1
  <1>3. /\ Len(outbox[p] \o w) = n + k
        /\ \A i \in 1 .. n + k : (outbox[p] \o w)[i] = IF i <= n THEN outbox[p][i] ELSE w[i - n]
    BY <1>1, Concat
  <1>4. AskedTls' = AskedTls
    BY DEF AskedTls
  <1>5. /\ n + k <= Len(sent[s])
        /\ \A i \in 1 .. n + k : (outbox[p] \o w)[i].val = Heard(s, i, sent[s][i].val, AskedTls)
    <2> DEFINE rest == Held(s)' \o inbox'[s]
    <2>1. Carried(s, sent[s], outbox[p] \o w, rest, AskedTls)
      BY <1>2, <1>4 DEF Conserved
    <2>2. Len(rest) \in Nat
      <3>1. Held(s)' \in Seq(Unit) /\ inbox'[s] \in Seq(Unit)
        BY EmptySeq DEF AnyTypeOK, TypeOK, Held
      <3> QED BY <3>1, Concat
    <2> HIDE DEF rest
    <2>3. /\ Len(sent[s]) = n + k + Len(rest)
          /\ \A i \in 1 .. n + k : (outbox[p] \o w)[i].val = Heard(s, i, sent[s][i].val, AskedTls)
      BY <2>1, <1>3 DEF Carried
    <2>4. n + k <= Len(sent[s])
      BY <2>2, <2>3, <1>1
    <2> QED BY <2>3, <2>4
  <1>6. Vals(w) = next
    <2>1. ASSUME NEW i \in 1 .. k PROVE w[i].val = P!Expected(s, n + i)
      <3>1. /\ n + i \in 1 .. n + k /\ ~(n + i <= n) /\ (n + i) - n = i
            /\ n + i \in 1 .. Len(sent[s])
        BY <1>1, <1>5
      <3>2. w[i] = (outbox[p] \o w)[n + i]
        BY <3>1, <1>3
      <3>3. w[i].val = Heard(s, n + i, sent[s][n + i].val, AskedTls)
        BY <3>1, <3>2, <1>5
      <3> QED BY <3>1, <3>3, ExpectedIsHeard
    <2> QED BY <2>1 DEF Vals
  <1>7. Outs' = [Outs EXCEPT ![p] = @ \o next]
    <2> HIDE DEF next
    <2>1. Vals(outbox[p] \o w) = Vals(outbox[p]) \o next
      <3> HIDE DEF p, n, k
      <3> QED BY <1>1, <1>6, ValsOfConcat, ZenonT(40)
    <2> QED BY <1>1, <1>2, <2>1 DEF Outs
  <1>8. /\ Len(Outs[p]) = n /\ Len(Ins[s]) = Len(sent[s]) /\ Ins' = Ins
    BY <1>1, ValsFacts DEF Outs, Ins
  <1>9. P!Peer(s) = p
    BY DEF P!Peer, Peer
  <1>10. n + k <= Len(Ins[s])
    BY <1>5, <1>8
  <1> HIDE DEF n, k, p
  <1>11. \E j \in 1 .. 2 :
            /\ n + j <= Len(Ins[s])
            /\ Outs' = [Outs EXCEPT ![p] = @ \o [i \in 1 .. j |-> P!Expected(s, n + i)]]
    BY <1>1, <1>7, <1>10, Zenon
  <1> DEFINE q == P!Peer(s)
             m == Len(Outs[q])
  <1>12. \E j \in 1 .. 2 :
            /\ m + j <= Len(Ins[s])
            /\ Outs' = [Outs EXCEPT ![q] = @ \o [i \in 1 .. j |-> P!Expected(s, m + i)]]
    <2> HIDE DEF q, m
    <2>1. q = p
      BY <1>9 DEF q
    <2>2. m = n
      BY <1>8, <2>1 DEF m
    <2> QED BY <1>11, <2>1, <2>2, Zenon
  <1> QED BY <1>8, <1>12, Zenon DEF P!Get, Ins, Outs

\* A write is a Get, or none when it failed before anything got out.
LEMMA WritePipes ==
    ASSUME IInv, IInv', Write, sent' = sent
    PROVE  P!Next \/ (Ins' = Ins /\ Outs' = Outs)
  <1> DEFINE s == hand.side
             p == Peer(s)
             out == Outgoing(hand, wrap[p] = "Tls")
  <1>1. /\ AnyTypeOK /\ AnyTypeOK' /\ Conserved' /\ s \in Side /\ p \in Side
        /\ outbox \in [Side -> Seq(Unit)] /\ outbox[p] \in Seq(Unit) /\ pc = "Write"
    BY Types, TypeParts DEF IInv, Write, Side, Peer
  <1>2. out \in Seq(Unit) /\ Len(out) = Len(hand.units)
    BY <1>1, OutgoingIsHeard, (wrap[p] = "Tls") \in BOOLEAN
  <1>3. Len(hand.units) \in 1 .. 2
    BY <1>1 DEF IInv, Shape, TlsHeld, HoldsMsg
  <1>4. Ins' = Ins
    BY DEF Ins
  <1>5. P!Side = Side
    BY DEF P!Side, Side
  <1>6. CASE Disrupted(p)
    BY <1>4, <1>6 DEF Write, Outs
  <1>7. CASE ~Disrupted(p) /\ Written
    <2>1. outbox' = [outbox EXCEPT ![p] = @ \o out]
      BY <1>7 DEF Written
    <2> HIDE DEF out
    <2>2. P!Get(s)
      BY <2>1, <1>1, <1>2, <1>3, WriteIsGet
    <2> QED BY <2>2, <1>1, <1>5, Zenon DEF P!Next
  <1>8. CASE ~Disrupted(p) /\ WriteFails
    <2>1. PICK k \in 0 .. Len(out) - 1 : outbox' = [outbox EXCEPT ![p] = @ \o SubSeq(out, 1, k)]
      BY <1>8 DEF WriteFails
    <2> HIDE DEF out
    <2> DEFINE w == SubSeq(out, 1, k)
    <2>2. w \in Seq(Unit) /\ Len(w) = k
      BY <1>2, <1>3, SubSeqProperties, 1 \in Int, k \in Int, \A i \in 1 .. k : out[i] \in Unit
    <2> HIDE DEF w
    <2>3. CASE k = 0
      <3>1. w = <<>>
        BY <2>2, <2>3, EmptySeq
      <3>2. outbox[p] \o w = outbox[p]
        BY <3>1, <1>1, ConcatEmptySeq
      <3>3. outbox' = outbox
        BY <2>1, <3>2, <1>1 DEF w
      <3> QED BY <3>3, <1>4 DEF Outs
    <2>4. CASE k # 0
      <3>1. Len(w) \in 1 .. 2
        BY <2>1, <2>2, <2>4, <1>2, <1>3
      <3>2. P!Get(s)
        BY <2>1, <2>2, <3>1, <1>1, WriteIsGet DEF w
      <3> QED BY <3>2, <1>1, <1>5, Zenon DEF P!Next
    <2> QED BY <2>3, <2>4
  <1> QED BY <1>6, <1>7, <1>8 DEF Write

\* No other step of the conveyor writes.
LEMMA OthersWriteNothing ==
    ASSUME Step, ~Write
    PROVE  outbox' = outbox
  BY DEF Step, ReadMsg, ReadTlsResponse, SwitchToTls, AwaitTls, PollBackend, PollFrontend, Poll,
         Wake

\* What a peer sends is a Put, or nothing.
LEMMA EmitPipes ==
    ASSUME AnyTypeOK, NEW s \in Side, NEW us \in Seq(Unit), Emit(s, us)
    PROVE  P!Next \/ (Ins' = Ins /\ Outs' = Outs)
  <1>1. /\ sent' = [sent EXCEPT ![s] = @ \o us] /\ outbox' = outbox
        /\ sent \in [Side -> Seq(Unit)] /\ sent[s] \in Seq(Unit)
    BY DEF Emit, AnyTypeOK
  <1>2. CASE us = <<>>
    <2>1. sent[s] \o us = sent[s]
      BY <1>1, <1>2, ConcatEmptySeq
    <2>2. sent' = sent
      BY <1>1, <2>1
    <2> QED BY <1>1, <2>2 DEF Ins, Outs
  <1>3. CASE us # <<>>
    <2>1. P!Put(s)
      BY <1>1, <1>3, SendIsPut
    <2>2. P!Side = Side
      BY DEF P!Side, Side
    <2> QED BY <2>1, <2>2, Zenon DEF P!Next
  <1> QED BY <1>2, <1>3

\* The peers' moves.
LEMMA PeersPipe ==
    ASSUME AnyTypeOK, NEW s \in Side,
           Send(s) \/ SendUnknown(s) \/ AnswerTls \/ Cut(s) \/ Close(s)
    PROVE  P!Next \/ (Ins' = Ins /\ Outs' = Outs)
  <1>1. CASE Send(s) \/ Cut(s)
    <2>1. PICK b \in Says[s] :
            \/ Emit(s, Header(MsgOf(b.val), wrap[s] = "Tls") \o <<OnWire(s, b)>>)
            \/ Emit(s, Header(MsgOf(b.val), wrap[s] = "Tls"))
      BY <1>1 DEF Send, Cut
    <2> QED BY <2>1, MessageUnits, EmitPipes
  <1>2. CASE SendUnknown(s)
    <2>1. ByteUnit(UnknownByte, wrap[s] = "Tls") \in Unit
      BY UnitFacts DEF Byte
    <2>2. <<ByteUnit(UnknownByte, wrap[s] = "Tls")>> \in Seq(Unit)
      BY <2>1
    <2> QED BY <1>2, <2>2, EmitPipes DEF SendUnknown
  <1>3. CASE AnswerTls
    <2>1. PICK b \in {TLS_SUPPORTED, TLS_NOT_SUPPORTED} :
            Emit("Backend", <<ByteUnit(b, wrap["Backend"] = "Tls")>>)
      BY <1>3 DEF AnswerTls
    <2>2. b \in Byte
      BY DEF TLS_SUPPORTED, TLS_NOT_SUPPORTED, Byte, TypeByte
    <2>3. ByteUnit(b, wrap["Backend"] = "Tls") \in Unit
      BY <2>2, UnitFacts
    <2>4. <<ByteUnit(b, wrap["Backend"] = "Tls")>> \in Seq(Unit)
      BY <2>3
    <2> QED BY <2>1, <2>4, EmitPipes, "Backend" \in Side DEF Side
  <1>4. CASE Close(s)
    BY <1>4 DEF Close, Ins, Outs
  <1> QED BY <1>1, <1>2, <1>3, <1>4

\* Every step of AnyPeers is a step of Pipe or changes nothing there.
LEMMA StepPipes ==
    ASSUME IInv, IInv', [AnyNext]_allVars
    PROVE  P!Next \/ (Ins' = Ins /\ Outs' = Outs)
  <1>1. CASE Convey
    <2>1. Step /\ sent' = sent
      BY <1>1 DEF Convey
    <2>2. CASE Write
      BY <2>1, <2>2, WritePipes
    <2>3. CASE ~Write
      BY <2>1, <2>3, OthersWriteNothing DEF Ins, Outs
    <2> QED BY <2>2, <2>3
  <1>2. CASE AnswerTls
    BY <1>2, PeersPipe, "Backend" \in Side DEF IInv, Side
  <1>3. ASSUME NEW s \in Side, Send(s) \/ SendUnknown(s) \/ Cut(s) \/ Close(s)
        PROVE  P!Next \/ (Ins' = Ins /\ Outs' = Outs)
    BY <1>3, PeersPipe DEF IInv
  <1>4. CASE UNCHANGED allVars
    BY <1>4 DEF allVars, Ins, Outs
  <1> QED BY <1>1, <1>2, <1>3, <1>4 DEF AnyNext

\* Conveyor::new finds both pipes empty.
LEMMA InitPipes ==
    ASSUME AnyInit
    PROVE  P!Init
  <1>1. Vals(<<>>) = <<>>
    BY EmptySeq, ValsFacts
  <1>2. \A s \in Side : Vals(sent[s]) = <<>> /\ Vals(outbox[s]) = <<>>
    BY <1>1 DEF AnyInit, Init
  <1>3. P!Side = Side
    BY DEF P!Side, Side
  <1> QED BY <1>2, <1>3 DEF P!Init

(***************************************************************************)
(* A session implements the pipe that Pipe specifies, in both directions:  *)
(* whatever the peers say and wherever a connection breaks, every step of  *)
(* go() and of the peers is a Put, a Get or invisible to the pipe.         *)
(***************************************************************************)
THEOREM Refinement == Spec => IsPipe
  <1>1. AnyInit => P!Init
    BY InitPipes
  <1>2. IInv /\ IInv' /\ [AnyNext]_allVars => [P!Next]_<<Ins, Outs>>
    BY StepPipes
  <1>3. IInv /\ IInv' /\ [AnyNext]_allVars =>
          [P!Next]_<<[s \in Side |-> Vals(sent[s])], [s \in Side |-> Vals(outbox[s])]>>
    BY <1>2 DEF Ins, Outs
  <1> QED BY <1>1, <1>3, IInvAlways, PTL DEF Spec, IsPipe, P!Spec
=============================================================================
