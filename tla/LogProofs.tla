----------------------------- MODULE LogProofs ------------------------------
(***************************************************************************)
(* Proofs about what the callback is told in AnyPeers: of every message    *)
(* that is carried and of no other, in its order, and of at most one that  *)
(* is not carried yet.                                                     *)
(***************************************************************************)
EXTENDS TurnProofs

(***************************************************************************)
(* The log is ahead of the wire exactly between the callback and the write *)
(* of the message it was told of.                                          *)
(***************************************************************************)
InStep ==
    /\ place \in Seq(Nat) /\ Len(place) = Len(log)
    /\ pc # "Done" /\ ~Telling => \A i \in 1 .. Len(log) : ~Unwritten(i)
    /\ Telling => Unwritten(Len(log))

LInv == InStep /\ LoggedIsCarried

\* What Convey notes of what was told.
Noted == place' = IF told' = <<>> THEN place ELSE Append(place, ReadUpTo')

-----------------------------------------------------------------------------
(***************************************************************************)
(* Steps that tell nothing and write nothing.                              *)
(***************************************************************************)

\* The types that the proofs use.
LEMMA LogTypes ==
    ASSUME IInv, LInv
    PROVE  /\ log \in Seq(Entry) /\ Len(log) \in Nat /\ place \in Seq(Nat) /\ Len(place) = Len(log)
           /\ \A i \in 1 .. Len(log) : log[i].side \in Side /\ Peer(log[i].side) \in Side
           /\ \A i \in 1 .. Len(log) : place[i] \in Nat
           /\ \A s \in Side : Len(outbox[s]) \in Nat /\ Len(sent[s]) \in Nat
  <1>1. log \in Seq(Entry) /\ AnyTypeOK
    BY DEF IInv, AnyTypeOK, Entry
  <1>2. \A i \in 1 .. Len(log) : log[i] \in Entry
    BY <1>1
  <1>3. \A i \in 1 .. Len(log) : log[i].side \in Side /\ Peer(log[i].side) \in Side
    BY <1>2 DEF Entry, Side, Peer
  <1>4. place \in Seq(Nat) /\ Len(place) = Len(log)
    BY DEF LInv, InStep
  <1>5. \A i \in 1 .. Len(log) : place[i] \in Nat
    BY <1>4
  <1>6. \A s \in Side : outbox[s] \in Seq(Unit) /\ sent[s] \in Seq(Unit)
    BY <1>1, Types
  <1> QED BY <1>1, <1>3, <1>4, <1>5, <1>6

\* A step that moves nothing of this.
LEMMA LogUnchanged ==
    ASSUME LInv, UNCHANGED <<pc, outbox, hand, result, sent, log, place>>
    PROVE  LInv'
  <1>1. Telling' = Telling /\ ReadUpTo' = ReadUpTo
    BY DEF Telling, TlsHeld, Asked, ReadUpTo
  <1>2. \A i : Unwritten(i)' <=> Unwritten(i)
    BY DEF Unwritten
  <1>3. InStep'
    BY <1>1, <1>2 DEF LInv, InStep
  <1>4. LoggedIsCarried'
    BY <1>1, <1>2 DEF LInv, LoggedIsCarried, ToldIsSent, CarriedIsTold
  <1> QED BY <1>3, <1>4 DEF LInv

\* A step between two messages.
LEMMA LogStill ==
    ASSUME LInv, UNCHANGED <<outbox, sent, log, place>>, pc # "Done", ~Telling, ~Telling'
    PROVE  LInv'
  <1>1. \A i : Unwritten(i)' <=> Unwritten(i)
    BY DEF Unwritten
  <1>2. \A i \in 1 .. Len(log) : ~Unwritten(i)
    BY DEF LInv, InStep
  <1>3. InStep'
    BY <1>1, <1>2 DEF LInv, InStep
  <1>4. LoggedIsCarried'
    BY <1>1, <1>2 DEF LInv, LoggedIsCarried, ToldIsSent, CarriedIsTold
  <1> QED BY <1>3, <1>4 DEF LInv

\* Whatever a peer sends comes behind what the log speaks of.
LEMMA EmitLogs ==
    ASSUME IInv, LInv, NEW s \in Side, NEW us \in Seq(Unit), Emit(s, us)
    PROVE  LInv'
  <1>1. /\ sent \in [Side -> Seq(Unit)] /\ sent' = [sent EXCEPT ![s] = @ \o us]
        /\ sent[s] \in Seq(Unit)
        /\ UNCHANGED <<pc, outbox, hand, result, log, place>>
    BY DEF IInv, AnyTypeOK, Emit
  <1>2. sent'[s] = sent[s] \o us /\ \A t \in Side \ {s} : sent'[t] = sent[t]
    BY <1>1
  <1>3. ASSUME NEW t \in Side, NEW n \in 1 .. Len(sent[t])
        PROVE  n \in 1 .. Len(sent'[t]) /\ sent'[t][n] = sent[t][n]
    <2>1. CASE t = s
      <3>1. PICK all : all = sent'[s]
        OBVIOUS
      <3>2. /\ Len(all) = Len(sent[s]) + Len(us) /\ Len(sent[s]) \in Nat /\ Len(us) \in Nat
            /\ \A i \in 1 .. Len(sent[s]) + Len(us) :
                 all[i] = IF i <= Len(sent[s]) THEN sent[s][i] ELSE us[i - Len(sent[s])]
        BY <1>1, <1>2, <3>1, Concat
      <3>3. n \in 1 .. Len(all) /\ all[n] = sent[s][n]
        BY <1>3, <2>1, <3>2
      <3> QED BY <2>1, <3>1, <3>3
    <2>2. CASE t # s
      BY <1>2, <1>3, <2>2
    <2> QED BY <2>1, <2>2
  <1>4. Telling' = Telling /\ ReadUpTo' = ReadUpTo
    BY <1>1 DEF Telling, TlsHeld, Asked, ReadUpTo
  <1>5. \A i : Unwritten(i)' <=> Unwritten(i)
    BY <1>1 DEF Unwritten
  <1>6. InStep'
    BY <1>1, <1>4, <1>5 DEF LInv, InStep
  <1>7. ToldIsSent'
    <2> SUFFICES ASSUME NEW i \in 1 .. Len(log)
                 PROVE  LET t == log[i].side
                        IN  /\ place[i] \in 1 .. Len(sent'[t])
                            /\ sent'[t][place[i]].val = log[i].body
                            /\ \A j \in 1 .. i - 1 : log[j].side = t => place[j] < place[i]
      BY <1>1 DEF ToldIsSent
    <2>1. log[i].side \in Side
      BY LogTypes
    <2>2. /\ place[i] \in 1 .. Len(sent[log[i].side])
          /\ sent[log[i].side][place[i]].val = log[i].body
          /\ \A j \in 1 .. i - 1 : log[j].side = log[i].side => place[j] < place[i]
      BY DEF LInv, LoggedIsCarried, ToldIsSent
    <2> QED BY <1>3, <2>1, <2>2
  <1>8. CarriedIsTold'
    BY <1>1 DEF LInv, LoggedIsCarried, CarriedIsTold
  <1>9. LoggedIsCarried'
    BY <1>1, <1>4, <1>5, <1>7, <1>8 DEF LInv, LoggedIsCarried
  <1> QED BY <1>6, <1>9 DEF LInv

\* No move of a peer breaks the invariant.
LEMMA PeersLog ==
    ASSUME IInv, LInv, NEW s \in Side,
           Send(s) \/ SendUnknown(s) \/ AnswerTls \/ Cut(s) \/ Close(s)
    PROVE  LInv'
  <1>1. CASE Send(s) \/ Cut(s)
    <2>1. PICK b \in Says[s] :
            \/ Emit(s, Header(MsgOf(b.val), wrap[s] = "Tls") \o <<OnWire(s, b)>>)
            \/ Emit(s, Header(MsgOf(b.val), wrap[s] = "Tls"))
      BY <1>1 DEF Send, Cut
    <2> QED BY <2>1, MessageUnits, EmitLogs
  <1>2. ASSUME NEW t \in Side, NEW b \in Byte, Emit(t, <<ByteUnit(b, wrap[t] = "Tls")>>)
        PROVE  LInv'
    <2>1. ByteUnit(b, wrap[t] = "Tls") \in Unit
      BY UnitFacts
    <2>2. <<ByteUnit(b, wrap[t] = "Tls")>> \in Seq(Unit)
      BY <2>1
    <2> QED BY <1>2, <2>2, EmitLogs
  <1>3. CASE SendUnknown(s)
    BY <1>2, <1>3, InitialBodies DEF SendUnknown
  <1>4. CASE AnswerTls
    BY <1>2, <1>4, InitialBodies, "Backend" \in Side DEF AnswerTls, Side
  <1>5. CASE Close(s)
    BY <1>5, LogUnchanged DEF Close
  <1> QED BY <1>1, <1>3, <1>4, <1>5

-----------------------------------------------------------------------------
(***************************************************************************)
(* The callback is told.                                                   *)
(***************************************************************************)

\* The last unit in hand is where ReadUpTo says.
LEMMA LastRead ==
    ASSUME NEW s, NEW asked, NEW all \in Seq(Unit), NEW out \in Seq(Unit),
           NEW units \in Seq(Unit), NEW rest \in Seq(Unit), units # <<>>,
           Carried(s, all, out, units \o rest, asked)
    PROVE  LET n == Len(out) + Len(units)
           IN  n \in 1 .. Len(all) /\ n > Len(out) /\ all[n] = units[Len(units)]
  <1>1. PICK both : both = units \o rest
    OBVIOUS
  <1>2. /\ Len(all) = Len(out) + Len(both)
        /\ \A i \in 1 .. Len(both) : both[i] = all[Len(out) + i]
    BY <1>1, Zenon DEF Carried
  <1>3. /\ Len(both) = Len(units) + Len(rest)
        /\ \A i \in 1 .. Len(units) + Len(rest) :
             both[i] = IF i <= Len(units) THEN units[i] ELSE rest[i - Len(units)]
    BY <1>1, Concat
  <1>4. PICK k : k = Len(units)
    OBVIOUS
  <1>5. k \in Nat /\ k >= 1 /\ Len(rest) \in Nat /\ Len(out) \in Nat
    BY <1>4, EmptySeq
  <1>6. k \in 1 .. Len(both) /\ both[k] = units[k]
    BY <1>3, <1>4, <1>5
  <1>7. both[k] = all[Len(out) + k]
    BY <1>2, <1>6
  <1>8. Len(out) + k \in 1 .. Len(all) /\ Len(out) + k > Len(out)
    BY <1>2, <1>3, <1>4, <1>5
  <1> QED BY <1>4, <1>6, <1>7, <1>8

\* read_through! tells of the message that it holds.
LEMMA ReadMsgLogs ==
    ASSUME IInv, TInv, LInv, Armed, ReadMsg, Recorded, Noted, IInv'
    PROVE  LInv'
  <1> DEFINE s == hand.side
             u == Head(inbox[s])
             units == Append(hand.units, u)
             e == Message(s, hand.msg, u.val)
             out == outbox[Peer(s)]
             n == Len(out) + Len(units)
  <1>1. /\ pc = "ReadMsg" /\ s \in Side /\ Peer(s) \in Side /\ AnyTypeOK /\ hand.msg \in Msg
        /\ UNCHANGED <<outbox, sent>> /\ ~Telling
        /\ hand.units \in Seq(Unit) /\ out \in Seq(Unit) /\ sent[s] \in Seq(Unit)
    BY Types DEF IInv, ReadMsg, Shape, HoldsMsg, Side, Peer, Telling, Recorded
  <1>2. CASE told' = <<>>
    <2>1. log' = log /\ place' = place
      BY <1>2, NothingTold DEF Noted
    <2>2. pc' = "Done"
      <3>1. CASE Fails(s)
        BY <3>1 DEF ReadMsg, Finish
      <3>2. CASE ~Fails(s)
        BY <1>2, <3>2 DEF ReadMsg, Finish
      <3> QED BY <3>1, <3>2
    <2> QED BY <1>1, <2>1, <2>2, LogStill DEF Telling
  <1>3. CASE told' # <<>>
    <2>1. ~Fails(s)
      BY <1>3 DEF ReadMsg
    <2>2. PICK r \in Outcomes(u, hand.msg) :
            IF r = "ok" THEN
                /\ pc' = "Write"
                /\ hand' = Hold(s, hand.msg, units, Continuation(hand.then, u.val, state))
                /\ told' = <<e>>
                /\ UNCHANGED result
            ELSE told' = <<>>
      BY <2>1 DEF ReadMsg
    <2>3. /\ pc' = "Write" /\ hand'.side = s /\ hand'.msg = hand.msg /\ hand'.units = units
          /\ told' = <<e>> /\ result' = result
      BY <1>3, <2>2 DEF Hold
    <2>4. u \in Unit /\ u.val \in Byte \cup Body
      <3>1. inbox[s] # <<>> /\ Pop(s)
        BY <2>1 DEF Fails, ReadMsg
      <3> QED BY <1>1, <3>1, TypeParts, Popped, UnitFacts
    <2>5. e \in Entry /\ e.side = s /\ e.body = u.val
      BY <1>1, <2>4 DEF Entry, Message
    <2>6. log \in Seq(Entry) /\ place \in Seq(Nat) /\ Len(place) = Len(log) /\ Len(log) \in Nat
      BY LogTypes
    <2> HIDE DEF e, u
    <2>7. units \in Seq(Unit) /\ units # <<>> /\ units[Len(units)] = u
      BY <1>1, <2>4, AppendProperties
    <2>8. n \in 1 .. Len(sent[s]) /\ n > Len(out) /\ sent[s][n] = u
      <3>1. PICK t \in Side : t = s
        BY <1>1
      <3>2. inbox' \in [Side -> Seq(Unit)] /\ Conserved'
        BY DEF IInv, AnyTypeOK, TypeOK
      <3>3. Held(t)' = units
        BY <2>3, <3>1 DEF Held
      <3> HIDE DEF units
      <3>4. Carried(t, sent'[t], outbox'[Peer(t)], units \o inbox'[t], AskedTls')
        BY <3>2, <3>3 DEF Conserved
      <3>5. Carried(t, sent[t], out, units \o inbox'[t], AskedTls')
        BY <1>1, <3>1, <3>4
      <3> HIDE DEF out
      <3> QED BY <1>1, <2>7, <3>1, <3>2, <3>5, LastRead
    <2>9. ReadUpTo' = n
      BY <1>1, <2>3 DEF ReadUpTo
    <2> HIDE DEF units, out, n
    <2>10. log' = Append(log, e) /\ place' = Append(place, n) /\ n \in Nat
      BY <1>3, <2>3, <2>5, <2>6, <2>8, <2>9, AppendIsConcat DEF Recorded, Noted
    <2>11. PICK k : k = Len(log)
      OBVIOUS
    <2>12. /\ k \in Nat /\ Len(log') = k + 1 /\ log'[k + 1] = e
           /\ \A i \in 1 .. k : log'[i] = log[i]
      BY <2>5, <2>6, <2>10, <2>11, Appended
    <2>13. /\ place' \in Seq(Nat) /\ Len(place') = k + 1 /\ place'[k + 1] = n
           /\ \A i \in 1 .. k : place'[i] = place[i]
      BY <2>6, <2>10, <2>11, AppendProperties
    <2>14. ASSUME NEW i \in 1 .. k
           PROVE  /\ ~Unwritten(i) /\ ~Unwritten(i)'
                  /\ log[i].side = s => place[i] < n
      <3>1. ~Unwritten(i)
        BY <1>1, <2>11 DEF LInv, InStep
      <3>2. ~Unwritten(i)'
        BY <1>1, <2>12, <2>13, <3>1 DEF Unwritten
      <3>3. /\ place[i] \in Nat /\ Len(out) \in Nat
            /\ log[i].side = s => ~(place[i] > Len(out))
        BY <1>1, <2>11, <3>1, LogTypes DEF Unwritten, out
      <3> QED BY <2>8, <2>10, <3>1, <3>2, <3>3
    <2>15. Telling' /\ Unwritten(k + 1)'
      <3>1. Telling'
        BY <1>1, <2>3, MsgFacts DEF Telling, TlsHeld
      <3> QED BY <1>1, <2>5, <2>8, <2>12, <2>13, <3>1 DEF Unwritten, out
    <2>16. InStep'
      BY <2>12, <2>13, <2>15 DEF InStep
    <2>17. ToldIsSent'
      <3> SUFFICES ASSUME NEW i \in 1 .. k + 1
                   PROVE  LET t == log'[i].side
                          IN  /\ place'[i] \in 1 .. Len(sent[t])
                              /\ sent[t][place'[i]].val = log'[i].body
                              /\ \A j \in 1 .. i - 1 : log'[j].side = t => place'[j] < place'[i]
        BY <1>1, <2>12 DEF ToldIsSent
      <3>1. CASE i = k + 1
        <4>1. 1 .. i - 1 = 1 .. k
          BY <2>12, <3>1
        <4> QED BY <2>5, <2>8, <2>12, <2>13, <2>14, <3>1, <4>1
      <3>2. CASE i # k + 1
        <4>1. i \in 1 .. k /\ 1 .. i - 1 \subseteq 1 .. k
          BY <2>12, <3>2
        <4>2. /\ place[i] \in 1 .. Len(sent[log[i].side])
              /\ sent[log[i].side][place[i]].val = log[i].body
              /\ \A j \in 1 .. i - 1 : log[j].side = log[i].side => place[j] < place[i]
          BY <2>11, <4>1 DEF LInv, LoggedIsCarried, ToldIsSent
        <4> QED BY <2>12, <2>13, <4>1, <4>2
      <3> QED BY <3>1, <3>2
    <2>18. CarriedIsTold'
      <3> SUFFICES ASSUME NEW t \in Side, NEW m \in 1 .. Len(outbox[Peer(t)]),
                          outbox[Peer(t)][m].val \in Body
                   PROVE  \E i \in 1 .. k + 1 : log'[i].side = t /\ place'[i] = m
        BY <1>1, <2>12 DEF CarriedIsTold
      <3>1. PICK i \in 1 .. k : log[i].side = t /\ place[i] = m
        BY <2>11 DEF LInv, LoggedIsCarried, CarriedIsTold
      <3>2. i \in 1 .. k + 1
        BY <2>12
      <3> QED BY <2>12, <2>13, <3>1, <3>2
    <2>19. \A i \in 1 .. k + 1 : Unwritten(i)' => i = k + 1
      BY <2>12, <2>14
    <2>20. result' # "Ok"
      BY <1>1, <2>3 DEF TInv, Ending, Running
    <2>21. LoggedIsCarried'
      BY <2>3, <2>5, <2>9, <2>12, <2>13, <2>17, <2>18, <2>19, <2>20 DEF LoggedIsCarried
    <2> QED BY <2>16, <2>21 DEF LInv
  <1> QED BY <1>2, <1>3

-----------------------------------------------------------------------------
(***************************************************************************)
(* The write.                                                              *)
(***************************************************************************)

\* Of what is written only the last unit is a body, and that of a message.
LEMMA BodyIsLast ==
    ASSUME IInv, pc = "Write", NEW i \in 1 .. Len(hand.units), NEW m, NEW asked,
           Heard(hand.side, m, hand.units[i].val, asked) \in Body
    PROVE  Telling /\ i = Len(hand.units)
  <1>1. Byte \cap Body = {}
    BY DEF Byte, TypeByte, UnknownByte, Body, InitialBody, AuthenticationBody, Msg, TypeByteOf
  <1>2. hand.units[i].val \notin Byte
    BY <1>1, InitialBodies DEF Heard
  <1>3. CASE TlsHeld
    <2>1. i = 1
      BY <1>3 DEF TlsHeld
    <2> QED BY <1>2, <1>3, <2>1, InitialBodies DEF TlsHeld
  <1>4. CASE ~TlsHeld
    <2>1. HoldsMsg(1)
      BY <1>4 DEF IInv, Shape
    <2>2. CASE hand.msg = "Initial"
      <3>1. Len(hand.units) = 1
        BY <2>1, <2>2, Zenon DEF HoldsMsg
      <3> QED BY <1>4, <3>1 DEF Telling
    <2>3. CASE hand.msg # "Initial"
      <3>1. /\ Len(hand.units) = 1 + 1 /\ hand.msg \in Msg
            /\ hand.units[1].val = TypeByteOf[hand.msg]
        BY <2>1, <2>3, Zenon DEF HoldsMsg
      <3>2. hand.units[1].val \in Byte
        BY <2>3, <3>1, TypeByteType, Zenon DEF Byte
      <3>3. i # 1
        BY <1>2, <3>2
      <3> QED BY <1>4, <3>1, <3>3 DEF Telling
    <2> QED BY <2>2, <2>3
  <1> QED BY <1>3, <1>4

\* While a message waits to be written, it is the last of the log.
LEMMA TellingLast ==
    ASSUME IInv, LInv, Armed, Telling
    PROVE  /\ Len(log) \in 1 .. Len(log) /\ log[Len(log)].side = hand.side
           /\ place[Len(log)] = ReadUpTo
  <1>1. log # <<>> /\ log \in Seq(Entry) /\ Unwritten(Len(log))
    BY LogTypes DEF Armed, LInv, InStep
  <1>2. Len(log) \in 1 .. Len(log)
    BY <1>1, EmptySeq
  <1> QED BY <1>1, <1>2 DEF LInv, LoggedIsCarried

\* A write gets the first k of the units out that are in hand; nothing is told.
GetsOut(k, enc) ==
    /\ outbox' = [outbox EXCEPT ![Peer(hand.side)] = @ \o SubSeq(Outgoing(hand, enc), 1, k)]
    /\ hand'.side = hand.side
    /\ Len(hand'.units) = Len(hand.units) - k
    /\ UNCHANGED <<sent, log, place>>

\* What gets out of a message, all or a part of it, and what of the log is then still ahead.
LEMMA WriteLogs ==
    ASSUME IInv, LInv, Armed, pc = "Write", NEW k \in 0 .. Len(hand.units), NEW enc \in BOOLEAN,
           GetsOut(k, enc)
    PROVE  /\ ToldIsSent' /\ CarriedIsTold'
           /\ Telling /\ k < Len(hand.units) => Unwritten(Len(log))'
           /\ \A i \in 1 .. Len(log) :
                Unwritten(i)' =>
                    /\ Telling /\ k < Len(hand.units)
                    /\ i = Len(log) /\ hand'.side = log[i].side /\ place[i] = ReadUpTo'
  <1> DEFINE s == hand.side
             p == Peer(s)
             w == Outgoing(hand, enc)
             part == SubSeq(w, 1, k)
             out == outbox[p]
             all == out \o part
  <1>1. /\ AnyTypeOK /\ s \in Side /\ p \in Side /\ hand.units \in Seq(Unit)
        /\ outbox \in [Side -> Seq(Unit)] /\ out \in Seq(Unit) /\ Len(hand.units) \in Nat
    BY Types, TypeParts DEF IInv, Side, Peer
  <1>2. /\ w \in Seq(Unit) /\ Len(w) = Len(hand.units)
        /\ \A i \in 1 .. Len(hand.units) :
             w[i].val = Heard(s, Len(out) + i, hand.units[i].val, AskedTls)
    BY OutgoingIsHeard
  <1> HIDE DEF w
  <1>3. part \in Seq(Unit) /\ Len(part) = k /\ \A i \in 1 .. k : part[i] = w[i]
    BY <1>1, <1>2, SubSeqProperties, 1 \in Int, k \in Int, \A i \in 1 .. k : w[i] \in Unit
  <1>4. outbox'[p] = all /\ \A t \in Side \ {p} : outbox'[t] = outbox[t]
    BY <1>1 DEF w, GetsOut
  <1> HIDE DEF part, out
  <1>5. /\ Len(all) = Len(out) + k /\ Len(out) \in Nat /\ k \in Nat
        /\ \A i \in 1 .. Len(out) + k :
             all[i] = IF i <= Len(out) THEN out[i] ELSE part[i - Len(out)]
    <2>1. /\ Len(all) = Len(out) + Len(part)
          /\ \A i \in 1 .. Len(out) + Len(part) :
               all[i] = IF i <= Len(out) THEN out[i] ELSE part[i - Len(out)]
      BY <1>1, <1>3, Concat
    <2> HIDE DEF all
    <2>2. Len(out) \in Nat /\ k \in Nat
      BY <1>1
    <2> QED BY <1>3, <2>1, <2>2
  <1> HIDE DEF all
  <1>6. ToldIsSent' /\ UNCHANGED <<log, place>> /\ hand'.side = hand.side
    BY DEF LInv, LoggedIsCarried, ToldIsSent, GetsOut
  <1>7. ReadUpTo = Len(out) + Len(hand.units) /\ ReadUpTo' = Len(out) + Len(hand.units)
    <2>1. ReadUpTo = Len(out) + Len(hand.units)
      BY DEF ReadUpTo, out
    <2>2. ReadUpTo' = Len(all) + (Len(hand.units) - k)
      <3>1. Len(hand'.units) = Len(hand.units) - k
        BY DEF GetsOut
      <3> QED BY <1>4, <1>6, <3>1 DEF ReadUpTo
    <2>3. PICK h : h = Len(hand.units)
      OBVIOUS
    <2>4. h \in Nat /\ ReadUpTo' = Len(out) + k + (h - k)
      BY <1>1, <1>5, <2>2, <2>3
    <2>5. PICK o : o = Len(out)
      OBVIOUS
    <2>6. o \in Nat /\ k \in Nat
      BY <1>5, <2>5
    <2>7. o + k + (h - k) = o + h
      BY <2>4, <2>6
    <2> QED BY <2>1, <2>3, <2>4, <2>5, <2>7
  <1>8. CarriedIsTold'
    <2> SUFFICES ASSUME NEW t \in Side, NEW n \in 1 .. Len(outbox'[Peer(t)]),
                        outbox'[Peer(t)][n].val \in Body
                 PROVE  \E i \in 1 .. Len(log) : log[i].side = t /\ place[i] = n
      BY <1>6 DEF CarriedIsTold
    <2>1. ASSUME n \in 1 .. Len(outbox[Peer(t)]), outbox[Peer(t)][n].val \in Body
          PROVE  \E i \in 1 .. Len(log) : log[i].side = t /\ place[i] = n
      BY <2>1 DEF LInv, LoggedIsCarried, CarriedIsTold
    <2>2. CASE t # s
      <3>1. Peer(t) \in Side \ {p}
        BY <1>1, <2>2 DEF Side, Peer
      <3> QED BY <1>4, <2>1, <3>1
    <2>3. CASE t = s /\ n <= Len(out)
      <3>1. n \in 1 .. Len(out) /\ all[n] = out[n]
        BY <1>4, <1>5, <2>3
      <3> QED BY <1>4, <2>1, <2>3, <3>1 DEF out
    <2>4. CASE t = s /\ ~(n <= Len(out))
      <3>1. PICK i : i = n - Len(out)
        OBVIOUS
      <3>2. i \in 1 .. k /\ i \in 1 .. Len(hand.units) /\ all[n] = part[i]
        BY <1>1, <1>4, <1>5, <2>4, <3>1
      <3>3. Heard(s, Len(out) + i, hand.units[i].val, AskedTls) \in Body
        BY <1>2, <1>3, <1>4, <2>4, <3>2
      <3>4. Telling /\ i = Len(hand.units)
        BY <3>2, <3>3, BodyIsLast
      <3>5. n = ReadUpTo
        BY <1>5, <1>7, <3>1, <3>4, <1>4, <2>4
      <3> QED BY <2>4, <3>4, <3>5, TellingLast
    <2> QED BY <2>2, <2>3, <2>4
  <1>9. ASSUME NEW i \in 1 .. Len(log), Unwritten(i)'
        PROVE  /\ Telling /\ k < Len(hand.units)
               /\ i = Len(log) /\ hand'.side = log[i].side /\ place[i] = ReadUpTo'
    <2>1. /\ log[i].side \in Side /\ Peer(log[i].side) \in Side /\ place[i] \in Nat
          /\ Len(outbox[Peer(log[i].side)]) \in Nat
      BY LogTypes
    <2>2. place[i] > Len(outbox'[Peer(log[i].side)])
      BY <1>6, <1>9 DEF Unwritten
    <2>3. Len(outbox'[Peer(log[i].side)]) >= Len(outbox[Peer(log[i].side)])
      BY <1>4, <1>5, <2>1 DEF out
    <2>4. Len(outbox'[Peer(log[i].side)]) \in Nat
      BY <1>4, <1>5, <2>1
    <2>5. Unwritten(i)
      BY <2>1, <2>2, <2>3, <2>4 DEF Unwritten
    <2>6. Telling
      BY <2>5 DEF LInv, InStep
    <2>7. i = Len(log) /\ hand.side = log[i].side /\ place[i] = ReadUpTo
      BY <2>5 DEF LInv, LoggedIsCarried
    <2>8. Len(out) + Len(hand.units) > Len(out) + k
      BY <1>4, <1>5, <1>7, <2>2, <2>7
    <2> QED BY <1>1, <1>5, <1>6, <1>7, <2>6, <2>7, <2>8
  <1>10. ASSUME Telling, k < Len(hand.units) PROVE Unwritten(Len(log))'
    <2>1. log[Len(log)].side = s /\ place[Len(log)] = Len(out) + Len(hand.units)
      BY <1>7, <1>10, TellingLast
    <2>2. place[Len(log)] > Len(all)
      BY <1>1, <1>5, <1>10, <2>1
    <2> QED BY <1>4, <1>6, <2>1, <2>2 DEF Unwritten
  <1> QED BY <1>6, <1>8, <1>9, <1>10

\* write_backend and write_frontend bring the wire up to the log, or end go() before it.
LEMMA WriteLog ==
    ASSUME IInv, TInv, LInv, Armed, Write, Recorded, Noted
    PROVE  LInv'
  <1> DEFINE s == hand.side
             p == Peer(s)
             enc == wrap[p] = "Tls"
             w == Outgoing(hand, enc)
             all == Len(hand.units)
  <1>1. /\ pc = "Write" /\ Shape /\ p \in Side /\ hand \in Hand /\ hand.units \in Seq(Unit)
        /\ log' = log /\ place' = place /\ sent' = sent /\ all \in Nat /\ enc \in BOOLEAN
    BY Types, TypeParts, NothingTold DEF IInv, Write, Side, Peer, Hand, Recorded, Noted
  <1>2. ~Disrupted(p)
    BY <1>1, FailureIsIo
  <1>3. w \in Seq(Unit) /\ Len(w) = all
    BY <1>1, OutgoingIsHeard
  <1>4. place \in Seq(Nat) /\ Len(place) = Len(log)
    BY LogTypes
  <1>5. CASE Written
    <2>1. SubSeq(w, 1, all) = w
      BY <1>3, SubSeqFull
    <2>2. outbox' = [outbox EXCEPT ![p] = @ \o SubSeq(w, 1, all)]
      BY <1>5, <2>1 DEF Written
    <2>3. hand'.side = s /\ hand'.units = <<>>
      BY <1>1, <1>5 DEF Written, Hand
    <2>4. all \in 0 .. all /\ Len(hand'.units) = all - all
      BY <1>1, <2>3
    <2>5. GetsOut(all, enc)
      BY <1>1, <2>2, <2>3, <2>4 DEF GetsOut
    <2>6. ~(all < all)
      BY <1>1
    <2> HIDE DEF all, enc
    <2>7. ToldIsSent' /\ CarriedIsTold' /\ \A i \in 1 .. Len(log) : ~Unwritten(i)'
      BY <1>1, <2>4, <2>5, <2>6, WriteLogs DEF all
    <2>8. pc' # "Write"
      BY <1>1, <1>5 DEF Written, Finish, Shape, TlsHeld
    <2> QED BY <1>1, <1>4, <2>7, <2>8 DEF LInv, InStep, LoggedIsCarried, Telling
  <1>6. CASE WriteFails
    <2>1. PICK k \in 0 .. Len(w) - 1 :
            /\ outbox' = [outbox EXCEPT ![p] = @ \o SubSeq(w, 1, k)]
            /\ hand' = [hand EXCEPT !.units = SubSeq(@, k + 1, Len(@))]
      BY <1>6 DEF WriteFails
    <2>2. pc' = "Done" /\ result' = "IoError"
      BY <1>6 DEF WriteFails, Finish
    <2>3. k \in Nat /\ k \in 0 .. all /\ k < all
      BY <1>1, <1>3, <2>1
    <2>4. hand'.side = s /\ hand'.units = SubSeq(hand.units, k + 1, all)
      BY <1>1, <2>1 DEF Hand
    <2>5. Len(hand'.units) = all - k
      <3>1. \A i \in k + 1 .. all : hand.units[i] \in Unit
        BY <1>1, <2>3
      <3>2. Len(SubSeq(hand.units, k + 1, all)) = IF k + 1 <= all THEN all - (k + 1) + 1 ELSE 0
        BY <1>1, <2>3, <3>1, SubSeqProperties
      <3> HIDE DEF all
      <3>3. all - (k + 1) + 1 = all - k /\ k + 1 <= all
        BY <1>1, <2>3
      <3> QED BY <2>4, <3>2, <3>3
    <2>6. GetsOut(k, enc)
      BY <1>1, <2>1, <2>4, <2>5 DEF GetsOut
    <2> HIDE DEF enc
    <2>7. /\ ToldIsSent' /\ CarriedIsTold'
          /\ \A i \in 1 .. Len(log) :
               Unwritten(i)' => /\ i = Len(log) /\ hand'.side = log[i].side
                                /\ place[i] = ReadUpTo'
      BY <1>1, <2>3, <2>6, WriteLogs
    <2> QED BY <1>1, <1>4, <2>2, <2>7 DEF LInv, InStep, LoggedIsCarried, Telling
  <1> QED BY <1>2, <1>5, <1>6 DEF Write

\* The other steps of go() tell nothing and write nothing.
LEMMA OthersLog ==
    ASSUME IInv, LInv, Step, ~ReadMsg, ~Write, Recorded, Noted, IInv'
    PROVE  LInv'
  <1>1. told' = <<>> /\ outbox' = outbox /\ sent' = sent /\ pc \notin {"Done", "Write"}
    BY DEF Step, ReadTlsResponse, SwitchToTls, AwaitTls, PollBackend, PollFrontend, Poll, Wake,
           Recorded
  <1>2. log' = log /\ place' = place
    BY <1>1, NothingTold DEF Noted
  <1>3. pc' = "Write" => hand'.msg = TlsResponse
    <2>1. ASSUME ReadTlsResponse, pc' = "Write" PROVE hand'.msg = TlsResponse
      <3>1. hand' = Hold("Backend", TlsResponse, <<Head(inbox["Backend"])>>, "SwitchFrontend")
        BY <2>1 DEF ReadTlsResponse, Finish
      <3> QED BY <3>1 DEF Hold
    <2>2. ASSUME NEW s \in Side, AwaitTls(s), pc' = "Write" PROVE hand'.msg = TlsResponse
      <3>1. hand' = hand /\ pc = "AwaitBackend"
        BY <2>2 DEF AwaitTls, Finish
      <3> QED BY <3>1 DEF IInv, Shape, TlsHeld
    <2>3. ASSUME NEW s \in Side, SwitchToTls(s) PROVE pc' # "Write"
      BY <2>3 DEF SwitchToTls, Finish
    <2>4. PollBackend \/ PollFrontend \/ Wake => pc' # "Write"
      BY DEF PollBackend, PollFrontend, Poll, Dispatch, Finish, Wake
    <2> QED BY <2>1, <2>2, <2>3, <2>4 DEF Step
  <1>4. ~Telling /\ ~Telling'
    <2>1. pc' = "Write" => TlsHeld'
      BY <1>3, MsgFacts DEF IInv, Shape, HoldsMsg
    <2> QED BY <1>1, <2>1 DEF Telling
  <1> QED BY <1>1, <1>2, <1>4, LogStill

\* With IInv, TInv and Armed, LInv is inductive.
LEMMA NextLog ==
    ASSUME IInv, TInv, Armed, LInv, [AnyNext]_allVars, IInv'
    PROVE  LInv'
  <1>1. CASE Convey
    <2>1. Step /\ Recorded /\ Noted
      BY <1>1 DEF Convey, Recorded, Noted
    <2> QED BY <2>1, ReadMsgLogs, WriteLog, OthersLog
  <1>2. CASE AnswerTls
    BY <1>2, PeersLog, "Backend" \in Side DEF Side
  <1>3. ASSUME NEW s \in Side, Send(s) \/ SendUnknown(s) \/ Cut(s) \/ Close(s) PROVE LInv'
    BY <1>3, PeersLog
  <1>4. CASE UNCHANGED allVars
    BY <1>4, LogUnchanged DEF allVars
  <1> QED BY <1>1, <1>2, <1>3, <1>4 DEF AnyNext

(***************************************************************************)
(* The callback of go() is told exactly of what is carried, in its order,  *)
(* and ahead of the wire only of the one message that go() holds: also     *)
(* when a write fails halfway, whatever and whenever the peers send.       *)
(***************************************************************************)
THEOREM ToldAsCarried == Spec => []LoggedIsCarried
  <1>1. AnyInit => LInv
    <2> SUFFICES ASSUME AnyInit PROVE LInv
      OBVIOUS
    <2>1. /\ log = <<>> /\ place = <<>> /\ pc = "ReadMsg"
          /\ outbox["Frontend"] = <<>> /\ outbox["Backend"] = <<>>
      BY DEF AnyInit, Init, Side
    <2>2. place \in Seq(Nat) /\ Len(place) = Len(log) /\ 1 .. Len(log) = {}
      BY <2>1
    <2>3. \A s \in Side : 1 .. Len(outbox[Peer(s)]) = {}
      BY <2>1 DEF Side, Peer
    <2> QED BY <2>1, <2>2, <2>3
            DEF LInv, InStep, LoggedIsCarried, ToldIsSent, CarriedIsTold, Telling
  <1>2. IInv /\ IInv' /\ TInv /\ Armed /\ LInv /\ [AnyNext]_allVars => LInv'
    BY NextLog
  <1>3. LInv => LoggedIsCarried
    BY DEF LInv
  <1> QED BY <1>1, <1>2, <1>3, IInvAlways, TInvAlways, ArmedAlways, PTL DEF Spec
=============================================================================
