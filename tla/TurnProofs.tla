----------------------------- MODULE TurnProofs -----------------------------
(***************************************************************************)
(* Proofs about the turns of a session in AnyPeers, for every choice of    *)
(* what the peers say: who may speak when, what comes before a query, and  *)
(* what the result of go() tells.  They rest on what go() means to do with *)
(* the message in hand (Armed), and so on the match of its loop, and each  *)
(* of them on what the log says about the state that go() is in.           *)
(***************************************************************************)
EXTENDS TlsProofs

\* What an arm, or the opening, may ask for after the write.
Tos == State \cup {Same, Auth, First, FirstInTls, "Ok"}

\* The message in hand was asked for by the opening, as the refusal of TLS or by an arm.
Reading(to) ==
    \/ hand.side = "Frontend" /\ hand.msg = "Initial" /\ to \in {First, FirstInTls}
    \/ hand.side = "Backend" /\ hand.msg = "ErrorResponse" /\ to = "Ok"
    \/ \E a \in AllArms :
         hand.side = a.side /\ hand.msg = a.msg /\ to = a.to /\ state \in a.in

\* A message was told to the callback and waits to be written.
Telling == pc = "Write" /\ ~TlsHeld

\* The state in which the log leaves go(), or its result.
Ahead == IF pc = "Done" THEN result ELSE IF Telling THEN hand.then ELSE state

(***************************************************************************)
(* What becomes of the message in hand was decided by an arm of the match, *)
(* on the state that go() is still in.                                     *)
(***************************************************************************)
Armed ==
    /\ pc = "ReadMsg" => Reading(hand.then)
    /\ Telling =>
          /\ log # <<>>
          /\ LastLogged.side = hand.side /\ LastLogged.msg = hand.msg
          /\ \E to \in Tos :
               Reading(to) /\ hand.then = Continuation(to, LastLogged.body, state)
    /\ pc \in {"ReadMsg", "Write"} /\ hand.msg \in {"Initial", TlsResponse} => state = NoState
    /\ pc \in {"ReadTlsResponse", "SwitchBackend", "AwaitBackend", "SwitchFrontend",
               "AwaitFrontend"} => state = NoState

(***************************************************************************)
(* The states in which a frontend may speak, each with the messages of the *)
(* backend that lead there.                                                *)
(***************************************************************************)
EnteredBy == [
    ReadyForQuery |-> Idle,
    SuspendedExtendedQuery |-> {"PortalSuspended"},
    AbortedExtendedQuery |-> {"ErrorResponse"},
    CompletedExtendedQuery |-> {"CommandComplete"},
    SeenEmptyExtendedQuery |-> {"EmptyQueryResponse"},
    AskedCleartextPassword |-> {"CleartextPassword"},
    AskedMd5Password |-> {"Md5Password"},
    AskedGssResponse |-> {"Gss", "Sspi", "GssContinue"},
    AskedSaslInitialResponse |-> {"Sasl"},
    AskedSaslResponse |-> {"SaslContinue"}]

Waiting == DOMAIN EnteredBy

\* The backend said one of these, and since then nothing but asides was said.
Called(l, kinds) ==
    \E j \in 1 .. Len(l) :
        /\ l[j].side = "Backend"
        /\ Kind(l[j]) \in kinds
        /\ \A k \in j + 1 .. Len(l) : l[k].msg \in Asides

Spoken == Ahead \in Waiting => Called(log, EnteredBy[Ahead])

(***************************************************************************)
(* The states after authentication, and what the log holds by then.        *)
(***************************************************************************)
After == {"AbortedExtendedQuery", "AbortedParsingOrBinding", "AbortedSimpleQuery",
          "AnsweringToExtendedQuery", "AnsweringToSimpleQuery", "Bound",
          "CompletedExtendedQuery", "CompletedSimpleCommand", "ExecutingExtendedQuery",
          "GotBinding", "GotPreparedStatement", "GotSimpleQuery", "GotSync", "ReadyForQuery",
          "SeenEmptyExtendedQuery", "SeenEmptySimpleQuery", "SentAllBackendParams",
          "SuspendedExtendedQuery"}

Admitted(l) == \E j \in 1 .. Len(l) : l[j].body = "AuthenticationOk"
Keyed(l) ==
    \E j, k \in 1 .. Len(l) :
        j < k /\ l[j].body = "AuthenticationOk" /\ l[k].msg = "BackendKeyData"

Introduced ==
    /\ Ahead = "Authenticated" => Admitted(log)
    /\ Ahead \in After => Keyed(log)

(***************************************************************************)
(* Where the bodies of an Initial are in what was sent, and that go() is   *)
(* past them when its loop begins.                                         *)
(***************************************************************************)
Placed ==
    /\ \A i \in 1 .. Len(sent["Backend"]) : sent["Backend"][i].val \notin InitialBody
    /\ \A i \in 1 .. Len(sent["Frontend"]) :
         sent["Frontend"][i].val \in InitialBody =>
             i = 1 \/ (i = 2 /\ sent["Frontend"][1].val = "TLS")

Started == pc # "Done" /\ state \in State /\ Asked => Len(outbox["Backend"]) >= 2

-----------------------------------------------------------------------------
(***************************************************************************)
(* What the match of go()'s loop says, arm by arm.                         *)
(***************************************************************************)

\* An arm reads from a side, in states of the loop; only Authentication leaves the choice open.
LEMMA ArmFacts ==
    \A a \in AllArms :
        /\ a.in \subseteq State
        /\ a.to = Auth => a.msg = "Authentication" /\ a.side = "Backend"
        /\ a.to = Same => a.msg \in Asides
        /\ a.to = "Ok" => a.msg \in {"Terminate", "ErrorResponse"}
  BY DEF AllArms, BackendArms, FrontendArms, Arm, State, Same, Auth, Asides, AbortsSimpleQuery,
         AbortsParsingOrBinding, AbortsExtendedQuery

\* An arm that makes go() wait for the frontend is one for the backend's call.
LEMMA ArmCalls ==
    \A a \in AllArms :
        a.to \in Waiting =>
            a.side = "Backend" /\ a.msg # "Authentication" /\ a.msg \in EnteredBy[a.to]
  BY DEF AllArms, BackendArms, FrontendArms, Arm, Waiting, EnteredBy, Idle, Same, Auth

\* An arm for the frontend asks that the backend called for this very message.
LEMMA ArmAnswers ==
    \A a \in AllArms :
        a.side = "Frontend" =>
            \A q \in a.in : q \in Waiting /\ EnteredBy[q] \subseteq CalledForBy[a.msg]
  BY DEF AllArms, BackendArms, FrontendArms, Arm, Waiting, EnteredBy, Idle, CalledForBy

\* The messages of a query are read after authentication only.
LEMMA ArmQueries ==
    \A a \in AllArms : a.msg \in QueryPhase => a.in \subseteq After
  BY DEF AllArms, BackendArms, FrontendArms, Arm, QueryPhase, After

\* Only BackendKeyData leads out of authentication, and only from Authenticated.
LEMMA ArmPhases ==
    \A a \in AllArms :
        /\ a.to = "Authenticated" => a.in = {"Authenticated"}
        /\ a.to \in After => \/ a.in \subseteq After
                             \/ a.msg = "BackendKeyData" /\ a.in = {"Authenticated"}
  BY DEF AllArms, BackendArms, FrontendArms, Arm, After, Same, Auth, AbortsSimpleQuery,
         AbortsParsingOrBinding, AbortsExtendedQuery

\* What process_backend_authentication decides.
LEMMA AuthFacts ==
    ASSUME NEW b, NEW st
    PROVE  LET q == ProcessBackendAuthentication(b, st)
           IN  /\ q \in Waiting => b \in EnteredBy[q]
               /\ q = "Authenticated" => b = "AuthenticationOk"
               /\ q \notin After
               /\ q # "Ok"
  BY DEF ProcessBackendAuthentication, Waiting, EnteredBy, After

\* What the match on an Initial decides.
LEMMA InitialFacts ==
    ASSUME NEW b, NEW tls \in BOOLEAN
    PROVE  LET q == OnInitial(b, tls)
           IN  /\ q \notin Waiting /\ q \notin After /\ q # "Authenticated"
               /\ q = "Ok" => b = "Cancel"
               /\ q \notin {"UnexpectedType", "UnknownType"}
  BY DEF OnInitial, Waiting, EnteredBy, After

\* The results are no states, and the states that the proofs name are.
LEMMA TurnNames ==
    /\ Waiting \subseteq State /\ After \subseteq State /\ "Authenticated" \in State
    /\ "Authenticated" \notin After
    /\ Running \notin State /\ NoState \notin State
    /\ \A to \in {"Ok", "ReadTlsResponse"} : to \notin State
  BY DEF Waiting, EnteredBy, After, State, Running, NoState

-----------------------------------------------------------------------------
(***************************************************************************)
(* What a step does to the log: nothing, and go() is where it was, has     *)
(* ended or is not yet in its loop; or it tells of one message, which an   *)
(* arm asked for.                                                          *)
(***************************************************************************)
Quiet == log' = log /\ (Ahead' = Ahead \/ Ahead' \notin State)

Tells(to, b) ==
    /\ Reading(to)
    /\ log' = Append(log, Message(hand.side, hand.msg, b))
    /\ Ahead = state
    /\ Ahead' = Continuation(to, b, state)

Turns == Armed' /\ (Quiet \/ \E to \in Tos, b \in Byte \cup Body : Tells(to, b))

\* A step that ends go() tells nothing.
LEMMA EndTurns ==
    ASSUME pc' = "Done", log' = log, result' \in Result
    PROVE  Turns
  BY NameFacts DEF Turns, Quiet, Ahead, Armed, Telling

\* A step that moves nothing of this.
LEMMA StillTurns ==
    ASSUME Armed, UNCHANGED <<pc, state, outbox, hand, result, log>>
    PROVE  Turns
  <1>1. Ahead' = Ahead
    BY DEF Ahead, Telling, TlsHeld, Asked
  <1>2. Armed'
    BY DEF Armed, Telling, TlsHeld, Asked, Reading, LastLogged
  <1> QED BY <1>1, <1>2 DEF Turns, Quiet

\* A step that tells the callback nothing records nothing.
LEMMA NothingTold ==
    ASSUME IInv, Recorded, told' = <<>>
    PROVE  log' = log
  <1>1. log \in Seq(Entry)
    BY DEF IInv, AnyTypeOK, Entry
  <1> QED BY <1>1, ConcatEmptySeq DEF Recorded

\* read_through! up to its write: the one step that tells.
LEMMA ReadMsgTurns ==
    ASSUME IInv, TInv, Armed, ReadMsg, Recorded
    PROVE  Turns
  <1> DEFINE s == hand.side
             u == Head(inbox[s])
             b == u.val
             then == Continuation(hand.then, b, state)
             e == Message(s, hand.msg, b)
  <1>1. /\ pc = "ReadMsg" /\ s \in Side /\ state' = state /\ AnyTypeOK
        /\ hand.msg \in Msg /\ hand.then \in Tos
    BY Types DEF IInv, ReadMsg, Shape, HoldsMsg, Side, Tos
  <1>2. CASE Fails(s)
    <2>1. pc' = "Done" /\ result' = Failure(s) /\ told' = <<>>
      BY <1>2 DEF ReadMsg, Finish
    <2> QED BY <1>1, <2>1, FailureIsIo, EndTurns, NothingTold, NameFacts
  <1>3. CASE ~Fails(s)
    <2>1. PICK r \in Outcomes(u, hand.msg) :
            IF r = "ok" THEN
                /\ pc' = "Write"
                /\ hand' = Hold(s, hand.msg, Append(hand.units, u), then)
                /\ told' = <<e>>
            ELSE Finish(r) /\ told' = <<>>
      BY <1>3 DEF ReadMsg
    <2>2. CASE r = "ok"
      <3>1. /\ pc' = "Write" /\ hand'.side = s /\ hand'.msg = hand.msg /\ hand'.then = then
            /\ told' = <<e>>
        BY <2>1, <2>2 DEF Hold
      <3>2. Telling' /\ Ahead = state /\ Ahead' = then
        BY <1>1, <3>1, MsgFacts DEF Telling, TlsHeld, Ahead
      <3>3. b \in Byte \cup Body
        <4>1. inbox[s] # <<>> /\ Pop(s)
          BY <1>3 DEF Fails, ReadMsg
        <4> QED BY <1>1, <4>1, TypeParts, Popped, UnitFacts
      <3>4. e \in Entry /\ e.side = s /\ e.msg = hand.msg /\ e.body = b
        BY <1>1, <3>3 DEF Entry, Message
      <3>5. log \in Seq(Entry)
        BY <1>1 DEF AnyTypeOK, Entry
      <3> HIDE DEF e
      <3>6. log' = Append(log, e)
        BY <3>1, <3>4, <3>5, AppendIsConcat DEF Recorded
      <3>7. log' # <<>> /\ LastLogged' = e
        BY <3>4, <3>5, <3>6, AppendProperties DEF LastLogged
      <3> HIDE DEF s, b, then
      <3>8. PICK to \in Tos : to = hand.then
        BY <1>1
      <3>9. Reading(to) /\ Reading(to)'
        <4>1. Reading(to)
          BY <1>1, <3>8 DEF Armed
        <4> QED BY <1>1, <3>1, <4>1 DEF Reading, s
      <3>10. Tells(to, b)
        BY <3>2, <3>6, <3>8, <3>9 DEF Tells, e, s, then
      <3>11. LastLogged'.side = hand'.side /\ LastLogged'.msg = hand'.msg /\ LastLogged'.body = b
        BY <3>1, <3>4, <3>7
      <3>12. hand'.then = Continuation(to, LastLogged'.body, state')
        BY <1>1, <3>1, <3>8, <3>11 DEF then
      <3>13. hand'.msg \in {"Initial", TlsResponse} => state' = NoState
        BY <1>1, <3>1 DEF Armed
      <3>14. Armed'
        BY <3>1, <3>7, <3>9, <3>11, <3>12, <3>13 DEF Armed
      <3> QED BY <3>3, <3>10, <3>14 DEF Turns
    <2>3. CASE r # "ok"
      <3>1. r \in Result
        BY <2>3, Zenon DEF Outcomes, Result
      <3> QED BY <2>1, <2>3, <3>1, EndTurns, NothingTold DEF Finish
    <2> QED BY <2>2, <2>3
  <1> QED BY <1>2, <1>3

\* The write: go() enters the state that the log has led to.
LEMMA WriteTurns ==
    ASSUME IInv, TInv, Armed, Write, Recorded
    PROVE  Turns
  <1>1. /\ pc = "Write" /\ AnyTypeOK /\ Shape /\ Phase /\ Peer(hand.side) \in Side
        /\ hand \in Hand /\ log' = log
    BY Types, TypeParts, NothingTold DEF IInv, Write, Side, Peer
  <1>2. CASE WriteFails
    BY <1>1, <1>2, EndTurns, NameFacts DEF WriteFails, Finish
  <1>3. CASE Written
    <2>1. CASE hand.then \in Result
      BY <1>1, <1>3, <2>1, EndTurns, NameFacts DEF Written, Finish
    <2>2. CASE hand.then \in State
      <3>1. pc' = "Select" /\ state' = hand.then
        BY <1>3, <2>2 DEF Written
      <3>2. Telling
        BY <1>1, <2>2, NameFacts DEF Telling, TlsHeld
      <3>3. Ahead' = Ahead
        BY <1>1, <3>1, <3>2 DEF Ahead, Telling
      <3>4. Armed'
        BY <3>1 DEF Armed, Telling
      <3> QED BY <1>1, <3>3, <3>4 DEF Turns, Quiet
    <2>3. CASE hand.then \notin State \cup Result
      <3>1. pc' = hand.then /\ state' = state
        BY <1>3, <2>3 DEF Written
      <3>2. hand.then \in {"ReadTlsResponse", "SwitchFrontend"}
        BY <1>1, <2>3 DEF Shape, TlsHeld
      <3>3. hand.msg \in {"Initial", TlsResponse}
        BY <1>1, <2>3, NameFacts DEF Shape, TlsHeld, Phase, Opening
      <3>4. state' = NoState
        BY <1>1, <3>1, <3>3 DEF Armed
      <3>5. Ahead' = NoState
        BY <3>1, <3>2, <3>4 DEF Ahead, Telling
      <3>6. Armed'
        BY <3>1, <3>2, <3>4 DEF Armed, Telling
      <3> QED BY <1>1, <3>5, <3>6, TurnNames DEF Turns, Quiet
    <2> QED BY <2>1, <2>2, <2>3
  <1> QED BY <1>1, <1>2, <1>3, FailureIsIo DEF Write

\* Before the loop go() has no state, and tells nothing but an Initial.
LEMMA UnstartedTurns ==
    ASSUME state' = NoState, log' = log,
           \/ pc' \in {"ReadTlsResponse", "SwitchBackend", "AwaitBackend", "SwitchFrontend",
                       "AwaitFrontend"}
           \/ pc' = "Write" /\ TlsHeld'
           \/ pc' = "ReadMsg" /\ \E to : to = hand'.then /\ Reading(to)'
    PROVE  Turns
  <1>1. Ahead' = NoState
    BY DEF Ahead, Telling
  <1>2. Armed'
    BY DEF Armed, Telling
  <1> QED BY <1>1, <1>2, TurnNames DEF Turns, Quiet

\* The answer to the request for TLS, which is told to nobody.
LEMMA ReadTlsResponseTurns ==
    ASSUME IInv, TInv, Armed, ReadTlsResponse, Recorded, IInv'
    PROVE  Turns
  <1> DEFINE b == HeadByte("Backend")
  <1>1. pc = "ReadTlsResponse" /\ "Backend" \in Side /\ log' = log /\ state' = NoState
    BY NothingTold DEF ReadTlsResponse, Side, Armed
  <1>2. CASE Fails("Backend")
    <2>1. pc' = "Done" /\ result' = Failure("Backend")
      BY <1>2 DEF ReadTlsResponse, Finish
    <2> QED BY <1>1, <2>1, FailureIsIo, EndTurns, NameFacts
  <1>3. CASE ~Fails("Backend") /\ b \in {"S", "N"}
    <2>1. /\ pc' \in {"SwitchBackend", "Write"}
          /\ hand' = Hold("Backend", TlsResponse, <<Head(inbox["Backend"])>>, "SwitchFrontend")
      BY <1>3, MsgFacts DEF ReadTlsResponse, TLS_SUPPORTED, TLS_NOT_SUPPORTED
    <2>2. pc' = "Write" => TlsHeld'
      BY <2>1, MsgFacts DEF IInv, Shape, HoldsMsg, Hold
    <2> QED BY <1>1, <2>1, <2>2, UnstartedTurns
  <1>4. CASE ~Fails("Backend") /\ b = "E"
    <2>1. /\ pc' = "ReadMsg"
          /\ hand' = Hold("Backend", "ErrorResponse", <<Head(inbox["Backend"])>>, "Ok")
      BY <1>4, MsgFacts DEF ReadTlsResponse, TLS_SUPPORTED, TLS_NOT_SUPPORTED
    <2>2. hand'.side = "Backend" /\ hand'.msg = "ErrorResponse" /\ hand'.then = "Ok"
      BY <2>1 DEF Hold
    <2>3. Reading("Ok")'
      BY <2>2 DEF Reading
    <2> QED BY <1>1, <2>1, <2>2, <2>3, UnstartedTurns
  <1>5. CASE ~Fails("Backend") /\ b \notin {"S", "N", "E"}
    <2>1. pc' = "Done" /\ result' = "UnknownType"
      BY <1>5, MsgFacts DEF ReadTlsResponse, Finish, TLS_SUPPORTED, TLS_NOT_SUPPORTED
    <2> QED BY <1>1, <2>1, EndTurns, NameFacts
  <1> QED BY <1>2, <1>3, <1>4, <1>5

\* The handshakes.
LEMMA HandshakeTurns ==
    ASSUME IInv, Armed, NEW s \in Side, SwitchToTls(s) \/ AwaitTls(s), Recorded, IInv'
    PROVE  Turns
  <1>1. log' = log /\ state' = NoState
    BY NothingTold DEF SwitchToTls, AwaitTls, Armed
  <1>2. CASE pc' = "Done"
    <2>1. result' \in {"HandshakeDisrupted", "Panicked"}
      BY <1>2 DEF SwitchToTls, AwaitTls, Finish
    <2> QED BY <1>1, <1>2, <2>1, EndTurns, NameFacts
  <1>3. CASE pc' # "Done" /\ SwitchToTls(s)
    <2>1. pc' \in {"AwaitBackend", "AwaitFrontend"}
      BY <1>3 DEF SwitchToTls, Finish
    <2> QED BY <1>1, <2>1, UnstartedTurns
  <1>4. CASE pc' # "Done" /\ AwaitTls(s) /\ s = "Backend"
    <2>1. pc' = "Write" /\ hand' = hand /\ pc = "AwaitBackend"
      BY <1>4 DEF AwaitTls, Finish
    <2>2. TlsHeld'
      BY <2>1, MsgFacts DEF IInv, Shape, HoldsMsg, TlsHeld
    <2> QED BY <1>1, <2>1, <2>2, UnstartedTurns
  <1>5. CASE pc' # "Done" /\ AwaitTls(s) /\ s = "Frontend"
    <2>1. /\ pc' = "ReadMsg" /\ hand'.side = "Frontend" /\ hand'.msg = "Initial"
          /\ hand'.then = FirstInTls
      BY <1>5 DEF AwaitTls, Finish, Hold
    <2>2. Reading(FirstInTls)'
      BY <2>1 DEF Reading
    <2> QED BY <1>1, <2>1, <2>2, UnstartedTurns
  <1> QED BY <1>2, <1>3, <1>4, <1>5 DEF Side

\* A poll: an arm takes the type byte, or go() stays in its state or ends.
LEMMA PollTurns ==
    ASSUME IInv, TInv, Armed, NEW s \in Side, NEW at \in {"Select", "PollFrontend"},
           NEW otherwise \in {"PollFrontend", "Parked"}, Poll(s, at, otherwise), Recorded
    PROVE  Turns
  <1>1. pc = at /\ state' = state /\ log' = log
    BY NothingTold DEF Poll
  <1>2. Ahead = state
    BY <1>1 DEF Ahead, Telling
  <1>3. CASE ~Readable(s)
    <2>1. pc' = otherwise
      BY <1>3 DEF Poll
    <2>2. Ahead' = state
      BY <1>1, <2>1 DEF Ahead, Telling
    <2>3. Armed'
      BY <2>1 DEF Armed, Telling
    <2> QED BY <1>1, <1>2, <2>2, <2>3 DEF Turns, Quiet
  <1>4. CASE Readable(s) /\ Fails(s)
    <2>1. pc' = "Done" /\ result' = Failure(s)
      BY <1>4 DEF Poll, Dispatch, Finish
    <2> QED BY <1>1, <2>1, FailureIsIo, EndTurns, NameFacts
  <1>5. CASE Readable(s) /\ ~Fails(s)
    <2> DEFINE arms == Matching(s, HeadByte(s), state)
    <2>1. CASE arms = {}
      <3>1. pc' = "Done" /\ result' \in {"UnexpectedType", "UnknownType"}
        BY <1>5, <2>1 DEF Poll, Dispatch, Finish
      <3> QED BY <1>1, <3>1, EndTurns, NameFacts
    <2>2. CASE arms # {}
      <3>1. PICK a \in arms : hand' = Hold(s, a.msg, <<Head(inbox[s])>>, a.to)
        BY <1>5, <2>2 DEF Poll, Dispatch
      <3>2. a \in AllArms /\ a.side = s /\ state \in a.in
        BY <3>1 DEF Matching
      <3>3. pc' = "ReadMsg" /\ hand'.side = s /\ hand'.msg = a.msg /\ hand'.then = a.to
        BY <1>5, <2>2, <3>1 DEF Poll, Dispatch, Hold
      <3>4. PICK to : to = a.to
        OBVIOUS
      <3>5. Reading(to)'
        BY <1>1, <3>2, <3>3, <3>4 DEF Reading
      <3>6. hand'.msg \notin {"Initial", TlsResponse}
        BY <3>2, <3>3, ArmsType, MsgFacts
      <3>7. Armed'
        BY <3>3, <3>4, <3>5, <3>6 DEF Armed, Telling
      <3>8. Ahead' = state
        BY <1>1, <3>3 DEF Ahead, Telling
      <3> QED BY <1>1, <1>2, <3>7, <3>8 DEF Turns, Quiet
    <2> QED BY <2>1, <2>2
  <1> QED BY <1>3, <1>4, <1>5

\* The task is woken.
LEMMA WakeTurns ==
    ASSUME IInv, Armed, Wake, Recorded
    PROVE  Turns
  <1>1. pc = "Parked" /\ pc' = "Select" /\ state' = state /\ log' = log
    BY NothingTold DEF Wake
  <1>2. Ahead' = Ahead
    BY <1>1 DEF Ahead, Telling
  <1>3. Armed'
    BY <1>1 DEF Armed, Telling
  <1> QED BY <1>1, <1>2, <1>3 DEF Turns, Quiet

\* No peer changes what go() means to do.
LEMMA PeersTurn ==
    ASSUME Armed, NEW s \in Side,
           Send(s) \/ SendUnknown(s) \/ AnswerTls \/ Cut(s) \/ Close(s)
    PROVE  Turns
  <1>1. UNCHANGED <<pc, state, outbox, hand, result, log>>
    BY DEF Send, SendUnknown, AnswerTls, Cut, Close, Emit
  <1> QED BY <1>1, StillTurns, Zenon

\* With IInv and TInv, Armed is inductive, and every step is quiet or tells of one message.
LEMMA NextTurns ==
    ASSUME IInv, TInv, Armed, [AnyNext]_allVars, IInv'
    PROVE  Turns
  <1>1. CASE Convey
    <2>1. Step /\ Recorded
      BY <1>1 DEF Convey, Recorded
    <2>2. CASE ReadMsg
      BY <2>1, <2>2, ReadMsgTurns
    <2>3. CASE Write
      BY <2>1, <2>3, WriteTurns
    <2>4. CASE ReadTlsResponse
      BY <2>1, <2>4, ReadTlsResponseTurns
    <2>5. ASSUME NEW s \in Side, SwitchToTls(s) \/ AwaitTls(s) PROVE Turns
      BY <2>1, <2>5, HandshakeTurns
    <2>6. CASE PollBackend
      BY <2>1, <2>6, PollTurns DEF PollBackend, Side
    <2>7. CASE PollFrontend
      BY <2>1, <2>7, PollTurns DEF PollFrontend, Side
    <2>8. CASE Wake
      BY <2>1, <2>8, WakeTurns
    <2> QED BY <2>1, <2>2, <2>3, <2>4, <2>5, <2>6, <2>7, <2>8 DEF Step
  <1>2. CASE AnswerTls
    BY <1>2, PeersTurn, "Backend" \in Side DEF Side
  <1>3. ASSUME NEW s \in Side, Send(s) \/ SendUnknown(s) \/ Cut(s) \/ Close(s) PROVE Turns
    BY <1>3, PeersTurn
  <1>4. CASE UNCHANGED allVars
    BY <1>4, StillTurns DEF allVars
  <1> QED BY <1>1, <1>2, <1>3, <1>4 DEF AnyNext

\* Conveyor::new: the first Initial is to be read.
LEMMA InitTurns ==
    ASSUME AnyInit
    PROVE  Armed /\ Ahead = NoState /\ log = <<>>
  <1>1. /\ pc = "ReadMsg" /\ state = NoState /\ log = <<>> /\ hand.side = "Frontend"
        /\ hand.msg = "Initial" /\ hand.then = First
    BY DEF AnyInit, Init, Hold
  <1> QED BY <1>1 DEF Armed, Reading, Telling, Ahead

\* Armed holds in every reachable state.
LEMMA ArmedAlways == Spec => []Armed
  <1>1. AnyInit => Armed
    BY InitTurns
  <1>2. IInv /\ IInv' /\ TInv /\ Armed /\ [AnyNext]_allVars => Armed'
    BY NextTurns DEF Turns
  <1> QED BY <1>1, <1>2, IInvAlways, TInvAlways, PTL DEF Spec

-----------------------------------------------------------------------------
(***************************************************************************)
(* One more message in the log.                                            *)
(***************************************************************************)

\* Where the messages of a longer log come from.
LEMMA Appended ==
    ASSUME NEW l \in Seq(Entry), NEW e \in Entry, NEW more, more = Append(l, e)
    PROVE  /\ Len(l) \in Nat /\ Len(more) = Len(l) + 1 /\ more[Len(l) + 1] = e
           /\ \A i \in 1 .. Len(l) : more[i] = l[i]
  BY AppendProperties

\* What the callback is told is an entry of the log, and where it leads.
LEMMA Told ==
    ASSUME IInv, NEW to \in Tos, NEW b \in Byte \cup Body, Tells(to, b)
    PROVE  LET e == Message(hand.side, hand.msg, b)
           IN  /\ log \in Seq(Entry) /\ e \in Entry /\ log' = Append(log, e)
               /\ e.side = hand.side /\ e.msg = hand.msg /\ e.body = b
  <1>1. log \in Seq(Entry) /\ hand.side \in Side
    BY TypeParts DEF IInv, AnyTypeOK, Entry, Hand
  <1>2. hand.msg \in Msg
    BY MsgFacts, ArmsType DEF Tells, Reading
  <1> QED BY <1>1, <1>2 DEF Tells, Entry, Message

\* How go() goes on, by what the arm asked for.
LEMMA Continues ==
    ASSUME NEW to \in Tos, NEW b, NEW st
    PROVE  LET q == Continuation(to, b, st)
           IN  \/ to \in {First, FirstInTls} /\ \E tls \in BOOLEAN : q = OnInitial(b, tls)
               \/ to = Auth /\ q = ProcessBackendAuthentication(b, st)
               \/ to = Same /\ q = st
               \/ to \in State \cup {"Ok"} /\ q = to
  BY DEF Continuation, Tos, First, FirstInTls, Same, Auth

\* Only an arm asks for a state, for the same one, or for a decision on Authentication.
LEMMA ReadingArm ==
    ASSUME NEW to, Reading(to), to \in State \cup {Same, Auth}
    PROVE  \E a \in AllArms :
             hand.side = a.side /\ hand.msg = a.msg /\ to = a.to /\ state \in a.in
  BY NameFacts DEF Reading, First, FirstInTls, Same, Auth, State

-----------------------------------------------------------------------------
(***************************************************************************)
(* FrontendAnswers.                                                        *)
(***************************************************************************)

\* An aside leaves the call standing.
LEMMA CalledAside ==
    ASSUME NEW l \in Seq(Entry), NEW e \in Entry, NEW kinds, Called(l, kinds), e.msg \in Asides
    PROVE  Called(Append(l, e), kinds)
  <1>1. PICK more : more = Append(l, e)
    OBVIOUS
  <1>2. /\ Len(l) \in Nat /\ Len(more) = Len(l) + 1 /\ more[Len(l) + 1] = e
        /\ \A i \in 1 .. Len(l) : more[i] = l[i]
    BY <1>1, Appended
  <1>3. PICK j \in 1 .. Len(l) :
          /\ l[j].side = "Backend" /\ Kind(l[j]) \in kinds
          /\ \A k \in j + 1 .. Len(l) : l[k].msg \in Asides
    BY DEF Called
  <1>4. j \in 1 .. Len(more) /\ more[j] = l[j]
    BY <1>2
  <1>5. ASSUME NEW k \in j + 1 .. Len(more) PROVE more[k].msg \in Asides
    <2>1. CASE k = Len(l) + 1
      BY <1>2, <2>1
    <2>2. CASE k # Len(l) + 1
      <3>1. k \in j + 1 .. Len(l) /\ k \in 1 .. Len(l)
        BY <1>2, <1>5, <2>2
      <3> QED BY <1>2, <1>3, <3>1
    <2> QED BY <2>1, <2>2
  <1> QED BY <1>1, <1>3, <1>4, <1>5 DEF Called

\* A call of the backend calls.
LEMMA CalledNow ==
    ASSUME NEW l \in Seq(Entry), NEW e \in Entry, NEW kinds, e.side = "Backend",
           Kind(e) \in kinds
    PROVE  Called(Append(l, e), kinds)
  <1>1. PICK more : more = Append(l, e)
    OBVIOUS
  <1>2. Len(l) \in Nat /\ Len(more) = Len(l) + 1 /\ more[Len(l) + 1] = e
    BY <1>1, Appended
  <1>3. PICK n : n = Len(more)
    OBVIOUS
  <1>4. n \in 1 .. Len(more) /\ n + 1 .. Len(more) = {} /\ more[n] = e
    BY <1>2, <1>3
  <1> QED BY <1>1, <1>4 DEF Called

\* A step of go() keeps what the log says about the state it waits in.
LEMMA SpokenKeeps ==
    ASSUME IInv, Spoken, Turns
    PROVE  Spoken'
  <1>1. CASE Quiet
    BY <1>1, TurnNames DEF Quiet, Spoken
  <1>2. ASSUME NEW to \in Tos, NEW b \in Byte \cup Body, Tells(to, b), Ahead' \in Waiting
        PROVE  Called(log', EnteredBy[Ahead'])
    <2> DEFINE e == Message(hand.side, hand.msg, b)
               q == Continuation(to, b, state)
    <2>1. /\ log \in Seq(Entry) /\ e \in Entry /\ log' = Append(log, e)
          /\ e.side = hand.side /\ e.msg = hand.msg /\ e.body = b
      BY <1>2, Told
    <2>2. Ahead = state /\ Ahead' = q /\ Reading(to) /\ q \in Waiting
      BY <1>2 DEF Tells
    <2>3. \/ to \in {First, FirstInTls} /\ \E tls \in BOOLEAN : q = OnInitial(b, tls)
          \/ to = Auth /\ q = ProcessBackendAuthentication(b, state)
          \/ to = Same /\ q = state
          \/ to \in State \cup {"Ok"} /\ q = to
      BY Continues
    <2> HIDE DEF e, q
    <2>4. ~(\E tls \in BOOLEAN : q = OnInitial(b, tls)) /\ q # "Ok"
      BY <2>2, InitialFacts, TurnNames
    <2>5. PICK a \in AllArms :
            hand.side = a.side /\ hand.msg = a.msg /\ to = a.to /\ state \in a.in
      BY <2>2, <2>3, <2>4, ReadingArm
    <2>6. CASE to = Auth /\ q = ProcessBackendAuthentication(b, state)
      <3>1. b \in EnteredBy[q]
        BY <2>2, <2>6, AuthFacts
      <3>2. e.side = "Backend" /\ Kind(e) = b
        BY <2>1, <2>5, <2>6, ArmFacts DEF Kind
      <3> QED BY <2>1, <2>2, <3>1, <3>2, CalledNow
    <2>7. CASE to = Same /\ q = state
      <3>1. Called(log, EnteredBy[q])
        BY <2>2, <2>7 DEF Spoken
      <3>2. e.msg \in Asides
        BY <2>1, <2>5, <2>7, ArmFacts
      <3> QED BY <2>1, <2>2, <3>1, <3>2, CalledAside
    <2>8. CASE to \in State /\ q = to
      <3>1. e.side = "Backend" /\ Kind(e) = e.msg /\ e.msg \in EnteredBy[q]
        BY <2>1, <2>2, <2>5, <2>8, ArmCalls DEF Kind
      <3> QED BY <2>1, <2>2, <3>1, CalledNow
    <2> QED BY <2>3, <2>4, <2>6, <2>7, <2>8
  <1> QED BY <1>1, <1>2 DEF Turns, Spoken

\* And what the frontend says was called for.
LEMMA AnswersKeep ==
    ASSUME IInv, Spoken, FrontendAnswers, Turns
    PROVE  FrontendAnswers'
  <1>1. CASE Quiet
    BY <1>1 DEF Quiet, FrontendAnswers
  <1>2. ASSUME NEW to \in Tos, NEW b \in Byte \cup Body, Tells(to, b) PROVE FrontendAnswers'
    <2> DEFINE e == Message(hand.side, hand.msg, b)
               n == Len(log)
    <2>1. /\ log \in Seq(Entry) /\ e \in Entry /\ log' = Append(log, e)
          /\ e.side = hand.side /\ e.msg = hand.msg
      BY <1>2, Told
    <2> HIDE DEF e
    <2>2. /\ n \in Nat /\ Len(log') = n + 1 /\ log'[n + 1] = e
          /\ \A i \in 1 .. n : log'[i] = log[i]
      BY <2>1, Appended
    <2>3. ASSUME e.side = "Frontend", e.msg # "Initial"
          PROVE  Called(log, CalledForBy[e.msg])
      <3>1. PICK a \in AllArms : hand.side = a.side /\ hand.msg = a.msg /\ state \in a.in
        BY <1>2, <2>1, <2>3 DEF Tells, Reading
      <3>2. state \in Waiting /\ EnteredBy[state] \subseteq CalledForBy[e.msg]
        BY <2>1, <2>3, <3>1, ArmAnswers
      <3>3. Called(log, EnteredBy[state])
        BY <1>2, <3>2 DEF Tells, Spoken
      <3> QED BY <3>2, <3>3 DEF Called
    <2> HIDE DEF n
    <2>4. ASSUME NEW i \in 1 .. Len(log'), log'[i].side = "Frontend", log'[i].msg # "Initial"
          PROVE  \E j \in 1 .. i - 1 :
                    /\ log'[j].side = "Backend"
                    /\ Kind(log'[j]) \in CalledForBy[log'[i].msg]
                    /\ \A k \in j + 1 .. i - 1 : log'[k].msg \in Asides
      <3>1. CASE i = n + 1
        <4>1. PICK j \in 1 .. n :
                /\ log[j].side = "Backend" /\ Kind(log[j]) \in CalledForBy[e.msg]
                /\ \A k \in j + 1 .. n : log[k].msg \in Asides
          BY <2>2, <2>3, <2>4, <3>1 DEF Called, n
        <4>2. i - 1 = n /\ log'[i] = e /\ j + 1 .. n \subseteq 1 .. n
          BY <2>2, <3>1
        <4> QED BY <2>2, <4>1, <4>2
      <3>2. CASE i # n + 1
        <4>1. i \in 1 .. n /\ \A j \in 1 .. i - 1 : j \in 1 .. n /\ j + 1 .. i - 1 \subseteq 1 .. n
          BY <2>2, <2>4, <3>2
        <4>2. log'[i] = log[i]
          BY <2>2, <4>1
        <4>3. PICK j \in 1 .. i - 1 :
                /\ log[j].side = "Backend" /\ Kind(log[j]) \in CalledForBy[log[i].msg]
                /\ \A k \in j + 1 .. i - 1 : log[k].msg \in Asides
          BY <2>4, <4>1, <4>2 DEF FrontendAnswers, n
        <4> QED BY <2>2, <4>1, <4>2, <4>3
      <3> QED BY <3>1, <3>2
    <2> QED BY <2>4 DEF FrontendAnswers
  <1> QED BY <1>1, <1>2 DEF Turns

(***************************************************************************)
(* The match of go() lets a frontend message pass only when the backend    *)
(* has called for it and nothing but asides came since, in every session   *)
(* of any length, whatever the peers send and however they interleave.     *)
(***************************************************************************)
THEOREM FrontendOnlyAnswers == Spec => []FrontendAnswers
  <1>1. AnyInit => Spoken /\ FrontendAnswers
    <2> SUFFICES ASSUME AnyInit PROVE Spoken /\ FrontendAnswers
      OBVIOUS
    <2>1. Ahead \notin Waiting /\ log = <<>>
      BY InitTurns, TurnNames
    <2> QED BY <2>1 DEF Spoken, FrontendAnswers
  <1>2. /\ IInv /\ IInv' /\ TInv /\ Armed /\ Spoken /\ FrontendAnswers /\ [AnyNext]_allVars
        => Spoken' /\ FrontendAnswers'
    BY NextTurns, SpokenKeeps, AnswersKeep
  <1> QED BY <1>1, <1>2, IInvAlways, TInvAlways, ArmedAlways, PTL DEF Spec

-----------------------------------------------------------------------------
(***************************************************************************)
(* AuthenticatedFirst.                                                     *)
(***************************************************************************)

\* What a log holds, a longer one holds; and what its new message brings.
LEMMA Lengthened ==
    ASSUME NEW l \in Seq(Entry), NEW e \in Entry, NEW more, more = Append(l, e)
    PROVE  /\ Admitted(l) \/ e.body = "AuthenticationOk" => Admitted(more)
           /\ Keyed(l) \/ (Admitted(l) /\ e.msg = "BackendKeyData") => Keyed(more)
  <1> DEFINE n == Len(l) + 1
  <1>1. /\ n \in 1 .. Len(more) /\ more[n] = e
        /\ \A i \in 1 .. Len(l) : i \in 1 .. Len(more) /\ i < n /\ more[i] = l[i]
    BY Appended
  <1> HIDE DEF n
  <1> QED BY <1>1 DEF Admitted, Keyed

\* A step of go() keeps what the log says about how far it has come.
LEMMA IntroducedKeeps ==
    ASSUME IInv, Introduced, Turns
    PROVE  Introduced'
  <1>1. CASE Quiet
    BY <1>1, TurnNames DEF Quiet, Introduced
  <1>2. ASSUME NEW to \in Tos, NEW b \in Byte \cup Body, Tells(to, b) PROVE Introduced'
    <2> DEFINE e == Message(hand.side, hand.msg, b)
               q == Continuation(to, b, state)
    <2>1. /\ log \in Seq(Entry) /\ e \in Entry /\ log' = Append(log, e)
          /\ e.msg = hand.msg /\ e.body = b
      BY <1>2, Told
    <2>2. Ahead = state /\ Ahead' = q /\ Reading(to)
      BY <1>2 DEF Tells
    <2>3. \/ to \in {First, FirstInTls} /\ \E tls \in BOOLEAN : q = OnInitial(b, tls)
          \/ to = Auth /\ q = ProcessBackendAuthentication(b, state)
          \/ to = Same /\ q = state
          \/ to \in State \cup {"Ok"} /\ q = to
      BY Continues
    <2> HIDE DEF e, q
    <2>4. /\ Admitted(log) \/ e.body = "AuthenticationOk" => Admitted(log')
          /\ Keyed(log) \/ (Admitted(log) /\ e.msg = "BackendKeyData") => Keyed(log')
      BY <2>1, Lengthened
    <2>5. CASE \E tls \in BOOLEAN : q = OnInitial(b, tls)
      BY <2>2, <2>5, InitialFacts DEF Introduced
    <2>6. CASE to = Auth /\ q = ProcessBackendAuthentication(b, state)
      <3>1. q \notin After /\ (q = "Authenticated" => b = "AuthenticationOk")
        BY <2>6, AuthFacts
      <3> QED BY <2>1, <2>2, <2>4, <3>1 DEF Introduced
    <2>7. CASE to = Same /\ q = state
      BY <2>2, <2>4, <2>7 DEF Introduced
    <2>8. CASE to = "Ok" /\ q = to
      BY <2>2, <2>8, TurnNames DEF Introduced
    <2>9. CASE to \in State /\ q = to
      <3>1. PICK a \in AllArms :
              hand.side = a.side /\ hand.msg = a.msg /\ to = a.to /\ state \in a.in
        BY <2>2, <2>9, ReadingArm
      <3>2. /\ q = "Authenticated" => state = "Authenticated"
            /\ q \in After => \/ state \in After
                              \/ e.msg = "BackendKeyData" /\ state = "Authenticated"
        BY <2>1, <2>9, <3>1, ArmPhases
      <3> QED BY <2>2, <2>4, <3>2 DEF Introduced
    <2> QED BY <2>3, <2>5, <2>6, <2>7, <2>8, <2>9
  <1> QED BY <1>1, <1>2 DEF Turns

\* And nothing of a query is told before.
LEMMA AuthenticatedKeeps ==
    ASSUME IInv, Introduced, AuthenticatedFirst, Turns
    PROVE  AuthenticatedFirst'
  <1>1. CASE Quiet
    BY <1>1 DEF Quiet, AuthenticatedFirst
  <1>2. ASSUME NEW to \in Tos, NEW b \in Byte \cup Body, Tells(to, b) PROVE AuthenticatedFirst'
    <2> DEFINE e == Message(hand.side, hand.msg, b)
               n == Len(log)
    <2>1. /\ log \in Seq(Entry) /\ e \in Entry /\ log' = Append(log, e) /\ e.msg = hand.msg
      BY <1>2, Told
    <2> HIDE DEF e
    <2>2. /\ n \in Nat /\ Len(log') = n + 1 /\ log'[n + 1] = e
          /\ \A i \in 1 .. n : log'[i] = log[i]
      BY <2>1, Appended
    <2>3. ASSUME e.msg \in QueryPhase PROVE Keyed(log)
      <3>1. hand.msg \notin {"Initial", "ErrorResponse"}
        BY <2>1, <2>3 DEF QueryPhase
      <3>2. PICK a \in AllArms : hand.msg = a.msg /\ state \in a.in
        BY <1>2, <3>1 DEF Tells, Reading
      <3>3. Ahead \in After
        BY <1>2, <2>1, <2>3, <3>2, ArmQueries DEF Tells
      <3> QED BY <3>3 DEF Introduced
    <2> HIDE DEF n
    <2>4. ASSUME NEW i \in 1 .. Len(log'), log'[i].msg \in QueryPhase
          PROVE  \E j, k \in 1 .. i - 1 :
                    /\ j < k /\ log'[j].body = "AuthenticationOk"
                    /\ log'[k].msg = "BackendKeyData"
      <3>1. CASE i = n + 1
        <4>1. i - 1 = n /\ log'[i] = e
          BY <2>2, <3>1
        <4> QED BY <2>2, <2>3, <2>4, <4>1 DEF Keyed, n
      <3>2. CASE i # n + 1
        <4>1. i \in 1 .. n /\ \A j \in 1 .. i - 1 : j \in 1 .. n
          BY <2>2, <2>4, <3>2
        <4>2. log'[i] = log[i]
          BY <2>2, <4>1
        <4>3. PICK j, k \in 1 .. i - 1 :
                j < k /\ log[j].body = "AuthenticationOk" /\ log[k].msg = "BackendKeyData"
          BY <2>4, <4>1, <4>2 DEF AuthenticatedFirst, n
        <4> QED BY <2>2, <4>1, <4>3
      <3> QED BY <3>1, <3>2
    <2> QED BY <2>4 DEF AuthenticatedFirst
  <1> QED BY <1>1, <1>2 DEF Turns

(***************************************************************************)
(* go() carries nothing of a query before the backend said Ok to the       *)
(* authentication and then gave its key, in every session of any length.   *)
(***************************************************************************)
THEOREM NoQueryBeforeAuthentication == Spec => []AuthenticatedFirst
  <1>1. AnyInit => Introduced /\ AuthenticatedFirst
    <2> SUFFICES ASSUME AnyInit PROVE Introduced /\ AuthenticatedFirst
      OBVIOUS
    <2>1. Ahead \notin After /\ Ahead # "Authenticated" /\ log = <<>>
      BY InitTurns, TurnNames
    <2> QED BY <2>1 DEF Introduced, AuthenticatedFirst
  <1>2. /\ IInv /\ IInv' /\ TInv /\ Armed /\ Introduced /\ AuthenticatedFirst
        /\ [AnyNext]_allVars
        => Introduced' /\ AuthenticatedFirst'
    BY NextTurns, IntroducedKeeps, AuthenticatedKeeps
  <1> QED BY <1>1, <1>2, IInvAlways, TInvAlways, ArmedAlways, PTL DEF Spec

-----------------------------------------------------------------------------
(***************************************************************************)
(* ResultTells.  That a byte which go() refuses is no body of an Initial   *)
(* needs to know where in the streams those are.                           *)
(***************************************************************************)

\* A body of an Initial is known by its message type, and no type byte is one.
LEMMA InitialBodies ==
    /\ \A b \in Body : MsgOf(b) # "Initial" => b \notin InitialBody
    /\ Byte \cap InitialBody = {}
    /\ TLS_SUPPORTED \in Byte /\ TLS_NOT_SUPPORTED \in Byte /\ UnknownByte \in Byte
  BY DEF MsgOf, InitialBody, Byte, TypeByte, UnknownByte, TLS_SUPPORTED,
         TLS_NOT_SUPPORTED

\* Whatever is no Initial may be sent at any time.
LEMMA PlacedOthers ==
    ASSUME IInv, Placed, NEW s \in Side, NEW us \in Seq(Unit), Emit(s, us),
           \A i \in 1 .. Len(us) : us[i].val \notin InitialBody
    PROVE  Placed'
  <1>1. /\ sent \in [Side -> Seq(Unit)] /\ sent' = [sent EXCEPT ![s] = @ \o us]
        /\ sent[s] \in Seq(Unit)
    BY DEF IInv, AnyTypeOK, Emit
  <1>2. /\ sent'[s] = sent[s] \o us
        /\ \A t \in Side \ {s} : sent'[t] = sent[t]
    BY <1>1
  <1>3. PICK all : all = sent'[s]
    OBVIOUS
  <1>4. /\ Len(all) = Len(sent[s]) + Len(us) /\ Len(sent[s]) \in Nat /\ Len(us) \in Nat
        /\ \A i \in 1 .. Len(sent[s]) + Len(us) :
             all[i] = IF i <= Len(sent[s]) THEN sent[s][i] ELSE us[i - Len(sent[s])]
    BY <1>1, <1>2, <1>3, Concat
  <1>5. ASSUME NEW i \in 1 .. Len(all), all[i].val \in InitialBody
        PROVE  i \in 1 .. Len(sent[s]) /\ all[i] = sent[s][i] /\ all[1] = sent[s][1]
    <2>1. CASE i <= Len(sent[s])
      BY <1>4, <2>1
    <2>2. CASE ~(i <= Len(sent[s]))
      <3>1. all[i] = us[i - Len(sent[s])] /\ i - Len(sent[s]) \in 1 .. Len(us)
        BY <1>4, <2>2
      <3> QED BY <1>5, <3>1
    <2> QED BY <2>1, <2>2
  <1>6. CASE s = "Backend"
    <2>1. \A i \in 1 .. Len(all) : all[i].val \notin InitialBody
      BY <1>5, <1>6 DEF Placed
    <2> QED BY <1>2, <1>3, <1>6, <2>1 DEF Placed, Side
  <1>7. CASE s = "Frontend"
    <2>1. \A i \in 1 .. Len(all) :
            all[i].val \in InitialBody => i = 1 \/ (i = 2 /\ all[1].val = "TLS")
      BY <1>5, <1>7 DEF Placed
    <2> QED BY <1>2, <1>3, <1>7, <2>1 DEF Placed, Side
  <1> QED BY <1>6, <1>7 DEF Side

\* A frontend sends an Initial first, and once more after a request for TLS.
LEMMA PlacedInitial ==
    ASSUME IInv, Placed, NEW u \in Unit, Opens, Emit("Frontend", <<u>>)
    PROVE  Placed'
  <1> DEFINE old == sent["Frontend"]
  <1>1. /\ sent \in [Side -> Seq(Unit)] /\ sent' = [sent EXCEPT !["Frontend"] = @ \o <<u>>]
        /\ old \in Seq(Unit) /\ <<u>> \in Seq(Unit)
    BY DEF IInv, AnyTypeOK, Emit, Side
  <1>2. sent'["Frontend"] = old \o <<u>> /\ sent'["Backend"] = sent["Backend"]
    BY <1>1 DEF Side
  <1>3. PICK all : all = sent'["Frontend"]
    OBVIOUS
  <1>4. /\ Len(all) = Len(old) + 1 /\ Len(old) \in Nat
        /\ \A i \in 1 .. Len(old) : all[i] = old[i]
    BY <1>1, <1>2, <1>3, Concat
  <1>5. \A i \in 1 .. Len(old) : i = 1 /\ old[i].val = "TLS"
    BY DEF Opens
  <1> HIDE DEF old
  <1>6. \A i \in 1 .. Len(all) : i = 1 \/ (i = 2 /\ all[1].val = "TLS")
    <2>1. ~(2 \in 1 .. Len(old))
      BY <1>5
    <2>2. Len(old) \in {0, 1}
      <3>1. PICK n : n = Len(old)
        OBVIOUS
      <3>2. n \in Nat /\ ~(2 \in 1 .. n)
        BY <1>4, <2>1, <3>1
      <3> QED BY <3>1, <3>2
    <2>3. Len(old) = 1 => old[1].val = "TLS" /\ all[1] = old[1]
      BY <1>4, <1>5
    <2> QED BY <1>4, <2>2, <2>3
  <1> QED BY <1>2, <1>3, <1>6 DEF Placed

\* Of a message with a type byte, neither that nor the body is a body of an Initial.
LEMMA TypedUnits ==
    ASSUME NEW s \in Side, NEW b \in Says[s], MsgOf(b.val) # "Initial"
    PROVE  LET h == Header(MsgOf(b.val), wrap[s] = "Tls")
               us == h \o <<OnWire(s, b)>>
           IN  /\ \A i \in 1 .. Len(h) : h[i].val \notin InitialBody
               /\ \A i \in 1 .. Len(us) : us[i].val \notin InitialBody
  <1> DEFINE m == MsgOf(b.val)
             enc == wrap[s] = "Tls"
             first == ByteUnit(TypeByteOf[m], enc)
             last == OnWire(s, b)
  <1>1. b \in [val : Body, quality : Quality] /\ m \in Msg
    BY SaysAssumption, MessageUnits
  <1>2. last.val \notin InitialBody /\ last \in Unit
    BY <1>1, InitialBodies DEF OnWire, Unit
  <1>3. TypeByteOf[m] \in Byte /\ TypeByteOf[m] # ""
    BY <1>1, TypeByteType, MsgFacts DEF Byte
  <1>4. first.val \notin InitialBody /\ first \in Unit
    BY <1>3, InitialBodies, UnitFacts
  <1>5. Header(m, enc) = <<first>>
    BY <1>3 DEF Header
  <1> HIDE DEF first, last
  <1>6. PICK h, us : h = <<first>> /\ us = <<first>> \o <<last>>
    OBVIOUS
  <1>7. <<first>> \in Seq(Unit) /\ <<last>> \in Seq(Unit)
    BY <1>2, <1>4
  <1>8. Len(us) = 2 /\ us[1] = first /\ us[2] = last
    <2>1. Len(<<first>>) = 1 /\ Len(<<last>>) = 1 /\ <<first>>[1] = first /\ <<last>>[1] = last
      OBVIOUS
    <2> QED BY <1>6, <1>7, <2>1, Concat
  <1>9. \A i \in 1 .. Len(us) : us[i].val \notin InitialBody
    BY <1>2, <1>4, <1>8
  <1>10. \A i \in 1 .. Len(h) : h[i].val \notin InitialBody
    <2>1. Len(h) = 1 /\ h[1] = first
      BY <1>6
    <2> QED BY <1>4, <2>1
  <1> QED BY <1>5, <1>6, <1>9, <1>10 DEF m, enc, last

\* A type byte alone is no body of an Initial.
LEMMA PlacedByte ==
    ASSUME IInv, Placed, NEW s \in Side, NEW b \in Byte, NEW enc \in BOOLEAN,
           Emit(s, <<ByteUnit(b, enc)>>)
    PROVE  Placed'
  <1> DEFINE u == ByteUnit(b, enc)
  <1>1. u \in Unit /\ u.val \notin InitialBody
    BY UnitFacts, InitialBodies
  <1> HIDE DEF u
  <1>2. <<u>> \in Seq(Unit) /\ \A i \in 1 .. Len(<<u>>) : <<u>>[i].val \notin InitialBody
    BY <1>1
  <1> QED BY <1>2, PlacedOthers DEF u

\* The peers place their Initials as Opens and MaySend say.
LEMMA PlacedKeeps ==
    ASSUME IInv, Placed, [AnyNext]_allVars
    PROVE  Placed'
  <1>1. ASSUME NEW s \in Side, Send(s) PROVE Placed'
    <2>1. PICK b \in Says[s] :
            /\ MaySend(s, MsgOf(b.val))
            /\ Emit(s, Header(MsgOf(b.val), wrap[s] = "Tls") \o <<OnWire(s, b)>>)
      BY <1>1 DEF Send
    <2>2. CASE MsgOf(b.val) = "Initial"
      <3>1. s = "Frontend" /\ Opens
        BY <2>1, <2>2 DEF MaySend, Side
      <3>2. OnWire(s, b) \in Unit
        BY SaysAssumption DEF OnWire, Unit
      <3>3. <<>> \o <<OnWire(s, b)>> = <<OnWire(s, b)>>
        BY <3>2, ConcatEmptySeq, <<OnWire(s, b)>> \in Seq(Unit)
      <3>4. Header(MsgOf(b.val), wrap[s] = "Tls") = <<>>
        BY <2>2 DEF Header, TypeByteOf
      <3>5. Emit("Frontend", <<OnWire(s, b)>>)
        BY <2>1, <3>1, <3>3, <3>4
      <3> QED BY <3>1, <3>2, <3>5, PlacedInitial
    <2>3. CASE MsgOf(b.val) # "Initial"
      BY <2>1, <2>3, TypedUnits, MessageUnits, PlacedOthers
    <2> QED BY <2>2, <2>3
  <1>2. ASSUME NEW s \in Side, Cut(s) PROVE Placed'
    <2>1. PICK b \in Says[s] :
            MsgOf(b.val) # "Initial" /\ Emit(s, Header(MsgOf(b.val), wrap[s] = "Tls"))
      BY <1>2 DEF Cut
    <2> QED BY <2>1, TypedUnits, MessageUnits, PlacedOthers
  <1>3. ASSUME NEW s \in Side, SendUnknown(s) PROVE Placed'
    BY <1>3, InitialBodies, PlacedByte DEF SendUnknown
  <1>4. CASE AnswerTls
    BY <1>4, InitialBodies, PlacedByte, "Backend" \in Side DEF AnswerTls, Side
  <1>5. CASE sent' = sent
    BY <1>5 DEF Placed
  <1> QED BY <1>1, <1>2, <1>3, <1>4, <1>5 DEF AnyNext, Convey, Close, allVars

\* Only a write changes the state of go() or what a peer gets.
LEMMA OthersStay ==
    ASSUME [AnyNext]_allVars, ~(Convey /\ Write)
    PROVE  UNCHANGED <<state, outbox>>
  BY ZenonT(40) DEF AnyNext, Convey, Step, ReadMsg, ReadTlsResponse, SwitchToTls, AwaitTls, PollBackend,
         PollFrontend, Poll, Wake, Send, SendUnknown, AnswerTls, Cut, Close, Emit, allVars

\* When the loop begins under a request for TLS, two Initials have gone to the backend.
LEMMA StartedKeeps ==
    ASSUME IInv, TInv, Armed, Started, [AnyNext]_allVars
    PROVE  Started'
  <1>1. CASE ~(Convey /\ Write)
    <2>1. state' = state /\ outbox' = outbox
      BY <1>1, OthersStay
    <2>2. pc' # "Done" => pc # "Done"
      BY DEF AnyNext, Convey, Step, ReadMsg, Write, ReadTlsResponse, SwitchToTls, AwaitTls,
             PollBackend, PollFrontend, Poll, Wake, Send, SendUnknown, AnswerTls, Cut, Close,
             Emit, allVars
    <2> QED BY <2>1, <2>2 DEF Started, Asked
  <1>2. ASSUME Convey, Write, pc' # "Done", state' \in State, Asked'
        PROVE  Len(outbox'["Backend"]) >= 2
    <2> DEFINE s == hand.side
               p == Peer(s)
               w == Outgoing(hand, wrap[p] = "Tls")
               old == outbox["Backend"]
    <2>1. /\ pc = "Write" /\ s \in Side /\ p \in Side /\ AnyTypeOK /\ Shape /\ Phase
          /\ outbox \in [Side -> Seq(Unit)] /\ old \in Seq(Unit)
      BY <1>2, Types, TypeParts DEF IInv, Write, Side, Peer
    <2>2. ~Disrupted(p)
      BY <2>1, FailureIsIo
    <2>3. Written
      BY <1>2, <2>2 DEF Write, WriteFails, Finish
    <2>4. outbox' = [outbox EXCEPT ![p] = @ \o w]
      BY <2>3 DEF Written
    <2>5. /\ w \in Seq(Unit) /\ Len(w) = Len(hand.units)
          /\ \A i \in 1 .. Len(hand.units) :
               w[i].val = Heard(s, Len(outbox[p]) + i, hand.units[i].val, AskedTls)
      BY <2>1, OutgoingIsHeard
    <2> HIDE DEF w
    <2>6. Len(w) \in Nat /\ Len(w) >= 1 /\ w # <<>> /\ Len(old) \in Nat
      <3>1. Len(hand.units) \in 1 .. 2
        BY <2>1 DEF Shape, TlsHeld, HoldsMsg
      <3>2. w # <<>>
        BY <2>5, <3>1
      <3> QED BY <2>1, <2>5, <3>1, <3>2
    <2>7. hand.then \in State
      <3>1. CASE hand.then \notin State
        <4>1. state' = state /\ pc' = hand.then
          BY <1>2, <2>3, <3>1 DEF Written, Finish
        <4>2. hand.msg \in {"Initial", TlsResponse}
          BY <1>2, <2>1, <2>3, <3>1, NameFacts
             DEF Shape, TlsHeld, Phase, Opening, Written, Finish
        <4> QED BY <1>2, <2>1, <4>1, <4>2, TurnNames DEF Armed
      <3> QED BY <3>1
    <2>8. Telling
      BY <2>1, <2>7, NameFacts DEF Telling, TlsHeld
    <2>9. CASE s = "Frontend"
      <3>1. outbox'["Backend"] = old \o w
        BY <2>1, <2>4, <2>9 DEF Peer, Side
      <3>2. old # <<>>
        <4>1. CASE old = <<>>
          <5>1. hand.units[1].val # "TLS" /\ hand.msg = "Initial" /\ hand.units \in Seq(Unit)
            BY <2>1, <2>7, <4>1, NameFacts, Types DEF Phase, Opening
          <5>2. w[1].val = hand.units[1].val
            <6>1. 1 \in 1 .. Len(hand.units)
              BY <2>5, <2>6
            <6> QED BY <2>5, <2>9, <6>1 DEF Heard
          <5>3. outbox'["Backend"][1] = w[1]
            BY <3>1, <4>1, <2>1, <2>5, <2>6, FirstWritten
          <5> QED BY <1>2, <5>1, <5>2, <5>3 DEF Asked
        <4> QED BY <4>1
      <3>3. Len(old) >= 1
        BY <2>1, <3>2, EmptySeq
      <3>4. Len(old \o w) = Len(old) + Len(w)
        BY <2>1, <2>5, Concat
      <3> QED BY <2>6, <3>1, <3>3, <3>4
    <2>10. CASE s = "Backend"
      <3>1. outbox'["Backend"] = old
        BY <2>1, <2>4, <2>10 DEF Peer, Side
      <3>2. PICK to \in Tos :
              Reading(to) /\ hand.then = Continuation(to, LastLogged.body, state)
        BY <2>8 DEF Armed
      <3>3. to # "Ok"
        BY <2>7, <3>2, Continues, TurnNames DEF First, FirstInTls, Same, Auth
      <3>4. state \in State
        BY <2>10, <3>2, <3>3, ArmFacts DEF Reading
      <3> QED BY <1>2, <2>1, <3>1, <3>4 DEF Started, Asked
    <2> QED BY <2>1, <2>9, <2>10 DEF Side
  <1> QED BY <1>1, <1>2 DEF Started

\* With nothing in hand, the next unit of a side is the first that did not reach the other.
LEMMA HeadIsSent ==
    ASSUME IInv, hand.units = <<>>, NEW s \in Side, inbox[s] # <<>>
    PROVE  LET n == Len(outbox[Peer(s)]) + 1
           IN  n \in 1 .. Len(sent[s]) /\ Head(inbox[s]) = sent[s][n]
  <1> DEFINE rest == Held(s) \o inbox[s]
             out == outbox[Peer(s)]
  <1>1. /\ AnyTypeOK /\ Conserved /\ inbox[s] \in Seq(Unit) /\ sent[s] \in Seq(Unit)
        /\ Held(s) = <<>> /\ Peer(s) \in Side
    BY Types DEF IInv, Held
  <1>2. rest = inbox[s]
    BY <1>1, ConcatEmptySeq
  <1>3. Carried(s, sent[s], out, inbox[s], AskedTls)
    BY <1>1, <1>2 DEF Conserved
  <1>4. out \in Seq(Unit)
    BY <1>1, Types
  <1> HIDE DEF out
  <1>5. /\ Len(sent[s]) = Len(out) + Len(inbox[s])
        /\ \A i \in 1 .. Len(inbox[s]) : inbox[s][i] = sent[s][Len(out) + i]
    BY <1>3, Zenon DEF Carried
  <1>6. /\ Len(inbox[s]) \in Nat /\ Len(inbox[s]) >= 1 /\ Len(out) \in Nat
        /\ Head(inbox[s]) = inbox[s][1]
    BY <1>1, <1>4, EmptySeq
  <1>7. Len(out) + 1 \in 1 .. Len(sent[s]) /\ inbox[s][1] = sent[s][Len(out) + 1]
    BY <1>5, <1>6
  <1> QED BY <1>6, <1>7 DEF out

\* A type byte that go() does not know or want is no body of an Initial.
LEMMA RefusedIsNoInitial ==
    ASSUME IInv, Placed, Started, NEW s \in Side, inbox[s] # <<>>, hand.units = <<>>,
           \/ pc \in {"Select", "PollFrontend"}
           \/ pc = "ReadTlsResponse" /\ s = "Backend"
    PROVE  Head(inbox[s]).val \notin InitialBody
  <1> DEFINE n == Len(outbox[Peer(s)]) + 1
  <1>1. n \in 1 .. Len(sent[s]) /\ Head(inbox[s]) = sent[s][n]
    BY HeadIsSent
  <1>2. CASE s = "Backend"
    BY <1>1, <1>2 DEF Placed
  <1>3. CASE s = "Frontend"
    <2>1. /\ outbox["Backend"] # <<>> /\ outbox["Backend"] \in Seq(Unit) /\ state \in State
          /\ AnyTypeOK /\ Conserved
      BY <1>3, Types DEF IInv, Phase, Opening, Shape, Side
    <2>2. n = Len(outbox["Backend"]) + 1
      BY <1>3 DEF Peer
    <2>3. Len(outbox["Backend"]) \in Nat /\ Len(outbox["Backend"]) >= 1
      BY <2>1, EmptySeq
    <2>4. sent["Frontend"][1].val = "TLS" => Len(outbox["Backend"]) >= 2
      BY <1>3, <2>1, AskedAgrees DEF Started, AskedTls
    <2> HIDE DEF n
    <2>5. ~(n = 1 \/ (n = 2 /\ sent["Frontend"][1].val = "TLS"))
      BY <2>2, <2>3, <2>4
    <2> QED BY <1>1, <1>3, <2>5 DEF Placed
  <1> QED BY <1>2, <1>3 DEF Side

\* While go() runs there is nothing to tell, and failures of a stream or a body tell nothing.
LEMMA TellsNothing ==
    ASSUME TInv', result' \notin {"Ok", "UnexpectedType", "UnknownType", "TlsRequestedInsideTls",
                                  "Todo", "Unsupported"}
    PROVE  ResultTells'
  BY DEF ResultTells, TInv, Ending

\* go() refuses a type byte, which it holds.
LEMMA RefusalTells ==
    ASSUME IInv, TInv', Placed, Started, NEW s \in Side, inbox[s] # <<>>, hand.units = <<>>,
           \/ pc \in {"Select", "PollFrontend"}
           \/ pc = "ReadTlsResponse" /\ s = "Backend",
           result' \in {"UnexpectedType", "UnknownType"},
           hand' = [hand EXCEPT !.side = s, !.units = <<Head(inbox[s])>>]
    PROVE  ResultTells'
  <1> DEFINE u == Head(inbox[s])
  <1>1. u.val \notin InitialBody
    BY RefusedIsNoInitial
  <1>2. hand \in Hand
    BY TypeParts DEF IInv
  <1> HIDE DEF u
  <1>3. hand'.units = <<u>>
    BY <1>2 DEF Hand, u
  <1>4. Len(hand'.units) = 1 /\ hand'.units[1].val \notin InitialBody
    BY <1>1, <1>3
  <1>5. (result' = Running) = (pc' # "Done")
    BY DEF TInv, Ending
  <1> QED BY <1>4, <1>5 DEF ResultTells

\* What go() returns after a write it has decided on when it told of the message.
LEMMA WriteTells ==
    ASSUME IInv, TInv, TInv', Armed, Write, Recorded
    PROVE  ResultTells'
  <1>1. /\ pc = "Write" /\ Shape /\ Peer(hand.side) \in Side /\ hand \in Hand /\ log' = log
    BY Types, TypeParts, NothingTold DEF IInv, Write, Side, Peer
  <1>2. ~Disrupted(Peer(hand.side))
    BY <1>1, FailureIsIo
  <1>3. CASE WriteFails
    BY <1>3, TellsNothing DEF WriteFails, Finish
  <1>4. CASE Written /\ hand.then \notin Result
    <2>1. pc' # "Done"
      BY <1>1, <1>4, NameFacts DEF Written, Shape, TlsHeld
    <2>2. result' = Running
      BY <2>1 DEF TInv, Ending
    <2> QED BY <2>2, TellsNothing DEF Running
  <1>5. CASE Written /\ hand.then \in Result
    <2>1. result' = hand.then /\ hand'.units = <<>>
      BY <1>1, <1>5, NameFacts DEF Written, Finish, Hand
    <2>2. Telling
      BY <1>1, <1>5, NameFacts DEF Telling, TlsHeld
    <2>3. /\ log # <<>> /\ LastLogged.msg = hand.msg
          /\ \E to \in Tos : Reading(to) /\ hand.then = Continuation(to, LastLogged.body, state)
      BY <2>2 DEF Armed
    <2>4. PICK to \in Tos : Reading(to) /\ hand.then = Continuation(to, LastLogged.body, state)
      BY <2>3
    <2>5. PICK b : b = LastLogged.body
      OBVIOUS
    <2>6. \/ to \in {First, FirstInTls} /\ \E tls \in BOOLEAN : hand.then = OnInitial(b, tls)
          \/ to = Auth /\ hand.then = ProcessBackendAuthentication(b, state)
          \/ to = Same /\ hand.then = state
          \/ to \in State \cup {"Ok"} /\ hand.then = to
      BY <2>4, <2>5, Continues
    <2>7. ASSUME to \in {Same} \cup State
          PROVE  FALSE
      <3>1. PICK a \in AllArms : to = a.to /\ state \in a.in
        BY <2>4, <2>7, ReadingArm
      <3>2. state \in State
        BY <3>1, ArmFacts
      <3> QED BY <1>5, <2>6, <2>7, <3>2, NameFacts DEF First, FirstInTls, Same, Auth
    <2>8. ASSUME to = Auth
          PROVE  LastLogged.msg = "Authentication" /\ hand.then # "Ok"
      <3>1. PICK a \in AllArms : to = a.to /\ hand.msg = a.msg
        BY <2>4, <2>8, ReadingArm
      <3>2. hand.then = ProcessBackendAuthentication(b, state)
        BY <2>6, <2>7, <2>8, NameFacts DEF First, FirstInTls, Auth, Same
      <3> QED BY <2>3, <2>8, <3>1, <3>2, ArmFacts, AuthFacts
    <2>9. ASSUME to \in {First, FirstInTls}
          PROVE  /\ hand.then \notin {"UnexpectedType", "UnknownType"}
                 /\ hand.then = "Ok" => b = "Cancel"
      <3>1. PICK tls \in BOOLEAN : hand.then = OnInitial(b, tls)
        BY <2>6, <2>9, NameFacts DEF First, FirstInTls, Auth, Same
      <3> QED BY <3>1, InitialFacts
    <2>10. ASSUME to = "Ok"
           PROVE  hand.then = "Ok" /\ LastLogged.msg \in {"Terminate", "ErrorResponse"}
      <3>1. hand.then = "Ok"
        BY <2>6, <2>10 DEF First, FirstInTls, Auth, Same
      <3> QED BY <2>3, <2>4, <2>10, <3>1, ArmFacts DEF Reading, First, FirstInTls
    <2>11. to \in {First, FirstInTls, Auth, "Ok"}
      BY <2>7 DEF Tos
    <2>12. LastLogged' = LastLogged /\ log' # <<>>
      BY <1>1, <2>3 DEF LastLogged
    <2>13. (result' = Running) = (pc' # "Done")
      BY DEF TInv, Ending
    <2>14. result' = "Ok" =>
             LastLogged'.body = "Cancel" \/ LastLogged'.msg \in {"Terminate", "ErrorResponse"}
      BY <2>1, <2>5, <2>8, <2>9, <2>10, <2>11, <2>12
    <2>15. result' \in {"UnexpectedType", "UnknownType"} => LastLogged'.msg = "Authentication"
      BY <2>1, <2>8, <2>9, <2>10, <2>11, <2>12
    <2> QED BY <2>1, <2>12, <2>13, <2>14, <2>15 DEF ResultTells
  <1> QED BY <1>2, <1>3, <1>4, <1>5 DEF Write

\* The other steps of go(): a refused type byte, or nothing to tell.
LEMMA StepTells ==
    ASSUME IInv, TInv, TInv', Placed, Started, Armed, Step, Recorded
    PROVE  ResultTells'
  <1>1. CASE ReadMsg
    <2> DEFINE s == hand.side
               u == Head(inbox[s])
    <2>1. CASE Fails(s)
      <3>1. result' = "IoError"
        BY <1>1, <2>1, FailureIsIo, Types DEF ReadMsg, Finish, IInv, Side
      <3> QED BY <3>1, TellsNothing
    <2>2. CASE ~Fails(s)
      <3>1. PICK r \in Outcomes(u, hand.msg) :
              IF r = "ok" THEN pc' = "Write" ELSE Finish(r)
        BY <1>1, <2>2 DEF ReadMsg
      <3>2. r \in {"ok", "EncodeError", "Panicked", "DecodeError", "LeftUndecoded"}
        BY Zenon DEF Outcomes
      <3>3. result' \in {Running, "EncodeError", "Panicked", "DecodeError", "LeftUndecoded"}
        BY <3>1, <3>2 DEF Finish, TInv, Ending
      <3> QED BY <3>3, TellsNothing DEF Running
    <2> QED BY <2>1, <2>2
  <1>2. CASE Write
    BY <1>2, WriteTells
  <1>3. CASE ReadTlsResponse
    <2>1. pc = "ReadTlsResponse" /\ hand.units = <<>> /\ "Backend" \in Side
      BY <1>3 DEF ReadTlsResponse, IInv, Shape, Side
    <2>2. CASE Fails("Backend")
      <3>1. result' = "IoError"
        BY <1>3, <2>1, <2>2, FailureIsIo DEF ReadTlsResponse, Finish
      <3> QED BY <3>1, TellsNothing
    <2>3. CASE ~Fails("Backend")
      <3>1. \/ pc' # "Done"
            \/ /\ result' = "UnknownType"
               /\ hand' = [hand EXCEPT !.side = "Backend", !.units = <<Head(inbox["Backend"])>>]
        BY <1>3, <2>3 DEF ReadTlsResponse, Finish
      <3>2. CASE pc' # "Done"
        BY <3>2, TellsNothing DEF TInv, Ending, Running
      <3> QED BY <2>1, <2>3, <3>1, <3>2, RefusalTells DEF Fails
    <2> QED BY <2>2, <2>3
  <1>4. ASSUME NEW s \in Side, SwitchToTls(s) \/ AwaitTls(s) PROVE ResultTells'
    <2>1. result' \in {Running, "HandshakeDisrupted", "Panicked"}
      BY <1>4 DEF SwitchToTls, AwaitTls, Finish, TInv, Ending
    <2> QED BY <2>1, TellsNothing DEF Running
  <1>5. ASSUME NEW s \in Side, NEW at \in {"Select", "PollFrontend"},
               NEW otherwise \in {"PollFrontend", "Parked"}, Poll(s, at, otherwise)
        PROVE  ResultTells'
    <2>1. pc = at /\ hand.units = <<>>
      BY <1>5 DEF Poll, IInv, Shape
    <2>2. CASE pc' # "Done"
      BY <2>2, TellsNothing DEF TInv, Ending, Running
    <2>3. CASE pc' = "Done" /\ Fails(s)
      <3>1. result' = "IoError"
        BY <1>5, <2>1, <2>3, FailureIsIo DEF Poll, Dispatch, Finish
      <3> QED BY <3>1, TellsNothing
    <2>4. CASE pc' = "Done" /\ ~Fails(s)
      <3>1. /\ result' \in {"UnexpectedType", "UnknownType"}
            /\ hand' = [hand EXCEPT !.side = s, !.units = <<Head(inbox[s])>>]
        BY <1>5, <2>4 DEF Poll, Dispatch, Finish
      <3> QED BY <2>1, <2>4, <3>1, RefusalTells DEF Fails
    <2> QED BY <2>2, <2>3, <2>4
  <1>6. CASE Wake
    <2>1. result' = Running
      BY <1>6 DEF Wake, TInv, Ending
    <2> QED BY <2>1, TellsNothing DEF Running
  <1>7. /\ PollBackend => Poll("Backend", "Select", "PollFrontend") /\ "Backend" \in Side
        /\ PollFrontend => Poll("Frontend", "PollFrontend", "Parked") /\ "Frontend" \in Side
    BY DEF PollBackend, PollFrontend, Side
  <1> QED BY <1>1, <1>2, <1>3, <1>4, <1>5, <1>6, <1>7 DEF Step

\* With the other invariants, ResultTells is inductive.
LEMMA ResultKeeps ==
    ASSUME IInv, TInv, TInv', Placed, Started, Armed, ResultTells, [AnyNext]_allVars
    PROVE  ResultTells'
  <1>1. CASE Convey
    BY <1>1, StepTells DEF Convey, Recorded
  <1>2. CASE ~Convey
    <2>1. UNCHANGED <<pc, hand, result, log>>
      BY <1>2, Zenon DEF AnyNext, Send, SendUnknown, AnswerTls, Cut, Close, Emit, allVars
    <2> QED BY <2>1, Zenon DEF ResultTells, LastLogged
  <1> QED BY <1>1, <1>2

(***************************************************************************)
(* What go() returns tells what became of the session: Ok only after a     *)
(* goodbye, with all of it carried; a refusal holds the refused byte, or   *)
(* follows an Authentication that went through.  So for all peers.         *)
(***************************************************************************)
THEOREM ResultsTell == Spec => []ResultTells
  <1>1. AnyInit => Placed /\ Started /\ ResultTells
    <2> SUFFICES ASSUME AnyInit PROVE Placed /\ Started /\ ResultTells
      OBVIOUS
    <2>1. /\ sent["Frontend"] = <<>> /\ sent["Backend"] = <<>> /\ state = NoState
          /\ result = Running /\ pc = "ReadMsg"
      BY DEF AnyInit, Init, Side
    <2>2. Placed
      BY <2>1 DEF Placed
    <2> QED BY <2>1, <2>2, TurnNames DEF Started, ResultTells, Running
  <1>2. /\ IInv /\ TInv /\ TInv' /\ Armed /\ Placed /\ Started /\ ResultTells
        /\ [AnyNext]_allVars
        => Placed' /\ Started' /\ ResultTells'
    BY PlacedKeeps, StartedKeeps, ResultKeeps
  <1> QED BY <1>1, <1>2, IInvAlways, TInvAlways, ArmedAlways, PTL DEF Spec
=============================================================================
