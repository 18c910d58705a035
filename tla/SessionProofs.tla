--------------------------- MODULE SessionProofs ----------------------------
(***************************************************************************)
(* Proofs about Session, for every choice of Ways and of MaxChatter.       *)
(*                                                                         *)
(* Types come first: the moves of the peers lead from places to places and *)
(* say what has a message type.                                            *)
(*                                                                         *)
(* All else follows from the course of a session (Course), which is        *)
(* inductive with the types.  In the loop of go(), what a peer said and    *)
(* has not been carried, and what was written to it and it has not heard,  *)
(* are walks along its moves, however long.  The walk of the backend       *)
(* starts where the state of go() is, or one unheard message behind it;    *)
(* those of the frontend start where the state of go() expects it and      *)
(* where it is, and end in the same place, because what a frontend says    *)
(* and what it hears commute where they can cross.  Before the loop the    *)
(* exchange about TLS is followed await by await; after it, the walks that *)
(* are left and the reason of the end remain.                              *)
(*                                                                         *)
(* From it: what is written fits the peer (WrittenFits), what is refused   *)
(* goes beyond the tests (RefusedOnlyForThat), the rest is understood      *)
(* (AlwaysUnderstood), and the states agree (StatesAgree).                 *)
(***************************************************************************)
EXTENDS Session, ConveyorProofs

SInv == SessionTypeOK /\ InHand

\* The names of the places of a frontend.
PlaceNames == {"Begin", "AskedTls", "Secured", "Waiting", "OwesPassword", "OwesGss",
               "OwesSaslInitial", "OwesSasl", "Idle", "Busy", "Preparing", "PreparingBoth",
               "PreparingExecuting", "PreparingAll", "Failed", "Executing", "Executed", "Suspended",
               "Synced", "OwesOther", Gone}

BackPlace == State \cup {"Listening", "GotTls", "AskedOther", Gone}

-----------------------------------------------------------------------------
(***************************************************************************)
(* The peers' moves.                                                       *)
(***************************************************************************)

\* What a set of moves holds, part by part.
LEMMA MoveParts ==
    ASSUME NEW F, NEW S, NEW t, NEW m \in Moves(F, S, t)
    PROVE  m.from \in F /\ m.say \in S /\ m.to = t
  BY DEF Moves

\* Every name of a place is one: some move starts there.
LEMMA PlaceIsFrom ==
    ASSUME NEW F, NEW S, NEW t, NEW f \in F, NEW v \in S,
           Moves(F, S, t) \subseteq FrontendSays \cup FrontendHears
    PROVE  f \in Places
  <1>1. [from |-> f, say |-> v, to |-> t] \in Moves(F, S, t)
    BY DEF Moves
  <1> QED BY <1>1 DEF Places

\* The places of a frontend are those whose names are listed, whatever Ways is.
LEMMA PlacesNamed == PlaceNames \subseteq Places
  <1>1. /\ Moves({"Begin", "Secured"}, {"Startup"}, "Waiting") \subseteq FrontendSays
        /\ Moves({"OwesPassword"}, {"Password"}, "Waiting") \subseteq FrontendSays
        /\ Moves({"OwesGss"}, {"GssResponse"}, "Waiting") \subseteq FrontendSays
        /\ Moves({"OwesSaslInitial"}, {"SaslInitialResponse"}, "Waiting") \subseteq FrontendSays
        /\ Moves({"OwesSasl"}, {"SaslResponse"}, "Waiting") \subseteq FrontendSays
        /\ Moves({"Executed", "Suspended"}, {"Sync"}, "Synced") \subseteq FrontendSays
    BY ZenonT(60) DEF FrontendSays
  <1>2. /\ Moves({"AskedTls", "Waiting", "Idle"}, {"ErrorResponse"}, Gone) \subseteq FrontendHears
        /\ Moves({"Waiting", "Busy", "Synced"}, {"ReadyForQuery"}, "Idle") \subseteq FrontendHears
        /\ Moves({"Executing"}, {"DataRow"}, "Executing") \subseteq FrontendHears
        /\ Moves({"Preparing", "PreparingBoth", "PreparingExecuting", "PreparingAll"},
                 {"ErrorResponse"}, IF "Sync" \in Ways THEN "Failed" ELSE "Busy")
             \subseteq FrontendHears
    BY ZenonT(60) DEF FrontendHears
  <1>3. "Failed" \in Places
    <2>1. [from |-> "Failed", say |-> "NoticeResponse", to |-> "Failed"] \in FrontendHears
      BY DEF FrontendHears, Remains
    <2> QED BY <2>1 DEF Places
  <1>4. {"Begin", "Secured", "OwesPassword", "OwesGss", "OwesSaslInitial", "OwesSasl",
         "Executed", "Suspended"} \subseteq Places
    BY <1>1, PlaceIsFrom
  <1>5. {"AskedTls", "Waiting", "Idle", "Busy", "Executing", "Preparing", "PreparingBoth",
         "PreparingExecuting", "PreparingAll", "Synced"} \subseteq Places
    BY <1>2, PlaceIsFrom
  <1> QED BY <1>3, <1>4, <1>5 DEF PlaceNames, Places

\* A frontend says messages, and is at a place again.
LEMMA FrontendSaysType ==
    \A m \in FrontendSays : m.to \in PlaceNames /\ m.say \in Body
  BY DEF FrontendSays, Moves, Only, PlaceNames, Body, InitialBody, Msg, TypeByteOf, Gone

\* What a frontend hears leads it to a place.
LEMMA FrontendHearsType ==
    \A m \in FrontendHears : m.to \in PlaceNames
  BY DEF FrontendHears, Moves, Remains, Only, PlaceNames, Gone

\* What a backend hears leads it to a place.
LEMMA BackendHearsType ==
    \A m \in BackendHears : m.to \in BackPlace
  BY DEF BackendHears, Moves, Only, BackPlace, State, Gone

\* A backend says messages or answers to a TLS request, and is at a place again.
LEMMA BackendSaysType ==
    \A m \in BackendSays : m.to \in BackPlace /\ m.say \in Byte \cup Body
  BY DEF BackendSays, Moves, Only, BackPlace, State, Gone, Byte, TypeByte, Body,
         AuthenticationBody, Msg, TypeByteOf

\* So it is with what a backend may say besides.
LEMMA BackendChatsType ==
    \A m \in BackendChats : m.to \in BackPlace /\ m.say \in Byte \cup Body
  BY DEF BackendChats, Moves, Remains, Only, BackPlace, State, Gone, Body, Conversing, Msg,
         TypeByteOf

-----------------------------------------------------------------------------
(***************************************************************************)
(* Steps of the peers.                                                     *)
(***************************************************************************)

\* Every body is a message of some type.
LEMMA MsgOfType ==
    \A v \in Body : MsgOf(v) \in Msg
  <1>1. {"Initial", "Authentication"} \subseteq Msg
    BY DEF Msg, TypeByteOf
  <1> QED BY <1>1 DEF MsgOf, Body

\* What a peer sends for a message are units.
LEMMA UnitsType ==
    ASSUME NEW s, NEW v \in Byte \cup Body
    PROVE  Units(s, v) \in Seq(Unit)
  <1> DEFINE enc == wrap[s] = "Tls"
             u == ByteUnit(v, enc)
  <1>1. enc \in BOOLEAN
    OBVIOUS
  <1>2. u \in Unit
    BY <1>1 DEF ByteUnit, Unit, Quality
  <1> HIDE DEF enc, u
  <1>3. <<u>> \in Seq(Unit)
    BY <1>2
  <1>4. CASE v \in Byte
    BY <1>3, <1>4 DEF Units, u, enc
  <1>5. CASE v \notin Byte
    <2>1. Header(MsgOf(v), enc) \in Seq(Unit)
      BY <1>1, <1>5, MsgOfType, HeaderType
    <2>2. Units(s, v) = Header(MsgOf(v), enc) \o <<u>>
      BY <1>5 DEF Units, u, enc
    <2> QED BY <1>3, <2>1, <2>2, ConcatProperties
  <1> QED BY <1>4, <1>5

\* An inbox that is sent to is a sequence of units.
LEMMA EmitType ==
    ASSUME TypeOK, NEW s \in Side, NEW v \in Byte \cup Body, Emit(s, v)
    PROVE  inbox' \in [Side -> Seq(Unit)]
  <1>1. inbox \in [Side -> Seq(Unit)] /\ inbox[s] \in Seq(Unit)
    BY Parts
  <1>2. inbox[s] \o Units(s, v) \in Seq(Unit)
    BY <1>1, UnitsType, ConcatProperties
  <1> QED BY <1>1, <1>2 DEF Emit

\* An outbox that is taken from is a sequence of units.
LEMMA ConsumeType ==
    ASSUME TypeOK, NEW s \in Side, Consume(s)
    PROVE  outbox' \in [Side -> Seq(Unit)]
  <1>1. outbox \in [Side -> Seq(Unit)] /\ outbox[s] \in Seq(Unit)
    BY Parts
  <1>2. PICK n \in {1, 2} : outbox' = [outbox EXCEPT ![s] = SubSeq(@, n + 1, Len(@))]
    BY DEF Consume
  <1>3. SubSeq(outbox[s], n + 1, Len(outbox[s])) \in Seq(Unit)
    BY <1>1
  <1> QED BY <1>1, <1>2, <1>3

\* The peers touch the streams alone.
LEMMA PeerTypes ==
    ASSUME TypeOK, InHand, UNCHANGED <<pc, state, wrap, hand, told, result>>,
           inbox' \in [Side -> Seq(Unit)], outbox' \in [Side -> Seq(Unit)],
           eof' \in [Side -> BOOLEAN]
    PROVE  TypeOK' /\ InHand'
  BY DEF TypeOK, InHand

\* A peer that leaves closes a stream.
LEMMA LeavesType ==
    ASSUME TypeOK, NEW s \in Side, NEW to, Leaves(s, to)
    PROVE  eof' \in [Side -> BOOLEAN]
  BY DEF TypeOK, Leaves

\* Every step of a session keeps the types.
LEMMA NextTypes ==
    ASSUME SInv, [SessionNext]_sessionVars
    PROVE  SInv'
  <1>1. /\ TypeOK /\ InHand /\ front \in Places /\ back \in BackPlace
        /\ chatter \in 0 .. MaxChatter
    BY DEF SInv, SessionTypeOK, BackPlace
  <1>2. inbox \in [Side -> Seq(Unit)] /\ outbox \in [Side -> Seq(Unit)]
    BY <1>1, Parts
  <1>3. MaxChatter \in Nat /\ 0 \in 0 .. MaxChatter
    BY ChatterAssumption
  <1>4. ASSUME TypeOK', InHand', front' \in Places, back' \in BackPlace,
               chatter' \in 0 .. MaxChatter
        PROVE  SInv'
    BY <1>4 DEF SInv, SessionTypeOK, BackPlace
  <1>5. CASE Convey
    BY <1>1, <1>4, <1>5, StepTypes DEF Convey
  <1>6. CASE FrontendSend
    <2>1. /\ UNCHANGED <<pc, state, wrap, outbox, hand, told, result, back, chatter>>
          /\ \E m \in FrontendSays :
               front' = m.to /\ Emit("Frontend", m.say) /\ Leaves("Frontend", m.to)
      BY <1>6 DEF FrontendSend
    <2>2. front' \in Places /\ inbox' \in [Side -> Seq(Unit)] /\ eof' \in [Side -> BOOLEAN]
      BY <1>1, <2>1, FrontendSaysType, PlacesNamed, EmitType, LeavesType DEF Side
    <2> QED BY <1>1, <1>2, <1>4, <2>1, <2>2, PeerTypes
  <1>7. CASE FrontendReceive
    <2>1. /\ UNCHANGED <<pc, state, wrap, inbox, hand, told, result, back, chatter>>
          /\ \E m \in FrontendHears : front' = m.to /\ Leaves("Frontend", m.to)
          /\ Consume("Frontend")
      BY <1>7 DEF FrontendReceive
    <2>2. front' \in Places /\ outbox' \in [Side -> Seq(Unit)] /\ eof' \in [Side -> BOOLEAN]
      BY <1>1, <2>1, FrontendHearsType, PlacesNamed, ConsumeType, LeavesType DEF Side
    <2> QED BY <1>1, <1>2, <1>4, <2>1, <2>2, PeerTypes
  <1>8. CASE BackendSend
    <2>1. /\ UNCHANGED <<pc, state, wrap, outbox, hand, told, result, front>>
          /\ \E m \in BackendSays \cup BackendChats :
               back' = m.to /\ Emit("Backend", m.say) /\ Leaves("Backend", m.to)
          /\ chatter' = chatter \/ (chatter < MaxChatter /\ chatter' = chatter + 1)
      BY <1>8 DEF BackendSend
    <2>2. back' \in BackPlace /\ inbox' \in [Side -> Seq(Unit)] /\ eof' \in [Side -> BOOLEAN]
      BY <1>1, <2>1, BackendSaysType, BackendChatsType, EmitType, LeavesType DEF Side
    <2>3. chatter' \in 0 .. MaxChatter
      BY <1>1, <1>3, <2>1
    <2> QED BY <1>1, <1>2, <1>4, <2>1, <2>2, <2>3, PeerTypes
  <1>9. CASE BackendReceive
    <2>1. /\ UNCHANGED <<pc, state, wrap, inbox, hand, told, result, front>>
          /\ \E m \in BackendHears : back' = m.to /\ Leaves("Backend", m.to)
          /\ Consume("Backend") /\ chatter' = 0
      BY <1>9 DEF BackendReceive
    <2>2. back' \in BackPlace /\ outbox' \in [Side -> Seq(Unit)] /\ eof' \in [Side -> BOOLEAN]
      BY <1>1, <2>1, BackendHearsType, ConsumeType, LeavesType DEF Side
    <2> QED BY <1>1, <1>2, <1>3, <1>4, <2>1, <2>2, PeerTypes
  <1>10. CASE \E s \in Side : Vanish(s)
    <2>1. PICK s \in Side : Vanish(s)
      BY <1>10
    <2>2. /\ UNCHANGED <<pc, state, wrap, inbox, outbox, hand, told, result, chatter>>
          /\ front' \in {front, Gone} /\ back' \in {back, Gone}
          /\ eof' = [eof EXCEPT ![s] = TRUE]
      BY <2>1 DEF Vanish
    <2>3. front' \in Places /\ back' \in BackPlace /\ eof' \in [Side -> BOOLEAN]
      BY <1>1, <2>2 DEF Places, BackPlace, TypeOK
    <2> QED BY <1>1, <1>2, <1>4, <2>2, <2>3, PeerTypes
  <1>11. CASE UNCHANGED sessionVars
    BY <1>1, <1>4, <1>11 DEF sessionVars, TypeOK, InHand
  <1> QED BY <1>5, <1>6, <1>7, <1>8, <1>9, <1>10, <1>11 DEF SessionNext, Over

(***************************************************************************)
(* A whole session keeps its types, whatever ways of the protocol its      *)
(* peers use and however much a backend says: go() never goes on from a    *)
(* place that its match does not know, and neither peer is led astray.     *)
(***************************************************************************)
THEOREM SessionTypes == Spec => []SessionTypeOK
  <1>1. SessionInit => SInv
    <2>1. ASSUME SessionInit PROVE TypeOK /\ InHand
      BY <2>1, InitTypes DEF SessionInit
    <2>2. "Begin" \in Places
      BY PlacesNamed DEF PlaceNames
    <2>3. 0 \in 0 .. MaxChatter
      BY ChatterAssumption
    <2> QED BY <2>1, <2>2, <2>3 DEF SessionInit, SInv, SessionTypeOK
  <1>2. SInv /\ [SessionNext]_sessionVars => SInv'
    BY NextTypes
  <1>3. SInv => SessionTypeOK
    BY DEF SInv
  <1> QED BY <1>1, <1>2, <1>3, PTL DEF Spec
-----------------------------------------------------------------------------
(***************************************************************************)
(* Moves as relations.  A frontend that pipelines may have sent more than  *)
(* the place where an error leaves it allows: what it says "at" Failed is  *)
(* that.  One that is gone takes anything.                                 *)
(***************************************************************************)
Move(moves, p, v, t) == [from |-> p, say |-> v, to |-> t] \in moves

Talk == Body \ InitialBody

\* A frontend says.
SaysF(p, v, t) ==
    \/ p = "Begin" /\ v = "TLS" /\ t = "AskedTls"
    \/ p \in {"Begin", "Secured"} /\ v = "Startup" /\ t = "Waiting"
    \/ p \in {"Begin", "Secured"} /\ v = "Cancel" /\ t = Gone
    \/ p = "OwesPassword" /\ v = "Password" /\ t = "Waiting"
    \/ p = "OwesGss" /\ v = "GssResponse" /\ t = "Waiting"
    \/ p = "OwesSaslInitial" /\ v = "SaslInitialResponse" /\ t = "Waiting"
    \/ p = "OwesSasl" /\ v = "SaslResponse" /\ t = "Waiting"
    \/ p = "Idle" /\ v = "Query" /\ t = "Busy"
    \/ p = "Idle" /\ v \in {"Parse", "Bind"} /\ t = "Preparing"
    \/ p \in {"Idle", "Suspended"} /\ v = "Execute" /\ t = "Executing"
    \/ p \in {"Executed", "Suspended"} /\ v = "Sync" /\ t = "Synced"
    \/ p = "Idle" /\ v = "Terminate" /\ t = Gone
    \/ "Sync" \in Ways /\ p \in {"Idle", "Failed"} /\ v = "Sync" /\ t = "Synced"
    \/ "Pipelining" \in Ways /\ p = "Preparing" /\ v \in {"Parse", "Bind"} /\ t = "PreparingBoth"
    \/ "Pipelining" \in Ways /\ p = "Preparing" /\ v = "Execute" /\ t = "PreparingExecuting"
    \/ "Pipelining" \in Ways /\ p \in {"Preparing", "Executing"} /\ v = "Sync" /\ t = "Synced"
    \/ "Batching" \in Ways /\ p = "PreparingBoth" /\ v = "Execute" /\ t = "PreparingAll"
    \/ "Batching" \in Ways /\ p \in {"PreparingBoth", "PreparingExecuting", "PreparingAll"}
         /\ v = "Sync" /\ t = "Synced"
    \/ "Pipelining" \in Ways /\ p = "Failed" /\ v \in {"Parse", "Bind", "Execute"}
         /\ t = "Failed"

\* A frontend hears.
HearsF(p, v, t) ==
    \/ p = "AskedTls" /\ v = "S" /\ t = "Secured"
    \/ p \in {"AskedTls", "Waiting", "Idle"} /\ v = "ErrorResponse" /\ t = Gone
    \/ p = "Waiting" /\ v \in {"CleartextPassword", "Md5Password"} /\ t = "OwesPassword"
    \/ p = "Waiting" /\ v \in {"Gss", "Sspi", "GssContinue"} /\ t = "OwesGss"
    \/ p = "Waiting" /\ v = "Sasl" /\ t = "OwesSaslInitial"
    \/ p = "Waiting" /\ v = "SaslContinue" /\ t = "OwesSasl"
    \/ p = "Waiting" /\ v \in {"SaslFinal", "AuthenticationOk", "ParameterStatus",
         "BackendKeyData", "NegotiateProtocolVersion"} /\ t = "Waiting"
    \/ p = "Waiting" /\ v \in {"KerberosV5", "ScmCredential"} /\ t = "OwesOther"
    \/ p \in {"Waiting", "Busy", "Synced"} /\ v = "ReadyForQuery" /\ t = "Idle"
    \/ p = "Busy" /\ v \in {"RowDescription", "DataRow", "CommandComplete", "EmptyQueryResponse",
         "ErrorResponse"} /\ t = "Busy"
    \/ p = "Preparing" /\ v \in {"ParseComplete", "BindComplete"} /\ t = "Idle"
    \/ p = "PreparingBoth" /\ v \in {"ParseComplete", "BindComplete"} /\ t = "Preparing"
    \/ p = "PreparingExecuting" /\ v \in {"ParseComplete", "BindComplete"} /\ t = "Executing"
    \/ p = "PreparingAll" /\ v \in {"ParseComplete", "BindComplete"} /\ t = "PreparingExecuting"
    \/ p \in {"Preparing", "PreparingBoth", "PreparingExecuting", "PreparingAll"}
         /\ v = "ErrorResponse" /\ t = (IF "Sync" \in Ways THEN "Failed" ELSE "Busy")
    \/ p = "Executing" /\ v = "DataRow" /\ t = "Executing"
    \/ p = "Executing" /\ v \in {"CommandComplete", "EmptyQueryResponse", "ErrorResponse"}
         /\ t = "Executed"
    \/ p = "Executing" /\ v = "PortalSuspended" /\ t = "Suspended"
    \/ p = "Synced" /\ v = "ErrorResponse" /\ t = "Synced"
    \/ p \in {"Waiting", "Idle", "Busy", "Preparing", "PreparingBoth", "PreparingExecuting",
         "PreparingAll", "Failed", "Executing", "Executed", "Suspended", "Synced", "OwesPassword",
         "OwesGss", "OwesSaslInitial", "OwesSasl"} /\ v = "NoticeResponse" /\ t = p
    \/ "Pipelining" \in Ways /\ p = "Synced" /\ v \in {"ParseComplete", "BindComplete",
         "DataRow", "CommandComplete", "EmptyQueryResponse", "PortalSuspended"} /\ t = "Synced"
    \/ p = Gone /\ v \in Talk /\ t = Gone

\* A backend hears.
HearsB(p, v, t) ==
    \/ p = "Listening" /\ v = "Startup" /\ t = "GotStartup"
    \/ p = "Listening" /\ v = "TLS" /\ t = "GotTls"
    \/ p = "Listening" /\ v = "Cancel" /\ t = Gone
    \/ p = "AskedCleartextPassword" /\ v = "Password" /\ t = "GotCleartextPassword"
    \/ p = "AskedMd5Password" /\ v = "Password" /\ t = "GotMd5Password"
    \/ p = "AskedGssResponse" /\ v = "GssResponse" /\ t = "GotGssResponse"
    \/ p = "AskedSaslInitialResponse" /\ v = "SaslInitialResponse" /\ t = "GotAnySaslResponse"
    \/ p = "AskedSaslResponse" /\ v = "SaslResponse" /\ t = "GotAnySaslResponse"
    \/ p = "ReadyForQuery" /\ v = "Query" /\ t = "GotSimpleQuery"
    \/ p = "ReadyForQuery" /\ v = "Parse" /\ t = "GotPreparedStatement"
    \/ p = "ReadyForQuery" /\ v = "Bind" /\ t = "GotBinding"
    \/ p \in {"ReadyForQuery", "SuspendedExtendedQuery"} /\ v = "Execute"
         /\ t = "ExecutingExtendedQuery"
    \/ p \in {"CompletedExtendedQuery", "SeenEmptyExtendedQuery", "SuspendedExtendedQuery",
         "AbortedExtendedQuery"} /\ v = "Sync" /\ t = "GotSync"
    \/ p = "ReadyForQuery" /\ v = "Terminate" /\ t = Gone
    \/ "Sync" \in Ways /\ p \in {"ReadyForQuery", "AbortedParsingOrBinding"} /\ v = "Sync"
         /\ t = "GotSync"

\* A backend says.
SaysB(p, v, t) ==
    \/ p = "GotTls" /\ v \in {"S", "N"} /\ t = "Listening"
    \/ p \in {"GotTls", "GotStartup", "GotCleartextPassword", "GotMd5Password", "GotGssResponse",
         "GotAnySaslResponse", "FinishedSasl", "Authenticated", "SentAllBackendParams"}
         /\ v = "ErrorResponse" /\ t = Gone
    \/ p = "GotStartup" /\ v = "CleartextPassword" /\ t = "AskedCleartextPassword"
    \/ p = "GotStartup" /\ v = "Md5Password" /\ t = "AskedMd5Password"
    \/ p = "GotStartup" /\ v \in {"Gss", "Sspi"} /\ t = "AskedGssResponse"
    \/ p = "GotGssResponse" /\ v = "GssContinue" /\ t = "AskedGssResponse"
    \/ p = "GotStartup" /\ v \in {"KerberosV5", "ScmCredential"} /\ t = "AskedOther"
    \/ p = "GotStartup" /\ v = "Sasl" /\ t = "AskedSaslInitialResponse"
    \/ p = "GotAnySaslResponse" /\ v = "SaslContinue" /\ t = "AskedSaslResponse"
    \/ p = "GotAnySaslResponse" /\ v = "SaslFinal" /\ t = "FinishedSasl"
    \/ p \in {"GotStartup", "GotCleartextPassword", "GotMd5Password", "GotGssResponse",
         "FinishedSasl"} /\ v = "AuthenticationOk" /\ t = "Authenticated"
    \/ p = "Authenticated" /\ v = "BackendKeyData" /\ t = "SentAllBackendParams"
    \/ (p \in {"SentAllBackendParams", "SeenEmptySimpleQuery", "CompletedSimpleCommand",
         "AbortedSimpleQuery", "GotSync"} \/ (p = "AbortedParsingOrBinding" /\ "Sync" \notin Ways))
         /\ v = "ReadyForQuery" /\ t = "ReadyForQuery"
    \/ p = "GotSimpleQuery" /\ v = "EmptyQueryResponse" /\ t = "SeenEmptySimpleQuery"
    \/ p = "GotSimpleQuery" /\ v = "RowDescription" /\ t = "AnsweringToSimpleQuery"
    \/ p \in {"GotSimpleQuery", "AnsweringToSimpleQuery"} /\ v = "CommandComplete"
         /\ t = "CompletedSimpleCommand"
    \/ p \in {"GotSimpleQuery", "AnsweringToSimpleQuery"} /\ v = "ErrorResponse"
         /\ t = "AbortedSimpleQuery"
    \/ p = "GotPreparedStatement" /\ v = "ParseComplete" /\ t = "ReadyForQuery"
    \/ p = "GotBinding" /\ v = "BindComplete" /\ t = "ReadyForQuery"
    \/ p \in {"GotPreparedStatement", "GotBinding"} /\ v = "ErrorResponse"
         /\ t = "AbortedParsingOrBinding"
    \/ p = "ExecutingExtendedQuery" /\ v = "EmptyQueryResponse" /\ t = "SeenEmptyExtendedQuery"
    \/ p \in {"ExecutingExtendedQuery", "AnsweringToExtendedQuery"} /\ v = "CommandComplete"
         /\ t = "CompletedExtendedQuery"
    \/ p \in {"ExecutingExtendedQuery", "AnsweringToExtendedQuery"} /\ v = "ErrorResponse"
         /\ t = "AbortedExtendedQuery"
    \/ p = "AnsweringToExtendedQuery" /\ v = "PortalSuspended" /\ t = "SuspendedExtendedQuery"
    \/ p = "GotStartup" /\ v = "NegotiateProtocolVersion" /\ t = "GotStartup"
    \/ p = "Authenticated" /\ v \in {"ParameterStatus", "NegotiateProtocolVersion"}
         /\ t = "Authenticated"
    \/ p = "AnsweringToSimpleQuery" /\ v = "DataRow" /\ t = "AnsweringToSimpleQuery"
    \/ p = "CompletedSimpleCommand" /\ v = "RowDescription" /\ t = "AnsweringToSimpleQuery"
    \/ p = "CompletedSimpleCommand" /\ v = "CommandComplete" /\ t = "CompletedSimpleCommand"
    \/ p = "CompletedSimpleCommand" /\ v = "ErrorResponse" /\ t = "AbortedSimpleQuery"
    \/ p \in {"ExecutingExtendedQuery", "AnsweringToExtendedQuery"} /\ v = "DataRow"
         /\ t = "AnsweringToExtendedQuery"
    \/ p = "ReadyForQuery" /\ v = "ErrorResponse" /\ t = Gone
    \/ "Parameters" \in Ways /\ p \in Conversing /\ v = "ParameterStatus" /\ t = p
    \/ "LateError" \in Ways /\ p = "GotSync" /\ v = "ErrorResponse" /\ t = "GotSync"
    \/ p \in State /\ v = "NoticeResponse" /\ t = p

FSays == {m \in [from : PlaceNames, say : Body, to : PlaceNames] : SaysF(m.from, m.say, m.to)}
FHears == {m \in [from : PlaceNames, say : Body, to : PlaceNames] : HearsF(m.from, m.say, m.to)}
BHears == {m \in [from : BackPlace, say : Body, to : BackPlace] : HearsB(m.from, m.say, m.to)}
BSays == {m \in [from : BackPlace, say : Body, to : BackPlace] : SaysB(m.from, m.say, m.to)}

\* Where the states of go() leave a frontend that has said and heard all that was carried.
Expects == [c \in State |->
    CASE c \in {"AskedCleartextPassword", "AskedMd5Password"} -> "OwesPassword"
      [] c = "AskedGssResponse" -> "OwesGss"
      [] c = "AskedSaslInitialResponse" -> "OwesSaslInitial"
      [] c = "AskedSaslResponse" -> "OwesSasl"
      [] c = "ReadyForQuery" -> "Idle"
      [] c \in {"GotPreparedStatement", "GotBinding"} -> "Preparing"
      [] c \in {"ExecutingExtendedQuery", "AnsweringToExtendedQuery"} -> "Executing"
      [] c \in {"CompletedExtendedQuery", "SeenEmptyExtendedQuery", "AbortedExtendedQuery"}
            -> "Executed"
      [] c = "SuspendedExtendedQuery" -> "Suspended"
      [] c = "AbortedParsingOrBinding" -> IF "Sync" \in Ways THEN "Failed" ELSE "Busy"
      [] c \in {"GotSimpleQuery", "AnsweringToSimpleQuery", "CompletedSimpleCommand",
                "SeenEmptySimpleQuery", "AbortedSimpleQuery", "Bound"} -> "Busy"
      [] c = "GotSync" -> "Synced"
      [] OTHER -> "Waiting"]

(***************************************************************************)
(* How far a peer gets from a place by hearing alone, or by saying alone,  *)
(* without leaving; exact only for the places from which the other kind of *)
(* move starts, where it is needed.                                        *)
(***************************************************************************)
OnByHearing(p, q) ==
    \/ p = q
    \/ p = "Preparing" /\ q \in {"Idle", IF "Sync" \in Ways THEN "Failed" ELSE "Busy"}
    \/ p = "Executing" /\ q \in {"Executed", "Suspended"}
    \/ p \in {"AskedTls", "Waiting", "Busy", "Synced"} /\ q # Gone
    \/ /\ "Sync" \notin Ways /\ q # Gone
       /\ p \in {"PreparingBoth", "PreparingExecuting", "PreparingAll"}
    \/ /\ "Sync" \in Ways
       /\ \/ p = "PreparingBoth" /\ q \in {"Preparing", "Idle", "Failed"}
          \/ p = "PreparingExecuting" /\ q \in {"Executing", "Executed", "Suspended", "Failed"}
          \/ /\ p = "PreparingAll"
             /\ q \in {"PreparingExecuting", "Executing", "Executed", "Suspended", "Failed"}

OnBySaying(p, q) ==
    \/ p = q
    \/ p = "Idle" /\ q \in {"Busy", "Preparing", "PreparingBoth", "PreparingExecuting",
                            "PreparingAll", "Executing", "Synced", Gone}
    \/ /\ "Pipelining" \in Ways /\ p = "Preparing"
       /\ q \in {"PreparingBoth", "PreparingExecuting", "PreparingAll", "Synced"}
    \/ "Pipelining" \in Ways /\ p = "Executing" /\ q = "Synced"
    \/ "Batching" \in Ways /\ p = "PreparingBoth" /\ q \in {"PreparingAll", "Synced"}
    \/ "Batching" \in Ways /\ p \in {"PreparingExecuting", "PreparingAll"} /\ q = "Synced"
    \/ p = "Suspended" /\ q \in {"Executing", "Synced"}
    \/ p \in {"Executed", "Failed"} /\ q = "Synced"
    \/ p \in {"OwesPassword", "OwesGss", "OwesSaslInitial", "OwesSasl"} /\ q = "Waiting"

\* A backend that listens says nothing that leads it elsewhere, but for good.
Listens(p) ==
    \/ p \in {"Listening", "AskedCleartextPassword", "AskedMd5Password", "AskedGssResponse",
              "AskedSaslInitialResponse", "AskedSaslResponse", "ReadyForQuery",
              "CompletedExtendedQuery", "SeenEmptyExtendedQuery", "SuspendedExtendedQuery",
              "AbortedExtendedQuery", "AskedOther"}
    \/ p = "AbortedParsingOrBinding" /\ "Sync" \in Ways

OnAsBackend(p, q) == p = q \/ (p # Gone /\ (Listens(p) => q = Gone))

HearsOn == {w \in [from : PlaceNames, to : PlaceNames] : OnByHearing(w.from, w.to)}
SaysOn == {w \in [from : PlaceNames, to : PlaceNames] : OnBySaying(w.from, w.to)}
BackOn == {w \in [from : BackPlace, to : BackPlace] : OnAsBackend(w.from, w.to)}

-----------------------------------------------------------------------------
(***************************************************************************)
(* What is on its way, as a walk along the moves of a peer.                *)
(***************************************************************************)

\* What a side said and was not carried yet: a message in hand is among it.
In(s) == IF hand.side = s THEN hand.units \o inbox[s] ELSE inbox[s]

\* The n messages in x are what leads from ps[0] over ps[1] ... to ps[n].
Walk(moves, x, n, ps) ==
    /\ Len(x) = 2 * n
    /\ \A i \in 1 .. n :
         /\ x[2 * i - 1].val = TypeByteOf[MsgOf(x[2 * i].val)]
         /\ x[2 * i].val \in Talk
         /\ x[2 * i].quality = "ok"
         /\ Move(moves, ps[i - 1], x[2 * i].val, ps[i])

Stays(on, n, ps) ==
    \A i, j \in 0 .. n : i <= j => [from |-> ps[i], to |-> ps[j]] \in on

\* x is the one message f, of those that the loop carries.
IsTalk(x, f) ==
    /\ f \in Talk /\ Len(x) = 2
    /\ x[1].val = TypeByteOf[MsgOf(f)] /\ x[2].val = f /\ x[2].quality = "ok"

\* x is the one message f.
Carries(x, f) == (f \in InitialBody /\ Len(x) = 1 /\ x[1].val = f) \/ IsTalk(x, f)

\* A conveyor in state c, with y written to the backend, is where the backend was at p, or one
\* unheard message ahead of it.
Link(y, p, c) ==
    \/ p = Gone
    \/ y = <<>> /\ p = c
    \/ \E f \in Body : Carries(y, f) /\ Move(BHears, p, f, c)

\* How a frontend at p, with x to be carried from it and y to be heard, stands to the conveyor.
FrontWalks(x, y, p, c, n, k, rs, ps) ==
    /\ Walk(FSays, x, n, rs) /\ Stays(SaysOn, n, rs)
    /\ Walk(FHears, y, k, ps) /\ Stays(HearsOn, k, ps)
    /\ p \in {ps[0], Gone}
    /\ rs[0] = Expects[c] /\ rs[n] = ps[k]

FrontAt(x, y, p, c) == \E n, k \in Nat : \E rs, ps : FrontWalks(x, y, p, c, n, k, rs, ps)

\* How a backend does.
BackWalks(x, y, p, c, n, bs) ==
    /\ Walk(BSays, x, n, bs) /\ Stays(BackOn, n, bs)
    /\ p \in {bs[n], Gone}
    /\ Link(y, bs[0], c)

BackAt(x, y, p, c) == \E n \in Nat : \E bs : BackWalks(x, y, p, c, n, bs)

\* What is left to be heard once the session is over is what the peer expects.
FrontFits(y, p) ==
    \/ p = Gone
    \/ p = "AskedTls" /\ Len(y) = 1 /\ y[1].val = TLS_SUPPORTED
    \/ \E n \in Nat : \E ps : Walk(FHears, y, n, ps) /\ p = ps[0]

BackFits(y, p) ==
    \/ p = Gone
    \/ y = <<>>
    \/ \E f \in Body, t \in BackPlace : Carries(y, f) /\ Move(BHears, p, f, t)

-----------------------------------------------------------------------------
(***************************************************************************)
(* The loop of go().                                                       *)
(***************************************************************************)
LoopHand ==
    /\ state \in State
    /\ \A s \in Side : wrap[s] # "TlsHandshake"
    /\ \/ pc \in {"Select", "PollFrontend", "Parked"} /\ hand.units = <<>>
       \/ \E a \in Matching(hand.side, hand.units[1].val, state) :
            /\ hand.msg = a.msg
            /\ \/ /\ pc = "ReadMsg" /\ Len(hand.units) = 1
                  /\ hand.then = a.to
               \/ /\ pc = "Write" /\ Len(hand.units) = 2
                  /\ hand.then = Continuation(a.to, hand.units[2].val, state)

FrontSide == FrontAt(In("Frontend"), outbox["Frontend"], front, state)
BackSide == BackAt(In("Backend"), outbox["Backend"], back, state)

Loop == LoopHand /\ FrontSide /\ BackSide

(***************************************************************************)
(* Before the loop.                                                        *)
(***************************************************************************)
Plain(s) == wrap[s] = "Plain"
IsByte(x, b) == Len(x) = 1 /\ x[1].val = b
IsError(x) == /\ Len(x) = 2 /\ x[1].val = TypeByteOf["ErrorResponse"]
              /\ x[2].val = "ErrorResponse" /\ x[2].quality = "ok"

BackListens == In("Backend") = <<>> /\ outbox["Backend"] = <<>> /\ back \in {"Listening", Gone}

FrontAwaits == In("Frontend") = <<>> /\ outbox["Frontend"] = <<>> /\ front \in {"AskedTls", Gone}

FrontGranted ==
    /\ In("Frontend") = <<>>
    /\ \/ IsByte(outbox["Frontend"], TLS_SUPPORTED) /\ front \in {"AskedTls", Gone}
       \/ outbox["Frontend"] = <<>> /\ front \in {"Secured", Gone}

FrontOpens(p) ==
    /\ outbox["Frontend"] = <<>>
    /\ \/ In("Frontend") = <<>> /\ front \in {p, Gone}
       \/ \E v \in InitialBody, t \in PlaceNames :
            /\ IsByte(In("Frontend"), v) /\ In("Frontend")[1].quality = "ok"
            /\ Move(FSays, p, v, t) /\ front \in {t, Gone}

InitialInHand(then, insideTls) ==
    /\ hand.side = "Frontend" /\ hand.msg = "Initial"
    /\ \/ pc = "ReadMsg" /\ hand.units = <<>> /\ hand.then = then
       \/ pc = "Write" /\ Len(hand.units) = 1 /\ hand.then = OnInitial(hand.units[1].val, insideTls)

FirstInitial ==
    /\ InitialInHand(First, FALSE)
    /\ Plain("Frontend") /\ Plain("Backend")
    /\ FrontOpens("Begin") /\ BackListens

SecondInitial ==
    /\ InitialInHand(FirstInTls, TRUE)
    /\ wrap["Frontend"] = "Tls" /\ wrap["Backend"] # "TlsHandshake"
    /\ FrontGranted \/ FrontOpens("Secured")
    /\ BackListens

TlsAsked ==
    /\ pc = "ReadTlsResponse" /\ hand.units = <<>>
    /\ Plain("Frontend") /\ Plain("Backend")
    /\ FrontAwaits
    /\ \/ /\ inbox["Backend"] = <<>> /\ IsByte(outbox["Backend"], "TLS")
          /\ back \in {"Listening", Gone}
       \/ inbox["Backend"] = <<>> /\ outbox["Backend"] = <<>> /\ back \in {"GotTls", Gone}
       \/ /\ \E b \in {TLS_SUPPORTED, TLS_NOT_SUPPORTED} : IsByte(inbox["Backend"], b)
          /\ outbox["Backend"] = <<>> /\ back \in {"Listening", Gone}
       \/ IsError(inbox["Backend"]) /\ outbox["Backend"] = <<>> /\ back = Gone

TlsFailed ==
    /\ hand.side = "Backend" /\ hand.msg = "ErrorResponse" /\ hand.then = "Ok"
    /\ \/ pc = "ReadMsg" /\ Len(hand.units) = 1
       \/ pc = "Write" /\ Len(hand.units) = 2
    /\ Plain("Frontend") /\ Plain("Backend")
    /\ FrontAwaits
    /\ IsError(In("Backend")) /\ outbox["Backend"] = <<>> /\ back = Gone

TlsGranted ==
    /\ hand.side = "Backend" /\ hand.msg = TlsResponse /\ hand.then = "SwitchFrontend"
    /\ Len(hand.units) = 1
    /\ Plain("Frontend")
    /\ \/ pc = "SwitchBackend" /\ Plain("Backend")
       \/ pc = "AwaitBackend" /\ wrap["Backend"] = "TlsHandshake"
       \/ pc = "Write" /\ wrap["Backend"] # "TlsHandshake"
    /\ FrontAwaits
    /\ inbox["Backend"] = <<>> /\ outbox["Backend"] = <<>> /\ back \in {"Listening", Gone}

TlsTold ==
    /\ hand.units = <<>>
    /\ wrap["Backend"] # "TlsHandshake"
    /\ \/ pc = "SwitchFrontend" /\ Plain("Frontend")
       \/ pc = "AwaitFrontend" /\ wrap["Frontend"] = "TlsHandshake"
    /\ FrontGranted /\ BackListens

Opening ==
    /\ state = NoState
    /\ FirstInitial \/ SecondInitial \/ TlsAsked \/ TlsFailed \/ TlsGranted \/ TlsTold

(***************************************************************************)
(* After it.                                                               *)
(***************************************************************************)
Reason == (Understood \/ Excused) /\ EndedRightly

Ended ==
    /\ pc = "Done" /\ result # Running
    /\ FrontFits(outbox["Frontend"], front) /\ BackFits(outbox["Backend"], back)
    /\ Reason

GoneOnEof == (eof["Frontend"] => front = Gone) /\ (eof["Backend"] => back = Gone)

Course == GoneOnEof /\ ((result = Running /\ (Opening \/ Loop)) \/ Ended)

-----------------------------------------------------------------------------
(***************************************************************************)
(* The moves, taken one by one.                                            *)
(***************************************************************************)

\* A move is a pair of places and a body that stand in the relation.
LEMMA MoveIs ==
    \A p, v, t :
        /\ Move(FSays, p, v, t) <=>
             p \in PlaceNames /\ v \in Body /\ t \in PlaceNames /\ SaysF(p, v, t)
        /\ Move(FHears, p, v, t) <=>
             p \in PlaceNames /\ v \in Body /\ t \in PlaceNames /\ HearsF(p, v, t)
        /\ Move(BHears, p, v, t) <=>
             p \in BackPlace /\ v \in Body /\ t \in BackPlace /\ HearsB(p, v, t)
        /\ Move(BSays, p, v, t) <=>
             p \in BackPlace /\ v \in Body /\ t \in BackPlace /\ SaysB(p, v, t)
  BY DEF Move, FSays, FHears, BHears, BSays

\* What a frontend says, in the terms of the relation.
LEMMA FrontendSaysIs ==
    \A m \in FrontendSays : m.from \in PlaceNames /\ SaysF(m.from, m.say, m.to)
  BY SMTT(40) DEF FrontendSays, Moves, Only, SaysF, PlaceNames

\* What a frontend hears.
LEMMA FrontendHearsIs ==
    \A m \in FrontendHears : m.from \in PlaceNames \ {Gone} /\ HearsF(m.from, m.say, m.to)
  BY SMTT(40) DEF FrontendHears, Moves, Remains, Only, HearsF, PlaceNames, Gone

\* What a backend hears.
LEMMA BackendHearsIs ==
    \A m \in BackendHears : m.from \in BackPlace /\ HearsB(m.from, m.say, m.to)
  BY SMTT(40) DEF BackendHears, Moves, Only, HearsB, BackPlace, State, Gone

\* What a backend says, brought forward or besides.
LEMMA BackendSaysIs ==
    \A m \in BackendSays \cup BackendChats :
        m.from \in BackPlace /\ SaysB(m.from, m.say, m.to)
  <1>1. \A m \in BackendSays : m.from \in BackPlace /\ SaysB(m.from, m.say, m.to)
    BY SMTT(40) DEF BackendSays, Moves, SaysB, BackPlace, State, Gone
  <1>2. Conversing \subseteq State
    BY DEF Conversing, State
  <1>3. {"GotStartup", "Authenticated", "AnsweringToSimpleQuery", "CompletedSimpleCommand",
         "AbortedSimpleQuery", "ExecutingExtendedQuery", "AnsweringToExtendedQuery",
         "ReadyForQuery", "GotSync"} \subseteq State
    BY DEF State
  <1>4. \A m \in BackendChats : m.from \in BackPlace /\ SaysB(m.from, m.say, m.to)
    BY <1>2, <1>3, SMTT(40) DEF BackendChats, Moves, Remains, Only, SaysB, BackPlace, Gone
  <1> QED BY <1>1, <1>4

\* What the relation says that a frontend hears, it does.
LEMMA FrontendHeard ==
    ASSUME NEW p, NEW v, NEW t, HearsF(p, v, t), p # Gone
    PROVE  \E m \in FrontendHears : m.from = p /\ m.say = v
  <1> DEFINE W(F, S, to) == Moves(F, S, to) \subseteq FrontendHears
             Goal == \E m \in FrontendHears : m.from = p /\ m.say = v
  <1>1. /\ W({"AskedTls"}, {"S"}, "Secured")
        /\ W({"AskedTls", "Waiting", "Idle"}, {"ErrorResponse"}, Gone)
        /\ W({"Waiting"}, {"CleartextPassword", "Md5Password"}, "OwesPassword")
        /\ W({"Waiting"}, {"Gss", "Sspi", "GssContinue"}, "OwesGss")
        /\ W({"Waiting"}, {"Sasl"}, "OwesSaslInitial")
        /\ W({"Waiting"}, {"SaslContinue"}, "OwesSasl")
        /\ W({"Waiting"}, {"SaslFinal", "AuthenticationOk", "ParameterStatus",
                               "BackendKeyData", "NegotiateProtocolVersion"}, "Waiting")
    BY ZenonT(60) DEF FrontendHears
  <1>2. /\ W({"Waiting"}, {"KerberosV5", "ScmCredential"}, "OwesOther")
        /\ W({"Waiting", "Busy", "Synced"}, {"ReadyForQuery"}, "Idle")
        /\ W({"Busy"}, {"RowDescription", "DataRow", "CommandComplete", "EmptyQueryResponse",
                            "ErrorResponse"}, "Busy")
    BY ZenonT(60) DEF FrontendHears
  <1>3. /\ W({"Preparing"}, {"ParseComplete", "BindComplete"}, "Idle")
        /\ W({"PreparingBoth"}, {"ParseComplete", "BindComplete"}, "Preparing")
        /\ W({"PreparingExecuting"}, {"ParseComplete", "BindComplete"}, "Executing")
        /\ W({"PreparingAll"}, {"ParseComplete", "BindComplete"}, "PreparingExecuting")
        /\ W({"Preparing", "PreparingBoth", "PreparingExecuting", "PreparingAll"},
                 {"ErrorResponse"}, IF "Sync" \in Ways THEN "Failed" ELSE "Busy")
    BY ZenonT(60) DEF FrontendHears
  <1>4. /\ W({"Executing"}, {"DataRow"}, "Executing")
        /\ W({"Executing"}, {"CommandComplete", "EmptyQueryResponse", "ErrorResponse"},
                 "Executed")
        /\ W({"Executing"}, {"PortalSuspended"}, "Suspended")
        /\ W({"Synced"}, {"ErrorResponse"}, "Synced")
    BY ZenonT(60) DEF FrontendHears
  <1>5. "Pipelining" \in Ways =>
             W({"Synced"}, {"ParseComplete", "BindComplete", "DataRow", "CommandComplete",
                            "EmptyQueryResponse", "PortalSuspended"}, "Synced")
    BY ZenonT(60) DEF FrontendHears, Only
  <1>6. ASSUME NEW F, NEW S, NEW to, W(F, S, to), p \in F, v \in S
        PROVE  Goal
    <2>1. [from |-> p, say |-> v, to |-> to] \in Moves(F, S, to)
      BY <1>6 DEF Moves
    <2>2. [from |-> p, say |-> v, to |-> to] \in FrontendHears
      BY <1>6, <2>1
    <2> QED BY <2>2
  <1>7. CASE v = "NoticeResponse"
    <2>1. t = p /\ p \in {"Waiting", "Idle", "Busy", "Preparing", "PreparingBoth",
                          "PreparingExecuting", "PreparingAll", "Failed", "Executing", "Executed",
                          "Suspended", "Synced", "OwesPassword", "OwesGss", "OwesSaslInitial",
                          "OwesSasl"}
      BY <1>7 DEF HearsF
    <2>2. [from |-> p, say |-> v, to |-> p] \in FrontendHears
      BY <1>7, <2>1 DEF FrontendHears, Remains
    <2> QED BY <2>2
  <1> HIDE DEF W, Goal
  <1>8. ASSUME v # "NoticeResponse" PROVE Goal
    BY <1>1, <1>2, <1>3, <1>4, <1>5, <1>6, <1>8, SMTT(40) DEF HearsF
  <1> QED BY <1>7, <1>8 DEF Goal

\* What the relation says that a backend hears, it does.
LEMMA BackendHeard ==
    ASSUME NEW p, NEW v, NEW t, HearsB(p, v, t)
    PROVE  \E m \in BackendHears : m.from = p /\ m.say = v
  <1> DEFINE W(F, S, to) == Moves(F, S, to) \subseteq BackendHears
             Goal == \E m \in BackendHears : m.from = p /\ m.say = v
  <1>1. /\ W({"Listening"}, {"Startup"}, "GotStartup")
        /\ W({"Listening"}, {"TLS"}, "GotTls")
        /\ W({"Listening"}, {"Cancel"}, Gone)
        /\ W({"AskedCleartextPassword"}, {"Password"}, "GotCleartextPassword")
        /\ W({"AskedMd5Password"}, {"Password"}, "GotMd5Password")
        /\ W({"AskedGssResponse"}, {"GssResponse"}, "GotGssResponse")
        /\ W({"AskedSaslInitialResponse"}, {"SaslInitialResponse"}, "GotAnySaslResponse")
        /\ W({"AskedSaslResponse"}, {"SaslResponse"}, "GotAnySaslResponse")
    BY ZenonT(60) DEF BackendHears
  <1>2. /\ W({"ReadyForQuery"}, {"Query"}, "GotSimpleQuery")
        /\ W({"ReadyForQuery"}, {"Parse"}, "GotPreparedStatement")
        /\ W({"ReadyForQuery"}, {"Bind"}, "GotBinding")
        /\ W({"ReadyForQuery", "SuspendedExtendedQuery"}, {"Execute"},
                 "ExecutingExtendedQuery")
        /\ W({"CompletedExtendedQuery", "SeenEmptyExtendedQuery", "SuspendedExtendedQuery",
                  "AbortedExtendedQuery"}, {"Sync"}, "GotSync")
        /\ W({"ReadyForQuery"}, {"Terminate"}, Gone)
    BY ZenonT(60) DEF BackendHears
  <1>3. "Sync" \in Ways =>
             W({"ReadyForQuery", "AbortedParsingOrBinding"}, {"Sync"}, "GotSync")
    BY ZenonT(60) DEF BackendHears, Only
  <1>4. ASSUME NEW F, NEW S, NEW to, W(F, S, to), p \in F, v \in S
        PROVE  Goal
    <2>1. [from |-> p, say |-> v, to |-> to] \in Moves(F, S, to)
      BY <1>4 DEF Moves
    <2>2. [from |-> p, say |-> v, to |-> to] \in BackendHears
      BY <1>4, <2>1
    <2> QED BY <2>2
  <1> HIDE DEF W, Goal
  <1>5. Goal
    BY <1>1, <1>2, <1>3, <1>4, SMTT(40) DEF HearsB
  <1> QED BY <1>5 DEF Goal

-----------------------------------------------------------------------------
(***************************************************************************)
(* How the moves fit together.                                             *)
(***************************************************************************)

\* A message leads from a place to one other.
LEMMA OneWay ==
    ASSUME NEW p, NEW v, NEW t, NEW s
    PROVE  /\ SaysF(p, v, t) /\ SaysF(p, v, s) => s = t
           /\ HearsF(p, v, t) /\ HearsF(p, v, s) => s = t
           /\ HearsB(p, v, t) /\ HearsB(p, v, s) => s = t
           /\ SaysB(p, v, t) /\ SaysB(p, v, s) => s = t
  <1>1. SaysF(p, v, t) /\ SaysF(p, v, s) => s = t
    BY SMTT(40) DEF SaysF
  <1>2. HearsF(p, v, t) /\ HearsF(p, v, s) => s = t
    BY SMTT(40) DEF HearsF, Gone
  <1>3. HearsB(p, v, t) /\ HearsB(p, v, s) => s = t
    BY SMTT(40) DEF HearsB
  <1>4. SaysB(p, v, t) /\ SaysB(p, v, s) => s = t
    BY SMTT(60) DEF SaysB, Conversing, State
  <1> QED BY <1>1, <1>2, <1>3, <1>4

\* What peers say and hear are bodies that travel behind a type byte, but for an Initial.
LEMMA TalkFacts ==
    /\ {"NoticeResponse", "ErrorResponse", "ParameterStatus", "Sync", "Terminate"} \subseteq Talk
    /\ Talk \cap Byte = {} /\ Talk \cap InitialBody = {} /\ Talk \subseteq Body
    /\ InitialBody \cap Byte = {} /\ InitialBody \subseteq Body
    /\ \A v \in Talk : MsgOf(v) \in Msg \ {"Initial"} /\ TypeByteOf[MsgOf(v)] \in TypeByte
    /\ \A v \in InitialBody : MsgOf(v) = "Initial"
  <1>1. /\ {"NoticeResponse", "ErrorResponse", "ParameterStatus", "Sync", "Terminate"}
             \subseteq Talk
        /\ Body \cap Byte = {}
        /\ "Authentication" \in Msg
    BY DEF Talk, Body, InitialBody, AuthenticationBody, Msg, TypeByteOf, Byte, TypeByte,
           UnknownByte
  <1>2. Talk \subseteq Body /\ InitialBody \subseteq Body /\ Talk \cap InitialBody = {}
    BY DEF Talk, Body
  <1>3. \A v \in Talk : MsgOf(v) \in Msg \ {"Initial"}
    BY <1>1 DEF MsgOf, Talk, Body
  <1>4. \A v \in InitialBody : MsgOf(v) = "Initial"
    BY DEF MsgOf
  <1> QED BY <1>1, <1>2, <1>3, <1>4, TypeByteType

\* How far a peer gets is a pair of places.
LEMMA OnIs ==
    \A p, q :
        /\ [from |-> p, to |-> q] \in HearsOn <=>
             p \in PlaceNames /\ q \in PlaceNames /\ OnByHearing(p, q)
        /\ [from |-> p, to |-> q] \in SaysOn <=>
             p \in PlaceNames /\ q \in PlaceNames /\ OnBySaying(p, q)
        /\ [from |-> p, to |-> q] \in BackOn <=>
             p \in BackPlace /\ q \in BackPlace /\ OnAsBackend(p, q)
  BY DEF HearsOn, SaysOn, BackOn

\* A peer that goes on gets no further than that.
LEMMA OnClosed ==
    ASSUME NEW p, NEW q, NEW v, NEW t
    PROVE  /\ OnByHearing(p, q) /\ HearsF(q, v, t) /\ (t = Gone => q = Gone) => OnByHearing(p, t)
           /\ OnBySaying(p, q) /\ SaysF(q, v, t) /\ v \in Talk => OnBySaying(p, t)
           /\ OnAsBackend(p, q) /\ SaysB(q, v, t) => OnAsBackend(p, t)
  <1>1. OnByHearing(p, q) /\ HearsF(q, v, t) /\ (t = Gone => q = Gone) => OnByHearing(p, t)
    BY SMTT(60) DEF OnByHearing, HearsF, Gone
  <1>2. OnBySaying(p, q) /\ SaysF(q, v, t) /\ v \in Talk => OnBySaying(p, t)
    <2>1. {"TLS", "Startup", "Cancel"} \cap Talk = {}
      BY DEF Talk, InitialBody
    <2> QED BY <2>1, PipeliningAssumption, BatchingAssumption, SMTT(60) DEF OnBySaying, SaysF, Gone
  <1>3. OnAsBackend(p, q) /\ SaysB(q, v, t) => OnAsBackend(p, t)
    <2>1. Listens(q) /\ SaysB(q, v, t) => t \in {q, Gone}
      BY SMTT(60) DEF Listens, SaysB
    <2>2. ~SaysB(Gone, v, t)
      BY SMTT(60) DEF SaysB, State, Conversing, Gone
    <2> QED BY <2>1, <2>2 DEF OnAsBackend
  <1> QED BY <1>1, <1>2, <1>3

\* Nobody comes back, and hearing alone makes nobody leave.
LEMMA OnGone ==
    ASSUME NEW p
    PROVE  /\ OnByHearing(p, Gone) => p = Gone
           /\ OnBySaying(Gone, p) => p = Gone
           /\ OnAsBackend(Gone, p) => p = Gone
  BY DEF OnByHearing, OnBySaying, OnAsBackend, Gone

(***************************************************************************)
(* A frontend that says f and hears b ends up in the same place, whichever *)
(* comes first.                                                            *)
(***************************************************************************)

\* What a frontend hears, it hears also after it said something more.
LEMMA HearsStill ==
    ASSUME NEW r, NEW q, NEW b, NEW h, OnBySaying(r, q), HearsF(r, b, h), b \in Talk
    PROVE  \E t \in PlaceNames : HearsF(q, b, t)
  BY PipeliningAssumption, BatchingAssumption, SMTT(60) DEF OnBySaying, HearsF, Gone, PlaceNames

\* Said first, then heard: it could as well have been heard first.
LEMMA HearsBeforeSays ==
    ASSUME NEW r, NEW f, NEW q, NEW b, NEW h, NEW t,
           SaysF(r, f, q), HearsF(r, b, h), HearsF(q, b, t), h = Gone => r = Gone
    PROVE  SaysF(h, f, t)
  BY PipeliningAssumption, BatchingAssumption, SMTT(60) DEF SaysF, HearsF, Gone

\* So it is with a number of messages said.
LEMMA HearsBeforeOn ==
    ASSUME NEW r, NEW q, NEW b, NEW h, NEW t,
           OnBySaying(r, q), HearsF(r, b, h), HearsF(q, b, t), h = Gone => r = Gone
    PROVE  OnBySaying(h, t)
  BY PipeliningAssumption, BatchingAssumption, SMTT(60) DEF OnBySaying, HearsF, Gone

\* What a frontend may say, it may say also after it heard something more.
LEMMA SaysStill ==
    ASSUME NEW p, NEW h, NEW f, NEW t, OnByHearing(p, h), SaysF(p, f, t)
    PROVE  \E s \in PlaceNames : SaysF(h, f, s)
  BY PipeliningAssumption, BatchingAssumption, SMTT(60) DEF OnByHearing, SaysF, Gone, PlaceNames

\* Heard first, then said: it could as well have been said first.
LEMMA SaysBeforeHears ==
    ASSUME NEW p, NEW b, NEW h, NEW f, NEW s, NEW t, b \in Talk,
           HearsF(p, b, h), SaysF(p, f, s), SaysF(h, f, t), h = Gone => p = Gone
    PROVE  HearsF(s, b, t)
  BY PipeliningAssumption, BatchingAssumption, SMTT(60) DEF SaysF, HearsF, Gone

\* So it is with a number of messages heard.
LEMMA SaysBeforeOn ==
    ASSUME NEW p, NEW h, NEW f, NEW s, NEW t, OnByHearing(p, h), SaysF(p, f, s), SaysF(h, f, t)
    PROVE  OnByHearing(s, t)
  BY PipeliningAssumption, BatchingAssumption, SMTT(60) DEF OnByHearing, SaysF, Gone

-----------------------------------------------------------------------------
(***************************************************************************)
(* The match of go() as relations.                                         *)
(***************************************************************************)
\* In state c, a message m of the backend leads to "to".
ArmB(m, c, to) ==
    \/ m = "Authentication" /\ c \in State /\ to = Auth
    \/ m = "BackendKeyData" /\ c = "Authenticated" /\ to = "SentAllBackendParams"
    \/ m = "BindComplete" /\ c = "GotBinding" /\ to = "ReadyForQuery"
    \/ m = "CommandComplete" /\ c \in {"AnsweringToSimpleQuery", "CompletedSimpleCommand",
         "GotSimpleQuery"} /\ to = "CompletedSimpleCommand"
    \/ m = "CommandComplete" /\ c \in {"AnsweringToExtendedQuery", "ExecutingExtendedQuery"}
         /\ to = "CompletedExtendedQuery"
    \/ m = "DataRow" /\ c = "AnsweringToSimpleQuery" /\ to = "AnsweringToSimpleQuery"
    \/ m = "DataRow" /\ c \in {"AnsweringToExtendedQuery", "ExecutingExtendedQuery"}
         /\ to = "AnsweringToExtendedQuery"
    \/ m = "EmptyQueryResponse" /\ c = "ExecutingExtendedQuery" /\ to = "SeenEmptyExtendedQuery"
    \/ m = "EmptyQueryResponse" /\ c = "GotSimpleQuery" /\ to = "SeenEmptySimpleQuery"
    \/ m = "ErrorResponse" /\ c \in AbortsSimpleQuery /\ to = "AbortedSimpleQuery"
    \/ m = "ErrorResponse" /\ c \in AbortsParsingOrBinding /\ to = "AbortedParsingOrBinding"
    \/ m = "ErrorResponse" /\ c \in AbortsExtendedQuery /\ to = "AbortedExtendedQuery"
    \/ m = "ErrorResponse" /\ c \in State \ (AbortsSimpleQuery \cup AbortsParsingOrBinding \cup
         AbortsExtendedQuery) /\ to = "Ok"
    \/ m = "NegotiateProtocolVersion" /\ c \in {"GotStartup", "Authenticated"} /\ to = Same
    \/ m = "NoticeResponse" /\ c \in State /\ to = Same
    \/ m = "ParameterStatus" /\ c = "Authenticated" /\ to = "Authenticated"
    \/ m = "ParseComplete" /\ c = "GotPreparedStatement" /\ to = "ReadyForQuery"
    \/ m = "PortalSuspended" /\ c = "AnsweringToExtendedQuery" /\ to = "SuspendedExtendedQuery"
    \/ m = "ReadyForQuery" /\ c \in {"AbortedParsingOrBinding", "AbortedSimpleQuery",
         "CompletedSimpleCommand", "SentAllBackendParams", "GotSync", "SeenEmptySimpleQuery"}
         /\ to = "ReadyForQuery"
    \/ m = "RowDescription" /\ c \in {"GotSimpleQuery", "CompletedSimpleCommand"}
         /\ to = "AnsweringToSimpleQuery"

\* So does one of the frontend.
ArmF(m, c, to) ==
    \/ m = "Bind" /\ c = "ReadyForQuery" /\ to = "GotBinding"
    \/ m = "Execute" /\ c \in {"ReadyForQuery", "SuspendedExtendedQuery"}
         /\ to = "ExecutingExtendedQuery"
    \/ m = "Password" /\ c = "AskedCleartextPassword" /\ to = "GotCleartextPassword"
    \/ m = "GssResponse" /\ c = "AskedGssResponse" /\ to = "GotGssResponse"
    \/ m = "Password" /\ c = "AskedMd5Password" /\ to = "GotMd5Password"
    \/ m = "SaslInitialResponse" /\ c = "AskedSaslInitialResponse" /\ to = "GotAnySaslResponse"
    \/ m = "SaslResponse" /\ c = "AskedSaslResponse" /\ to = "GotAnySaslResponse"
    \/ m = "Sync" /\ c \in {"AbortedExtendedQuery", "CompletedExtendedQuery",
         "SeenEmptyExtendedQuery", "SuspendedExtendedQuery"} /\ to = "GotSync"
    \/ m = "Parse" /\ c = "ReadyForQuery" /\ to = "GotPreparedStatement"
    \/ m = "Query" /\ c = "ReadyForQuery" /\ to = "GotSimpleQuery"
    \/ m = "Terminate" /\ c = "ReadyForQuery" /\ to = "Ok"

\* An arm of the match says no more than that.
LEMMA ArmsAre ==
    \A a \in AllArms : \A c \in a.in :
        IF a.side = "Backend" THEN ArmB(a.msg, c, a.to)
                              ELSE a.side = "Frontend" /\ ArmF(a.msg, c, a.to)
  <1>1. \A a \in BackendArms : \A c \in a.in : a.side = "Backend" /\ ArmB(a.msg, c, a.to)
    BY SMTT(60) DEF BackendArms, Arm, ArmB
  <1>2. \A a \in FrontendArms : \A c \in a.in : a.side = "Frontend" /\ ArmF(a.msg, c, a.to)
    BY SMTT(60) DEF FrontendArms, Arm, ArmF
  <1> QED BY <1>1, <1>2, Zenon DEF AllArms

\* Nor less: a message of the backend that the relation takes has its arm.
LEMMA BackendArm ==
    ASSUME NEW m, NEW c, NEW to, ArmB(m, c, to)
    PROVE  Matching("Backend", TypeByteOf[m], c) # {}
  <1> DEFINE W(n, in, t) == Arm("Backend", n, in, t) \in BackendArms
             Goal == Matching("Backend", TypeByteOf[m], c) # {}
  <1>1. /\ W("Authentication", State, Auth)
        /\ W("BackendKeyData", {"Authenticated"}, "SentAllBackendParams")
        /\ W("BindComplete", {"GotBinding"}, "ReadyForQuery")
        /\ W("CommandComplete", {"AnsweringToSimpleQuery", "CompletedSimpleCommand",
             "GotSimpleQuery"}, "CompletedSimpleCommand")
        /\ W("CommandComplete", {"AnsweringToExtendedQuery", "ExecutingExtendedQuery"},
             "CompletedExtendedQuery")
        /\ W("DataRow", {"AnsweringToSimpleQuery"}, "AnsweringToSimpleQuery")
        /\ W("DataRow", {"AnsweringToExtendedQuery", "ExecutingExtendedQuery"},
             "AnsweringToExtendedQuery")
        /\ W("EmptyQueryResponse", {"ExecutingExtendedQuery"}, "SeenEmptyExtendedQuery")
        /\ W("EmptyQueryResponse", {"GotSimpleQuery"}, "SeenEmptySimpleQuery")
        /\ W("ErrorResponse", AbortsSimpleQuery, "AbortedSimpleQuery")
    BY ZenonT(60) DEF BackendArms
  <1>2. /\ W("ErrorResponse", AbortsParsingOrBinding, "AbortedParsingOrBinding")
        /\ W("ErrorResponse", AbortsExtendedQuery, "AbortedExtendedQuery")
        /\ W("ErrorResponse", State \ (AbortsSimpleQuery \cup AbortsParsingOrBinding \cup
             AbortsExtendedQuery), "Ok")
        /\ W("NegotiateProtocolVersion", {"GotStartup", "Authenticated"}, Same)
        /\ W("NoticeResponse", State, Same)
        /\ W("ParameterStatus", {"Authenticated"}, "Authenticated")
        /\ W("ParseComplete", {"GotPreparedStatement"}, "ReadyForQuery")
        /\ W("PortalSuspended", {"AnsweringToExtendedQuery"}, "SuspendedExtendedQuery")
        /\ W("ReadyForQuery", {"AbortedParsingOrBinding", "AbortedSimpleQuery",
             "CompletedSimpleCommand", "SentAllBackendParams", "GotSync", "SeenEmptySimpleQuery"},
             "ReadyForQuery")
        /\ W("RowDescription", {"GotSimpleQuery", "CompletedSimpleCommand"},
             "AnsweringToSimpleQuery")
    BY ZenonT(60) DEF BackendArms
  <1>3. ASSUME NEW in, NEW t, W(m, in, t), c \in in
        PROVE  Goal
    <2> DEFINE a == Arm("Backend", m, in, t)
    <2>1. a \in AllArms /\ a.side = "Backend" /\ a.msg = m /\ a.in = in
      BY <1>3 DEF AllArms, Arm
    <2> HIDE DEF a
    <2>2. a \in Matching("Backend", TypeByteOf[m], c)
      BY <1>3, <2>1 DEF Matching
    <2> QED BY <2>2
  <1> HIDE DEF W, Goal
  <1>4. Goal
    BY <1>1, <1>2, <1>3, SMTT(60) DEF ArmB
  <1> QED BY <1>4 DEF Goal

\* So has one of the frontend.
LEMMA FrontendArm ==
    ASSUME NEW m, NEW c, NEW to, ArmF(m, c, to)
    PROVE  Matching("Frontend", TypeByteOf[m], c) # {}
  <1> DEFINE W(n, in, t) == Arm("Frontend", n, in, t) \in FrontendArms
             Goal == Matching("Frontend", TypeByteOf[m], c) # {}
  <1>1. /\ W("Bind", {"ReadyForQuery"}, "GotBinding")
        /\ W("Execute", {"ReadyForQuery", "SuspendedExtendedQuery"}, "ExecutingExtendedQuery")
        /\ W("Password", {"AskedCleartextPassword"}, "GotCleartextPassword")
        /\ W("GssResponse", {"AskedGssResponse"}, "GotGssResponse")
        /\ W("Password", {"AskedMd5Password"}, "GotMd5Password")
        /\ W("SaslInitialResponse", {"AskedSaslInitialResponse"}, "GotAnySaslResponse")
        /\ W("SaslResponse", {"AskedSaslResponse"}, "GotAnySaslResponse")
        /\ W("Sync", {"AbortedExtendedQuery", "CompletedExtendedQuery", "SeenEmptyExtendedQuery",
             "SuspendedExtendedQuery"}, "GotSync")
        /\ W("Parse", {"ReadyForQuery"}, "GotPreparedStatement")
        /\ W("Query", {"ReadyForQuery"}, "GotSimpleQuery")
        /\ W("Terminate", {"ReadyForQuery"}, "Ok")
    BY ZenonT(60) DEF FrontendArms
  <1>2. ASSUME NEW in, NEW t, W(m, in, t), c \in in
        PROVE  Goal
    <2> DEFINE a == Arm("Frontend", m, in, t)
    <2>1. a \in AllArms /\ a.side = "Frontend" /\ a.msg = m /\ a.in = in
      BY <1>2 DEF AllArms, Arm
    <2> HIDE DEF a
    <2>2. a \in Matching("Frontend", TypeByteOf[m], c)
      BY <1>2, <2>1 DEF Matching
    <2> QED BY <2>2
  <1> HIDE DEF W, Goal
  <1>3. Goal
    BY <1>1, <1>2, SMTT(60) DEF ArmF
  <1> QED BY <1>3 DEF Goal

\* Where each state leaves the frontend.
LEMMA ExpectsIs ==
    /\ \A c \in {"AskedCleartextPassword", "AskedMd5Password"} : Expects[c] = "OwesPassword"
    /\ Expects["AskedGssResponse"] = "OwesGss"
    /\ Expects["AskedSaslInitialResponse"] = "OwesSaslInitial"
    /\ Expects["AskedSaslResponse"] = "OwesSasl"
    /\ Expects["ReadyForQuery"] = "Idle"
    /\ \A c \in {"GotPreparedStatement", "GotBinding"} : Expects[c] = "Preparing"
    /\ \A c \in {"ExecutingExtendedQuery", "AnsweringToExtendedQuery"} : Expects[c] = "Executing"
    /\ \A c \in {"CompletedExtendedQuery", "SeenEmptyExtendedQuery", "AbortedExtendedQuery"} :
         Expects[c] = "Executed"
    /\ Expects["SuspendedExtendedQuery"] = "Suspended"
    /\ Expects["AbortedParsingOrBinding"] = IF "Sync" \in Ways THEN "Failed" ELSE "Busy"
    /\ \A c \in {"GotSimpleQuery", "AnsweringToSimpleQuery", "CompletedSimpleCommand",
                 "SeenEmptySimpleQuery", "AbortedSimpleQuery", "Bound"} :
         Expects[c] = "Busy"
    /\ Expects["GotSync"] = "Synced"
    /\ \A c \in {"GotStartup", "GotCleartextPassword", "GotMd5Password", "GotGssResponse",
                 "GotAnySaslResponse", "FinishedSasl", "Authenticated", "SentAllBackendParams"} :
         Expects[c] = "Waiting"
    /\ \A c \in State : Expects[c] \in PlaceNames \ {Gone}
  <1>1. \A c \in State : Expects[c] \in PlaceNames \ {Gone}
    BY SMTT(60) DEF Expects, State, PlaceNames, Gone
  <1> QED BY <1>1, SMTT(60) DEF Expects, State

\* The type bytes of what goes through the loop.
LEMMA Bytes ==
    /\ TypeByteOf["Authentication"] = "R" /\ TypeByteOf["BackendKeyData"] = "K"
    /\ TypeByteOf["Bind"] = "B" /\ TypeByteOf["BindComplete"] = "2"
    /\ TypeByteOf["CommandComplete"] = "C" /\ TypeByteOf["DataRow"] = "D"
    /\ TypeByteOf["EmptyQueryResponse"] = "I" /\ TypeByteOf["ErrorResponse"] = "E"
    /\ TypeByteOf["Execute"] = "E" /\ TypeByteOf["GssResponse"] = "p"
    /\ TypeByteOf["NegotiateProtocolVersion"] = "v" /\ TypeByteOf["NoticeResponse"] = "N"
    /\ TypeByteOf["ParameterStatus"] = "S" /\ TypeByteOf["Parse"] = "P"
    /\ TypeByteOf["ParseComplete"] = "1" /\ TypeByteOf["Password"] = "p"
    /\ TypeByteOf["PortalSuspended"] = "s" /\ TypeByteOf["Query"] = "Q"
    /\ TypeByteOf["ReadyForQuery"] = "Z" /\ TypeByteOf["RowDescription"] = "T"
    /\ TypeByteOf["SaslInitialResponse"] = "p" /\ TypeByteOf["SaslResponse"] = "p"
    /\ TypeByteOf["Sync"] = "S" /\ TypeByteOf["Terminate"] = "X"
  BY DEF TypeByteOf

\* The messages of a backend, each with a type byte of its own.
BackMsg == {"Authentication", "BackendKeyData", "BindComplete", "CommandComplete", "DataRow",
            "EmptyQueryResponse", "ErrorResponse", "NegotiateProtocolVersion", "NoticeResponse",
            "ParameterStatus", "ParseComplete", "PortalSuspended", "ReadyForQuery",
            "RowDescription"}

\* A type byte from a backend tells the message.
LEMMA BackBytes ==
    \A m, n \in BackMsg : TypeByteOf[m] = TypeByteOf[n] => m = n
  BY Bytes, SMTT(60) DEF BackMsg

\* What a backend says in a state of the loop.
LEMMA BackSaid ==
    ASSUME NEW c \in State, NEW b, NEW p, SaysB(c, b, p)
    PROVE  /\ b \in Talk
           /\ MsgOf(b) = (IF b \in AuthenticationBody THEN "Authentication" ELSE b)
           /\ MsgOf(b) \in BackMsg
           /\ b \in AuthenticationBody => b \in {"CleartextPassword", "Gss", "GssContinue",
                  "Md5Password", "AuthenticationOk", "Sasl", "SaslContinue", "SaslFinal", "Sspi",
                  "KerberosV5", "ScmCredential"}
           /\ b \notin AuthenticationBody => b \in BackMsg \ {"Authentication"}
  <1> DEFINE Auths == {"CleartextPassword", "Gss", "GssContinue", "Md5Password",
                       "AuthenticationOk", "Sasl", "SaslContinue", "SaslFinal", "Sspi",
                       "KerberosV5", "ScmCredential"}
             Others == BackMsg \ {"Authentication"}
  <1>1. c # "GotTls"
    BY DEF State
  <1>2. b \in Auths \cup Others
    BY <1>1, SMTT(60) DEF SaysB, BackMsg
  <1>3. Auths \subseteq AuthenticationBody /\ Auths \cap InitialBody = {}
    BY DEF AuthenticationBody, InitialBody
  <1>4. Others \subseteq Msg \ {"Initial", "Authentication"}
    BY DEF BackMsg, Msg, TypeByteOf
  <1>5. Others \cap AuthenticationBody = {} /\ Others \cap InitialBody = {}
    BY DEF BackMsg, AuthenticationBody, InitialBody
  <1>6. "Authentication" \in BackMsg
    BY DEF BackMsg
  <1> HIDE DEF Auths, Others
  <1>7. CASE b \in Auths
    BY <1>3, <1>6, <1>7 DEF Talk, Body, MsgOf, Auths
  <1>8. CASE b \in Others
    BY <1>4, <1>5, <1>8 DEF Talk, Body, MsgOf, Others
  <1> QED BY <1>2, <1>7, <1>8

\* An arm that takes a type byte from the backend takes the message that the byte tells.
LEMMA BackArm ==
    ASSUME NEW c, NEW m \in BackMsg, NEW a \in Matching("Backend", TypeByteOf[m], c)
    PROVE  a.msg = m /\ ArmB(m, c, a.to)
  <1>1. a \in AllArms /\ a.side = "Backend" /\ TypeByteOf[a.msg] = TypeByteOf[m] /\ c \in a.in
    BY DEF Matching
  <1>2. ArmB(a.msg, c, a.to)
    BY <1>1, ArmsAre
  <1>3. a.msg \in BackMsg
    BY <1>2 DEF ArmB, BackMsg
  <1> QED BY <1>1, <1>2, <1>3, BackBytes

\* What a backend says in a state of the loop, the frontend that is up with it hears.
LEMMA FrontHears ==
    ASSUME NEW c \in State, NEW b, NEW p, SaysB(c, b, p),
           b = "ParameterStatus" => c = "Authenticated"
    PROVE  /\ p \in State => HearsF(Expects[c], b, Expects[p])
           /\ \E h \in PlaceNames : HearsF(Expects[c], b, h)
  <1>1. p \in State => HearsF(Expects[c], b, Expects[p])
    <2>1. CASE b = "NoticeResponse"
      <3>1. p = c
        BY <2>1 DEF SaysB
      <3>2. Expects[c] \in {"Waiting", "Idle", "Busy", "Preparing", "Failed", "Executing",
                            "Executed", "Suspended", "Synced", "OwesPassword", "OwesGss",
                            "OwesSaslInitial", "OwesSasl"}
        BY ExpectsIs, SMTT(60) DEF State
      <3> QED BY <2>1, <3>1, <3>2 DEF HearsF
    <2>2. CASE b # "NoticeResponse"
      <3>1. c # "GotTls" /\ {"Listening", "AskedOther", Gone} \cap State = {}
        BY DEF State, Gone
      <3> QED BY <2>2, <3>1, ExpectsIs, SMTT(60) DEF SaysB, HearsF
    <2> QED BY <2>1, <2>2
  <1>2. CASE p \in State
    BY <1>1, <1>2, ExpectsIs
  <1>3. CASE p \notin State
    <2>1. c # "GotTls"
      BY DEF State
    <2>2. \/ b = "ErrorResponse" /\ c \in {"GotStartup", "GotCleartextPassword",
                "GotMd5Password", "GotGssResponse", "GotAnySaslResponse", "FinishedSasl",
                "Authenticated", "SentAllBackendParams", "ReadyForQuery"}
          \/ b \in {"KerberosV5", "ScmCredential"} /\ c = "GotStartup"
      BY <1>3, <2>1, SMTT(60) DEF SaysB, State, Conversing
    <2>3. HearsF(Expects[c], b, Gone) \/ HearsF(Expects[c], b, "OwesOther")
      BY <2>2, ExpectsIs, SMTT(60) DEF HearsF
    <2> QED BY <1>1, <1>3, <2>3 DEF PlaceNames
  <1> QED BY <1>1, <1>2, <1>3

\* What a backend says in a state of the loop, go() takes, unless it is a ParameterStatus.
LEMMA BackTaken ==
    ASSUME NEW c \in State, NEW b, NEW p, SaysB(c, b, p)
    PROVE  \/ \E to : ArmB(MsgOf(b), c, to)
           \/ b = "ParameterStatus" /\ c \in Conversing /\ "Parameters" \in Ways
  <1>1. /\ MsgOf(b) = (IF b \in AuthenticationBody THEN "Authentication" ELSE b)
        /\ b \notin AuthenticationBody => b \in BackMsg \ {"Authentication"}
    BY BackSaid
  <1>2. CASE b \in AuthenticationBody
    BY <1>1, <1>2 DEF ArmB
  <1>3. CASE b \notin AuthenticationBody
    <2>1. MsgOf(b) = b /\ b \in BackMsg \ {"Authentication"}
      BY <1>1, <1>3
    <2>2. CASE b \in {"ErrorResponse", "NoticeResponse"}
      BY <2>1, <2>2 DEF ArmB
    <2>3. CASE b \notin {"ErrorResponse", "NoticeResponse"}
      <3>1. \/ \E to : ArmB(b, c, to)
            \/ b = "ParameterStatus" /\ c \in Conversing /\ "Parameters" \in Ways
        BY <2>1, <2>3, SMTT(60) DEF SaysB, ArmB, BackMsg
      <3> QED BY <2>1, <3>1
    <2> QED BY <2>2, <2>3
  <1> QED BY <1>2, <1>3

\* And goes on to where the backend is, or ends.
LEMMA BackContinues ==
    ASSUME NEW c \in State, NEW b, NEW p, SaysB(c, b, p), NEW to, ArmB(MsgOf(b), c, to)
    PROVE  \/ Continuation(to, b, c) = p /\ p \in State
           \/ Continuation(to, b, c) = "Ok" /\ (p = Gone \/ c = "GotSync")
           \/ Continuation(to, b, c) = "Unsupported" /\ c = "GotStartup" /\ p = "AskedOther"
  <1>1. /\ MsgOf(b) = (IF b \in AuthenticationBody THEN "Authentication" ELSE b)
        /\ b \in AuthenticationBody => b \in {"CleartextPassword", "Gss", "GssContinue",
               "Md5Password", "AuthenticationOk", "Sasl", "SaslContinue", "SaslFinal", "Sspi",
               "KerberosV5", "ScmCredential"}
        /\ b \notin AuthenticationBody => b \in BackMsg \ {"Authentication"}
    BY BackSaid
  <1>2. CASE b \in AuthenticationBody
    <2>1. to = Auth
      BY <1>1, <1>2 DEF ArmB
    <2>2. Continuation(to, b, c) = ProcessBackendAuthentication(b, c)
      BY <2>1 DEF Continuation, Same, Auth, First, FirstInTls
    <2>3. \/ ProcessBackendAuthentication(b, c) = p /\ p \in State
          \/ /\ ProcessBackendAuthentication(b, c) = "Unsupported"
             /\ c = "GotStartup" /\ p = "AskedOther"
      BY <1>1, <1>2, SMTT(60) DEF SaysB, ProcessBackendAuthentication, State
    <2> QED BY <2>2, <2>3
  <1>3. CASE b \notin AuthenticationBody
    <2>1. MsgOf(b) = b /\ b \in BackMsg \ {"Authentication"}
      BY <1>1, <1>3
    <2>2. CASE b = "NoticeResponse" \/ b = "NegotiateProtocolVersion"
      <3>1. to = Same /\ p = c
        BY <2>1, <2>2 DEF ArmB, SaysB
      <3> QED BY <3>1 DEF Continuation, Same, Auth, First, FirstInTls
    <2>3. CASE b = "ErrorResponse"
      <3>1. c # "GotTls"
        BY DEF State
      <3>2. (to = p /\ p \in State) \/ (to = "Ok" /\ (p = Gone \/ c = "GotSync"))
        BY <2>1, <2>3, <3>1, SMTT(60) DEF ArmB, SaysB, State, AbortsSimpleQuery,
           AbortsParsingOrBinding, AbortsExtendedQuery
      <3> QED BY <3>2, NameFacts DEF Continuation, Same, Auth, First, FirstInTls
    <2>4. CASE b \notin {"ErrorResponse", "NoticeResponse", "NegotiateProtocolVersion"}
      <3>1. to = p /\ p \in State
        BY <2>1, <2>4, SMTT(60) DEF ArmB, SaysB, BackMsg, State
      <3> QED BY <3>1, NameFacts DEF Continuation, Same, Auth, First, FirstInTls
    <2> QED BY <2>2, <2>3, <2>4
  <1> QED BY <1>2, <1>3

\* A backend that has a message to hear says little, and leaves, or stays where it is.
LEMMA BackListening ==
    ASSUME NEW p, NEW f, NEW c \in State, HearsB(p, f, c)
    PROVE  /\ Listens(p) /\ p # Gone /\ c # "Authenticated"
           /\ \A v, q : SaysB(p, v, q) =>
                /\ \/ v = "NoticeResponse" /\ q = p
                   \/ v = "ParameterStatus" /\ q = p /\ c \in Conversing /\ "Parameters" \in Ways
                   \/ v = "ErrorResponse" /\ q = Gone /\ p = "ReadyForQuery"
                /\ q = p => SaysB(c, v, c)
  <1>1. /\ Listens(p) /\ p # Gone /\ c # "Authenticated"
        /\ p = "ReadyForQuery" => c \in {"GotSimpleQuery", "GotPreparedStatement", "GotBinding",
                                         "ExecutingExtendedQuery", "GotSync"}
        /\ p = "CompletedExtendedQuery" => c = "GotSync"
    BY SMTT(60) DEF HearsB, Listens, State, Gone
  <1>2. Conversing \cap {"Listening", "AskedCleartextPassword", "AskedMd5Password",
           "AskedGssResponse", "AskedSaslInitialResponse", "AskedSaslResponse",
           "SeenEmptyExtendedQuery", "SuspendedExtendedQuery", "AbortedExtendedQuery",
           "AbortedParsingOrBinding", "AskedOther"} = {}
    BY DEF Conversing
  <1>3. {"GotSimpleQuery", "GotPreparedStatement", "GotBinding", "ExecutingExtendedQuery",
         "GotSync"} \subseteq Conversing
    BY DEF Conversing
  <1>4. ASSUME NEW v, NEW q, SaysB(p, v, q)
        PROVE  \/ v = "NoticeResponse" /\ q = p
               \/ v = "ParameterStatus" /\ q = p /\ c \in Conversing /\ "Parameters" \in Ways
               \/ v = "ErrorResponse" /\ q = Gone /\ p = "ReadyForQuery"
    BY <1>1, <1>2, <1>3, <1>4, SMTT(60) DEF Listens, SaysB
  <1>5. ASSUME NEW v, NEW q, SaysB(p, v, q), q = p
        PROVE  SaysB(c, v, c)
    <2>1. \/ v = "NoticeResponse"
          \/ v = "ParameterStatus" /\ c \in Conversing /\ "Parameters" \in Ways
      BY <1>1, <1>4, <1>5
    <2> QED BY <2>1 DEF SaysB
  <1> QED BY <1>1, <1>4, <1>5

\* When the backend leaves instead of hearing, go() takes that too.
LEMMA BackLeaves ==
    ASSUME NEW f, NEW c \in State, HearsB("ReadyForQuery", f, c), NEW to,
           ArmB("ErrorResponse", c, to)
    PROVE  /\ Continuation(to, "ErrorResponse", c) = to
           /\ to \in State => HearsF(Expects[c], "ErrorResponse", Expects[to])
           /\ to \in State \cup {"Ok"}
           /\ \E h \in PlaceNames : HearsF(Expects[c], "ErrorResponse", h)
  <1>1. c \in {"GotSimpleQuery", "GotPreparedStatement", "GotBinding", "ExecutingExtendedQuery",
               "GotSync"}
    BY SMTT(60) DEF HearsB, State, Gone
  <1>2. \/ c = "GotSimpleQuery" /\ to = "AbortedSimpleQuery"
        \/ c \in {"GotPreparedStatement", "GotBinding"} /\ to = "AbortedParsingOrBinding"
        \/ c = "ExecutingExtendedQuery" /\ to = "AbortedExtendedQuery"
        \/ c = "GotSync" /\ to = "Ok"
    BY <1>1, SMTT(60) DEF ArmB, AbortsSimpleQuery, AbortsParsingOrBinding, AbortsExtendedQuery
  <1>3. Continuation(to, "ErrorResponse", c) = to
    BY <1>2 DEF Continuation, Same, Auth, First, FirstInTls
  <1>4. to \in State \cup {"Ok"} /\ "Ok" \notin State
    BY <1>2 DEF State
  <1>5. to \in State => HearsF(Expects[c], "ErrorResponse", Expects[to])
    BY <1>2, <1>4, ExpectsIs, SMTT(60) DEF HearsF
  <1>6. c = "GotSync" => HearsF(Expects[c], "ErrorResponse", "Synced")
    BY ExpectsIs DEF HearsF
  <1>7. \E h \in PlaceNames : HearsF(Expects[c], "ErrorResponse", h)
    BY <1>2, <1>4, <1>5, <1>6, ExpectsIs DEF PlaceNames
  <1> QED BY <1>3, <1>4, <1>5, <1>7

\* An arm that takes a message of the frontend in its turn takes it for what it is.
LEMMA FrontArm ==
    ASSUME NEW c \in State, NEW f \in Talk, NEW t, SaysF(Expects[c], f, t),
           NEW a \in Matching("Frontend", TypeByteOf[MsgOf(f)], c)
    PROVE  /\ MsgOf(f) = f /\ a.msg = f
           /\ \/ /\ Continuation(a.to, f, c) = a.to
                 /\ a.to \in State /\ Expects[a.to] = t /\ HearsB(c, f, a.to)
              \/ Continuation(a.to, f, c) = "Ok" /\ t = Gone /\ HearsB(c, f, Gone)
  <1>1. a \in AllArms /\ a.side = "Frontend" /\ TypeByteOf[a.msg] = TypeByteOf[MsgOf(f)]
        /\ c \in a.in
    BY DEF Matching
  <1>2. ArmF(a.msg, c, a.to)
    BY <1>1, ArmsAre
  <1>3. f \in {"Password", "GssResponse", "SaslInitialResponse", "SaslResponse", "Query", "Parse",
               "Bind", "Execute", "Sync", "Terminate"}
    <2>1. {"TLS", "Startup", "Cancel"} \cap Talk = {}
      BY DEF Talk, InitialBody
    <2> QED BY <2>1, SMTT(60) DEF SaysF
  <1>4. MsgOf(f) = f
    BY <1>3 DEF MsgOf, InitialBody, AuthenticationBody
  <1>5. /\ a.msg = f
        /\ \/ a.to \in State /\ Expects[a.to] = t /\ HearsB(c, f, a.to)
           \/ a.to = "Ok" /\ t = Gone /\ HearsB(c, f, Gone)
    <2>1. TypeByteOf[a.msg] = TypeByteOf[f]
      BY <1>1, <1>4
    <2>2. a.msg = f
      BY <1>2, <1>3, <2>1, Bytes, ExpectsIs, SMTT(60) DEF ArmF, SaysF
    <2>3. /\ {"GotBinding", "ExecutingExtendedQuery", "GotCleartextPassword", "GotGssResponse",
              "GotMd5Password", "GotAnySaslResponse", "GotSync", "GotPreparedStatement",
              "GotSimpleQuery"} \subseteq State
          /\ "Ok" \notin State
      BY DEF State
    <2>4. \/ a.to \in State /\ Expects[a.to] = t /\ HearsB(c, f, a.to)
          \/ a.to = "Ok" /\ t = Gone /\ HearsB(c, f, Gone)
      BY <1>2, <2>2, <2>3, ExpectsIs, SMTT(60) DEF ArmF, SaysF, HearsB
    <2> QED BY <2>2, <2>4
  <1>6. Continuation(a.to, f, c) = a.to
    BY <1>5, NameFacts DEF Continuation, Same, Auth, First, FirstInTls
  <1> QED BY <1>4, <1>5, <1>6

\* A message of the frontend that no arm takes is one that goes beyond the tests.
LEMMA FrontRefused ==
    ASSUME NEW c \in State, NEW f \in Talk, NEW t, SaysF(Expects[c], f, t),
           Matching("Frontend", TypeByteOf[MsgOf(f)], c) = {}
    PROVE  /\ MsgOf(f) = f
           /\ \/ /\ "Sync" \in Ways /\ f = "Sync"
                 /\ c \in {"AbortedParsingOrBinding", "ReadyForQuery"}
              \/ /\ "Pipelining" \in Ways /\ f = "Sync"
                 /\ c \in {"GotPreparedStatement", "GotBinding", "ExecutingExtendedQuery",
                           "AnsweringToExtendedQuery"}
              \/ /\ "Pipelining" \in Ways /\ f \in {"Parse", "Bind", "Execute"}
                 /\ c \in {"GotPreparedStatement", "GotBinding", "AbortedParsingOrBinding"}
  <1>1. f \in {"Password", "GssResponse", "SaslInitialResponse", "SaslResponse", "Query", "Parse",
               "Bind", "Execute", "Sync", "Terminate"}
    <2>1. {"TLS", "Startup", "Cancel"} \cap Talk = {}
      BY DEF Talk, InitialBody
    <2> QED BY <2>1, SMTT(60) DEF SaysF
  <1>2. MsgOf(f) = f
    BY <1>1 DEF MsgOf, InitialBody, AuthenticationBody
  <1>3. \A to : ~ArmF(f, c, to)
    BY <1>2, FrontendArm
  <1>4. /\ ArmF("Bind", "ReadyForQuery", "GotBinding")
        /\ \A d \in {"ReadyForQuery", "SuspendedExtendedQuery"} :
             ArmF("Execute", d, "ExecutingExtendedQuery")
        /\ ArmF("Password", "AskedCleartextPassword", "GotCleartextPassword")
        /\ ArmF("GssResponse", "AskedGssResponse", "GotGssResponse")
        /\ ArmF("Password", "AskedMd5Password", "GotMd5Password")
        /\ ArmF("SaslInitialResponse", "AskedSaslInitialResponse", "GotAnySaslResponse")
        /\ ArmF("SaslResponse", "AskedSaslResponse", "GotAnySaslResponse")
        /\ \A d \in {"AbortedExtendedQuery", "CompletedExtendedQuery", "SeenEmptyExtendedQuery",
                     "SuspendedExtendedQuery"} : ArmF("Sync", d, "GotSync")
        /\ ArmF("Parse", "ReadyForQuery", "GotPreparedStatement")
        /\ ArmF("Query", "ReadyForQuery", "GotSimpleQuery")
        /\ ArmF("Terminate", "ReadyForQuery", "Ok")
    BY DEF ArmF
  <1>5. /\ Expects[c] = "OwesPassword" => c \in {"AskedCleartextPassword", "AskedMd5Password"}
        /\ Expects[c] = "OwesGss" => c = "AskedGssResponse"
        /\ Expects[c] = "OwesSaslInitial" => c = "AskedSaslInitialResponse"
        /\ Expects[c] = "OwesSasl" => c = "AskedSaslResponse"
        /\ Expects[c] = "Idle" => c = "ReadyForQuery"
        /\ Expects[c] = "Suspended" => c = "SuspendedExtendedQuery"
        /\ Expects[c] = "Executed" => c \in {"CompletedExtendedQuery", "SeenEmptyExtendedQuery",
                                             "AbortedExtendedQuery"}
        /\ Expects[c] = "Executing" => c \in {"ExecutingExtendedQuery", "AnsweringToExtendedQuery"}
        /\ Expects[c] = "Preparing" => c \in {"GotPreparedStatement", "GotBinding"}
        /\ Expects[c] = "Failed" => c = "AbortedParsingOrBinding"
        /\ Expects[c] \notin {"Begin", "Secured", "PreparingBoth", "PreparingExecuting",
                               "PreparingAll"}
    BY ExpectsIs, SMTT(60) DEF State
  <1>6. /\ f = "Password" => c \notin {"AskedCleartextPassword", "AskedMd5Password"}
        /\ f = "GssResponse" => c # "AskedGssResponse"
        /\ f = "SaslInitialResponse" => c # "AskedSaslInitialResponse"
        /\ f = "SaslResponse" => c # "AskedSaslResponse"
        /\ f \in {"Query", "Parse", "Bind", "Execute", "Terminate"} => c # "ReadyForQuery"
        /\ f = "Execute" => c # "SuspendedExtendedQuery"
        /\ f = "Sync" => c \notin {"CompletedExtendedQuery", "SeenEmptyExtendedQuery",
                                  "AbortedExtendedQuery", "SuspendedExtendedQuery"}
    BY <1>3, <1>4
  <1>7. \/ /\ "Sync" \in Ways /\ f = "Sync"
           /\ c \in {"AbortedParsingOrBinding", "ReadyForQuery"}
        \/ /\ "Pipelining" \in Ways /\ f = "Sync"
           /\ c \in {"GotPreparedStatement", "GotBinding", "ExecutingExtendedQuery",
                     "AnsweringToExtendedQuery"}
        \/ /\ "Pipelining" \in Ways /\ f \in {"Parse", "Bind", "Execute"}
           /\ c \in {"GotPreparedStatement", "GotBinding", "AbortedParsingOrBinding"}
    BY <1>5, <1>6, SMTT(60) DEF SaysF
  <1> QED BY <1>2, <1>7

\* While the backend has a message to hear, go() takes none of the frontend.
LEMMA OneAtATime ==
    ASSUME NEW p, NEW f, NEW c \in State, HearsB(p, f, c), NEW b
    PROVE  Matching("Frontend", b, c) = {}
  <1>1. SUFFICES ASSUME NEW a \in Matching("Frontend", b, c) PROVE FALSE
    OBVIOUS
  <1>2. a \in AllArms /\ a.side = "Frontend" /\ c \in a.in
    BY DEF Matching
  <1>3. ArmF(a.msg, c, a.to)
    BY <1>2, ArmsAre
  <1> QED BY <1>3, SMTT(60) DEF ArmF, HearsB, Gone

-----------------------------------------------------------------------------
(***************************************************************************)
(* Walks.                                                                  *)
(***************************************************************************)

\* Places along a walk: one more at the end; the first one left behind.
Then1(ps, n, t) == [i \in Nat |-> IF i <= n THEN ps[i] ELSE t]
Onward(ps) == [i \in Nat |-> ps[i + 1]]

\* Nothing to carry is a walk that does not move.
LEMMA EmptyWalk ==
    ASSUME NEW moves, NEW x, NEW ps, x = <<>>
    PROVE  Walk(moves, x, 0, ps)
  BY DEF Walk

\* A walk of no message has nothing to carry.
LEMMA NoWalk ==
    ASSUME NEW moves, NEW x \in Seq(Unit), NEW n \in Nat, NEW ps, Walk(moves, x, n, ps)
    PROVE  (n = 0 <=> x = <<>>) /\ Len(x) # 1
  <1>1. Len(x) = 2 * n /\ Len(x) \in Nat
    BY DEF Walk
  <1>2. Len(x) = 0 <=> x = <<>>
    BY EmptySeq
  <1> QED BY <1>1, <1>2

\* Whoever does not move stays where it is.
LEMMA EmptyStays ==
    ASSUME NEW on, NEW ps, [from |-> ps[0], to |-> ps[0]] \in on
    PROVE  Stays(on, 0, ps)
  BY DEF Stays

\* A walk goes on by a message.
LEMMA WalkOn ==
    ASSUME NEW moves, NEW x \in Seq(Unit), NEW n \in Nat, NEW ps, Walk(moves, x, n, ps),
           NEW z \in Seq(Unit), NEW v, IsTalk(z, v), NEW t, Move(moves, ps[n], v, t)
    PROVE  Walk(moves, x \o z, n + 1, Then1(ps, n, t))
  <1> DEFINE y == x \o z
             qs == Then1(ps, n, t)
  <1>1. Len(x) = 2 * n /\ Len(z) = 2
    BY DEF Walk, IsTalk
  <1>2. /\ Len(y) = 2 * (n + 1)
        /\ \A i \in 1 .. 2 * n : y[i] = x[i]
        /\ y[2 * n + 1] = z[1] /\ y[2 * n + 2] = z[2]
    <2>1. /\ Len(y) = Len(x) + Len(z)
          /\ \A i \in 1 .. Len(x) + Len(z) :
               y[i] = IF i <= Len(x) THEN x[i] ELSE z[i - Len(x)]
      BY ConcatProperties
    <2>2. \A i \in 1 .. 2 * n + 2 : y[i] = IF i <= 2 * n THEN x[i] ELSE z[i - 2 * n]
      BY <1>1, <2>1
    <2> HIDE DEF y
    <2>3. 2 * n + 1 \in 1 .. 2 * n + 2 /\ ~(2 * n + 1 <= 2 * n) /\ 2 * n + 1 - 2 * n = 1
      OBVIOUS
    <2>4. 2 * n + 2 \in 1 .. 2 * n + 2 /\ ~(2 * n + 2 <= 2 * n) /\ 2 * n + 2 - 2 * n = 2
      OBVIOUS
    <2>5. \A i \in 1 .. 2 * n : i \in 1 .. 2 * n + 2 /\ i <= 2 * n
      OBVIOUS
    <2>6. Len(y) = 2 * (n + 1)
      BY <1>1, <2>1
    <2>7. y[2 * n + 1] = z[1]
      BY <2>2, <2>3
    <2>8. y[2 * n + 2] = z[2]
      BY <2>2, <2>4
    <2> QED BY <2>2, <2>5, <2>6, <2>7, <2>8
  <1>3. /\ \A i \in 0 .. n : qs[i] = ps[i]
        /\ qs[n + 1] = t
    BY DEF Then1
  <1> HIDE DEF y, qs
  <1>4. ASSUME NEW i \in 1 .. n + 1
        PROVE  /\ y[2 * i - 1].val = TypeByteOf[MsgOf(y[2 * i].val)]
               /\ y[2 * i].val \in Talk
               /\ y[2 * i].quality = "ok"
               /\ Move(moves, qs[i - 1], y[2 * i].val, qs[i])
    <2>1. CASE i \in 1 .. n
      <3>1. /\ x[2 * i - 1].val = TypeByteOf[MsgOf(x[2 * i].val)]
            /\ x[2 * i].val \in Talk
            /\ x[2 * i].quality = "ok"
            /\ Move(moves, ps[i - 1], x[2 * i].val, ps[i])
        BY <2>1 DEF Walk
      <3>2. y[2 * i - 1] = x[2 * i - 1] /\ y[2 * i] = x[2 * i]
        BY <1>2, <2>1
      <3>3. qs[i - 1] = ps[i - 1] /\ qs[i] = ps[i]
        BY <1>3, <2>1
      <3> QED BY <3>1, <3>2, <3>3
    <2>2. CASE i = n + 1
      <3>1. 2 * i - 1 = 2 * n + 1 /\ 2 * i = 2 * n + 2 /\ i - 1 = n
        BY <2>2
      <3>2. /\ z[1].val = TypeByteOf[MsgOf(v)] /\ z[2].val = v /\ z[2].quality = "ok"
            /\ v \in Talk
        BY DEF IsTalk
      <3>3. qs[n] = ps[n]
        BY <1>3
      <3>4. y[2 * i - 1] = z[1] /\ y[2 * i] = z[2] /\ qs[i - 1] = ps[n] /\ qs[i] = t
        BY <1>2, <1>3, <2>2, <3>1, <3>3
      <3> QED BY <3>2, <3>4
    <2> QED BY <2>1, <2>2
  <1> QED BY <1>2, <1>4, Zenon DEF Walk, y, qs

\* And stays within reach.
LEMMA StaysOn ==
    ASSUME NEW on, NEW n \in Nat, NEW ps, Stays(on, n, ps), NEW t,
           \A i \in 0 .. n : [from |-> ps[i], to |-> t] \in on, [from |-> t, to |-> t] \in on
    PROVE  Stays(on, n + 1, Then1(ps, n, t))
  <1> DEFINE qs == Then1(ps, n, t)
  <1>1. /\ \A i \in 0 .. n : qs[i] = ps[i]
        /\ qs[n + 1] = t
    BY DEF Then1
  <1> HIDE DEF qs
  <1>2. ASSUME NEW i \in 0 .. n + 1, NEW j \in 0 .. n + 1, i <= j
        PROVE  [from |-> qs[i], to |-> qs[j]] \in on
    <2>1. CASE j \in 0 .. n
      <3>1. i \in 0 .. n
        BY <1>2, <2>1
      <3> QED BY <1>1, <1>2, <2>1, <3>1 DEF Stays
    <2>2. CASE j = n + 1
      <3>1. i \in 0 .. n \/ i = n + 1
        OBVIOUS
      <3> QED BY <1>1, <2>2, <3>1
    <2> QED BY <2>1, <2>2
  <1> QED BY <1>2, Zenon DEF Stays, qs

\* The first message of a walk, and the rest of it.
LEMMA WalkBegins ==
    ASSUME NEW moves, NEW x \in Seq(Unit), NEW n \in Nat, NEW ps, Walk(moves, x, n, ps), n > 0
    PROVE  /\ n - 1 \in Nat /\ Len(x) \in Nat /\ Len(x) >= 2
           /\ x[1].val = TypeByteOf[MsgOf(x[2].val)]
           /\ x[2].val \in Talk /\ x[2].quality = "ok"
           /\ Move(moves, ps[0], x[2].val, ps[1])
           /\ Walk(moves, SubSeq(x, 3, Len(x)), n - 1, Onward(ps))
  <1> DEFINE y == SubSeq(x, 3, Len(x))
             qs == Onward(ps)
  <1>1. Len(x) = 2 * n
    BY DEF Walk
  <1>2. /\ Len(y) = 2 * (n - 1)
        /\ \A i \in 1 .. 2 * (n - 1) : y[i] = x[i + 2]
    BY <1>1
  <1>3. \A i \in Nat : qs[i] = ps[i + 1]
    BY DEF Onward
  <1> HIDE DEF y, qs
  <1>4. ASSUME NEW i \in 1 .. n
        PROVE  /\ x[2 * i - 1].val = TypeByteOf[MsgOf(x[2 * i].val)]
               /\ x[2 * i].val \in Talk
               /\ x[2 * i].quality = "ok"
               /\ Move(moves, ps[i - 1], x[2 * i].val, ps[i])
    BY DEF Walk
  <1>5. ASSUME NEW i \in 1 .. n - 1
        PROVE  /\ y[2 * i - 1].val = TypeByteOf[MsgOf(y[2 * i].val)]
               /\ y[2 * i].val \in Talk
               /\ y[2 * i].quality = "ok"
               /\ Move(moves, qs[i - 1], y[2 * i].val, qs[i])
    <2>1. y[2 * i - 1] = x[2 * (i + 1) - 1] /\ y[2 * i] = x[2 * (i + 1)]
      <3>1. 2 * i - 1 \in 1 .. 2 * (n - 1) /\ 2 * i \in 1 .. 2 * (n - 1)
        OBVIOUS
      <3>2. (2 * i - 1) + 2 = 2 * (i + 1) - 1 /\ 2 * i + 2 = 2 * (i + 1)
        OBVIOUS
      <3> QED BY <1>2, <3>1, <3>2
    <2>2. qs[i - 1] = ps[(i + 1) - 1] /\ qs[i] = ps[i + 1]
      <3>1. i - 1 \in Nat /\ i \in Nat /\ (i - 1) + 1 = (i + 1) - 1
        OBVIOUS
      <3> QED BY <1>3, <3>1
    <2>3. i + 1 \in 1 .. n
      OBVIOUS
    <2>4. /\ x[2 * (i + 1) - 1].val = TypeByteOf[MsgOf(x[2 * (i + 1)].val)]
          /\ x[2 * (i + 1)].val \in Talk
          /\ x[2 * (i + 1)].quality = "ok"
          /\ Move(moves, ps[(i + 1) - 1], x[2 * (i + 1)].val, ps[i + 1])
      BY <1>4, <2>3
    <2> QED BY <2>1, <2>2, <2>4
  <1>6. Walk(moves, y, n - 1, qs)
    BY <1>2, <1>5, Zenon DEF Walk
  <1>7. /\ x[1].val = TypeByteOf[MsgOf(x[2].val)]
        /\ x[2].val \in Talk /\ x[2].quality = "ok"
        /\ Move(moves, ps[0], x[2].val, ps[1])
    <2>1. 1 \in 1 .. n /\ 2 * 1 - 1 = 1 /\ 2 * 1 = 2 /\ 1 - 1 = 0
      OBVIOUS
    <2>2. /\ x[2 * 1 - 1].val = TypeByteOf[MsgOf(x[2 * 1].val)]
          /\ x[2 * 1].val \in Talk
          /\ x[2 * 1].quality = "ok"
          /\ Move(moves, ps[1 - 1], x[2 * 1].val, ps[1])
      BY <1>4, <2>1
    <2> QED BY <2>1, <2>2
  <1>8. n - 1 \in Nat /\ Len(x) \in Nat /\ Len(x) >= 2
    BY <1>1
  <1> QED BY <1>6, <1>7, <1>8 DEF y, qs

\* The rest stays within reach.
LEMMA StaysOnward ==
    ASSUME NEW on, NEW n \in Nat, NEW ps, Stays(on, n, ps), n > 0
    PROVE  /\ Stays(on, n - 1, Onward(ps))
           /\ Onward(ps)[0] = ps[1] /\ Onward(ps)[n - 1] = ps[n]
  <1>1. \A i \in Nat : Onward(ps)[i] = ps[i + 1]
    BY DEF Onward
  <1>2. ASSUME NEW i \in 0 .. n - 1, NEW j \in 0 .. n - 1, i <= j
        PROVE  [from |-> Onward(ps)[i], to |-> Onward(ps)[j]] \in on
    <2>1. i + 1 \in 0 .. n /\ j + 1 \in 0 .. n /\ i + 1 <= j + 1 /\ i \in Nat /\ j \in Nat
      BY <1>2
    <2>2. [from |-> ps[i + 1], to |-> ps[j + 1]] \in on
      BY <2>1 DEF Stays
    <2> QED BY <1>1, <2>1, <2>2
  <1>3. n - 1 \in Nat /\ (n - 1) + 1 = n /\ 0 \in Nat /\ 0 + 1 = 1
    OBVIOUS
  <1> QED BY <1>1, <1>2, <1>3, Zenon DEF Stays

\* What stays within reach, from the first place, to the last one, and to itself.
LEMMA StaysEnds ==
    ASSUME NEW on, NEW n \in Nat, NEW ps, Stays(on, n, ps), NEW i \in 0 .. n
    PROVE  /\ [from |-> ps[0], to |-> ps[i]] \in on /\ [from |-> ps[i], to |-> ps[n]] \in on
           /\ [from |-> ps[0], to |-> ps[n]] \in on
  <1>1. 0 \in 0 .. n /\ n \in 0 .. n /\ 0 <= i /\ i <= n /\ 0 <= n
    OBVIOUS
  <1> QED BY <1>1 DEF Stays

(***************************************************************************)
(* A frontend whose messages and those for it cross on the way.            *)
(***************************************************************************)

\* Where a frontend is once it heard b, or said f.
Heard(p, b) == CHOOSE t : HearsF(p, b, t)
Said(p, f) == CHOOSE t : SaysF(p, f, t)

\* They are what the moves say.
LEMMA HeardIs ==
    ASSUME NEW p, NEW b, NEW t
    PROVE  /\ HearsF(p, b, t) => Heard(p, b) = t
           /\ SaysF(p, b, t) => Said(p, b) = t
  <1>1. ASSUME HearsF(p, b, t) PROVE Heard(p, b) = t
    <2>1. HearsF(p, b, Heard(p, b))
      BY <1>1, Zenon DEF Heard
    <2> QED BY <1>1, <2>1, OneWay
  <1>2. ASSUME SaysF(p, b, t) PROVE Said(p, b) = t
    <2>1. SaysF(p, b, Said(p, b))
      BY <1>2, Zenon DEF Said
    <2> QED BY <1>2, <2>1, OneWay
  <1> QED BY <1>1, <1>2

\* Who stays for what it hears stays for it also after it said something more.
LEMMA HearsAndStays ==
    ASSUME NEW r, NEW q, NEW b, NEW h, NEW t,
           OnBySaying(r, q), HearsF(r, b, h), h # Gone, HearsF(q, b, t), t = Gone
    PROVE  q = Gone
  BY PipeliningAssumption, BatchingAssumption, SMTT(60) DEF OnBySaying, HearsF, Gone

\* The same messages lead on from where the frontend is after the one more.
SaysAfter(b, h, x, n, rs) ==
    \E hs : /\ Walk(FSays, x, n, hs) /\ Stays(SaysOn, n, hs)
            /\ hs[0] = h /\ hs[n] \in PlaceNames /\ HearsF(rs[n], b, hs[n])
            /\ hs[n] = Gone => rs[n] = Gone

HearsAfter(f, t, y, k, ps) ==
    \E qs : /\ Walk(FHears, y, k, qs) /\ Stays(HearsOn, k, qs)
            /\ qs[0] = t /\ qs[k] \in PlaceNames /\ SaysF(ps[k], f, qs[k])

\* All that a frontend said on its way it could say as well after it heard b.
LEMMA HeardAll ==
    ASSUME NEW x, NEW n \in Nat, NEW rs, Walk(FSays, x, n, rs), Stays(SaysOn, n, rs),
           NEW b \in Talk, NEW h, HearsF(rs[0], b, h), h # Gone
    PROVE  SaysAfter(b, h, x, n, rs)
  <1> DEFINE hs == [i \in Nat |-> Heard(rs[i], b)]
  <1>1. \A i \in 0 .. n : hs[i] = Heard(rs[i], b)
    OBVIOUS
  <1> HIDE DEF hs
  <1>2. ASSUME NEW i \in 0 .. n
        PROVE  /\ HearsF(rs[i], b, hs[i]) /\ hs[i] \in PlaceNames
               /\ hs[i] = Gone => rs[i] = Gone
    <2>1. OnBySaying(rs[0], rs[i])
      BY StaysEnds, OnIs
    <2>2. PICK t \in PlaceNames : HearsF(rs[i], b, t)
      BY <2>1, HearsStill
    <2>3. hs[i] = t
      BY <1>1, <2>2, HeardIs
    <2>4. t = Gone => rs[i] = Gone
      BY <2>1, <2>2, HearsAndStays
    <2> QED BY <2>2, <2>3, <2>4
  <1>3. 0 \in 0 .. n /\ n \in 0 .. n
    OBVIOUS
  <1>4. hs[0] = h
    BY <1>2, <1>3, OneWay
  <1>5. ASSUME NEW i \in 1 .. n
        PROVE  Move(FSays, hs[i - 1], x[2 * i].val, hs[i])
    <2>1. i \in 0 .. n /\ i - 1 \in 0 .. n
      OBVIOUS
    <2> DEFINE r == rs[i - 1]
               g == hs[i - 1]
               f == x[2 * i].val
    <2>2. Move(FSays, r, f, rs[i])
      BY DEF Walk
    <2>3. HearsF(r, b, g) /\ g \in PlaceNames /\ (g = Gone => r = Gone)
      BY <1>2, <2>1
    <2>4. HearsF(rs[i], b, hs[i]) /\ hs[i] \in PlaceNames
      BY <1>2, <2>1
    <2> HIDE DEF r, g, f
    <2>5. SaysF(r, f, rs[i]) /\ f \in Body
      BY <2>2, MoveIs
    <2>6. SaysF(g, f, hs[i])
      BY <2>3, <2>4, <2>5, HearsBeforeSays
    <2>7. Move(FSays, g, f, hs[i])
      BY <2>3, <2>4, <2>5, <2>6, MoveIs
    <2> QED BY <2>7 DEF g, f
  <1>6. Walk(FSays, x, n, hs)
    BY <1>5 DEF Walk
  <1>7. ASSUME NEW i \in 0 .. n, NEW j \in 0 .. n, i <= j
        PROVE  [from |-> hs[i], to |-> hs[j]] \in SaysOn
    <2>1. OnBySaying(rs[i], rs[j])
      BY <1>7, OnIs DEF Stays
    <2>2. /\ HearsF(rs[i], b, hs[i]) /\ HearsF(rs[j], b, hs[j])
          /\ hs[i] \in PlaceNames /\ hs[j] \in PlaceNames /\ (hs[i] = Gone => rs[i] = Gone)
      BY <1>2
    <2>3. OnBySaying(hs[i], hs[j])
      BY <2>1, <2>2, HearsBeforeOn
    <2> QED BY <2>2, <2>3, OnIs
  <1>8. Stays(SaysOn, n, hs)
    BY <1>7, Zenon DEF Stays
  <1> QED BY <1>2, <1>3, <1>4, <1>6, <1>8, Zenon DEF SaysAfter

\* All that a frontend is to hear it hears as well after it said f.
LEMMA SaidAll ==
    ASSUME NEW y, NEW k \in Nat, NEW ps, Walk(FHears, y, k, ps), Stays(HearsOn, k, ps),
           NEW f \in Body, NEW t, SaysF(ps[0], f, t)
    PROVE  HearsAfter(f, t, y, k, ps)
  <1> DEFINE qs == [i \in Nat |-> Said(ps[i], f)]
  <1>1. \A i \in 0 .. k : qs[i] = Said(ps[i], f)
    OBVIOUS
  <1> HIDE DEF qs
  <1>2. ASSUME NEW i \in 0 .. k
        PROVE  SaysF(ps[i], f, qs[i]) /\ qs[i] \in PlaceNames
    <2>1. OnByHearing(ps[0], ps[i])
      BY StaysEnds, OnIs
    <2>2. PICK s \in PlaceNames : SaysF(ps[i], f, s)
      BY <2>1, SaysStill
    <2>3. qs[i] = s
      BY <1>1, <2>2, HeardIs
    <2> QED BY <2>2, <2>3
  <1>3. 0 \in 0 .. k /\ k \in 0 .. k
    OBVIOUS
  <1>4. qs[0] = t
    BY <1>2, <1>3, OneWay
  <1>5. ASSUME NEW i \in 1 .. k
        PROVE  Move(FHears, qs[i - 1], y[2 * i].val, qs[i])
    <2>1. i \in 0 .. k /\ i - 1 \in 0 .. k /\ i - 1 <= i
      OBVIOUS
    <2> DEFINE p == ps[i - 1]
               q == qs[i - 1]
               b == y[2 * i].val
    <2>2. Move(FHears, p, b, ps[i]) /\ b \in Talk
      BY DEF Walk
    <2>3. SaysF(p, f, q) /\ q \in PlaceNames
      BY <1>2, <2>1
    <2>4. SaysF(ps[i], f, qs[i]) /\ qs[i] \in PlaceNames
      BY <1>2, <2>1
    <2>5. [from |-> p, to |-> ps[i]] \in HearsOn
      BY <2>1 DEF Stays
    <2> HIDE DEF p, q, b
    <2>6. HearsF(p, b, ps[i]) /\ b \in Body
      BY <2>2, MoveIs
    <2>7. ps[i] = Gone => p = Gone
      BY <2>5, OnIs, OnGone
    <2>8. HearsF(q, b, qs[i])
      BY <2>2, <2>3, <2>4, <2>6, <2>7, SaysBeforeHears
    <2>9. Move(FHears, q, b, qs[i])
      BY <2>3, <2>4, <2>6, <2>8, MoveIs
    <2> QED BY <2>9 DEF q, b
  <1>6. Walk(FHears, y, k, qs)
    BY <1>5 DEF Walk
  <1>7. ASSUME NEW i \in 0 .. k, NEW j \in 0 .. k, i <= j
        PROVE  [from |-> qs[i], to |-> qs[j]] \in HearsOn
    <2>1. OnByHearing(ps[i], ps[j])
      BY <1>7, OnIs DEF Stays
    <2>2. /\ SaysF(ps[i], f, qs[i]) /\ SaysF(ps[j], f, qs[j])
          /\ qs[i] \in PlaceNames /\ qs[j] \in PlaceNames
      BY <1>2
    <2>3. OnByHearing(qs[i], qs[j])
      BY <2>1, <2>2, SaysBeforeOn
    <2> QED BY <2>2, <2>3, OnIs
  <1>8. Stays(HearsOn, k, qs)
    BY <1>7, Zenon DEF Stays
  <1> QED BY <1>2, <1>3, <1>4, <1>6, <1>8, Zenon DEF HearsAfter

(***************************************************************************)
(* How the frontend stands to the conveyor, over the steps of either.      *)
(***************************************************************************)

\* A frontend that vanishes stands to it as before.
LEMMA FrontVanishes ==
    ASSUME NEW x, NEW y, NEW p, NEW c, FrontAt(x, y, p, c)
    PROVE  FrontAt(x, y, Gone, c)
  BY Zenon DEF FrontAt, FrontWalks

\* In the loop, a frontend says what the loop is for, and what it says lies behind the rest.
LEMMA FrontSpeaks ==
    ASSUME NEW x \in Seq(Unit), NEW y \in Seq(Unit), NEW p, NEW c \in State,
           FrontAt(x, y, p, c), NEW f \in Body, NEW t, SaysF(p, f, t)
    PROVE  /\ f \in Talk
           /\ \A z \in Seq(Unit) : IsTalk(z, f) => FrontAt(x \o z, y, t, c)
  <1>0. PICK n \in Nat, k \in Nat : \E rs, ps : FrontWalks(x, y, p, c, n, k, rs, ps)
    BY Zenon DEF FrontAt
  <1>1. PICK rs, ps :
            /\ Walk(FSays, x, n, rs) /\ Stays(SaysOn, n, rs)
            /\ Walk(FHears, y, k, ps) /\ Stays(HearsOn, k, ps)
            /\ p \in {ps[0], Gone}
            /\ rs[0] = Expects[c] /\ rs[n] = ps[k]
    BY <1>0, Zenon DEF FrontWalks
  <1>2. 0 \in 0 .. n /\ n \in 0 .. n /\ 0 \in 0 .. k /\ k \in 0 .. k
    OBVIOUS
  <1>3. p # Gone /\ p = ps[0]
    <2>1. p # Gone
      BY DEF SaysF, Gone
    <2> QED BY <1>1, <2>1
  <1>4. OnBySaying(rs[0], rs[n]) /\ OnByHearing(ps[0], ps[k])
    BY <1>1, <1>2, StaysEnds, OnIs
  <1>5. f \in Talk
    <2>1. rs[0] \notin {"Begin", "Secured"}
      <3>1. Expects[c] \notin {"Begin", "Secured"}
        BY ExpectsIs, SMTT(60) DEF State
      <3> QED BY <1>1, <3>1
    <2>2. rs[n] \notin {"Begin", "Secured"}
      BY <1>4, <2>1 DEF OnBySaying, Gone
    <2>3. p \notin {"Begin", "Secured"}
      BY <1>1, <1>3, <1>4, <2>2 DEF OnByHearing
    <2>4. f \notin {"TLS", "Startup", "Cancel"}
      BY <2>3 DEF SaysF
    <2> QED BY <2>4 DEF Talk, InitialBody
  <1>6. ASSUME NEW z \in Seq(Unit), IsTalk(z, f)
        PROVE  FrontAt(x \o z, y, t, c)
    <2>0. SaysF(ps[0], f, t)
      BY <1>3
    <2>1. PICK qs : /\ Walk(FHears, y, k, qs) /\ Stays(HearsOn, k, qs)
                    /\ qs[0] = t /\ qs[k] \in PlaceNames /\ SaysF(ps[k], f, qs[k])
      <3>1. HearsAfter(f, t, y, k, ps)
        BY <1>1, <2>0, SaidAll
      <3> QED BY <3>1, Zenon DEF HearsAfter
    <2> DEFINE q == qs[k]
               us == Then1(rs, n, q)
    <2>2. rs[n] \in PlaceNames /\ SaysF(rs[n], f, q) /\ q \in PlaceNames
      BY <1>1, <1>2, <2>1, StaysEnds, OnIs
    <2>3. us[0] = rs[0] /\ us[n + 1] = q
      BY DEF Then1
    <2> HIDE DEF q, us
    <2>4. Move(FSays, rs[n], f, q)
      BY <2>2, MoveIs
    <2>5. Walk(FSays, x \o z, n + 1, us)
      BY <1>1, <1>6, <2>4, WalkOn DEF us
    <2>6. ASSUME NEW i \in 0 .. n
          PROVE  [from |-> rs[i], to |-> q] \in SaysOn
      <3>1. [from |-> rs[i], to |-> rs[n]] \in SaysOn
        BY <1>1, StaysEnds
      <3>2. rs[i] \in PlaceNames /\ OnBySaying(rs[i], rs[n])
        BY <3>1, OnIs
      <3>3. OnBySaying(rs[i], q)
        BY <1>5, <2>2, <3>2, OnClosed
      <3> QED BY <2>2, <3>2, <3>3, OnIs
    <2>7. [from |-> q, to |-> q] \in SaysOn
      BY <2>2, OnIs DEF OnBySaying
    <2>8. Stays(SaysOn, n + 1, us)
      BY <1>1, <2>6, <2>7, StaysOn DEF us
    <2>9. n + 1 \in Nat /\ us[n + 1] = qs[k]
      BY <2>3 DEF q
    <2>10. t \in {qs[0], Gone} /\ us[0] = Expects[c]
      BY <1>1, <2>1, <2>3
    <2>11. FrontWalks(x \o z, y, t, c, n + 1, k, us, qs)
      BY <2>1, <2>5, <2>8, <2>9, <2>10, Zenon DEF FrontWalks
    <2> QED BY <2>9, <2>11, Zenon DEF FrontAt
  <1> QED BY <1>5, <1>6

\* What was written to a frontend is a message that it hears next; then it stands as before.
LEMMA FrontListens ==
    ASSUME NEW x \in Seq(Unit), NEW y \in Seq(Unit), NEW p, NEW c, FrontAt(x, y, p, c),
           p # Gone, y # <<>>
    PROVE  /\ Len(y) \in Nat /\ Len(y) >= 2
           /\ y[1].val = TypeByteOf[MsgOf(y[2].val)] /\ y[2].val \in Talk
           /\ \E t : HearsF(p, y[2].val, t) /\ FrontAt(x, SubSeq(y, 3, Len(y)), t, c)
  <1>0. PICK n \in Nat, k \in Nat : \E rs, ps : FrontWalks(x, y, p, c, n, k, rs, ps)
    BY Zenon DEF FrontAt
  <1>1. PICK rs, ps :
            /\ Walk(FSays, x, n, rs) /\ Stays(SaysOn, n, rs)
            /\ Walk(FHears, y, k, ps) /\ Stays(HearsOn, k, ps)
            /\ p \in {ps[0], Gone}
            /\ rs[0] = Expects[c] /\ rs[n] = ps[k]
    BY <1>0, Zenon DEF FrontWalks
  <1>2. k > 0
    BY <1>1, NoWalk
  <1> DEFINE qs == Onward(ps)
             w == SubSeq(y, 3, Len(y))
             t == ps[1]
  <1>3. /\ k - 1 \in Nat /\ Len(y) \in Nat /\ Len(y) >= 2
        /\ y[1].val = TypeByteOf[MsgOf(y[2].val)] /\ y[2].val \in Talk
        /\ Move(FHears, ps[0], y[2].val, t)
        /\ Walk(FHears, w, k - 1, qs)
    BY <1>1, <1>2, WalkBegins
  <1>4. Stays(HearsOn, k - 1, qs) /\ qs[0] = t /\ qs[k - 1] = ps[k]
    BY <1>1, <1>2, StaysOnward
  <1> HIDE DEF qs, w, t
  <1>5. FrontAt(x, w, t, c)
    <2>1. t \in {qs[0], Gone} /\ rs[n] = qs[k - 1]
      BY <1>1, <1>4
    <2>2. FrontWalks(x, w, t, c, n, k - 1, rs, qs)
      BY <1>1, <1>3, <1>4, <2>1, Zenon DEF FrontWalks
    <2> QED BY <1>3, <2>2, Zenon DEF FrontAt
  <1>6. HearsF(p, y[2].val, t)
    BY <1>1, <1>3, MoveIs
  <1> QED BY <1>3, <1>5, <1>6 DEF w

\* What the backend said is written: the frontend stands to the next state as it stood to
\* the one before.
LEMMA FrontTold ==
    ASSUME NEW x \in Seq(Unit), NEW y \in Seq(Unit), NEW p, NEW c \in State, NEW d \in State,
           FrontAt(x, y, p, c), NEW b, HearsF(Expects[c], b, Expects[d]),
           NEW z \in Seq(Unit), IsTalk(z, b)
    PROVE  FrontAt(x, y \o z, p, d)
  <1>0. PICK n \in Nat, k \in Nat : \E rs, ps : FrontWalks(x, y, p, c, n, k, rs, ps)
    BY Zenon DEF FrontAt
  <1>1. PICK rs, ps :
            /\ Walk(FSays, x, n, rs) /\ Stays(SaysOn, n, rs)
            /\ Walk(FHears, y, k, ps) /\ Stays(HearsOn, k, ps)
            /\ p \in {ps[0], Gone}
            /\ rs[0] = Expects[c] /\ rs[n] = ps[k]
    BY <1>0, Zenon DEF FrontWalks
  <1>2. b \in Talk /\ b \in Body
    BY TalkFacts DEF IsTalk
  <1>3. Expects[d] # Gone
    BY ExpectsIs
  <1>4. PICK hs : /\ Walk(FSays, x, n, hs) /\ Stays(SaysOn, n, hs)
                  /\ hs[0] = Expects[d] /\ hs[n] \in PlaceNames /\ HearsF(rs[n], b, hs[n])
                  /\ hs[n] = Gone => rs[n] = Gone
    <2>1. HearsF(rs[0], b, Expects[d])
      BY <1>1
    <2>2. SaysAfter(b, Expects[d], x, n, rs)
      BY <1>1, <1>2, <1>3, <2>1, HeardAll
    <2> QED BY <2>2, Zenon DEF SaysAfter
  <1> DEFINE q == hs[n]
             us == Then1(ps, k, q)
  <1>5. us[0] = ps[0] /\ us[k + 1] = q
    BY DEF Then1
  <1>6. k \in 0 .. k
    OBVIOUS
  <1>7. /\ ps[k] \in PlaceNames /\ HearsF(ps[k], b, q) /\ q \in PlaceNames
        /\ q = Gone => ps[k] = Gone
    BY <1>1, <1>4, <1>6, StaysEnds, OnIs
  <1> HIDE DEF q, us
  <1>8. Move(FHears, ps[k], b, q)
    BY <1>2, <1>7, MoveIs
  <1>9. Walk(FHears, y \o z, k + 1, us)
    BY <1>1, <1>8, WalkOn DEF us
  <1>10. ASSUME NEW i \in 0 .. k
         PROVE  [from |-> ps[i], to |-> q] \in HearsOn
    <2>1. [from |-> ps[i], to |-> ps[k]] \in HearsOn
      BY <1>1, StaysEnds
    <2>2. ps[i] \in PlaceNames /\ OnByHearing(ps[i], ps[k])
      BY <2>1, OnIs
    <2>3. OnByHearing(ps[i], q)
      BY <1>7, <2>2, OnClosed
    <2> QED BY <1>7, <2>2, <2>3, OnIs
  <1>11. [from |-> q, to |-> q] \in HearsOn
    BY <1>7, OnIs DEF OnByHearing
  <1>12. Stays(HearsOn, k + 1, us)
    BY <1>1, <1>10, <1>11, StaysOn DEF us
  <1>13. k + 1 \in Nat /\ us[k + 1] = hs[n]
    BY <1>5 DEF q
  <1>14. FrontWalks(x, y \o z, p, d, n, k + 1, hs, us)
    BY <1>1, <1>4, <1>5, <1>9, <1>12, <1>13, Zenon DEF FrontWalks
  <1> QED BY <1>13, <1>14, Zenon DEF FrontAt

\* What was written fits, when nothing more is.
LEMMA FrontDone ==
    ASSUME NEW x, NEW y, NEW p, NEW c, FrontAt(x, y, p, c)
    PROVE  FrontFits(y, p)
  <1>0. PICK n \in Nat, k \in Nat : \E rs, ps : FrontWalks(x, y, p, c, n, k, rs, ps)
    BY Zenon DEF FrontAt
  <1>1. PICK rs, ps : Walk(FHears, y, k, ps) /\ p \in {ps[0], Gone}
    BY <1>0, Zenon DEF FrontWalks
  <1> QED BY <1>1, Zenon DEF FrontFits

\* And it fits with the last message that is.
LEMMA FrontLast ==
    ASSUME NEW x \in Seq(Unit), NEW y \in Seq(Unit), NEW p, NEW c, FrontAt(x, y, p, c),
           NEW b, NEW h, HearsF(Expects[c], b, h), NEW z \in Seq(Unit), IsTalk(z, b)
    PROVE  FrontFits(y \o z, p)
  <1>0. PICK n \in Nat, k \in Nat : \E rs, ps : FrontWalks(x, y, p, c, n, k, rs, ps)
    BY Zenon DEF FrontAt
  <1>1. PICK rs, ps :
            /\ Walk(FSays, x, n, rs) /\ Stays(SaysOn, n, rs)
            /\ Walk(FHears, y, k, ps) /\ Stays(HearsOn, k, ps)
            /\ p \in {ps[0], Gone}
            /\ rs[0] = Expects[c] /\ rs[n] = ps[k]
    BY <1>0, Zenon DEF FrontWalks
  <1>2. b \in Talk /\ b \in Body
    BY TalkFacts DEF IsTalk
  <1>3. n \in 0 .. n
    OBVIOUS
  <1>4. OnBySaying(rs[0], rs[n]) /\ rs[n] \in PlaceNames
    BY <1>1, <1>3, StaysEnds, OnIs
  <1>5. PICK t \in PlaceNames : HearsF(rs[n], b, t)
    BY <1>1, <1>2, <1>4, HearsStill
  <1>6. Move(FHears, ps[k], b, t)
    BY <1>1, <1>2, <1>4, <1>5, MoveIs
  <1> DEFINE us == Then1(ps, k, t)
  <1>7. us[0] = ps[0] /\ k + 1 \in Nat
    BY DEF Then1
  <1> HIDE DEF us
  <1>8. Walk(FHears, y \o z, k + 1, us)
    BY <1>1, <1>6, WalkOn DEF us
  <1> QED BY <1>1, <1>7, <1>8, Zenon DEF FrontFits

\* What a frontend said first, it says where the conveyor's state has it; a conveyor that takes
\* it and goes on accordingly finds the frontend as before.
LEMMA FrontFirst ==
    ASSUME NEW x \in Seq(Unit), NEW y, NEW p, NEW c, FrontAt(x, y, p, c), x # <<>>
    PROVE  /\ Len(x) \in Nat /\ Len(x) >= 2
           /\ x[1].val = TypeByteOf[MsgOf(x[2].val)]
           /\ x[2].val \in Talk /\ x[2].quality = "ok"
           /\ \E t : /\ SaysF(Expects[c], x[2].val, t)
                     /\ t = Gone => p = Gone
                     /\ \A d : Expects[d] = t => FrontAt(SubSeq(x, 3, Len(x)), y, p, d)
  <1>0. PICK n \in Nat, k \in Nat : \E rs, ps : FrontWalks(x, y, p, c, n, k, rs, ps)
    BY Zenon DEF FrontAt
  <1>1. PICK rs, ps :
            /\ Walk(FSays, x, n, rs) /\ Stays(SaysOn, n, rs)
            /\ Walk(FHears, y, k, ps) /\ Stays(HearsOn, k, ps)
            /\ p \in {ps[0], Gone}
            /\ rs[0] = Expects[c] /\ rs[n] = ps[k]
    BY <1>0, Zenon DEF FrontWalks
  <1>2. n > 0 /\ 1 \in 0 .. n /\ k \in 0 .. k
    BY <1>1, NoWalk
  <1> DEFINE qs == Onward(rs)
             w == SubSeq(x, 3, Len(x))
             t == rs[1]
  <1>3. /\ n - 1 \in Nat /\ Len(x) \in Nat /\ Len(x) >= 2
        /\ x[1].val = TypeByteOf[MsgOf(x[2].val)] /\ x[2].val \in Talk /\ x[2].quality = "ok"
        /\ Move(FSays, rs[0], x[2].val, t)
        /\ Walk(FSays, w, n - 1, qs)
    BY <1>1, <1>2, WalkBegins
  <1>4. Stays(SaysOn, n - 1, qs) /\ qs[0] = t /\ qs[n - 1] = rs[n]
    BY <1>1, <1>2, StaysOnward
  <1>5. OnBySaying(t, rs[n]) /\ OnByHearing(ps[0], ps[k])
    BY <1>1, <1>2, StaysEnds, OnIs
  <1> HIDE DEF qs, w, t
  <1>6. ASSUME NEW d, Expects[d] = t
        PROVE  FrontAt(w, y, p, d)
    <2>1. qs[0] = Expects[d] /\ qs[n - 1] = ps[k]
      BY <1>1, <1>4, <1>6
    <2>2. FrontWalks(w, y, p, d, n - 1, k, qs, ps)
      BY <1>1, <1>3, <1>4, <2>1, Zenon DEF FrontWalks
    <2> QED BY <1>3, <2>2, Zenon DEF FrontAt
  <1>7. SaysF(Expects[c], x[2].val, t)
    BY <1>1, <1>3, MoveIs
  <1>8. t = Gone => p = Gone
    BY <1>1, <1>5, OnGone
  <1> QED BY <1>3, <1>6, <1>7, <1>8 DEF w

(***************************************************************************)
(* How the backend stands to the conveyor, over the steps of either.       *)
(***************************************************************************)

\* A backend that vanishes stands to it as before.
LEMMA BackVanishes ==
    ASSUME NEW x, NEW y, NEW p, NEW c, BackAt(x, y, p, c)
    PROVE  BackAt(x, y, Gone, c)
  BY Zenon DEF BackAt, BackWalks

\* Where a backend speaks, in the loop, is one of the states of the loop.
LEMMA SpeaksInState ==
    ASSUME NEW x \in Seq(Unit), NEW y, NEW c \in State, NEW n \in Nat, NEW bs,
           Walk(BSays, x, n, bs), Link(y, bs[0], c), NEW v, NEW t, SaysB(bs[n], v, t)
    PROVE  bs[n] \in State
  <1>1. bs[n] \notin {"Listening", "AskedOther", Gone}
    BY SMTT(60) DEF SaysB, State, Conversing, Gone
  <1>2. CASE n = 0
    <2>1. CASE bs[0] = c
      BY <1>2, <2>1
    <2>2. CASE bs[0] # c
      <3>1. PICK f \in Body : Move(BHears, bs[0], f, c)
        BY <1>1, <1>2, <2>2 DEF Link
      <3>2. HearsB(bs[0], f, c) /\ bs[0] \in BackPlace
        BY <3>1, MoveIs
      <3>3. bs[0] # "GotTls"
        BY <3>2 DEF HearsB
      <3> QED BY <1>1, <1>2, <3>2, <3>3 DEF BackPlace
    <2> QED BY <2>1, <2>2
  <1>3. CASE n # 0
    <2>1. n \in 1 .. n
      BY <1>3
    <2> DEFINE q == bs[n - 1]
               w == x[2 * n].val
    <2>2. Move(BSays, q, w, bs[n]) /\ w \in Talk
      BY <2>1 DEF Walk
    <2> HIDE DEF q, w
    <2>3. SaysB(q, w, bs[n]) /\ bs[n] \in BackPlace
      BY <2>2, MoveIs
    <2>4. bs[n] # "GotTls"
      <3>1. "GotTls" \notin State /\ Gone # "GotTls"
        BY DEF State, Gone
      <3>2. "GotTls" \notin Conversing
        BY DEF Conversing
      <3> QED BY <2>3, <3>1, <3>2, SMTT(60) DEF SaysB
    <2> QED BY <1>1, <2>3, <2>4 DEF BackPlace
  <1> QED BY <1>2, <1>3

\* In the loop, a backend says what the loop is for, and what it says lies behind the rest.
LEMMA BackSpeaks ==
    ASSUME NEW x \in Seq(Unit), NEW y, NEW p, NEW c \in State, BackAt(x, y, p, c),
           NEW v, NEW t \in BackPlace, SaysB(p, v, t)
    PROVE  /\ v \in Talk
           /\ \A z \in Seq(Unit) : IsTalk(z, v) => BackAt(x \o z, y, t, c)
  <1>0. PICK n \in Nat : \E bs : BackWalks(x, y, p, c, n, bs)
    BY Zenon DEF BackAt
  <1>1. PICK bs : /\ Walk(BSays, x, n, bs) /\ Stays(BackOn, n, bs)
                  /\ p \in {bs[n], Gone}
                  /\ Link(y, bs[0], c)
    BY <1>0, Zenon DEF BackWalks
  <1>2. p = bs[n]
    <2>1. p # Gone
      BY SMTT(60) DEF SaysB, State, Conversing, Gone
    <2> QED BY <1>1, <2>1
  <1>3. SaysB(bs[n], v, t)
    BY <1>2
  <1>4. bs[n] \in State
    BY <1>1, <1>3, SpeaksInState
  <1>5. v \in Talk /\ v \in Body
    BY <1>3, <1>4, BackSaid, TalkFacts
  <1>6. ASSUME NEW z \in Seq(Unit), IsTalk(z, v)
        PROVE  BackAt(x \o z, y, t, c)
    <2> DEFINE us == Then1(bs, n, t)
    <2>1. us[0] = bs[0] /\ us[n + 1] = t /\ n + 1 \in Nat
      BY DEF Then1
    <2> HIDE DEF us
    <2>2. Move(BSays, bs[n], v, t)
      BY <1>3, <1>4, <1>5, MoveIs DEF BackPlace
    <2>3. Walk(BSays, x \o z, n + 1, us)
      BY <1>1, <1>6, <2>2, WalkOn DEF us
    <2>4. ASSUME NEW i \in 0 .. n
          PROVE  [from |-> bs[i], to |-> t] \in BackOn
      <3>1. [from |-> bs[i], to |-> bs[n]] \in BackOn
        BY <1>1, StaysEnds
      <3>2. bs[i] \in BackPlace /\ OnAsBackend(bs[i], bs[n])
        BY <3>1, OnIs
      <3>3. OnAsBackend(bs[i], t)
        BY <1>3, <3>2, OnClosed
      <3> QED BY <3>2, <3>3, OnIs
    <2>5. [from |-> t, to |-> t] \in BackOn
      BY OnIs DEF OnAsBackend
    <2>6. Stays(BackOn, n + 1, us)
      BY <1>1, <2>4, <2>5, StaysOn DEF us
    <2>7. t \in {us[n + 1], Gone} /\ Link(y, us[0], c)
      BY <1>1, <2>1
    <2>8. BackWalks(x \o z, y, t, c, n + 1, us)
      BY <2>3, <2>6, <2>7, Zenon DEF BackWalks
    <2> QED BY <2>1, <2>8, Zenon DEF BackAt
  <1> QED BY <1>5, <1>6

\* What was written to a backend is one message, which it hears next; then it is where the
\* conveyor is.
LEMMA BackAnswers ==
    ASSUME NEW x \in Seq(Unit), NEW y, NEW p, NEW c \in State, BackAt(x, y, p, c),
           p # Gone, y # <<>>
    PROVE  /\ \E f \in Body : Carries(y, f) /\ Move(BHears, p, f, c)
           /\ BackAt(x, <<>>, c, c)
  <1>0. PICK n \in Nat : \E bs : BackWalks(x, y, p, c, n, bs)
    BY Zenon DEF BackAt
  <1>1. PICK bs : /\ Walk(BSays, x, n, bs) /\ Stays(BackOn, n, bs)
                  /\ p \in {bs[n], Gone}
                  /\ Link(y, bs[0], c)
    BY <1>0, Zenon DEF BackWalks
  <1>2. p = bs[n] /\ 0 \in 0 .. n /\ n \in 0 .. n
    BY <1>1
  <1>3. bs[0] # Gone
    <2>1. OnAsBackend(bs[0], bs[n])
      BY <1>1, <1>2, StaysEnds, OnIs
    <2> QED BY <1>2, <2>1, OnGone
  <1>4. PICK f \in Body : Carries(y, f) /\ Move(BHears, bs[0], f, c)
    BY <1>1, <1>3 DEF Link
  <1>5. HearsB(bs[0], f, c)
    BY <1>4, MoveIs
  <1>6. ASSUME NEW i \in 0 .. n
        PROVE  bs[i] = bs[0]
    <2>1. OnAsBackend(bs[0], bs[i]) /\ OnAsBackend(bs[i], bs[n])
      BY <1>1, StaysEnds, OnIs
    <2>2. bs[i] # Gone
      BY <1>2, <2>1, OnGone
    <2>3. Listens(bs[0])
      BY <1>5, BackListening
    <2> QED BY <2>1, <2>2, <2>3 DEF OnAsBackend
  <1>7. p = bs[0]
    BY <1>2, <1>6
  <1> DEFINE us == [i \in Nat |-> c]
  <1>8. \A i \in 0 .. n : us[i] = c
    OBVIOUS
  <1> HIDE DEF us
  <1>9. ASSUME NEW i \in 1 .. n
        PROVE  Move(BSays, us[i - 1], x[2 * i].val, us[i])
    <2>1. i \in 0 .. n /\ i - 1 \in 0 .. n
      OBVIOUS
    <2> DEFINE v == x[2 * i].val
    <2>2. Move(BSays, bs[i - 1], v, bs[i])
      BY <1>1 DEF Walk
    <2>3. bs[i - 1] = p /\ bs[i] = p /\ us[i - 1] = c /\ us[i] = c
      BY <1>6, <1>7, <1>8, <2>1
    <2> HIDE DEF v
    <2>4. SaysB(p, v, p) /\ v \in Body
      BY <2>2, <2>3, MoveIs
    <2>5. SaysB(c, v, c)
      BY <1>5, <1>7, <2>4, BackListening
    <2>6. Move(BSays, c, v, c)
      BY <2>4, <2>5, MoveIs DEF BackPlace
    <2> QED BY <2>3, <2>6 DEF v
  <1>10. Walk(BSays, x, n, us)
    BY <1>1, <1>9 DEF Walk
  <1>11. Stays(BackOn, n, us)
    <2>1. [from |-> c, to |-> c] \in BackOn
      BY OnIs DEF OnAsBackend, BackPlace
    <2> QED BY <1>8, <2>1 DEF Stays
  <1>12. Link(<<>>, us[0], c) /\ c \in {us[n], Gone}
    BY <1>2, <1>8 DEF Link
  <1>13. BackWalks(x, <<>>, c, c, n, us)
    BY <1>10, <1>11, <1>12, Zenon DEF BackWalks
  <1>14. BackAt(x, <<>>, c, c)
    BY <1>13, Zenon DEF BackAt
  <1> QED BY <1>4, <1>7, <1>14

\* What was written fits, when nothing more is.
LEMMA BackDone ==
    ASSUME NEW x \in Seq(Unit), NEW y, NEW p, NEW c \in State, BackAt(x, y, p, c)
    PROVE  BackFits(y, p)
  <1>1. CASE p = Gone \/ y = <<>>
    BY <1>1 DEF BackFits
  <1>2. CASE p # Gone /\ y # <<>>
    <2>1. PICK f \in Body : Carries(y, f) /\ Move(BHears, p, f, c)
      BY <1>2, BackAnswers
    <2> QED BY <2>1 DEF BackFits, BackPlace
  <1> QED BY <1>1, <1>2

\* What a frontend said is written to a backend that has nothing else to hear.
LEMMA BackTold ==
    ASSUME NEW x \in Seq(Unit), NEW y \in Seq(Unit), NEW p, NEW c \in State,
           BackAt(x, y, p, c), NEW e, Matching("Frontend", e, c) # {},
           NEW f \in Body, NEW d, HearsB(c, f, d),
           NEW z \in Seq(Unit), Carries(z, f)
    PROVE  /\ d \in State => BackAt(x, y \o z, p, d)
           /\ d = Gone => BackFits(y \o z, p)
  <1>0. PICK n \in Nat : \E bs : BackWalks(x, y, p, c, n, bs)
    BY Zenon DEF BackAt
  <1>1. PICK bs : /\ Walk(BSays, x, n, bs) /\ Stays(BackOn, n, bs)
                  /\ p \in {bs[n], Gone}
                  /\ Link(y, bs[0], c)
    BY <1>0, Zenon DEF BackWalks
  <1>2. bs[0] = Gone \/ (y = <<>> /\ bs[0] = c)
    <2>1. ASSUME NEW g \in Body, Move(BHears, bs[0], g, c) PROVE FALSE
      BY <2>1, MoveIs, OneAtATime
    <2> QED BY <1>1, <2>1 DEF Link
  <1>3. y = <<>> => y \o z = z
    BY ConcatEmptySeq
  <1>4. OnAsBackend(bs[0], bs[n])
    <2>1. n \in 0 .. n
      OBVIOUS
    <2> QED BY <1>1, <2>1, StaysEnds, OnIs
  <1>5. ASSUME d \in State PROVE BackAt(x, y \o z, p, d)
    <2>1. CASE bs[0] = Gone
      <3>1. Link(y \o z, bs[0], d)
        BY <2>1 DEF Link
      <3>2. BackWalks(x, y \o z, p, d, n, bs)
        BY <1>1, <3>1, Zenon DEF BackWalks
      <3> QED BY <3>2, Zenon DEF BackAt
    <2>2. CASE y = <<>> /\ bs[0] = c
      <3>1. Move(BHears, bs[0], f, d)
        BY <1>5, <2>2, MoveIs DEF BackPlace
      <3>2. Link(z, bs[0], d)
        BY <3>1 DEF Link
      <3>3. Link(y \o z, bs[0], d)
        BY <1>3, <2>2, <3>2
      <3>4. BackWalks(x, y \o z, p, d, n, bs)
        BY <1>1, <3>3, Zenon DEF BackWalks
      <3> QED BY <3>4, Zenon DEF BackAt
    <2> QED BY <1>2, <2>1, <2>2
  <1>6. ASSUME d = Gone PROVE BackFits(y \o z, p)
    <2>1. CASE p = Gone
      BY <2>1 DEF BackFits
    <2>2. CASE p # Gone
      <3>1. p = bs[n] /\ bs[0] # Gone
        BY <1>1, <1>4, <2>2, OnGone
      <3>2. Listens(c)
        BY <1>6 DEF HearsB, Listens, Gone
      <3>3. p = c /\ y \o z = z
        BY <1>2, <1>3, <1>4, <2>2, <3>1, <3>2 DEF OnAsBackend
      <3>4. Move(BHears, p, f, Gone) /\ Gone \in BackPlace
        BY <1>6, <3>3, MoveIs DEF BackPlace
      <3> QED BY <3>3, <3>4 DEF BackFits
    <2> QED BY <2>1, <2>2
  <1> QED BY <1>5, <1>6

\* What lies first among what a backend said: a message that go() takes or refuses as it
\* should.
LEMMA BackFirst ==
    ASSUME NEW x \in Seq(Unit), NEW y, NEW p, NEW c \in State, BackAt(x, y, p, c), x # <<>>
    PROVE  /\ Len(x) \in Nat /\ Len(x) >= 2
           /\ x[1].val = TypeByteOf[MsgOf(x[2].val)]
           /\ x[2].val \in Talk /\ x[2].quality = "ok" /\ MsgOf(x[2].val) \in BackMsg
           /\ Matching("Backend", x[1].val, c) = {} =>
                x[2].val = "ParameterStatus" /\ c \in Conversing /\ "Parameters" \in Ways
           /\ \A a \in Matching("Backend", x[1].val, c) :
                LET to == Continuation(a.to, x[2].val, c)
                IN  \/ /\ to \in State
                       /\ HearsF(Expects[c], x[2].val, Expects[to])
                       /\ BackAt(SubSeq(x, 3, Len(x)), y, p, to)
                    \/ /\ to = "Ok" /\ (p = Gone \/ c = "GotSync")
                       /\ \E h : HearsF(Expects[c], x[2].val, h)
                    \/ /\ to = "Unsupported" /\ c = "GotStartup" /\ p \in {"AskedOther", Gone}
                       /\ \E h : HearsF(Expects[c], x[2].val, h)
  <1>0. PICK n \in Nat : \E bs : BackWalks(x, y, p, c, n, bs)
    BY Zenon DEF BackAt
  <1>1. PICK bs : /\ Walk(BSays, x, n, bs) /\ Stays(BackOn, n, bs)
                  /\ p \in {bs[n], Gone}
                  /\ Link(y, bs[0], c)
    BY <1>0, Zenon DEF BackWalks
  <1>2. n > 0 /\ 1 \in 0 .. n
    BY <1>1, NoWalk
  <1> DEFINE us == Onward(bs)
             w == SubSeq(x, 3, Len(x))
             b == x[2].val
             r == bs[0]
             q == bs[1]
  <1>3. /\ n - 1 \in Nat /\ Len(x) \in Nat /\ Len(x) >= 2
        /\ x[1].val = TypeByteOf[MsgOf(b)] /\ b \in Talk /\ x[2].quality = "ok"
        /\ Move(BSays, r, b, q)
        /\ Walk(BSays, w, n - 1, us)
    BY <1>1, <1>2, WalkBegins
  <1>4. Stays(BackOn, n - 1, us) /\ us[0] = q /\ us[n - 1] = bs[n]
    BY <1>1, <1>2, StaysOnward
  <1>5. /\ q = Gone => p = Gone
        /\ q = "AskedOther" => p \in {"AskedOther", Gone}
    <2>1. OnAsBackend(q, bs[n])
      BY <1>1, <1>2, StaysEnds, OnIs
    <2>2. q = "AskedOther" => bs[n] \in {"AskedOther", Gone}
      BY <2>1 DEF OnAsBackend, Listens
    <2> QED BY <1>1, <2>1, <2>2, OnGone
  <1>6. Link(y, r, c)
    BY <1>1
  <1> HIDE DEF us, w, b, r, q
  <1>7. SaysB(r, b, q)
    BY <1>3, MoveIs
  <1>8. ASSUME NEW d, Link(y, q, d)
        PROVE  BackAt(w, y, p, d)
    <2>1. p \in {us[n - 1], Gone} /\ Link(y, us[0], d)
      BY <1>1, <1>4, <1>8
    <2>2. BackWalks(w, y, p, d, n - 1, us)
      BY <1>3, <1>4, <2>1, Zenon DEF BackWalks
    <2> QED BY <1>3, <2>2, Zenon DEF BackAt
  <1>9. r # Gone
    BY <1>7, SMTT(60) DEF SaysB, State, Conversing, Gone
  <1> DEFINE to(a) == Continuation(a.to, b, c)
             Good(a) == \/ /\ to(a) \in State
                           /\ HearsF(Expects[c], b, Expects[to(a)])
                           /\ BackAt(w, y, p, to(a))
                        \/ /\ to(a) = "Ok" /\ (p = Gone \/ c = "GotSync")
                           /\ \E h : HearsF(Expects[c], b, h)
                        \/ /\ to(a) = "Unsupported" /\ c = "GotStartup"
                           /\ p \in {"AskedOther", Gone}
                           /\ \E h : HearsF(Expects[c], b, h)
             None == b = "ParameterStatus" /\ c \in Conversing /\ "Parameters" \in Ways
             Taken == \A a \in Matching("Backend", TypeByteOf[MsgOf(b)], c) : Good(a)
             Arms == Matching("Backend", TypeByteOf[MsgOf(b)], c)
  <1>10. ASSUME r = c, y = <<>>
         PROVE  MsgOf(b) \in BackMsg /\ (Arms = {} => None) /\ Taken
    <2>1. SaysB(c, b, q) /\ MsgOf(b) \in BackMsg
      BY <1>7, <1>10, BackSaid
    <2>2. ASSUME Arms = {} PROVE None
      BY <2>1, <2>2, BackTaken, BackendArm
    <2>3. ASSUME NEW a \in Arms
          PROVE  Good(a)
      <3>1. ArmB(MsgOf(b), c, a.to)
        BY <2>1, BackArm
      <3>2. \/ to(a) = q /\ q \in State
            \/ to(a) = "Ok" /\ (q = Gone \/ c = "GotSync")
            \/ to(a) = "Unsupported" /\ c = "GotStartup" /\ q = "AskedOther"
        BY <2>1, <3>1, BackContinues
      <3>3. b = "ParameterStatus" => c = "Authenticated"
        <4>1. "ParameterStatus" \notin AuthenticationBody \cup InitialBody
          BY DEF AuthenticationBody, InitialBody
        <4> QED BY <3>1, <4>1 DEF ArmB, MsgOf
      <3>4. /\ q \in State => HearsF(Expects[c], b, Expects[q])
            /\ \E h \in PlaceNames : HearsF(Expects[c], b, h)
        BY <2>1, <3>3, FrontHears
      <3>5. Link(y, q, q)
        BY <1>10 DEF Link
      <3>6. BackAt(w, y, p, q)
        BY <1>8, <3>5
      <3> HIDE DEF to
      <3> QED BY <1>5, <3>2, <3>4, <3>6
    <2> QED BY <2>1, <2>2, <2>3
  <1>11. ASSUME NEW f \in Body, Carries(y, f), Move(BHears, r, f, c)
         PROVE  MsgOf(b) \in BackMsg /\ (Arms = {} => None) /\ Taken
    <2>1. HearsB(r, f, c)
      BY <1>11, MoveIs
    <2>2. /\ c # "Authenticated"
          /\ \/ b = "NoticeResponse" /\ q = r
             \/ b = "ParameterStatus" /\ q = r /\ c \in Conversing /\ "Parameters" \in Ways
             \/ b = "ErrorResponse" /\ q = Gone /\ r = "ReadyForQuery"
          /\ q = r => SaysB(c, b, c)
      BY <1>7, <2>1, BackListening
    <2>3. /\ {"NoticeResponse", "ParameterStatus", "ErrorResponse"} \cap
                (AuthenticationBody \cup InitialBody) = {}
          /\ {"NoticeResponse", "ParameterStatus", "ErrorResponse"} \subseteq BackMsg
      BY DEF AuthenticationBody, InitialBody, BackMsg
    <2>4. MsgOf(b) = b /\ b \in BackMsg
      BY <2>2, <2>3 DEF MsgOf
    <2>5. ASSUME Arms = {} PROVE None
      <3>1. b \in {"NoticeResponse", "ErrorResponse"} => \E t : ArmB(b, c, t)
        BY DEF ArmB
      <3> QED BY <2>2, <2>4, <2>5, <3>1, BackendArm
    <2>6. ASSUME NEW a \in Arms
          PROVE  Good(a)
      <3>1. ArmB(b, c, a.to)
        BY <2>4, BackArm
      <3>2. CASE b = "NoticeResponse"
        <4>1. a.to = Same
          BY <3>1, <3>2 DEF ArmB
        <4>2. to(a) = c
          BY <4>1 DEF Continuation, Same, Auth, First, FirstInTls
        <4>3. q = r /\ SaysB(c, b, c)
          BY <2>2, <3>2
        <4>4. HearsF(Expects[c], b, Expects[c])
          BY <3>2, <4>3, FrontHears
        <4>5. BackAt(w, y, p, c)
          BY <1>6, <1>8, <4>3
        <4> HIDE DEF to
        <4> QED BY <4>2, <4>4, <4>5
      <3>3. CASE b = "ParameterStatus"
        BY <2>2, <3>1, <3>3 DEF ArmB
      <3>4. CASE b = "ErrorResponse"
        <4>1. q = Gone /\ HearsB("ReadyForQuery", f, c)
          BY <2>1, <2>2, <3>4
        <4>2. /\ to(a) = a.to /\ a.to \in State \cup {"Ok"}
              /\ a.to \in State => HearsF(Expects[c], b, Expects[a.to])
              /\ \E h \in PlaceNames : HearsF(Expects[c], b, h)
          BY <3>1, <3>4, <4>1, BackLeaves
        <4>3. Link(y, q, a.to)
          BY <4>1 DEF Link
        <4>4. BackAt(w, y, p, a.to)
          BY <1>8, <4>3
        <4> HIDE DEF to
        <4> QED BY <1>5, <4>1, <4>2, <4>4
      <3> QED BY <2>2, <3>2, <3>3, <3>4
    <2> QED BY <2>4, <2>5, <2>6
  <1>12. MsgOf(b) \in BackMsg /\ (Arms = {} => None) /\ Taken
    <2> HIDE DEF Arms, None, Taken
    <2> QED BY <1>6, <1>9, <1>10, <1>11, Zenon DEF Link
  <1> QED BY <1>3, <1>12, Zenon DEF b, w

-----------------------------------------------------------------------------
(***************************************************************************)
(* The streams, and what is on its way in them.                            *)
(***************************************************************************)

\* What a side said and was not carried yet are units, in order.
LEMMA InIs ==
    ASSUME TypeOK, NEW s \in Side
    PROVE  /\ In(s) \in Seq(Unit)
           /\ hand.units = <<>> \/ hand.side # s => In(s) = inbox[s]
           /\ hand.side = s => In(s) = hand.units \o inbox[s]
  <1>1. inbox[s] \in Seq(Unit) /\ hand.units \in Seq(Unit)
    BY Parts
  <1>2. hand.units \o inbox[s] \in Seq(Unit)
    BY <1>1, ConcatProperties
  <1>3. hand.units = <<>> => hand.units \o inbox[s] = inbox[s]
    BY <1>1, ConcatEmptySeq
  <1> QED BY <1>1, <1>2, <1>3 DEF In

\* What a peer sends for a message.
LEMMA UnitsAre ==
    ASSUME NEW s
    PROVE  /\ \A v \in Talk : IsTalk(Units(s, v), v) /\ Units(s, v) \in Seq(Unit)
           /\ \A v \in InitialBody \cup {"S", "N"} :
                /\ IsByte(Units(s, v), v) /\ Units(s, v)[1].quality = "ok"
                /\ Units(s, v) \in Seq(Unit)
  <1> DEFINE enc == wrap[s] = "Tls"
  <1>1. enc \in BOOLEAN
    OBVIOUS
  <1>2. {"S", "N"} \subseteq Byte
    BY DEF Byte, TypeByte
  <1>3. ASSUME NEW v \in Talk
        PROVE  IsTalk(Units(s, v), v) /\ Units(s, v) \in Seq(Unit)
    <2>1. v \notin Byte /\ v \in Body /\ TypeByteOf[MsgOf(v)] \in TypeByte
      BY TalkFacts
    <2>2. TypeByteOf[MsgOf(v)] # ""
      BY <2>1 DEF TypeByte
    <2> DEFINE g == ByteUnit(TypeByteOf[MsgOf(v)], enc)
               u == ByteUnit(v, enc)
    <2>3. Units(s, v) = <<g>> \o <<u>>
      BY <2>1, <2>2 DEF Units, Header
    <2>4. g.val = TypeByteOf[MsgOf(v)] /\ u.val = v /\ u.quality = "ok"
      BY DEF ByteUnit
    <2> HIDE DEF g, u
    <2>5. /\ Len(<<g>> \o <<u>>) = 2
          /\ (<<g>> \o <<u>>)[1] = g /\ (<<g>> \o <<u>>)[2] = u
      OBVIOUS
    <2>6. Units(s, v) \in Seq(Unit)
      BY <2>1, UnitsType
    <2> QED BY <2>3, <2>4, <2>5, <2>6 DEF IsTalk
  <1>4. ASSUME NEW v \in InitialBody \cup {"S", "N"}
        PROVE  /\ IsByte(Units(s, v), v) /\ Units(s, v)[1].quality = "ok"
               /\ Units(s, v) \in Seq(Unit)
    <2>1. v \in Byte \cup Body
      BY <1>2, TalkFacts
    <2> DEFINE u == ByteUnit(v, enc)
    <2>2. Units(s, v) = <<u>>
      <3>1. CASE v \in Byte
        BY <3>1 DEF Units
      <3>2. CASE v \notin Byte
        <4>1. MsgOf(v) = "Initial" /\ TypeByteOf["Initial"] = ""
          BY <1>2, <3>2, TalkFacts DEF TypeByteOf
        <4>2. Header(MsgOf(v), enc) = <<>>
          BY <4>1 DEF Header
        <4>3. Units(s, v) = <<>> \o <<u>>
          BY <3>2, <4>2 DEF Units
        <4> HIDE DEF u
        <4> QED BY <4>3
      <3> QED BY <3>1, <3>2
    <2>3. u.val = v /\ u.quality = "ok"
      BY DEF ByteUnit
    <2> HIDE DEF u
    <2>4. Units(s, v) \in Seq(Unit)
      BY <2>1, UnitsType
    <2> QED BY <2>2, <2>3, <2>4 DEF IsByte
  <1> QED BY <1>3, <1>4

\* It does not matter in which order three parts of a stream are put together.
LEMMA ThreeParts ==
    \A a, b, c \in Seq(Unit) : (a \o b) \o c = a \o (b \o c)
  <1> TAKE a \in Seq(Unit), b \in Seq(Unit), c \in Seq(Unit)
  <1> QED BY ConcatAssociative

\* A message that is sent lies behind what its side said before.
LEMMA EmitIn ==
    ASSUME TypeOK, NEW s \in Side, NEW v, Units(s, v) \in Seq(Unit), Emit(s, v), hand' = hand
    PROVE  /\ In(s)' = In(s) \o Units(s, v) /\ inbox'[s] = inbox[s] \o Units(s, v)
           /\ \A t \in Side \ {s} : In(t)' = In(t) /\ inbox'[t] = inbox[t]
  <1> DEFINE u == Units(s, v)
  <1>1. inbox \in [Side -> Seq(Unit)] /\ hand.units \in Seq(Unit)
    BY Parts
  <1>2. inbox'[s] = inbox[s] \o u /\ \A t \in Side \ {s} : inbox'[t] = inbox[t]
    BY <1>1 DEF Emit
  <1>3. u \in Seq(Unit)
    OBVIOUS
  <1> HIDE DEF u
  <1>4. (hand.units \o inbox[s]) \o u = hand.units \o (inbox[s] \o u)
    <2>1. inbox[s] \in Seq(Unit)
      BY <1>1
    <2> QED BY <1>1, <1>3, <2>1, ThreeParts
  <1>5. In(s)' = In(s) \o u
    BY <1>2, <1>4 DEF In
  <1>6. \A t \in Side \ {s} : In(t)' = In(t)
    BY <1>2 DEF In
  <1> QED BY <1>2, <1>5, <1>6 DEF u

\* What a peer takes from an outbox: a message of two units, or one unit alone.
LEMMA ConsumeIs ==
    ASSUME TypeOK, NEW s \in Side, Consume(s)
    PROVE  /\ \A t \in Side \ {s} : outbox'[t] = outbox[t]
           /\ Len(outbox[s]) >= 2 /\ outbox[s][1].val \in Byte =>
                /\ Arrived(s) = outbox[s][2].val
                /\ outbox'[s] = SubSeq(outbox[s], 3, Len(outbox[s]))
           /\ Len(outbox[s]) = 1 => Arrived(s) = outbox[s][1].val /\ outbox'[s] = <<>>
  <1> DEFINE y == outbox[s]
             n == IF Len(y) > 1 /\ y[1].val \in Byte THEN 2 ELSE 1
  <1>1. outbox \in [Side -> Seq(Unit)] /\ y \in Seq(Unit) /\ Len(y) \in Nat
    BY Parts
  <1>2. outbox'[s] = SubSeq(y, n + 1, Len(y)) /\ \A t \in Side \ {s} : outbox'[t] = outbox[t]
    BY <1>1 DEF Consume
  <1>3. ASSUME Len(y) >= 2, y[1].val \in Byte
        PROVE  Arrived(s) = y[2].val /\ outbox'[s] = SubSeq(y, 3, Len(y))
    <2>1. Len(y) > 1
      BY <1>1, <1>3
    <2>2. n = 2 /\ n + 1 = 3
      BY <1>3, <2>1
    <2> HIDE DEF n
    <2> QED BY <1>2, <1>3, <2>1, <2>2 DEF Arrived
  <1>4. ASSUME Len(y) = 1
        PROVE  Arrived(s) = y[1].val /\ outbox'[s] = <<>>
    <2>1. n = 1 /\ ~(Len(y) > 1)
      BY <1>4
    <2>2. SubSeq(y, 2, 1) = <<>>
      BY <1>1, <1>4
    <2>3. outbox'[s] = SubSeq(y, 2, 1)
      BY <1>2, <1>4, <2>1
    <2> QED BY <2>1, <2>2, <2>3 DEF Arrived
  <1> QED BY <1>2, <1>3, <1>4

\* The one message in an outbox is taken as a whole.
LEMMA ConsumeOne ==
    ASSUME TypeOK, NEW s \in Side, Consume(s), NEW f, Carries(outbox[s], f)
    PROVE  Arrived(s) = f /\ outbox'[s] = <<>>
  <1>1. outbox[s] \in Seq(Unit)
    BY Parts
  <1>2. CASE Len(outbox[s]) = 1 /\ outbox[s][1].val = f
    BY <1>2, ConsumeIs
  <1>3. CASE IsTalk(outbox[s], f)
    <2>1. Len(outbox[s]) = 2 /\ outbox[s][1].val \in Byte /\ outbox[s][2].val = f
      BY <1>3, TalkFacts DEF IsTalk, Byte
    <2>2. SubSeq(outbox[s], 3, 2) = <<>>
      BY <1>1, <2>1
    <2>3. Len(outbox[s]) >= 2
      BY <2>1
    <2> QED BY <2>1, <2>2, <2>3, ConsumeIs
  <1> QED BY <1>2, <1>3 DEF Carries

-----------------------------------------------------------------------------
(***************************************************************************)
(* Every step of a peer keeps the course of the session.                   *)
(***************************************************************************)

\* Who is asked for nothing says nothing, and what opens a session is an Initial.
LEMMA OpeningMoves ==
    /\ \A p, v, t : SaysF(p, v, t) => p \notin {"AskedTls", "Waiting", Gone}
    /\ \A p, v, t : SaysF(p, v, t) /\ p \in {"Begin", "Secured"} =>
         v \in InitialBody /\ t \in {"AskedTls", "Waiting", Gone}
    /\ \A t : HearsF("AskedTls", TLS_SUPPORTED, t) => t = "Secured"
    /\ \A p, v, t : SaysB(p, v, t) => p \notin {"Listening", Gone}
    /\ \A v, t : SaysB("GotTls", v, t) => \/ v \in {"S", "N"} /\ t = "Listening"
                                          \/ v = "ErrorResponse" /\ t = Gone
    /\ \A p, v, t : HearsB(p, v, t) => p \notin {"AskedOther", Gone}
    /\ \A t : HearsB("Listening", "TLS", t) => t = "GotTls"
    /\ HearsB("Listening", "TLS", "GotTls") /\ HearsB("Listening", "Cancel", Gone)
    /\ HearsB("Listening", "Startup", "GotStartup")
  <1>1. \A p, v, t : SaysF(p, v, t) => p \notin {"AskedTls", "Waiting", Gone}
    BY SMTT(60) DEF SaysF, Gone
  <1>2. \A p, v, t : SaysF(p, v, t) /\ p \in {"Begin", "Secured"} =>
          v \in InitialBody /\ t \in {"AskedTls", "Waiting", Gone}
    BY SMTT(60) DEF SaysF, Gone, InitialBody
  <1>3. \A t : HearsF("AskedTls", TLS_SUPPORTED, t) => t = "Secured"
    BY SMTT(60) DEF HearsF, Gone, TLS_SUPPORTED
  <1>4. /\ "Listening" \notin State /\ "GotTls" \notin State /\ Gone \notin State
        /\ "Listening" \notin Conversing /\ "GotTls" \notin Conversing /\ Gone \notin Conversing
    BY DEF State, Conversing, Gone
  <1>5. \A p, v, t : SaysB(p, v, t) => p \notin {"Listening", Gone}
    BY <1>4, SMTT(60) DEF SaysB, Gone
  <1>6. \A v, t : SaysB("GotTls", v, t) => \/ v \in {"S", "N"} /\ t = "Listening"
                                           \/ v = "ErrorResponse" /\ t = Gone
    BY <1>4, SMTT(60) DEF SaysB
  <1>7. /\ \A p, v, t : HearsB(p, v, t) => p \notin {"AskedOther", Gone}
        /\ \A t : HearsB("Listening", "TLS", t) => t = "GotTls"
    BY SMTT(60) DEF HearsB, Gone
  <1>8. /\ HearsB("Listening", "TLS", "GotTls") /\ HearsB("Listening", "Cancel", Gone)
        /\ HearsB("Listening", "Startup", "GotStartup")
    BY DEF HearsB
  <1> QED BY <1>1, <1>2, <1>3, <1>5, <1>6, <1>7, <1>8, Zenon

\* A session that runs has not ended.
LEMMA Runs ==
    ASSUME SInv, Course, result = Running
    PROVE  GoneOnEof /\ (Opening \/ Loop) /\ TypeOK /\ InHand
  BY DEF Course, Ended, SInv, SessionTypeOK

\* A peer hangs up when it is gone.
LEMMA LeavesGone ==
    ASSUME TypeOK, NEW s \in Side, NEW to, Leaves(s, to)
    PROVE  /\ eof'[s] => eof[s] \/ to = Gone
           /\ \A t \in Side \ {s} : eof'[t] = eof[t]
           /\ \A t \in Side : eof[t] => eof'[t]
  <1>1. eof \in [Side -> BOOLEAN]
    BY DEF TypeOK
  <1> QED BY <1>1 DEF Leaves

\* What the frontend says keeps the course.
LEMMA FrontendSendCourse ==
    ASSUME SInv, Course, FrontendSend
    PROVE  Course'
  <1>1. /\ result = Running /\ (front = "Secured" => wrap["Frontend"] = "Tls")
        /\ UNCHANGED <<pc, state, wrap, outbox, hand, told, result, back, chatter>>
    BY DEF FrontendSend
  <1>2. GoneOnEof /\ (Opening \/ Loop) /\ TypeOK
    BY <1>1, Runs
  <1>3. PICK m \in FrontendSays : /\ front = m.from /\ front' = m.to
                                  /\ Emit("Frontend", m.say) /\ Leaves("Frontend", m.to)
    BY DEF FrontendSend
  <1> DEFINE f == m.say
             z == Units("Frontend", f)
  <1>4. f \in Body /\ front' \in PlaceNames /\ front \in PlaceNames /\ SaysF(front, f, front')
    BY <1>3, FrontendSaysIs, FrontendSaysType
  <1>5. front \notin {"AskedTls", "Waiting", Gone}
    BY <1>4, OpeningMoves
  <1>6. GoneOnEof'
    <2>1. /\ eof'["Frontend"] => eof["Frontend"] \/ front' = Gone
          /\ eof'["Backend"] = eof["Backend"]
      BY <1>2, <1>3, LeavesGone DEF Side
    <2> QED BY <1>1, <1>2, <1>5, <2>1 DEF GoneOnEof
  <1>7. /\ In("Frontend") \in Seq(Unit) /\ outbox["Frontend"] \in Seq(Unit)
        /\ inbox["Frontend"] \in Seq(Unit)
    BY <1>2, InIs, Parts DEF Side
  <1>8. ASSUME z \in Seq(Unit)
        PROVE  /\ In("Frontend")' = In("Frontend") \o z
               /\ In("Backend")' = In("Backend") /\ inbox'["Backend"] = inbox["Backend"]
    BY <1>1, <1>2, <1>3, <1>8, EmitIn DEF Side
  <1> HIDE DEF f, z
  <1>9. CASE Loop
    <2>1. state \in State /\ LoopHand /\ FrontSide /\ BackSide
      BY <1>9 DEF Loop, LoopHand
    <2>2. /\ f \in Talk
          /\ \A x \in Seq(Unit) : IsTalk(x, f) =>
               FrontAt(In("Frontend") \o x, outbox["Frontend"], front', state)
      BY <1>4, <1>7, <2>1, FrontSpeaks DEF FrontSide
    <2>3. IsTalk(z, f) /\ z \in Seq(Unit)
      BY <2>2, UnitsAre DEF z
    <2>4. FrontSide'
      BY <1>1, <1>8, <2>2, <2>3 DEF FrontSide
    <2>5. BackSide'
      BY <1>1, <1>8, <2>1, <2>3 DEF BackSide
    <2>6. LoopHand'
      BY <1>1, <2>1 DEF LoopHand
    <2> QED BY <1>1, <1>6, <2>4, <2>5, <2>6 DEF Course, Loop
  <1>10. CASE Opening
    <2>1. state = NoState /\ state' = NoState
      BY <1>1, <1>10 DEF Opening
    <2>2. ASSUME NEW p \in {"Begin", "Secured"}, FrontOpens(p)
          PROVE  FrontOpens(p)' /\ z \in Seq(Unit)
      <3>1. In("Frontend") = <<>> /\ front = p /\ outbox["Frontend"] = <<>>
        <4>1. ASSUME NEW v \in InitialBody, NEW t \in PlaceNames, Move(FSays, p, v, t)
              PROVE  front \notin {t, Gone}
          BY <1>5, <2>2, <4>1, MoveIs, OpeningMoves
        <4> QED BY <1>5, <2>2, <4>1 DEF FrontOpens
      <3>2. f \in InitialBody
        BY <1>4, <3>1, OpeningMoves
      <3>3. IsByte(z, f) /\ z[1].quality = "ok" /\ z \in Seq(Unit)
        BY <3>2, UnitsAre DEF z
      <3>4. In("Frontend")' = z
        <4>1. <<>> \o z = z
          BY <3>3, ConcatEmptySeq
        <4> QED BY <1>8, <3>1, <3>3, <4>1
      <3>5. Move(FSays, p, f, front')
        BY <1>4, <3>1, MoveIs
      <3> QED BY <1>1, <1>4, <3>1, <3>2, <3>3, <3>4, <3>5 DEF FrontOpens
    <2>3. CASE FirstInitial
      <3>1. FrontOpens("Begin") /\ InitialInHand(First, FALSE) /\ BackListens
            /\ Plain("Frontend") /\ Plain("Backend")
        BY <2>3 DEF FirstInitial
      <3>2. FrontOpens("Begin")' /\ z \in Seq(Unit)
        BY <2>2, <3>1
      <3>3. BackListens'
        BY <1>1, <1>8, <3>1, <3>2 DEF BackListens
      <3>4. InitialInHand(First, FALSE)' /\ Plain("Frontend")' /\ Plain("Backend")'
        BY <1>1, <3>1 DEF InitialInHand, Plain
      <3> QED BY <1>1, <1>6, <2>1, <3>2, <3>3, <3>4 DEF Course, Opening, FirstInitial
    <2>4. CASE SecondInitial
      <3>1. /\ FrontGranted \/ FrontOpens("Secured")
            /\ InitialInHand(FirstInTls, TRUE) /\ BackListens
            /\ wrap["Frontend"] = "Tls" /\ wrap["Backend"] # "TlsHandshake"
        BY <2>4 DEF SecondInitial
      <3>2. FrontOpens("Secured")
        BY <1>5, <3>1 DEF FrontOpens, FrontGranted
      <3>3. FrontOpens("Secured")' /\ z \in Seq(Unit)
        BY <2>2, <3>2
      <3>4. BackListens'
        BY <1>1, <1>8, <3>1, <3>3 DEF BackListens
      <3>5. InitialInHand(FirstInTls, TRUE)'
        BY <1>1, <3>1 DEF InitialInHand
      <3> QED BY <1>1, <1>6, <2>1, <3>1, <3>3, <3>4, <3>5 DEF Course, Opening, SecondInitial
    <2>5. CASE TlsAsked \/ TlsFailed \/ TlsGranted
      BY <1>5, <2>5 DEF TlsAsked, TlsFailed, TlsGranted, FrontAwaits
    <2>6. CASE TlsTold
      BY <1>1, <1>5, <2>6 DEF TlsTold, FrontGranted, Plain
    <2> QED BY <1>10, <2>3, <2>4, <2>5, <2>6 DEF Opening
  <1> QED BY <1>2, <1>9, <1>10

\* Why a session ended does not change any more.
LEMMA ReasonStays ==
    ASSUME Reason, UNCHANGED <<state, wrap, hand, result>>,
           \A s \in Side : eof[s] => eof'[s],
           front = Gone => front' = Gone, back = Gone => back' = Gone,
           back = "AskedOther" => back' \in {"AskedOther", Gone}
    PROVE  Reason'
  <1>1. Understood => Understood'
    BY DEF Understood
  <1>2. Excused => Excused'
    BY DEF Excused, Unexpected
  <1>3. EndedRightly => EndedRightly'
    BY DEF EndedRightly
  <1> QED BY <1>1, <1>2, <1>3 DEF Reason

\* A frontend with nothing to hear fits.
LEMMA NothingFits ==
    ASSUME NEW p
    PROVE  FrontFits(<<>>, p)
  <1> DEFINE ps == [i \in Nat |-> p]
  <1>1. p = ps[0]
    OBVIOUS
  <1> HIDE DEF ps
  <1>2. Walk(FHears, <<>>, 0, ps)
    BY EmptyWalk
  <1> QED BY <1>1, <1>2 DEF FrontFits

\* A type byte is a byte, so that what is behind it arrives.
LEMMA TalkArrives ==
    ASSUME TypeOK, NEW s \in Side, Consume(s), NEW v \in Talk, Len(outbox[s]) >= 2,
           outbox[s][1].val = TypeByteOf[MsgOf(v)], outbox[s][2].val = v
    PROVE  Arrived(s) = v /\ outbox'[s] = SubSeq(outbox[s], 3, Len(outbox[s]))
  <1>1. outbox[s][1].val \in Byte
    BY TalkFacts DEF Byte
  <1> QED BY <1>1, ConsumeIs

\* What the frontend hears keeps the course.
LEMMA FrontendReceiveCourse ==
    ASSUME SInv, Course, FrontendReceive
    PROVE  Course'
  <1> DEFINE y == outbox["Frontend"]
  <1>1. /\ y # <<>> /\ Consume("Frontend")
        /\ UNCHANGED <<pc, state, wrap, inbox, hand, told, result, back, chatter>>
    BY DEF FrontendReceive
  <1>2. PICK m \in FrontendHears : /\ front = m.from /\ front' = m.to
                                   /\ Arrived("Frontend") = m.say /\ Leaves("Frontend", m.to)
    BY DEF FrontendReceive
  <1>3. HearsF(front, Arrived("Frontend"), front') /\ front # Gone
    BY <1>2, FrontendHearsIs
  <1>4. TypeOK /\ GoneOnEof
    BY DEF SInv, SessionTypeOK, Course
  <1>5. GoneOnEof'
    <2>1. /\ eof'["Frontend"] => eof["Frontend"] \/ front' = Gone
          /\ eof'["Backend"] = eof["Backend"]
      BY <1>2, <1>4, LeavesGone DEF Side
    <2> QED BY <1>1, <1>3, <1>4, <2>1 DEF GoneOnEof
  <1>6. /\ In("Frontend") \in Seq(Unit) /\ y \in Seq(Unit)
        /\ In("Frontend")' = In("Frontend") /\ In("Backend")' = In("Backend")
    <2>1. In("Frontend")' = In("Frontend") /\ In("Backend")' = In("Backend")
      BY <1>1 DEF In
    <2> QED BY <1>4, <2>1, InIs, Parts DEF Side
  <1>7. outbox'["Backend"] = outbox["Backend"]
    BY <1>1, <1>4, ConsumeIs DEF Side
  <1>8. Len(y) = 1 => Arrived("Frontend") = y[1].val /\ outbox'["Frontend"] = <<>>
    BY <1>1, <1>4, ConsumeIs DEF Side
  <1>9. CASE result = Running /\ Loop
    <2>1. state \in State /\ LoopHand /\ FrontSide /\ BackSide
      BY <1>9 DEF Loop, LoopHand
    <2>2. /\ Len(y) \in Nat /\ Len(y) >= 2
          /\ y[1].val = TypeByteOf[MsgOf(y[2].val)] /\ y[2].val \in Talk
          /\ \E t : /\ HearsF(front, y[2].val, t)
                    /\ FrontAt(In("Frontend"), SubSeq(y, 3, Len(y)), t, state)
      BY <1>1, <1>3, <1>6, <2>1, FrontListens DEF FrontSide
    <2>3. Arrived("Frontend") = y[2].val /\ outbox'["Frontend"] = SubSeq(y, 3, Len(y))
      BY <1>1, <1>4, <2>2, TalkArrives DEF Side
    <2>4. FrontAt(In("Frontend"), SubSeq(y, 3, Len(y)), front', state)
      BY <1>3, <2>2, <2>3, OneWay
    <2>5. FrontSide'
      BY <1>1, <1>6, <2>3, <2>4 DEF FrontSide
    <2>6. BackSide'
      BY <1>1, <1>6, <1>7, <2>1 DEF BackSide
    <2>7. LoopHand'
      BY <1>1, <2>1 DEF LoopHand
    <2> QED BY <1>1, <1>5, <1>9, <2>5, <2>6, <2>7 DEF Course, Loop
  <1>10. CASE result = Running /\ Opening
    <2>1. FrontGranted /\ (SecondInitial \/ TlsTold) /\ state = NoState
      BY <1>1, <1>10 DEF Opening, FirstInitial, SecondInitial, TlsAsked, TlsFailed, TlsGranted,
         TlsTold, FrontAwaits, FrontOpens
    <2>2. In("Frontend") = <<>> /\ IsByte(y, TLS_SUPPORTED) /\ front = "AskedTls"
      BY <1>1, <1>3, <2>1 DEF FrontGranted
    <2>3. outbox'["Frontend"] = <<>> /\ Arrived("Frontend") = TLS_SUPPORTED
      BY <1>8, <2>2 DEF IsByte
    <2>4. front' = "Secured"
      BY <1>3, <2>2, <2>3, OpeningMoves
    <2>5. FrontGranted'
      BY <1>6, <2>2, <2>3, <2>4 DEF FrontGranted
    <2>6. CASE SecondInitial
      <3>1. SecondInitial'
        BY <1>1, <1>6, <1>7, <2>5, <2>6 DEF SecondInitial, InitialInHand, BackListens
      <3> QED BY <1>1, <1>5, <1>10, <2>1, <3>1 DEF Course, Opening
    <2>7. CASE TlsTold
      <3>1. TlsTold'
        BY <1>1, <1>6, <1>7, <2>5, <2>7 DEF TlsTold, BackListens, Plain
      <3> QED BY <1>1, <1>5, <1>10, <2>1, <3>1 DEF Course, Opening
    <2> QED BY <2>1, <2>6, <2>7
  <1>11. CASE Ended
    <2>1. FrontFits(y, front) /\ BackFits(outbox["Backend"], back) /\ Reason
      BY <1>11 DEF Ended
    <2>2. FrontFits(outbox'["Frontend"], front')
      <3>1. CASE front = "AskedTls" /\ Len(y) = 1 /\ y[1].val = TLS_SUPPORTED
        BY <1>8, <3>1, NothingFits
      <3>2. ASSUME NEW n \in Nat, NEW ps, Walk(FHears, y, n, ps), front = ps[0]
            PROVE  FrontFits(outbox'["Frontend"], front')
        <4>1. n > 0
          BY <1>1, <1>6, <3>2, NoWalk
        <4>2. /\ n - 1 \in Nat /\ Len(y) >= 2
              /\ y[1].val = TypeByteOf[MsgOf(y[2].val)] /\ y[2].val \in Talk
              /\ Move(FHears, ps[0], y[2].val, ps[1])
              /\ Walk(FHears, SubSeq(y, 3, Len(y)), n - 1, Onward(ps))
          BY <1>6, <3>2, <4>1, WalkBegins
        <4>3. Arrived("Frontend") = y[2].val /\ outbox'["Frontend"] = SubSeq(y, 3, Len(y))
          BY <1>1, <1>4, <4>2, TalkArrives DEF Side
        <4>4. front' = ps[1]
          <5>1. HearsF(ps[0], y[2].val, ps[1])
            BY <4>2, MoveIs
          <5>2. HearsF(ps[0], y[2].val, front')
            BY <1>3, <3>2, <4>3
          <5> QED BY <5>1, <5>2, OneWay
        <4>5. Onward(ps)[0] = front'
          BY <4>4 DEF Onward
        <4>6. Walk(FHears, outbox'["Frontend"], n - 1, Onward(ps))
          BY <4>2, <4>3
        <4> QED BY <4>2, <4>5, <4>6, Zenon DEF FrontFits
      <3> QED BY <1>3, <2>1, <3>1, <3>2, Zenon DEF FrontFits
    <2>3. Reason'
      <3>1. \A s \in Side : eof[s] => eof'[s]
        BY <1>2, <1>4, LeavesGone DEF Side
      <3> QED BY <1>1, <1>3, <2>1, <3>1, ReasonStays
    <2> QED BY <1>1, <1>5, <1>7, <1>11, <2>1, <2>2, <2>3 DEF Course, Ended
  <1> QED BY <1>9, <1>10, <1>11 DEF Course

\* What the backend says keeps the course.
LEMMA BackendSendCourse ==
    ASSUME SInv, Course, BackendSend
    PROVE  Course'
  <1>1. /\ result = Running
        /\ UNCHANGED <<pc, state, wrap, outbox, hand, told, result, front>>
    BY DEF BackendSend
  <1>2. GoneOnEof /\ (Opening \/ Loop) /\ TypeOK
    BY <1>1, Runs
  <1>3. PICK m \in BackendSays \cup BackendChats :
                /\ back = m.from /\ back' = m.to
                /\ Emit("Backend", m.say) /\ Leaves("Backend", m.to)
    BY DEF BackendSend
  <1> DEFINE v == m.say
             z == Units("Backend", v)
  <1>4. back' \in BackPlace /\ back \in BackPlace /\ SaysB(back, v, back')
    BY <1>3, BackendSaysIs, BackendSaysType, BackendChatsType
  <1>5. back \notin {"Listening", Gone}
    BY <1>4, OpeningMoves
  <1>6. GoneOnEof'
    <2>1. /\ eof'["Backend"] => eof["Backend"] \/ back' = Gone
          /\ eof'["Frontend"] = eof["Frontend"]
      BY <1>2, <1>3, LeavesGone DEF Side
    <2> QED BY <1>1, <1>2, <1>5, <2>1 DEF GoneOnEof
  <1>7. In("Backend") \in Seq(Unit)
    BY <1>2, InIs DEF Side
  <1>8. ASSUME z \in Seq(Unit)
        PROVE  /\ In("Backend")' = In("Backend") \o z
               /\ inbox'["Backend"] = inbox["Backend"] \o z
               /\ In("Frontend")' = In("Frontend")
    BY <1>1, <1>2, <1>3, <1>8, EmitIn DEF Side
  <1> HIDE DEF v, z
  <1>9. CASE Loop
    <2>1. state \in State /\ LoopHand /\ FrontSide /\ BackSide
      BY <1>9 DEF Loop, LoopHand
    <2>2. /\ v \in Talk
          /\ \A x \in Seq(Unit) : IsTalk(x, v) =>
               BackAt(In("Backend") \o x, outbox["Backend"], back', state)
      BY <1>4, <1>7, <2>1, BackSpeaks DEF BackSide
    <2>3. IsTalk(z, v) /\ z \in Seq(Unit)
      BY <2>2, UnitsAre DEF z
    <2>4. BackSide'
      BY <1>1, <1>8, <2>2, <2>3 DEF BackSide
    <2>5. FrontSide'
      BY <1>1, <1>8, <2>1, <2>3 DEF FrontSide
    <2>6. LoopHand'
      BY <1>1, <2>1 DEF LoopHand
    <2> QED BY <1>1, <1>6, <2>4, <2>5, <2>6 DEF Course, Loop
  <1>10. CASE Opening
    <2>1. /\ state = NoState /\ TlsAsked /\ FrontAwaits /\ back = "GotTls"
          /\ inbox["Backend"] = <<>> /\ outbox["Backend"] = <<>>
      BY <1>5, <1>10 DEF Opening, FirstInitial, SecondInitial, TlsAsked, TlsFailed, TlsGranted,
         TlsTold, BackListens
    <2>2. \/ v \in {"S", "N"} /\ back' = "Listening"
          \/ v = "ErrorResponse" /\ back' = Gone
      BY <1>4, <2>1, OpeningMoves
    <2>3. z \in Seq(Unit) /\ (v \in {"S", "N"} => IsByte(z, v)) /\ (v \in Talk => IsTalk(z, v))
      BY <2>2, TalkFacts, UnitsAre DEF z
    <2>4. inbox'["Backend"] = z
      <3>1. <<>> \o z = z
        BY <2>3, ConcatEmptySeq
      <3> QED BY <1>8, <2>1, <2>3, <3>1
    <2>5. \/ /\ \E b \in {TLS_SUPPORTED, TLS_NOT_SUPPORTED} : IsByte(inbox'["Backend"], b)
             /\ back' \in {"Listening", Gone}
          \/ IsError(inbox'["Backend"]) /\ back' = Gone
      <3>1. CASE v \in {"S", "N"} /\ back' = "Listening"
        BY <2>3, <2>4, <3>1 DEF TLS_SUPPORTED, TLS_NOT_SUPPORTED
      <3>2. CASE v = "ErrorResponse" /\ back' = Gone
        <4>1. MsgOf("ErrorResponse") = "ErrorResponse"
          BY DEF MsgOf, InitialBody, AuthenticationBody
        <4>2. IsTalk(z, "ErrorResponse")
          BY <2>3, <3>2, TalkFacts
        <4> QED BY <2>4, <3>2, <4>1, <4>2 DEF IsTalk, IsError
      <3> QED BY <2>2, <3>1, <3>2
    <2>6. FrontAwaits'
      BY <1>1, <1>8, <2>1, <2>3 DEF FrontAwaits
    <2>7. TlsAsked'
      BY <1>1, <2>1, <2>5, <2>6 DEF TlsAsked, Plain
    <2> QED BY <1>1, <1>6, <2>1, <2>7 DEF Course, Opening
  <1> QED BY <1>2, <1>9, <1>10

\* What the backend hears keeps the course.
LEMMA BackendReceiveCourse ==
    ASSUME SInv, Course, BackendReceive
    PROVE  Course'
  <1> DEFINE y == outbox["Backend"]
  <1>1. /\ y # <<>> /\ Consume("Backend")
        /\ UNCHANGED <<pc, state, wrap, inbox, hand, told, result, front>>
    BY DEF BackendReceive
  <1>2. PICK m \in BackendHears : /\ back = m.from /\ back' = m.to
                                  /\ Arrived("Backend") = m.say /\ Leaves("Backend", m.to)
    BY DEF BackendReceive
  <1>3. HearsB(back, Arrived("Backend"), back') /\ back \notin {"AskedOther", Gone}
    BY <1>2, BackendHearsIs, OpeningMoves
  <1>4. TypeOK /\ GoneOnEof
    BY DEF SInv, SessionTypeOK, Course
  <1>5. GoneOnEof'
    <2>1. /\ eof'["Backend"] => eof["Backend"] \/ back' = Gone
          /\ eof'["Frontend"] = eof["Frontend"]
      BY <1>2, <1>4, LeavesGone DEF Side
    <2> QED BY <1>1, <1>3, <1>4, <2>1 DEF GoneOnEof
  <1>6. /\ In("Backend") \in Seq(Unit)
        /\ In("Frontend")' = In("Frontend") /\ In("Backend")' = In("Backend")
    <2>1. In("Frontend")' = In("Frontend") /\ In("Backend")' = In("Backend")
      BY <1>1 DEF In
    <2> QED BY <1>4, <2>1, InIs DEF Side
  <1>7. outbox'["Frontend"] = outbox["Frontend"]
    BY <1>1, <1>4, ConsumeIs DEF Side
  <1>8. \A f : Carries(y, f) => Arrived("Backend") = f /\ outbox'["Backend"] = <<>>
    BY <1>1, <1>4, ConsumeOne DEF Side
  <1>9. CASE result = Running /\ Loop
    <2>1. state \in State /\ LoopHand /\ FrontSide /\ BackSide
      BY <1>9 DEF Loop, LoopHand
    <2>2. BackAt(In("Backend"), y, back, state)
      BY <2>1 DEF BackSide
    <2>3. /\ \E f \in Body : Carries(y, f) /\ Move(BHears, back, f, state)
          /\ BackAt(In("Backend"), <<>>, state, state)
      BY <1>1, <1>3, <1>6, <2>1, <2>2, BackAnswers
    <2>4. PICK f \in Body : Carries(y, f) /\ Move(BHears, back, f, state)
      BY <2>3
    <2>5. Arrived("Backend") = f /\ outbox'["Backend"] = <<>>
      BY <1>8, <2>4
    <2>6. HearsB(back, f, state) /\ HearsB(back, f, back')
      BY <1>3, <2>4, <2>5, MoveIs
    <2>7. back' = state
      BY <2>6, OneWay
    <2>8. BackSide'
      BY <1>1, <1>6, <2>3, <2>5, <2>7 DEF BackSide
    <2>9. FrontSide'
      BY <1>1, <1>6, <1>7, <2>1 DEF FrontSide
    <2>10. LoopHand'
      BY <1>1, <2>1 DEF LoopHand
    <2> QED BY <1>1, <1>5, <1>9, <2>8, <2>9, <2>10 DEF Course, Loop
  <1>10. CASE result = Running /\ Opening
    <2>1. /\ state = NoState /\ TlsAsked /\ FrontAwaits /\ back = "Listening"
          /\ inbox["Backend"] = <<>> /\ IsByte(y, "TLS")
      BY <1>1, <1>3, <1>10 DEF Opening, FirstInitial, SecondInitial, TlsAsked, TlsFailed,
         TlsGranted, TlsTold, BackListens
    <2>2. Carries(y, "TLS")
      BY <2>1 DEF Carries, IsByte, InitialBody
    <2>3. Arrived("Backend") = "TLS" /\ outbox'["Backend"] = <<>>
      BY <1>8, <2>2
    <2>4. back' = "GotTls"
      BY <1>3, <2>1, <2>3, OpeningMoves
    <2>5. FrontAwaits'
      BY <1>1, <1>6, <1>7, <2>1 DEF FrontAwaits
    <2>6. TlsAsked'
      BY <1>1, <2>1, <2>3, <2>4, <2>5 DEF TlsAsked, Plain
    <2> QED BY <1>1, <1>5, <1>10, <2>1, <2>6 DEF Course, Opening
  <1>11. CASE Ended
    <2>1. FrontFits(outbox["Frontend"], front) /\ BackFits(y, back) /\ Reason
      BY <1>11 DEF Ended
    <2>2. PICK f \in Body : Carries(y, f)
      BY <1>1, <1>3, <2>1 DEF BackFits
    <2>3. BackFits(outbox'["Backend"], back')
      BY <1>8, <2>2 DEF BackFits
    <2>4. Reason'
      <3>1. \A s \in Side : eof[s] => eof'[s]
        BY <1>2, <1>4, LeavesGone DEF Side
      <3> QED BY <1>1, <1>3, <2>1, <3>1, ReasonStays
    <2> QED BY <1>1, <1>5, <1>7, <1>11, <2>1, <2>3, <2>4 DEF Course, Ended
  <1> QED BY <1>9, <1>10, <1>11 DEF Course

\* A peer that vanishes keeps the course.
LEMMA VanishCourse ==
    ASSUME SInv, Course, NEW s \in Side, Vanish(s)
    PROVE  Course'
  <1>1. UNCHANGED <<pc, state, wrap, inbox, outbox, hand, told, result, chatter>>
    BY DEF Vanish
  <1>2. TypeOK /\ GoneOnEof
    BY DEF SInv, SessionTypeOK, Course
  <1>3. /\ front' \in {front, Gone} /\ back' \in {back, Gone}
        /\ \A t \in Side : eof[t] => eof'[t]
        /\ GoneOnEof'
    <2>1. eof \in [Side -> BOOLEAN] /\ eof' = [eof EXCEPT ![s] = TRUE]
      BY <1>2 DEF TypeOK, Vanish
    <2>2. CASE s = "Frontend"
      <3>1. front' = Gone /\ back' = back
        BY <2>2 DEF Vanish
      <3>2. "Backend" \in Side /\ "Backend" # s
        BY <2>2 DEF Side
      <3> QED BY <1>2, <2>1, <3>1, <3>2 DEF GoneOnEof
    <2>3. CASE s = "Backend"
      <3>1. back' = Gone /\ front' = front
        BY <2>3 DEF Vanish
      <3>2. "Frontend" \in Side /\ "Frontend" # s
        BY <2>3 DEF Side
      <3> QED BY <1>2, <2>1, <3>1, <3>2 DEF GoneOnEof
    <2> QED BY <2>2, <2>3 DEF Side
  <1>4. In("Frontend")' = In("Frontend") /\ In("Backend")' = In("Backend")
    BY <1>1 DEF In
  <1>5. CASE result = Running /\ Loop
    <2>1. LoopHand /\ FrontSide /\ BackSide
      BY <1>5 DEF Loop
    <2>2. FrontAt(In("Frontend"), outbox["Frontend"], front', state)
      BY <1>3, <2>1, FrontVanishes DEF FrontSide
    <2>3. BackAt(In("Backend"), outbox["Backend"], back', state)
      BY <1>3, <2>1, BackVanishes DEF BackSide
    <2>4. FrontSide' /\ BackSide'
      BY <1>1, <1>4, <2>2, <2>3 DEF FrontSide, BackSide
    <2>5. LoopHand'
      BY <1>1, <2>1 DEF LoopHand
    <2> QED BY <1>1, <1>3, <1>5, <2>4, <2>5 DEF Course, Loop
  <1>6. CASE result = Running /\ Opening
    <2>1. /\ BackListens => BackListens'
          /\ FrontAwaits => FrontAwaits'
          /\ FrontGranted => FrontGranted'
      BY <1>1, <1>3, <1>4 DEF BackListens, FrontAwaits, FrontGranted
    <2>2. \A p : FrontOpens(p) => FrontOpens(p)'
      BY <1>1, <1>3, <1>4 DEF FrontOpens
    <2>3. /\ InitialInHand(First, FALSE) => InitialInHand(First, FALSE)'
          /\ InitialInHand(FirstInTls, TRUE) => InitialInHand(FirstInTls, TRUE)'
          /\ \A t \in Side : Plain(t) => Plain(t)'
      BY <1>1 DEF InitialInHand, Plain
    <2>4. FirstInitial => FirstInitial'
      BY <2>1, <2>2, <2>3 DEF FirstInitial, Side
    <2>5. SecondInitial => SecondInitial'
      BY <1>1, <2>1, <2>2, <2>3 DEF SecondInitial
    <2>6. TlsAsked => TlsAsked'
      BY <1>1, <1>3, <2>1, <2>3 DEF TlsAsked, Side
    <2>7. TlsFailed => TlsFailed'
      BY <1>1, <1>3, <1>4, <2>1, <2>3 DEF TlsFailed, Side
    <2>8. TlsGranted => TlsGranted'
      BY <1>1, <1>3, <2>1, <2>3 DEF TlsGranted, Side
    <2>9. TlsTold => TlsTold'
      BY <1>1, <2>1, <2>3 DEF TlsTold, Side
    <2>10. Opening'
      BY <1>1, <1>6, <2>4, <2>5, <2>6, <2>7, <2>8, <2>9 DEF Opening
    <2> QED BY <1>1, <1>3, <1>6, <2>10 DEF Course
  <1>7. CASE Ended
    <2>1. FrontFits(outbox["Frontend"], front) /\ BackFits(outbox["Backend"], back) /\ Reason
      BY <1>7 DEF Ended
    <2>2. FrontFits(outbox["Frontend"], front') /\ BackFits(outbox["Backend"], back')
      BY <1>3, <2>1 DEF FrontFits, BackFits
    <2>3. Reason'
      BY <1>1, <1>3, <2>1, ReasonStays
    <2> QED BY <1>1, <1>3, <1>7, <2>2, <2>3 DEF Course, Ended
  <1> QED BY <1>5, <1>6, <1>7 DEF Course

-----------------------------------------------------------------------------
(***************************************************************************)
(* Every step of the conveyor keeps the course of the session.             *)
(***************************************************************************)

\* What was written fits as long as go() runs.
LEMMA Fits ==
    ASSUME SInv, Opening \/ Loop
    PROVE  FrontFits(outbox["Frontend"], front) /\ BackFits(outbox["Backend"], back)
  <1>1. TypeOK /\ In("Frontend") \in Seq(Unit) /\ In("Backend") \in Seq(Unit)
    BY InIs DEF SInv, SessionTypeOK, Side
  <1>2. CASE Loop
    <2>1. state \in State /\ FrontSide /\ BackSide
      BY <1>2 DEF Loop, LoopHand
    <2> QED BY <1>1, <2>1, FrontDone, BackDone DEF FrontSide, BackSide
  <1>3. CASE Opening
    <2>1. \/ outbox["Frontend"] = <<>>
          \/ front = Gone
          \/ IsByte(outbox["Frontend"], TLS_SUPPORTED) /\ front = "AskedTls"
      BY <1>3 DEF Opening, FirstInitial, SecondInitial, TlsAsked, TlsFailed, TlsGranted,
         TlsTold, FrontAwaits, FrontOpens, FrontGranted
    <2>2. FrontFits(outbox["Frontend"], front)
      BY <2>1, NothingFits DEF FrontFits, IsByte
    <2>3. \/ outbox["Backend"] = <<>>
          \/ back = Gone
          \/ IsByte(outbox["Backend"], "TLS") /\ back = "Listening"
      BY <1>3 DEF Opening, FirstInitial, SecondInitial, TlsAsked, TlsFailed, TlsGranted,
         TlsTold, BackListens
    <2>4. ASSUME IsByte(outbox["Backend"], "TLS") /\ back = "Listening"
          PROVE  BackFits(outbox["Backend"], back)
      <3>1. "TLS" \in Body /\ "Listening" \in BackPlace /\ "GotTls" \in BackPlace
        BY DEF Body, InitialBody, BackPlace
      <3>2. Move(BHears, "Listening", "TLS", "GotTls")
        BY <3>1, OpeningMoves, MoveIs
      <3>3. Carries(outbox["Backend"], "TLS")
        BY <2>4 DEF Carries, IsByte, InitialBody
      <3> QED BY <2>4, <3>1, <3>2, <3>3 DEF BackFits
    <2>5. BackFits(outbox["Backend"], back)
      BY <2>3, <2>4 DEF BackFits
    <2> QED BY <2>2, <2>5
  <1> QED BY <1>2, <1>3

\* A session that ends for a good reason with what fits has kept its course.
LEMMA EndsInCourse ==
    ASSUME GoneOnEof, pc' = "Done", result' # Running, UNCHANGED <<eof, front, back>>,
           FrontFits(outbox'["Frontend"], front), BackFits(outbox'["Backend"], back), Reason'
    PROVE  Course'
  <1>1. GoneOnEof'
    BY DEF GoneOnEof
  <1>2. FrontFits(outbox'["Frontend"], front') /\ BackFits(outbox'["Backend"], back')
    OBVIOUS
  <1> QED BY <1>1, <1>2 DEF Course, Ended

\* Good reasons to end.
LEMMA GoodReasons ==
    /\ result' = "IoError" /\ eof' = eof /\ (\E s \in Side : eof[s]) => Reason'
    /\ result' = "Panicked" /\ (\E s \in Side : wrap'[s] = "TlsHandshake") => Reason'
    /\ result' = "Ok" /\ (back' = Gone \/ front' = Gone \/ state' = "GotSync") => Reason'
    /\ result' = "Unsupported" /\ state' = "GotStartup" /\ back' \in {"AskedOther", Gone}
         => Reason'
  <1>1. result' = "IoError" /\ eof' = eof /\ (\E s \in Side : eof[s]) => Reason'
    BY DEF Reason, Understood, EndedRightly
  <1>2. result' = "Panicked" /\ (\E s \in Side : wrap'[s] = "TlsHandshake") => Reason'
    BY DEF Reason, Understood, EndedRightly
  <1>3. result' = "Ok" /\ (back' = Gone \/ front' = Gone \/ state' = "GotSync") => Reason'
    BY DEF Reason, Understood, EndedRightly
  <1>4. result' = "Unsupported" /\ state' = "GotStartup" /\ back' \in {"AskedOther", Gone}
          => Reason'
    BY DEF Reason, Understood, EndedRightly
  <1> QED BY <1>1, <1>2, <1>3, <1>4

\* A read that fails ends the session, because its peer is gone.
LEMMA FailsCourse ==
    ASSUME SInv, Course, result = Running, NEW s \in Side, Readable(s), Fails(s), ~Disrupted(s),
           Finish(Failure(s)), UNCHANGED <<eof, outbox, front, back>>
    PROVE  Course'
  <1>1. GoneOnEof /\ (Opening \/ Loop)
    BY Runs
  <1>2. eof[s] /\ pc' = "Done" /\ result' = "IoError"
    BY DEF Readable, Fails, Failure, Finish
  <1>3. FrontFits(outbox["Frontend"], front) /\ BackFits(outbox["Backend"], back)
    BY <1>1, Fits
  <1>4. Reason'
    BY <1>2, GoodReasons
  <1> QED BY <1>1, <1>2, <1>3, <1>4, EndsInCourse DEF Running

\* The loop goes on with the streams as they were.
LEMMA LoopStays ==
    ASSUME GoneOnEof, Loop, LoopHand', result' = Running,
           UNCHANGED <<state, eof, outbox, front, back>>,
           \A s \in Side : In(s)' = In(s)
    PROVE  Course'
  <1>1. In("Frontend")' = In("Frontend") /\ In("Backend")' = In("Backend")
    BY DEF Side
  <1>2. FrontSide' /\ BackSide'
    BY <1>1 DEF Loop, FrontSide, BackSide
  <1>3. GoneOnEof'
    BY DEF GoneOnEof
  <1> QED BY <1>2, <1>3 DEF Course, Loop

\* What a read takes from a stream.
LEMMA PopIs ==
    ASSUME TypeOK, NEW s \in Side, inbox[s] # <<>>, Pop(s)
    PROVE  /\ Head(inbox[s]) = inbox[s][1] /\ Head(inbox[s]) \in Unit
           /\ inbox[s] = <<Head(inbox[s])>> \o inbox'[s] /\ inbox'[s] \in Seq(Unit)
           /\ \A t \in Side \ {s} : inbox'[t] = inbox[t]
  <1> DEFINE x == inbox[s]
  <1>1. inbox \in [Side -> Seq(Unit)] /\ x \in Seq(Unit) /\ x # <<>>
    BY Parts
  <1>2. inbox'[s] = Tail(x) /\ \A t \in Side \ {s} : inbox'[t] = inbox[t]
    BY <1>1 DEF Pop
  <1> HIDE DEF x
  <1>3. Head(x) = x[1] /\ Head(x) \in Unit /\ Tail(x) \in Seq(Unit)
    BY <1>1
  <1>4. x = <<Head(x)>> \o Tail(x)
    BY <1>1
  <1> QED BY <1>2, <1>3, <1>4 DEF x

\* What is taken in hand is still what its side said and was not carried yet.
LEMMA TakeIn ==
    ASSUME TypeOK, NEW s \in Side, inbox[s] # <<>>, Pop(s), hand'.side = s,
           hand.units = <<>> \/ hand.side = s,
           hand'.units = hand.units \o <<Head(inbox[s])>>
    PROVE  \A t \in Side : In(t)' = In(t)
  <1> DEFINE h == <<Head(inbox[s])>>
             us == hand.units
             x == inbox'[s]
  <1>1. us \in Seq(Unit) /\ h \in Seq(Unit) /\ x \in Seq(Unit) /\ inbox[s] = h \o x
    BY Parts, PopIs
  <1>2. In(s)' = (us \o h) \o x
    BY DEF In
  <1> HIDE DEF h, us, x
  <1>3. In(s)' = us \o inbox[s]
    <2>1. (us \o h) \o x = us \o (h \o x)
      BY <1>1, ThreeParts
    <2> QED BY <1>1, <1>2, <2>1
  <1>4. In(s) = us \o inbox[s]
    <2>1. CASE hand.side = s
      BY <2>1 DEF In, us
    <2>2. CASE hand.side # s
      <3>1. us = <<>> /\ In(s) = inbox[s] /\ inbox[s] \in Seq(Unit)
        BY <2>2, Parts DEF In, us
      <3> QED BY <3>1, ConcatEmptySeq
    <2> QED BY <2>1, <2>2
  <1>5. ASSUME NEW t \in Side \ {s}
        PROVE  In(t)' = In(t)
    <2>1. In(t)' = inbox[t]
      BY PopIs DEF In
    <2>2. In(t) = inbox[t]
      <3>1. hand.units = <<>> \/ hand.side # t
        OBVIOUS
      <3> QED BY <3>1, InIs
    <2> QED BY <2>1, <2>2
  <1> QED BY <1>3, <1>4, <1>5

\* The type byte of a message is what is read for one.
LEMMA HeadByteIs ==
    ASSUME NEW s, NEW v \in Talk, Head(inbox[s]).val = TypeByteOf[MsgOf(v)]
    PROVE  HeadByte(s) = TypeByteOf[MsgOf(v)] /\ HeadByte(s) \in TypeByte
  BY TalkFacts DEF HeadByte, Byte

\* What go() refuses in its loop, of what peers say: message v from side s in state c.
Refusal(s, v, c) ==
    \/ /\ "Sync" \in Ways /\ s = "Frontend" /\ v = "Sync"
       /\ c \in {"AbortedParsingOrBinding", "ReadyForQuery"}
    \/ /\ "Pipelining" \in Ways /\ s = "Frontend" /\ v = "Sync"
       /\ c \in {"GotPreparedStatement", "GotBinding", "ExecutingExtendedQuery",
                     "AnsweringToExtendedQuery"}
    \/ /\ "Pipelining" \in Ways /\ s = "Frontend" /\ v \in {"Parse", "Bind", "Execute"}
       /\ c \in {"GotPreparedStatement", "GotBinding", "AbortedParsingOrBinding"}
    \/ /\ "Parameters" \in Ways /\ s = "Backend" /\ v = "ParameterStatus"
       /\ c \in Conversing

\* In the loop, what comes first from a side is a message, which the arm that matches its type
\* byte is for; where no arm does, the peers went beyond the tests.
LEMMA LoopFirst ==
    ASSUME SInv, Loop, NEW s \in Side, In(s) # <<>>
    PROVE  /\ In(s) \in Seq(Unit) /\ Len(In(s)) \in Nat /\ Len(In(s)) >= 2
           /\ In(s)[1].val = TypeByteOf[MsgOf(In(s)[2].val)]
           /\ In(s)[2].val \in Talk /\ In(s)[2].quality = "ok"
           /\ \A a \in Matching(s, In(s)[1].val, state) : a.msg = MsgOf(In(s)[2].val)
           /\ Matching(s, In(s)[1].val, state) = {} =>
                MsgOf(In(s)[2].val) = In(s)[2].val /\ Refusal(s, In(s)[2].val, state)
  <1> DEFINE x == In(s)
             v == x[2].val
  <1>1. x \in Seq(Unit)
    BY InIs DEF SInv, SessionTypeOK
  <1>2. state \in State /\ FrontSide /\ BackSide
    BY DEF Loop, LoopHand
  <1>3. CASE s = "Frontend"
    <2>1. /\ Len(x) \in Nat /\ Len(x) >= 2 /\ x[1].val = TypeByteOf[MsgOf(v)]
          /\ v \in Talk /\ x[2].quality = "ok"
          /\ \E t : SaysF(Expects[state], v, t)
      BY <1>1, <1>2, <1>3, FrontFirst DEF FrontSide
    <2> HIDE DEF x, v
    <2>2. PICK t : SaysF(Expects[state], v, t)
      BY <2>1
    <2>3. \A a \in Matching("Frontend", TypeByteOf[MsgOf(v)], state) : a.msg = MsgOf(v)
      BY <1>2, <2>1, <2>2, FrontArm
    <2>4. Matching("Frontend", TypeByteOf[MsgOf(v)], state) = {} =>
             MsgOf(v) = v /\ Refusal("Frontend", v, state)
      BY <1>2, <2>1, <2>2, FrontRefused DEF Refusal
    <2> QED BY <1>1, <1>3, <2>1, <2>3, <2>4 DEF x, v
  <1>4. CASE s = "Backend"
    <2>1. /\ Len(x) \in Nat /\ Len(x) >= 2 /\ x[1].val = TypeByteOf[MsgOf(v)]
          /\ v \in Talk /\ x[2].quality = "ok" /\ MsgOf(v) \in BackMsg
          /\ Matching("Backend", x[1].val, state) = {} =>
               v = "ParameterStatus" /\ state \in Conversing /\ "Parameters" \in Ways
      BY <1>1, <1>2, <1>4, BackFirst DEF BackSide
    <2> HIDE DEF x, v
    <2>2. \A a \in Matching("Backend", TypeByteOf[MsgOf(v)], state) : a.msg = MsgOf(v)
      BY <2>1, BackArm
    <2>3. MsgOf("ParameterStatus") = "ParameterStatus"
      BY DEF MsgOf, InitialBody, AuthenticationBody
    <2> QED BY <1>1, <1>4, <2>1, <2>2, <2>3 DEF x, v, Refusal
  <1> QED BY <1>3, <1>4 DEF Side

\* A poll of the streams keeps the course, whether a type byte is there or not.
LEMMA PollCourse ==
    ASSUME SInv, Course, NEW s \in Side, NEW at \in {"Select", "PollFrontend"},
           NEW otherwise \in {"PollFrontend", "Parked"}, Poll(s, at, otherwise),
           UNCHANGED <<front, back>>
    PROVE  Course'
  <1>1. pc = at /\ UNCHANGED <<state, wrap, eof, outbox>>
    BY DEF Poll
  <1>2. /\ result = Running /\ Loop /\ GoneOnEof /\ TypeOK /\ hand.units = <<>>
        /\ state \in State /\ (\A t \in Side : wrap[t] # "TlsHandshake")
    BY <1>1 DEF Course, Ended, Opening, FirstInitial, SecondInitial, TlsAsked, TlsFailed,
       TlsGranted, TlsTold, InitialInHand, Loop, LoopHand, SInv, SessionTypeOK
  <1>3. CASE ~Readable(s)
    <2>1. pc' = otherwise /\ UNCHANGED <<inbox, hand, result>>
      BY <1>3 DEF Poll
    <2>2. LoopHand'
      BY <1>1, <1>2, <2>1 DEF LoopHand
    <2>3. \A t \in Side : In(t)' = In(t)
      BY <2>1 DEF In
    <2> QED BY <1>1, <1>2, <2>1, <2>2, <2>3, LoopStays
  <1>4. CASE Readable(s) /\ Fails(s)
    <2>1. Finish(Failure(s)) /\ ~Disrupted(s)
      BY <1>2, <1>4 DEF Poll, Dispatch, Disrupted
    <2> QED BY <1>1, <1>2, <1>4, <2>1, FailsCourse
  <1>5. CASE Readable(s) /\ ~Fails(s)
    <2> DEFINE x == In(s)
               u == Head(inbox[s])
               v == x[2].val
               b == HeadByte(s)
    <2>1. inbox[s] # <<>> /\ Pop(s) /\ x = inbox[s]
      BY <1>2, <1>5, InIs DEF Poll, Dispatch, Fails
    <2>2. /\ Len(x) >= 2 /\ x[1].val = TypeByteOf[MsgOf(v)] /\ v \in Talk
          /\ \A a \in Matching(s, x[1].val, state) : a.msg = MsgOf(v)
          /\ Matching(s, x[1].val, state) = {} =>
                MsgOf(v) = v /\ Refusal(s, v, state)
      BY <1>2, <2>1, LoopFirst
    <2>3. u = x[1] /\ u \in Unit /\ u.val = TypeByteOf[MsgOf(v)]
      BY <1>2, <2>1, <2>2, PopIs
    <2>4. b = TypeByteOf[MsgOf(v)] /\ b \in TypeByte
      BY <2>2, <2>3, HeadByteIs
    <2>5. CASE Matching(s, b, state) = {}
      <3>1. /\ Finish("UnexpectedType")
            /\ hand' = [hand EXCEPT !.side = s, !.units = <<u>>]
        BY <1>5, <2>4, <2>5 DEF Poll, Dispatch
      <3>2. hand'.side = s /\ hand'.units = <<u>>
        BY <1>2, <3>1, Parts DEF Hand
      <3> HIDE DEF u, v, x, b
      <3>3. hand'.units[1].val = TypeByteOf[v] /\ Refusal(s, v, state')
        BY <1>1, <2>2, <2>3, <2>4, <2>5, <3>2
      <3>4. result' = "UnexpectedType" /\ pc' = "Done"
        BY <3>1 DEF Finish
      <3>5. Excused'
        <4>1. ASSUME NEW S, v \in S PROVE hand'.units[1].val \in {TypeByteOf[m] : m \in S}
          BY <3>3, <4>1
        <4> QED BY <3>2, <3>3, <3>4, <4>1 DEF Refusal, Excused, Unexpected
      <3>6. Reason' /\ result' # Running
        BY <3>4, <3>5 DEF Reason, EndedRightly, Running
      <3>7. FrontFits(outbox["Frontend"], front) /\ BackFits(outbox["Backend"], back)
        BY <1>2, Fits
      <3> QED BY <1>1, <1>2, <3>4, <3>6, <3>7, EndsInCourse
    <2>6. CASE Matching(s, b, state) # {}
      <3>1. /\ pc' = "ReadMsg" /\ UNCHANGED result
            /\ \E a \in Matching(s, b, state) : hand' = Hold(s, a.msg, <<u>>, a.to)
        BY <1>5, <2>6 DEF Poll, Dispatch
      <3>2. PICK a \in Matching(s, b, state) : hand' = Hold(s, a.msg, <<u>>, a.to)
        BY <3>1
      <3>3. /\ hand'.side = s /\ hand'.units = <<u>> /\ hand'.msg = a.msg /\ hand'.then = a.to
        BY <3>2 DEF Hold
      <3>4. <<u>> = hand.units \o <<u>>
        <4> HIDE DEF u
        <4> QED BY <1>2, <2>3
      <3>5. \A t \in Side : In(t)' = In(t)
        BY <1>2, <2>1, <3>3, <3>4, TakeIn
      <3> HIDE DEF u, v, x, b
      <3>6. Len(hand'.units) = 1 /\ hand'.units[1].val = b
        BY <2>3, <2>4, <3>3
      <3>7. LoopHand'
        <4>1. a \in Matching(hand'.side, hand'.units[1].val, state')
          BY <1>1, <3>3, <3>6
        <4> QED BY <1>1, <1>2, <3>1, <3>3, <3>6, <4>1 DEF LoopHand
      <3> QED BY <1>1, <1>2, <3>1, <3>5, <3>7, LoopStays
    <2> QED BY <2>5, <2>6
  <1> QED BY <1>3, <1>4, <1>5

\* A wake-up keeps the course.
LEMMA WakeCourse ==
    ASSUME SInv, Course, Wake, UNCHANGED <<front, back>>
    PROVE  Course'
  <1>1. /\ pc = "Parked" /\ pc' = "Select"
        /\ UNCHANGED <<state, wrap, inbox, eof, outbox, hand, result>>
    BY DEF Wake
  <1>2. result = Running /\ Loop /\ GoneOnEof
    BY <1>1 DEF Course, Ended, Opening, FirstInitial, SecondInitial, TlsAsked, TlsFailed,
       TlsGranted, TlsTold, InitialInHand
  <1>3. LoopHand'
    BY <1>1, <1>2 DEF Loop, LoopHand
  <1>4. \A t \in Side : In(t)' = In(t)
    BY <1>1 DEF In
  <1> QED BY <1>1, <1>2, <1>3, <1>4, LoopStays

\* One more unit in hand.
LEMMA OneMoreUnit ==
    ASSUME NEW us \in Seq(Unit), NEW u \in Unit
    PROVE  /\ Append(us, u) = us \o <<u>>
           /\ us = <<>> => Len(us \o <<u>>) = 1 /\ (us \o <<u>>)[1] = u
           /\ Len(us) = 1 => /\ Len(us \o <<u>>) = 2
                             /\ (us \o <<u>>)[1] = us[1] /\ (us \o <<u>>)[2] = u
  <1> DEFINE z == us \o <<u>>
  <1>1. Append(us, u) = z
    BY AppendIsConcat
  <1>2. /\ Len(us) \in Nat /\ Len(z) = Len(us) + 1
        /\ \A i \in 1 .. Len(us) + 1 : z[i] = IF i <= Len(us) THEN us[i] ELSE u
    <2>1. Len(<<u>>) = 1 /\ <<u>>[1] = u
      OBVIOUS
    <2> QED BY <2>1
  <1> HIDE DEF z
  <1>3. us = <<>> => Len(z) = 1 /\ z[1] = u
    BY <1>2
  <1>4. Len(us) = 1 => Len(z) = 2 /\ z[1] = us[1] /\ z[2] = u
    BY <1>2
  <1> QED BY <1>1, <1>3, <1>4 DEF z

\* A well-formed message of the type that is read is understood.
LEMMA ReadOk ==
    ASSUME TypeOK, ReadMsg, ~Fails(hand.side), Head(inbox[hand.side]).quality = "ok",
           MsgOf(Head(inbox[hand.side]).val) = hand.msg
    PROVE  /\ pc' = "Write" /\ result' = result
           /\ hand'.side = hand.side /\ hand'.msg = hand.msg
           /\ hand'.units = hand.units \o <<Head(inbox[hand.side])>>
           /\ hand'.then = Continuation(hand.then, Head(inbox[hand.side]).val, state)
           /\ inbox[hand.side] # <<>> /\ Pop(hand.side) /\ Head(inbox[hand.side]) \in Unit
           /\ \A t \in Side : In(t)' = In(t)
  <1> DEFINE s == hand.side
             u == Head(inbox[s])
  <1>1. Outcomes(u, hand.msg) = {"ok"}
    BY DEF Outcomes
  <1>2. /\ Pop(s) /\ pc' = "Write" /\ UNCHANGED result
        /\ hand' = Hold(s, hand.msg, Append(hand.units, u),
                        Continuation(hand.then, u.val, state))
    BY <1>1 DEF ReadMsg
  <1>3. s \in Side /\ inbox[s] # <<>> /\ hand.units \in Seq(Unit)
    BY Parts DEF Fails
  <1>4. u \in Unit
    BY <1>2, <1>3, PopIs
  <1> HIDE DEF u, s
  <1>5. /\ hand'.side = s /\ hand'.msg = hand.msg
        /\ hand'.units = hand.units \o <<u>>
        /\ hand'.then = Continuation(hand.then, u.val, state)
    BY <1>2, <1>3, <1>4, OneMoreUnit DEF Hold
  <1>6. \A t \in Side : In(t)' = In(t)
    BY <1>2, <1>3, <1>5, TakeIn DEF u, s
  <1> QED BY <1>2, <1>3, <1>4, <1>5, <1>6 DEF u, s

\* Where two units are on their way and one of them is in hand, the other is the next.
LEMMA SecondUnit ==
    ASSUME TypeOK, Len(hand.units) = 1, Len(In(hand.side)) >= 2
    PROVE  /\ inbox[hand.side] # <<>> /\ In(hand.side)[1] = hand.units[1]
           /\ In(hand.side)[2] = Head(inbox[hand.side])
  <1> DEFINE us == hand.units
             x == inbox[hand.side]
  <1>1. us \in Seq(Unit) /\ x \in Seq(Unit) /\ In(hand.side) = us \o x /\ Len(us) = 1
    BY Parts, InIs
  <1> HIDE DEF us, x
  <1>2. Len(us \o x) >= 2
    BY <1>1
  <1>3. x # <<>> /\ (us \o x)[1] = us[1] /\ (us \o x)[2] = Head(x)
    <2>1. /\ Len(us \o x) = 1 + Len(x) /\ Len(x) \in Nat
          /\ \A i \in 1 .. 1 + Len(x) : (us \o x)[i] = IF i <= 1 THEN us[i] ELSE x[i - 1]
      <3>1. /\ Len(us \o x) = Len(us) + Len(x) /\ Len(x) \in Nat
            /\ \A i \in 1 .. Len(us) + Len(x) :
                 (us \o x)[i] = IF i <= Len(us) THEN us[i] ELSE x[i - Len(us)]
        <4>1. us \in Seq(Unit) /\ x \in Seq(Unit)
          BY <1>1
        <4>2. Len(x) \in Nat
          BY <4>1, LenProperties
        <4> QED BY <4>1, <4>2
      <3> QED BY <1>1, <3>1
    <2>2. Len(x) >= 1
      BY <1>2, <2>1
    <2>3. x # <<>> /\ Head(x) = x[1]
      BY <1>1, <2>2
    <2>4. (us \o x)[1] = us[1] /\ (us \o x)[2] = x[1]
      BY <2>1, <2>2
    <2> QED BY <2>3, <2>4
  <1> QED BY <1>1, <1>3 DEF us, x

\* A unit alone on its way, with nothing in hand, is the next.
LEMMA OnlyUnit ==
    ASSUME TypeOK, NEW s \in Side, hand.units = <<>>, Len(In(s)) >= 1
    PROVE  inbox[s] # <<>> /\ In(s) = inbox[s] /\ In(s)[1] = Head(inbox[s])
  <1> DEFINE x == inbox[s]
  <1>1. x \in Seq(Unit) /\ In(s) = x
    BY Parts, InIs
  <1> HIDE DEF x
  <1>2. x # <<>> /\ x[1] = Head(x)
    BY <1>1
  <1> QED BY <1>1, <1>2 DEF x

\* Every message that is read keeps the course.
LEMMA ReadMsgCourse ==
    ASSUME SInv, Course, ReadMsg, UNCHANGED <<front, back>>
    PROVE  Course'
  <1> DEFINE s == hand.side
             x == In(s)
             u == Head(inbox[s])
  <1>1. pc = "ReadMsg" /\ Readable(s) /\ UNCHANGED <<state, wrap, eof, outbox>>
    BY DEF ReadMsg
  <1>2. result = Running /\ GoneOnEof /\ (Opening \/ Loop) /\ TypeOK
    BY <1>1 DEF Course, Ended, SInv, SessionTypeOK
  <1>3. s \in Side /\ hand.units \in Seq(Unit) /\ x \in Seq(Unit)
    BY <1>2, Parts, InIs
  <1>4. GoneOnEof'
    BY <1>1, <1>2 DEF GoneOnEof
  <1>5. CASE Loop
    <2>1. PICK a \in Matching(s, hand.units[1].val, state) :
              hand.msg = a.msg /\ Len(hand.units) = 1 /\ hand.then = a.to
      BY <1>1, <1>5 DEF Loop, LoopHand
    <2>2. x # <<>>
      <3>1. x = hand.units \o inbox[s] /\ inbox[s] \in Seq(Unit)
        BY <1>2, <1>3, InIs, Parts
      <3> HIDE DEF x, s
      <3> QED BY <1>3, <2>1, <3>1
    <2>3. /\ Len(x) >= 2 /\ x[1].val = TypeByteOf[MsgOf(x[2].val)] /\ x[2].quality = "ok"
          /\ \A r \in Matching(s, x[1].val, state) : r.msg = MsgOf(x[2].val)
      BY <1>3, <1>5, <2>2, LoopFirst
    <2>4. inbox[s] # <<>> /\ x[1] = hand.units[1] /\ x[2] = u
      BY <1>2, <2>1, <2>3, SecondUnit
    <2>5. MsgOf(u.val) = hand.msg /\ u.quality = "ok"
      BY <2>1, <2>3, <2>4
    <2>6. ~Fails(s)
      BY <1>3, <1>5, <2>4 DEF Loop, LoopHand, Fails, Disrupted
    <2>7. /\ pc' = "Write" /\ result' = result
          /\ hand'.side = s /\ hand'.msg = hand.msg
          /\ hand'.units = hand.units \o <<u>>
          /\ hand'.then = Continuation(hand.then, u.val, state)
          /\ u \in Unit
          /\ \A t \in Side : In(t)' = In(t)
      BY <1>2, <2>5, <2>6, ReadOk
    <2> HIDE DEF u, x, s
    <2>8. /\ Len(hand'.units) = 2 /\ hand'.units[1] = hand.units[1] /\ hand'.units[2] = u
      BY <1>3, <2>1, <2>7, OneMoreUnit
    <2>9. LoopHand'
      <3>1. a \in Matching(hand'.side, hand'.units[1].val, state')
        BY <1>1, <2>7, <2>8
      <3>2. hand'.msg = a.msg /\ hand'.then = Continuation(a.to, hand'.units[2].val, state')
        BY <1>1, <2>1, <2>7, <2>8
      <3>3. state' \in State /\ \A t \in Side : wrap'[t] # "TlsHandshake"
        BY <1>1, <1>5 DEF Loop, LoopHand
      <3> QED BY <2>7, <2>8, <3>1, <3>2, <3>3 DEF LoopHand
    <2> QED BY <1>1, <1>2, <1>5, <2>7, <2>9, LoopStays
  <1>6. CASE Opening /\ Fails(s)
    <2>1. ~Disrupted(s)
      BY <1>1, <1>6 DEF Opening, FirstInitial, SecondInitial, TlsAsked, TlsFailed, TlsGranted,
         TlsTold, InitialInHand, Disrupted, Plain
    <2>2. Finish(Failure(s))
      BY <1>6 DEF ReadMsg
    <2> QED BY <1>1, <1>2, <1>3, <1>6, <2>1, <2>2, FailsCourse
  <1>7. CASE Opening /\ ~Fails(s)
    <2>1. state = NoState /\ state' = NoState
      BY <1>1, <1>7 DEF Opening
    <2>2. inbox[s] # <<>>
      BY <1>7 DEF Fails
    <2>3. ASSUME FirstInitial \/ SecondInitial
          PROVE  /\ s = "Frontend" /\ u.val \in InitialBody /\ u.quality = "ok"
                 /\ hand.units = <<>> /\ hand.msg = "Initial" /\ x # <<>>
      <3>1. s = "Frontend" /\ hand.units = <<>> /\ hand.msg = "Initial"
        BY <1>1, <2>3 DEF FirstInitial, SecondInitial, InitialInHand
      <3>2. x = inbox[s] /\ x # <<>>
        BY <1>2, <1>3, <2>2, <3>1, InIs
      <3>3. \E v \in InitialBody : IsByte(x, v) /\ x[1].quality = "ok"
        BY <2>3, <3>1, <3>2 DEF FirstInitial, SecondInitial, FrontOpens, FrontGranted
      <3>4. Len(x) >= 1
        BY <3>3 DEF IsByte
      <3>5. u = x[1]
        BY <1>2, <1>3, <3>1, <3>4, OnlyUnit
      <3> QED BY <3>1, <3>2, <3>3, <3>5 DEF IsByte
    <2>4. ASSUME FirstInitial \/ SecondInitial
          PROVE  /\ pc' = "Write" /\ result' = result
                 /\ hand'.side = "Frontend" /\ hand'.msg = "Initial"
                 /\ Len(hand'.units) = 1 /\ hand'.units[1] = u
                 /\ hand'.then = Continuation(hand.then, hand'.units[1].val, state)
                 /\ In("Frontend")' = In("Frontend") /\ In("Backend")' = In("Backend")
      <3>1. MsgOf(u.val) = hand.msg /\ u.quality = "ok"
        BY <2>3, <2>4 DEF MsgOf
      <3>2. /\ pc' = "Write" /\ result' = result
            /\ hand'.side = s /\ hand'.msg = hand.msg
            /\ hand'.units = hand.units \o <<u>>
            /\ hand'.then = Continuation(hand.then, u.val, state)
            /\ u \in Unit
            /\ \A t \in Side : In(t)' = In(t)
        BY <1>2, <1>7, <3>1, ReadOk
      <3>3. Len(hand'.units) = 1 /\ hand'.units[1] = u
        <4> HIDE DEF u
        <4> QED BY <1>3, <2>3, <2>4, <3>2, OneMoreUnit
      <3> QED BY <2>3, <2>4, <3>2, <3>3 DEF Side
    <2>5. \A b : /\ Continuation(First, b, state) = OnInitial(b, FALSE)
                 /\ Continuation(FirstInTls, b, state) = OnInitial(b, TRUE)
      BY DEF Continuation, First, FirstInTls, Auth, Same
    <2>6. CASE FirstInitial
      <3>1. hand.then = First
        BY <1>1, <2>6 DEF FirstInitial, InitialInHand
      <3>2. InitialInHand(First, FALSE)'
        BY <2>4, <2>5, <2>6, <3>1 DEF InitialInHand
      <3>3. FrontOpens("Begin")' /\ BackListens'
        BY <1>1, <2>4, <2>6 DEF FirstInitial, FrontOpens, BackListens
      <3>4. FirstInitial'
        BY <1>1, <2>6, <3>2, <3>3 DEF FirstInitial, Plain
      <3> QED BY <1>2, <1>4, <2>1, <2>4, <2>6, <3>4 DEF Course, Opening
    <2>7. CASE SecondInitial
      <3>1. hand.then = FirstInTls
        BY <1>1, <2>7 DEF SecondInitial, InitialInHand
      <3>2. InitialInHand(FirstInTls, TRUE)'
        BY <2>4, <2>5, <2>7, <3>1 DEF InitialInHand
      <3>3. FrontOpens("Secured")' /\ BackListens'
        <4>1. FrontOpens("Secured") /\ BackListens
          BY <2>3, <2>7 DEF SecondInitial, FrontGranted
        <4> QED BY <1>1, <2>4, <2>7, <4>1 DEF FrontOpens, BackListens
      <3>4. SecondInitial'
        BY <1>1, <2>7, <3>2, <3>3 DEF SecondInitial
      <3> QED BY <1>2, <1>4, <2>1, <2>4, <2>7, <3>4 DEF Course, Opening
    <2>8. CASE TlsFailed
      <3>1. /\ s = "Backend" /\ hand.msg = "ErrorResponse" /\ hand.then = "Ok"
            /\ Len(hand.units) = 1 /\ IsError(x)
        BY <1>1, <2>8 DEF TlsFailed
      <3>2. x[2] = u
        <4>1. Len(x) >= 2
          BY <3>1 DEF IsError
        <4> QED BY <1>2, <3>1, <4>1, SecondUnit
      <3>3. MsgOf(u.val) = hand.msg /\ u.quality = "ok"
        BY <3>1, <3>2 DEF IsError, MsgOf, InitialBody, AuthenticationBody
      <3>4. /\ pc' = "Write" /\ result' = result
            /\ hand'.side = s /\ hand'.msg = hand.msg
            /\ hand'.units = hand.units \o <<u>>
            /\ hand'.then = Continuation(hand.then, u.val, state)
            /\ u \in Unit
            /\ \A t \in Side : In(t)' = In(t)
        BY <1>2, <1>7, <3>3, ReadOk
      <3>5. Len(hand'.units) = 2
        <4> HIDE DEF u
        <4> QED BY <1>3, <3>1, <3>4, OneMoreUnit
      <3>6. hand'.then = "Ok"
        BY <3>1, <3>4 DEF Continuation, First, FirstInTls, Auth, Same
      <3>7. In("Frontend")' = In("Frontend") /\ In("Backend")' = In("Backend")
        BY <3>4 DEF Side
      <3>8. TlsFailed'
        BY <1>1, <2>8, <3>1, <3>4, <3>5, <3>6, <3>7 DEF TlsFailed, Plain, FrontAwaits
      <3> QED BY <1>2, <1>4, <2>1, <3>4, <3>8 DEF Course, Opening
    <2> QED BY <1>1, <1>7, <2>6, <2>7, <2>8 DEF Opening, TlsAsked, TlsGranted, TlsTold
  <1> QED BY <1>2, <1>5, <1>6, <1>7

\* What is written for a message in hand is that message again.
LEMMA OutgoingIs ==
    ASSUME TypeOK, NEW enc \in BOOLEAN
    PROVE  /\ \A v \in Talk :
                /\ Len(hand.units) = 2 /\ hand.units[2].val = v /\ hand.units[2].quality = "ok"
                /\ hand.msg = MsgOf(v)
                => IsTalk(Outgoing(hand, enc), v) /\ Outgoing(hand, enc) \in Seq(Unit)
           /\ \A v \in InitialBody :
                Len(hand.units) = 1 /\ hand.units[1].val = v /\ hand.msg = "Initial"
                => IsByte(Outgoing(hand, enc), v) /\ Outgoing(hand, enc) \in Seq(Unit)
           /\ hand.msg = TlsResponse =>
                IsByte(Outgoing(hand, enc), TLS_SUPPORTED) /\ Outgoing(hand, enc) \in Seq(Unit)
  <1> DEFINE us == hand.units
             out == Outgoing(hand, enc)
  <1>1. us \in Seq(Unit)
    BY Parts
  <1>2. ASSUME NEW v \in Talk, Len(us) = 2, us[2].val = v, us[2].quality = "ok",
               hand.msg = MsgOf(v)
        PROVE  IsTalk(out, v) /\ out \in Seq(Unit)
    <2>1. TypeByteOf[MsgOf(v)] \in TypeByte /\ v \in Body
      BY TalkFacts
    <2>2. TypeByteOf[MsgOf(v)] # "" /\ hand.msg # TlsResponse
      BY <1>2, <2>1, MsgOfType, MsgFacts
    <2> DEFINE g == ByteUnit(TypeByteOf[MsgOf(v)], enc)
               w == [us[2] EXCEPT !.enc = enc]
    <2>3. out = <<g>> \o <<w>>
      BY <1>2, <2>2 DEF Outgoing, Header
    <2>4. us[2] \in Unit
      <3>1. 2 \in 1 .. Len(us)
        BY <1>2
      <3> HIDE DEF us
      <3> QED BY <1>1, <3>1, ElementOfSeq
    <2>5. /\ g.val = TypeByteOf[MsgOf(v)] /\ w.val = v /\ w.quality = "ok"
      BY <1>2, <2>4 DEF ByteUnit, Unit
    <2>6. hand.units # <<>>
      <3> HIDE DEF us
      <3>1. us # <<>>
        BY <1>1, <1>2
      <3> QED BY <3>1 DEF us
    <2>7. out \in Seq(Unit)
      BY <2>6, OutgoingType
    <2> HIDE DEF g, w
    <2>8. /\ Len(<<g>> \o <<w>>) = 2
          /\ (<<g>> \o <<w>>)[1] = g /\ (<<g>> \o <<w>>)[2] = w
      OBVIOUS
    <2> QED BY <2>3, <2>5, <2>7, <2>8 DEF IsTalk
  <1>3. ASSUME NEW v \in InitialBody, Len(us) = 1, us[1].val = v, hand.msg = "Initial"
        PROVE  IsByte(out, v) /\ out \in Seq(Unit)
    <2>1. TypeByteOf["Initial"] = "" /\ hand.msg # TlsResponse
      BY <1>3 DEF TypeByteOf, TlsResponse
    <2> DEFINE w == [us[1] EXCEPT !.enc = enc]
    <2>2. out = <<>> \o <<w>>
      BY <1>3, <2>1 DEF Outgoing, Header
    <2>3. us[1] \in Unit
      <3>1. 1 \in 1 .. Len(us)
        BY <1>3
      <3> HIDE DEF us
      <3> QED BY <1>1, <3>1, ElementOfSeq
    <2>4. w.val = v /\ w \in Unit
      BY <1>3, <2>3, UnitFacts
    <2> HIDE DEF w
    <2>5. <<>> \o <<w>> = <<w>> /\ <<w>> \in Seq(Unit) /\ Len(<<w>>) = 1 /\ <<w>>[1] = w
      BY <2>4
    <2> QED BY <2>2, <2>4, <2>5 DEF IsByte
  <1>4. ASSUME hand.msg = TlsResponse
        PROVE  IsByte(out, TLS_SUPPORTED) /\ out \in Seq(Unit)
    <2> DEFINE w == ByteUnit(TLS_SUPPORTED, enc)
    <2>1. out = <<w>>
      BY <1>4 DEF Outgoing
    <2>2. w.val = TLS_SUPPORTED /\ w \in Unit
      BY UnitFacts DEF Byte, TypeByte, TLS_SUPPORTED
    <2> HIDE DEF w
    <2>3. <<w>> \in Seq(Unit) /\ Len(<<w>>) = 1 /\ <<w>>[1] = w
      BY <2>2
    <2> QED BY <2>1, <2>2, <2>3 DEF IsByte
  <1> QED BY <1>2, <1>3, <1>4

\* What is written is no longer to be carried; the rest still is.
LEMMA WrittenIn ==
    ASSUME TypeOK, hand' = [hand EXCEPT !.units = <<>>], inbox' = inbox
    PROVE  /\ hand'.units = <<>> /\ hand'.side = hand.side
           /\ \A t \in Side : In(t)' = inbox[t]
           /\ \A t \in Side \ {hand.side} : In(t)' = In(t)
  <1>1. hand'.units = <<>> /\ hand'.side = hand.side
    BY Parts DEF Hand
  <1>2. ASSUME NEW t \in Side
        PROVE  In(t)' = inbox[t]
    <2>1. inbox[t] \in Seq(Unit)
      BY Parts
    <2>2. <<>> \o inbox[t] = inbox[t]
      BY <2>1, ConcatEmptySeq
    <2> QED BY <1>1, <2>2 DEF In
  <1>3. \A t \in Side \ {hand.side} : In(t) = inbox[t]
    BY DEF In
  <1> QED BY <1>1, <1>2, <1>3

\* With a whole message in hand, it is what comes first, and the rest is behind it.
LEMMA MessageInHand ==
    ASSUME TypeOK, Len(hand.units) = 2
    PROVE  /\ In(hand.side) # <<>>
           /\ In(hand.side)[1] = hand.units[1] /\ In(hand.side)[2] = hand.units[2]
           /\ inbox[hand.side] = SubSeq(In(hand.side), 3, Len(In(hand.side)))
  <1> DEFINE us == hand.units
             x == inbox[hand.side]
  <1>1. us \in Seq(Unit) /\ x \in Seq(Unit) /\ In(hand.side) = us \o x /\ Len(us) = 2
    BY Parts, InIs
  <1> HIDE DEF us, x
  <1> DEFINE y == us \o x
  <1>2. /\ y \in Seq(Unit) /\ Len(y) = 2 + Len(x) /\ Len(x) \in Nat
        /\ \A i \in 1 .. 2 + Len(x) : y[i] = IF i <= 2 THEN us[i] ELSE x[i - 2]
    <2>1. us \in Seq(Unit) /\ x \in Seq(Unit)
      BY <1>1
    <2>2. /\ y \in Seq(Unit) /\ Len(y) = Len(us) + Len(x) /\ Len(x) \in Nat
          /\ \A i \in 1 .. Len(us) + Len(x) :
               y[i] = IF i <= Len(us) THEN us[i] ELSE x[i - Len(us)]
      BY <2>1
    <2> HIDE DEF y
    <2> QED BY <1>1, <2>2
  <1> HIDE DEF y
  <1>3. y # <<>> /\ y[1] = us[1] /\ y[2] = us[2]
    BY <1>2
  <1>4. x = SubSeq(y, 3, Len(y))
    <2> DEFINE z == SubSeq(y, 3, Len(y))
    <2>1. z \in Seq(Unit) /\ Len(z) = Len(x) /\ \A i \in 1 .. Len(x) : z[i] = x[i]
      BY <1>1, <1>2
    <2> HIDE DEF z
    <2>2. x = z
      BY <1>1, <2>1, SeqEqual
    <2> QED BY <2>2 DEF z
  <1> QED BY <1>1, <1>3, <1>4 DEF us, x, y

\* The Initial in hand is all that came.
LEMMA InitialAlone ==
    ASSUME TypeOK, NEW b, IsByte(In(hand.side), b), Len(hand.units) = 1
    PROVE  hand.units[1].val = b /\ inbox[hand.side] = <<>>
  <1> DEFINE us == hand.units
             x == inbox[hand.side]
  <1>1. us \in Seq(Unit) /\ x \in Seq(Unit) /\ In(hand.side) = us \o x /\ Len(us) = 1
    BY Parts, InIs
  <1> HIDE DEF us, x
  <1>2. Len(us \o x) = 1 /\ (us \o x)[1].val = b
    BY <1>1 DEF IsByte
  <1>3. x = <<>> /\ us[1] = (us \o x)[1]
    BY <1>1, <1>2
  <1> QED BY <1>2, <1>3 DEF us, x

\* A write is never disrupted by a handshake, and one that fails ends the session.
LEMMA WriteGoes ==
    ASSUME SInv, Course, Write, UNCHANGED <<front, back>>
    PROVE  Written \/ Course'
  <1>1. pc = "Write" /\ UNCHANGED <<wrap, inbox, eof>>
    BY DEF Write
  <1>2. result = Running /\ GoneOnEof /\ (Opening \/ Loop) /\ TypeOK
    BY <1>1 DEF Course, Ended, SInv, SessionTypeOK
  <1>3. ~Disrupted(Peer(hand.side))
    <2>1. hand.side \in Side /\ Peer(hand.side) \in Side
      BY <1>2, Parts DEF Peer, Side
    <2>2. CASE Loop
      BY <2>1, <2>2 DEF Loop, LoopHand, Disrupted
    <2>3. CASE Opening
      BY <1>1, <2>3 DEF Opening, FirstInitial, SecondInitial, TlsAsked, TlsFailed, TlsGranted,
         TlsTold, InitialInHand, Disrupted, Plain, Peer
    <2> QED BY <1>2, <2>2, <2>3
  <1>4. ASSUME WriteFails
        PROVE  Course'
    <2> DEFINE p == Peer(hand.side)
    <2>1. p \in Side /\ eof[p] /\ pc' = "Done" /\ result' = "IoError"
      BY <1>2, <1>4, Parts DEF WriteFails, Finish, Peer, Side
    <2>2. outbox \in [Side -> Seq(Unit)] /\ \A t \in Side \ {p} : outbox'[t] = outbox[t]
      BY <1>2, <1>4, Parts DEF WriteFails
    <2>3. FrontFits(outbox["Frontend"], front) /\ BackFits(outbox["Backend"], back)
      BY <1>2, Fits
    <2>4. Reason'
      BY <1>1, <2>1, GoodReasons
    <2>5. FrontFits(outbox'["Frontend"], front)
      <3>1. CASE p = "Frontend"
        BY <1>2, <2>1, <3>1 DEF GoneOnEof, FrontFits
      <3>2. CASE p # "Frontend"
        BY <2>2, <2>3, <3>2 DEF Side
      <3> QED BY <3>1, <3>2
    <2>6. BackFits(outbox'["Backend"], back)
      <3>1. CASE p = "Backend"
        BY <1>2, <2>1, <3>1 DEF GoneOnEof, BackFits
      <3>2. CASE p # "Backend"
        BY <2>2, <2>3, <3>2 DEF Side
      <3> QED BY <3>1, <3>2
    <2>7. result' # Running
      BY <2>1 DEF Running
    <2> QED BY <1>1, <1>2, <2>1, <2>4, <2>5, <2>6, <2>7, EndsInCourse
  <1> QED BY <1>3, <1>4 DEF Write

\* Where a message goes, and how go() goes on then.
LEMMA WrittenIs ==
    ASSUME TypeOK, Written, NEW p, NEW out,
           p = Peer(hand.side), out = Outgoing(hand, wrap[p] = "Tls")
    PROVE  /\ p \in Side /\ p # hand.side
           /\ outbox'[p] = outbox[p] \o out
           /\ \A t \in Side \ {p} : outbox'[t] = outbox[t]
           /\ hand' = [hand EXCEPT !.units = <<>>]
           /\ hand.then \in State => pc' = "Select" /\ state' = hand.then /\ result' = result
           /\ hand.then \in {"Ok", "Unsupported"} =>
                pc' = "Done" /\ result' = hand.then /\ state' = state
           /\ hand.then \in {"ReadTlsResponse", "SwitchFrontend"} =>
                pc' = hand.then /\ state' = state /\ result' = result
  <1>1. outbox \in [Side -> Seq(Unit)] /\ p \in Side /\ p # hand.side
    BY Parts DEF Peer, Side
  <1>2. outbox' = [outbox EXCEPT ![p] = @ \o out] /\ hand' = [hand EXCEPT !.units = <<>>]
    BY DEF Written
  <1>3. /\ hand.then \in State => pc' = "Select" /\ state' = hand.then /\ result' = result
        /\ hand.then \in {"Ok", "Unsupported"} =>
             pc' = "Done" /\ result' = hand.then /\ state' = state
        /\ hand.then \in {"ReadTlsResponse", "SwitchFrontend"} =>
             pc' = hand.then /\ state' = state /\ result' = result
    BY NameFacts DEF Written, Finish
  <1> QED BY <1>1, <1>2, <1>3

\* In the loop, a message of the backend that is written keeps the course.
LEMMA BackendWritten ==
    ASSUME SInv, Course, result = Running, Loop, pc = "Write", hand.side = "Backend", Written,
           UNCHANGED <<wrap, inbox, eof, front, back>>
    PROVE  Course'
  <1> DEFINE x == In("Backend")
             v == x[2].val
             y == outbox["Frontend"]
             enc == wrap["Frontend"] = "Tls"
             z == Outgoing(hand, enc)
  <1>1. TypeOK /\ GoneOnEof /\ state \in State /\ LoopHand /\ FrontSide /\ BackSide
    BY DEF SInv, SessionTypeOK, Course, Loop, LoopHand
  <1>2. PICK a \in Matching("Backend", hand.units[1].val, state) :
            /\ hand.msg = a.msg /\ Len(hand.units) = 2
            /\ hand.then = Continuation(a.to, hand.units[2].val, state)
    BY <1>1 DEF LoopHand
  <1>3. /\ x # <<>> /\ x[1] = hand.units[1] /\ x[2] = hand.units[2]
        /\ inbox["Backend"] = SubSeq(x, 3, Len(x))
    BY <1>1, <1>2, MessageInHand
  <1>4. /\ x \in Seq(Unit) /\ v \in Talk /\ x[2].quality = "ok" /\ a.msg = MsgOf(v)
    BY <1>2, <1>3, LoopFirst DEF Side
  <1>5. IsTalk(z, v) /\ z \in Seq(Unit)
    <2>1. enc \in BOOLEAN
      OBVIOUS
    <2> HIDE DEF enc
    <2> QED BY <1>1, <1>2, <1>3, <1>4, <2>1, OutgoingIs
  <1>6. /\ outbox'["Frontend"] = y \o z /\ outbox'["Backend"] = outbox["Backend"]
        /\ hand' = [hand EXCEPT !.units = <<>>]
        /\ hand.then \in State => pc' = "Select" /\ state' = hand.then /\ result' = result
        /\ hand.then \in {"Ok", "Unsupported"} =>
             pc' = "Done" /\ result' = hand.then /\ state' = state
    <2>1. Peer(hand.side) = "Frontend"
      BY DEF Peer
    <2> QED BY <1>1, <2>1, WrittenIs DEF Side
  <1>7. /\ hand'.units = <<>> /\ In("Backend")' = SubSeq(x, 3, Len(x))
        /\ In("Frontend")' = In("Frontend")
    BY <1>1, <1>3, <1>6, WrittenIn DEF Side
  <1>8. In("Frontend") \in Seq(Unit) /\ y \in Seq(Unit)
    BY <1>1, InIs, Parts DEF Side
  <1>9. /\ BackAt(x, outbox["Backend"], back, state)
        /\ FrontAt(In("Frontend"), y, front, state)
    BY <1>1 DEF BackSide, FrontSide
  <1>10. GoneOnEof'
    BY <1>1 DEF GoneOnEof
  <1> DEFINE to == Continuation(a.to, v, state)
  <1>11. \/ /\ to \in State
            /\ HearsF(Expects[state], v, Expects[to])
            /\ BackAt(SubSeq(x, 3, Len(x)), outbox["Backend"], back, to)
         \/ /\ to = "Ok" /\ (back = Gone \/ state = "GotSync")
            /\ \E h : HearsF(Expects[state], v, h)
         \/ /\ to = "Unsupported" /\ state = "GotStartup" /\ back \in {"AskedOther", Gone}
            /\ \E h : HearsF(Expects[state], v, h)
    <2>1. a \in Matching("Backend", x[1].val, state)
      BY <1>3
    <2> QED BY <1>1, <1>3, <1>4, <1>9, <2>1, BackFirst
  <1>12. hand.then = to
    BY <1>2, <1>3
  <1> HIDE DEF x, v, y, enc, z, to
  <1>13. CASE to \in State
    <2>1. HearsF(Expects[state], v, Expects[to])
      BY <1>11, <1>13, NameFacts
    <2>2. BackAt(SubSeq(x, 3, Len(x)), outbox["Backend"], back, to)
      BY <1>11, <1>13, NameFacts
    <2>3. FrontAt(In("Frontend"), y \o z, front, to)
      BY <1>1, <1>5, <1>8, <1>9, <1>13, <2>1, FrontTold
    <2>4. pc' = "Select" /\ state' = to /\ result' = result
      BY <1>6, <1>12, <1>13
    <2>5. FrontSide' /\ BackSide'
      BY <1>6, <1>7, <2>2, <2>3, <2>4 DEF FrontSide, BackSide
    <2>6. LoopHand'
      BY <1>1, <1>7, <1>13, <2>4 DEF LoopHand
    <2> QED BY <1>10, <2>4, <2>5, <2>6 DEF Course, Loop
  <1>14. CASE to \in {"Ok", "Unsupported"}
    <2>1. {"Ok", "Unsupported"} \cap State = {}
      BY DEF State
    <2>2. /\ to = "Ok" => back = Gone \/ state = "GotSync"
          /\ to = "Unsupported" => state = "GotStartup" /\ back \in {"AskedOther", Gone}
      BY <1>11, <1>14, <2>1
    <2>3. PICK h : HearsF(Expects[state], v, h)
      BY <1>11, <1>14, <2>1
    <2>4. FrontFits(y \o z, front)
      BY <1>5, <1>8, <1>9, <2>3, FrontLast
    <2>5. BackFits(outbox["Backend"], back)
      BY Fits
    <2>6. pc' = "Done" /\ result' = to /\ state' = state /\ result' # Running
      BY <1>6, <1>12, <1>14 DEF Running
    <2>7. Reason'
      BY <1>14, <2>2, <2>6, GoodReasons
    <2> QED BY <1>1, <1>6, <2>4, <2>5, <2>6, <2>7, EndsInCourse
  <1> QED BY <1>11, <1>13, <1>14

\* So does a message of the frontend.
LEMMA FrontendWritten ==
    ASSUME SInv, Course, result = Running, Loop, pc = "Write", hand.side = "Frontend", Written,
           UNCHANGED <<wrap, inbox, eof, front, back>>
    PROVE  Course'
  <1> DEFINE x == In("Frontend")
             v == x[2].val
             y == outbox["Backend"]
             enc == wrap["Backend"] = "Tls"
             z == Outgoing(hand, enc)
  <1>1. TypeOK /\ GoneOnEof /\ state \in State /\ LoopHand /\ FrontSide /\ BackSide
    BY DEF SInv, SessionTypeOK, Course, Loop, LoopHand
  <1>2. PICK a \in Matching("Frontend", hand.units[1].val, state) :
            /\ hand.msg = a.msg /\ Len(hand.units) = 2
            /\ hand.then = Continuation(a.to, hand.units[2].val, state)
    BY <1>1 DEF LoopHand
  <1>3. /\ x # <<>> /\ x[1] = hand.units[1] /\ x[2] = hand.units[2]
        /\ inbox["Frontend"] = SubSeq(x, 3, Len(x))
    BY <1>1, <1>2, MessageInHand
  <1>4. /\ x \in Seq(Unit) /\ v \in Talk /\ x[2].quality = "ok" /\ a.msg = MsgOf(v)
        /\ x[1].val = TypeByteOf[MsgOf(v)]
    BY <1>2, <1>3, LoopFirst DEF Side
  <1>5. IsTalk(z, v) /\ z \in Seq(Unit)
    <2>1. enc \in BOOLEAN
      OBVIOUS
    <2> HIDE DEF enc
    <2> QED BY <1>1, <1>2, <1>3, <1>4, <2>1, OutgoingIs
  <1>6. /\ outbox'["Backend"] = y \o z /\ outbox'["Frontend"] = outbox["Frontend"]
        /\ hand' = [hand EXCEPT !.units = <<>>]
        /\ hand.then \in State => pc' = "Select" /\ state' = hand.then /\ result' = result
        /\ hand.then = "Ok" => pc' = "Done" /\ result' = "Ok" /\ state' = state
    <2>1. Peer(hand.side) = "Backend"
      BY DEF Peer
    <2> QED BY <1>1, <2>1, WrittenIs DEF Side
  <1>7. /\ hand'.units = <<>> /\ In("Frontend")' = SubSeq(x, 3, Len(x))
        /\ In("Backend")' = In("Backend")
    BY <1>1, <1>3, <1>6, WrittenIn DEF Side
  <1>8. In("Backend") \in Seq(Unit) /\ y \in Seq(Unit)
    BY <1>1, InIs, Parts DEF Side
  <1>9. /\ FrontAt(x, outbox["Frontend"], front, state)
        /\ BackAt(In("Backend"), y, back, state)
    BY <1>1 DEF BackSide, FrontSide
  <1>10. GoneOnEof'
    BY <1>1 DEF GoneOnEof
  <1>11. PICK t : /\ SaysF(Expects[state], v, t)
                  /\ t = Gone => front = Gone
                  /\ \A d : Expects[d] = t =>
                       FrontAt(SubSeq(x, 3, Len(x)), outbox["Frontend"], front, d)
    BY <1>3, <1>4, <1>9, FrontFirst
  <1> DEFINE to == Continuation(a.to, v, state)
  <1>12. a \in Matching("Frontend", TypeByteOf[MsgOf(v)], state)
    BY <1>3, <1>4
  <1>13. hand.then = to
    BY <1>2, <1>3
  <1> HIDE DEF x, v, y, enc, z
  <1>14. \/ to \in State /\ Expects[to] = t /\ HearsB(state, v, to)
         \/ to = "Ok" /\ t = Gone /\ HearsB(state, v, Gone)
    <2>1. \/ /\ Continuation(a.to, v, state) = a.to
             /\ a.to \in State /\ Expects[a.to] = t /\ HearsB(state, v, a.to)
          \/ Continuation(a.to, v, state) = "Ok" /\ t = Gone /\ HearsB(state, v, Gone)
      <3>1. SaysF(Expects[state], v, t)
        BY <1>11
      <3> HIDE DEF to
      <3> QED BY <1>1, <1>4, <1>12, <3>1, FrontArm
    <2> QED BY <2>1
  <1> HIDE DEF to
  <1>15. Carries(z, v) /\ v \in Body
    BY <1>4, <1>5, TalkFacts DEF Carries
  <1>16. Matching("Frontend", TypeByteOf[MsgOf(v)], state) # {}
    BY <1>12
  <1>17. CASE to \in State
    <2>1. Expects[to] = t /\ HearsB(state, v, to)
      BY <1>14, <1>17, NameFacts
    <2>2. FrontAt(SubSeq(x, 3, Len(x)), outbox["Frontend"], front, to)
      BY <1>11, <2>1
    <2>3. BackAt(In("Backend"), y \o z, back, to)
      BY <1>1, <1>5, <1>8, <1>9, <1>15, <1>16, <1>17, <2>1, BackTold
    <2>4. pc' = "Select" /\ state' = to /\ result' = result
      BY <1>6, <1>13, <1>17
    <2>5. FrontSide' /\ BackSide'
      BY <1>6, <1>7, <2>2, <2>3, <2>4 DEF FrontSide, BackSide
    <2>6. LoopHand'
      BY <1>1, <1>7, <1>17, <2>4 DEF LoopHand
    <2> QED BY <1>10, <2>4, <2>5, <2>6 DEF Course, Loop
  <1>18. CASE to = "Ok"
    <2>1. t = Gone /\ HearsB(state, v, Gone) /\ front = Gone
      BY <1>11, <1>14, <1>18, NameFacts
    <2>2. BackFits(y \o z, back)
      BY <1>1, <1>5, <1>8, <1>9, <1>15, <1>16, <2>1, BackTold
    <2>3. FrontFits(outbox["Frontend"], front)
      BY Fits
    <2>4. pc' = "Done" /\ result' = "Ok" /\ state' = state /\ result' # Running
      BY <1>6, <1>13, <1>18 DEF Running
    <2>5. Reason'
      BY <2>1, <2>4, GoodReasons
    <2> QED BY <1>1, <1>6, <2>2, <2>3, <2>4, <2>5, EndsInCourse
  <1> QED BY <1>14, <1>17, <1>18

\* A Startup that goes through leaves both peers where the loop begins.
LEMMA LoopBegins ==
    ASSUME NEW z \in Seq(Unit), IsByte(z, "Startup"), NEW p \in {"Waiting", Gone},
           NEW q \in {"Listening", Gone}
    PROVE  FrontAt(<<>>, <<>>, p, "GotStartup") /\ BackAt(<<>>, z, q, "GotStartup")
  <1>1. FrontAt(<<>>, <<>>, p, "GotStartup")
    <2> DEFINE ps == [i \in Nat |-> "Waiting"]
    <2>1. ps[0] = "Waiting" /\ 0 \in Nat
      OBVIOUS
    <2> HIDE DEF ps
    <2>2. Expects["GotStartup"] = "Waiting"
      BY ExpectsIs
    <2>3. [from |-> ps[0], to |-> ps[0]] \in HearsOn /\ [from |-> ps[0], to |-> ps[0]] \in SaysOn
      BY <2>1, OnIs DEF PlaceNames, OnByHearing, OnBySaying
    <2>4. /\ Walk(FSays, <<>>, 0, ps) /\ Stays(SaysOn, 0, ps)
          /\ Walk(FHears, <<>>, 0, ps) /\ Stays(HearsOn, 0, ps)
      BY <2>3, EmptyWalk, EmptyStays
    <2>5. p \in {ps[0], Gone} /\ ps[0] = Expects["GotStartup"]
      BY <2>1, <2>2
    <2>6. FrontWalks(<<>>, <<>>, p, "GotStartup", 0, 0, ps, ps)
      BY <2>4, <2>5, Zenon DEF FrontWalks
    <2> QED BY <2>1, <2>6, Zenon DEF FrontAt
  <1>2. BackAt(<<>>, z, q, "GotStartup")
    <2> DEFINE bs == [i \in Nat |-> "Listening"]
    <2>1. bs[0] = "Listening" /\ 0 \in Nat
      OBVIOUS
    <2> HIDE DEF bs
    <2>2. [from |-> bs[0], to |-> bs[0]] \in BackOn
      BY <2>1, OnIs DEF BackPlace, OnAsBackend
    <2>3. Walk(BSays, <<>>, 0, bs) /\ Stays(BackOn, 0, bs)
      BY <2>2, EmptyWalk, EmptyStays
    <2>4. Carries(z, "Startup") /\ "Startup" \in Body
      BY DEF IsByte, Carries, InitialBody, Body
    <2>5. Move(BHears, "Listening", "Startup", "GotStartup")
      BY <2>4, OpeningMoves, MoveIs DEF BackPlace, State
    <2>6. Link(z, bs[0], "GotStartup") /\ q \in {bs[0], Gone}
      BY <2>1, <2>4, <2>5 DEF Link
    <2>7. BackWalks(<<>>, z, q, "GotStartup", 0, bs)
      BY <2>3, <2>6, Zenon DEF BackWalks
    <2> QED BY <2>1, <2>7, Zenon DEF BackAt
  <1> QED BY <1>1, <1>2

\* What the two Initials lead to.
LEMMA InitialMoves ==
    /\ \A p, t : SaysF(p, "Startup", t) => t = "Waiting"
    /\ \A p, t : SaysF(p, "Cancel", t) => t = Gone
    /\ \A p, t : SaysF(p, "TLS", t) => p = "Begin" /\ t = "AskedTls"
    /\ \A i : OnInitial("Startup", i) = "GotStartup" /\ OnInitial("Cancel", i) = "Ok"
    /\ OnInitial("TLS", FALSE) = "ReadTlsResponse"
  <1>1. \A p, t : SaysF(p, "Startup", t) => t = "Waiting"
    BY SMTT(60) DEF SaysF, Gone
  <1>2. \A p, t : SaysF(p, "Cancel", t) => t = Gone
    BY SMTT(60) DEF SaysF, Gone
  <1>3. \A p, t : SaysF(p, "TLS", t) => p = "Begin" /\ t = "AskedTls"
    BY SMTT(60) DEF SaysF, Gone
  <1>4. /\ \A i : OnInitial("Startup", i) = "GotStartup" /\ OnInitial("Cancel", i) = "Ok"
        /\ OnInitial("TLS", FALSE) = "ReadTlsResponse"
    BY DEF OnInitial
  <1> QED BY <1>1, <1>2, <1>3, <1>4

\* An Initial that is written, the first one or the one inside TLS, keeps the course.
LEMMA InitialWritten ==
    ASSUME SInv, Course, result = Running, Opening, FirstInitial \/ SecondInitial, pc = "Write",
           Written, UNCHANGED <<wrap, inbox, eof, front, back>>
    PROVE  Course'
  <1> DEFINE enc == wrap["Backend"] = "Tls"
             z == Outgoing(hand, enc)
             x == In("Frontend")
  <1>1. TypeOK /\ GoneOnEof /\ state = NoState /\ BackListens
    BY DEF SInv, SessionTypeOK, Course, Opening, FirstInitial, SecondInitial
  <1>2. hand.side = "Frontend" /\ hand.msg = "Initial" /\ Len(hand.units) = 1
    BY DEF FirstInitial, SecondInitial, InitialInHand
  <1>3. x # <<>>
    <2>1. x = hand.units \o inbox["Frontend"] /\ hand.units \in Seq(Unit)
          /\ inbox["Frontend"] \in Seq(Unit)
      BY <1>1, <1>2, InIs, Parts DEF Side
    <2> DEFINE us == hand.units
               w == inbox["Frontend"]
    <2>2. x = us \o w /\ us \in Seq(Unit) /\ w \in Seq(Unit) /\ Len(us) = 1
      BY <1>2, <2>1
    <2> HIDE DEF x, us, w
    <2> QED BY <2>2
  <1>4. /\ outbox["Frontend"] = <<>>
        /\ \E p : /\ p = "Begin" => FirstInitial /\ hand.then = OnInitial(hand.units[1].val, FALSE)
                  /\ hand.then = OnInitial(hand.units[1].val, p # "Begin")
                  /\ \E v \in InitialBody, t \in PlaceNames :
                       IsByte(x, v) /\ Move(FSays, p, v, t) /\ front \in {t, Gone}
    <2>1. CASE FirstInitial
      <3>1. /\ outbox["Frontend"] = <<>> /\ hand.then = OnInitial(hand.units[1].val, FALSE)
            /\ \E v \in InitialBody, t \in PlaceNames :
                 IsByte(x, v) /\ Move(FSays, "Begin", v, t) /\ front \in {t, Gone}
        BY <1>3, <2>1 DEF FirstInitial, InitialInHand, FrontOpens
      <3> QED BY <2>1, <3>1
    <2>2. CASE SecondInitial
      <3>1. /\ outbox["Frontend"] = <<>> /\ hand.then = OnInitial(hand.units[1].val, TRUE)
            /\ \E v \in InitialBody, t \in PlaceNames :
                 IsByte(x, v) /\ Move(FSays, "Secured", v, t) /\ front \in {t, Gone}
        BY <1>3, <2>2 DEF SecondInitial, InitialInHand, FrontOpens, FrontGranted
      <3>2. ("Secured" # "Begin") = TRUE
        OBVIOUS
      <3> QED BY <3>1, <3>2
    <2> QED BY <2>1, <2>2
  <1>5. PICK p : /\ p = "Begin" => FirstInitial
                 /\ hand.then = OnInitial(hand.units[1].val, p # "Begin")
                 /\ \E v \in InitialBody, t \in PlaceNames :
                      IsByte(x, v) /\ Move(FSays, p, v, t) /\ front \in {t, Gone}
    BY <1>4
  <1>6. PICK v \in InitialBody, t \in PlaceNames :
            IsByte(x, v) /\ Move(FSays, p, v, t) /\ front \in {t, Gone}
    BY <1>5
  <1>7. SaysF(p, v, t)
    BY <1>6, MoveIs
  <1>8. hand.units[1].val = v /\ inbox["Frontend"] = <<>>
    BY <1>1, <1>2, <1>6, InitialAlone
  <1>9. IsByte(z, v) /\ z \in Seq(Unit)
    <2>1. enc \in BOOLEAN
      OBVIOUS
    <2> HIDE DEF enc
    <2> QED BY <1>1, <1>2, <1>8, <2>1, OutgoingIs
  <1>10. /\ outbox'["Backend"] = outbox["Backend"] \o z /\ outbox'["Frontend"] = <<>>
         /\ hand' = [hand EXCEPT !.units = <<>>]
         /\ hand.then \in State => pc' = "Select" /\ state' = hand.then /\ result' = result
         /\ hand.then = "Ok" => pc' = "Done" /\ result' = "Ok" /\ state' = state
         /\ hand.then = "ReadTlsResponse" => pc' = hand.then /\ state' = state /\ result' = result
    <2>1. Peer(hand.side) = "Backend"
      BY <1>2 DEF Peer
    <2> QED BY <1>1, <1>4, <2>1, WrittenIs DEF Side
  <1>11. /\ hand'.units = <<>> /\ In("Frontend")' = <<>>
         /\ In("Backend")' = <<>> /\ inbox["Backend"] = <<>>
    BY <1>1, <1>2, <1>8, <1>10, WrittenIn, InIs DEF Side, BackListens
  <1> HIDE DEF z, enc, x
  <1>12. outbox'["Backend"] = z
    <2>1. outbox["Backend"] = <<>>
      BY <1>1 DEF BackListens
    <2>2. <<>> \o z = z
      BY <1>9, ConcatEmptySeq
    <2> QED BY <1>10, <2>1, <2>2
  <1>13. back \in {"Listening", Gone}
    BY <1>1 DEF BackListens
  <1>14. GoneOnEof'
    BY <1>1 DEF GoneOnEof
  <1>15. CASE v = "Startup"
    <2>1. t = "Waiting" /\ hand.then = "GotStartup" /\ "GotStartup" \in State
      BY <1>5, <1>7, <1>8, <1>15, InitialMoves, NameFacts
    <2>2. FrontAt(<<>>, <<>>, front, "GotStartup") /\ BackAt(<<>>, z, back, "GotStartup")
      BY <1>6, <1>9, <1>13, <1>15, <2>1, LoopBegins
    <2>3. pc' = "Select" /\ state' = "GotStartup" /\ result' = result
      BY <1>10, <2>1
    <2>4. FrontSide' /\ BackSide'
      BY <1>10, <1>11, <1>12, <2>2, <2>3 DEF FrontSide, BackSide
    <2>5. wrap["Frontend"] # "TlsHandshake" /\ wrap["Backend"] # "TlsHandshake"
      BY DEF FirstInitial, SecondInitial, Plain
    <2>6. LoopHand'
      BY <1>11, <2>1, <2>3, <2>5 DEF LoopHand, Side
    <2> QED BY <1>14, <2>3, <2>4, <2>6 DEF Course, Loop
  <1>16. CASE v = "Cancel"
    <2>1. front = Gone /\ hand.then = "Ok"
      BY <1>5, <1>6, <1>7, <1>8, <1>16, InitialMoves
    <2>2. pc' = "Done" /\ result' = "Ok" /\ state' = state /\ result' # Running
      BY <1>10, <2>1 DEF Running
    <2>3. "Cancel" \in Body /\ Carries(z, "Cancel")
      BY <1>9, <1>16 DEF IsByte, Carries, InitialBody, Body
    <2>4. Move(BHears, "Listening", "Cancel", Gone) /\ Gone \in BackPlace
      BY <2>3, OpeningMoves, MoveIs DEF BackPlace
    <2>5. BackFits(z, back)
      BY <1>13, <2>3, <2>4 DEF BackFits
    <2>6. FrontFits(outbox'["Frontend"], front)
      BY <2>1 DEF FrontFits
    <2>7. Reason'
      BY <2>1, <2>2, GoodReasons
    <2> QED BY <1>1, <1>12, <2>2, <2>5, <2>6, <2>7, EndsInCourse
  <1>17. CASE v = "TLS"
    <2>1. p = "Begin" /\ t = "AskedTls"
      BY <1>7, <1>17, InitialMoves
    <2>2. FirstInitial /\ hand.then = "ReadTlsResponse"
      <3>1. (p # "Begin") = FALSE
        BY <2>1
      <3> QED BY <1>5, <1>8, <1>17, <2>1, <3>1, InitialMoves
    <2>3. pc' = "ReadTlsResponse" /\ state' = NoState /\ result' = result
      BY <1>1, <1>10, <2>2
    <2>4. FrontAwaits'
      BY <1>6, <1>10, <1>11, <2>1 DEF FrontAwaits
    <2>5. TlsAsked'
      BY <1>9, <1>11, <1>12, <1>13, <1>17, <2>2, <2>3, <2>4 DEF TlsAsked, FirstInitial, Plain
    <2> QED BY <1>14, <2>3, <2>5 DEF Course, Opening
  <1> QED BY <1>15, <1>16, <1>17 DEF InitialBody

\* An error in answer to the request for TLS goes through and ends the session.
LEMMA TlsErrorWritten ==
    ASSUME SInv, Course, result = Running, Opening, TlsFailed, pc = "Write", Written,
           UNCHANGED <<wrap, inbox, eof, front, back>>
    PROVE  Course'
  <1> DEFINE enc == wrap["Frontend"] = "Tls"
             z == Outgoing(hand, enc)
             x == In("Backend")
  <1>1. TypeOK /\ GoneOnEof /\ state = NoState
    BY DEF SInv, SessionTypeOK, Course, Opening
  <1>2. /\ hand.side = "Backend" /\ hand.msg = "ErrorResponse" /\ hand.then = "Ok"
        /\ Len(hand.units) = 2 /\ FrontAwaits /\ IsError(x) /\ back = Gone
    BY DEF TlsFailed
  <1>3. x[2] = hand.units[2]
    BY <1>1, <1>2, MessageInHand
  <1>4. MsgOf("ErrorResponse") = "ErrorResponse" /\ "ErrorResponse" \in Talk
    BY TalkFacts DEF MsgOf, InitialBody, AuthenticationBody
  <1>5. IsTalk(z, "ErrorResponse") /\ z \in Seq(Unit)
    <2>1. enc \in BOOLEAN
      OBVIOUS
    <2>2. hand.units[2].val = "ErrorResponse" /\ hand.units[2].quality = "ok"
      BY <1>2, <1>3 DEF IsError
    <2> HIDE DEF enc
    <2> QED BY <1>1, <1>2, <1>4, <2>1, <2>2, OutgoingIs
  <1>6. /\ outbox'["Frontend"] = outbox["Frontend"] \o z
        /\ outbox'["Backend"] = outbox["Backend"]
        /\ pc' = "Done" /\ result' = "Ok" /\ state' = state
    <2>1. Peer(hand.side) = "Frontend"
      BY <1>2 DEF Peer
    <2> QED BY <1>1, <1>2, <2>1, WrittenIs DEF Side
  <1> HIDE DEF z, enc, x
  <1>7. FrontFits(outbox'["Frontend"], front)
    <2>1. outbox["Frontend"] = <<>> /\ front \in {"AskedTls", Gone}
      BY <1>2 DEF FrontAwaits
    <2> DEFINE ps == [i \in Nat |-> "AskedTls"]
               us == Then1(ps, 0, Gone)
    <2>2. ps[0] = "AskedTls" /\ us[0] = ps[0] /\ 0 + 1 \in Nat /\ 0 \in Nat
      BY DEF Then1
    <2> HIDE DEF ps, us
    <2>3. Walk(FHears, <<>>, 0, ps) /\ <<>> \in Seq(Unit)
      BY EmptyWalk
    <2>4. Move(FHears, ps[0], "ErrorResponse", Gone)
      <3>1. HearsF("AskedTls", "ErrorResponse", Gone)
        BY DEF HearsF
      <3> QED BY <1>4, <2>2, <3>1, MoveIs, TalkFacts DEF PlaceNames
    <2>5. Walk(FHears, <<>> \o z, 0 + 1, us)
      BY <1>5, <2>2, <2>3, <2>4, WalkOn DEF us
    <2>6. Walk(FHears, outbox'["Frontend"], 0 + 1, us)
      BY <1>6, <2>1, <2>5
    <2>7. front = Gone \/ front = us[0]
      BY <2>1, <2>2
    <2> QED BY <2>2, <2>6, <2>7, Zenon DEF FrontFits
  <1>8. BackFits(outbox'["Backend"], back)
    BY <1>2 DEF BackFits
  <1>9. Reason' /\ result' # Running
    BY <1>2, <1>6, GoodReasons DEF Running
  <1> QED BY <1>1, <1>6, <1>7, <1>8, <1>9, EndsInCourse

\* That TLS is supported is written.
LEMMA TlsAnswerWritten ==
    ASSUME SInv, Course, result = Running, Opening, TlsGranted, pc = "Write", Written,
           UNCHANGED <<wrap, inbox, eof, front, back>>
    PROVE  Course'
  <1> DEFINE enc == wrap["Frontend"] = "Tls"
             z == Outgoing(hand, enc)
  <1>1. TypeOK /\ GoneOnEof /\ state = NoState
    BY DEF SInv, SessionTypeOK, Course, Opening
  <1>2. /\ hand.side = "Backend" /\ hand.msg = TlsResponse /\ hand.then = "SwitchFrontend"
        /\ FrontAwaits /\ inbox["Backend"] = <<>> /\ outbox["Backend"] = <<>>
        /\ back \in {"Listening", Gone} /\ Plain("Frontend") /\ wrap["Backend"] # "TlsHandshake"
    BY DEF TlsGranted
  <1>3. IsByte(z, TLS_SUPPORTED) /\ z \in Seq(Unit)
    <2>1. enc \in BOOLEAN
      OBVIOUS
    <2> HIDE DEF enc
    <2> QED BY <1>1, <1>2, <2>1, OutgoingIs
  <1>4. /\ outbox'["Frontend"] = outbox["Frontend"] \o z
        /\ outbox'["Backend"] = outbox["Backend"]
        /\ hand' = [hand EXCEPT !.units = <<>>]
        /\ pc' = "SwitchFrontend" /\ result' = result /\ state' = state
    <2>1. Peer(hand.side) = "Frontend"
      BY <1>2 DEF Peer
    <2> QED BY <1>1, <1>2, <2>1, WrittenIs DEF Side
  <1>5. hand'.units = <<>> /\ In("Backend")' = <<>> /\ In("Frontend")' = In("Frontend")
    BY <1>1, <1>2, <1>4, WrittenIn DEF Side
  <1> HIDE DEF z, enc
  <1>6. outbox'["Frontend"] = z
    <2>1. outbox["Frontend"] = <<>>
      BY <1>2 DEF FrontAwaits
    <2>2. <<>> \o z = z
      BY <1>3, ConcatEmptySeq
    <2> QED BY <1>4, <2>1, <2>2
  <1>7. FrontGranted' /\ BackListens'
    BY <1>2, <1>3, <1>4, <1>5, <1>6 DEF FrontGranted, FrontAwaits, BackListens
  <1>8. TlsTold'
    BY <1>2, <1>4, <1>5, <1>7 DEF TlsTold, Plain
  <1>9. GoneOnEof'
    BY <1>1 DEF GoneOnEof
  <1> QED BY <1>1, <1>4, <1>8, <1>9 DEF Course, Opening

\* Every write keeps the course.
LEMMA WriteCourse ==
    ASSUME SInv, Course, Write, UNCHANGED <<front, back>>
    PROVE  Course'
  <1>1. pc = "Write" /\ UNCHANGED <<wrap, inbox, eof>>
    BY DEF Write
  <1>2. result = Running /\ (Opening \/ Loop) /\ TypeOK
    BY <1>1 DEF Course, Ended, SInv, SessionTypeOK
  <1>3. CASE Written /\ Loop
    <2>1. hand.side \in {"Frontend", "Backend"}
      BY <1>2, Parts DEF Side
    <2> QED BY <1>1, <1>2, <1>3, <2>1, FrontendWritten, BackendWritten
  <1>4. CASE Written /\ Opening
    <2>1. FirstInitial \/ SecondInitial \/ TlsFailed \/ TlsGranted
      BY <1>1, <1>4 DEF Opening, TlsAsked, TlsTold
    <2> QED BY <1>1, <1>2, <1>4, <2>1, InitialWritten, TlsErrorWritten, TlsAnswerWritten
  <1> QED BY <1>2, <1>3, <1>4, WriteGoes

\* The answer to the request for TLS keeps the course, whichever it is.
LEMMA ReadTlsResponseCourse ==
    ASSUME SInv, Course, ReadTlsResponse, UNCHANGED <<front, back>>
    PROVE  Course'
  <1> DEFINE x == inbox["Backend"]
             u == Head(x)
             b == HeadByte("Backend")
  <1>1. /\ pc = "ReadTlsResponse" /\ Readable("Backend")
        /\ UNCHANGED <<state, wrap, eof, outbox>>
    BY DEF ReadTlsResponse
  <1>2. /\ result = Running /\ GoneOnEof /\ TypeOK /\ state = NoState /\ TlsAsked
    BY <1>1 DEF Course, Ended, SInv, SessionTypeOK, Opening, FirstInitial, SecondInitial,
       TlsFailed, TlsGranted, TlsTold, InitialInHand, Loop, LoopHand
  <1>3. hand.units = <<>> /\ Plain("Frontend") /\ Plain("Backend") /\ FrontAwaits
    BY <1>2 DEF TlsAsked
  <1>4. CASE Fails("Backend")
    <2>1. Finish(Failure("Backend")) /\ ~Disrupted("Backend")
      BY <1>3, <1>4 DEF ReadTlsResponse, Disrupted, Plain
    <2> QED BY <1>1, <1>2, <1>4, <2>1, FailsCourse DEF Side
  <1>5. CASE ~Fails("Backend")
    <2>1. x # <<>> /\ Pop("Backend") /\ "Backend" \in Side
      BY <1>5 DEF ReadTlsResponse, Fails, Side
    <2>2. /\ outbox["Backend"] = <<>>
          /\ \/ /\ \E c \in {TLS_SUPPORTED, TLS_NOT_SUPPORTED} : IsByte(x, c)
                /\ back \in {"Listening", Gone}
             \/ IsError(x) /\ back = Gone
      BY <1>2, <2>1 DEF TlsAsked
    <2>3. /\ u = x[1] /\ u \in Unit /\ x = <<u>> \o inbox'["Backend"]
          /\ inbox'["Backend"] \in Seq(Unit) /\ inbox'["Frontend"] = inbox["Frontend"]
      BY <1>2, <2>1, PopIs DEF Side
    <2>4. b = u.val /\ u.val \in {"S", "N", "E"}
      <3>1. u.val \in {"S", "N", "E"}
        BY <2>2, <2>3, MsgFacts DEF IsByte, IsError, TLS_SUPPORTED, TLS_NOT_SUPPORTED
      <3> QED BY <3>1 DEF HeadByte, Byte, TypeByte
    <2>5. TypeByteOf["ErrorResponse"] = "E"
      BY MsgFacts
    <2>6. b \in {"S", "N"} =>
              /\ pc' \in {"Write", "SwitchBackend"} /\ result' = result
              /\ hand' = Hold("Backend", TlsResponse, <<u>>, "SwitchFrontend")
      <3>1. CASE b = "S"
        BY <1>5, <2>5, <3>1 DEF ReadTlsResponse, TLS_SUPPORTED, TLS_NOT_SUPPORTED
      <3>2. CASE b = "N"
        BY <1>5, <2>5, <3>2 DEF ReadTlsResponse, TLS_SUPPORTED, TLS_NOT_SUPPORTED
      <3> QED BY <3>1, <3>2
    <2>7. b = "E" =>
              /\ pc' = "ReadMsg" /\ result' = result
              /\ hand' = Hold("Backend", "ErrorResponse", <<u>>, "Ok")
      BY <1>5, <2>5 DEF ReadTlsResponse, TLS_SUPPORTED, TLS_NOT_SUPPORTED
    <2>8. In("Frontend")' = In("Frontend")
      <3>1. In("Frontend") = inbox["Frontend"]
        BY <1>2, <1>3, InIs DEF Side
      <3>2. ASSUME hand'.side = "Backend" PROVE In("Frontend")' = inbox'["Frontend"]
        BY <3>2 DEF In
      <3>3. hand'.side = "Backend"
        BY <2>4, <2>6, <2>7 DEF Hold
      <3> QED BY <2>3, <3>1, <3>2, <3>3
    <2>9. FrontAwaits'
      BY <1>1, <1>3, <2>8 DEF FrontAwaits
    <2>10. GoneOnEof'
      BY <1>1, <1>2 DEF GoneOnEof
    <2>11. CASE b \in {"S", "N"}
      <3>1. /\ pc' \in {"Write", "SwitchBackend"} /\ result' = result
            /\ hand' = Hold("Backend", TlsResponse, <<u>>, "SwitchFrontend")
        BY <2>11, <2>6
      <3>2. /\ hand'.side = "Backend" /\ hand'.msg = TlsResponse
            /\ hand'.then = "SwitchFrontend" /\ hand'.units = <<u>>
        BY <3>1 DEF Hold
      <3>3. ~IsError(x)
        BY <2>3, <2>4, <2>11, MsgFacts DEF IsError
      <3>4. Len(x) = 1 /\ back \in {"Listening", Gone}
        BY <2>2, <3>3 DEF IsByte
      <3> HIDE DEF x, u, b
      <3>5. inbox'["Backend"] = <<>> /\ Len(hand'.units) = 1
        <4> DEFINE w == inbox'["Backend"]
        <4>1. w \in Seq(Unit) /\ Len(<<u>> \o w) = 1 /\ <<u>> \in Seq(Unit)
          BY <2>3, <3>4
        <4> HIDE DEF w
        <4>2. w = <<>>
          BY <4>1
        <4> QED BY <3>2, <4>2 DEF w
      <3>6. TlsGranted'
        BY <1>1, <1>3, <2>2, <2>9, <3>1, <3>2, <3>4, <3>5 DEF TlsGranted, Plain
      <3> QED BY <1>1, <1>2, <2>10, <3>1, <3>6 DEF Course, Opening
    <2>12. CASE b = "E"
      <3>1. /\ pc' = "ReadMsg" /\ result' = result
            /\ hand' = Hold("Backend", "ErrorResponse", <<u>>, "Ok")
        BY <2>12, <2>7
      <3>2. /\ hand'.side = "Backend" /\ hand'.msg = "ErrorResponse"
            /\ hand'.then = "Ok" /\ hand'.units = <<u>>
        BY <3>1 DEF Hold
      <3>3. IsError(x) /\ back = Gone
        BY <2>2, <2>3, <2>4, <2>12 DEF IsByte, TLS_SUPPORTED, TLS_NOT_SUPPORTED
      <3>4. Len(hand'.units) = 1
        BY <3>2
      <3>5. In("Backend")' = x
        BY <2>3, <3>2 DEF In
      <3>6. IsError(In("Backend")')
        BY <3>3, <3>5
      <3> HIDE DEF x, u, b
      <3>7. TlsFailed'
        BY <1>1, <1>3, <2>2, <2>9, <3>1, <3>2, <3>3, <3>4, <3>6 DEF TlsFailed, Plain, IsError
      <3> QED BY <1>1, <1>2, <2>10, <3>1, <3>7 DEF Course, Opening
    <2> QED BY <2>4, <2>11, <2>12
  <1> QED BY <1>4, <1>5

\* A handshake that begins keeps the course.
LEMMA SwitchToTlsCourse ==
    ASSUME SInv, Course, NEW s \in Side, SwitchToTls(s), UNCHANGED <<front, back>>
    PROVE  Course'
  <1>1. /\ pc = (IF s = "Backend" THEN "SwitchBackend" ELSE "SwitchFrontend")
        /\ UNCHANGED <<state, inbox, eof, outbox, hand>>
    BY DEF SwitchToTls
  <1>2. /\ result = Running /\ GoneOnEof /\ TypeOK /\ state = NoState
        /\ IF s = "Backend" THEN TlsGranted ELSE TlsTold
    BY <1>1 DEF Course, Ended, SInv, SessionTypeOK, Opening, FirstInitial, SecondInitial,
       TlsAsked, TlsFailed, TlsGranted, TlsTold, InitialInHand, Loop, LoopHand
  <1>3. wrap[s] = "Plain" /\ wrap \in [Side -> Wrap]
    BY <1>1, <1>2, Parts DEF TlsGranted, TlsTold, Plain, Side
  <1>4. /\ wrap' = [wrap EXCEPT ![s] = "TlsHandshake"] /\ result' = result
        /\ pc' = IF s = "Backend" THEN "AwaitBackend" ELSE "AwaitFrontend"
    BY <1>3 DEF SwitchToTls
  <1>5. In("Frontend")' = In("Frontend") /\ In("Backend")' = In("Backend") /\ GoneOnEof'
    BY <1>1, <1>2 DEF In, GoneOnEof
  <1>6. CASE s = "Backend"
    <2>1. wrap'["Backend"] = "TlsHandshake" /\ wrap'["Frontend"] = wrap["Frontend"]
      BY <1>3, <1>4, <1>6 DEF Side
    <2>2. TlsGranted'
      BY <1>1, <1>2, <1>4, <1>5, <1>6, <2>1 DEF TlsGranted, FrontAwaits, Plain
    <2> QED BY <1>1, <1>2, <1>4, <1>5, <2>2 DEF Course, Opening
  <1>7. CASE s = "Frontend"
    <2>1. wrap'["Frontend"] = "TlsHandshake" /\ wrap'["Backend"] = wrap["Backend"]
      BY <1>3, <1>4, <1>7 DEF Side
    <2>2. TlsTold'
      BY <1>1, <1>2, <1>4, <1>5, <1>7, <2>1 DEF TlsTold, FrontGranted, BackListens, Plain
    <2> QED BY <1>1, <1>2, <1>4, <1>5, <2>2 DEF Course, Opening
  <1> QED BY <1>6, <1>7 DEF Side

\* A handshake that ends, one way or the other, keeps the course.
LEMMA AwaitTlsCourse ==
    ASSUME SInv, Course, NEW s \in Side, AwaitTls(s), UNCHANGED <<front, back>>
    PROVE  Course'
  <1>1. /\ pc = (IF s = "Backend" THEN "AwaitBackend" ELSE "AwaitFrontend")
        /\ UNCHANGED <<state, inbox, eof, outbox>>
    BY DEF AwaitTls
  <1>2. /\ result = Running /\ GoneOnEof /\ TypeOK /\ state = NoState /\ Opening
        /\ IF s = "Backend" THEN TlsGranted ELSE TlsTold
    BY <1>1 DEF Course, Ended, SInv, SessionTypeOK, Opening, FirstInitial, SecondInitial,
       TlsAsked, TlsFailed, TlsGranted, TlsTold, InitialInHand, Loop, LoopHand
  <1>3. wrap[s] = "TlsHandshake" /\ wrap \in [Side -> Wrap]
    BY <1>1, <1>2, Parts DEF TlsGranted, TlsTold, Side
  <1>4. GoneOnEof'
    BY <1>1, <1>2 DEF GoneOnEof
  <1>5. CASE Finish("Panicked") /\ UNCHANGED <<wrap, hand>>
    <2>1. pc' = "Done" /\ result' = "Panicked" /\ result' # Running
      BY <1>5 DEF Finish, Running
    <2>2. Reason'
      BY <1>3, <1>5, <2>1, GoodReasons
    <2>3. FrontFits(outbox["Frontend"], front) /\ BackFits(outbox["Backend"], back)
      BY <1>2, Fits
    <2> QED BY <1>1, <1>2, <2>1, <2>2, <2>3, EndsInCourse
  <1>6. CASE ~(Finish("Panicked") /\ UNCHANGED <<wrap, hand>>)
    <2>1. wrap' = [wrap EXCEPT ![s] = "Tls"] /\ result' = result
      BY <1>3, <1>6 DEF AwaitTls
    <2>2. CASE s = "Backend"
      <3>1. pc' = "Write" /\ hand' = hand
        BY <1>3, <1>6, <2>2 DEF AwaitTls
      <3>2. wrap'["Backend"] = "Tls" /\ wrap'["Frontend"] = wrap["Frontend"]
        BY <1>3, <2>1, <2>2 DEF Side
      <3>3. In("Frontend")' = In("Frontend")
        BY <1>1, <3>1 DEF In
      <3>4. TlsGranted'
        BY <1>1, <1>2, <2>2, <3>1, <3>2, <3>3 DEF TlsGranted, FrontAwaits, Plain
      <3> QED BY <1>1, <1>2, <1>4, <2>1, <3>4 DEF Course, Opening
    <2>3. CASE s = "Frontend"
      <3>1. pc' = "ReadMsg" /\ hand' = Hold("Frontend", "Initial", <<>>, FirstInTls)
        BY <1>3, <1>6, <2>3 DEF AwaitTls
      <3>2. /\ hand'.side = "Frontend" /\ hand'.msg = "Initial" /\ hand'.units = <<>>
            /\ hand'.then = FirstInTls
        BY <3>1 DEF Hold
      <3>3. wrap'["Frontend"] = "Tls" /\ wrap'["Backend"] = wrap["Backend"]
        BY <1>3, <2>1, <2>3 DEF Side
      <3>4. hand.units = <<>> /\ FrontGranted /\ BackListens /\ wrap["Backend"] # "TlsHandshake"
        BY <1>2, <2>3 DEF TlsTold
      <3>5. \A t \in Side : In(t) = inbox[t] /\ inbox[t] \in Seq(Unit)
        BY <1>2, <3>4, InIs, Parts
      <3>6. \A t \in Side : In(t)' = inbox[t]
        <4>1. \A t \in Side : <<>> \o inbox[t] = inbox[t]
          BY <3>5, ConcatEmptySeq
        <4> QED BY <1>1, <3>2, <4>1 DEF In
      <3>7. In("Frontend")' = In("Frontend") /\ In("Backend")' = In("Backend")
        BY <3>5, <3>6 DEF Side
      <3>8. FrontGranted' /\ BackListens'
        BY <1>1, <3>4, <3>7 DEF FrontGranted, BackListens
      <3>9. SecondInitial'
        BY <3>1, <3>2, <3>3, <3>4, <3>8 DEF SecondInitial, InitialInHand
      <3> QED BY <1>1, <1>2, <1>4, <2>1, <3>9 DEF Course, Opening
    <2> QED BY <2>2, <2>3 DEF Side
  <1> QED BY <1>5, <1>6

\* A step that changes nothing keeps the course.
LEMMA NothingChanges ==
    ASSUME Course, UNCHANGED sessionVars
    PROVE  Course'
  <1>1. UNCHANGED <<pc, state, wrap, inbox, eof, outbox, hand, told, result, front, back>>
    BY DEF sessionVars
  <1>2. GoneOnEof => GoneOnEof'
    BY <1>1 DEF GoneOnEof
  <1>3. In("Frontend")' = In("Frontend") /\ In("Backend")' = In("Backend")
    BY <1>1 DEF In
  <1>4. Loop => Loop'
    <2>1. LoopHand => LoopHand'
      BY <1>1 DEF LoopHand
    <2> QED BY <1>1, <1>3, <2>1 DEF Loop, FrontSide, BackSide
  <1>5. Opening => Opening'
    <2>1. /\ BackListens => BackListens'
          /\ FrontAwaits => FrontAwaits'
          /\ FrontGranted => FrontGranted'
      BY <1>1, <1>3 DEF BackListens, FrontAwaits, FrontGranted
    <2>2. \A p : FrontOpens(p) => FrontOpens(p)'
      BY <1>1, <1>3 DEF FrontOpens
    <2>3. \A then, i : InitialInHand(then, i) => InitialInHand(then, i)'
      BY <1>1 DEF InitialInHand
    <2>4. FirstInitial => FirstInitial'
      BY <1>1, <2>1, <2>2, <2>3 DEF FirstInitial, Plain
    <2>5. SecondInitial => SecondInitial'
      BY <1>1, <2>1, <2>2, <2>3 DEF SecondInitial
    <2>6. TlsAsked => TlsAsked'
      BY <1>1, <2>1 DEF TlsAsked, Plain
    <2>7. TlsFailed => TlsFailed'
      BY <1>1, <1>3, <2>1 DEF TlsFailed, Plain, IsError
    <2>8. (TlsGranted => TlsGranted') /\ (TlsTold => TlsTold')
      BY <1>1, <2>1 DEF TlsGranted, TlsTold, Plain
    <2> QED BY <1>1, <2>4, <2>5, <2>6, <2>7, <2>8 DEF Opening
  <1>6. Ended => Ended'
    <2>1. Reason => Reason'
      BY <1>1, ReasonStays
    <2> QED BY <1>1, <2>1 DEF Ended
  <1> QED BY <1>1, <1>2, <1>4, <1>5, <1>6 DEF Course

\* Every step of a session keeps the course.
LEMMA NextCourse ==
    ASSUME SInv, Course, [SessionNext]_sessionVars
    PROVE  Course'
  <1>1. CASE Convey
    <2>1. Step /\ UNCHANGED <<front, back>>
      BY <1>1 DEF Convey
    <2>2. CASE PollBackend
      BY <2>1, <2>2, PollCourse DEF PollBackend, Side
    <2>3. CASE PollFrontend
      BY <2>1, <2>3, PollCourse DEF PollFrontend, Side
    <2>4. CASE \E s \in Side : SwitchToTls(s) \/ AwaitTls(s)
      BY <2>1, <2>4, SwitchToTlsCourse, AwaitTlsCourse
    <2> QED BY <2>1, <2>2, <2>3, <2>4, ReadMsgCourse, WriteCourse, ReadTlsResponseCourse,
               WakeCourse DEF Step
  <1>2. CASE UNCHANGED sessionVars
    BY <1>2, NothingChanges
  <1> QED BY <1>1, <1>2, FrontendSendCourse, FrontendReceiveCourse, BackendSendCourse,
             BackendReceiveCourse, VanishCourse DEF SessionNext, Over

\* A session begins on its course.
LEMMA InitCourse ==
    ASSUME SessionInit
    PROVE  Course
  <1>1. /\ pc = "ReadMsg" /\ state = NoState /\ result = Running
        /\ wrap = [s \in Side |-> "Plain"] /\ inbox = [s \in Side |-> <<>>]
        /\ eof = [s \in Side |-> FALSE] /\ outbox = [s \in Side |-> <<>>]
        /\ hand.side = "Frontend" /\ hand.msg = "Initial" /\ hand.units = <<>>
        /\ hand.then = First /\ front = "Begin" /\ back = "Listening"
    BY DEF SessionInit, Init, Hold
  <1>2. /\ inbox["Frontend"] = <<>> /\ inbox["Backend"] = <<>>
        /\ outbox["Frontend"] = <<>> /\ outbox["Backend"] = <<>>
        /\ Plain("Frontend") /\ Plain("Backend") /\ GoneOnEof
    BY <1>1 DEF Side, Plain, GoneOnEof
  <1>3. In("Frontend") = <<>> /\ In("Backend") = <<>>
    <2>1. <<>> \o <<>> = <<>>
      OBVIOUS
    <2> QED BY <1>1, <1>2, <2>1 DEF In
  <1>4. FirstInitial
    BY <1>1, <1>2, <1>3 DEF FirstInitial, InitialInHand, FrontOpens, BackListens
  <1> QED BY <1>1, <1>2, <1>4 DEF Course, Opening

(***************************************************************************)
(* The inductive invariant: a session keeps its types and its course,      *)
(* whatever ways of the protocol its peers use.                            *)
(***************************************************************************)
THEOREM OnCourse == Spec => [](SInv /\ Course)
  <1>1. SessionInit => SInv /\ Course
    <2>1. ASSUME SessionInit PROVE TypeOK /\ InHand
      BY <2>1, InitTypes DEF SessionInit
    <2>2. "Begin" \in Places /\ 0 \in 0 .. MaxChatter
      BY PlacesNamed, ChatterAssumption DEF PlaceNames
    <2>3. SessionInit => SInv
      BY <2>1, <2>2 DEF SessionInit, SInv, SessionTypeOK
    <2> QED BY <2>3, InitCourse
  <1>2. SInv /\ Course /\ [SessionNext]_sessionVars => (SInv /\ Course)'
    BY NextTypes, NextCourse
  <1> QED BY <1>1, <1>2, PTL DEF Spec

-----------------------------------------------------------------------------
(***************************************************************************)
(* What follows.                                                           *)
(***************************************************************************)

(***************************************************************************)
(* go() writes to each peer only what the peer hears next, for as long as  *)
(* anything is left to be heard, the end of the session included, and      *)
(* however many messages are under way: read_through and the match of go() *)
(* put no message out of turn.                                             *)
(***************************************************************************)
THEOREM WrittenFits == Spec => []Fitting
  <1>1. ASSUME SInv, Course
        PROVE  Fitting
    <2>1. TypeOK /\ FrontFits(outbox["Frontend"], front) /\ BackFits(outbox["Backend"], back)
      BY <1>1, Fits DEF Course, Ended, SInv, SessionTypeOK
    <2>2. ASSUME outbox["Frontend"] # <<>>, front # Gone
          PROVE  \E m \in FrontendHears : m.from = front /\ m.say = Arrived("Frontend")
      <3> DEFINE y == outbox["Frontend"]
      <3>1. y \in Seq(Unit)
        BY <2>1, Parts DEF Side
      <3>2. CASE front = "AskedTls" /\ Len(y) = 1 /\ y[1].val = TLS_SUPPORTED
        <4>1. Arrived("Frontend") = TLS_SUPPORTED
          BY <3>2 DEF Arrived
        <4>2. HearsF(front, Arrived("Frontend"), "Secured")
          BY <3>2, <4>1 DEF HearsF, TLS_SUPPORTED
        <4> QED BY <2>2, <4>2, FrontendHeard
      <3>3. ASSUME NEW n \in Nat, NEW ps, Walk(FHears, y, n, ps), front = ps[0]
            PROVE  \E m \in FrontendHears : m.from = front /\ m.say = Arrived("Frontend")
        <4>1. n > 0
          BY <2>2, <3>1, <3>3, NoWalk
        <4>2. /\ Len(y) \in Nat /\ Len(y) >= 2
              /\ y[1].val = TypeByteOf[MsgOf(y[2].val)] /\ y[2].val \in Talk
              /\ Move(FHears, ps[0], y[2].val, ps[1])
          BY <3>1, <3>3, <4>1, WalkBegins
        <4>3. y[1].val \in Byte /\ Len(y) > 1
          BY <4>2, TalkFacts DEF Byte
        <4>4. Arrived("Frontend") = y[2].val
          BY <4>3 DEF Arrived
        <4>5. HearsF(front, Arrived("Frontend"), ps[1])
          BY <3>3, <4>2, <4>4, MoveIs
        <4> QED BY <2>2, <4>5, FrontendHeard
      <3> QED BY <2>1, <2>2, <3>2, <3>3, Zenon DEF FrontFits
    <2>3. ASSUME outbox["Backend"] # <<>>, back # Gone
          PROVE  \E m \in BackendHears : m.from = back /\ m.say = Arrived("Backend")
      <3> DEFINE y == outbox["Backend"]
      <3>1. PICK f \in Body, t \in BackPlace : Carries(y, f) /\ Move(BHears, back, f, t)
        BY <2>1, <2>3 DEF BackFits
      <3>2. Arrived("Backend") = f
        <4>1. CASE Len(y) = 1 /\ y[1].val = f
          BY <4>1 DEF Arrived
        <4>2. CASE IsTalk(y, f)
          <5>1. y[1].val \in Byte /\ Len(y) > 1 /\ y[2].val = f
            BY <4>2, TalkFacts DEF IsTalk, Byte
          <5> QED BY <5>1 DEF Arrived
        <4> QED BY <3>1, <4>1, <4>2 DEF Carries
      <3>3. HearsB(back, Arrived("Backend"), t)
        BY <3>1, <3>2, MoveIs
      <3> QED BY <3>3, BackendHeard
    <2> QED BY <2>2, <2>3 DEF Fitting
  <1> QED BY <1>1, OnCourse, PTL

(***************************************************************************)
(* Whatever the peers do beyond the repository's tests, of what Ways add,  *)
(* the match of go() refuses them for that alone, and Ok comes only when a *)
(* peer is gone or the backend answers Sync: every other session ends as   *)
(* its peers end it.                                                       *)
(***************************************************************************)
THEOREM RefusedOnlyForThat == Spec => []RefusedForThat
  <1>1. ASSUME SInv, Course
        PROVE  RefusedForThat
    BY <1>1 DEF Course, Ended, Reason, RefusedForThat, Understood, EndedRightly, Running
  <1> QED BY <1>1, OnCourse, PTL

(***************************************************************************)
(* Peers that speak as the repository's tests do are understood: go() ends *)
(* such a session with Ok, after one of them hung up, in a TLS handshake   *)
(* that the provider refused, or with Unsupported once the backend asked   *)
(* for KerberosV5 or an SCM credential, as auth_kerberos_unsupported and   *)
(* auth_scm_credential_unsupported want it; it refuses nothing else.  A    *)
(* backend that reports an error on Sync does not change that.             *)
(***************************************************************************)
THEOREM AlwaysUnderstood ==
    ASSUME Ways \subseteq {"LateError"}
    PROVE  Spec => []Understood
  <1>1. ASSUME SInv, Course
        PROVE  Understood
    BY <1>1 DEF Course, Ended, Reason, Understood, Excused
  <1> QED BY <1>1, OnCourse, PTL

(***************************************************************************)
(* The local `state` of go() is kept from the backend's point of view:     *)
(* whenever nothing is under way, it is where the backend is.              *)
(***************************************************************************)
THEOREM StatesAgree == Spec => []Agreement
  <1>1. ASSUME SInv, Course
        PROVE  Agreement
    <2>1. SUFFICES ASSUME Quiet, back # Gone
                   PROVE  state = back
      BY DEF Agreement
    <2>2. Loop /\ TypeOK /\ hand.units = <<>> /\ state \in State
      BY <1>1, <2>1 DEF Quiet, Course, Ended, Opening, FirstInitial, SecondInitial, TlsAsked,
         TlsFailed, TlsGranted, TlsTold, InitialInHand, Loop, LoopHand, SInv, SessionTypeOK
    <2>3. In("Backend") = <<>> /\ outbox["Backend"] = <<>> /\ In("Backend") \in Seq(Unit)
      BY <2>1, <2>2, InIs DEF Quiet, Side
    <2>4. BackAt(<<>>, <<>>, back, state) /\ <<>> \in Seq(Unit)
      BY <2>2, <2>3 DEF Loop, BackSide
    <2>5. PICK n \in Nat : \E bs : BackWalks(<<>>, <<>>, back, state, n, bs)
      BY <2>4, Zenon DEF BackAt
    <2>6. PICK bs : Walk(BSays, <<>>, n, bs) /\ back \in {bs[n], Gone} /\ Link(<<>>, bs[0], state)
      BY <2>5, Zenon DEF BackWalks
    <2>7. n = 0
      BY <2>4, <2>6, NoWalk
    <2>8. \A f : ~Carries(<<>>, f)
      BY DEF Carries, IsTalk
    <2> QED BY <2>1, <2>6, <2>7, <2>8 DEF Link
  <1> QED BY <1>1, OnCourse, PTL
=============================================================================
