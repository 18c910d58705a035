------------------------------ MODULE Session -------------------------------
(***************************************************************************)
(* A whole session: the conveyor between a frontend and a backend that     *)
(* follow the protocol as the repository's tests play it                   *)
(* (convey/tests/protocol.rs), consume what they are sent, and may vanish  *)
(* at any time.  Sessions are unbounded: any number of queries and of      *)
(* authentication rounds.  "Ways" adds what the tests do not play, though  *)
(* the protocol's documentation, which README.md refers to, allows it.     *)
(***************************************************************************)
EXTENDS Conveyor

CONSTANTS
    MaxChatter,  \* messages a backend sends at most beyond those its answer needs
    Ways         \* in which the peers go beyond the repository's tests:
                 \*   Sync        a failed Parse or Bind is followed by Sync, and ReadyForQuery
                 \*               comes only then; Sync may come with nothing executed
                 \*   Pipelining  a Parse, Bind, Execute or Sync does not wait for the answer
                 \*               to the one before it, only for those before that
                 \*   Batching    Parse, Bind, Execute and Sync all go before the first answer;
                 \*               only what follows a Sync waits
                 \*   Parameters  a ParameterStatus may come whenever a session is authenticated
                 \*   LateError   what Sync commits may fail, before ReadyForQuery

ASSUME ChatterAssumption == MaxChatter \in Nat
ASSUME WaysAssumption ==
    Ways \subseteq {"Sync", "Pipelining", "Batching", "Parameters", "LateError"}
\* Who sends ahead of the answers needs the Sync after a failure, which ends what is skipped.
ASSUME PipeliningAssumption == "Pipelining" \in Ways => "Sync" \in Ways
ASSUME BatchingAssumption == "Batching" \in Ways => "Pipelining" \in Ways

VARIABLES
    front,   \* where the frontend is
    back,    \* where the backend is, in the terms of State
    chatter  \* what the backend said beyond need since it last heard something

sessionVars == <<pc, state, wrap, inbox, eof, outbox, hand, told, result, front, back, chatter>>

Gone == "Gone"

-----------------------------------------------------------------------------
(***************************************************************************)
(* The two peers (external), as sets of moves from one place to another.   *)
(***************************************************************************)
Moves(from, say, to) == [from : from, say : say, to : {to}]
Remains(places, say) ==
    {m \in [from : places, say : {say}, to : places] : m.from = m.to}
Only(w, moves) == IF w \in Ways THEN moves ELSE {}

FrontendSays ==
         Moves({"Begin"}, {"TLS"}, "AskedTls")
    \cup Moves({"Begin", "Secured"}, {"Startup"}, "Waiting")
    \cup Moves({"Begin", "Secured"}, {"Cancel"}, Gone)
    \cup Moves({"OwesPassword"}, {"Password"}, "Waiting")
    \cup Moves({"OwesGss"}, {"GssResponse"}, "Waiting")
    \cup Moves({"OwesSaslInitial"}, {"SaslInitialResponse"}, "Waiting")
    \cup Moves({"OwesSasl"}, {"SaslResponse"}, "Waiting")
    \cup Moves({"Idle"}, {"Query"}, "Busy")
    \cup Moves({"Idle"}, {"Parse", "Bind"}, "Preparing")
    \cup Moves({"Idle", "Suspended"}, {"Execute"}, "Executing")
    \cup Moves({"Executed", "Suspended"}, {"Sync"}, "Synced")
    \cup Moves({"Idle"}, {"Terminate"}, Gone)
    \cup Only("Sync", Moves({"Idle", "Failed"}, {"Sync"}, "Synced"))
    \cup Only("Pipelining", Moves({"Preparing"}, {"Parse", "Bind"}, "PreparingBoth"))
    \cup Only("Pipelining", Moves({"Preparing"}, {"Execute"}, "PreparingExecuting"))
    \cup Only("Pipelining", Moves({"Preparing", "Executing"}, {"Sync"}, "Synced"))
    \cup Only("Batching", Moves({"PreparingBoth"}, {"Execute"}, "PreparingAll"))
    \cup Only("Batching", Moves({"PreparingBoth", "PreparingExecuting", "PreparingAll"}, {"Sync"},
                                "Synced"))

FrontendHears ==
         Moves({"AskedTls"}, {"S"}, "Secured")
    \cup Moves({"AskedTls", "Waiting", "Idle"}, {"ErrorResponse"}, Gone)
    \cup Moves({"Waiting"}, {"CleartextPassword", "Md5Password"}, "OwesPassword")
    \cup Moves({"Waiting"}, {"Gss", "Sspi", "GssContinue"}, "OwesGss")
    \cup Moves({"Waiting"}, {"Sasl"}, "OwesSaslInitial")
    \cup Moves({"Waiting"}, {"SaslContinue"}, "OwesSasl")
    \cup Moves({"Waiting"}, {"SaslFinal", "AuthenticationOk", "ParameterStatus", "BackendKeyData",
                             "NegotiateProtocolVersion"}, "Waiting")
    \cup Moves({"Waiting"}, {"KerberosV5", "ScmCredential"}, "OwesOther")
    \cup Moves({"Waiting", "Busy", "Synced"}, {"ReadyForQuery"}, "Idle")
    \cup Moves({"Busy"}, {"RowDescription", "DataRow", "CommandComplete", "EmptyQueryResponse",
                          "ErrorResponse"}, "Busy")
    \cup Moves({"Preparing"}, {"ParseComplete", "BindComplete"}, "Idle")
    \cup Moves({"PreparingBoth"}, {"ParseComplete", "BindComplete"}, "Preparing")
    \cup Moves({"PreparingExecuting"}, {"ParseComplete", "BindComplete"}, "Executing")
    \cup Moves({"PreparingAll"}, {"ParseComplete", "BindComplete"}, "PreparingExecuting")
    \cup Moves({"Preparing", "PreparingBoth", "PreparingExecuting", "PreparingAll"},
               {"ErrorResponse"}, IF "Sync" \in Ways THEN "Failed" ELSE "Busy")
    \cup Moves({"Executing"}, {"DataRow"}, "Executing")
    \cup Moves({"Executing"}, {"CommandComplete", "EmptyQueryResponse", "ErrorResponse"},
               "Executed")
    \cup Moves({"Executing"}, {"PortalSuspended"}, "Suspended")
    \cup Moves({"Synced"}, {"ErrorResponse"}, "Synced")
    \cup Remains({"Waiting", "Idle", "Busy", "Preparing", "PreparingBoth", "PreparingExecuting",
                  "PreparingAll", "Failed", "Executing", "Executed", "Suspended", "Synced",
                  "OwesPassword", "OwesGss", "OwesSaslInitial", "OwesSasl"}, "NoticeResponse")
    \cup Only("Pipelining", Moves({"Synced"}, {"ParseComplete", "BindComplete", "DataRow",
                                  "CommandComplete", "EmptyQueryResponse", "PortalSuspended"},
                                  "Synced"))

Places == {m.from : m \in FrontendSays \cup FrontendHears} \cup {"OwesOther", Gone}

BackendHears ==
         Moves({"Listening"}, {"Startup"}, "GotStartup")
    \cup Moves({"Listening"}, {"TLS"}, "GotTls")
    \cup Moves({"Listening"}, {"Cancel"}, Gone)
    \cup Moves({"AskedCleartextPassword"}, {"Password"}, "GotCleartextPassword")
    \cup Moves({"AskedMd5Password"}, {"Password"}, "GotMd5Password")
    \cup Moves({"AskedGssResponse"}, {"GssResponse"}, "GotGssResponse")
    \cup Moves({"AskedSaslInitialResponse"}, {"SaslInitialResponse"}, "GotAnySaslResponse")
    \cup Moves({"AskedSaslResponse"}, {"SaslResponse"}, "GotAnySaslResponse")
    \cup Moves({"ReadyForQuery"}, {"Query"}, "GotSimpleQuery")
    \cup Moves({"ReadyForQuery"}, {"Parse"}, "GotPreparedStatement")
    \cup Moves({"ReadyForQuery"}, {"Bind"}, "GotBinding")
    \cup Moves({"ReadyForQuery", "SuspendedExtendedQuery"}, {"Execute"}, "ExecutingExtendedQuery")
    \cup Moves({"CompletedExtendedQuery", "SeenEmptyExtendedQuery", "SuspendedExtendedQuery",
                "AbortedExtendedQuery"}, {"Sync"}, "GotSync")
    \cup Moves({"ReadyForQuery"}, {"Terminate"}, Gone)
    \cup Only("Sync", Moves({"ReadyForQuery", "AbortedParsingOrBinding"}, {"Sync"}, "GotSync"))

\* What brings the backend's answer forward.
BackendSays ==
         Moves({"GotTls"}, {"S", "N"}, "Listening")
    \cup Moves({"GotTls", "GotStartup", "GotCleartextPassword", "GotMd5Password", "GotGssResponse",
                "GotAnySaslResponse", "FinishedSasl", "Authenticated", "SentAllBackendParams"},
               {"ErrorResponse"}, Gone)
    \cup Moves({"GotStartup"}, {"CleartextPassword"}, "AskedCleartextPassword")
    \cup Moves({"GotStartup"}, {"Md5Password"}, "AskedMd5Password")
    \cup Moves({"GotStartup"}, {"Gss", "Sspi"}, "AskedGssResponse")
    \cup Moves({"GotGssResponse"}, {"GssContinue"}, "AskedGssResponse")
    \cup Moves({"GotStartup"}, {"KerberosV5", "ScmCredential"}, "AskedOther")
    \cup Moves({"GotStartup"}, {"Sasl"}, "AskedSaslInitialResponse")
    \cup Moves({"GotAnySaslResponse"}, {"SaslContinue"}, "AskedSaslResponse")
    \cup Moves({"GotAnySaslResponse"}, {"SaslFinal"}, "FinishedSasl")
    \cup Moves({"GotStartup", "GotCleartextPassword", "GotMd5Password", "GotGssResponse",
                "FinishedSasl"}, {"AuthenticationOk"}, "Authenticated")
    \cup Moves({"Authenticated"}, {"BackendKeyData"}, "SentAllBackendParams")
    \cup Moves({"SentAllBackendParams", "SeenEmptySimpleQuery", "CompletedSimpleCommand",
                "AbortedSimpleQuery", "GotSync"}
               \cup (IF "Sync" \in Ways THEN {} ELSE {"AbortedParsingOrBinding"}),
               {"ReadyForQuery"}, "ReadyForQuery")
    \cup Moves({"GotSimpleQuery"}, {"EmptyQueryResponse"}, "SeenEmptySimpleQuery")
    \cup Moves({"GotSimpleQuery"}, {"RowDescription"}, "AnsweringToSimpleQuery")
    \cup Moves({"GotSimpleQuery", "AnsweringToSimpleQuery"}, {"CommandComplete"},
               "CompletedSimpleCommand")
    \cup Moves({"GotSimpleQuery", "AnsweringToSimpleQuery"}, {"ErrorResponse"},
               "AbortedSimpleQuery")
    \cup Moves({"GotPreparedStatement"}, {"ParseComplete"}, "ReadyForQuery")
    \cup Moves({"GotBinding"}, {"BindComplete"}, "ReadyForQuery")
    \cup Moves({"GotPreparedStatement", "GotBinding"}, {"ErrorResponse"}, "AbortedParsingOrBinding")
    \cup Moves({"ExecutingExtendedQuery"}, {"EmptyQueryResponse"}, "SeenEmptyExtendedQuery")
    \cup Moves({"ExecutingExtendedQuery", "AnsweringToExtendedQuery"}, {"CommandComplete"},
               "CompletedExtendedQuery")
    \cup Moves({"ExecutingExtendedQuery", "AnsweringToExtendedQuery"}, {"ErrorResponse"},
               "AbortedExtendedQuery")
    \cup Moves({"AnsweringToExtendedQuery"}, {"PortalSuspended"}, "SuspendedExtendedQuery")

\* What it may say besides.
Conversing == {"SentAllBackendParams", "ReadyForQuery", "GotSimpleQuery",
               "AnsweringToSimpleQuery", "CompletedSimpleCommand", "GotPreparedStatement",
               "GotBinding", "ExecutingExtendedQuery", "CompletedExtendedQuery", "GotSync"}

BackendChats ==
         Moves({"GotStartup"}, {"NegotiateProtocolVersion"}, "GotStartup")
    \cup Moves({"Authenticated"}, {"ParameterStatus", "NegotiateProtocolVersion"}, "Authenticated")
    \cup Moves({"AnsweringToSimpleQuery"}, {"DataRow"}, "AnsweringToSimpleQuery")
    \cup Moves({"CompletedSimpleCommand"}, {"RowDescription"}, "AnsweringToSimpleQuery")
    \cup Moves({"CompletedSimpleCommand"}, {"CommandComplete"}, "CompletedSimpleCommand")
    \cup Moves({"CompletedSimpleCommand"}, {"ErrorResponse"}, "AbortedSimpleQuery")
    \cup Moves({"ExecutingExtendedQuery", "AnsweringToExtendedQuery"}, {"DataRow"},
               "AnsweringToExtendedQuery")
    \cup Moves({"ReadyForQuery"}, {"ErrorResponse"}, Gone)
    \cup Only("Parameters", Remains(Conversing, "ParameterStatus"))
    \cup Only("LateError", Moves({"GotSync"}, {"ErrorResponse"}, "GotSync"))
    \cup Remains(State, "NoticeResponse")

-----------------------------------------------------------------------------
\* A message as a peer sends it: as many units as the conveyor will read.
Units(s, v) ==
    LET enc == wrap[s] = "Tls"
    IN  IF v \in Byte THEN <<ByteUnit(v, enc)>>
        ELSE Header(MsgOf(v), enc) \o <<ByteUnit(v, enc)>>

\* What lies first in an outbox: a lone byte, or a body behind its type byte.
Arrived(s) ==
    IF Len(outbox[s]) > 1 /\ outbox[s][1].val \in Byte THEN outbox[s][2].val
    ELSE outbox[s][1].val

Emit(s, v) == inbox' = [inbox EXCEPT ![s] = @ \o Units(s, v)]

Consume(s) ==
    LET n == IF Len(outbox[s]) > 1 /\ outbox[s][1].val \in Byte THEN 2 ELSE 1
    IN  outbox' = [outbox EXCEPT ![s] = SubSeq(@, n + 1, Len(@))]

\* A peer that is done hangs up.
Leaves(s, to) == eof' = [eof EXCEPT ![s] = @ \/ to = Gone]

FrontendSend ==
    /\ result = Running
    /\ front = "Secured" => wrap["Frontend"] = "Tls"
    /\ \E m \in FrontendSays :
         /\ front = m.from
         /\ front' = m.to
         /\ Emit("Frontend", m.say)
         /\ Leaves("Frontend", m.to)
    /\ UNCHANGED <<pc, state, wrap, outbox, hand, told, result, back, chatter>>

FrontendReceive ==
    /\ outbox["Frontend"] # <<>>
    /\ \E m \in FrontendHears :
         /\ front = m.from
         /\ front' = m.to
         /\ Arrived("Frontend") = m.say
         /\ Leaves("Frontend", m.to)
    /\ Consume("Frontend")
    /\ UNCHANGED <<pc, state, wrap, inbox, hand, told, result, back, chatter>>

BackendSend ==
    /\ result = Running
    /\ \/ \E m \in BackendSays :
            /\ back = m.from
            /\ back' = m.to
            /\ Emit("Backend", m.say)
            /\ Leaves("Backend", m.to)
            /\ UNCHANGED chatter
       \/ \E m \in BackendChats :
            /\ chatter < MaxChatter
            /\ back = m.from
            /\ back' = m.to
            /\ Emit("Backend", m.say)
            /\ Leaves("Backend", m.to)
            /\ chatter' = chatter + 1
    /\ UNCHANGED <<pc, state, wrap, outbox, hand, told, result, front>>

BackendReceive ==
    /\ outbox["Backend"] # <<>>
    /\ \E m \in BackendHears :
         /\ back = m.from
         /\ back' = m.to
         /\ Arrived("Backend") = m.say
         /\ Leaves("Backend", m.to)
    /\ Consume("Backend")
    /\ chatter' = 0
    /\ UNCHANGED <<pc, state, wrap, inbox, hand, told, result, front>>

\* A peer dies, or finds the connection closed once it has read what was written.
Vanish(s) ==
    /\ IF s = "Frontend" THEN front # Gone /\ front' = Gone /\ UNCHANGED back
                         ELSE back # Gone /\ back' = Gone /\ UNCHANGED front
    /\ eof' = [eof EXCEPT ![s] = TRUE]
    /\ UNCHANGED <<pc, state, wrap, inbox, outbox, hand, told, result, chatter>>

FindsClosed(s) == result # Running /\ outbox[s] = <<>> /\ Vanish(s)

Convey == Step /\ UNCHANGED <<front, back, chatter>>

\* The session is over: nothing is left to do.
Over == result # Running /\ front = Gone /\ back = Gone /\ UNCHANGED sessionVars

SessionInit == Init /\ front = "Begin" /\ back = "Listening" /\ chatter = 0

SessionNext ==
    \/ Convey
    \/ FrontendSend \/ FrontendReceive
    \/ BackendSend \/ BackendReceive
    \/ \E s \in Side : Vanish(s)
    \/ Over

(***************************************************************************)
(* Fairness.  The executor polls a woken task; TCP delivers; a client      *)
(* answers what it is asked, but is free to stay idle and to wait instead  *)
(* of sending ahead; a backend answers what it heard.  Nobody has to       *)
(* vanish.                                                                 *)
(***************************************************************************)
SendsAhead == {"Preparing", "PreparingBoth", "PreparingExecuting", "PreparingAll", "Executing"}
Owes == front \notin {"Begin", "Idle"} \cup SendsAhead

Fairness ==
    /\ WF_sessionVars(Convey)
    /\ WF_sessionVars(Owes /\ FrontendSend)
    /\ WF_sessionVars(FrontendReceive)
    /\ WF_sessionVars(back # "ReadyForQuery" /\ BackendSend)
    /\ WF_sessionVars(BackendReceive)
    /\ \A s \in Side : WF_sessionVars(FindsClosed(s))

Spec == SessionInit /\ [][SessionNext]_sessionVars /\ Fairness

-----------------------------------------------------------------------------
\* Type correctness of the conveyor and of its two peers (fake_stream.rs, protocol.rs).
SessionTypeOK ==
    /\ TypeOK
    /\ front \in Places
    /\ back \in State \cup {"Listening", "GotTls", "AskedOther", Gone}
    /\ chatter \in 0 .. MaxChatter

(***************************************************************************)
(* go() refuses nothing that peers who follow the protocol say, however    *)
(* their messages race, but for the two ways to authenticate that its      *)
(* tests expect to be Unsupported (auth_kerberos_unsupported and           *)
(* auth_scm_credential_unsupported), and those only when the backend did   *)
(* ask for one: a session ends with Ok, for that reason, with an I/O error *)
(* after a peer hung up, or in a handshake that the TLS provider refused.  *)
(* README.md: "a proxy for PostgreSQL frontend/backend protocol version    *)
(* 3.0"; this holds for the protocol as the tests play it, not with Ways.  *)
(***************************************************************************)
Understood ==
    \/ result \in {Running, "Ok"}
    \/ result = "Unsupported" /\ state = "GotStartup" /\ back \in {"AskedOther", Gone}
    \/ result = "IoError" /\ \E s \in Side : eof[s]
    \/ result = "Panicked" /\ \E s \in Side : wrap[s] = "TlsHandshake"

(***************************************************************************)
(* Where peers go beyond the tests, go() refuses them for that alone, each *)
(* Way for what it adds: a Sync when nothing was executed, a message of    *)
(* the extended query sent before the answer to the one before it, a       *)
(* ParameterStatus after the start; and it drops, with Ok, a session whose *)
(* backend reports an error on Sync and would go on.  Everything else      *)
(* still passes.                                                           *)
(***************************************************************************)
Unexpected(s, msgs, states) ==
    /\ result = "UnexpectedType"
    /\ hand.side = s
    /\ hand.units[1].val \in {TypeByteOf[m] : m \in msgs}
    /\ state \in states

Excused ==
    \/ /\ "Sync" \in Ways
       /\ Unexpected("Frontend", {"Sync"}, {"AbortedParsingOrBinding", "ReadyForQuery"})
    \/ /\ "Pipelining" \in Ways
       /\ \/ Unexpected("Frontend", {"Parse", "Bind", "Execute"},
                        {"GotPreparedStatement", "GotBinding", "AbortedParsingOrBinding"})
          \/ Unexpected("Frontend", {"Sync"}, {"GotPreparedStatement", "GotBinding",
                        "ExecutingExtendedQuery", "AnsweringToExtendedQuery"})
    \/ "Parameters" \in Ways /\ Unexpected("Backend", {"ParameterStatus"}, Conversing)

EndedRightly == result = "Ok" => back = Gone \/ front = Gone \/ state = "GotSync"

RefusedForThat == (Understood \/ Excused) /\ EndedRightly

(***************************************************************************)
(* What go() writes to a peer is what the peer expects to hear next, up to *)
(* the moment it is written: neither side sees a message out of turn.      *)
(***************************************************************************)
Fitting ==
    /\ outbox["Frontend"] # <<>> /\ front # Gone =>
           \E m \in FrontendHears : m.from = front /\ m.say = Arrived("Frontend")
    /\ outbox["Backend"] # <<>> /\ back # Gone =>
           \E m \in BackendHears : m.from = back /\ m.say = Arrived("Backend")

(***************************************************************************)
(* State is kept "from backend point of view" (convey.rs): whenever all    *)
(* that was said has been carried and heard, the conveyor's state is the   *)
(* backend's own.                                                          *)
(***************************************************************************)
Quiet == /\ pc \in {"Select", "PollFrontend", "Parked"}
         /\ \A s \in Side : inbox[s] = <<>> /\ outbox[s] = <<>>

Agreement == Quiet /\ back # Gone => state = back

(***************************************************************************)
(* Nobody is left waiting: a frontend that waits for an answer gets one,   *)
(* through read_type_byte_from_both and its biased select, or learns that  *)
(* the session is over.  One that pipelines may go on asking and being     *)
(* answered, but gets as far ahead as it can only until it is answered.    *)
(***************************************************************************)
Waits == front \in {"AskedTls", "Waiting", "Busy", "Preparing", "PreparingExecuting", "Executing",
                    "Synced"}
Ahead == front \in {"PreparingBoth", "PreparingAll"}

Answered == (Waits ~> ~Waits) /\ (Ahead ~> ~Ahead)

(***************************************************************************)
(* A session does not outlive its peers: once one hung up, go() returns.   *)
(* The exception is a conveyor that waits for an Initial: it does not look *)
(* at the backend then.                                                    *)
(***************************************************************************)
AwaitsInitial == pc = "ReadMsg" /\ hand.msg = "Initial"

Ends == (\E s \in Side : eof[s]) ~> (pc = "Done" \/ (AwaitsInitial /\ ~eof["Frontend"]))
=============================================================================
