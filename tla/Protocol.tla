------------------------------ MODULE Protocol ------------------------------
(***************************************************************************)
(* The vocabulary of the conveyor and its dispatch table: the sides, the   *)
(* session states, the type bytes, the message types and the match of      *)
(* Conveyor::go (convey.rs), kept as data.                                 *)
(*                                                                         *)
(* A stream is a sequence of units.  A typed message is a type byte unit   *)
(* followed by a body unit; the Initial message has no type byte; the      *)
(* answer to a TLS request is a type byte unit alone.                      *)
(***************************************************************************)
EXTENDS Naturals, Sequences

Side == {"Frontend", "Backend"}

\* The other end: what is read from s is written to Peer(s).
Peer(s) == IF s = "Frontend" THEN "Backend" ELSE "Frontend"

State == {"AbortedExtendedQuery", "AbortedParsingOrBinding", "AbortedSimpleQuery",
          "AnsweringToExtendedQuery", "AnsweringToSimpleQuery", "AskedCleartextPassword",
          "AskedGssResponse", "AskedMd5Password", "AskedSaslInitialResponse",
          "AskedSaslResponse", "Authenticated", "Bound", "CompletedExtendedQuery",
          "CompletedSimpleCommand", "ExecutingExtendedQuery", "FinishedSasl",
          "GotAnySaslResponse", "GotBinding", "GotCleartextPassword", "GotGssResponse",
          "GotMd5Password", "GotPreparedStatement", "GotSimpleQuery", "GotStartup", "GotSync",
          "ReadyForQuery", "SeenEmptyExtendedQuery", "SeenEmptySimpleQuery",
          "SentAllBackendParams", "SuspendedExtendedQuery"}

(***************************************************************************)
(* Each message type with the type byte its MsgDecode::TYPE_BYTE_OPT names *)
(* ("" for Initial, which has none).  Four bytes are shared: E, S, p by    *)
(* messages, N and S also by the one-byte answers to a TLS request.        *)
(***************************************************************************)
TypeByteOf == [
    Authentication |-> "R", BackendKeyData |-> "K", Bind |-> "B", BindComplete |-> "2",
    CommandComplete |-> "C", DataRow |-> "D", EmptyQueryResponse |-> "I",
    ErrorResponse |-> "E", Execute |-> "E", GssResponse |-> "p", Initial |-> "",
    NegotiateProtocolVersion |-> "v", NoticeResponse |-> "N", ParameterStatus |-> "S",
    Parse |-> "P", ParseComplete |-> "1", Password |-> "p", PortalSuspended |-> "s",
    Query |-> "Q", ReadyForQuery |-> "Z", RowDescription |-> "T",
    SaslInitialResponse |-> "p", SaslResponse |-> "p", Sync |-> "S", Terminate |-> "X"]

Msg == DOMAIN TypeByteOf

\* The bytes TypeByte::try_from accepts, and one that stands for all the others.
TypeByte == {"R", "K", "B", "2", "C", "D", "I", "E", "N", "p", "v", "S", "P", "1", "s", "Q",
             "Z", "T", "X"}
UnknownByte == "?"
Byte == TypeByte \cup {UnknownByte}

TLS_SUPPORTED == "S"
TLS_NOT_SUPPORTED == "N"

(***************************************************************************)
(* What a body says.  Only the variants that go() tells apart are kept     *)
(* apart: those of Initial and of Authentication.                          *)
(***************************************************************************)
InitialBody == {"Startup", "Cancel", "TLS"}

AuthenticationBody == {"CleartextPassword", "Gss", "GssContinue", "KerberosV5", "Md5Password",
                       "AuthenticationOk", "Sasl", "SaslContinue", "SaslFinal",
                       "ScmCredential", "Sspi"}

Body == InitialBody \cup AuthenticationBody \cup (Msg \ {"Initial", "Authentication"})

\* The message type whose decode_body understands the body.
MsgOf(b) == IF b \in InitialBody THEN "Initial"
            ELSE IF b \in AuthenticationBody THEN "Authentication"
            ELSE b

(***************************************************************************)
(* Units as they travel.  "quality" tells how a body was encoded:          *)
(*   ok         well formed;                                               *)
(*   malformed  whole, but not what its type's decode_body wants;          *)
(*   badLength  its length field is below 4, or 2^32-1 so that adding the  *)
(*              type byte overflows (alloc_vec).                           *)
(* A bare type byte has nothing to get wrong and is "ok".                  *)
(***************************************************************************)
Quality == {"ok", "malformed", "badLength"}
Unit == [val : Byte \cup Body, quality : Quality, enc : BOOLEAN]

ByteUnit(b, enc) == [val |-> b, quality |-> "ok", enc |-> enc]

(***************************************************************************)
(* What read_msg::<m> makes of a body (module Framing has the length).     *)
(* GssResponse and SaslResponse take whatever is left; every other type    *)
(* wants its own encoding, which a body of another type behind the same    *)
(* type byte may happen to match.  With a type byte, a length of 2^32-1    *)
(* overflows: it wraps to an EncodeError in a release build and panics in  *)
(* a debug build.                                                          *)
(***************************************************************************)
TakesAnyBody == {"GssResponse", "SaslResponse"}

Outcomes(u, m) ==
    IF u.quality = "badLength"
    THEN {"EncodeError"} \cup (IF TypeByteOf[m] = "" THEN {} ELSE {"Panicked"})
    ELSE IF m \in TakesAnyBody \/ (u.quality = "ok" /\ MsgOf(u.val) = m) THEN {"ok"}
    ELSE IF \E n \in Msg \ {m} : MsgOf(u.val) = n /\ TypeByteOf[n] = TypeByteOf[m]
    THEN {"ok", "DecodeError", "LeftUndecoded"}
    ELSE {"DecodeError", "LeftUndecoded"}

\* How go() can end: Ok(()), one of its ConveyErrors, or a panic.
Result == {"Ok", "DecodeError", "EncodeError", "IoError", "HandshakeDisrupted",
           "TlsRequestedInsideTls", "LeftUndecoded", "Todo", "UnexpectedType",
           "UnknownType", "Unsupported", "Panicked"}

(***************************************************************************)
(* The match of go()'s loop.  An arm says: a type byte from this side, in  *)
(* one of these states, makes the conveyor read_through this message type  *)
(* and go on with the given state.  Same keeps the state; Auth leaves the  *)
(* choice to process_backend_authentication; Ok is `return Ok(())`.  The   *)
(* two reads of an Initial before the loop are marked First, FirstInTls.   *)
(***************************************************************************)
Same == "Same"
Auth == "Auth"
First == "First"
FirstInTls == "FirstInTls"

Arm(s, m, in, to) == [side |-> s, msg |-> m, in |-> in, to |-> to]

AbortsSimpleQuery == {"AbortedSimpleQuery", "AnsweringToSimpleQuery", "CompletedSimpleCommand",
                      "GotSimpleQuery", "SeenEmptySimpleQuery"}
AbortsParsingOrBinding == {"GotBinding", "GotPreparedStatement"}
AbortsExtendedQuery == {"AbortedExtendedQuery", "AnsweringToExtendedQuery",
                        "CompletedExtendedQuery", "ExecutingExtendedQuery",
                        "SeenEmptyExtendedQuery"}

BackendArms == {
    Arm("Backend", "Authentication", State, Auth),
    Arm("Backend", "BackendKeyData", {"Authenticated"}, "SentAllBackendParams"),
    Arm("Backend", "BindComplete", {"GotBinding"}, "ReadyForQuery"),
    Arm("Backend", "CommandComplete",
        {"AnsweringToSimpleQuery", "CompletedSimpleCommand", "GotSimpleQuery"},
        "CompletedSimpleCommand"),
    Arm("Backend", "CommandComplete", {"AnsweringToExtendedQuery", "ExecutingExtendedQuery"},
        "CompletedExtendedQuery"),
    Arm("Backend", "DataRow", {"AnsweringToSimpleQuery"}, "AnsweringToSimpleQuery"),
    Arm("Backend", "DataRow", {"AnsweringToExtendedQuery", "ExecutingExtendedQuery"},
        "AnsweringToExtendedQuery"),
    Arm("Backend", "EmptyQueryResponse", {"ExecutingExtendedQuery"}, "SeenEmptyExtendedQuery"),
    Arm("Backend", "EmptyQueryResponse", {"GotSimpleQuery"}, "SeenEmptySimpleQuery"),
    Arm("Backend", "ErrorResponse", AbortsSimpleQuery, "AbortedSimpleQuery"),
    Arm("Backend", "ErrorResponse", AbortsParsingOrBinding, "AbortedParsingOrBinding"),
    Arm("Backend", "ErrorResponse", AbortsExtendedQuery, "AbortedExtendedQuery"),
    Arm("Backend", "ErrorResponse",
        State \ (AbortsSimpleQuery \cup AbortsParsingOrBinding \cup AbortsExtendedQuery), "Ok"),
    Arm("Backend", "NegotiateProtocolVersion", {"GotStartup", "Authenticated"}, Same),
    Arm("Backend", "NoticeResponse", State, Same),
    Arm("Backend", "ParameterStatus", {"Authenticated"}, "Authenticated"),
    Arm("Backend", "ParseComplete", {"GotPreparedStatement"}, "ReadyForQuery"),
    Arm("Backend", "PortalSuspended", {"AnsweringToExtendedQuery"}, "SuspendedExtendedQuery"),
    Arm("Backend", "ReadyForQuery",
        {"AbortedParsingOrBinding", "AbortedSimpleQuery", "CompletedSimpleCommand",
         "SentAllBackendParams", "GotSync", "SeenEmptySimpleQuery"}, "ReadyForQuery"),
    Arm("Backend", "RowDescription", {"GotSimpleQuery", "CompletedSimpleCommand"},
        "AnsweringToSimpleQuery") }

FrontendArms == {
    Arm("Frontend", "Bind", {"ReadyForQuery"}, "GotBinding"),
    Arm("Frontend", "Execute", {"ReadyForQuery", "SuspendedExtendedQuery"},
        "ExecutingExtendedQuery"),
    Arm("Frontend", "Password", {"AskedCleartextPassword"}, "GotCleartextPassword"),
    Arm("Frontend", "GssResponse", {"AskedGssResponse"}, "GotGssResponse"),
    Arm("Frontend", "Password", {"AskedMd5Password"}, "GotMd5Password"),
    Arm("Frontend", "SaslInitialResponse", {"AskedSaslInitialResponse"}, "GotAnySaslResponse"),
    Arm("Frontend", "SaslResponse", {"AskedSaslResponse"}, "GotAnySaslResponse"),
    Arm("Frontend", "Sync",
        {"AbortedExtendedQuery", "CompletedExtendedQuery", "SeenEmptyExtendedQuery",
         "SuspendedExtendedQuery"}, "GotSync"),
    Arm("Frontend", "Parse", {"ReadyForQuery"}, "GotPreparedStatement"),
    Arm("Frontend", "Query", {"ReadyForQuery"}, "GotSimpleQuery"),
    Arm("Frontend", "Terminate", {"ReadyForQuery"}, "Ok") }

AllArms == BackendArms \cup FrontendArms

\* Mistakes in the match: Query taken in every state, notices only while authenticated, Sync
\* answered in the backend's stead.
MatchingAnyQuery(s, b, st) ==
    {a \in AllArms : a.side = s /\ TypeByteOf[a.msg] = b /\ (st \in a.in \/ a.msg = "Query")}

MatchingFewNotices(s, b, st) ==
    {a \in AllArms : /\ a.side = s /\ TypeByteOf[a.msg] = b /\ st \in a.in
                     /\ a.msg = "NoticeResponse" => st = "Authenticated"}

MatchingSyncReady(s, b, st) ==
    {IF a.msg = "Sync" THEN [a EXCEPT !.to = "ReadyForQuery"] ELSE a :
        a \in {x \in AllArms : x.side = s /\ TypeByteOf[x.msg] = b /\ st \in x.in}}

\* The arms that match a type byte from a side in a state; none is `_ => UnexpectedType`.
Matching(s, b, st) ==
    {a \in AllArms : a.side = s /\ TypeByteOf[a.msg] = b /\ st \in a.in}

(***************************************************************************)
(* process_backend_authentication, after the message went through.         *)
(***************************************************************************)
ProcessBackendAuthentication(b, st) ==
    CASE b = "CleartextPassword" /\ st = "GotStartup" -> "AskedCleartextPassword"
      [] b \in {"Gss", "Sspi"} /\ st = "GotStartup" -> "AskedGssResponse"
      [] b = "GssContinue" /\ st = "GotGssResponse" -> "AskedGssResponse"
      [] b = "Md5Password" /\ st = "GotStartup" -> "AskedMd5Password"
      [] b = "AuthenticationOk" /\ st \in {"FinishedSasl", "GotCleartextPassword",
                                           "GotGssResponse", "GotMd5Password", "GotStartup"}
            -> "Authenticated"
      [] b \in {"KerberosV5", "ScmCredential"} /\ st = "GotStartup" -> "Unsupported"
      [] b = "Sasl" /\ st = "GotStartup" -> "AskedSaslInitialResponse"
      [] b = "SaslContinue" /\ st = "GotAnySaslResponse" -> "AskedSaslResponse"
      [] b = "SaslFinal" /\ st = "GotAnySaslResponse" -> "FinishedSasl"
      [] b \in {"GssContinue", "SaslContinue", "SaslFinal"} /\ st = "GotStartup" -> "Todo"
      [] OTHER -> "UnexpectedType"

\* A mistake: TLS inside TLS ends a session like Cancel.
OnInitialLenient(b, insideTls) ==
    CASE b = "Startup" -> "GotStartup"
      [] b = "TLS" /\ ~insideTls -> "ReadTlsResponse"
      [] OTHER -> "Ok"

(***************************************************************************)
(* The two matches on an Initial, the second one inside TLS.  Initial is   *)
(* written through before TLS-inside-TLS is refused.                       *)
(***************************************************************************)
OnInitial(b, insideTls) ==
    CASE b = "Startup" -> "GotStartup"
      [] b = "Cancel" -> "Ok"
      [] b = "TLS" /\ ~insideTls -> "ReadTlsResponse"
      [] OTHER -> "TlsRequestedInsideTls"

\* A mistake: an arm that keeps the state is forgotten.
ContinuationNoSame(to, body, st) ==
    CASE to = First -> OnInitial(body, FALSE)
      [] to = FirstInTls -> OnInitial(body, TRUE)
      [] to = Auth -> ProcessBackendAuthentication(body, st)
      [] OTHER -> to

\* How the conveyor goes on once a message is written through.
Continuation(to, body, st) ==
    CASE to = First -> OnInitial(body, FALSE)
      [] to = FirstInTls -> OnInitial(body, TRUE)
      [] to = Auth -> ProcessBackendAuthentication(body, st)
      [] to = Same -> st
      [] OTHER -> to

\* Rust takes the first arm that matches; the arms are disjoint, so the set says the same.
ASSUME AtMostOneArm ==
    \A s \in Side, b \in TypeByte, st \in State :
        \A a1, a2 \in Matching(s, b, st) : a1 = a2
=============================================================================
