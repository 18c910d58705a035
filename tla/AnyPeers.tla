------------------------------ MODULE AnyPeers ------------------------------
(***************************************************************************)
(* The conveyor between a frontend and a backend that say anything at any  *)
(* time: messages out of turn, malformed ones, unknown bytes, messages cut *)
(* by a closed connection.  Only the framing is assumed: a frontend opens  *)
(* with an Initial, and again after a request for TLS.                     *)
(*                                                                         *)
(* "sent", "log" and "place" are histories: what each side has sent, what  *)
(* the callback was told, and where in what its side sent the body of each *)
(* told message is.  "outbox" is never consumed here, so it is a history   *)
(* as well.                                                                *)
(***************************************************************************)
EXTENDS Conveyor

CONSTANTS
    Says,     \* for each side, the bodies it may send: what and how well formed
    MaxSent,  \* how many units a side sends at most
    MaxAhead  \* how many units of a side may be unread when it sends on

ASSUME SaysAssumption == Says \in [Side -> SUBSET [val : Body, quality : Quality]]
ASSUME BoundsAssumption == MaxSent \in Nat /\ MaxAhead \in Nat

VARIABLES sent, log, place

allVars == <<pc, state, wrap, inbox, eof, outbox, hand, told, result, sent, log, place>>

AnyInit ==
    /\ Init
    /\ sent = [s \in Side |-> <<>>]
    /\ log = <<>>
    /\ place = <<>>

-----------------------------------------------------------------------------
(***************************************************************************)
(* The peers (external).                                                   *)
(***************************************************************************)
Opened == \E i \in 1 .. Len(sent["Frontend"]) : sent["Frontend"][i].val = "Startup"
Opens == \A i \in 1 .. Len(sent["Frontend"]) : i = 1 /\ sent["Frontend"][i].val = "TLS"

MaySend(s, m) ==
    IF s = "Backend" THEN m # "Initial"
    ELSE IF m = "Initial" THEN Opens ELSE Opened

\* A peer encrypts as soon as its connection is under TLS.
OnWire(s, b) == [val |-> b.val, quality |-> b.quality, enc |-> wrap[s] = "Tls"]

Emit(s, us) ==
    /\ result = Running
    /\ ~eof[s]
    /\ Len(inbox[s]) <= MaxAhead
    /\ Len(sent[s]) + Len(us) <= MaxSent
    /\ inbox' = [inbox EXCEPT ![s] = @ \o us]
    /\ sent' = [sent EXCEPT ![s] = @ \o us]
    /\ UNCHANGED <<pc, state, wrap, outbox, hand, told, result, log, place>>

Send(s) ==
    /\ \E b \in Says[s] :
         LET m == MsgOf(b.val)
         IN  /\ MaySend(s, m)
             /\ Emit(s, Header(m, wrap[s] = "Tls") \o <<OnWire(s, b)>>)
    /\ UNCHANGED eof

\* A type byte nobody knows.
SendUnknown(s) ==
    /\ MaySend(s, "Terminate")
    /\ Emit(s, <<ByteUnit(UnknownByte, wrap[s] = "Tls")>>)
    /\ UNCHANGED eof

\* The backend answers a request for TLS that has reached it.
AnswerTls ==
    /\ outbox["Backend"] # <<>> /\ outbox["Backend"][1].val = "TLS"
    /\ sent["Backend"] = <<>>
    /\ \E b \in {TLS_SUPPORTED, TLS_NOT_SUPPORTED} :
         Emit("Backend", <<ByteUnit(b, wrap["Backend"] = "Tls")>>)
    /\ UNCHANGED eof

\* The connection breaks after the type byte of a message.
Cut(s) ==
    /\ \E b \in Says[s] :
         LET m == MsgOf(b.val)
         IN  /\ m # "Initial" /\ MaySend(s, m)
             /\ Emit(s, Header(m, wrap[s] = "Tls"))
    /\ eof' = [eof EXCEPT ![s] = TRUE]

Close(s) ==
    /\ result = Running
    /\ ~eof[s]
    /\ eof' = [eof EXCEPT ![s] = TRUE]
    /\ UNCHANGED <<pc, state, wrap, inbox, outbox, hand, told, result, sent, log, place>>

\* The last unit that was read from the side whose message is in hand.
ReadUpTo == Len(outbox[Peer(hand.side)]) + Len(hand.units)

Convey ==
    /\ Step
    /\ log' = log \o told'
    /\ place' = IF told' = <<>> THEN place ELSE Append(place, ReadUpTo')
    /\ UNCHANGED sent

AnyNext ==
    \/ Convey
    \/ AnswerTls
    \/ \E s \in Side : Send(s) \/ SendUnknown(s) \/ Cut(s) \/ Close(s)

Spec == AnyInit /\ [][AnyNext]_allVars

-----------------------------------------------------------------------------
\* What was read from s and not written, at the end of a session what is lost.
Held(s) == IF hand.side = s THEN hand.units ELSE <<>>

\* The frontend asked for TLS, and so the backend's first unit is the answer.
AskedTls == sent["Frontend"] # <<>> /\ sent["Frontend"][1].val = "TLS"

(***************************************************************************)
(* Type correctness of the conveyor, of the histories and of what is held: *)
(* at most one message, of one side.                                       *)
(***************************************************************************)
AnyTypeOK ==
    /\ TypeOK
    /\ sent \in [Side -> Seq(Unit)]
    /\ log \in Seq([side : Side, msg : Msg, body : Byte \cup Body])
    /\ Len(hand.units) <= 2

(***************************************************************************)
(* Nothing a peer sent is lost, duplicated, reordered or altered: it is on *)
(* the other side, or held, or unread.  This answers the TODO in           *)
(* read_type_byte_from_both about the future that select drops.  Only the  *)
(* backend's refusal of TLS reaches the frontend as TLS_SUPPORTED.         *)
(***************************************************************************)
Heard(s, i, v, asked) ==
    IF s = "Backend" /\ i = 1 /\ asked /\ v = TLS_NOT_SUPPORTED THEN TLS_SUPPORTED ELSE v

Carried(s, all, out, rest, asked) ==
    /\ Len(all) = Len(out) + Len(rest)
    /\ \A i \in 1 .. Len(out) : out[i].val = Heard(s, i, all[i].val, asked)
    /\ \A i \in 1 .. Len(rest) : rest[i] = all[Len(out) + i]

Conserved ==
    \A s \in Side :
        Carried(s, sent[s], outbox[Peer(s)], Held(s) \o inbox[s], AskedTls)

(***************************************************************************)
(* The callback is told of what is carried, in its order: every message it *)
(* is told of is one that its side sent, and every body on the other side  *)
(* was told.  It is told before the write (read_through!), so the log may  *)
(* run ahead of the wire, but by one message at most, the last, which is   *)
(* in hand, and not at all once go() returned Ok.                          *)
(***************************************************************************)
Unwritten(i) == place[i] > Len(outbox[Peer(log[i].side)])

ToldIsSent ==
    \A i \in 1 .. Len(log) :
        LET s == log[i].side
        IN  /\ place[i] \in 1 .. Len(sent[s])
            /\ sent[s][place[i]].val = log[i].body
            /\ \A j \in 1 .. i - 1 : log[j].side = s => place[j] < place[i]

CarriedIsTold ==
    \A s \in Side : \A n \in 1 .. Len(outbox[Peer(s)]) :
        outbox[Peer(s)][n].val \in Body =>
            \E i \in 1 .. Len(log) : log[i].side = s /\ place[i] = n

LoggedIsCarried ==
    /\ ToldIsSent
    /\ CarriedIsTold
    /\ \A i \in 1 .. Len(log) :
         Unwritten(i) =>
             /\ i = Len(log)
             /\ hand.side = log[i].side
             /\ place[i] = ReadUpTo
             /\ result # "Ok"

(***************************************************************************)
(* TLS as agreed: after the frontend is told TLS_SUPPORTED everything goes *)
(* to it encrypted; the backend gets the session encrypted exactly when it *)
(* agreed; nothing is encrypted that nobody asked for.                     *)
(***************************************************************************)
TlsAsAgreed ==
    LET answered == /\ outbox["Frontend"] # <<>>
                    /\ AskedTls
                    /\ outbox["Frontend"][1].val = TLS_SUPPORTED
    IN  \A s \in Side : \A i \in 1 .. Len(outbox[s]) :
            outbox[s][i].enc =
                (/\ i > 1
                 /\ answered
                 /\ s = "Backend" => sent["Backend"][1].val = TLS_SUPPORTED)

(***************************************************************************)
(* No read or write ever meets a stream whose handshake is under way, and  *)
(* no handshake is begun or ended twice: HandshakeDisrupted is not         *)
(* returned, and replace_plain_with never reaches unreachable_unchecked.   *)
(***************************************************************************)
NeverDisrupted ==
    /\ result # "HandshakeDisrupted"
    /\ \A s \in Side :
         wrap[s] = "TlsHandshake" =>
             \/ pc = (IF s = "Backend" THEN "AwaitBackend" ELSE "AwaitFrontend")
             \/ result = "Panicked"

(***************************************************************************)
(* The conveyor lets a frontend message pass only in answer to the backend *)
(* message that calls for it: a password to its question, a query to       *)
(* ReadyForQuery and so on.  Notices and NegotiateProtocolVersion may come *)
(* in between, they call for nothing.                                      *)
(***************************************************************************)
Idle == {"ReadyForQuery", "ParseComplete", "BindComplete"}

CalledForBy ==
    [Password |-> {"CleartextPassword", "Md5Password"},
     GssResponse |-> {"Gss", "Sspi", "GssContinue"},
     SaslInitialResponse |-> {"Sasl"},
     SaslResponse |-> {"SaslContinue"},
     Bind |-> Idle, Parse |-> Idle, Query |-> Idle, Terminate |-> Idle,
     Execute |-> Idle \cup {"PortalSuspended"},
     Sync |-> {"CommandComplete", "EmptyQueryResponse", "PortalSuspended", "ErrorResponse"}]

Asides == {"NoticeResponse", "NegotiateProtocolVersion"}

\* What a message of the backend calls for depends on its type and, in authentication, its body.
Kind(e) == IF e.msg = "Authentication" THEN e.body ELSE e.msg

FrontendAnswers ==
    \A i \in 1 .. Len(log) :
        log[i].side = "Frontend" /\ log[i].msg # "Initial" =>
            \E j \in 1 .. i - 1 :
                /\ log[j].side = "Backend"
                /\ Kind(log[j]) \in CalledForBy[log[i].msg]
                /\ \A k \in j + 1 .. i - 1 : log[k].msg \in Asides

(***************************************************************************)
(* No query reaches the backend before it said AuthenticationOk and gave   *)
(* its key: the phases of go()'s states are passed in their order.         *)
(***************************************************************************)
QueryPhase == {"Bind", "Execute", "Parse", "Query", "Sync", "Terminate"}

AuthenticatedFirst ==
    \A i \in 1 .. Len(log) :
        log[i].msg \in QueryPhase =>
            \E j, k \in 1 .. i - 1 :
                j < k /\ log[j].body = "AuthenticationOk" /\ log[k].msg = "BackendKeyData"

(***************************************************************************)
(* What the result of go() tells.  Ok: someone said goodbye and everything *)
(* read was carried.  UnexpectedType: the message was not let through,     *)
(* save for an Authentication, which is written before it is judged.       *)
(***************************************************************************)
LastLogged == log[Len(log)]

ResultTells ==
    /\ result = "Ok" =>
          /\ hand.units = <<>>
          /\ log # <<>>
          /\ LastLogged.body = "Cancel" \/ LastLogged.msg \in {"Terminate", "ErrorResponse"}
    /\ result \in {"UnexpectedType", "UnknownType"} =>
          \/ Len(hand.units) = 1 /\ hand.units[1].val \notin InitialBody
          \/ hand.units = <<>> /\ LastLogged.msg = "Authentication"
    /\ result \in {"TlsRequestedInsideTls", "Todo", "Unsupported"} => hand.units = <<>>
    /\ (result = Running) = (pc # "Done")

\* The pipe each session is, as values without quality or encryption.
Vals(us) == [i \in 1 .. Len(us) |-> us[i].val]
P == INSTANCE Pipe WITH in <- [s \in Side |-> Vals(sent[s])],
                        out <- [s \in Side |-> Vals(outbox[s])]

(***************************************************************************)
(* The session is a pipe in each direction (module Pipe): every step of    *)
(* the conveyor and of the peers is a step of it or changes nothing there. *)
(***************************************************************************)
IsPipe == P!Spec
=============================================================================
