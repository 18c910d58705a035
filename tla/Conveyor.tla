------------------------------ MODULE Conveyor ------------------------------
(***************************************************************************)
(* Conveyor::go (convey.rs): one task that carries the messages of one     *)
(* client session between the frontend and the backend.                    *)
(*                                                                         *)
(* Every step ends at an await, where the environment may run.  The peers  *)
(* are not described here: a module that uses this one says how they fill  *)
(* "inbox", close it, and whether they consume "outbox".                   *)
(***************************************************************************)
EXTENDS Protocol

VARIABLES
    pc,      \* the await at which the task is suspended
    state,   \* the local `state` of go(); NoState until the Startup went through
    wrap,    \* which variant of StreamWrap each side's stream is in
    inbox,   \* what each side sent and the conveyor did not read yet
    eof,     \* whether each side has closed its connection
    outbox,  \* what was written to each side
    hand,    \* what was read and not written yet, and what becomes of it
    told,    \* what the last step gave to the callback: one message or none
    result   \* what go() returned

vars == <<pc, state, wrap, inbox, eof, outbox, hand, told, result>>

NoState == "NoState"
Running == "Running"

Pc == {"ReadMsg", "Write", "ReadTlsResponse", "SwitchBackend", "SwitchFrontend",
       "AwaitBackend", "AwaitFrontend", "Select", "PollFrontend", "Parked", "Done"}
Wrap == {"Plain", "TlsHandshake", "Tls"}

\* The one-byte answer to a TLS request is carried too, though it is no message.
TlsResponse == "TlsResponse"
Then == State \cup Result \cup {Same, Auth, First, FirstInTls, "ReadTlsResponse",
                                "SwitchFrontend"}

\* In hand: units read from a side as a message of type m; "then" follows the write.
Hold(s, m, us, then) == [side |-> s, msg |-> m, units |-> us, then |-> then]

\* A mistake: the callback is told of the wrong side.
MessageSwapped(s, m, b) == [side |-> Peer(s), msg |-> m, body |-> b]
Message(s, m, b) == [side |-> s, msg |-> m, body |-> b]

TypeOK ==
    /\ pc \in Pc
    /\ state \in State \cup {NoState}
    /\ wrap \in [Side -> Wrap]
    /\ inbox \in [Side -> Seq(Unit)]
    /\ eof \in [Side -> BOOLEAN]
    /\ outbox \in [Side -> Seq(Unit)]
    /\ hand \in [side : Side, msg : Msg \cup {TlsResponse}, units : Seq(Unit), then : Then]
    /\ told \in Seq([side : Side, msg : Msg, body : Byte \cup Body])
    /\ result \in Result \cup {Running}

(***************************************************************************)
(* Conveyor::new, and go() up to its first await.                          *)
(***************************************************************************)
Init ==
    /\ pc = "ReadMsg"
    /\ state = NoState
    /\ wrap = [s \in Side |-> "Plain"]
    /\ inbox = [s \in Side |-> <<>>]
    /\ eof = [s \in Side |-> FALSE]
    /\ outbox = [s \in Side |-> <<>>]
    /\ hand = Hold("Frontend", "Initial", <<>>, First)
    /\ told = <<>>
    /\ result = Running

-----------------------------------------------------------------------------
(***************************************************************************)
(* Streams.  A read can go on when something arrived or the peer is gone.  *)
(* unwrap_stream allows none, and no write, while a handshake is under way.*)
(***************************************************************************)
Disrupted(s) == wrap[s] = "TlsHandshake"

\* A mistake: the end of a stream does not wake its reader.
ReadableDeaf(s) == inbox[s] # <<>> \/ Disrupted(s)
Readable(s) == inbox[s] # <<>> \/ eof[s] \/ Disrupted(s)
Fails(s) == inbox[s] = <<>> \/ Disrupted(s)
Failure(s) == IF Disrupted(s) THEN "HandshakeDisrupted" ELSE "IoError"

\* A mistake: the read that select drops has taken its byte already.
PopBoth(s) ==
    inbox' = [t \in Side |-> IF inbox[t] = <<>> THEN <<>> ELSE Tail(inbox[t])]
Pop(s) == inbox' = [inbox EXCEPT ![s] = Tail(@)]

\* A type byte is what the next byte is taken for, a body's first one included.
HeadByte(s) == LET v == Head(inbox[s]).val IN IF v \in Byte THEN v ELSE UnknownByte

\* go() ends; what it holds is dropped with it.
Finish(r) == pc' = "Done" /\ result' = r

\* A mistake: the header is written to the stream under the TLS one.
HeaderPlain(m, enc) == IF TypeByteOf[m] = "" THEN <<>> ELSE <<ByteUnit(TypeByteOf[m], FALSE)>>

\* What is written for the message in hand: put_header names the type byte anew.
Header(m, enc) == IF TypeByteOf[m] = "" THEN <<>> ELSE <<ByteUnit(TypeByteOf[m], enc)>>

\* Mistakes: the type byte is not written anew; the answer to a TLS request goes as read.
OutgoingBodyOnly(h, enc) ==
    IF h.msg = TlsResponse THEN <<ByteUnit(TLS_SUPPORTED, enc)>>
    ELSE <<[h.units[Len(h.units)] EXCEPT !.enc = enc]>>

OutgoingAsRead(h, enc) ==
    IF h.msg = TlsResponse THEN <<[h.units[1] EXCEPT !.enc = enc]>>
    ELSE Header(h.msg, enc) \o <<[h.units[Len(h.units)] EXCEPT !.enc = enc]>>

Outgoing(h, enc) ==
    IF h.msg = TlsResponse THEN <<ByteUnit(TLS_SUPPORTED, enc)>>
    ELSE Header(h.msg, enc) \o <<[h.units[Len(h.units)] EXCEPT !.enc = enc]>>

-----------------------------------------------------------------------------
(***************************************************************************)
(* read_through!: read and decode one message, tell the callback, and only *)
(* then write (the next step).  A failed read ends the session.            *)
(***************************************************************************)
ReadMsg ==
    LET s == hand.side
    IN  /\ pc = "ReadMsg"
        /\ Readable(s)
        /\ IF Fails(s) THEN
               Finish(Failure(s)) /\ told' = <<>> /\ UNCHANGED <<inbox, hand>>
           ELSE
               LET u == Head(inbox[s])
                   units == Append(hand.units, u)
               IN  /\ Pop(s)
                   /\ \E r \in Outcomes(u, hand.msg) :
                        IF r = "ok" THEN
                            /\ pc' = "Write"
                            /\ hand' = Hold(s, hand.msg, units,
                                            Continuation(hand.then, u.val, state))
                            /\ told' = <<Message(s, hand.msg, u.val)>>
                            /\ UNCHANGED result
                        ELSE
                            /\ Finish(r)
                            /\ hand' = [hand EXCEPT !.units = units]
                            /\ told' = <<>>
        /\ UNCHANGED <<state, wrap, eof, outbox>>

(***************************************************************************)
(* write_backend and write_frontend: write_all to the other side, then on  *)
(* to the next state, the next step of the TLS exchange, or the end.       *)
(***************************************************************************)
Written ==
    LET p == Peer(hand.side)
        then == hand.then
    IN  /\ outbox' = [outbox EXCEPT ![p] = @ \o Outgoing(hand, wrap[p] = "Tls")]
        /\ hand' = [hand EXCEPT !.units = <<>>]
        /\ IF then \in State THEN pc' = "Select" /\ state' = then /\ UNCHANGED result
           ELSE IF then \in Result THEN Finish(then) /\ UNCHANGED state
           ELSE pc' = then /\ UNCHANGED <<state, result>>

\* write_all to a peer that is gone may fail, after a part of the message got out.
WriteFails ==
    LET p == Peer(hand.side)
        out == Outgoing(hand, wrap[p] = "Tls")
    IN  /\ eof[p]
        /\ \E k \in 0 .. Len(out) - 1 :
             /\ outbox' = [outbox EXCEPT ![p] = @ \o SubSeq(out, 1, k)]
             /\ hand' = [hand EXCEPT !.units = SubSeq(@, k + 1, Len(@))]
        /\ Finish("IoError")
        /\ UNCHANGED state

Write ==
    /\ pc = "Write"
    /\ IF Disrupted(Peer(hand.side))
       THEN Finish("HandshakeDisrupted") /\ UNCHANGED <<state, outbox, hand>>
       ELSE Written \/ WriteFails
    /\ told' = <<>>
    /\ UNCHANGED <<wrap, inbox, eof>>

-----------------------------------------------------------------------------
(***************************************************************************)
(* The answer of the backend to a TLS request.  Whatever it is, but for an *)
(* error, the frontend will be told that TLS is supported.                 *)
(***************************************************************************)
ReadTlsResponse ==
    LET b == HeadByte("Backend")
        byte == <<Head(inbox["Backend"])>>
    IN  /\ pc = "ReadTlsResponse"
        /\ Readable("Backend")
        /\ IF Fails("Backend") THEN Finish(Failure("Backend")) /\ UNCHANGED <<inbox, hand>>
           ELSE /\ Pop("Backend")
                /\ CASE b = TLS_NOT_SUPPORTED ->
                          /\ pc' = "Write"
                          /\ hand' = Hold("Backend", TlsResponse, byte, "SwitchFrontend")
                          /\ UNCHANGED result
                     [] b = TLS_SUPPORTED ->
                          /\ pc' = "SwitchBackend"
                          /\ hand' = Hold("Backend", TlsResponse, byte, "SwitchFrontend")
                          /\ UNCHANGED result
                     [] b = TypeByteOf["ErrorResponse"] ->
                          /\ pc' = "ReadMsg"
                          /\ hand' = Hold("Backend", "ErrorResponse", byte, "Ok")
                          /\ UNCHANGED result
                     [] OTHER ->
                          /\ Finish("UnknownType")
                          /\ hand' = [hand EXCEPT !.side = "Backend", !.units = byte]
        /\ told' = <<>>
        /\ UNCHANGED <<state, wrap, eof, outbox>>

\* A mistake: the handshake with the backend is begun and not awaited.
SwitchToTlsNoAwait(s) ==
    /\ pc = (IF s = "Backend" THEN "SwitchBackend" ELSE "SwitchFrontend")
    /\ wrap' = [wrap EXCEPT ![s] = "TlsHandshake"]
    /\ pc' = IF s = "Backend" THEN "Write" ELSE "AwaitFrontend"
    /\ told' = <<>>
    /\ UNCHANGED <<state, inbox, eof, outbox, hand, result>>

(***************************************************************************)
(* switch_to_tls takes the plain stream out of the wrap, hands it to the   *)
(* TLS provider and awaits.                                                *)
(***************************************************************************)
SwitchToTls(s) ==
    /\ pc = (IF s = "Backend" THEN "SwitchBackend" ELSE "SwitchFrontend")
    /\ IF wrap[s] = "Plain"
       THEN /\ wrap' = [wrap EXCEPT ![s] = "TlsHandshake"]
            /\ pc' = IF s = "Backend" THEN "AwaitBackend" ELSE "AwaitFrontend"
            /\ UNCHANGED result
       ELSE Finish("HandshakeDisrupted") /\ UNCHANGED wrap
    /\ told' = <<>>
    /\ UNCHANGED <<state, inbox, eof, outbox, hand>>

(***************************************************************************)
(* The provider answers.  It may refuse the peer, and it has to when the   *)
(* peer sent something in the clear or went away; then unwrap() panics.    *)
(***************************************************************************)
HandshakeFails(s) == inbox[s] # <<>> \/ eof[s]

AwaitTls(s) ==
    /\ pc = (IF s = "Backend" THEN "AwaitBackend" ELSE "AwaitFrontend")
    /\ \/ Finish("Panicked") /\ UNCHANGED <<wrap, hand>>
       \/ /\ ~HandshakeFails(s)
          /\ wrap' = [wrap EXCEPT ![s] = "Tls"]
          /\ IF wrap[s] # "TlsHandshake" THEN
                 Finish("HandshakeDisrupted") /\ UNCHANGED hand
             ELSE IF s = "Backend" THEN
                 pc' = "Write" /\ UNCHANGED <<hand, result>>
             ELSE
                 /\ pc' = "ReadMsg"
                 /\ hand' = Hold("Frontend", "Initial", <<>>, FirstInTls)
                 /\ UNCHANGED result
    /\ told' = <<>>
    /\ UNCHANGED <<state, inbox, eof, outbox>>

-----------------------------------------------------------------------------
(***************************************************************************)
(* A type byte arrives in the loop: the arm that matches says which        *)
(* message to read.                                                        *)
(***************************************************************************)
Dispatch(s) ==
    LET b == HeadByte(s)
        byte == <<Head(inbox[s])>>
        arms == Matching(s, b, state)
    IN  IF Fails(s) THEN Finish(Failure(s)) /\ UNCHANGED <<inbox, hand>>
        ELSE
            /\ Pop(s)
            /\ IF arms = {} THEN
                   /\ Finish(IF b \in TypeByte THEN "UnexpectedType" ELSE "UnknownType")
                   /\ hand' = [hand EXCEPT !.side = s, !.units = byte]
               ELSE
                   /\ pc' = "ReadMsg"
                   /\ \E a \in arms : hand' = Hold(s, a.msg, byte, a.to)
                   /\ UNCHANGED result

(***************************************************************************)
(* future::select in read_type_byte_from_both: poll the backend's read,    *)
(* then the frontend's; the first that is ready wins and the other is      *)
(* dropped.  If neither is, sleep until one side wakes the task, and poll  *)
(* both again in the same order.                                           *)
(***************************************************************************)
Poll(s, at, otherwise) ==
    /\ pc = at
    /\ IF Readable(s) THEN Dispatch(s)
       ELSE pc' = otherwise /\ UNCHANGED <<inbox, hand, result>>
    /\ told' = <<>>
    /\ UNCHANGED <<state, wrap, eof, outbox>>

PollBackend == Poll("Backend", "Select", "PollFrontend")
PollFrontend == Poll("Frontend", "PollFrontend", "Parked")

\* A mistake: only the backend's read has registered a waker.
WakeByBackend ==
    /\ pc = "Parked"
    /\ Readable("Backend")
    /\ pc' = "Select"
    /\ told' = <<>>
    /\ UNCHANGED <<state, wrap, inbox, eof, outbox, hand, result>>

Wake ==
    /\ pc = "Parked"
    /\ \E s \in Side : Readable(s)
    /\ pc' = "Select"
    /\ told' = <<>>
    /\ UNCHANGED <<state, wrap, inbox, eof, outbox, hand, result>>

Step ==
    \/ ReadMsg
    \/ Write
    \/ ReadTlsResponse
    \/ \E s \in Side : SwitchToTls(s) \/ AwaitTls(s)
    \/ PollBackend
    \/ PollFrontend
    \/ Wake
=============================================================================
