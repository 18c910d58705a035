-------------------------------- MODULE Pipe --------------------------------
(***************************************************************************)
(* What a session promises, whatever the two peers say: a pipe in each     *)
(* direction.  What came out of a pipe is what went in, in order, without  *)
(* gaps, additions or changes, save for one byte: to a request for TLS the *)
(* frontend hears TLS_SUPPORTED whatever the backend answered, because the *)
(* conveyor speaks TLS to the frontend itself.                             *)
(***************************************************************************)
EXTENDS Protocol

VARIABLES
    in,   \* what each side put into its pipe
    out   \* what each side got out of the other's pipe

Init == in = [s \in Side |-> <<>>] /\ out = [s \in Side |-> <<>>]

\* The backend's first byte answers the frontend's request for TLS.
AnswersTls(s, i) ==
    s = "Backend" /\ i = 1 /\ in["Frontend"] # <<>> /\ in["Frontend"][1] = "TLS"

Expected(s, i) ==
    IF AnswersTls(s, i) /\ in[s][1] = TLS_NOT_SUPPORTED THEN TLS_SUPPORTED ELSE in[s][i]

\* A side puts something behind what it put in before.
Put(s) ==
    /\ Len(in'[s]) > Len(in[s])
    /\ in[s] = SubSeq(in'[s], 1, Len(in[s]))
    /\ in'[Peer(s)] = in[Peer(s)]
    /\ UNCHANGED out

\* At most one message comes out in a step, and never more than went in.
Get(s) ==
    LET got == Len(out[Peer(s)])
    IN  /\ \E k \in 1 .. 2 :
             /\ got + k <= Len(in[s])
             /\ out' = [out EXCEPT ![Peer(s)] = @ \o [i \in 1 .. k |-> Expected(s, got + i)]]
        /\ UNCHANGED in

Next == \E s \in Side : Put(s) \/ Get(s)

Spec == Init /\ [][Next]_<<in, out>>
=============================================================================
