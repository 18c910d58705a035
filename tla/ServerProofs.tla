---------------------------- MODULE ServerProofs ----------------------------
(***************************************************************************)
(* The safety of the server, for every set of clients: its types, and the  *)
(* numbers it gives them.  That a number is taken once only rests on who   *)
(* can come to the counter: a connection waits in the backlog once, and    *)
(* until its first task has run it has no number.                          *)
(***************************************************************************)
EXTENDS Server, TLAPS

\* While the process runs, the backlog holds connections that wait, each of them once.
Queued ==
    loop # "Exited" =>
        /\ \A i \in 1 .. Len(backlog) : task[backlog[i]] = "Waiting"
        /\ \A i, j \in 1 .. Len(backlog) : backlog[i] = backlog[j] => i = j

\* Nobody has a number before the first task took one.
Unnumbered == \A c \in Client : task[c] \in {"None", "Waiting", "Spawned"} => client_id[c] = 0

\* The numbers alone: what DistinctIds says of them.
Numbered ==
    /\ next_client_id >= 1
    /\ \A c, d \in Client : client_id[c] = client_id[d] /\ c # d => client_id[c] = 0
    /\ \A c \in Client : client_id[c] < next_client_id
    /\ \A n \in 1 .. next_client_id - 1 : \E c \in Client : client_id[c] = n

Attended == \A c \in Client : Running(c) => client_id[c] # 0

ServerInv == ServerTypeOK /\ Queued /\ Unnumbered /\ Numbered /\ Attended

-----------------------------------------------------------------------------
\* Init of Server satisfies the invariant.
LEMMA ServerInitInv == Init => ServerInv
<1> SUFFICES ASSUME Init PROVE ServerInv
  OBVIOUS
<1> USE DEF Init
<1>1. ServerTypeOK
  BY DEF ServerTypeOK, Phase, Ended
<1>2. Queued /\ Unnumbered /\ Numbered /\ Attended
  BY DEF Queued, Unnumbered, Numbered, Attended, Running
<1> QED
  BY <1>1, <1>2 DEF ServerInv

\* Steps that leave the counter alone keep the numbers.
LEMMA NumbersStay ==
    ASSUME Numbered, UNCHANGED <<next_client_id, client_id>>
    PROVE  Numbered'
BY DEF Numbered

\* A connection that arrives is put at the end of the backlog and has no number.
LEMMA ArriveKeeps ==
    ASSUME ServerInv, NEW c \in Client, Arrive(c)
    PROVE  ServerInv'
<1> USE DEF ServerInv, Arrive
<1>1. ServerTypeOK'
  BY DEF ServerTypeOK, Phase
<1>2. Queued'
  <2>1. \A i \in 1 .. Len(backlog) : backlog[i] # c /\ backlog[i] \in Client
    BY DEF Queued, ServerTypeOK
  <2> QED
    BY <2>1 DEF Queued, ServerTypeOK
<1>3. Unnumbered' /\ Attended'
  BY DEF ServerTypeOK, Unnumbered, Attended, Running
<1> QED
  BY <1>1, <1>2, <1>3, NumbersStay

\* accept takes the head of the backlog, which is nowhere else in it.
LEMMA AcceptKeeps ==
    ASSUME ServerInv, Accept
    PROVE  ServerInv'
<1> USE DEF ServerInv, Accept
<1> DEFINE c == Head(backlog)
<1>1. /\ c \in Client
      /\ task[c] = "Waiting"
      /\ Tail(backlog) \in Seq(Client)
      /\ Len(Tail(backlog)) = Len(backlog) - 1
      /\ \A i \in 1 .. Len(Tail(backlog)) :
             /\ i + 1 \in 1 .. Len(backlog)
             /\ Tail(backlog)[i] = backlog[i + 1]
             /\ Tail(backlog)[i] # c
             /\ Tail(backlog)[i] \in Client
  <2>1. backlog \in Seq(Client) /\ backlog # <<>> /\ c = backlog[1] /\ Len(backlog) \in Nat \ {0}
    BY DEF ServerTypeOK
  <2>2. 1 \in 1 .. Len(backlog) /\ c \in Client /\ task[c] = "Waiting"
    BY <2>1 DEF Queued
  <2> QED
    BY <2>1, <2>2 DEF Queued
<1> HIDE DEF c
<1>2. ServerTypeOK'
  BY <1>1 DEF ServerTypeOK, Phase, c
<1>3. task' = [task EXCEPT ![c] = "Spawned"] /\ backlog' = Tail(backlog)
  BY DEF c
<1>4. Queued'
  BY <1>1, <1>3 DEF Queued, ServerTypeOK
<1>5. Unnumbered' /\ Attended'
  BY <1>1, <1>3 DEF ServerTypeOK, Unnumbered, Attended, Running
<1> QED
  BY <1>2, <1>4, <1>5, NumbersStay

\* fetch_add hands the next number to a task that had none.
LEMMA HandleClientKeeps ==
    ASSUME ServerInv, NEW c \in Client, HandleClient(c)
    PROVE  ServerInv'
<1> USE DEF ServerInv, HandleClient, FetchAdd
<1>1. PICK t \in {"Panicked", "NotHandled", "Connecting"} : task' = [task EXCEPT ![c] = t]
  OBVIOUS
<1>2. ServerTypeOK'
  BY <1>1 DEF ServerTypeOK, Phase, Ended
<1>3. Queued'
  <2>1. \A i \in 1 .. Len(backlog) : backlog[i] # c /\ backlog[i] \in Client
    BY DEF Queued, ServerTypeOK
  <2> QED
    BY <1>1, <2>1 DEF Queued, ServerTypeOK
<1>4. client_id[c] = 0 /\ next_client_id \in Nat /\ client_id \in [Client -> Nat]
  BY DEF Unnumbered, ServerTypeOK
<1>5. Unnumbered'
  BY <1>1, <1>4 DEF Unnumbered, ServerTypeOK
<1>6. Attended'
  BY <1>1, <1>4 DEF Attended, Running, ServerTypeOK, Numbered
<1>7. Numbered'
  <2>1. /\ next_client_id' = next_client_id + 1
        /\ client_id'[c] = next_client_id
        /\ \A d \in Client \ {c} : client_id'[d] = client_id[d]
    BY <1>4
  <2>2. \A n \in 1 .. next_client_id' - 1 : \E d \in Client : client_id'[d] = n
    <3> SUFFICES ASSUME NEW n \in 1 .. next_client_id PROVE \E d \in Client : client_id'[d] = n
      BY <1>4, <2>1
    <3>1. CASE n = next_client_id
      BY <2>1, <3>1
    <3>2. CASE n # next_client_id
      <4>1. PICK d \in Client : client_id[d] = n
        BY <1>4, <3>2 DEF Numbered
      <4> QED
        BY <1>4, <2>1, <4>1
    <3> QED
      BY <3>1, <3>2
  <2>3. \A d, e \in Client : client_id'[d] = client_id'[e] /\ d # e => client_id'[d] = 0
    BY <1>4, <2>1 DEF Numbered
  <2>4. next_client_id' >= 1 /\ \A d \in Client : client_id'[d] < next_client_id'
    BY <1>4, <2>1 DEF Numbered
  <2> QED
    BY <2>2, <2>3, <2>4 DEF Numbered
<1> QED
  BY <1>2, <1>3, <1>5, <1>6, <1>7

\* The steps that touch neither the backlog nor the counter.
LEMMA OthersKeep ==
    ASSUME ServerInv,
           \/ Listen \/ AcceptFails \/ Exit
           \/ \E c \in Client : HangUp(c) \/ Connect(c) \/ Stop(c)
    PROVE  ServerInv'
<1> USE DEF ServerInv
<1>1. CASE Listen \/ AcceptFails
  <2> USE <1>1 DEF Listen, AcceptFails
  <2>1. ServerTypeOK' /\ Queued'
    BY DEF ServerTypeOK, Queued
  <2>2. Unnumbered' /\ Attended'
    BY DEF Unnumbered, Attended, Running
  <2> QED
    BY <2>1, <2>2, NumbersStay
<1>2. CASE Exit
  <2> USE <1>2 DEF Exit
  <2>1. ServerTypeOK' /\ Queued'
    BY DEF ServerTypeOK, Queued, Phase, Ended
  <2>2. Unnumbered' /\ Attended'
    BY DEF Unnumbered, Attended, Running, ServerTypeOK
  <2> QED
    BY <2>1, <2>2, NumbersStay
<1>3. ASSUME NEW c \in Client, HangUp(c) PROVE ServerInv'
  <2> USE <1>3 DEF HangUp
  <2>1. ServerTypeOK' /\ Queued'
    BY DEF ServerTypeOK, Queued
  <2>2. Unnumbered' /\ Attended'
    BY DEF Unnumbered, Attended, Running
  <2> QED
    BY <2>1, <2>2, NumbersStay
<1>4. ASSUME NEW c \in Client, Connect(c) \/ Stop(c) PROVE ServerInv'
  <2> USE <1>4 DEF Connect, Stop
  <2>1. PICK t \in {"Conveying", "NotConnected", "Stopped", "Panicked"} :
            task' = [task EXCEPT ![c] = t]
    OBVIOUS
  <2>2. ServerTypeOK'
    BY <2>1 DEF ServerTypeOK, Phase, Ended
  <2>3. Queued'
    <3>1. \A i \in 1 .. Len(backlog) : backlog[i] # c /\ backlog[i] \in Client
      BY DEF Queued, ServerTypeOK
    <3> QED
      BY <2>1, <3>1 DEF Queued, ServerTypeOK
  <2>4. Unnumbered' /\ Attended'
    BY <2>1 DEF Unnumbered, Attended, Running, ServerTypeOK
  <2> QED
    BY <2>2, <2>3, <2>4, NumbersStay
<1> QED
  BY <1>1, <1>2, <1>3, <1>4

\* Every step of the server keeps the invariant, and so does a step that changes nothing.
LEMMA ServerNextInv == ServerInv /\ [Next]_vars => ServerInv'
<1> SUFFICES ASSUME ServerInv, [Next]_vars PROVE ServerInv'
  OBVIOUS
<1>1. CASE UNCHANGED vars
  BY <1>1 DEF vars, ServerInv, ServerTypeOK, Queued, Unnumbered, Numbered, Attended, Running
<1>2. CASE Next
  BY <1>2, ArriveKeeps, AcceptKeeps, HandleClientKeeps, OthersKeep DEF Next
<1> QED
  BY <1>1, <1>2

\* What the numbers are, as DistinctIds puts it.
LEMMA NumberedIsDistinct == ServerInv => DistinctIds
<1> SUFFICES ASSUME ServerInv PROVE DistinctIds
  OBVIOUS
<1>1. {client_id[c] : c \in Client} \cup {0} \subseteq 0 .. next_client_id - 1
  BY DEF ServerInv, Numbered, ServerTypeOK
<1>2. 0 .. next_client_id - 1 \subseteq {client_id[c] : c \in Client} \cup {0}
  <2> SUFFICES ASSUME NEW n \in 0 .. next_client_id - 1, n # 0
               PROVE  \E c \in Client : client_id[c] = n
    OBVIOUS
  <2>1. n \in 1 .. next_client_id - 1
    BY DEF ServerInv, ServerTypeOK
  <2> QED
    BY <2>1 DEF ServerInv, Numbered
<1> QED
  BY <1>1, <1>2 DEF DistinctIds, ServerInv, Numbered, Attended

-----------------------------------------------------------------------------
\* For every set of clients, the loop, the counter and the tasks of server.rs keep their types.
THEOREM ServerTypes == Spec => []ServerTypeOK
<1>1. ServerInv => ServerTypeOK
  BY DEF ServerInv
<1> QED
  BY <1>1, ServerInitInv, ServerNextInv, PTL DEF Spec

(***************************************************************************)
(* For every set of clients, however their tasks race for next_client_id:  *)
(* no two have the same number, no number is skipped, and a session that   *)
(* connects or conveys has one.                                            *)
(***************************************************************************)
THEOREM IdsDistinct == Spec => []DistinctIds
<1> QED
  BY NumberedIsDistinct, ServerInitInv, ServerNextInv, PTL DEF Spec
=============================================================================
