------------------------------- MODULE Server -------------------------------
(***************************************************************************)
(* listen, loop_accepting and handle_client (server.rs): the start, the    *)
(* accept loop, the two tasks it spawns for a client, the counter they     *)
(* share, and main, which takes every task down with it when it returns.   *)
(*                                                                         *)
(* A session itself is Conveyor; here it lasts until it stops.  A task     *)
(* that panics dies alone: async-std's executor threads catch the panic.   *)
(***************************************************************************)
EXTENDS Naturals, Sequences

CONSTANTS
    Client,   \* the connections that clients may make
    Hanging   \* the ones for which the target never answers connect

ASSUME ClientAssumption == Hanging \subseteq Client

VARIABLES
    loop,            \* Starting in listen; Accepting or Returned; Exited once main is over
    next_client_id,  \* the AtomicUsize
    backlog,         \* connections that wait to be accepted
    task,            \* where the task of each client is
    client_id,       \* the number it took, 0 for none
    gone,            \* clients that hung up
    target_host      \* of the Config: an IP address, or a name that does not parse as one

vars == <<loop, next_client_id, backlog, task, client_id, gone, target_host>>

\* Where a task can be, and where it stays.
Ended == {"NotHandled", "NotConnected", "Stopped", "Panicked", "Killed"}
Phase == {"None", "Waiting", "Spawned", "Connecting", "Conveying"} \cup Ended

Init ==
    /\ loop = "Starting"
    /\ next_client_id = 1
    /\ backlog = <<>>
    /\ task = [c \in Client |-> "None"]
    /\ client_id = [c \in Client |-> 0]
    /\ gone = {}
    /\ target_host \in {"Ip", "Name"}

-----------------------------------------------------------------------------
(***************************************************************************)
(* Clients (external).                                                     *)
(***************************************************************************)
Arrive(c) ==
    /\ task[c] = "None"
    /\ loop \in {"Accepting", "Returned"}
    /\ task' = [task EXCEPT ![c] = "Waiting"]
    /\ backlog' = Append(backlog, c)
    /\ UNCHANGED <<loop, next_client_id, client_id, gone, target_host>>

HangUp(c) ==
    /\ task[c] \notin {"None"} \cup Ended
    /\ c \notin gone
    /\ gone' = gone \cup {c}
    /\ UNCHANGED <<loop, next_client_id, backlog, task, client_id, target_host>>

-----------------------------------------------------------------------------
\* listen: the certificate is read and the port bound, or main returns the error.
Listen ==
    /\ loop = "Starting"
    /\ loop' \in {"Accepting", "Exited"}
    /\ UNCHANGED <<next_client_id, backlog, task, client_id, gone, target_host>>

\* A mistake: the loop handles a client before it accepts the next.
AcceptInTurn ==
    /\ loop = "Accepting"
    /\ backlog # <<>>
    /\ \A c \in Client : task[c] \notin {"Spawned", "Connecting"}
    /\ task' = [task EXCEPT ![Head(backlog)] = "Spawned"]
    /\ backlog' = Tail(backlog)
    /\ UNCHANGED <<loop, next_client_id, client_id, gone, target_host>>

(***************************************************************************)
(* A turn of the loop: the next connection gets a task of its own.         *)
(***************************************************************************)
Accept ==
    /\ loop = "Accepting"
    /\ backlog # <<>>
    /\ task' = [task EXCEPT ![Head(backlog)] = "Spawned"]
    /\ backlog' = Tail(backlog)
    /\ UNCHANGED <<loop, next_client_id, client_id, gone, target_host>>

\* `let stream = stream?`: an error of accept ends the loop.
AcceptFails ==
    /\ loop = "Accepting"
    /\ loop' = "Returned"
    /\ UNCHANGED <<next_client_id, backlog, task, client_id, gone, target_host>>

\* main returns what the loop returned, and the process ends with all its tasks.
Exit ==
    /\ loop = "Returned"
    /\ loop' = "Exited"
    /\ task' = [c \in Client |-> IF task[c] \in {"None"} \cup Ended THEN task[c] ELSE "Killed"]
    /\ UNCHANGED <<next_client_id, backlog, client_id, gone, target_host>>

-----------------------------------------------------------------------------
(***************************************************************************)
(* The first task: fetch_add, and handle_client up to its own spawn.  The  *)
(* unwrap of peer_addr panics for a client that is gone; a target_host     *)
(* that is no IP address makes it fail.                                    *)
(***************************************************************************)
\* Mistakes: the counter is loaded and stored, so that a task may see an old value; it is
\* counted down.
LoadAndStore(c) ==
    \E n \in 1 .. next_client_id :
        client_id' = [client_id EXCEPT ![c] = n] /\ next_client_id' = n + 1

FetchSub(c) ==
    /\ client_id' = [client_id EXCEPT ![c] = next_client_id]
    /\ next_client_id' = next_client_id - 1

FetchAdd(c) ==
    /\ client_id' = [client_id EXCEPT ![c] = next_client_id]
    /\ next_client_id' = next_client_id + 1

HandleClient(c) ==
    /\ loop # "Exited"
    /\ task[c] = "Spawned"
    /\ FetchAdd(c)
    /\ \/ c \in gone /\ task' = [task EXCEPT ![c] = "Panicked"]
       \/ target_host = "Name" /\ task' = [task EXCEPT ![c] = "NotHandled"]
       \/ target_host = "Ip" /\ task' = [task EXCEPT ![c] = "Connecting"]
    /\ UNCHANGED <<loop, backlog, gone, target_host>>

(***************************************************************************)
(* The second task: connect to the target, then convey.                    *)
(***************************************************************************)
Connect(c) ==
    /\ loop # "Exited"
    /\ task[c] = "Connecting"
    /\ c \notin Hanging
    /\ \E t \in {"Conveying", "NotConnected"} : task' = [task EXCEPT ![c] = t]
    /\ UNCHANGED <<loop, next_client_id, backlog, client_id, gone, target_host>>

\* convey returns, or panics in a handshake; it does once the client is gone (Ends of Session).
Stop(c) ==
    /\ loop # "Exited"
    /\ task[c] = "Conveying"
    /\ \E t \in {"Stopped", "Panicked"} : task' = [task EXCEPT ![c] = t]
    /\ UNCHANGED <<loop, next_client_id, backlog, client_id, gone, target_host>>

Next ==
    \/ Listen \/ Accept \/ AcceptFails \/ Exit
    \/ \E c \in Client : Arrive(c) \/ HangUp(c) \/ HandleClient(c) \/ Connect(c) \/ Stop(c)

\* The executor runs every task that can go on, and the loop while it is one of them.
Fairness ==
    /\ WF_vars(Accept)
    /\ WF_vars(Exit)
    /\ \A c \in Client :
         /\ WF_vars(HandleClient(c))
         /\ WF_vars(Connect(c))
         /\ WF_vars(c \in gone /\ Stop(c))

Spec == Init /\ [][Next]_vars /\ Fairness

-----------------------------------------------------------------------------
\* Type correctness of the loop, the counter and the tasks of server.rs.
ServerTypeOK ==
    /\ loop \in {"Starting", "Accepting", "Returned", "Exited"}
    /\ next_client_id \in Nat
    /\ backlog \in Seq(Client)
    /\ task \in [Client -> Phase]
    /\ client_id \in [Client -> Nat]
    /\ gone \subseteq Client
    /\ target_host \in {"Ip", "Name"}

Running(c) == task[c] \in {"Connecting", "Conveying"}

(***************************************************************************)
(* The log lines "#{client_id}" can be told apart: no two clients have the *)
(* same number, and numbers are given without gaps, though the tasks of    *)
(* clients accepted one after the other race for them.                     *)
(***************************************************************************)
DistinctIds ==
    /\ \A c, d \in Client : client_id[c] = client_id[d] /\ c # d => client_id[c] = 0
    /\ {client_id[c] : c \in Client} \cup {0} = 0 .. next_client_id - 1
    /\ \A c \in Client : Running(c) => client_id[c] # 0

(***************************************************************************)
(* "supports multiple simultaneous connections": a client that connects is *)
(* taken to a session of its own, or told that there is none, although the *)
(* target hangs for others and others' sessions go on or panic.            *)
(***************************************************************************)
Served ==
    \A c \in Client \ Hanging :
        task[c] = "Waiting" ~> task[c] \in {"Conveying"} \cup Ended

(***************************************************************************)
(* A session ends by its own doing: convey returns, or panics.  TestEnv's  *)
(* drop takes a loop that has returned for a failure ("server exited        *)
(* earlier"); the `?` on an accepted stream lets it return.                *)
(***************************************************************************)
SessionsEndByThemselves ==
    [][\A c \in Client : task[c] = "Conveying" =>
           task'[c] \in {"Conveying", "Stopped", "Panicked"}]_vars
=============================================================================
