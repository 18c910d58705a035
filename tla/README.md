# Postgread in TLA+

Postgread is a proxy for the PostgreSQL frontend/backend protocol: it accepts clients, connects
each one to a target server, carries the messages of the session in both directions, logs them
through a callback, and speaks TLS to either side when asked. This directory models it, checks
the models with TLC on small instances, and proves the safety results with TLAPS.

## 1. Inventory

| Component | Source | State it keeps | Operations |
|---|---|---|---|
| conveyor | `src/src/convey.rs`, `Conveyor::go` | the local `state`, the await it is at, the message in hand | `read_through!`, `read_type_byte_from_both`, `write_*`, the loop |
| protocol table | the `match` of `go`, `process_backend_authentication`, `type_byte.rs` | none | which message is taken in which state, and what follows |
| TLS switch | `StreamWrap`, `switch_to_tls` in `convey.rs`, `tls/interface.rs` | `Plain`, `TlsHandshake` or `Tls` for each side | `replace_plain_with`, `switch_to_tls`, `unwrap_stream` |
| TLS provider | `tls/native.rs` | the library's | `connect`, `accept` |
| message framing | `msg/util/{read,decode,encode,async_io}.rs` | one `Vec`, the cursors of `BytesTarget` and `BytesSource` | `read_msg`, `alloc_vec`, `put_header`, `take_*` |
| message bodies | `msg/body/*.rs`, `msg/parts.rs` | none | `decode_body` of each type |
| server | `server.rs` | `next_client_id`, one task or two for each client | `loop_accepting`, `handle_client`, `listen` |
| command line | `main.rs` | none | `main`, `dump_msg` |

**How they interact.** `main` blocks on `loop_accepting`. For each connection the loop spawns a
task, which takes a number with `fetch_add` and calls `handle_client`; that spawns a second task,
which connects to the target and awaits `convey`. `convey` is a single sequential task: it never
reads and writes at the same time, and apart from the one `select` over both sides it waits for
one side only. Its only shared state is what it shares with its peers: four byte streams. The
callback is called synchronously between a read and the write of the same message.

**What is hard.** The peers run concurrently with the conveyor and with each other, so the type
byte that arrives first decides which arm is taken. `select` drops the future that lost. A peer may
go away between any two bytes. The callback runs before the write. The TLS exchange passes through
a window in which a side has no stream at all, and its one-byte answer shares its values with type
bytes. Length fields come from the peer. An error in the accept loop concerns every session.
`PROJECT.json` lists each hazard at its line, with the properties that would catch it.

**What makes each component correct.**

- conveyor: nothing is lost, doubled, reordered or altered; the log is what was carried; the result
  tells how the session ended; a session ends with its peers and leaves nobody waiting;
- protocol table: peers that follow the protocol are refused only what is meant to be `Unsupported`, a
  frontend message passes only when it was called for, and the conveyor's state is the backend's;
- TLS switch: encryption as agreed, and no read or write in the handshake window;
- framing: the stream is left exactly at the next message, and cursors stay in bounds;
- message bodies: a body is accepted exactly if it encodes a value, that value is what is logged, and
  a reported problem is the true one;
- server: distinct ids, clients do not hold each other up, and sessions end by their own doing.

## 2. Modules

    Protocol  <-- Pipe
       ^           :  (refinement, AnyPeers!IsPipe)
    Conveyor  <-- AnyPeers <-- MCAnyPeers      runs start, query, auth
       ^   ^
       |   Session                             runs session, official, sync_refused,
       |                                       parameters_refused
    ConveyorProofs                             the table of go(), types of its steps
       ^   ^
       |   SessionProofs (and Session)         theorems: types, the course of a session and
       |                                       what follows from it
    AnyPeersProofs (and AnyPeers)              theorems: types, nothing lost, refinement
       ^
    TlsProofs  <-- TurnProofs <-- LogProofs    theorems: TLS; turns and results; the log

    Framing   <-- FramingProofs                run framing, theorems
    Bodies                                     runs bodies, bodies_long
    Server    <-- ServerProofs                 runs server, server_killed, theorems

**`Protocol`** is vocabulary and table. A stream is a sequence of *units*: a type byte, or a body
(the length field and what follows it). A body is known by what `go` can tell apart, that is the
variants of `Initial` and `Authentication` and otherwise its type, by whether it is well formed
(`quality`), and by whether it travelled under TLS (`enc`). The `match` of `go` is the set
`AllArms`; each arm has a side, a message type, the set of states it matches and the state that
follows. Rust takes the first arm that matches; the assumption `AtMostOneArm`, which TLC evaluates
on every run, says that the order does not matter, so that the wildcard arm for errors is written
with the complement of the others.

**`Conveyor`** is `go` itself, one action per await:

| Action | Code |
|---|---|
| `ReadMsg` | `read_through!` up to the write: `read_msg`, decoding, the callback (`told`) |
| `Write` | `write_frontend` / `write_backend`, then the arm's `Ok(State)`, `return` or `Err` |
| `ReadTlsResponse` | `read_backend_type_byte` and the match on `tls_response` |
| `SwitchToTls(s)`, `AwaitTls(s)` | `switch_to_tls` up to and after the `await` of the handshake |
| `PollBackend`, `PollFrontend`, `Wake` | one poll of `future::select`: left, then right, then `Pending` until a waker runs |

`hand` is what was read and not yet written (`bytes`, and what the arm does next); `wrap` is
`StreamWrap`. `inbox` and `outbox` are the streams. Reads that fail because the peer is gone,
decoding errors, refused lengths, failed writes after a part of the bytes, and panics of a refused
handshake are all ends of `go`, with the result the code gives. `Conveyor` leaves the peers open.

**`AnyPeers`** closes it with peers that say anything out of `Says`, well formed or not, in any
order, unknown bytes and cut messages included, and that may hang up at any time. Only the framing
is assumed: the frontend opens with an `Initial`, once more after a TLS request, and sends typed
messages after its `Startup`. `sent`, `log`, `place` and (because nobody consumes it) `outbox` are
histories, so that properties can compare what went in with what came out and with what was logged:
`place` notes, for each entry of `log`, which unit of its side was the body that was told.

**`Pipe`** is the abstract specification: two sequences per direction, `Put` and `Get`, with
the one exception that a backend's refusal of TLS is heard as `TLS_SUPPORTED`. `AnyPeers!IsPipe` is
the refinement, with `in` the values of `sent` and `out` those of `outbox`.

**`Session`** closes the conveyor with a frontend and a backend that follow the protocol as
`convey/tests/protocol.rs` plays it. They are sets of moves (`FrontendSays`, `FrontendHears`,
`BackendHears`, `BackendSays`, `BackendChats`), consume what they are sent and may vanish; sessions
are unbounded. The backend's places are named after `State`, since the code says its states
are "from backend point of view"; but the moves are written down apart from the table of `go`, and
`Agreement` compares the two. The backend also asks for `KerberosV5` and for an SCM credential, as
two of the tests do; it is then in `AskedOther`, and a frontend that hears of it in `OwesOther`. There
are no further moves, because `go` ends such a session with `Unsupported`.

The constant `Ways` adds what the tests do not play although the documentation that
`src/README.md` refers to allows it, so that the two can be told apart:

| Way | What the peers do |
|---|---|
| `Sync` | after a failed `Parse` or `Bind` the backend waits for `Sync` and is ready only then; a frontend may also `Sync` with nothing executed |
| `Pipelining` | a `Parse`, `Bind`, `Execute` or `Sync` goes before the answer to the one before it, but after all earlier answers: `Parse` and `Bind`, `Bind` and `Execute`, and `Sync` right behind any of them |
| `Batching` | `Parse`, `Bind`, `Execute` and `Sync` all go before the first answer |
| `Parameters` | a `ParameterStatus` comes whenever a session is authenticated |
| `LateError` | what `Sync` commits fails: an error between `Sync` and `ReadyForQuery` |

`Pipelining` comes only with `Sync` (`PipeliningAssumption`): a backend that met an error skips what
was sent ahead until a `Sync`, and one that is ready without it, as the tests play it, would take
what was sent ahead for a new query. No protocol has that combination. `Batching` goes on from
`Pipelining` (`BatchingAssumption`). However far ahead it sends, a frontend that has sent `Sync` waits
for the `ReadyForQuery` (`Synced`), so that at most one `Sync` and one `Execute` are under way.

**`Framing`** is `read_msg` with bytes counted: how many arrived, were consumed, and where the two
cursors stand. `decode_body` is any sequence of `take_bounded` and `take_until_null`.

**`Bodies`** is `decode_body` itself. The body of each type is a list of parts (`Bind`, `Parse`,
`RowDescription`, ...: the order of the `take_*` and `decode` calls in its file); `DecodePart` and the
operators around it are the parts of `parts.rs`, the loops of `decode_sasl`, `decode_many` and
`read_struct_of_opt_fields!`, and `decode_vec`, each of them on the bytes and the cursor of
`BytesSource`; `ReadMsg` is the end of `read_msg`, which refuses a body that is not used up. The
state is a body that grows by a byte until nothing can mend it, with the decoder's verdict on it.
Beside the decoders stands a grammar (`OfPart`, `Encodings`, `Messages`) that makes all encodings
from the values, so that the two can be compared: a count and its items, a length and its bytes, a
text and its 0-byte are put together there and taken apart in the code. Both read the order of the
parts from the same lists. So `Exact` is about lengths, counts, signs, terminators and what is left
over; that the fields come in the right order and mean what their names say it cannot tell. A field
of an error or notice that comes twice is, in both, the last one. Widths are scaled down: a byte has `Base` values, a u16
`U16` bytes and a u32 `U32`, so that every length and count a field can hold occurs.

**`Server`** is `listen`, the accept loop, the tasks of each client, the counter, and `main`. It is not
composed with `Session`: all it needs of a session is that it stops once its client is gone, which
`Ends` of `Session` shows, and it gives a session nothing but its two connections.

Operators introduced by "A mistake" or "Mistakes" (`PopBoth`, `MatchingAnyQuery`, ...) take part in
no specification: each is what a definition would be if the code had a plausible bug, and
`PROJECT.json` names the property that fails when it is put in that definition's place.

## 3. Runs

| Run | Distinct states | Bounds | Shows |
|---|---|---|---|
| `start` | 163 000 | 5 units a side, sent with at most 1 unread | `AnyTypeOK`, `Conserved`, `LoggedIsCarried`, `TlsAsAgreed`, `NeverDisrupted`, `ResultTells`, `IsPipe` from the first byte into authentication |
| `query` | 543 000 | 11 units a side | `LoggedIsCarried`, `FrontendAnswers` over simple and extended queries |
| `auth` | 1 352 000 | 8 units a side | `FrontendAnswers`, `AuthenticatedFirst` over the kinds of authentication |
| `session` | 190 000 | 1 message of chatter | `SessionTypeOK`, `Understood`, `Fitting`, `Agreement`, `Answered`, `Ends`; deadlock is checked |
| `official` | 436 000 | all `Ways` but `Batching`, 1 message of chatter | `RefusedForThat`, `Fitting`, `Agreement`, `Answered`; deadlock is checked |
| `sync_refused` | violation | `Ways = {"Sync"}` | `Understood` does not hold |
| `parameters_refused` | violation | `Ways = {"Parameters"}` | `Understood` does not hold |
| `bodies` | 52 000 | 6 bytes of 4 values, u32 of 2 bytes | `BodiesTypeOK`, `Exact`, `Diagnosis` for every type but `Bind` and `RowDescription` |
| `bodies_long` | 221 000 | 8 bytes, u32 of 1 byte | `Exact`, `Diagnosis` for `Bind`, `RowDescription`, `ErrorResponse`, `Initial` |
| `framing` | 5 800 | u32 of 0..9, 10 bytes | `FramingTypeOK`, `Aligned`, `CursorsInside`, `Refused`, `CutOnlyIfShort`, `Returns` |
| `server` | 14 000 | 3 clients, one target hangs | `ServerTypeOK`, `DistinctIds`, `Served` |
| `server_killed` | violation | 2 clients | `SessionsEndByThemselves` does not hold |

**Why the bounds are enough.**

- `start`: `MaxSent = 5` units reach past a TLS request, its answer, both handshakes, the second
  `Initial` and the first messages of authentication, each of them also malformed, cut or out of
  turn; `MaxAhead = 1` lets a side send a whole message while an earlier unit is unread, so that
  both sides are readable at one poll and plain bytes may precede a handshake.
- `query`: with 11 units a backend can say five messages: the three that make a session ready and
  two more; a frontend its `Startup` and five. The states of the extended query are reached by
  the combinations of those; `session` covers the longer conversations.
- `auth`: 8 units are four messages of the backend, enough for challenge, continuation, final and
  `AuthenticationOk`; `Sspi`, `Md5Password` and `ScmCredential` are left out of `AuthSays` because
  their arms equal those of `Gss`, `CleartextPassword` and `KerberosV5`. All six occur in `session`.
- `session` bounds only what a backend says beyond what its answer needs (notices, further rows,
  further results) since it last heard something; the number of queries, of authentication rounds
  and of notices in a session is not bounded.
- `official` as `session`; each of the excuses in `RefusedForThat` is needed there. `Batching` is in no
  run: with it and a message of chatter there are 2.4 million states, too many for the temporal
  property. The theorems about `Session` cover it, and it needs no excuse that `Pipelining` does not.
  TLC agrees where it can: with all five `Ways` in `MCOfficial.cfg`, everything holds for
  `MaxChatter = 0` (42 000 states), and the invariants for 1.
- `bodies`: with 4 values in a byte, a u32 of two bytes has 16, so that all codes of `Authentication`
  (up to 12), -1, another negative length and every length that fits occur; 6 bytes hold a u32, a
  count, and items fewer and more than counted. A body is not tried further once it is refused for
  something no further byte could mend, which is itself a part of what `Diagnosis` states.
- `bodies_long`: the shortest `Bind` has five parts and the shortest field of a `RowDescription`
  seven; with a u32 of one byte, 8 bytes hold one field of each value, a `Bind` with values and
  formats, errors with repeated fields, and a `Startup` with two parameters.
- `framing`: a u32 of `0..9` has the lengths below 4, exactly 4 (an empty body), bodies of up to 5
  bytes, and the largest one, where `type_len + specified_len` overflows; 10 bytes on the wire are
  more than any of them. `debug` chooses between a panic and wrapping around.
- `server`: three clients allow two to race for the counter while the third hangs.

`CHECK_DEADLOCK FALSE` is set where behaviour ends: a session of `AnyPeers` or a call of `read_msg`
is over when it returned, and a server when its clients are through. `Session` has the step `Over`
for that and checks deadlock: everyone waiting on everyone would be found.

**Fairness.** `Session`: the executor polls a task that was woken (`Convey`); TCP delivers
(`FrontendReceive`, `BackendReceive`); a client answers what it is asked but may stay idle or never
begin, and need not send ahead of an answer; a backend answers what it has heard, but need not speak
while ready for a query; a peer whose connection was closed notices. Nobody has to vanish. What is
written is always taken: peers read, and `write_all` is not held up (see "Not modelled"). And because
`select` polls the backend first, the assumption that a backend comes to an end with what it says
(`MaxChatter`) is needed for `Answered`. Under this, `Answered` says a frontend
that waits is answered or learns of the end (one that pipelines may keep asking, so it is answered
whenever it is as far ahead as it can get), `Ends` that `go` returns once a peer has hung up. The
exception in `Ends` is what the code does: while it waits for an `Initial` it does not look at the
backend. `Framing`: the executor polls a read that can go on, and `decode_body` comes to an end.
`Server`: the executor runs every task that can go on, the loop accepts while it runs, and a session
stops when its client is gone (which `Ends` shows). That a panicking task takes nobody with it is a
property of async-std's executor, assumed here.

**The violations.** `SessionsEndByThemselves` says that a session ends because `convey` returned or
panicked. TLC shows a session killed: `let stream = stream?` (`server.rs:112`) returns from the loop
on the first error of `accept`, `main` returns, and with the process every session goes. The
end-to-end tests treat a server loop that has returned as a failure (`tests/tests.rs:137`, "server
exited earlier").

`Understood` says that `go` refuses nothing that peers who follow the protocol say, but for the two
kinds of authentication that the tests `auth_kerberos_unsupported` and
`auth_scm_credential_unsupported` expect to be `Unsupported`. It holds for the protocol as the tests
play it (`session`), and for neither of two things the official one has:

- `Sync` is taken only after an `Execute` has been answered (`convey.rs:369`). A frontend that sends
  it after a failed `Parse` or `Bind`, where the protocol wants it, or with nothing executed, loses its
  session to `UnexpectedType`. So does one that sends it right behind a `Parse`, a `Bind` or an
  `Execute`, unless, in the last case, the answer is polled first (run `official`). The tests
  `ext_query_parse_error` and `ext_query_bind_error` play a backend that is ready again without a
  `Sync`.
- `ParameterStatus` is taken only in `Authenticated` (`convey.rs:365`). One that reports a changed
  parameter later ends the session in the same way.

`RefusedForThat` (run `official`) lists what is refused of each of the `Ways`, in which states, and says
that nothing else is. The list is complete for the moves that `Session` has, not for the official
protocol: messages that `go` has no arm for (`Describe`, `Close`, `Flush`, `COPY`, function calls,
notifications) are not among them.

Facts about the code that the models record and that a reader may want to know:

- an `Authentication` that `process_backend_authentication` refuses, and a TLS request inside TLS,
  have already been written to the other side when `go` fails (`ResultTells`);
- a frontend that asks for TLS always gets it, even if the backend's side stays in the clear
  (`TlsAsAgreed`);
- a message can be logged and then not arrive, but only the last one, and only if `go` did not
  return `Ok` (`LoggedIsCarried`);
- a frontend that pipelines is not refused as such: its `Bind` passes if the `ParseComplete` is polled
  before it, and ends the session with `UnexpectedType` if not, so that the outcome is a race (a `Sync`
  right behind a `Parse` or a `Bind` is refused either way);
- an error that a backend reports between `Sync` and `ReadyForQuery` is written through, and then the
  session ends with `Ok` although the backend would go on (`convey.rs:327`);
- a request for GSSAPI encryption (1234, 5680) is taken for a `Startup` whose parameters are missing;
- the TODO at `convey.rs:502` can be answered: nothing is lost when `select` drops a future, because
  a `read_exact` of one byte takes nothing before it completes (`Conserved`).

## 4. Proofs

All theorems about `AnyPeers` hold for every `Says`, `MaxSent` and `MaxAhead` that satisfy its
assumptions, so for sessions of any length between peers that may say any set of bodies. Each
invariant named below was checked with TLC on the instances of the runs before it was proved.

| Theorem | Module | States |
|---|---|---|
| `TypeCorrect`, `NothingLost`, `Refinement` | `AnyPeersProofs` | `[]AnyTypeOK`, `[]Conserved`, `IsPipe` |
| `HandshakesUndisturbed`, `TlsIsAsAgreed` | `TlsProofs` | `[]NeverDisrupted`, `[]TlsAsAgreed` |
| `FrontendOnlyAnswers`, `NoQueryBeforeAuthentication`, `ResultsTell` | `TurnProofs` | `[]FrontendAnswers`, `[]AuthenticatedFirst`, `[]ResultTells` |
| `ToldAsCarried` | `LogProofs` | `[]LoggedIsCarried` |
| `SessionTypes`, `OnCourse` | `SessionProofs` | `[]SessionTypeOK`, the inductive invariant `[](SInv /\ Course)` |
| `WrittenFits`, `RefusedOnlyForThat`, `StatesAgree` | `SessionProofs` | `[]Fitting`, `[]RefusedForThat`, `[]Agreement` |
| `AlwaysUnderstood` | `SessionProofs` | `[]Understood`, if `Ways \subseteq {"LateError"}` |
| `FramingTypes`, `LeavesAligned`, `CursorsStayInside`, `RefusedExactly`, `CutOnlyShort` | `FramingProofs` | all safety properties of run `framing` |
| `ServerTypes`, `IdsDistinct` | `ServerProofs` | `[]ServerTypeOK`, `[]DistinctIds` |

**`ConveyorProofs`** holds what is true whoever the peers are: the facts about the table that the
other proofs cite instead of expanding it, and `StepTypes`, that every step of the conveyor keeps
`TypeOK` together with `InHand`. `TypeOK` is not inductive alone: that a write leads to a
place of `go` rests on what follows the message in hand.

**`AnyPeersProofs`.** That a write puts out what was read rests on what is in hand: that it
is one body behind the type byte `put_header` will name, or, after a TLS request, one byte that
is an answer and the first the backend sent. The inductive invariant is

    IInv == AnyTypeOK /\ Conserved /\ Shape /\ Phase

where `Shape` says, for every await, what `hand` holds there (nothing, a type byte, a whole
message, or the answer to a TLS request), and `Phase` gives the order of the opening: the backend
hears the frontend first, and once it was asked for TLS the frontend hears nothing before the
answer. One lemma per action shows that it keeps `IInv`
(`ReadMsgKeeps`, `WriteKeeps`, `AwaitTlsKeeps`, `PollKeeps`, ...); the lemmas about sequences they
share come first (`Carried` under a read, under a write, under a part of a write, under a send).

The refinement of `Pipe` follows from `IInv` before and after a step: a peer's step appends to one
`sent` and is a `Put` (`SendIsPut`); a write appends to one `outbox`, and because `Conserved` holds
afterwards what it appended can only be what `Pipe` lets out next (`WriteIsGet`); a step of any
other kind leaves both alone. A write of which only a part got out is a `Get` as well.

**`TlsProofs`.** The invariant `TInv` adds to `IInv` in which variant of `StreamWrap` each side is:
plain before a request, and between the request and the answer that the frontend hears a function
of the await (`WrapsAsked`), and after it of the backend's answer and the await (`WrapsAnswered`).
So wherever `go` reads, writes or begins a handshake, the stream is not in one (`NoHandshake`), and a
unit is encrypted exactly as the answer says. `Ending` adds that no arm's end is
`HandshakeDisrupted` and that a handshake which is left open when `go` ends has panicked.

**`TurnProofs`.** What becomes of the message in hand was decided by an arm, on the state that `go`
is still in (`Armed`). From that, `NextTurns` reduces every step of `AnyNext` to two kinds: a
*quiet* one, which tells the callback nothing and leaves `Ahead` (the state the log has led to) or leads
out of the loop, and one that *tells* of a single message, for which there is an arm (or a place of
the opening) with that side, type and state, and after which `Ahead` is `Continuation` of it. Each theorem then
needs only one invariant about the log and `Ahead`, kept by a check of the table:

- `Spoken`: in a state in which a frontend may speak, the last message but for asides is one that
  leads to that state (`EnteredBy`);
- `Introduced`: in `Authenticated` and after it `AuthenticationOk` was said, after that also the key;
- `Placed` and `Started`: the bodies of an `Initial` are the first units of the frontend, and the loop
  begins behind them; `ResultsTell` needs it to tell a refused type byte from an `Initial`.

**`LogProofs`.** `LInv` adds to `LoggedIsCarried` that the log is ahead of the wire exactly between the
callback and the write (`InStep`). A step that tells notes the unit `Len(outbox) + Len(hand.units)`, and
by `Conserved` that is the body just read; a write is of the last entry or of no entry (the answer
to TLS), and the partial write of one ends `go` with an error, which is why `Ok` excludes it.

**`SessionProofs`** holds for every `Ways` and `MaxChatter` that satisfy `ChatterAssumption`,
`WaysAssumption`, `PipeliningAssumption` and `BatchingAssumption`, so for a backend that says as much as
it likes and a frontend that sends everything up to its `Sync` ahead. Types
come from `StepTypes` and from lemmas about the peers' moves: each leads to a place that its peer
knows, and says something with a message type.

None of the four other properties is inductive. Whether what is written next will fit its reader
depends on everything that is still under way between it and the conveyor, in all four streams and
in the conveyor's hand, and `MaxChatter` does not bound that. The invariant is

    Course == GoneOnEof /\ ((result = Running /\ (Opening \/ Loop)) \/ Ended)

with `SInv` for the types. Its parts:

- The moves as relations between places (`SaysF`, `HearsF`, `SaysB`, `HearsB`), and what is under way
  as a *walk* along them: `Walk(moves, x, n, ps)` says that the `n` messages in the stream `x` lead
  from place `ps[0]` over `ps[1]` ... to `ps[n]`. A walk is a function on places, so that taking the
  first message off it or adding one behind needs no induction.
- `BackSide`: what the backend said and was not carried is a walk of its moves to the place where it
  is, from a place `Link`ed to the state of `go`: the same, or one from which the one message that it
  has not heard leads to that state.
- `FrontSide`: a frontend has two walks, what it said and was not carried, from the place where the
  state of `go` expects it (`Expects`), and what was written and it has not heard, from the place
  where it is; both end in the same place. When a message of the backend is carried while messages of
  the frontend are under way, the walks cross. That is the heart of the proof: what a frontend says and
  what it hears commute wherever they can cross (`HearsBeforeSays`, `SaysBeforeHears` and the lemmas
  about them), and a message carried moves along the whole other walk (`SaysAfter`, `HearsAfter`).
  `Stays` keeps how far a walk can get, which is what excludes the crossings that do not commute.
- `Opening`: the exchange about TLS, await by await, up to the `Startup`; there is nothing to cross.
- `Ended`: what is left to be heard still fits, and the reason of the end (`Reason`).

The peers' steps lengthen a walk at its end or take its first message off; a poll, a read and a
write move a message from one walk to the other along an arm of the table, which is also taken as two
relations (`ArmB`, `ArmF`). Every refusal by `go` is a message at the head of a walk without an
arm (`Refusal`), or an `Unsupported` kind of authentication behind one; comparing the moves with the
arms leaves exactly the cases of `Excused`, each with the Way that it needs, and none for `LateError`.
So `AlwaysUnderstood` assumes `Ways \subseteq {"LateError"}`, and it has to: `Understood` fails with
`Sync` and with `Parameters`, as two runs show.

**`FramingProofs`** proves, for every `MaxU32` of at least 4 (so for the real 2^32 - 1, which TLC cannot
enumerate) and every `MaxWire`, all the safety properties of the run `framing`. Its inductive invariant adds
`Progress` and `CutShort`: how many bytes were consumed at each await, that beyond the header the
length is sound (it counts itself and does not overflow) and the `Vec` is as long as the message, and
that a read that failed had taken all there was. The argument turns on `PutHeaderFits`: `put_header`
fits exactly when the length is sound, because the sum that overflows wraps around to 0.

**`ServerProofs`** holds for every set of clients. Its inductive invariant adds who can come to the
counter: a connection waits in the backlog once (`Queued`), and has no number before its first task
ran (`Unnumbered`), so that `fetch_add` never numbers a client twice.

**Only model-checked.**

- Liveness under fairness is out of the prover's reach: `Answered`, `Ends`, `Returns`, `Served`.
- `BodiesTypeOK`, `Exact` and `Diagnosis` of `Bodies`: its decoders and its grammar are `RECURSIVE`
  operators, which the prover cannot use, and what they compute for every body needs induction over
  the body. They are the only safety properties of the runs that no theorem states.

**What the proofs showed about the properties.** `ResultTells` says that `Ok` follows a *message* of
type `ErrorResponse`, not a *body* of that kind: behind the type byte `E` from the backend, `go`
decodes whatever comes as an `ErrorResponse`, and a body of another type that shares the byte may
happen to decode. `FrontendAnswers` speaks of types and, for `Authentication`, bodies for the same
reason. `LoggedIsCarried` names the unit of each entry (`place`), so that it tells a message
from an equal one that was said before.

`PipeliningAssumption` came out of the proof about `Session`: that a frontend's messages and those it
hears commute is false for one that pipelines to a backend that needs no `Sync` after an error.

## 5. Not modelled

- TLS records, certificates and ciphers: the library's. A handshake succeeds or fails.
- Argument parsing, `dump_msg` and the `Debug` implementations: formatting. Of `listen` only that it
  succeeds or fails.
- What a peer makes of the contents of a message: `Session` has one body of each kind.
- Backpressure. The outboxes are unbounded, so no `write_all` (`convey.rs:642`) is ever held up by a peer
  that does not read. The safety properties do not depend on that: a conveyor that waits in a write
  takes no step. `Answered` and `Ends` do. While `go` waits in `write_all` it looks at neither side:
  it does not notice that the other peer hung up, and two peers that both write before they read
  could hold each other up through it.
- A backend that never stops talking: `MaxChatter` bounds what it says before it hears something again.
  `select` polls the backend first, and the code promises a frontend no turn in between. The theorems
  hold for every `MaxChatter`; `Answered` is about backends that come to an end.
- The order and the meaning of the fields in a body (see `Bodies` above), and what is done with the
  protocol version beyond the two that stand for `Cancel` and `TLS`.
- Memory: a `Vec` of up to 4 GiB is allocated from a length field; the models have no limit to hit.
- Test code, and functions only tests use (`accept_eof`, `read_vec`, `read_and_drop`,
  `convey/util.rs`).

## 6. State and plan

Done: every component above, the runs, and as theorems the refinement of `Pipe` and all safety
properties of `AnyPeers`, `Session`, `Framing` and `Server`. What could be added:

1. `Bodies` with recursive functions in place of its `RECURSIVE` operators, so that at least the bounds
   of its cursors can be proved;
2. `Server` composed with `Session`, in place of the assumption that a session stops once its
   client is gone;
3. a limit on memory in `Framing` and `Bodies`, for two of the hazards that no property covers;
4. bounded outboxes in `Session`, for the hazard of a `write_all` that is held up.
