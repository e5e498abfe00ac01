# A TLA+ model of decoded-shredstream

This directory holds a TLA+ model of the Rust client library
`decoded-shredstream`: a UDP client and a gRPC client for a stream of decoded
Solana transactions, the frame decoder behind the first, and the reading of the
transactions themselves. TLC checks small instances; TLAPS proves what it can
for every instance: all the invariants but one, that the decoder reads every
transaction back, and that both clients implement what they promise.
`PROJECT.json` lists, for every definition, the lines it models, and for every run
its configuration and properties.

Paths below are relative to the repository root; `src/...` is its crate source.

## The system

| Component | Source | State | Operations |
|---|---|---|---|
| `StreamDecoder`, with its `Reassembler` | `src/codec/frame.rs` | fragments held, the index and sequence number expected next, counters | `push`, `complete`, `reset` |
| `UdpClient` | `src/transport/udp.rs` | ring of updates, `Notify`, `closed` flag, the receive thread, the `waiting` future of the `Stream` | `bind`, `next_update`, `try_next_update`, `poll_next`, `close`, `Drop` |
| `bind_socket` | `src/transport/udp.rs` | the buffer size granted | makes, sizes and binds the socket, fires a notice |
| `run_blocking` | `src/transport/udp.rs` | none of its own | a loop of `recv`, `push` and a callback |
| `GrpcClient` | `src/transport/grpc.rs` | `State` (connected, disconnected, a terminal error, finished), attempt, `last_data_loss`, filters, the request channel | `connect`, `next_update`, `update_filters`, `close`, `into_stream` |
| `Stats` | `src/stats.rs` | nine atomic counters | bumps, `snapshot` |
| `NoticeHook` | `src/notice.rs` | the registered callback | `set`, `fire` |
| Filters, configuration | `src/filters.rs`, `src/config.rs` | a filter map and its limits | builders, `validate` |
| `TransactionUpdate` | `src/update.rs` | the bytes of one transaction | `signature`, `signatures`, `parse` |
| Message decoder | `src/message.rs` | a cursor over those bytes | `decode_message`, `decode_v1`, `message_bytes` |
| Errors, generated bindings | `src/error.rs`, `src/proto/` | none | none |

How they interact. The UDP receive thread owns a `StreamDecoder`, pushes what
it decodes on a ring that overwrites its oldest element when full, and notifies
the task that consumes it; the two share the ring, the `Notify`, the flag, the
counters and the callback for notices, and nothing else. The gRPC client has no thread: everything
happens inside the future the caller polls, which may be dropped at any
`await`, while the server and the clock go on. Both hand out
`TransactionUpdate`s, whose bytes are parsed only when the caller asks.

Where it is hard, and what makes each part correct:

- **Reassembly.** Datagrams are lost, repeated and reordered, events and
  datagrams of other origins arrive between fragments, the sequence number
  wraps. Correct is: a transaction whose fragments were sent back to back is
  returned exactly when they are received in order, whatever else arrives among
  them, with its own bytes; one that an event parted on the wire is refused, never
  spliced; each datagram is accounted for at most once; a message under way is not
  given up silently.
- **The UDP hand-over.** Thread and task interleave at every shared operation;
  the consumer may drop the future it waits on. Correct is: no update is lost
  but to a full ring, and then counted; order is kept; the end is announced only
  after everything queued; no wakeup is lost; `close` returns.
- **Reconnection.** Failures of every kind at every `await`, with dropped
  futures. Correct is: terminal errors surface once, the backoff does not
  restart too early, `DATA_LOSS` does not cause a reconnection loop, the server
  has the current filters, and the client does come back.
- **What is told of all this.** Counters bumped and loaded one by one, without
  ordering; a callback of the caller's, replaced by one thread while the other
  calls it. Correct is: a snapshot covers what its caller has, and is exact at the
  end; a notice goes to a callback that is or was registered meanwhile; neither
  side waits for a callback; none runs after `close`.
- **Configuration.** Limits enforced in two places, a filter map that is built,
  refused, replaced and sent again later, an endpoint taken apart by its
  punctuation. Correct is: the server only sees maps within the limits, and the
  host and port dialed are the ones written.
- **Transaction bytes.** Three layouts, two decoders of the same length prefix,
  truncated input. Correct is: every transaction is read field by field, no
  truncated one is accepted, signatures and message agree on where they meet.

The complete list of hazards, each at its line and with the properties that
watch it (or why none does), is in `PROJECT.json`.

## Modules

| Module | Role |
|---|---|
| `StreamDecoder` | `push` and `complete`: one action per branch, in the order of the code's returns |
| `FragmentedFeed` | `StreamDecoder` composed with the stream's server, the network and other senders |
| `Notify` | `tokio::sync::Notify` as far as `udp.rs` uses it (external) |
| `UdpClient` | receive thread, `Shutdown` guard and consuming task, step by step |
| `BoundedFeed` | abstract: what the UDP client promises |
| `GrpcClient` | the gRPC client from `await` to `await`, with server and time |
| `UpdateStream` | abstract: what the gRPC client promises |
| `StatsSnapshot` | the counters between the receive thread and the owner of the client |
| `NoticeHook` | the callback between the same two, its lock, and `bind_socket` |
| `GrpcConfig` | builders, limits, endpoint, and the filter maps sent |
| `TransactionUpdate` | the byte readers of `update.rs` and `message.rs`, as operators |
| `WireFormat` | the reference encoders (external) and what is read of every prefix |
| `MC...` | instances for TLC |
| `...Proofs` | the theorems about the module of that name and those it uses |

### StreamDecoder and FragmentedFeed

A datagram is a record of its decoded header fields, its payload and the set of
faults in its header bytes; `HeaderError` is the order in which `parse_header`
finds them. Bytes are abstract: a payload is a sequence of members of `Byte`, so
an instance can give each byte of each message its own value and any splice
shows. `reasm` has the fields of `Reassembler`, `stats` the counters `push`
maintains, `ret` what the last `push` returned. `seq` wraps at `SeqMax` and
`expect_index` at `U8Max`, as their `u64` and `u8` do in an optimised build.

`FragmentedFeed` adds the server: it numbers its datagrams one by one whatever
their type, sends the fragments of one transaction after another, and events
between. The network delivers any datagram sent so far, any number of times:
loss, duplication and reordering need no action of their own. `Foreign`
datagrams come from elsewhere; the assumption on them excludes a well-formed
transaction frame, which no decoder could tell from the server's.
`MaxSent <= SeqMax + 1` says no sequence number is used twice, as a 64-bit number
is not. `run` and `latest` are history: the fragments received in sending order
since a first one (where on the wire they begin and end, and how many they are),
and what was received last.

`seq` counts every datagram of the server (`docs/api.md:323`), and a fragment must
carry the number after that of the fragment before it (`frame.rs:173`). So it
matters on which side of the network an event comes between two fragments. One
that was sent elsewhere and only arrives there changes nothing. One that the
server *sent* there took a number: the fragments then arrive in order and
complete, and are refused. `Parted` tells the two cases apart, and
`ExactReassembly` says what happens in each: an update, or `BadFragment`. No
document promises that a server keeps the fragments of a transaction together or
that parted ones are delivered, so this is no finding, but a server that starts to
fragment has to know it.

`docs/api.md:322` says `frag_count` is always 1 in the present stream. The code
reassembles nevertheless, and the model is of the code.

### UdpClient

A step is one operation on shared state: a pop, a load of the flag, a push, the
count of an overwritten update, a notification. The thread's places follow the
loop (`check`, `recv`, `push`, `count`, `notify`) and its `Shutdown` guard
(`shut`, `bye`). The task's follow the two waiting calls, which share their
first steps: pop, look at the flag, pop once more, then register with the
`Notify` and wait. They differ in what becomes of the registered future:
`next_update` drops it when it is cancelled, `poll_next` keeps it in `waiting`.
`Mixed` says whether one caller may use both. `Notify` models the permit,
the queue of waiters and the hand-over of a notification whose receiver is
dropped. `taken` and `ended` are history.

The flag is stored and loaded `Relaxed`, so `Look` may find it still `FALSE`
unless `fresh` says that something has ordered the load after the store: the
task has loaded `TRUE` before, it stored the flag itself, or a poll of the
`Notify` met the last notification (`AfterLast`), which is made after the store.
The other direction, a flag seen before the update pushed ahead of it, is not in
the model: the sequentially consistent `notify_one` between the push and the store
keeps it out. Whether the thread loads the flag late cannot be told from a caller
that closes late.

### StatsSnapshot

The receive thread bumps its counters one by one, the owner loads them one by one.
A `Relaxed` load may return any value written, but none older than the newest the
owner has seen; `seen` is that value, for each counter. It rises with a load, with
an update taken from the ring (whose entry carries what was `published` by its
push) and with the join in `close`. `Snapshots` is the set of all that a snapshot
may say. It contains combinations no moment had: more updates overwritten than
decoded, for example. `CoversTaken` and `ExactAfterClose` say what can be relied
upon nevertheless.

### NoticeHook

`hook` is the callback registered and `lock` the `RwLock` around it, which the
thread takes in `fire` and the owner in `set`. The thread clones the callback
and calls it after the lock is given back; a callback returns, panics (which ends
the thread through its `Shutdown` guard) or stays for ever. `bind_socket` and the
rest of `bind` come before thread and owner. `current` is history: what was
registered at some time since the error under way was counted. One thread reads
and one owner writes, so the lock has one holder.

### GrpcConfig

A `Filter` and the map of them are built in any order, batch by batch; an error
consumes the builder, as the code's `self` by value does. `connect` checks the map,
the endpoint and the token in the code's order, `update_filters` the map; a
subscription sends the map the client holds. What comes between connections is in
`GrpcClient`; here it is only that one ends and another is made. Endpoints are
sequences of pieces, so that every arrangement of colons, brackets, slashes,
blanks and schemes is tried; what the `http` crate accepts is external.
`EndpointRule` compares what is dialed with what the documented grammar means,
which is defined without the code's search for the last colon. The piece "9" stands
for any run of digits: neither the code nor the rule looks at the range of a port.

### GrpcClient

`pc` is where the one future is: `idle` between calls, `loop` at the top of
`next_update`, or at an await (`sleep`, `dial`, `subscribe`, `message`,
`sending`), where `Cancel` drops it. `dialing` says who called `try_connect`.
`conn` is what `State::Connected` holds and its other end: `link` is the stream
as the server left it, `channel` the requests not read yet, `served` the last
one read, `since` the age. Assigning another state drops the connection
(`Leave`). `delay` is the one drawn for the sleep under way: the exponential, cut
at `max`, times a jitter of [0, 1). Time is counted in ticks; each age stops at the duration it is
compared with. `announced`, `refused`, `unsent`, `calm` and `rounds` are history
and guard nothing.

### TransactionUpdate and WireFormat

The readers are operators over byte sequences in 0..255 with the arithmetic of
the code: each takes the place reached and gives the next, or `Failed`.
`WireFormat` lets a transaction's bytes arrive one by one, so every prefix is a
state; its encoders are written independently, the way a server serializes. Its
two assumptions say what a transaction is. `FormatAssumption`: its fields fit the
layout (`IsMessage`), lengths are below 2^16 or what one byte counts, and it has 1 to
255 signatures, as many as its header says. Two numbers of signatures are left out
because nothing could tell the layout: 128 and more before a legacy message, whose
own first byte would then read as a version, and 129 before any message, which a
prefix counts that begins with 0x81, the mark of v1. From 128 on `signature()`,
which reads no count before a message, returns bytes shifted by one;
`SignaturesWhole` asks it of fewer, or of v1. None of this is a finding: 128
signatures are 8192 bytes, and a datagram has 1472. They are in the model because
from there on a prefix has two bytes, which two decoders must read alike.
`ProvidedAssumption`: the server sends along the signatures of the transaction, none, or some of which one is malformed.
`signatures` returns what it is given if each has the length of one, so nothing
could be said of 64 wrong bytes.

## Runs

| Run | Shows | Bounds |
|---|---|---|
| `fragmented_feed` | `ExactReassembly` (with events sent between fragments), `CountedOnce`, `GivenUpForAReason` | four transactions (whole, two fragments, three, one shorter than its slot), four foreign datagrams, sequence numbers 0..4 from any start, five datagrams sent, four received |
| `udp_client` | (with a flag that may be seen late) `Conservation`, `NoLostWakeup`, `WaitReturns`, `CloseReturns`, and that it implements `BoundedFeed` | a ring of two, six updates |
| `udp_mixed` | finding: `WaitReturns` fails for a caller that uses both waiting calls | a ring of two, four updates |
| `grpc_client` | `CurrentFilters`, `ErrorNotLost`, `BackoffKept`, `ImmediateReconnectsSpaced`, `EndIsFinal`, `Recovers`, and that it implements `UpdateStream` | two filter maps, a channel of two, durations of two ticks, two backoff rounds before saturation |
| `grpc_notices` | finding: `AttemptAnnounced` fails | one of everything |
| `grpc_refusal` | finding: `RefusalIsTerminal` fails | one of everything |
| `grpc_backoff` | finding: `DelayFromInitial` fails | one of everything |
| `stats_snapshot` | `CoversTaken`, `ExactAfterClose` | a ring of one, four datagrams |
| `notice_hook` | `NoCallAfterClose`, `DeliveredToCurrent`, `SetReturns`, `CloseReturns` | three callbacks, four buffer sizes |
| `udp_clamp` | finding: `ClampNoticed` fails | one callback, one buffer size |
| `grpc_config` | `RequestsSound`, `RefusedForNumber`, `EndpointRule` | limits of one filter and one key, two names, batches of one good, two good or one bad key, every endpoint of up to four pieces and 28 with an address in brackets |
| `wire_format` | `ParsesWhole`, `RefusesCut`, `SignaturesWhole`, `PartsFit` | 222 transactions of one or two signatures and two of 130, before a message and behind one, each at every length, with no signatures sent along, with its own, or with a malformed one |

Every passing run also checks its module's type invariant where there is state to
type.

Why the bounds are enough. *Fragments:* four pushes take a three-fragment
message past a disturbance in any place; two messages with fragments can be
interleaved, and every first sequence number makes the wrap fall everywhere.
Proofs remove these bounds. *UDP:* six updates overflow a ring of two several
times, with the consumer anywhere. The counters `messages` and `queue_dropped`
are bounded by the updates; nothing else grows. *gRPC:* with two ticks an age
is zero, between, or reached; a channel of two can be empty, partly filled and
full; two maps tell a current one from an old one. `attempt` saturates as the
`saturating_add` of the code does at 2^32 - 1. The message counters stop at
`MaxCount` and guard nothing; in `grpc_client`, whose states they would multiply,
they stop at once. *Counters:* four datagrams make updates that are taken,
overwritten and queued together with one of another outcome; a ring of one
overflows at once. *Callbacks:* three tell the one cloned, the one registered and
the one being registered apart. *Configuration:* a limit of one is passed by a
batch of two, by two batches, and by two names; four pieces hold a host, a colon
and a port with anything before, between or after. *Wire format:* every vector has zero, one or two
elements, and instruction data is long enough for a two-byte length in
each layout; 130 signatures take a two-byte count. Here too proofs remove the bounds.

`CHECK_DEADLOCK FALSE` is set for `fragmented_feed`, which stops at its bounds;
for `wire_format`, where a transaction is complete at some point; for `notice_hook`
and `udp_clamp`, where `bind` may fail and a closed client has nothing left to do;
and for `grpc_config`, where `connect` may fail. The other runs never stop.

### Fairness

*UDP.* Weak fairness of the thread: it runs, and its `recv` returns within the
50 ms read timeout (`udp.rs:78`). Weak fairness of the steps a call takes by
itself: a task that was woken is polled. Calling, cancelling and closing are
not fair. *gRPC.* Weak fairness of the client's own steps (a sleep ends, a ready
future is polled) and strong fairness of reaching the server and being accepted
by it: the environment keeps the promise that it accepts again and again, not
that it always does. The subscription itself has no timeout (`connect_timeout`
covers the dial), so nothing could be said of a server that never answers; this
is one of the hazards without a property. A stream that has failed answers at once,
which is fair too; nothing else is assumed of messages, nothing of reading or
ending. `Recovers` holds for a caller that keeps waiting, also on a connection whose
stream has failed and whose replacement was cancelled. *Callbacks.* Weak fairness of the
thread and of a call under way, and strong fairness of the write lock: the thread
takes and frees the lock again and again, and a writer that waits is let in before
readers that come later, as the standard library's lock does on Linux. A callback
is not fair. `SetReturns` holds without it; `CloseReturns` is conditional on it:
`close` joins the thread, so it returns only if no callback stays for ever.

## Findings

1. `udp_mixed`. `poll_next` leaves its registered `Notified` in `self.waiting`
   when it returns `Pending`. A `next_update` that follows on the same client
   registers behind it, and the single `notify_one` of a push or of the end goes
   to the future that nobody polls any more: `next_update` waits although the
   client is closed or an update is queued. Callers who keep to one of the two
   calls are not affected, as `udp_client` shows.
2. `grpc_notices`. The reconnection right after a `DATA_LOSS` fires no
   `Notice::Reconnecting`; `docs/errors.md:64` says each attempt does.
3. `grpc_refusal`. A terminal status in answer to a *re*connection is dropped,
   so the client goes on retrying, with backoff, where `docs/errors.md:23-29` and
   `src/error.rs:7` describe a terminal error.
4. `udp_clamp`. `RecvBufferClamped` is fired by `bind` on a hook it has just made;
   `on_notice` needs the client that `bind` returns. No callback can hear the
   notice, which `docs/errors.md:78-86` shows how to match. `recv_buffer_bytes` is
   the only way to learn of it, as `docs/api.md:399-400` half says.
5. `grpc_backoff`. The delay is drawn from zero up to the exponential, so it may be
   shorter than `initial` in any round, and is in the first; `docs/errors.md:43`
   says "from `initial` up to `max`".

## Proofs

Each `...Proofs` module extends the module it is about, without changing it. Its
theorems hold for every value of the constants that the named `ASSUME` of that
module allows; TLC evaluates these assumptions in the runs.

| Module | Theorem | States |
|---|---|---|
| `FragmentedFeedProofs` | `TypeCorrect` | `TypeOK` |
| | `Reassembly` | `ExactReassembly` |
| | `Counting` | `CountedOnce` |
| | `GivingUp` | `GivenUpForAReason` |
| `UdpClientProofs` | `TypeCorrect` | `TypeOK` |
| | `UpdatesConserved` | `Conservation` |
| | `FeedImplemented` | `ImplementsBoundedFeed` (refinement) |
| | `NoWakeupLost` | `NoLostWakeup`, if `~Mixed` |
| | `UpdatesInOrder` | `InOrder`: in order, none twice, only the oldest dropped |
| `GrpcClientProofs` | `TypeCorrect` | `TypeOK` |
| | `FiltersCurrent` | `CurrentFilters` |
| | `ErrorReturned` | `ErrorNotLost` |
| | `BackoffNotRestarted` | `BackoffKept` |
| | `ReconnectsSpaced` | `ImmediateReconnectsSpaced` (of steps) |
| | `StreamImplemented` | `ImplementsUpdateStream` (refinement) |
| | `OneErrorThenNone` | `EndIsFinal` (of steps) |
| `StatsSnapshotProofs` | `TypeCorrect` | `TypeOK` |
| | `TakenCovered` | `CoversTaken` |
| | `ExactOnceClosed` | `ExactAfterClose` |
| `NoticeHookProofs` | `TypeCorrect` | `TypeOK` |
| | `QuietAfterClose` | `NoCallAfterClose` |
| | `ToldToCurrent` | `DeliveredToCurrent` (of steps) |
| `GrpcConfigProofs` | `TypeCorrect` | `TypeOK` |
| | `RequestsTaken` | `RequestsSound` |
| | `KeysCheckedOnce` | `RefusedForNumber` |
| `TransactionUpdateProofs` | `PartsMeet` | signatures and message share the bytes |
| | `OnePrefix` | the two prefix decoders agree |
| | `SignatureIsFirst` | `signature` against `signatures` |
| | `SignaturesSized` | every signature has its length |
| `WireFormatProofs` | `ParsesEveryTransaction` | `ParsesWhole` |
| | `RefusesEveryCut` | `RefusesCut` |
| | `SignsEveryTransaction` | `SignaturesWhole` |
| | `PartsFitEverywhere` | `PartsFit` |

The inductive invariants, and why the properties alone do not do:

**FragmentedFeed.** For every set of transactions, every way of cutting them,
every set of foreign datagrams and every bound and width. `ExactReassembly` is not
inductive: it speaks of the run of fragments received and of the result, and
neither says what the reassembler holds. `Inv` adds three things:

- *The wire* (`WireOK`, `FragmentsInOrder`, `SendingOK`): a datagram carries its
  place as its sequence number and, for a transaction, the fragment its index
  names; a fragment with only events between it and a fragment before it is the
  next one of the same transaction or a first one.
- *The run* (`RunOK`): it is fragments 0, 1, 2, ... of one transaction; how many,
  the index of its last one says.
- *The reassembler* (`ReasmOK`): it is active exactly during an unfinished run that
  no event parts, its expected index is the run's length, its last sequence number
  is that of the run's end, and its buffer is the message up to where that fragment
  ends.

The heart is `ContinuesIsNextOfRun`: the three comparisons `push` makes (count,
index, sequence number) are true exactly of the fragment in the very next place on
the wire, which is the run's next fragment unless the server sent an event before
it. One direction needs that no two datagrams share a sequence number
(`SeqAtSuccessor`), the other that the fragment at that place is of the same
transaction. The argument about bytes is that slices that meet join
(`SlicesMeet`, `FragmentJoins`), so the buffer of a complete run is the message.
`CountedOnce` needs the reassembler's types only: a `u8` index that is smaller
than a `u8` count cannot wrap when it is incremented (`PushCounts`).

**UdpClient.** For every capacity and number of updates. Types and `Conservation`
are inductive together (`Counts`): that a counter stays within its bound follows
from what it counts. For the refinement `FlagOK` adds that whoever set the flag
has stopped pushing or waits in `close` for the thread that has not, and that the
last look at the queue comes after the flag: so an end is announced only of an empty
queue that nothing will enter. For `NoLostWakeup`, `WakeInv` says the same of a task
that is only about to wait: since its last look at the queue and the flag, whatever
came has left a notification in the `Notify` or the thread is still on its way to
it (`NotForgotten`); and a thread that is done has left one, or the flag is visible
(`fresh`). That a notification cannot go astray is `OneFuture`: the `Notify` has one
future at most. This is where `~Mixed` enters, and it has to: a caller who uses both
calls has two futures in it, and finding 1 is what becomes of that. The three
lemmas on a `Notify` with one future (`SingleNotifyOne`, `SinglePolled`,
`SingleDropped`) carry the argument; conservation and refinement need no such
hypothesis.

`UpdatesInOrder` says what a caller has of the abstract specification. It is shown of
the steps of `BoundedFeed` and reaches the client by the refinement. No run checks it.

**GrpcClient.** For every set of filter maps, room of the channel, policy and
bound. `CallOK` ties the place of the call to the state: it is connecting in exactly
two awaits, listens and sends only on a connection, sleeps only without one, and
holds a terminal error at no await, which is `ErrorNotLost`. `CurrentFilters` needs
`ConnOK` (no connection outside `Connected`), because a map changed while
disconnected must find no stale stream. `BackoffKept` needs `StableOK`: no
round has passed once a connection is old enough, nor while `next_update`
remembers that it was. `ImmediateReconnectsSpaced` needs `LossOK`: the client's
`last_data_loss` is never older than the last reconnection without backoff,
so its test of the one is a test of the other. The refinement follows
from `CallOK` and the types, action by action. `OneErrorThenNone` is proved of the
client itself: an end in the hands of the consumer means the state is `Finished`
(`EndsReached`), where the only step of a call is to return `None` (`EndsNext`).

**StatsSnapshot.** For every capacity and number of datagrams. `Tally` is the balance
of the counters with whatever the thread is in the middle of. `CoversTaken` is about
loads that see any value not older than `seen`; what makes it true is `Published`,
that a queued entry carries counters which cover it, and `Loaded`, that taking it
hands them on. `Loaded` also says that the join in `close` makes `seen` the counters
themselves; `ExactAfterClose` is then `Tally` at rest.

**NoticeHook.** For every set of callbacks and of buffer sizes. `Heard`: the callback
the thread is about to clone has been registered since the error it fires for.
A writer that could change this is kept out by the lock, whose holder the types
name. `Unborn`: nothing is fired before `bind` has returned.

**GrpcConfig.** For all limits, names, keys, batches and endpoints. `ConfigInv` says
of the filter under construction, of the builder's map and of the client's map what the
builders have seen to, and that no client past the checks of `connect` holds a map
that the second check (`FilterError`) refuses; `request` is then sound because it is
made of the map the client holds. `KeysCheckedOnce` is the reverse: what the second
check looks for in a key or a filter, the first has left nothing of. That batches
and endpoints are sequences of text is the assumption.

**TransactionUpdate.** For every sequence of bytes, well-formed or not, and every
length of a signature or key. `PartsMeet` is what becomes of `PartsFit` for bytes
that no server has serialized. It rests on `OnePrefix`: a byte without
its high bit ends a prefix, so a prefix has one size (`OneSize`), and both decoders
read the same groups of it. Two hypotheses are stated and needed. A prefix that
`update.rs` refuses and `message.rs` takes (four bytes, or a third one above 3) gives
a message without signatures. A prefix of more than one byte, that of 128
signatures and more or one written longer than necessary, shifts what `signature`
returns.

**WireFormat.** For every length of a key and of a signature, and every transaction
that `FormatAssumption` allows: any number of keys, instructions, lookups and bytes
of data that the layout can count. The state invariant (`Arriving`) is only that
the bytes are a prefix of a transaction's; all else is about the readers.

- *One statement for each reader.* Where the encoding of `x` lies in a buffer that
  may end inside it (`Lies`), the reader gives `x` and the place behind it, or
  `Failed` if that place is beyond the end (`Outcome`). Whole and cut transactions
  need no separate proof, and the statements compose: `TakeOutcome` and
  `ShortvecOutcome`, then counted bytes, instructions, lookups, vectors and
  messages (`Decodes`).
- *Induction.* The library's theorems take an operator as a parameter, which the
  provers cannot instantiate, so `Induction` is stated of a set that holds 0 and
  every successor, from `WFMin`. `SameRun` is what it is used for: two recursive
  functions with one start and one step are equal. `LoopOutcome` is `Repeat` over
  any vector, by the same induction.
- *Where things lie.* `ConcatPlaced` gives the place of each element of an encoded
  vector, `EvenlyPlaced` of elements of one size.
- *The v1 layout* has its signatures at the end and their number in its header, and
  `message_bytes` cuts as many off whether or not they have come. Of a cut
  transaction it so takes a message that is shorter than the whole, and `decode_v1`
  must refuse that (`V1Parts`, `V1Message`); the header must say the right number.

`PartsFitEverywhere` then says of each prefix in which `parse` finds a message, not
only of the whole, that signatures and message are the bytes received again, in all
three layouts. Before a message the argument is about the count: it takes a byte or
two (`CountBytes`), which both decoders read (`CountRead`, `ShortvecOutcome`). Behind
one it is `PartsMeet`, and that signatures cut from the end of the bytes are the end
of the bytes (`ChunksInOne`); of a cut v1 transaction they are not its signatures,
and still nothing is lost or read twice.

### Only model-checked

- Liveness: `WaitReturns`, both `CloseReturns`, `Recovers`, `SetReturns`. Fairness
  and `ENABLED` are out of the prover's reach.
- `EndpointRule`. It compares two ways of finding a colon in sequences of pieces.
  It is stated for the pieces that the model tells apart, and false of arbitrary
  text in their place, so it stays with TLC, which tries every arrangement of them.
- The findings: each is a counterexample.

## Not modelled

- The socket options of `bind_socket`, the runtime, TLS and HTTP/2: input and
  output.
- The loop of `run_blocking`: sequential, its decoder is the one modelled. It
  blocks in `recv` without a timeout, so only its callback, after a next update, or an
  error of the socket ends it.
- The text of the token's metadata, the fields `to_update` copies, the plain
  setters of `GrpcConfig` and accessors of `TransactionUpdate`: without effect on
  control. `FromIterator` for `Filters` is a sequence of `add`s.
- Generated protobuf code: a stream that yields, ends or fails, and a request
  channel, stand for it in `GrpcClient`.
- The wording of errors, and which `MessageError` a truncated transaction gets.
- Memory reserved for a count read from the bytes (`message.rs:142`).
- A lock poisoned by the destructor of a callback that panics while `set` drops it
  (`notice.rs:26`): both sides then panic at their `expect`.
- A backoff exponent beyond an `i32`, reached after 2^31 rounds, and a negative
  multiplier.

`GrpcAssumption` takes `reset_after` to be more than zero, because ticks cannot tell
"stable at once" from "stable after no time"; the default is 30 s.

## Plan

Done, in this order because it is the order of importance: (1) the frame decoder
and its feed, with its proofs; (2) the UDP client and `BoundedFeed`; (3) the gRPC
client and `UpdateStream`; (4) the wire format; (5) the counters and their
snapshot, the callback for notices, the configuration; (6) the proofs about the UDP
client, (7) the gRPC client, (8) the counters, the callback and the configuration,
(9) the signatures, (10) what a caller has of `BoundedFeed` and `UpdateStream`, (11) the
message decoder. The model covers
what of the code has state or control; what is left out is listed above. Of what is
modelled, liveness and `EndpointRule` are left to TLC.
