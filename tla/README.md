# oxiscale in TLA+

oxiscale is an embeddable Tailscale control server. At this commit it has two
parts that keep state and can go wrong: the persistence backends
(`control-core/src/store`) and the way from a TCP connection to HTTP/2 inside a
Noise tunnel (`control-core/src/server`, `noise`, `control-api`). Registration,
the map stream, policies, IP allocation and DERP are declared and empty. This
directory holds models of both parts, what TLC checks of them on small
instances, and theorems that hold for every instance.

All source paths below are relative to `src/crates/`.

## Inventory

| Component | State | Operations | What is hard | Correct when |
|---|---|---|---|---|
| store types, `StoreDocument`, `Store` (`control-core/src/store/types.rs`, `document.rs`, `traits.rs`) | rows by id, one policy per network, `version` | upserts, `delete_node`, `set_policy`, `consume_preauth_key`, lists and gets | ids are global, rows carry their network | a backend behaves as tables of ids |
| `MemoryStore` (`store/memory.rs`) | `Arc<RwLock<StoreDocument>>`, Vecs of rows | the trait, `snapshot`, `replace` | find-or-push on Vecs, expiry at the boundary | unique ids; implements the tables |
| `FileStore` (`store/file.rs`) | a `MemoryStore`, a path, a format; on disk the target and `<path>.tmp` | the trait with `flush` after every mutation, `load`, `open`, `with_format` | flushes of different callers interleave at every await and system call; partial failure; crash; dropped futures | what returned `Ok` is on disk; the target is whole; one winner per single-use key |
| `FramedIo` (`noise/src/framed_io.rs`) | the inner stream and sink, the chunk being read | `poll_read`, `poll_fill_buf`, `consume`, `poll_write`, `poll_flush`, `poll_shutdown` | empty records, record and buffer boundaries, wake-ups | it is a byte stream |
| Noise responder (`noise/src/responder.rs`) | none beyond a connection | `accept`, `write_early_noise` | the order of checks, the prologue, what a session is | both ends agree on key, peer and version |
| HTTP edge (`control-core/src/server/mod.rs`) | `ServerState`: key and store; one task per upgraded connection | `GET /key`, `POST /ts2021`, `run_noise_connection`, `handle_machine` | the task runs beside the handler; clients leave at any time | messages in order; every task ends or serves |
| builder and handle (`control-api/src/server.rs`) | builder options, server key | `build`, `serve` | a fresh key per build unless configured; `serve` takes `&self`, may be dropped and called again, and leaves its connections behind | configured keys outlive restarts; a connection is finished under the key it was taken under |
| `tailcfg` constants and messages, `tskey` keys | none | encodings | - | byte fidelity, which their unit tests pin |
| `TenantRouting`, `Event`, `auth`, `change`, `derp`, `ipalloc`, `mapper`, `policy`, `state` | none | none yet | - | - |
| `tailcontrold` | none | builds and serves | - | - |

How they interact: the host builds a `ControlServer` around a `Store`; `serve`
hands the key and the store to axum; the upgrade handler spawns a task that
calls `noise::accept`, which wraps the socket as `FramedIo<Framed<_, BiCodec>>`;
the task writes EarlyNoise through it and gives it to hyper's HTTP/2 server. No
handler reads the store yet, so the store's callers are the host's tasks: the
two halves share nothing but the process, and are modelled apart. `FileStore`
delegates to `MemoryStore` (`snapshot`, `replace` and every method).

## Modules

| Module | What it is |
|---|---|
| `StoreDocument` | rows, the document, mutations (`Apply`), redeeming (`Consumable`, `Consumed`); shared by all store modules |
| `KeyedStore` | abstract: a store is tables from ids to rows, one step per call |
| `MemoryStore` | the Vecs; one action per kind of call. Implements `KeyedStore` |
| `DurableStore` | abstract: what a durable store promises one caller: `Commit` on `Ok`, `Abort` on `Err`, a restart reads the last `Ok` |
| `SharedStore` | abstract: what it promises several callers at once: one memory, the disk of `DurableStore` to a call that was alone, and bounds on what overlapping calls leave behind |
| `FileStore` | the system calls and awaits of `flush` and `load`, for any number of callers. Implements `DurableStore` for one |
| `SharedFileStore` | `FileStore` with the history that says which calls were alone and which documents there were since the store was idle. Implements `SharedStore` for any number of callers |
| `ByteStream` | abstract: numbered bytes arrive, are read in order and once, end of file comes last; a flush that succeeds has sent everything |
| `FramedIo` | records, the chunk, polls, parked reads and wakers; the write half. Implements `ByteStream` |
| `NoiseResponder` | operators: the checks of `accept` in their order, and the session they yield |
| `ControlServer` | the host that builds, serves, stops, replaces and ends the server; connections and the key they were taken under, `GET /key`, `POST /ts2021`, the spawned task with `accept` and `write_early_noise` over a socket and FramedIo's buffer, clients that cache keys, read when they like, leave, and send what they like |
| `MCMemoryStore`, `MCFileStore`, `MCSharedFileStore`, `MCControlServer` | instances for TLC |
| `MemoryStoreProofs` | theorems on `MemoryStore`, and the lemmas on Vecs (find, overwrite, push, retain, filter) they rest on |
| `FileStoreProofs`, `SerialStoreProofs`, `SharedStoreProofs` | theorems on `FileStore`: for any callers, for one caller, and that it implements `SharedStore` |
| `FramedIoProofs`, `ControlServerProofs` | theorems on `FramedIo` and on `ControlServer` with the `NoiseResponder` it extends |

`ControlServer` extends `NoiseResponder`; the stores extend `StoreDocument`; the
abstract modules are instantiated by the ones that implement them.

### From code to model

**Rows.** A row keeps what some code looks at: its network, and of a pre-auth key
`reusable`, `used` and `expires_at`. Everything else is a member of `Data`.
`expires_at` is a time, `None`, or `Malformed` for a string that is no RFC 3339
timestamp. `Utc::now()` is `now`, which `Tick` sets to any other time: a wall
clock may go back.

**MemoryStore.** Each method takes the lock once and awaits nothing under it, so
each is one action. The Vecs are sequences of `[id, row]`; the four upserts are
one action that `TableOf` tells where to work. `saved` is the document that
`snapshot` returned, so that `replace` installs what was once a document.

**FileStore.** The `mem` of `FileStore` is the inner `MemoryStore` as tables of
ids, which `MemoryStore` is shown to be. A mutator is
`Mutate` (or `Consume`, `Flush`), then the steps of `flush`:
`Snapshot` (await and serialize), `CreateTmp` (open with truncation), `WriteTmp`
(write the whole snapshot; several `write(2)`s are one step, `Torn` is what their
mixes come to), `Rename`, which answers. `WriteFails` and `FlushFails` are the
`?`s. Which documents TOML cannot hold is not looked at: any of its snapshots may
fail to serialize, more than in the code. The model follows POSIX: an open descriptor stays on
its inode when the name is renamed (`fd` says which name the inode has by now),
so a second flush may write into the target. `Torn` is any content that
is no whole snapshot; it is taken to parse in no format. `load` is `LoadReads` and
`Replace`, `LoadMissing`, or `LoadFails`; `open` is one action since nobody else
holds the store yet. `Cancel` drops a future where it can be waiting, at the lock. `Crash`
is the death of the process: memory is lost, files stay, a write in progress may
be cut. `grant` and `redeemed` are history: the single-use key a running call has
flipped, and the keys some call returned `Ok(true)` for.

**SharedFileStore.** `FileStore` promises little to calls that overlap, and the
model says exactly what. `alone` holds the running call as long as no other ran
beside it; `period` holds the documents that were in memory, or readable on disk,
since no call was running, and is forgotten when the last one returns. A call that
was alone is on disk whole if and only if it returned `Ok`. While calls overlap the
file may become unreadable, or any document of the period; a `load` among them
may install any document of the period, so that mutations made meanwhile are
undone (a single-use key may be redeemed again); but nothing older comes back, a
redemption or mutation is one change of one memory, and a crash cuts only a file
that overlapping calls were writing. `DurableStore` is the case of one caller.

**FramedIo.** The peer's bytes are numbered. The inner stream is a queue of
records, each an interval of bytes, possibly empty, then an end. A `poll_read`
sets `room`, loops through `NextRecord` and ends in `ReadChunk` or `NoRecord`.
`parked` and `waker` are kept apart: Pending parks the reads, and only an inner
stream that holds the waker unparks them. Wakers of the write half are not
modelled. `Framed` and `BiCodec` come from other crates: they are
modelled by the contracts of `Stream` and `Sink`.

**ControlServer.** `server_key` is the handle the host has built, `listening` its
`serve`. `Stop` drops the future of `serve`: the listener goes, the tasks axum
has spawned for its connections stay, each with its clone of `ServerState` (the
`key` of the connection), and the host may serve again or build another server
beside them. axum 0.8.9 asks connections that are not upgraded to shut down
gracefully then: they are `draining` and may be closed between two requests, with
no word on how soon. `Exit` is the end of the process. `build` without a store and a
`bind` that fails return an error and change nothing.

A handler and its task are separate: `ts2021_upgrade` decides the status and
spawns, `Respond` is hyper writing it, `Upgrade` is the await that hyper resolves
when the 101 is out. `Accept`/`Reject` are `accept` up to its first write; `Write`
is each of its two writes to the raw socket; the `flush` behind them has nothing
to do on a socket. `WriteEarlyNoise` leaves the frame
in the buffer of `FramedIo`'s `Framed`, `Transmit` is its flush, and
`ServeConnection` begins HTTP/2. A socket takes `SocketBuffer` messages that its
client has not read; then the task waits. A client that is `gone` has closed its
end, or broken HTTP/2 in the tunnel: either ends `serve_connection`. Of
`NoiseError` only `Serde` is left out, since EarlyNoise always serializes. Clients are the environment;
`cached` is the key a client holds and `reply` the answer to `GET /key` on its way,
which may arrive after a restart. A connection is kept alive after `GET /key` or
an error. An initiation is a record of what the checks look at. The cipher opens
exactly what was sealed to the server's key under the same prologue.

## What is checked

Passing runs:

| Run | Instance | Shows |
|---|---|---|
| `memory_store` | 2 networks, 2 nodes, 1 key in three forms, 1 policy, 2 instants | `UniqueIds`; `ImplementsKeyedStore`: every mutation, redemption and read agrees with tables of ids |
| `file_store_serial` | 1 caller, TOML, loads, crashes, cancellation, I/O errors, a file from an earlier process or none | `TargetIntact`, `RedeemedStaysUsed` over restarts, `ImplementsDurableStore` |
| `file_store_concurrent` | 2 callers, one key issued as single-use or reusable, cancellation | `SingleWinner`, `RedeemedStaysUsed` within a process, `CallsReturn` |
| `file_store_faults` | 2 callers, one key issued and redeemed, `load`, every fault | `ImplementsSharedStore`; `SoloFlushIntact`: a flush alone in its file window publishes its snapshot whatever the others left behind; `SoloChangesAreWhole`: while it is alone, the target changes by that rename only |
| `framed_io` | 3 bytes in, 2 out, 2 queued records, buffers of 0 to 2 | `InOrder`, `ImplementsByteStream`, `EveryByteIsRead` |
| `server_ephemeral` | 2 connections (symmetric), 1 machine, versions 112 and 113, 2 fresh keys: `serve` is stopped and called again, the server replaced or restarted once; clients read at any pace | `SessionAgreed`; `WireInOrder`, also that a client which `accept` rejects is sent its 101 and no more; `CurrentClientAccepted` |
| `server_configured` | 1 connection, versions 112 to 114, 11 odd requests, a configured key, any number of stops, replacements and restarts | `SessionAgreed`, also of a message one byte short; `FetchedKeyAccepted`, also with a byte behind the payload; `UpgradeSettles` |

Each run also checks one type invariant where its module has one (`memory_store`,
`file_store_faults`, `framed_io`, `server_ephemeral`). For every property the
modules hold a definition marked `faulty`, a plausible mistake in the code that
the property catches.

Runs that end in a violation, each a disagreement of the code with what the
repository says:

| Run | The code | The repository says |
|---|---|---|
| `file_store_torn_target` | two flushes share `<path>.tmp`; one truncates what the other renames | `file.rs:74-75`: persisted "atomically" |
| `file_store_lost_update` | an older snapshot is renamed over a newer one, and both calls return `Ok` | `_docs/06-e2e-test.md:84-85`: both nodes survive a restart |
| `file_store_second_redemption` | the same race undoes a redemption on disk: after a restart the key is redeemed again | `_docs/06-e2e-test.md:86-88`, `_docs/04-critical-points.md:214-215` |
| `file_store_with_format` | `open` reads in the extension's format, `with_format` writes another | `document.rs:7`, `_docs/02-target-architecture.md:362-364` |
| `file_store_version` | `version` is never looked at | `_docs/04-critical-points.md:222`, `_docs/02-target-architecture.md:369-370` |

Three smaller ones need no run: `consume_preauth_key` returns `true` for a
reusable key without flipping it, while `traits.rs:28-29` says it does so "iff
this call won the race and flipped an unused key"; `load` of a missing file keeps
the memory (`file.rs:66`, and `DurableStore`, which permits it), while
`file.rs:61-62` calls it "an empty (fresh) store"; and no code compares the `v` of `GET /key`, while `tailcfg/src/capver.rs:9-11` says
it is compared.

### Bounds

- Two callers show every race of `flush` found so far: its hazards are between
  one flush and another. What holds of more callers is proved (below).
- One node, one key: the file holds the whole document, so a race is between
  documents and two different ones suffice. One key is the contended one.
- Two instants tell before, at and after an expiry of 1 (times 0 and 1).
- A record of up to three bytes against buffers of up to two: records are split
  over reads, end inside a buffer and at its boundary; empty records come first,
  between and last. `MaxBytes`, `MaxWritten`, `MaxRecords`, `MaxRead` name the bounds.
- A new server needs a key that was not used before, so `ServerKey` bounds the
  ephemeral rebuilds and restarts: with two keys a connection of the first server
  is finished beside one of the second. A socket holds two unread messages, so
  that its client may be ahead, behind, or hold the server up at every message.
  The forms of malformed requests do not depend on other connections: one
  connection sees them all. Connections are interchangeable and nothing chooses
  among them, so that symmetry is sound for the invariants it is used for.
- A connection sees at most one `/machine`
  request: the answer is constant. A closed connection's slot is used again.
- Deadlock is checked in every run.

### Fairness

- `FileStore!Fairness`: a caller inside `flush` or `replace` goes on. Each is a
  task of tokio's runtime; the file calls are synchronous, and the lock is held
  by nobody across an await.
- `FramedIo!Fairness`: a poll is synchronous code and ends; a read that is not
  parked is polled again with room, which hyper does while the connection lives.
- `ControlServer!Fairness`: hyper and the spawned task go on when they can. No
  fairness is assumed of clients, of the host or of time: `UpgradeSettles` is
  about clients that leave or again and again have read everything (`Reads`). One that
  does neither holds its task for ever, since the code has no timeout.

## What is proved

Every invariant and every refinement that the passing runs check is a theorem
here too, for every value of the constants that satisfies the named assumptions
and the hypotheses given below. A run tells that an invariant holds of a small
instance; the inductive invariant tells why it holds of all.

### FileStore

For every set of callers, ids, rows, times, mutations and initial files:

- `TypeCorrect` (`FileStoreProofs`): `Spec => []TypeOK`.
- `SoloFlushPublishesSnapshot`: `Spec => []SoloFlushIntact`, for any number of
  callers and any faults. The invariant `SoloInv` strengthens it: outside the
  write a caller's descriptor is on the temporary file; a caller marked `solo`
  is alone in its file window, its file empty before its write and its snapshot
  after; `ClosedIdle` (no call on a closed store) carries it over `Open`.
- `SingleUseKeysHaveOneWinner`: without crashes and without `load`,
  `[](RedeemedStaysUsed /\ SingleWinner)`. Both assumptions are needed: each of
  the two lets an old document, with the key unused, back into memory. The
  invariant adds that no caller is about to replace the memory and that keys
  granted or redeemed are spent.
- `TargetChangesAreWhole`: `Spec => SoloChangesAreWhole`, for any number of callers
  and any faults. From `SoloInv`: a step that changes the target is one of a caller in
  its file window or a crash that cuts one; a solo caller's descriptor is on the
  temporary file, so that its writes do not reach the target, and what it renames
  is its snapshot. `file_store_torn_target` shows that calls which overlap do worse.
- `SerialTargetIntact`: with one caller and initial files that are no torn ones,
  `Spec => []TargetIntact`. One caller is always solo (`AlwaysSolo`), so that by the
  same lemma (`StepChangesTarget`) every change of the target is a whole snapshot.
- `SerialStoreIsDurable` (`SerialStoreProofs`): with one caller and the format of
  the path, `Spec => ImplementsDurableStore`. `SerialInv` says that the caller is
  always solo, that its snapshot is the memory from `Snapshot` to `Rename`, and
  that a load holds what the target still holds. Every step then maps to a step
  of `DurableStore` or to none: `Rename` is `Commit`, the failures and `Cancel`
  are `Abort`.
- `SerialRedemptionsSurviveRestart`: under the same hypotheses,
  `Spec => []RedeemedStaysUsed` with crashes and loads, which
  `SingleUseKeysHaveOneWinner` excludes. Of the memory alone nothing follows about
  a restart: `RedeemedInv` says that the keys are used in the target as well,
  since `Ok(true)` is answered by the rename, and that a key in `grant` belongs to a
  call that has yet to rename.
- `FileStoreIsShared` (`SharedStoreProofs`): `SharedSpec => ImplementsSharedStore`
  for any number of callers, the format of the path and every fault. In
  `SharedInv`, `AloneInv` says that a call that was alone is the only one running,
  that it writes the memory or loads what the target still holds, and that its file
  window is its own; `PeriodInv` says that memory, snapshots, and whatever is
  readable in either file while calls overlap are documents of the period. The
  rename of a call that was not alone thus publishes a document of the period
  or nothing readable.

### MemoryStore

For any ids, rows, mutations and instants (`MemoryStoreProofs`):

- `TypeCorrect`: `Spec => []TypeOK`.
- `IdsStayUnique`: `Spec => []UniqueIds`. It is not inductive alone: `Replace`
  installs what `Snapshot` returned before, so `Inv` says the same of `saved`.
- `MemoryStoreIsKeyed`: `Spec => ImplementsKeyedStore`. The proof is about Vecs.
  `FindFinds` says what `iter().find` returns, `OverwrittenVec` and `UpsertedVec`
  what find-or-push does to the table a Vec stands for, `RetainedVec` what `retain`
  and `filter` leave. Uniqueness is what makes the tables well defined:
  were an id there twice, an upsert would change one row and `delete_node`
  would remove both.

`retain` is a recursive function over a Vec (`Retained`). The library's induction
theorems take the property as an operator, which the provers cannot instantiate;
the induction is done on sets of numbers instead (`NatSetInduction`, from the
least element of a set), one set for each lemma.

### FramedIo

For all bounds on bytes, records, buffers and `HighWater` (`FramedIoProofs`), with
nothing assumed of the peer, the socket or the sizes:

- `FramedTypeCorrect`: `Spec => []TypeOK`.
- `BytesInOrder`: `Spec => []InOrder`. Its invariant `Adjacent`: what was
  delivered, what is left of the chunk, and the records behind it are adjacent
  intervals that end at the last byte sent. Of `InOrder` alone nothing follows
  about the next read.
- `FramedIoIsByteStream`: `Spec => ImplementsByteStream`. From `Adjacent`, a reader
  with neither chunk nor record left has read all that was sent, so Pending, end
  of file and errors come only then; `Accounted` (accepted bytes are buffered or
  on the wire) does the same for a flush. `NextRecord` and `SocketFails` map to
  stuttering steps.

### ControlServer

For any connections, machines, versions, keys, socket buffers and requests, with
any number of stops, rebuilds and restarts (`ControlServerProofs`). One invariant,
`Sound` of every live connection, carries the first four: `Stage` says for each
point of the task how many messages of the dialogue the socket has taken and how
many FramedIo's buffer holds, and that the two are adjacent parts of the dialogue;
before a task there is the handler's answer at most; a session or an error is what the
checks of `accept` make of the request and of the connection's own key, and such
an error ends the task when nothing but the 101 is out.

- `TypeCorrect`: `Spec => []TypeOK`.
- `SessionsAgree`: `Spec => []SessionAgreed`.
- `DialogueInOrder`: `Spec => []WireInOrder`.
- `CurrentClientsAccepted`: `Spec => []CurrentClientAccepted`.
- `FetchedKeysAccepted`: `Spec => []FetchedKeyAccepted` for a configured key, if no
  odd request is a well-formed one, whatever follows its payload, of a supported
  version sealed to a key that no server ever had (such a client has not fetched its key, and would be rejected rightly).
  Its invariant `OneKey` says that servers, answers on their way, caches and
  requests hold the configured key or none.

### Assumptions and limits

Assumptions on constants are named where they are declared: marks (`None`,
`Blank`, `Torn`, `Malformed`) are none of the values they stand beside, mutations and
odd requests are well typed, formats are formats, capability versions are 16-bit
numbers, bounds are numbers. TLC evaluates each of them in a passing run.

Only model-checked: liveness (`CallsReturn`, `EveryByteIsRead`, `UpgradeSettles`),
which needs fairness and ENABLED and is out of the prover's reach; and the runs
that end in a violation, which are counterexamples.

## Not modelled

Power failure and fsync: nothing is synced, so what a file holds afterwards is
the file system's choice; the bytes a torn file may happen to be (a prefix of YAML
or TOML could parse); two stores on paths with one `.tmp`, which only
the host's choice of paths can bring about; an upsert of a key from an old copy,
which no caller makes yet; record sizes and
encryption inside `BiCodec`; HTTP parsing, axum routing and HTTP/2; logging;
JSON casing and key codecs; timeouts, of which the
code has none; everything declared and empty. `StoreError`'s kinds are one "err".

## Plan

1. Done: `StoreDocument`, `KeyedStore`/`MemoryStore`, `DurableStore`/`FileStore`,
   `ByteStream`/`FramedIo`, `NoiseResponder`/`ControlServer`, and the theorems on
   `FileStore` and `FramedIo`.
2. Done: `SharedStore`/`SharedFileStore`; the host's life cycle of the server,
   the keys of its connections, sockets that fill up and the tunnel's buffer in
   `ControlServer`.
3. Done: theorems for every invariant and refinement of the runs.
4. Open: a store whose callers are serialised by a lock around a whole call,
   mutation and flush, should implement `DurableStore` for any number of callers. The
   code has no such lock, so no module has one; should it get one, `SoloInv` is
   where the proofs start, since every caller is then solo. The empty crates get modules when they get code.
