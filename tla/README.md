# TLA+ models of the direct-message chat server

This directory checks `src/slack/chat_server.cpp` with TLC: a Crow HTTP/WebSocket
server that relays direct messages between two users and records them in MySQL.
`src/fileIO/file.c` is a separate single-threaded file-I/O demo, modelled on its own in `FileDemo`.

## 1. Inventory

### Components and their state

| Component | Code | State | Operations |
|---|---|---|---|
| Presence Registry | `wsMap`, `wsMutex` (l. 58–60) | user id → `std::vector<connection*>`; a vector may hold a connection more than once | register (`onmessage`, l. 423–426), deregister (`onclose`, l. 399–409), lookup (`sendMessageOverWebSocket`, l. 104–107) |
| Fan-out Dispatcher | `sendMessageOverWebSocket` (l. 101–118) | none of its own; writes to connections | one `send_text` per connection of every recipient, with a try/catch per connection |
| Channel Resolver | `/channel/<s>/<r>` (l. 188–291) | tables `channel`, `membership`, `message` | resolve both names (id 0 if unknown), look up a shared channel, then either return the last 10 messages, or insert channel, "channel created" message and two memberships and notify the receiver |
| Message send | `/message/<sid>/<cid>` (l. 294–359) | table `message` | validate the body, insert, read members other than the sender, fan out |
| User creation | `/createUser/<name>` (l. 141–185) | table `user` | select by name, insert if absent |
| Heartbeat Tracker | `onmessage` upsert (l. 428–444), `/status` (l. 362–392), `timePointToSQL`, `parseSQLTime` (l. 62–83) | `user.last_timestamp` | upsert on heartbeat; online iff `now - last <= 10 s`, computed in whole seconds from a local-time string |
| Session Endpoint | `onopen`, `onmessage`, `onclose` (l. 395–452) | the connection's lifetime | open, heartbeat (register, then upsert), close (deregister) |
| Startup | `connectToDb` (l. 86–97), `main` (l. 120–128, 454–456), root route | DB handle | connect, exit with 1 on failure, otherwise serve |
| File I/O demo | `src/fileIO/file.c` `main` | `vijay.txt`, `struct.bin`, `char sent[28]`, `struct bio vijay2` | write a text and read it back twice (the second time after `fseek` 11), write two records and read back the last |

### How they interact

* Shared state: the MySQL tables under the single `dbMutex`, and `wsMap` under `wsMutex`.
* `createChannel` and `sendMessage` call `sendMessageOverWebSocket`, and so take `wsMutex`,
  while they still hold `dbMutex`. `onmessage` takes `wsMutex`, releases it, then takes
  `dbMutex`. `onclose` takes only `wsMutex`. The lock order is therefore always db → ws.
* Crow runs HTTP handlers on a thread pool (`.multithreaded()`), and runs the
  callbacks of one WebSocket connection one at a time; callbacks of different
  connections and HTTP handlers interleave freely.
* Crow destroys a connection object after `onclose` returns. The registry holds raw
  pointers, so it must be free of the connection by then.

### What is hard

* Interleavings of heartbeats, closes, peer drops and fan-outs across connections and workers.
* A heartbeat pushes the connection again on every call, so the vectors hold duplicates.
* Channel creation is four autocommitted INSERTs with no transaction, so a failure
  part-way leaves partial rows.
* Timestamps have whole-second resolution and are written and read as local time.
* Inputs are not validated: names may be unknown (id 0), sender and receiver may be the same.

### What makes each component correct

* Registry: it never holds a destroyed connection, and registration is idempotent.
* Fan-out: every live connection of every recipient gets the message, once each, in the
  order the messages were stored, even when another recipient's connection is dead.
* Resolver: there is at most one channel per pair, it has exactly two distinct
  memberships, and its history is returned newest first.
* Heartbeat tracker: a user is online for exactly the 10 s window after a heartbeat.

## 2. Modules

| Module | Models | Notes |
|---|---|---|
| `PresenceRegistry` | `wsMap` operations | `Register` (push_back), `Deregister` (erase-remove plus erase of empty keys), `ConnectionsOf` |
| `FanOut` | the send loop | `Deliver` folds over the target list and appends the message id to each open connection's inbox |
| `ChannelStore` | the SQL queries | `FindUserId`, `CommonChannels` (the double join), `RecipientsExcept`, `HistoryResults` (ORDER BY created_at DESC LIMIT n, where ties are in any order) |
| `ChatServer` | the whole server | composes the three above. Workers and connections are processes |
| `DirectChannels` | what the resolver and message send promise (spec 3, 4.3, 6) | abstract: channels as pairs of distinct users, each created once with its first message; an append-only log |
| `HeartbeatTracker` | `last_timestamp` writes and `/status`, in sub-second time | `TimePointToSQL`, `ParseSQLTime`, `TruncSeconds`, `IsOnline` as operators |
| `MCChatServer` | TLC instantiation | model values, initial user tables, heartbeat payloads, channel requests, symmetry |
| `PresenceSet` | the registry of spec 4.1 | abstract: a set of (user, connection) pairs |
| `FileDemo` | `file.c` | the five blocks of `main` as actions over byte tokens |
| `MCHeartbeatTracker` | TLC instantiation | two users |

### `ChatServer`: how state and actions correspond to the code

* Variables `users`, `lastTs`, `autoInc`, `nChan`, `membership`, `msgs` are the tables.
  A message row's index is its `message_id`, and its body is abstracted away.
* `dbHolder` is the worker holding `dbMutex` across steps. Every `wsMutex` section is a
  single step, because nothing inside it waits on anything else. The only place a handler
  could keep `wsMutex` past a step is `onmessage`, between the push and the upsert, so `hb[c].ws`
  records whether it does. `WsFree` says no handler does, and every `wsMutex` section
  (`Fanout`, `Heartbeat`, `OnClose`) is guarded by it. In the code the lock_guard's block
  closes at l. 426, so `Heartbeat` sets `ws` to FALSE.
* `wk[w]` is the request in progress on worker `w`. `hb[c]` is the heartbeat handler of
  connection `c` between its two critical sections. `connState[c]` is one of
  new / open / dead (the peer vanished and `onclose` has not run yet) / freed.
  `inbox[c]` is the sequence of message ids sent to `c`.
* `phase` is `main`'s progress: `"connecting"`, then `"serving"` or `"exited"`. Every handler is
  in `Serve`, which `Next` enables only in phase `"serving"`.
* Actions:
  * `Start`: `connectToDb`. It succeeds, or, when `AllowDbFailure` is TRUE, it throws and `main`
    returns 1. `Exited` is the stopped process, which stutters.
  * `CreateUser`
  * `ChannelLookup`: take `dbMutex`, then look up. On a hit, return the history and release the lock.
  * `ChannelCreate`: the four inserts, where the first `k` succeed.
  * `SendMessage`: insert, then the member and name queries.
  * `Fanout`: `sendMessageOverWebSocket`, then release `dbMutex`.
  * `Open`
  * `Heartbeat`: register in `wsMap`.
  * `HeartbeatUpsert`: the user upsert under `dbMutex`.
  * `OnClose`
  * Environment steps: `PeerDrop` and `Tick`.
* SQL failures: when `AllowDbFailure` is TRUE, any statement may throw. The handler then
  keeps the rows it has already written, answers 500, and the `lock_guard` releases `dbMutex`.

### `ChatServer` refines `DirectChannels`

`ChatServer` defines `DC == INSTANCE DirectChannels WITH ...`, with this refinement mapping:

* `channels[i]` is the set of `user_id`s of the membership rows of channel `i`.
* `log[i]` is message row `i` without its timestamp.

`DirectChannelsSpec == DC!Spec` is checked as a PROPERTY. Every server step must then do one of three things:

* create a channel for a new pair of distinct users, with its two memberships and its first message from the requester, all in one step;
* append one message to an existing channel;
* leave the tables alone.

The abstract `Post` does not require the sender to be a member, because neither the code nor spec 6 checks it.

### `ChatServer` refines `PresenceSet`

`PS == INSTANCE PresenceSet WITH reg <- ...` reads `wsMap` as the set of pairs `<<u, c>>` with
`c` in the vector under `u`. `PresenceSetSpec == PS!Spec` says:

* a heartbeat adds its connection under its user;
* `onclose` removes that connection from every user;
* no other step changes which connections are registered.

The duplicates that `push_back` makes are invisible in the set. `dup_delivery` shows what they cost.

### `FileDemo`: how state and actions correspond to `file.c`

A byte is a token:
* `<<"txt", i>>` is character `i` of the text;
* `<<r, i>>` is byte `i` of record `r`, as `Encode(r)` lays it out (`name[20]` zero-filled, then `age` and `height`);
* `NUL` is a zero byte;
* `Undef` is a byte of automatic storage that has never been written. It may hold zero or not, and `printf` may read either.

Variables:
* `disk` holds the two files.
* `sent` and `vijay2` are the two buffers.
* `out` records, for each `printf("%s")`, whether it read past its array. The text itself is abstracted away.

Actions, one per block of `main`:
* `WriteText`
* `ReadText(at, offset, next)`: the plain read and the read after `fseek(11)`.
* `WriteStructs`
* `ReadLastStruct`

Each block's `fopen` may fail and lead to `exit(3)` (`Exit`). With `AllowIoFailure`, the flush in `fclose` may also write only a prefix, as when the disk is full. The code checks neither `fwrite` nor `fclose`.

`fread` of a partial element is modelled as glibc behaves: the bytes read are copied and the rest of the object is left alone. The C standard makes that element's value indeterminate.

The program ends, so the `FileDemo` cfgs set `CHECK_DEADLOCK FALSE`.

### `HeartbeatTracker`: how state and actions correspond to the code

Time is counted in ticks of 1/`Sub` second, and wall-clock seconds count from the same origin.

Variables:
* `now` is `system_clock::now()`.
* `lastTs[u]` is the stored `last_timestamp` in local wall-clock seconds, or `NoRow`.
* `beat[u]` is the tick at which that value was written. It is history, used only by the properties.
* `report[u]` is the flag in the last `/status` response.

Operators:
* `TimePointToSQL`: the `to_time_t` truncation, plus 3600 s when local time is in DST.
* `ParseSQLTime`: `mktime` with `tm_isdst = 0`, which reads the wall-clock time as standard time.
* `TruncSeconds`: `duration_cast<seconds>`.
* `IsOnline`: the `<= 10 s` test.

Actions:
* `Touch(u)`: the heartbeat upsert, and the `createUser` insert.
* `Status`: the whole `/status` handler.
* `Elapse`: the clock advances (environment).
* `StepBack`: the wall clock is set back by at most `MaxStepBack` ticks (environment).

`ChatServer` models the same writes at one-second resolution, together with the rest of the server. `/status` only reads, so it is modelled here alone.

### Fairness

`FairSpec` adds weak fairness to `Start`, `ChannelCreate(w)`, `Fanout(w)` and `HeartbeatUpsert(c)`:

* `main` runs `connectToDb` to its end.
* A thread already inside a handler that holds `dbMutex` runs on, because nothing in it waits for another request.
* A thread blocked on `dbMutex` gets it if the mutex stays free.

`std::mutex` is not fair, so strong fairness is not assumed. Nothing is assumed about requests that have not yet arrived.

## 3. Runs

| Run | cfg | Expect | What it shows |
|---|---|---|---|
| core | `MCChatServer.cfg` | pass | `NoDanglingConnection`, `OneChannelPerPair`, `DeliveryInStoreOrder`, `FanoutReachesLiveMembers` and `PresenceSetSpec` hold under all interleavings of two workers and two connections |
| db_failure | `MCDbFailure.cfg` | pass | under `FairSpec`, with SQL failures at any statement and the clock advancing: pair uniqueness and in-order delivery hold, and every worker that takes `dbMutex` releases it (`DbMutexReleased`). This holds on the 500 paths, and it means the db → ws lock order does not deadlock against `onmessage`. It does not say that a message stored on an error path is delivered. |
| dup_delivery | `MCDupDelivery.cfg` | violation | two heartbeats, then a message, and the connection receives it twice (`NoDuplicateDelivery`) |
| self_channel | `MCSelfChannel.cfg` | violation | `/channel/n1/n1` writes two identical membership rows (`MembershipPairsUnique`) |
| history_order | `MCHistoryOrder.cfg` | violation | two messages stored in the same second come back oldest first (`HistoryNewestFirst`) |
| partial_channel | `MCPartialChannel.cfg` | violation | a failing INSERT leaves a channel with fewer than two memberships (`TwoMembersPerChannel`) |
| refinement | `MCRefinement.cfg` | pass | with requests for two distinct existing users and no failures, the server implements `DirectChannels` (`DirectChannelsSpec`) |
| unknown_name | `MCUnknownName.cfg` | violation | `/channel/n1/n2` before `n2` exists creates a channel with member id 0, which is not a `DirectChannels` step |
| hb_status | `MCHeartbeatTracker.cfg` | pass | `/status` shows a user online at most 10 s after the last heartbeat and offline from 11 s on (spec 8), even with the clock set back by up to 1 s (`StatusWithinGrace`) |
| status_dst | `MCStatusDST.cfg` | violation | in DST, a user is still online 11 s after the last heartbeat, and stays online for about an hour |
| file_demo | `MCFileDemo.cfg` | pass | with `fopen` and the flush able to fail, the record printed at the end is `suriya` whenever both records reached the file (`LastRecordReadBack`) |
| file_overread | `MCFileOverread.cfg` | violation | the 27 characters read into `char sent[28]` have no terminator, so `printf("%s")` may read past the array (`NoOverread`) |

Divergences that are stated here and not checked by a run:

* **The exact spec 4.2 predicate.** The rule `now - last <= 10 s` does not hold exactly. The two
  whole-second truncations keep a user online until just under 11 s after a heartbeat. Spec 8's
  test (online at once, offline at +11 s) is what `hb_status` checks.
* **Non-monotonic timestamps.** The heartbeat upsert writes `system_clock::now()` unconditionally.
  When the wall clock is set back, a user's `last_timestamp` decreases, against spec 3 invariant 4.
  `hb_status` allows such steps and checks that the report stays right regardless.
* **The `file.c` seek label.** The second print is labelled "after seeking 10 offset", but the code
  seeks 11, so the text starts at the "u" of "suriya". The short read also leaves stale bytes from the
  first read after the new text.

The heartbeat upsert can starve. Requiring every heartbeat to be recorded eventually fails
under `FairSpec`: a stream of `/channel` requests whose inserts fail takes `dbMutex` again each
time it is released. `std::mutex` allows that, so no fair property is claimed for it, and it is
listed as a hazard.

Every property of a passing run has a mutant, a plausible bug in the mapped code,
that TLC catches:

* onclose erasing only the first copy (`DeregisterFirstCopy`), for `NoDanglingConnection` and `PresenceSetSpec`;
* onclose leaving an empty vector under its key, which `TypeOK` rejects (`DeregisterKeepKeys`);
* the lookup not holding `dbMutex` into the inserts (`ChannelLookupUnlocked`), for `OneChannelPerPair` and `DirectChannelsSpec`;
* releasing `dbMutex` before the fan-out, as spec section 5 suggests (`ChannelCreateEarlyUnlock`);
* a try/catch around the whole loop (`DeliverStopAtFailure`);
* `onmessage` keeping its `wsMutex` lock_guard to the end of the handler, without the braces at l. 423–426, so that the upsert waits for `dbMutex` while holding `wsMutex` (`HeartbeatHoldingWs`, for `DbMutexReleased`). A worker that holds `dbMutex` in its fan-out and the heartbeat then wait on each other;
* `<` for `<=` in the online test (`IsOnlineStrict`);
* `timePointToSQL` rounding instead of truncating. This stores a time up to half a second in the future, which `TypeOK`'s range rejects at the horizon (`TimePointToSQLRounded`);
* `fseek(-27, SEEK_END)`, one byte short of the record (`SeekEndTargetOffByOne`).

### Bounds and why they are enough

* Workers {w1, w2}: the smallest number that lets two requests race on `dbMutex`.
* Connections {c1, c2}: enough for a dead connection ahead of a live one in a vector
  (needed by `FanoutReachesLiveMembers`), and for a connection under each user.
  The `db_failure` run uses one connection.
* User ids 1..2 plus 0 for unknown names. The initial table has only `n1`, so unknown names,
  user creation and heartbeat-created users all occur.
* At most 2 channels and 2 messages: enough for two creations that race, for a send on
  an existing channel, and for two messages to one connection.
* `MaxRegs = 2`: a connection can appear twice in a vector, which is the duplicate case.
  `db_failure` uses 1, because duplicates are not its question.
* `HistoryLimit = 2`: the code's LIMIT is 10. With at most 2 messages, a limit of 2 returns every message, just as 10 would.
* `MaxTime`: 0 in `core`, where every write happens in the same second, which is the tie case.
  1 in `db_failure`.
* `refinement` starts with both users in the table and sends only distinct-name requests. These are the inputs on which the code and the abstract specification agree.
* `HeartbeatTracker`:
  * ticks are half seconds (`Sub = 2`);
  * the horizon is 25 ticks (12.5 s), past the 10 s window and the 11 s offline point;
  * two users, one touched and one not;
  * `hb_status` sets the clock back by up to 2 ticks.
* `FileDemo` has no bounds to choose. The program is straight-line, and every flush length from
  0 to 56 bytes is explored, including every cut inside a record.

Deadlock is checked in every `ChatServer` and `HeartbeatTracker` run. The one place the server really stops, after a failed `connectToDb`, is `Exited`, which stutters. Symmetry over connections
and workers is used in the safety-only runs. `db_failure` checks a liveness property, so it uses
no symmetry. Names are not symmetric: the initial table and the heartbeat payloads name them.

## 4. Not modelled, and why

* The root route: it returns a static page and changes no state.
* Payload text, JSON and logging: every property is about which message reaches whom,
  not its text.
* The empty-body and bad-JSON 400 paths of `/message` change no state.
* Heartbeat frames that fail to parse only log.
* Heartbeat payloads are limited to each client's own `<<uid, name>>`. Spoofed ids are a
  non-goal (no authentication), and id 0 depends on MySQL's `NO_AUTO_VALUE_ON_ZERO`.
* A heartbeat naming another user's name. Without a unique index on
  `userName`, two rows share the name and `findUserId` picks either. With one, the upsert's
  `ON DUPLICATE KEY` refreshes the other user's timestamp. The schema is not in the repository,
  so neither behaviour is the code's.
* `sendMessage` is issued only for existing channels. The schema's foreign keys are not in the repository.
* A heartbeat timestamp that `get_time` cannot parse. `mktime` then yields a time in 1900 and the
  user reads as offline, as spec 4.2 requires. Every stored timestamp is written by `timePointToSQL`, so this case is not reachable.
* `file.c`:
  * a failing `fread`: the file was just written, and only a device error makes the read fail;
  * the `%d`/`%f` fields of the last print;
  * `printf("%d", sizeof ...)`, a format mismatch that is output only.

## 5. Plan

1. **Done**, `PresenceRegistry`, `FanOut`, `ChannelStore`, `ChatServer`: the presence and fan-out core and channel resolution, with locks and failures.
2. **Done**, `HeartbeatTracker`: the sub-second `/status` model, with the DST finding.
3. **Done**, `DirectChannels` and its refinement, with the unknown-name finding.
4. **Done**, `PresenceSet` and its refinement, checked in `core`.
5. **Done**, `FileDemo`, with the unterminated-string finding.
6. **Done**, liveness: `DbMutexReleased`. Heartbeat completion cannot
   hold under the weak fairness that `std::mutex` justifies (see the liveness hazard at l. 430).
7. Larger instances for the core (three connections), if a state constraint keeps them under the time limit.
