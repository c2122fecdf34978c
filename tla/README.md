# A TLA+ verification of whatsvelte-rust

whatsvelte-rust is a desktop client for WhatsApp in three layers: a Svelte 5
frontend (`svelte-frontend/`), a Tauri shell (`src-tauri/`) and a vendored client
library (`rust-backend/`).  The modules here model the parts of it that keep
state across asynchronous steps, check them on small instances with TLC, and
prove the most important properties with TLAPS for instances of any size.

Paths below are relative to the repository.

## 1. The system

| Part | Source | State | Operations |
|---|---|---|---|
| Message cache | `svelte-frontend/src/lib/persist.ts` | queue of pending writes, two debounce timers, `enabled`, `epoch`, `inflight`; the IndexedDB stores `msgs`, `chats`, `meta` | queue a put / insert / delete, patch, move a chat, flush, load a page, wipe, enable |
| Message store | `stores/messages.svelte.ts` | resident messages per chat, `exhausted`, `loadingOlder`, early receipts | add, add history, update, revoke, remove, page, open, close, trim, merge, optimistic send |
| Event bridge (frontend) | `stores/events.ts` | `started`, status | one handler per backend event, boot reconciliation, `resetAll` |
| LID unification | `stores/lid.ts` | learned map, requests in flight | `canonicalJid`, `unifyLid`, `learnLidMapping` |
| Chat list | `stores/chats.svelte.ts` | chat rows, active chat, drafts | upsert, touch, flags, unread counters, merge |
| Read receipts | `receipts.ts` | ids acknowledged, ids queued | observe, enqueue, flush |
| Contact names | `stores/contacts.svelte.ts` | learned names, save timer | learn, load, clear |
| Session manager | `src-tauri/src/session.rs` | map of sessions, database files, run tasks | boot, get or create, reset |
| Event bridge (backend) | `src-tauri/src/bridge.rs` | event channel, history decoders | pump, decode history |
| Commands | `src-tauri/src/commands/*` | none | one library call each |
| Client library: connection | `rust-backend/src/client/*`, `keepalive.rs` | flags, slots, notifiers of a connection | run, connect, disconnect, reconnect, login |
| Client library: message secrets | `rust-backend/src/msg_secret_buffer.rs` | buffered secrets, drain flag, seal | capture, drain, look up, seal |
| Client library: Signal sessions | `rust-backend/wacore/src/store/signal_cache.rs` and its callers | cached sessions, dirty marks, consumed prekeys | decrypt, encrypt, delete, migrate, flush, clear |
| Client library: device state | `rust-backend/src/store/persistence_manager.rs` | the device, its dirty flag | modify, flush, background saver |
| Client library: prekeys | `rust-backend/src/prekeys.rs` | stored keys, two watermarks | upload pass, key of a retry receipt |
| Rest of the client library | `rust-backend/` | app state, encodings, cryptography | vendored |

How they interact.  The library hands events to the backend bridge, which emits
them to the frontend bridge.  Its handlers change the stores, and the stores
queue writes in the message cache.  The user opens and pages chats, which reads
the cache.  Learning that a LID (a privacy address) belongs to a PN (a phone
number) merges two conversations in memory, in the queue and on disk.  A logout
resets all of it: the cache is wiped, then the session manager deletes the
database of the library and boots a fresh session.

What makes it hard.  JavaScript runs one callback at a time, but almost every
operation awaits IndexedDB, so a flush, a page, a patch, a merge and a reset
overlap; the debounce timers fire anywhere between them; and messages leave
memory before their writes have reached the disk.  The library runs its loops on
several threads, which share atomic flags and mutexes that are locked one at a
time, while the network, the server and the user's calls interfere at any point.
Three of its stores write behind: message secrets, Signal sessions and the device
are in memory first and on disk later, and a crash, a failing write or a disconnect
can come at any step in between.
`PROJECT.json` lists the hazards line by line.

## 2. Modules

### Persist

`Persist` models `persist.ts`.  A call that has reached its first `await` is a
*job*; `txq` holds the transactions in the order they were created, which is the
order IndexedDB runs overlapping read-write transactions in.  Before the database
is open every caller awaits the same promise, whose continuations run in call
order, so `txq` orders the waiting calls too.  A message is abstracted to the
epoch it was received in (`born`) and the set of updates it reflects (`upd`):
that is what the properties tell apart.

| Variable | Code |
|---|---|
| `msgs`, `chatRow`, `account` | object stores `msgs`, `chats`, the account marker in `meta` |
| `pending`, `msgTimer`, `chatsTimer` | the queue and the timers |
| `enabled`, `epoch` | the module variables of that name |
| `open` | `openDb`'s promise has resolved |
| `job`, `txq` | asynchronous calls in progress; `Inflight` is the set `inflight` |
| `wiped` | history variable: the epoch begun by the latest wipe that committed |

Every exported function is an action that runs to its first `await`
(`PersistMessage`, `PatchPersistedMessage`, `MovePersistedChat`, `ClearAll`...),
and every continuation is an action (`FlushTx`, `FlushResume`, `PatchTx`,
`MoveTx`, `ClearSettled`, `ClearTx`...).  `TxAbort` is a transaction that fails,
`Restart` an app that is closed or crashes.

### MessageStore

`MessageStore` EXTENDS `Persist` with the resident window of
`messages.svelte.ts` and what drives it: the handlers of `events.ts`, the effects
of `MessageList.svelte` that open and close a chat, the merges of `lid.ts` and
the synchronous part of `resetAll`.  `mem` is `messagesByChat`; `exhausted` and
`loadingOlder` are the code's; `active` is `chatUi.activeJid` and `shown` the chat
the view has open.  Svelte runs its effects in a microtask, before the next event
or timer, so every other action waits until `shown = active` (`Settled`).  `heard`
and `removed` are history variables.

The unread flag is not part of a message: a step that may change flags may
persist any of the incoming messages it looks at.

### SendStatus

`SendStatus` models a send from the open chat: `addOptimistic`, the send command,
`confirmOptimistic` / `failOptimistic`, the delivery of own messages (`addMessage`
with `fromMe`), receipts and the early receipts, and a LID merge of the chat.

| Variable | Code |
|---|---|
| `call` | the send command as the sending function sees it |
| `bubble`, `mem` | the messages of the chat under their `tmp-` id and under their real id |
| `early` | `earlyReceipts`, a JavaScript Map, in insertion order |
| `asked` | lookups in the database that `applyReceipt` awaits |
| `moved` | bubbles that are no longer under the chat key of their send |
| `echoed`, `told` | history variables: what the server has delivered and told |

A message of the open chat stays resident and each of its changes is persisted in
the same step, which `Persist` and `MessageStore` are about, so the cache does not
appear.  `Body` is what a delivered message says and `Preview` what its bubble says;
they differ for a file, whose bubble shows a label.  The rank `played` is left out: it
behaves like `read`.

### ClientLifecycle

`ClientLifecycle` models the connection lifecycle of the library: `run`, `connect`,
`disconnect`, `logout`, `reconnect`, `reconnect_immediately`,
`cleanup_connection_state`, the reader with every frame that changes the connection
state, `keepalive_loop`, and the post-login task with its critical-sync timer.  The
tasks run on several threads; a step is what one task does between two points at
which another can see a difference, that is, one store to a flag or one access to a
slot.  Consecutive stores are merged only where no other task can tell.

| Variable | Code |
|---|---|
| `fl` | `is_running`, `expected_disconnect`, `enable_auto_reconnect`, `intentional_reconnect`, `is_connecting`, `is_connected`, `is_logged_in`, `is_ready` |
| `slot` | the mutexes `transport`, `transport_events`, `noise_socket` |
| `conn`, `fired` | the notifier in `connection_shutdown`, and the notifiers fired so far |
| `closed` | transports that are closed |
| `gen` | `connection_generation` |
| `pc`, `rx`, `sig`, `err` | where each task is, and the locals it carries over an `await` |
| `spawned` | stanza handlers running beside the reader |

A ping that fails for good (`FatalFailure`) is possible only where the code can
produce it: not connected, no socket, or a closed transport.

### SecretRows, SecretStore, MsgSecretBuffer

`SecretStore` is the promise made to the users of message secrets: a table in which a
capture takes effect at once.  `MsgSecretBuffer` models `msg_secret_buffer.rs`, every
access to a lock or an atomic a step of its own, and implements it.  The table a reader sees
(`Visible`) is what `lookup` hands out: the secret and the message time of the buffered entry
alone, or of the row where nothing is buffered; nothing merges the two before a flush.  So
`SecretStore` is exact about the secret and weaker about the time: a capture may hide a later
time that is in the row (section 3), a flush never makes the time earlier, and a row never
loses its time or its lifetime.  `failing` is a database error that has just happened; only
after one may readers fall back to the rows.  `SecretRows` holds the upsert of
`put_msg_secrets` that both use.

| Variable | Code |
|---|---|
| `pending`, `sealed`, `draining` | the fields `pending`, `sealed`, `drain_in_flight` |
| `writer`, `batch`, `outcome` | holder of `write_lock`, its snapshot, the result of its write |
| `row` | the table `msg_secrets` |
| `reading` | a reader between its look in the buffer and its look in the database |
| `offered`, `captured` | history variables: the last capture; keys no failed write dropped |

The rows are also written directly by history sync and deleted by the expiry job; both
are left out.  A lookup under the other address of the sender is another lookup.

### SignalCache

`SignalCache` models the session map of `signal_cache.rs` with the callers that matter:
pkmsg and msg decryption and encryption (`receive.rs`, `session_cipher.rs`, `send.rs`),
prekey bundles (`sessions.rs`), recreated sessions (`retry.rs`), the PN to LID migration
(`lid_pn.rs`), unlocked probes, the purge of removed devices, and the cleanup of a
connection.  A session record is the set of marks it carries: the prekeys it was promoted
by and its ratchet steps.  `flush` holds the sessions mutex over its backend calls, and
each of these is a step that may fail; the process may crash between any two.

| Variable | Code |
|---|---|
| `entry`, `dirty`, `deleted` | `SessionStoreState`: `Present`, `Absent`, `CheckedOut` or no entry |
| `removed` | `removed_prekeys` |
| `disk`, `keys` | the tables of sessions and prekeys |
| `lock`, `sessions` | the session locks, and the mutex of the map while a flush holds it |
| `last`, `gap`, `stale`, `waived`, `dropped` | history variables: what was stored last, and the exceptions of the properties |

Identities and sender keys use the same write-back scheme, without check-out and without
prekeys; they and the cryptography are left out.  A session lock never disappears here,
whereas the code keeps the locks in a bounded cache.

### DeviceSaver, PreKeys

`DeviceSaver` models `persistence_manager.rs`: `modify_device`, and `save_to_disk` as the
three steps other threads can come between (take the flag, serialise, write), run by the
background saver and by callers of `flush`.  `PreKeys` EXTENDS it with `prekeys.rs`: the
upload pass step by step, its callers and retries, the single key of a retry receipt, the
watermark arithmetic with its 24-bit limit, peers that use keys, and crashes.  It changes
the device through `modify_device` only, so it implements `SaverSpec` (proved).

| Variable | Code |
|---|---|
| `device`, `dirty`, `disk`, `saving`, `halted`, `streak` | the device, its flag, its row, each `save_to_disk` under way, `saver_halted`, `consecutive_failures` |
| `store` | the stored keys, each with the pass that generated it |
| `op`, `pc`, `plan`, `rows`, `rerun` | the pass under `prekey_upload_lock` and its locals |
| `pool`, `given`, `used` | keys the server may hand out, keys in retry receipts, used keys |
| `edits`, `newest`, `late`, `sent`, `resent`, `ahead`, `unmarked`, `recycled` | history variables |

The final flush of the saver on shutdown is left out, and so is the comparison of
digests, which only decides to start a pass.

### Session

`Session` composes `session.rs`, `bridge.rs`, `commands/auth.rs` and the start, status and
reset of `events.ts`, for one session id.  A client is named by its generation.  Events
carry the session id only; the generation and account in an `Event` are history that no
handler reads.

Of the library there is who holds a client.  `reset` aborts and awaits the run task, but not
the tasks the library has detached (the rotation of QR codes, `pair.rs:85-134`; the answer to
prekey-low, `device.rs:62-100`; stanza handlers and their retries, `node_io.rs:107-109`), nor
commands in progress.  They keep the `Arc<Client>`, and with it the database, after the loop
has "ended"; `LetGo` is the end of the last of them.  Until then they dispatch events
(`Dispatch`, whose code is in `pair.rs`, `client/node_io.rs:1024-1197` and
`client/lifecycle.rs:352` and `513-518`).  `delete_db_files` gives up when Windows refuses to
delete a file that is open, and on any other error, on every platform: the code logs it and
boots on the old file.

| Variable | Code |
|---|---|
| `map`, `lock` | `SessionManager::sessions` and its mutex |
| `file`, `key`, `acct` | the database file, the device key each client has open, the account of each key |
| `loop` | each client: its run task is "running", or has "ended" and others may hold the client, or all is "done" |
| `chan`, `decoding`, `wire` | the event channel of each client, history decoders, events on their way to the webview |
| `call` | invocations in flight, and where they are |
| `front`, `ui` | the position of `startEventBridge`; `jid`, `clientDead` and `qrCode` of the session store |
| `mem`, `idb`, `marker` | accounts with rows in the stores and in the cache, and the cache's account marker |
| `outdated`, `reborn` | history variables: the last status was lost or outdated; clients booted by a reset |
| `kept` | history variable: keys a reset failed to delete because of an error, or because somebody other than a running loop held the client |

Simplified: the listeners are registered in one step, `clearAll`, `setAccount` and
`enablePersistence` at the end of the start are one step (`Persist` has their detail), and
the lock that serialises history decodes is left out.

### Dependencies

`Persist` <- `MessageStore`; `SecretRows` <- `SecretStore`, `MsgSecretBuffer`, the latter
with an INSTANCE of `SecretStore`; `DeviceSaver` <- `PreKeys`; `SendStatus`,
`ClientLifecycle`, `SignalCache` and `Session` stand alone.  `PersistProofs`, `SendProofs`,
`LifeProofs`, `MsgSecretProofs`, `PreKeysProofs` (with those of `DeviceSaver`),
`SessionProofs` and `SignalProofs` extend their modules with the proofs; `StoreProofs`
extends `MessageStore` and `PersistProofs`, whose type lemmas it uses.  The `MC` modules
extend the specifications with the constants of the runs.

## 3. Runs

Runs that pass:

| Run | Checks | Bounds |
|---|---|---|
| `persist` | `NothingLandsAfterWipe`, `AccountMarkerWiped`, `QueuedWritesHaveTimer`; `WipeSettles`, `QueueDrains` under fairness | a LID and its PN, one message, two calls in progress, four calls or failures, at most one of them an aborted transaction or a restart |
| `store` | `NothingLost` from an app that is starting | a LID and its PN, two messages, three events |
| `store_paging` | `NothingLost`, `ResidentNeverDowngraded`, `LoadMakesProgress` | one chat, three messages of which two share a second, four events |
| `send_status` | `ConfirmedIsShown`, `StatusWasTold`, `StatusNeverDowngraded` | two sends, one message from another device, all different, one early receipt, one merge |
| `life` | `OneConnectAtATime`, `LoginHasReader` | one connection, one login, one call of any kind, all handlers |
| `life_two` | `OldLoopsAreTold`, `ReaderIsWatched` | two connections, a reconnect, all handlers |
| `life_live` | `ClosedAtEnd`; `KeepsTrying`, `DisconnectStopsReader` under fairness | two connections, a disconnect |
| `secret_buffer` | `ReaderFindsSecret`, `NothingStranded`, `SealedIsDurable`; `ImplementsStore` (refinement); `BufferDrains` under fairness | two keys, two captures by two callers, two drain tasks, a disconnect, a reader, one failing write |
| `signal_cache` | `PrekeyOrSession`, `OutIsHeld`, `CleanIsDurable`, `NobodyStuck`; `LoadsAreFresh` (of the steps) | a peer with a PN and a LID, one prekey, one ratchet step, two tasks, three jobs of any kind, a cache of one entry, one failing backend call or crash, one cleanup |
| `prekeys` | `SavedOrPending`, `OfferedKeyIsStored`, `SentOnce`, `UsedStaysDeleted`, `WatermarksOrdered`, `RerunFindsKeys` | three ids, uploads of two keys, two generating passes, two failing writes, one prekey-low, one crash |
| `session` | `OneLoop`, `KeyIsFresh`, `DeadIsReal`, `StatusSettles`, `NobodyStuck` | two accounts, two invocations at a time, three clients, two events, user actions or restarts |

The type invariants are not part of the runs: they are proved, for every module.

`NothingLandsAfterWipe` rests on two mechanisms, the epoch check and the wait for
`inflight`; in the model each alone would be enough, so the mutant that breaks it
removes a third, the emptying of the queue.

One run shows the code not doing what a comment of the repository says; its entry under
`findings` has the quotation:

| Run | Violated | What happens |
|---|---|---|
| `history_leak` | `NoStaleState` | With resets by `resetAll` alone (`UserResetSpec`): it clears the stores before the old client is stopped; a message or a history chunk of that client that arrives afterwards is kept, and shown under the account that is paired next |

### Other disagreements with comments

These were met while modelling, most as counterexamples of TLC; no run of the project
repeats them, and the properties that pass do not claim what the code does not keep here.

* `persist.ts:258`: `loadLatestMessages` reads the rows and looks at the queue afterwards.
  A flush that starts in between hides its messages from both, and the short page marks
  the chat exhausted (`messages.svelte.ts:76-77`: "Chats whose full persisted history is
  already in memory").
* `messages.svelte.ts:519`: `applyRevoke` takes a patch that gave up because of a reset for
  "no such message" and persists a tombstone of the old session (`persist.ts:316-318`: "so
  nothing from the old session can land after the wipe").
* `messages.svelte.ts:399`: a page is read without an epoch and is not among the calls
  `clearAll` waits for.  A chat opened while a wipe is waiting brings rows of the old session
  into memory, and `openChat`'s flag update queues them under the new epoch; they are stored
  after the wipe (same comment).  `NothingLandsAfterWipe` is about the writes of `persist.ts`
  alone, and is not claimed of `MessageStore`.
* `messages.svelte.ts:598`: a receipt is looked up in the database before it is remembered.
  When its send is confirmed meanwhile it is remembered too late and never applied
  (`messages.svelte.ts:81-83`: "Applied on confirm.").
* `lifecycle.rs:306`: a disconnect while the run loop is inside `connect` finds nothing to
  close; the loop then reads the new connection and `run` does not return (`bot.rs:339-340`:
  "Run the bot on the current task until it shuts down (logout, or [`Client::disconnect`]
  called ...").
* `node_io.rs:863`: a failed critical sync ends the task that owns its own timer, so the
  client never becomes ready on that connection (`node_io.rs:860-862`: "the timeout watchdog
  should remain active to force a reconnect if needed").
* `session.rs:170-171` says "a reset-triggered shutdown never reports as "dead"", but
  `reset` disconnects before it aborts, and a loop that returns in between emits the event.
  `DeadIsReal` is what remains true: the next client's first code clears it for good.
* `signal_cache.rs:651-653` says that flush "never deletes a prekey whose session was
  dropped before reaching the backend".  `clear` empties the sessions and then the consumed
  prekeys, under two locks.  A pkmsg stored after the cleanup's flush loses its session
  to the first; another task's flush before the second asks the backend, finds an older
  session of that address, and deletes the prekey.
* `prekeys.rs:603-606` says "The abandon watermark must be durable BEFORE the fallible send".
  `flush` returns at once when the background saver has taken the dirty flag and not
  written yet (`persistence_manager.rs:125`), so the upload may be sent before that.
* `events.ts:231`: a failed `auth_status` at launch leaves `registered` false, and the start
  wipes the cache and the device key (`events.ts:225-226`: "we never log out a registered
  user just because the connection hasn't come up yet").
* `events.ts:231-247`: the same start wipes the cache and resets the client, but not the
  stores.  The listeners are registered by then, so a message that arrived since is in memory
  and stays there into the re-pair, without any race with `resetAll` (`events.ts:125-126`: "so
  no stale state (cache or device key) can survive into a re-pair").  `history_leak` leaves this
  reset out, and needs none of it.
* `session.rs:92-95` says that `reset` deletes the files "so the device key is regenerated".
  It waits for the run task "so it drops the bot (and with it the SQLite pool)"
  (`session.rs:102-103`), but detached tasks hold the pool too.  The rotation of QR codes is
  cancelled by a pairing only (`pair.rs:163`) and sleeps up to 60 seconds, longer than the
  30 attempts to delete; so on Windows the reset of a client that is not paired keeps its key.
  `KeyIsFresh` excepts this and file errors as `kept`.
* `pair.rs:107`: the same task goes on dispatching codes of the client that was reset, under
  the session id of the new one, which the webview shows in place of the new client's.
* `msg_secret_buffer.rs:111-118`: captures are merged in the buffer "exactly like the backend
  upsert would have" (lines 83-86: "a known parent time is never clobbered"), but `lookup` does
  not merge with the row.  A recapture without a time (`msg_secret.rs:101` stores 0) is handed
  out alone until the flush, so for that long a reader sees 0 in place of the time in the row.
* `events.ts:336`: a status reply of the old client that arrives after `resetAll` sets
  `registered` and `jid` again, until the next status.
* `messages.svelte.ts:404`: `loadOlder` publishes its page without checking that the chat
  is still open, so a chat closed meanwhile holds more than `RESIDENT_TAIL` messages
  (`messages.svelte.ts:3-5`: "every other chat: its newest RESIDENT_TAIL messages").
* `messages.svelte.ts:399`: a page of a LID chat that is read across its merge refills
  the LID key, and `openChat`'s flag update stores it there again (`lid.ts:76-77`: "Merge
  a split LID conversation into its PN form (chat row + messages, memory + IndexedDB)").
* `persist.ts:229`: `pendingFor` skips queued deletes, so a page read before the delete
  is flushed shows the removed message again (`messages.svelte.ts:527`: "Remove a message
  entirely").
* `persist.ts:289`: `movePersistedChat` drops a queued delete and then moves the row it
  was meant for (`persist.ts:276`: "Pending writes for the old key are re-keyed too.").
* `persist.ts:242`: a page prefers a bare queued insert to the stored row; the next
  change of that message overwrites the row (`messages.svelte.ts:573`: "never
  downgrades").
* `messages.svelte.ts:173`: the same text sent from another device takes the bubble of a
  send in progress, whose confirmation then finds nothing (`persist.ts:42-44`: "they are
  persisted once the server assigns a real id").
* `messages.svelte.ts:326`: a LID merge moves the bubble of a send in progress out of
  reach of its confirmation (same comment).
* `lifecycle.rs:664`: the cleanup clears the socket and then `is_connected`, the window
  that `lifecycle.rs:665-667` rules out ("so no task can see is_connected==true with a
  cleared socket").
* `lifecycle.rs:325`: `intentional_reconnect` is consumed only by a reader that ended with
  an error, so the flag of a reconnect can hide the loss of the next connection.
* `lifecycle.rs:411`: a `connect` command made while `run` is between two connections
  installs one that nobody reads; every later connect of the loop fails with
  `AlreadyConnected` (`keepalive.rs:217`: "forcing reconnect").  The frontend does not use
  this command.
* `node_io.rs:910`: the task of an old login can set `is_ready` after its connection was
  replaced, and the next login counts as fully ready before its critical sync
  (`lifecycle.rs:58-59`).

### Hazards without a property

Besides these, and besides the list in `PROJECT.json`, the code is exposed to the following,
which no property covers:

* `persist.ts:552`: a flush whose transaction aborts forgets the records it had captured
  (modelled, `TxAbort`; the code makes no promise).
* `persist.ts:110`: a database that fails to open once leaves a rejected promise for all
  later calls.
* `messages.svelte.ts:356`: `restoreMessage` undoes what arrived since the rejected change.
* `messages.svelte.ts:407`: a page overtaken by `resetAll` deletes the `loadingOlder` entry
  of a newer one, so two pages may be read at once.
* `device_registry.rs:672`: sessions of removed devices are deleted without the session lock,
  and a decryption in flight stores one again (modelled; `LoadsAreFresh` excepts the reader
  as `gap` and what it filled as `stale`).
* `client/lifecycle.rs:157`: an evicted session lock that is still held is replaced by another.
* `device.rs:77`: `handle_prekey_low` clears `server_has_prekeys` while a pass that began
  before is about to set it.
* `events.ts:122`: a pairing while the cache of the last account is being read.
* `lid.ts:110`, `receipts.ts:47`: a LID request overtaken by new messages; a read receipt
  that fails counts as sent.

### Why the bounds are enough

* `persist`: one message under two chat keys gives a flush two slices of one write, so
  a wipe, a move or a second flush falls between them; each property relates two calls
  in progress.  The safety properties have also been checked once with three (and are
  proved for any number).
* `store`, `store_paging`: windows of one or two messages make every trim and page
  happen with three; a tie of timestamps is the boundary case of paging.  The proofs lift
  the bounds.  Larger instances have been checked once (`store` with four calls: 15.8 million states; paging
  with slices of one: 24 million).
* `send_status`: the hazards involve a send, another send and a message of another
  device.  An instance with two early receipts, without the merge, has been checked
  once (3.8 million states).
* `life*`: the races are between one connection and the next, so two are enough; one
  call meets the run loop at every step.  The question of each run decides which calls
  and handlers take part, as all of them together exceed what TLC can explore.
* `secret_buffer`: two captures of one key, one of them never expiring, are what
  coalescing, refreshing during a write and merging deadlines need; with two captures at
  most two drain tasks exist.  The proofs lift the bounds.
* `signal_cache`: with one entry every second address evicts; three jobs are a pkmsg, a
  second task that meets it, and one that sees the result; one fault is enough because
  `PrekeyOrSession` holds of every state a crash could leave; the PN and the LID are two
  addresses for everything but the migration.  The proofs lift the bounds.
* `prekeys`: with three ids and uploads of two the second pass wraps around; two failing
  writes in a row halt the saver.  `VIEW` drops the absolute number of modifications.  The
  proofs lift the bounds.
* `session`: a reset needs two clients, a second reset or restart a third; two invocations
  meet at the lock.  Two events are a message and a logout, or a pairing and a code; a restart
  takes the place of one.
  The proofs lift the bounds.

`CHECK_DEADLOCK FALSE` where the user may stop acting, all sends are settled or `run` has
returned, or the bounds are used up.  Crashes are part of `persist`, `signal_cache`,
`prekeys` and `session`; `MessageStore` has none, since after a crash only what `Persist`
stored counts.  `NobodyStuck` (`SignalCache`, `Session`) asks for what a deadlock check would
miss: that waiting tasks can go on without a new call.  Its first half, `WaitsEnd`, says so of
each task, with the guards of its next step (`CanGoOn`); the second, that whoever has its
guard has a step (ENABLED).

### Fairness

* `PersistFairness`: the browser runs queued callbacks and armed timers, and IndexedDB
  opens and runs every transaction it has accepted.  Calls by the stores are not fair.
* `LifeFair`: tokio polls tasks that are ready, timers fire and calls return; a
  connected server goes on sending frames, because it answers pings (without this
  `DisconnectStopsReader` would fail by mere silence); `ReaderStops` is strongly fair, because
  the frames already received between two looks at the notifier are finitely many.
  Nothing is assumed about what the server sends, when the network drops, or callers.
* `Fairness` (`MsgSecretBuffer`): tokio polls captures in progress, drain tasks and the
  disconnect; it is strong fairness because `write_lock` is an `async_lock::Mutex`, which
  hands itself over fairly.  Captures themselves are not fair.

## 4. Proofs

All of them hold for arbitrary constants that satisfy the named assumptions
(`FlushSliceAssumption`, `TsAssumption`, `NoneAssumption`, `IdsAssumption`,
`WindowAssumption`, `PnAssumption`, `SendAssumption`, `LifecycleAssumption`, `SecretsAssumption`, `SaverAssumption`, `PreKeysAssumption`,
`SignalAssumption`, `SessionAssumption`, and `KeysAssumption` and `AddrsAssumption`: finitely
many messages and addresses); four theorems assume more, as the table says.

| Theorem | States | Argument |
|---|---|---|
| `TypeCorrect` | `PersistTypeOK` | inductive by itself |
| `WipeIsFinal` | `NothingLandsAfterWipe` | `WipeInv`: types, the queue holds only messages of the current epoch, and every call in progress captured data of the epoch it started in |
| `NoWriteStranded` | `QueuedWritesHaveTimer` | inductive with the types |
| `AccountMarkerTheorem` | `AccountMarkerWiped` | `MarkerInv`, on `WipeInv`: the queue of transactions has every call once, and only calls that wait for a transaction; a marker on its way is in it, with no wipe that is newer than the marker ahead of it.  The order of the queue is what makes the property hold: `setAccount` checks no epoch |
| `WaitTheorem` (`PersistProofs`) | `WaitsEnd` of `PersistProofs`: once the database is open, a call can go on, or the oldest transaction can, or what a wipe waits for can | `AllQueued` and `WaitsForCalls`, on `MarkerInv`, see below |
| `StoreTimerTheorem` | `QueuedWritesHaveTimer` for `MessageStore`, whose steps queue several writes, reset and merge in one go | inductive with the types of `StoreTypes` |
| `StoreTypes`, `NothingLostTheorem` | `StoreTypeOK`, `NothingLost` | `LostInv` (`StoreInvariant`), see below |
| `NeverDowngradedTheorem` | `ResidentNeverDowngraded` | an action property; needs only the types, that a list is committed with at least the updates it had, and that an answer is adopted only for an unchanged bubble |
| `ProgressTheorem` | `LoadMakesProgress` | an action property, from `LostInv`: a read asks for more rows than there are resident messages it will find again (`WideEnough`), and nothing but its answer ends it |
| `SendTypeCorrect` | `SendTypeOK` | inductive by itself |
| `TicksWereTold` | `StatusWasTold` | `TickInv`: with the receipts being looked up, which also must have arrived |
| `TicksNeverGoBack` | `StatusNeverDowngraded` | an action property, from `TickInv` |
| `ConfirmedSendsAreShown` | `ConfirmedIsShown` | `ShownInv`, assuming that no two own messages look alike: a send in progress has its bubble or has been delivered; sends moved by a merge are excepted |
| `LifeTypeCorrect` | `LifeTypeOK` | inductive by itself |
| `LoginNeedsReader` | `LoginHasReader` | inductive with the types |
| `ConnectIsExclusive` | `OneConnectAtATime` | `ExclInv`: whoever is inside `connect` holds `is_connecting`; needed because leaving gives the lock back |
| `LoopsAreTold` | `OldLoopsAreTold` | `ToldInv`, assuming no connect command: between two connections the notifier of the last one has been fired |
| `EndIsClosed` | `ClosedAtEnd` | `ClosedInv`, assuming no connect command: a transport is closed, in the slot, or about to be put there by the loop; where the loop is about to end or to dial, the slot is empty |
| `ReaderWatched` | `ReaderIsWatched` | `WatchInv`, assuming that callers only reconnect: while the loop installs and reads a connection the slots and the flag are of that connection, its keepalive loop subscribed to it, and that loop watches, or its end has been told or the transport is closed |
| `ReaderTheorem`, `StrandedTheorem`, `SealedTheorem` | `ReaderFindsSecret`, `NothingStranded`, `SealedIsDurable` | `IInv` of `MsgSecretProofs` (`BufferInvariant`): the batch of the lock's holder is covered by what is buffered, a captured key is buffered or has a row, the drain flag has an owner |
| `Refinement` | `ImplementsStore` | step by step: a capture is a `Capture` because coalescing keeps the new secret and the later time; writing a batch is a `Persist` because the buffer covers the batch; removing written entries is a `Settle`, because an entry is removed only if it is still the one that was written, so that the row has its secret and no earlier time; everything else stutters or follows a failed write |
| `SavedOrPendingTheorem` | `SavedOrPending` of `DeviceSaver` alone | `SaverInv`: a write in flight carries the number of modifications it saw |
| `ImplementsSaver` | `PreKeys!Spec => SaverSpec` | every step is a step of the saver or leaves its variables alone |
| `PreKeysSavedTheorem` | `SavedOrPending` | from the two above |
| `OfferedTheorem`, `SentOnceTheorem`, `UsedTheorem`, `WatermarksTheorem`, `RerunTheorem` | `OfferedKeyIsStored`, `SentOnce`, `UsedStaysDeleted`, `WatermarksOrdered`, `RerunFindsKeys` | `IInv` of `PreKeysProofs`: every key handed out is below NEXT, every key sent is outside the window of the watermarks, the plan of a pass continues that window, fresh keys are unknown to anybody; on `PlanFacts`, what the planner computes for every window and id range |
| `OneLoopTheorem`, `KeyTheorem` | `OneLoop`, `KeyIsFresh` | `IInv` of `SessionProofs` (`SessionInvariant`): a reset that is joining, deleting or booting holds the lock, and the map is empty meanwhile; a running loop is the map's or belongs to the reset that is about to abort it; a reset boots on no file, or on one that is in `kept`; after the join nothing but an ended client has the file open. `OneLoop` alone is not inductive: a boot needs to know that an empty map with a free lock means that no loop runs |
| `DeadTheorem` | `DeadIsReal` | `LastClient` and `DeadInv`, on `IInv`: the client in the map, and the one whose loop runs, is the last one booted; a report of an end on the wire is of a loop that has ended, and no code of a later client is shown or is ahead of it.  It rests on the order of the wire: a client is booted after the last loop has ended, so its codes follow the report |
| `StatusTheorem` | `StatusSettles` | `StatusInv`, on `IInv` and `LastClient`: the account shown is that of the key in the file, or a status is being asked for, or a pairing is on its way to a listener that will ask, or `resetAll` has cleared the account and is on its way to delete the key; and while it is, no status that is not outdated has put an account back |
| `WaitTheorem` (`SessionProofs`) | `WaitsEnd` of `Session`: an invocation can go on, or waits for the lock and its holder can | `HolderInv`, on `IInv`: the lock is held by a reset that has not answered, and every place of an invocation belongs to its purpose |
| `SessionTypes` | `SessionTypeOK` | on `IInv`, `LastClient` and `EventsTyped`: a message or a history chunk on its way is of an account (`RowsOwned`), because only a paired client dispatches one |
| `WaitTheorem` (`SignalProofs`) | `WaitsEnd` of `SignalCache`: a task can go on, or waits for one that can, or for one that waits for one that can | `LockInv`, on `IInv`, see below |
| `BoundTheorem` | `CleanBounded`: the clean entries of the map are at most the high-water mark | with the types; on `TrimBounds`, what an eviction leaves |
| `SignalTypes`, `PrekeyTheorem`, `OutTheorem`, `DurableTheorem`, `FreshTheorem` | `SignalTypeOK`, `PrekeyOrSession`, `OutIsHeld`, `CleanIsDurable`, `LoadsAreFresh` | `IInv` of `SignalProofs` (`SignalInvariant`), see below |

`NothingLost` is not inductive: a flush drops what it holds when a reset overtakes it, deletes
what it captured as deletes, and gives up when the database opens late.  `LostInv` adds why
none of that concerns an accepted message.  A write gives up only if its epoch has passed;
a write of an earlier epoch is waited for by a reset that has not created its transaction
(`CallsInv`); and while a reset is under way nothing counts as accepted (`ClearsInv`).  So with
one accepted message every write in progress is of this session.  A delete, queued
(`QueueInv`) or captured, is of a message the user deleted; a merge leaves the chat it moves.
The steps are proved in two groups: those of the stores, which only add to the queue and
only begin and end reads (`FrontStep`, one lemma for what it keeps), and those of the calls of
`persist.ts`, where every place that holds a message hands it on (`KeptLost`).
`MessageStore` has neither restarts nor aborted transactions, so the theorems say nothing of
them (an aborted flush does lose what it captured, section 3).

`IInv` of `SignalProofs` says three things.  Of the slots: what is dirty is what was stored
last, what is marked deleted has no session, and a clean slot agrees with the last store
unless a reader without the lock filled it (`stale`).  Of the prekeys: the backend is behind
the last store by no more than what is marked, and a prekey buffered for deletion is part
of the session it was buffered with, unless that was given up.  Of each task: which locks it
holds at each step, that a flush which is deleting has written every dirty session before
(so a prekey may go), and that a reader under the lock brings what was stored last.  None
of the four properties is inductive alone: `PrekeyOrSession` needs to know why the flush may
delete, which is a fact about the dirty marks, which is one about what tasks hold.

The three theorems called `WaitTheorem` say that nobody waits in a circle, which is what is
left of "nobody waits for ever" without fairness: every chain of waiting ends, after one
step or two, at somebody who needs nothing of anybody.  In `SignalProofs` the chain is a
session lock, then the mutex or the prekeys: who waits for the LID's lock holds only the
PN's (`lock2` is the one place where a task waits for a second session lock), and who holds the mutex, with
the prekeys or not, is flushing and waits for nobody.  A failing backend call gives back
what it held.  In `PersistProofs` it is the wait of `clearAll`, then the
order of the transactions; `clearAll` waits only for calls in flight, and no such call
waits for a `clearAll` that has not created its transaction.  In `SessionProofs` there is
one lock, and its holder waits for a loop it has aborted itself; it never waits for a
detached task.  Two guards choose a set
and could be false for want of one: `EvictionPossible` and `SlicePossible` show that there
always is one, from the finiteness of the addresses and the messages.

`CleanBounded` is what remains of "the map holds at most its limit" when dirty entries and
entries in use are never evicted: the map may grow past the high-water mark by as many as
these, and never by a clean one.

The assumptions of `ConfirmedSendsAreShown`, `LoopsAreTold`, `EndIsClosed` and `ReaderWatched`
are needed: section 3 tells what happens without them (`messages.svelte.ts:173`,
`lifecycle.rs:411`), and a disconnect that meets the loop connecting leaves a reader that no
keepalive loop watches (`lifecycle.rs:306`).

Only model-checked: all liveness properties (the prover has no fairness), and the second half
of `NobodyStuck` in `SignalCache` and `Session` (it is about ENABLED).  Every other property of
a run that passes is proved.  The invariants behind the `WaitTheorem`s, `CleanBounded`, and for
`Persist` also `WaitsEnd` and that its guards have a step, were checked once with the bounds of
the runs; so was `QueuedWritesHaveTimer` for `MessageStore`.

## 5. Not modelled

* Chat list, read receipts, contact names, the requests of LID unification: single-threaded
  stores with little asynchronous state (their hazards: `lid.ts:110`, `receipts.ts:47`).  They are the next candidates, in that order.
* Commands other than those of `commands/auth.rs`: one library call each, without state.
* Album grouping and everything else that is presentation.
* The message retry protocol, the fan-out of a send to devices, app state sync, the window
  in which a disconnect waits for outbound tasks: state machines of their own, which meet
  the modelled parts only through the Signal sessions.
* Identities and sender keys of the Signal cache, see section 2.
* Encoding, cryptography, media (computation on bytes), file compression, and the schema
  migration of the cache, which runs once before anything else.

Most of the repository is the vendored library, and most of that is encodings, generated
code and request/response calls without state of their own; what is modelled is the part
where tasks share state.
