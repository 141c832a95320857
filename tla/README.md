# A formal model of Gensokyo

Gensokyo stands between the QQ bot platform and applications that speak OneBot v11.
Platform events come in over the gateway's WebSocket or a webhook, are converted (IDs
become numbers) and broadcast to the applications; the applications' actions are converted
back and become calls of the platform's API. This directory holds TLA+ modules of the parts
whose correctness depends on the order in which things happen, TLC configurations that check
them on small instances, and TLAPS proofs for every instance.

Paths below are relative to `src/`.

## 1. Inventory

| component | state | operations | hard behaviour | module |
|---|---|---|---|---|
| reverse WebSocket client, `wsclient/ws.go` | message queue and its wake-up token, connection, context, `isReconnecting`, `writerDone` | SendMessage, writer, reader, heartbeat, Reconnect, Close | five goroutines per connection; two of them notice its loss; reconnecting while both old and new ones run | `WsClient`, abstractly `OutboundQueue` |
| virtual-ID map, `idmap/service.go` | bucket `ids`: ID to row, `row-<n>` to ID, `currentRow` | StoreID, look-ups, SimplifiedStoreID, UpdateVirtualValue, DeleteBucket, CleanBucket | check then transaction; hash collisions; old files; restarts; the end of the numbers | `IdMap` |
| pairs of idmap-pro and Autobind, `idmap/service.go`, `Processor/` | the same bucket: `group:user` to `number:number` and back | StoreIDPro, UpdateVirtualValuePro, the rows stored beside a pair, Autobind, binds over HTTP | three transactions for one change, errors ignored between them; two handlers of one pair | `IdPairs` |
| message-ID cache, `idmap/service.go` | bucket `cache`, laid out like `ids` | StoreCache, RetrieveRowByCache, clearing | the same, with a counter that survives clearing | `MsgCache` |
| message IDs in memory, `echo/echo.go` | two maps under one lock, entries that expire | StoreCacheInMemory, look-up, sweep | an expired row reused while its message still has an entry | `MemoryIds` |
| resend stack, `echo/echo.go`, `handlers/send_group_msg.go` | a slice of refused messages | push, read n, remove by index, clear | a slice read without a copy, removal by a position read earlier | `ResendStack` |
| message numbers, `echo/echo.go`, send actions | last `msg_seq` by message | get, add, clear | read and written apart; retry after a timeout | `PrivateStream` |
| streamed private messages, `handlers/send_private_msg_sse.go` | fragment index and stream ID by message | next index, roll back, note ID, clear | fragments in flight together; a failure or an answer after the end; a lost answer | `PrivateStream`, abstractly `FragmentStream` |
| webhook server and interaction slots, `server/webhook.go`, `interactionwait/` | slots by interaction ID, the channel in each, event queue | webhook request, Register and its wait, TryFill, ListenAndProcessMessages | a timeout racing an answer; deliveries repeated; a full queue | `InteractionWait` |
| forward WebSocket server and broadcast, `server/wsserver.go`, `Processor/Processor.go` | list of connected applications, error channel | connect, disconnect, BroadcastMessageToAll | the list has no lock; slices that share arrays; a channel sized too early | `Broadcast` |
| gateway sessions, `botgo/sessions/local`, `multi`, `botgo/websocket/client` | session channel, the client's session, its queue and error channel | newConnect, Connect, Identify, Resume, Listening, reader, listener | session read and cleared while the listener still writes it; every kind of loss | `Session` |
| expiring maps, `echo/echo.go` | last message and event ID of a chat | add, get, expire | expiry between load and delete | no |
| upload cache, `handlers/upload_cache.go` | entries with expiry, at most 500 | get, set, invalidate | expiry found and deleted in two critical sections | no |
| access token, `botgo/token/authtoken.go` | token, lifetime, refresh requests | refresh loop, force, read | sends while the token is out of date | no |
| remote session manager, `botgo/sessions/remote` | redis list and locks | as `Session`, across processes | its producer is commented out; not used by `main.go` | no |
| event processing, send and other actions, parsing, uploads, lotus, HTTP API, dispatch, storage, statistics, short links, configuration, logging, data types | none, one locked map, or one transaction each | | little: what they share is the state above | no |

How they interact: a handler of an event (`Processor`) calls `idmap` to number the IDs,
`echo` to remember what a reply has to refer to, and then SendMessage of every client. An
action arrives on a client (or over HTTP), is given a goroutine, translates the numbers back
through `idmap`, picks a message or event ID and a `msg_seq` from `echo`, and calls the
platform; a code for a button press goes to `interactionwait` first. The components share
memory, not messages, and only `idmap` survives a restart.

What makes each correct:

* client: one writer, one Reconnect, order kept, nothing lost before a write, no lost wake-up, never without anybody who would reconnect;
* ID map: the two directions agree, a number keeps its meaning across time, races, restarts and clean-ups;
* pairs: a pair of numbers leads back to its group and user, and half of a pair to nobody else;
* short message IDs, on disk and in memory: one never means two messages while it is valid;
* stack: a refused message stays until the platform has it;
* answers: the fragments of a stream without a gap, no number used twice for one message, nothing delivered twice by a retry;
* interactions: a code that was accepted is the answer that is given, every press is answered, no slot stays behind;
* broadcast: every application gets an event once, a broadcast ends, a downtime is reported when there is one;
* sessions: exactly one owner, nothing skipped by a resume, a loss always leads to a new connection.

`PROJECT.json` lists every component, and under `hazards` the lines at which these can go wrong.

## 2. The modules

A model keeps the code's steps where another goroutine can come between them: a step ends at
an unlock, a channel operation, a call that blocks, or a shared access without a lock. The
data is abstract: a message, an ID or a code is a model value or a number. Operators named
after another with a suffix or a prefix (`NoWake` for `Wake`, `TryFillKeeping` for `TryFill`)
stand just before the one they resemble and are plausible mistakes in it; no specification
uses them, and each is known to break one property. A variable marked as history is only
read by properties.

**`WsClient`** has a control point for the writer, reader and heartbeat of each connection,
for each SendMessage caller and for each Reconnect. A Reconnect is named after the goroutine
that started it. `queue`, `notify`, `closing`, `reconnecting` are `writeQueue`,
`writeNotify`, `closeCh` and `isReconnecting`; `conn` is `client.conn`, and `gen` the
connection whose `cancel` and `writerDone` are installed: between dialling and installing
they differ, as in the code. SendMessage is two steps (append, then signal), the push-back of
a failed write and the start of Reconnect are two, Reconnect is seven. A connection dies by
itself, with close code 1012 (the reader then sleeps 5 s) or without, or is closed. A write
may succeed after the application is gone, and may fail on a live connection (deadline).

**`OutboundQueue`** is what a client promises: one queue, first in first out, across all its
connections; a message leaves only at the head. `WsClient` implements it with
`pending <- Held \o queue`: the message the writer holds comes first.

**`IdMap`** is the `ids` bucket as two functions and a counter. bbolt runs one writing
transaction at a time, so a transaction is one step; the read-only fast path before it is a
step of its own, and other callers act between them. `given` is a history: the IDs each row
was handed out for. Init is any consistent file of an earlier version, which knew no rejected
rows and (with `LegacyCounter`) may have lowered the counter. `HashRow` is any function, so
every pattern of MD5 collisions is covered. `Stop` at any point, `Clear` and `Clean` while stopped.

**`IdPairs`** extends `IdMap` by the pairs in the same bucket and by the goroutines of group
messages: up to eleven calls of idmap in the order of ProcessGroupMessage, then of Autobind, with
other handlers, binds, a stop or a clearing between any two of them. A handler's call of
StoreID is one step here, since its fast path answers what its transaction would. `taken` is
a history: the IDs of which a step other than Autobind's gave a number (their 9-digit hash or the one QQ
knows them by) to a stranger, or whose pair was bound by hand. IDs with the same number count as one.

**`MessageIds`** holds the constants of short message IDs and the hash attempts;
**`MsgCache`** and **`MemoryIds`** are its two implementations, on disk and in memory.
`MsgCache` differs from `IdMap` where the code does: no rejected rows, and clearing keeps the
counter. `MemoryIds` has time as a counter, and `promised`, a history of the row an
application was last given for a message.

**`GoSlice`** is a slice as Go has it: a header over an array, append in place while there is
room and into a copy otherwise, removal by shifting. `ResendStack` and `Broadcast` instantiate
it, because what goes wrong there goes wrong through shared arrays.

**`ResendStack`** is send_group_msg with `lazy_message_id`: an active message, or a passive
one that first resends up to `Count` waiting ones of its group, each by reading, posting and
removing (or pushing again). Messages are named after their action. `disturbed` and `mistaken` are
histories: the loops under which a push or removal has changed the stack so that their indices no longer fit,
and what these loops removed.

**`PrivateStream`** has the calls of HandleSendPrivateMsgSSE, each of up to six steps (begin
and read the stream ID, take an index, post, roll back or note the ID, clear), and ordinary replies,
texts and pictures, which take numbers from `echo`. The platform refuses a number it has seen
with a message, may refuse anything else, and may take what it answers with an error. An
application in `Patient` awaits the answer to a call before the next; to the others, calls overlap.
**`FragmentStream`** is what a stream should be to the platform: 0, 1, 2, ... `PrivateStream`
implements it for the patient applications, with the indices the platform holds.

**`InteractionWait`** has a webhook request (register, wait, expire, unregister, respond), the
goroutine that queues its event, the consumer, and calls that use TryFill. An API call exists only
after the event was handled: the application learns the ID from it. The platform may deliver
a press more than once (`Of` is not injective).

**`Broadcast`** has a handler for each connection, which changes the list in up to three
steps (read and find, change the array, write the slice back), one BroadcastMessageToAll (size
the channel, read the list, start a sender per element, wait, count) and its senders. The
range loop keeps the slice it began with. `overlap` and `during` are histories by which the
properties say what the missing lock leaves true.

**`Session`** is one shard. `channel` is `sessionChan`, `owner` the control point of
`newConnect`; `session` is the client's session, which the listener writes (`Take`, `Ready`)
while `newConnect` clears and copies it without a lock, one field at a time. The copy reads the ID
before the number, in the order of the struct. A connection occupies a slot until its goroutines have
ended; the gateway numbers a session's events from 1, so the queue of a connection is an
interval. `lost` is the first error in `closeChan`, classified as `manager.CanNotResume` and
`CanNotIdentify` do.

`MCIdMap`, `MCIdPairs` and `MCPrivateStream` give constants to one module.
`MCEcho` and `MCServer` put parts side by side that share no state (the two homes of short
message IDs and the stack of refused messages; the two servers): the initial state chooses one part and only
that one moves, so their state spaces add up instead of multiplying and a run of several
properties stays one question per part; each extends its parts, so that the properties are
theirs and not copies. `WsClient` and `Session` are checked as they are,
`ResendStack` too in `resend_lost`.
The `*Proofs` modules extend the module they are about; `MessageIdsProofs` is about `MsgCache` and
`MemoryIds`, `ServerProofs` about `InteractionWait` and `Broadcast`, and `IdPairsProofs` uses
`IdMapProofs`.

## 3. The runs

| run | instance | shows |
|---|---|---|
| `ws` | 2 connections, 2 messages besides lifecycle events, 1 caller, `reconnect_times` 1 | one Reconnect, one writer, replaced connections cancelled, no lost wake-up, refinement of `OutboundQueue`; a Reconnect ends; the queue is drained |
| `ws_stranded` | 2 connections, no limit | *violated*: nobody is left to reconnect |
| `idmap_counted` | 3 IDs, rows to 7, 2 rejected, 2 callers, lowered counters | a row keeps its meaning and is stable under races |
| `idmap_hashed` | 3 colliding IDs, rows to 5, 1 rejected, a bind, SimplifiedStoreID | the directions agree; nothing left behind or overwritten |
| `id_pairs` | a group, two users, colliding hashes, rows to 7, 2 handlers, binds of rows and of pairs | a pair is lost to a new one with its hashes only; half of one comes to reach nobody else by Autobind |
| `pairs_alone` | two groups, one user, 1 handler | *violated*: half of a bound pair may resolve to nothing |
| `echo` | 3 messages, rows to 6, 2 callers on disk; time to 5 with a lifetime of 2 in memory; 4 actions at once, 2 groups, 3 read at a time | short IDs keep their meaning; only a disturbed loop removes a message that was not delivered |
| `resend_lost` | 5 actions, 1 group, 3 read at a time | *violated*: a waiting message disappears |
| `private_stream` | 3 messages (one awaited, one of a group), 3 calls and replies, 2 tries | a stream without a gap; numbers; one delivery |
| `server` | 3 deliveries of 2 presses, 2 calls, queue of 1; 3 applications of which 1 leaves, 1 reverse client | the promise of TryFill, slots, every press answered; the list, one event each, the broadcast ends |
| `session_local` | 2 slots, 2 sessions, 2 events each, queue of 1 | one owner, nothing skipped, losses retried, no deadlock |
| `session_multi` | the same under `multi` | *violated*: a failed write loses the shard |

Why the bounds are enough.

* *WsClient*: two connections make one replacement, with both generations' writers, readers
  and heartbeats alive together; with two messages one can be held while another waits. `MaxMsg`
  stops callers and heartbeats only: lifecycle events are always queued. The safety
  properties and the refinement are also proved for any number of connections.
* *IdMap*: the rows include a rejected one below and above the first free row and run out
  within the run, so the end of int64 is reached; collisions differ at each number of digits.
* *IdPairs*: two handlers can hold the same pair between reading and moving it, so that the second
  finds its targets taken and its rows empty; with two users the pairs share a group, which one handler
  moves while the other stores it. Rows 0 to 7 have room for every hash, number and target. One user's
  10-digit hash is the other's 9-digit one, and `BindTargets` is the number QQ knows a user by, so strangers take
  each kind of number; `MCPairTargets` is the pair of hashes of a pair, so its creation finds its
  reverse key taken. The handlers are symmetric. It starts from an empty file, because the rows of an old one
  are those of `IdMap`.
* *echo*: on disk the numbering is exhausted; in memory an entry expires, is reused before it
  was swept and expires again.
* *ResendStack*: two actions fill the stack, a third loops and a fourth comes between, which is enough for each
  kind of disturbance; leaving any of them out of `disturbed` makes `OnlyDisturbedLose` fail in this instance. `resend_lost` needs
  a fifth action for a loop to move a full array itself.
* *PrivateStream*: two fragments in flight and a third call after a clearing; `Reserved` is 4 for
  two replies, as two pictures use that many. Two tries are the least with a retry.
* *InteractionWait*: every pair of deliveries (same press, different press) and of calls
  (same slot, late) occurs, and a queue of one is full with two events.
* *Broadcast*: three applications are appended in place and into a copy, and one is removed from
  the front, the middle or the end, before, during or after the loop. No connection opens or ends
  after the last sender started, except for removals already under way: such changes can only disturb the count.
* *Session*: the old listener and the new connection need two slots, and a slot is used
  again, so chains of connections have no bound; a second session ID is needed after a
  cleared one; a session needs two events so that its number and its READY differ. The IDs
  do not come back, so once both are given out the shard can only be refused: a bound, not a claim.

Deadlock is checked in `idmap_counted`, `idmap_hashed`, `id_pairs` and `session_local`. The
other instances end: the client is closed or `MaxConn` is used up, all requests are
answered, all actions or calls have returned, or the program has panicked.

Fairness, all of it weak. `WsClient!FairSpec`: each writer, reader, Reconnect and half-done
send goes on, because the Go scheduler runs what can run, a write has a 30 s deadline and a
dial a handshake timeout of 45 s; nothing is assumed of the application, of callers or of
Close. `InteractionWait!Fairness`: timers fire and goroutines that can run do; nothing is
assumed of the platform or the application. `Broadcast`: the goroutine of an event and its
senders run, and a write to a connection ends one way or the other; nothing is assumed of connections
that come or go. `Session!FairSpec`: goroutines go on, dialling and writing end, and the
reader of a closed connection fails; nothing is assumed of the gateway.

## 4. Disagreements found

With a run:

* `ws_stranded`, `wsclient/ws.go:172`: `isReconnecting` is reset after the new goroutines have
  started. A connection lost in between is never replaced, though `reconnect_times` 0 is said to try for ever.
* `session_multi`, `multi.go:86`: a failed Identify or Resume returns without giving the session back.
* `resend_lost`, `send_group_msg.go:2138`: with three or more messages read per call, one that is
  refused again moves the stack to a new array, and a later removal by index takes a message nobody delivered.
* `pairs_alone`, `Processor.go:876`: when the user could not be moved, the group stays, but the
  pair is moved and counts as bound: the group's number alone then resolves to nothing.

Seen while modelling, in the models but without a run of their own:

* `wsclient/ws.go:31`, `:157`: `isReconnecting` excludes two Reconnects at a time, not two for one loss. A
  reader that is late (it sleeps 5 s after code 1012) tears down the connection the writer's Reconnect has made.
* `echo.go:322`: an index read before the post is used after it. Even with one message read per call, the ticker and
  another action in between are enough to remove a message nobody sent; `OnlyDisturbedLose` excepts such a loop.
* `Processor.go:842`: the pair is also moved when the user's number was bound to somebody else: in the pair the
  number means the user, alone it reaches the other. `AloneMeansSame` excepts that ID (`taken`).
* `idmap/service.go:665` (SimplifiedStoreID) and `:755` (StoreIDPro) do not ask `IsViolateID`
  (`violateid.go:8`), so rows it rejects are written.
* `interactionwait.go:35`, `:73`: when a press is delivered again, the first request takes the
  missing slot for one TryFill has, and waits for ever. `AnsweredOnce` is about presses delivered once.
* `Processor.go:308`: errors are compared with the length of the list at the end, so a change of the list
  meanwhile reports a downtime though an application took the event, or none though nobody did.
  `DowntimeIfNobody` excludes such changes.
* `wsserver.go:94`, `:113`: changes of the list that overlap lose an application or bring one
  back; a removal during the loop of a broadcast makes one application miss the event and another get it twice.
* `send_group_msg.go:2138`: a message whose removal hit another stays and is sent again.
* `send_private_msg.go:279`, `send_group_msg.go:706`: a picture reads its number again after the upload
  and sends it as it is; a reply that took a number meanwhile has sent that one.
* `send_private_msg_sse.go:227`: the comment says ten numbers are left to replies; numbers from 1 to 9 are.
  A second stream for a message starts at number 10 again and is refused; so is, for ever, a fragment
  that arrived but whose answer was lost.
* `idmap/service.go:617`: with `hash_id` the message cache has no counter, so after `-delcache`
  a short ID can come to mean another message.
* `echo/echo.go:18` keeps messages in memory for 60 minutes; `template/config_template.go:116` says 30.
* `authtoken.go:64-90`: a failed refresh waits the whole old lifetime; code 11244 forces no
  refresh although `send_private_msg.go:563` and `send_group_msg.go:2151` count on one in the background.
* `local.go:146`: the panic that should end the program when the bot is banned is recovered at
  `:102`, and the session goes back: it reconnects every 2 s for ever.

* `getIDHandler.go:177-208` and `Processor.go:845-865`: an administrator who binds a pair while Autobind moves it
  takes it away and may put another where it was; Autobind then moves that one to the numbers
  of the first. Who was in a pair bound by hand is therefore in `taken`.
* `idmap/service.go:766`: a new pair takes its reverse key from a pair with the same hashes, or one bound there.
  `LostToHashOnly` says that nothing else does.
* `idmap/service.go:480`: occupied rows are skipped "even if a legacy cleanup lowered currentRow". A bind in
  such a file gives up a row above the counter, which is then given to another ID: with the counter at 1 and an ID at row 3 moved to 5,
  numbering comes to 3 again. `RowMeansId` holds for files without one or the other.

A number of an ID can go to a stranger in these ways, which the code does not prevent: the search of another
ID ends there because its earlier hashes are taken, an administrator binds another ID there, or a file from before `hash_id`
has another ID there. Autobind then cannot mend it; `AloneMeansSame` excepts such an ID from the moment it happens (`taken`), and for good
if its hash or number is also a stranger's (`Apart`).

## 5. Proofs

For all values of the constants, under the named assumptions of each module:

* `WsClientProofs`: `TypeOK`, `OneReconnect`, `OneWriter`, `ReplacedIsCancelled`, `NoLostWakeUp`
  and the refinement of `OutboundQueue` (`FIFOSpec`). OneReconnect is not inductive: it needs that
  the flag is set while a Reconnect runs (`LockHeld`) and that each starter starts once
  (`StartsOnce`), or a finished Reconnect could be started again. OneWriter needs that only the
  installed writer is alive and is done once Reconnect is past its join (`WriterJoined`), and
  that `conn` is ahead of `gen` exactly between dial and install (`ConnAhead`), so that the new
  writer is of a connection nobody served. NoLostWakeUp follows each token: who appended owes a signal until he gave
  it, and a writer parks only on an empty queue. The refinement needs that only a live writer holds a message (`HoldInv`),
  so that there is one at most; each action then maps to an append, to a removal of the head, or to a stutter.
* `IdMapProofs`: `TypeOK`, `ForwardHasReverse`, `NothingLeftBehind` and `NoOverwrite` hold in
  both modes with any hashes, rejected rows and binds; together they are inductive once the row
  found by each search is known to be free (`NewRowFree`, `RemappedRows`; that a least row exists
  is `LeastRow`, from the well-founded order of intervals), and `StableRow`
  follows from them. `RowMeansId` is proved for counted mode, from two invariants. With a counter
  that was never lowered, every row in use or ever handed out is at most the counter
  (`CounterAhead`). With one that was, rows in use may be above it, and what holds is that a row
  *given up* is at most the counter or rejected (`FreedBelow`), for an ID has no row but its own
  (`Owned`) and a clean-up raises the counter over all of them; a bind gives up a row anywhere, so
  this needs `BindTargets = {}`.
* `IdPairsProofs`, with nothing assumed of hashes, numbers or targets. `LostToHashOnly` is inductive with the
  domain of pairs and the handlers' pairs. `AloneMeansSame` follows from one statement for each ID that is apart and
  lost nothing (`AloneInv`): its numbers lead to it or nowhere (`RowsAt`), a pair has one of its numbers exactly if it
  is in that pair (`PairAt`), and a moving handler holds one of its numbers exactly if it works for it (`HandAt`).
  The equivalences are what carries a handler that was overtaken: the row it moves and the
  row it moves it to are numbers of the same ID or of neither, and so are those of the pair that meanwhile has what it read
  (`MoveAmongSame`, `MovePairAt`). Without any assumption on the
  hashes, the rows beside the pairs keep what `IdMap` promises (`SpecPairsRowsAgree`, `SpecPairsNoOverwrite`):
  every step of a handler is a transaction of `IdMap`, QQ's numbers being further targets (`NextRows`).
* `MessageIdsProofs`: of `MsgCache`, `TypeOK` and `CacheIsInverse` in both modes, and
  `ShortIdMeansMsg` in counted mode, again because the counter is ahead of every row that was
  ever shown. Of `MemoryIds`, `MapsAreInverse`, inductive with the types, and
  `KeptUntilExpiry`, which needs that a promise and the entry expire together.
* `ResendStackProofs`: `ResendTypeOK` and `OnlyDisturbedLose`, for any number read per call and any actions at once. What an
  undisturbed loop is about to remove is the message it delivered (`Held`), because its next position is
  well placed (`Placed`): it reads the array of the stack itself, so that removals shift what it reads and
  what it removes alike; or the ticker has emptied the stack and it is still shorter than the
  position; or a push has moved the stack, but this is the last turn and both arrays hold the same message there.
* `PrivateStreamProofs`: all properties of its run. The refinement (`ContiguousSpec`) rests on
  `GapFree` (what the platform holds has no gap), `OneCall` (a patient application has one unanswered
  call) and `Behind` (the next index sent is the next one missing, or one the platform
  recognises). `InFlightDistinct` needs that no fragment in flight is above the last index taken
  (`TakenInv`), `ReplyDeliveredOnce` that the platform remembers the number all tries carry
  (`OnceInv`), `NoIdWithoutIndex` that an index taken while there is an ID is not the first, so that
  giving it back leaves one (`KeptInv`). `NumberIsFresh` needs that what a picture reads after its upload is
  unsent (`NumberedWell`); `ReservedForReplies` is a count, the replies that have uploaded plus those that were
  sent (`CountInv`), and assumes that the replies are finitely many.
* `ServerProofs`, of `InteractionWait`: `TypeOK`, `PromiseKept`, `TakenIsAwaited`, `SlotRemoved`. The
  invariant says that a registered slot is untouched (`RegisteredIsNew`), is taken by one call
  (`TakenOnce`), and that a code sent is in the channel of a request that will read it or in
  its response (`SentIsKept`): this is why the wait without a limit after a timeout is right for
  a slot that was taken.
* `ServerProofs`, of `Broadcast`: `ForwardTypeOK`, whatever overlaps: a slice lies inside its
  array and what it shows are connections (`Filled`), since an append writes the one position behind it and a
  removal shifts connections over connections (`AppendEffect`, `RemoveEffect`). `ListIsConnections`: while changes do not
  overlap, one handler at a time knows the list (`Knows`): what it is about to store enumerates,
  each once, those whose handler runs, and itself if it arrives. `EachAppOnce`:
  what the loop iterates over keeps its content, because an append writes behind it or elsewhere
  (`Spawning`), and enumerates the audience. `DowntimeIfNobody`: `errors` is the number
  of senders that reported, and their number is that of the reverse clients and of the list (`DownInv`,
  `Counted`). `SendersFindRoom`, the safety half of `BroadcastEnds`: while nothing is appended, the list
  that is read is no longer than the one the channel was sized by, for what a removal is about
  to store is not longer than the list (`Shorter`), so there is room for every sender's error.
* `SessionProofs`: `TypeOK` and `NoEventSkipped` for both managers, `OneOwner` for `local`.
  `NoEventSkipped` speaks of the session in the channel; the invariant carries it (`AllWhole`)
  through the parameter, the client's copy and the field-by-field read, which needs that the
  listener notes no ID but the gateway's (`NotesGateway`), and that READY comes first (`ReadyIsFirst`).

Only model-checked: liveness (`ReconnectEnds`, `QueueDrains`, `AnsweredOnce`, `BroadcastEnds`,
`LossIsRetried`), which the prover does not do. What they rest on besides scheduling is proved:
`NoLostWakeUp`, `TakenIsAwaited`, `SendersFindRoom`, `OneOwner`.

## 6. Not modelled

Most lines of the repository compute or translate: the silk encoder is C translated to Go, the
protobuf code is generated, and the handlers, the parser, the configuration and the HTTP API turn
one record into another with no state between two calls. What is left with state of its own:

* the expiring maps of `echo` (last message and event ID of a chat): a lost entry makes a reply an
  active message, and nothing promises more;
* the upload cache, the upload rate limiter and the short links: one locked map or one database each; their
  races cost an upload, a request not counted, or need equal random links;
* the access token: one goroutine and one locked record; what can go wrong is a matter of durations;
* the remote session manager: not used by the program.

Within the modelled parts: the contents of messages and the choice of tokens (`WsClient`); the
`config` and `user` buckets, Compaction (a copy into a new file) and lotus, which forwards each
operation to another process (`IdMap`); pairs of private messages and guilds, which are stored
the same way, and Autobind without idmap_pro (`IdPairs`); the other two handlers that push on the stack
(`ResendStack`); the option that starts `msg_seq` at a random number up to 10000
(`PrivateStream`: a reply may then by chance carry the number of a fragment); signatures and the validation
request (`InteractionWait`); the limit on session starts and the pauses between them
(`Session`). bbolt, gorilla/websocket, TCP, the gateway and the platform are environment: they appear
as steps that may go either way. A message may be lost after a write returned nil; no property
claims otherwise. A reload of the configuration between two reads is not modelled: its values are constants.

## 7. What is left

* `Broadcast` with `OutboundQueue` as its reverse clients, in place of a sender that succeeds or fails.
* When a line of section 4 changes, the run that quotes it turns into a property of a passing run.

Smaller hazards, kept here and not in `PROJECT.json`: an expired entry deleted in a second step
takes a fresh one with it (echo/echo.go:195, handlers/upload_cache.go:48); a message to a group is
sent again after a timeout with a new `msg_seq` (handlers/send_group_msg.go:2166); an
unfinished stream is never removed (handlers/send_private_msg_sse.go:20); the stack has no limit
(echo/echo.go:302); events of one chat are queued by goroutines of their own
(server/webhook.go:137); events already seen are forgotten every five minutes (botgo/event/event.go:23); a
reload between two getters mixes configurations (config/config.go:96); the databases close before the
servers (main.go:624); the remote pair look-up asks for the wrong type (idmap/service.go:1667); a clean-up deletes
through a cursor of a bucket it changes (idmap/service.go:241).
