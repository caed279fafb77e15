# OpenPlaylist: formal models

TLA+ models of OpenPlaylist (`src/` is the monorepo: `back-end/` with FastAPI, FastStream, Taskiq, Socket.IO,
PostgreSQL and Redis; the chat and donation bots `bot_ttv`, `bot_da`, `bot_donatex`, `bot_donatepay`; the web client
`new_ui/`), the TLC configurations that check them on small instances, and TLAPS proofs for every instance.
`PROJECT.json` lists components, runs, mutants, hazards, findings and theorems, and maps each definition to the lines
it models.

## 1. The system

| Component | State | Operations | Talks to | What is hard | What makes it correct |
|---|---|---|---|---|---|
| Order worker (`order_proccess_handler.py`, `order_service.py`, `playlist_service.py`, `validation_engine.py`, `dal/postgres/playlist.py`) | rows of `orders` and `order_playlist_status`; locals of every handler in flight | take a message, resolve the link, read the playlists, validate, store, publish events and bot feedback, acknowledge | `order.proccess`, the fanout exchange, `bot.order.*` | unlimited concurrent handlers, check then insert, rows committed before anything is published, acknowledgement last, redelivery | what is announced was stored; one verdict per delivery and playlist; an answer before the acknowledgement; limits overrun by a bounded amount; every order settles |
| Twitch bot, channel points (`bot_ttv/src/components`, `handlers.py`) | status of a redemption (Twitch), feature flags and the reward id (Redis) | redeem, refund, relay an order, patch a redemption | EventSub and Helix, `bot.twitch.order.new`, `bot.order.*` | acknowledges before it acts, two unordered queues, API failures are only logged | points are spent only on music that was stored; a refund has a refusal behind it |
| Donation bots (`bot_da`, `bot_donatex`, `bot_donatepay`) | one socket per connected user | connect, disconnect, refresh a token, relay a donation | provider sockets, RabbitMQ | commands racing the loading of all users and each other; a refused token; a socket or the broker that goes away; a relay that acknowledges before it publishes | one live socket per user and so one order per donation; one user's bad token is no other user's problem |
| Track lifecycle and play now (`playlist_routes.py`, `basic_service.py`) | status of each row, `now_playing` (PostgreSQL), `track_id` (Redis) | delete, bulk delete, play now, patch, delete a playlist | the fanout exchange | checks on snapshots, three stores written one after another, events published by whoever saw the row | `now_playing` and the events agree with the rows once nothing moves |
| Fanout consumers (`adapters/_rabbit/worker/*`) | history, logs, notifications, what each client has been sent | callbacks to clients, history, logs, notifications, widget, playback | six queues on one exchange, Socket.IO | each queue has its own pace, handlers of one queue overtake each other, redelivery | clients converge to the rows |
| Playback (`playback_service.py`, `playback_repository.py`) and Player V2 (`player_service.py`) | Redis hash and JSON with an expiry | play, pause, seek, save | clients, TRACK_PLAY | several writers, write then expire | position belongs to the track that is named |
| Moderators (`moderator_service.py`) | tokens, claims, access per playlist | create, claim, grant, revoke, look up | every playlist route | check then write, expiry that two look-ups treat differently | one holder per token, one record per user, no access after a revocation |
| Realtime rooms (`sio_room_manager.py`, `_sio/routes.py`) | sessions and rooms mirrored in Redis sets | authenticate, subscribe, leave, disconnect, start up | Socket.IO | a disconnect racing a subscription, a new tab against an old one, sets left by a dead process | rooms hold live sessions only |
| Notifications (`notifications_engine.py`, `tasks/notifications.py`) | collapsing counter (Redis), delayed task, rows | count, schedule, flush, store | `internal.playlist.notifications`, Taskiq | increment, describe and schedule are separate commands; read and delete before create; expiry; redelivery | no delivery is told twice; a counter has a task and a task finds its counter; what is counted gets into a notification unless its task is lost or it expires |
| Integrations and tokens (`auth_service.py`, `token_service.py`, `tasks/tokens.py`) | token vault, linked accounts, the bots' own copies | connect, disconnect, refresh, revoke | bots by request and reply with timeouts | a timeout followed by a late answer; refreshes from two sides | the vault holds the newest pair; unlinked means disconnected |
| Web client: cached playlists (`new_ui/src/stores/playlistStore`) | one entry per playlist with a count of the slots that show it; debounced edits | attach, detach, load, merge events, edit optimistically, reconnect | Socket.IO, the playlist routes | a snapshot racing events, late answers for what was closed, rollbacks, an event before its predecessor, a reconnect that does not load | references are counted right; no addition is merged twice; whatever is shown wrongly has a cause that can be named |
| Web client: the player (`helpers.ts`, `createPlaybackOpsSlice.ts`, `features/player`) | current track, history, a paused background, a pending interrupt | choose the next track, skip, go back, interrupt, remove what was played, reorder | the cached list, the routes for play now and deletion | the list lags behind what was played, interrupts nest, two lists of background ids, manual orders that are out of date | ranks are respected; a background is resumed once; nobody starves; what is announced is played |
| Web client: following (`usePlaybackFeed.ts`, `playbackStore.tsx`) | which browsers follow, each one's track and state | command, follow, sync, tune in | both playback routes, Socket.IO | every command on two routes of different speed, reactions that are commands again, late answers | the players fall silent and agree with the last command |
| Login, settings, history, statistics, admin, YouTube metadata, pages of the web client | rows, caches, forms | request and response | | little that interleaves beyond what PostgreSQL serialises | |

The hazards, each at its line, are in `PROJECT.json`. Two things are modelled. One is the way of an order: where a donation
becomes one (the DonatePay bot), the worker, and the points of the viewer who paid for it; that is where money, music
and feedback meet. The other is what the streamer and the viewers then have in front of them: the list in the browser,
the player that works it off, several browsers that should play the same, and the notification that tells followers of it.

## 2. Modules

| Module | What it is |
|---|---|
| `OrderPipeline` | the order worker, the tables it writes, the broker's deliveries, the owner's changes meanwhile |
| `MCOrderPipeline` | its small instances |
| `OrderPipelineProofs` | theorems about it, for all values of its constants |
| `Redemption` | extends it with `bot_ttv`: redemptions, refunds, feedback |
| `MCRedemption`, `RedemptionProofs` | its small instance and its theorems |
| `DonateStreams` | the DonatePay bot's map of streams: commands, loading at start-up, refused tokens, restarts |
| `MCDonateStreams`, `DonateStreamsProofs` | its small instance and its theorems |
| `PlaylistCache` | the web client's cache of playlists beside the back end it shows: loads, events, edits, reconnects |
| `PlaylistView` | what a viewer of playlists is promised; `PlaylistCache` implements it |
| `MCPlaylistCache` | its small instance |
| `PlaylistCacheProofs`, `PlaylistViewProofs` | theorems about it: its invariants, and that it implements `PlaylistView` |
| `PlayerQueue`, `MCPlayerQueue` | the web player on one playlist: the next track, interrupts, removals, manual orders |
| `PlayerQueueProofs` | theorems about it: paused backgrounds, what plays next, what is announced, what a step moves |
| `PlaybackSync`, `MCPlaybackSync` | one channel's playback in several browsers, over the two routes and the server's two records |
| `PlaybackSyncProofs` | theorems about it: where everybody stands once nothing is under way |
| `Notifications` | the bundling of events into notifications: handlers, Redis hash, delayed tasks, rows |
| `MCNotifications`, `NotificationsProofs` | its small instance and its theorems |

### OrderPipeline and the code

`add_to_playlist_batch` and the subscriber of `order.proccess` are cut at every `await` that lets another handler,
a route or a failure change something they depend on:

| Variable | Code |
|---|---|
| `queue`, `tries` | where RabbitMQ has each message, and how often it has handed it out |
| `exists`, `open`, `linked` | rows of `playlists`, `is_allow_external_requests`, `allow_sources` containing the account of the source |
| `active`, `removed` | rows of `order_playlist_status` with status `in playlist`, and with any other |
| `sent` | events on the fanout exchange and updates on `bot.order.*`; a growing set, so that consumers may see them in any order |
| `pc`, `delivery`, `lease` | where a handler is, which delivery it handles, whether its channel still holds the message |
| `batch`, `snap`, `todo` | `typed_orders`; the playlists as they were selected; those the loop has not reached |
| `added`, `refused` | `tracks` and `errors` still to be published |

| Action | Code |
|---|---|
| `Submit` | `new_order` and the bots' relays |
| `Take` | a delivery starts a handler (FastStream sets no prefetch, every message gets a coroutine) |
| `InitFails`, `InitOrders` | `init_orders`; an exception is answered with a cancellation that names no playlist, an empty list ends the handler |
| `ReadPlaylists` | `get_one` or `get_user_playlists_by_sourse`, and everything validation will look at |
| `StoreBatch`, `Refuse`, `Stored` | one turn of the loop over the playlists (`add_orders_to_playlist` commits a batch at once); the return. The loop's order is left open |
| `AnnounceTrack`, `CompleteOrder` | TRACK_ADDED, then `completed`, track by track |
| `AnnounceRejection`, `CancelOrder` | after all of those, TRACK_REJECTED, then `cancelled`, playlist by playlist |
| `Ack`, `Raise` | the subscriber returns (acknowledge) or raises (reject without requeue) |
| `Crash`, `LoseConnection` | the broker takes the message back; after a lost connection the handler runs on |
| `ToggleRequests`, `ToggleSource`, `RemoveTrack`, `DeletePlaylist` | what the playlist routes do to the tables |

Abstractions. `_create_order_dto` gives every track of every delivery a fresh `request_id`, so an `Order` row is the
pair of a delivery and a video. Of the validation rules the open flag, the owner's bypass and the capacity are exact;
a viewer's track may be refused whatever the others say, so the model has every outcome they can produce. The handler may
`Raise` at every await before its end, since the database and each publish may fail; a publish that raises has sent nothing.
`init_orders` may return any embeddable part of an imported list up to its limit, and one track for any other link.
`Owner` keeps what the routes do to the tables; the events they publish are left out, no property here is about them.
The repository's `remove` comes from a library that is not in the tree; it is taken to delete the playlist's row and, by the
foreign key, its entries. Duplicates that a relay could publish are further messages and behave like redeliveries.

### Redemption and the code

`points` is Twitch's status of a redemption, `notified` the EventSub notifications on their way, `heard` the updates
that `order_status` has acknowledged (its first statement), `busy` those it has not finished. Twitch lets a status
change only while a redemption is unfulfilled; a refused PATCH raises and the bot logs it. `RefundAtOnce`, `LeaveHeld`,
`DropOrder` and `Dispatch` are the four ends of a notification; `Hear`, `Patch`, `PatchFails` the feedback handler;
`BotCrash` forgets what was acknowledged. `Dispatch(o)` contains `Submit(o)`, and every other step of the pipeline
happens as it is (`PipelineStep`), so the composition refines `OrderPipeline` (proved).

### DonateStreams and the code

The bot is one Node.js process, so a step is what runs between two awaits; `startStream` has one, the request for a
connection token, between its look at the map and its write to it.

| Variable | Code |
|---|---|
| `process` | running, not running, or running without its broker (`AmqpClient` with `channel === null`) |
| `sync`, `todo` | where `syncUsers` is; the users its loop has not reached |
| `starting` | the account each of the two callers of `startStream` awaits a token for: the loop, and the consumer of the connect queue (prefetch 1) |
| `activeStreams` | the keys of the map |
| `silent`, `spare` | accounts in the map whose socket the server has closed for good; open sockets the map has lost |
| `opened` | accounts that had a socket in this process, whose late errors may still come |
| `died`, `given`, `orders` | accounts reported dead; donations made; the orders each became |

| Action | Code |
|---|---|
| `Boot` | `start`, `initRabbitMQ` once it succeeds |
| `AnswerUsers`, `GiveUp` | `requestAllUsers` answered by the backend, or timed out for the last time |
| `SyncNext`, `SyncEnd` | the loop over the users |
| `Connect`, `Disconnect` | the two command handlers |
| `Started`, `StartFailed` | `startStream` after its await: socket opened and put in the map; token refused, hence `onTokenError` |
| `TokenError`, `ServerCloses` | `onTokenError` of an open or stopped socket; a final disconnect, which nobody handles |
| `Donate` | `handleDonationNotification` in every open socket of the account |
| `Crash`, `LoseBroker` | the process ends (`stop` or otherwise); the connection to RabbitMQ closes and stays closed |

Abstractions. Commands may come at any time, in any number and order. A user is a link of an account; two users of the
site may link one account, as no unique key forbids it. A socket of the map may miss a donation while it reconnects.
The order of the users in the loop is left open. `initRabbitMQ` is one step: a failure between its two `consume` calls,
which would leave a second consumer after the retry, is left out. Tokens themselves are not represented: any request may fail.

### PlaylistCache and the code

A browser runs one thread, so a step is what runs between two awaits, a socket handler, or a click.

| Variable | Code |
|---|---|
| `rows`, `had`, `saved` | the playlist's tracks in PostgreSQL now and ever, its settings (one number that every edit renews) |
| `fanout` | events that were published and not emitted yet; a set, since `internal.playlist.callback` handles several at a time and in any order |
| `online`, `up`, `room` | the socket; `subscribe` and `unsubscribe` not yet taken by the server; the rooms it keeps for this socket |
| `slot` | `slots.player`, `slots.page`: the playlist each shows |
| `cache`, `bound` | `cache[id]`: `refCount` and `data` (a track list is how often each track is in it); how often `bindPlaylistEvents` is in force |
| `bulk` | how often its handler of `bulk_delete_tracks` is bound, which `unbindPlaylistEvents` leaves out: it outlives the last detach and is bound again by the next attach |
| `loads` | `attachPlaylist` between its awaits: playlist asked for, answered, owner's profile asked for |
| `typed`, `patches` | `pendingPatches`; PATCH requests of `patchNow` (with the data to roll back to) and of `flushPatch` |
| `missed` | history: what the display of a playlist may be wrong about. A track (or the settings) enters when its event is lost on this client (not in the room, not connected), is overtaken by a newer one, or is overwritten by a rollback; a snapshot replaces the set by what happened since it was read (`since`), so does a rollback |

`SetSlot` is `setSlotPlaylist` with the synchronous part of `detachPlaylist` and `attachPlaylist`; `Snapshot`, `LoadData`,
`LoadOwner`, `LoadFails` are the fetch; `Deliver`, `DeliverEarly`, `PassBy` one emitted event with and without data, and
outside the room; `Drop`, `Reconnect` the socket; `PatchNow`, `PatchDebounced`, `FlushPatch`, `SavePatch`, `PatchDone`,
`PatchFailed` an edit; `AddRow`, `RemoveRow`, `RemoveBulk`, `EditElsewhere`, `TakeRequest` the back end.

The entry that `LoadOwner` writes after the last detach is the code's: the spread of a missing entry has neither data
nor `refCount`, and counting goes on from `undefined` (`NaN` in the model), which no later detach can drop.
Abstractions: `on_subscribe` awaits only the look-up of its session, so a request is one step. The socket is set once
(`main.tsx`) and before anything is attached. `rules_changed` is bound by the client and emitted by nothing in the back
end. A bulk deletion of several tracks is one for each of them. `createPlaylistRulesSlice` and notes change other fields of the same data.
`PatchNow` and `PatchDebounced` need a loaded playlist; the code needs an entry for the one and checks nothing for the other, but
every page that edits shows a playlist that is loaded.

### PlaylistView

`had`, `gone`, `shown`, `copies`: a track is added once and removed once; the tracks shown change by one track that was
added or removed, or become a copy that was taken before, of the playlist or of the view. `View` in `PlaylistCache` is
the refinement mapping; a snapshot that was answered and a rollback's data are the copies. What the view does
not promise is that it is current, because the code does not keep that; `StaleIsExplained` says exactly when it may be behind.

### PlayerQueue and the code

| Variable | Code |
|---|---|
| `st` | `mode`, `shuffle`, `repeatMode`, `priority_break_point`, the two `SortSettings`, and whether the client is the owner's |
| `queue`, `known` | `track_data` in order of arrival; tracks that ever arrived |
| `manual`, `bgMode`, `bgPage` | `manual_order_ids` of the two groups, `background_track_ids` of the mode and of the playlist |
| `current`, `history` | the player slot's track; `local.history` |
| `pausedBg`, `pausedReg`, `interrupt` | `paused_background`, `paused_regular`, `pendingInterrupt` |
| `shown`, `ended` | `prevTrackIdRef` and whether `endedHandledTrackIdRef` holds it |
| `removing`, `echoes` | DELETE requests and play-now announcements under way |
| `owed` | history: how often a background was interrupted and not resumed |

`PickNext` is `pickNext`, with a set of decisions where the code draws at random; `StaticNext` and `QueueNext` are its two
resolvers. `Advance` is `playNext`, with `stopPlayback` when there is nothing; `End`, `EndOnce` and `Skip` are its callers.
`Arrive` is `add_track` with `checkVipInterrupt`, `TakeInterrupt` the effect that sees the interrupt. `Echo` is the
client's own play-now coming back (it has no `client_id`), `EchoRefused` the 400 for a track that has left.
`ReorderStep`, `ReorderBackground` and `ToggleBackground` are the edits of orders. `Only` is the code's `filter`; `Sorted` is
`sortByRules`, said by places: the k-th track is the one with k - 1 others before it (`Before` is the comparison, the ties of
the code's stable sort broken by arrival). Both are functions, so that the prover can look inside.

Abstractions: positions inside a track, and the user's pause (which does not end it); the role of an operator, who is an
owner here; dragging is a sequence of steps between neighbours, and the step buttons of the backgrounds, which find
nothing while the mode's list is empty, are left to it. An edit of an order is shown at once (`PlaylistCache` has its
failure). `shuffle` is the playlist's or the client's own, as `isShuffle`; the choice of a background looks only at the playlist's
(`helpers.ts:600`), so with the client's own the model allows every random pick where the code makes one of them, the next in order.
A pending interrupt for a track that no longer plays is forgotten, as the effect runs only when a new one is written.

### PlaybackSync and the code

| Variable | Code |
|---|---|
| `role`, `tuned`, `follow` | `getSlotRole`; `activeChannel` and hence the room `player:<owner>`; `acceptSync` of a viewer, `playerMode = 'control'` of an operator |
| `me` | per browser `currentTrackId` and the feed's `playing` |
| `asked` | `fetchPlayerState` of `setActiveChannel`, `getPlaybackState` of `requestSync` |
| `net`, `fanout`, `inbox` | requests under way; events of the playlist's route in RabbitMQ; each socket's messages, in order |
| `player`, `playback` | the Redis hashes `player:<owner>` and `playback:<playlist>` |
| `want` | history: track and state that the last command asked for, the routes that still carry it (`via`), and whether it was a start; `None` when commands overlapped |

A command posts on both routes: `playnow`, `pause`, `seek` to the playlist's (saved, published, then emitted by a consumer),
`play`, `hold` to the player's (saved and emitted in the handler). `Handle` is what a browser does with a message: its
socket handler, and the effect of `usePlaybackFeed` that the handler triggers, as one step. `Reaction` keeps both the new
state and the requests that this sends, since `playTrack` inside the effect announces again.

Abstractions: positions and `player_seek`, which nothing here depends on; saving and emitting in one step on the player's route; an operator who
has not selected the channel posts to its own player, which is dropped; what `set_play_now` writes, stores and publishes is one step, although
two overlapping requests could publish each other's track; a client that tunes in is in the room at the click, although `player_subscribe`
may reach the server after the fetch (the properties are about commands given in quiet, `want`, which neither can touch); the owner's tabs are never in control mode,
clients neither leave a channel nor change the playlist. A late `onPlay` of the video element (`LatePlay`) counts as a command.

### Notifications and the code

| Variable | Code |
|---|---|
| `queue`, `tries` | the messages of `internal.playlist.notifications`, and how often each was handed out |
| `at` | where the handler of a delivery is: counted and not described (`first`, `later`), about to schedule (`kicking`), about to store (`storing`) |
| `counted`, `named` | the hash of a key: the deliveries its `counter` stands for; whether it has the names |
| `due` | tasks that `delay_kick` scheduled for a key and that have not run |
| `taken`, `told` | bundles read from a hash (or made of a bulk event) and not stored; rows of event notifications, each as what it counts |
| `unkicked`, `late` | history: keys whose counter has lost its task; keys that expired before their task ran |

| Action | Code |
|---|---|
| `Count`, `Name`, `Kick` | `add_event`: `hincrby`; `hset` with `expire`; `delay_kick` by whoever counted 1 |
| `SendAtOnce` | a bulk event, which `send_event` tells as it is |
| `Fail`, `Settle` | a call that raises; the end of the handler, acknowledged or rejected without requeue |
| `Flush` | `notifications.event.collapse`: `hgetall` and `delete` in one transaction, and a payload without counter or names that validation refuses |
| `Store` | `create_event` commits or fails |
| `Publish`, `Crash`, `LoseConnection` | the publishers; the worker dies; the broker takes a message back from a live handler |
| `LoseTask`, `Expire` | a Taskiq worker dies with a task it popped; 125 seconds without an event of the key |

The worker is one process (`Dockerfile.rabbit_worker` starts it with `--workers 1`) and its Redis client is synchronous, so two handlers
interleave only where one awaits the scheduling or the database (`Receive` waits for `first` and `later`); tasks run
in another process and may come between any two commands. Each schedule fires once: Taskiq's
scheduler kicks a task and then deletes its schedule, and one that dies between the two would kick it again after its restart, which is left out;
`NothingThrownAway` depends on it. Other abstractions: time, so that a hash may expire and a task may run at any moment; what the names are;
events of private playlists and bulk events without ids, which the handler ignores; `expire` together with `hset`, since a
worker that dies between the two leaves a hash that does not expire, and `Expire` need not happen.

## 3. Runs

| Run | Instance | Checks |
|---|---|---|
| `OrderRace` | two viewers, one playlist with room for one track, two handlers, two deliveries of each message | `TypeOK`; `OverrunBounded`; `AnnouncedWereStored`; `OneVerdict`; `CancelledNotStored`; `AckedOnceMeansTold` |
| `OrderSettles` | the owner's import of two videos, two handlers, two deliveries, under fairness | `AnsweredBeforeAck`, `EveryOrderSettles` |
| `Points` | one redemption, two playlists, one handler, two deliveries | `BotTypeOK`, `AnsweredBeforeAck`, `FulfilledWasStored`, `RefundWasRefused` |
| `Streams` | two accounts, three links (two of one account), one donation, any number of commands and restarts | `TypeOK`, `OrdersBounded`, `SyncTriesAll` |
| `Cache` | one playlist with one track, two slots, two loads, one drop of the socket, one edit | `TypeOK`, `CountsHolders`, `BoundOnce`, `StaleIsExplained`, `ViewPromise` |
| `Player` | four tracks (two VIP, one regular, one background), five openings in static, flow and stream mode, two bounded steps | `TypeOK`, `ResumedOnce`, `AnnouncedIsNext`, `RanksRespected`, `StepMovesOne`, `NobodyStarves` |
| `Sync` | two browsers (two tabs of the owner; owner and viewer; owner and operator), two tracks, three commands, one of them overlapping | `TypeOK`, `SettledAgree`, `ServerMatches`, `Settles` |
| `Told` | two additions to one playlist, a bulk removal, two deliveries of each, under fairness | `TypeOK`, `ToldOnce`, `FlushIsDue`, `NothingThrownAway`, `CountedIsFlushed` |
| `OrderCapacity` | as `OrderRace` | expected violation of `CapacityRespected` |
| `OrderDuplicate` | as `OrderRace` | expected violation of `OneRowPerRequest` |
| `PointsRefund` | as `Points`, with one delivery | expected violation of `RefundMeansRejected` |
| `StreamsTwice` | as `Streams` | expected violation of `OneStreamEach` |

What they show. A playlist's limit can be overrun (`OrderCapacity`: both handlers read it before either stores), but
only by less than the number of handlers in flight, whatever is redelivered (`OverrunBounded`). Nobody is told of a
track that was not committed. A delivery never gets two verdicts for a playlist, and a cancelled delivery never has a row there.
When a message is acknowledged every playlist read has its answer; a message that needed one delivery only leaves
nothing unannounced. After a redelivery that is false, and the track is there twice (`OrderDuplicate`): the
`request_id` that should recognise it is drawn anew. Points that were fulfilled bought a committed row, points that were
refunded had a refusal behind them; but an order that one playlist took and another refused may be refunded and
played (`PointsRefund`). An account can have two open streams, one of them lost to every later disconnect
(`StreamsTwice`); that costs at most one extra order per donation and link, because a second stream needs a start by
the loading of users, which every process does once per link (`OrdersBounded`). A refused token keeps no user after it
from a turn: each user of the answer has a stream, or is asked a token for, or the process goes down (`SyncTriesAll`).

The cache counts its references right through every order of attach, detach and late answer (`CountsHolders`), and no
added track is merged twice (`BoundOnce`). The handler of bulk deletions is bound more and more often, once with each attach after
the first, and stays bound when the playlist is closed; that costs nothing but the handlers, since removing a track again changes nothing. It does show stale things: `StaleIsExplained` lists the five ways (lost
without a room or a connection, lost before the data, overtaken, older than the snapshot, rolled back) and shows that there is no other.
Through all of them the tracks on screen only move between states the view promises (`ViewPromise`): no settings event,
edit, attach or reconnect adds or drops a track.

The player takes a waiting VIP before anything else and a waiting regular track before a background (`RanksRespected`),
resumes an interrupted background once for each interruption (`ResumedOnce`), plays what it announced as long as
the current track heads its group (`AnnouncedIsNext`), moves one track by one place per step of a manual order, stale
ids or not (`StepMovesOne`), and in stream mode starves nobody (`NobodyStarves`). In flow mode nothing is taken off the list, so two
VIPs alternate and the rest waits: `NobodyStarves` is about stream mode. It also leaves out a track that is chosen again
right after its own end, which keeps its id and stalls the player (`Player.tsx:252`).

Browsers that react to announcements with announcements do fall silent (`Settles`), and the last command given in quiet
wins everywhere, over one route if the other lost it (`SettledAgree`); the server's two records then name the same track
(`ServerMatches`). Commands that overlap can leave two players apart, until the next one; the model has that, and no
property forbids it (nor that the server's records then differ, `playlist_routes.py:311`). Neither `requestSync` nor tuning in learns that the channel is paused (`usePlaybackFeed.ts:418`
compares with a text that never comes; `playbackStore.tsx:107` sets a track, and a new track plays), so
`SettledAgree` follows them only while the channel plays.

Followers are told of no delivery twice (`ToldOnce`); a message that is delivered again is counted again, which is a delivery of
its own. A counter always has its task, scheduled or about to be (`FlushIsDue`), although only the event that counts 1 schedules
one: a flush empties the hash as a whole, and names left behind by a flush between `hincrby` and `hset` do not count. Except after an
expiry, a task finds counter and names (`NothingThrownAway`). So what is counted gets into a notification (`CountedIsFlushed`; whether
its row is then stored is another matter: a failed `Store` loses it), with two exceptions that the properties name. One is a hash that expires before its task ran. The other:
if the handler that counted 1 fails before it has scheduled, or the task is
lost, every later event renews the expiry and schedules nothing, and the key is silent until two minutes pass without an event.

Every passing property has a mutant of a mapped definition that violates it under the same configuration.

Bounds. `Workers` bounds the handlers in flight: two are enough for every pairwise race, and the theorems hold for any
finite number. `MaxDeliveries` bounds how often the broker hands out a message; crashes stop when it is used up, which
is also the assumption behind `EveryOrderSettles` (failures end). One place in the playlist makes "full" and "not full"
both happen. In `Streams` two links of one account are what the bound of `OrdersBounded` counts, the second account is
what a refused token must not affect, and the run has no bound on commands, errors or restarts. In `Cache` one track and one edit suffice for each property, which speaks of one track or the settings at a time; two slots are what
counts references, two loads what races, and one drop each of the socket what loses events. In `Player` two VIPs, one regular and one background track fill every group, with the
history cut after one entry; `MaxMoves` bounds the buttons, the edits and the failures, not what the player does by itself. In
`Sync` `MaxOverlaps` bounds the commands given before the previous one settled: one overlap is followed by a calm command, which must win. In `Told` two events
of one key, the only one there is, are what makes a first and a later count, and their second deliveries meet a flushed or expired hash. Two playlists (`Points`) and two videos (`OrderSettles`) are the least that make a mixed verdict and a batch. Handlers, the slots of `Cache` (and
playlists in `Points`) are interchangeable, hence the symmetry; the runs with a liveness property use none. The runs allow deadlock:
a system whose orders are all settled may stop.

Fairness. `FairSpec` assumes weak fairness of each handler (the asyncio loop of a live worker resumes every coroutine,
and the awaited calls return or raise) and of each message's delivery (RabbitMQ delivers a ready message to a consumer
without a prefetch limit). In `DonateStreams` it is weak fairness of `syncUsers` (its five requests have a timer each)
and of each awaited token request, which ends because Node's `fetch` gives up on silent servers. In `PlayerQueue` a track that plays ends, an effect
runs, a deletion that was asked for is answered (unless it fails, which is bounded); in `PlaybackSync` the network and the servers make progress; in `Notifications`
a live worker resumes its handlers and the scheduler runs what is due.
Nobody has to order, crash, lose a connection or change a playlist.

## 4. Proofs

The theorems hold for every value of the constants: any orders, videos, playlists, limits, finite set of handlers and bound on deliveries
(`OrderPipelineProofs`, `RedemptionProofs`), any accounts and links (`DonateStreamsProofs`), any finite sets of playlists
and slots and any bounds (`PlaylistCacheProofs`, `PlaylistViewProofs`), any tracks and openings (`PlayerQueueProofs`), any clients,
tracks, casts and bounds (`PlaybackSyncProofs`), any events and keys (`NotificationsProofs`). The assumptions are `OrdersAssumption`, `LimitsAssumption`, `RedemptionAssumption`, `LinksAssumption`,
`CacheAssumption`, `PlayerAssumption`, `SyncAssumption` and `NotificationsAssumption`; TLC evaluates them in the runs. Apart from what
the code fixes (a limit is a number, a set is finite) they say that `None`, which stands for the code's `null`, is none of the values it is stored beside.

* `TypeCorrect`: `TypeOK` is inductive. `OthersStep` then says that a step is a step of handler `w` or leaves its
  locals alone; most proofs look at one handler at a time through it.
* `AnnouncedStored`: the invariant adds that the entries a handler still has to announce are stored
  (`AddedWereStored`). Rows only vanish together with their playlist (`RowsStay`).
* `OverrunIsBounded`: viewers' rows of a playlist plus the handlers that still hold a stale "not full" for it
  (`Pending`) stay below the limit plus the number of handlers. A handler becomes pending only when the playlist is
  below its limit, and a viewer's batch is one track (`SingleTracks`), so a store trades one for the other.
* `AnsweredFirst`: every playlist in a handler's snapshot is still to do, refused, cancelled, or has each of its rows
  either waiting in `added` or confirmed (`SeenAccounted`).
* `OneVerdictEach`: no two handlers share a delivery (`DeliveriesApart`, because `tries` only grows), nothing is said
  of a delivery before it is made (`DeliveriesMade`), and a handler's lists agree with what it has told
  (`HandlersConsistent`).
* `CancelledLeavesNothing`: in addition a playlist holds no row of a delivery that is unread, to do, refused or
  cancelled there (`HandlersFree`, `CancelledFree`).
* `AckedOnceToldAll`: the handler that has a delivery's lease is at work on the message's last delivery, and one at work on it
  without the lease has given the message back (`LeasesHeld`). So a row of a first delivery is told, or its message was given
  back or dropped, or the handler that will acknowledge it still has the row to tell (`FirstRows`). Second deliveries are
  excluded by the property: what an interrupted first one stored may never be told.
* `BotRefinesPipeline`: the composition implements `OrderPipeline!Spec`, so all of the above holds with the bot. From
  there `FulfilledMeansStored` and `RefundedMeansRefused` only need that a status comes from an update that was heard
  and that a refunded redemption is never published (`PointsInv`).
* `OrdersAreBounded` (any accounts, any finite set of links, `LinksAssumption`): `orders` counts open sockets, so the
  sockets that the map lost must be bounded, over any number of commands. The invariant `SparePaid` keeps a balance per
  account: lost sockets, plus links the loop has not reached, plus one if a start in flight may still overwrite the
  other's stream, never exceed its links. A start by a command alone overwrites nothing, because the consumer has one
  command at a time; an overwriting one is paid for by a link. `FreshStart` says that a new process has paid nothing yet.

* `ShownIsCounted`, `HandlersBoundOnce`: with the types these two are inductive together (`CountInv`). The
  second says nothing of how often the handler of bulk deletions is bound, only that it is at least as often as the others: no detach takes it away. `SetSlot` is the work:
  the holders of the playlist that is left and of the one that is taken change by one (`SetSlotHolders`), and so do the counts.
* `CacheRefinesView`: the cache implements `PlaylistView`, step by step (`ViewStep`). The invariant `ViewInv` says
  that rows are among those that were ever added and that an event tells of a change that happened; without it an
  event could show a track nobody added. The copies of the view are what requests and rollbacks hold (`CopiesAre`); a
  request that ends takes its copy with it (`EndedTakesItsCopy`), and one that grows older does not change it (`AgeKeepsCopies`).
* `StalenessExplained`: the invariant (`StaleInv`) is about every copy of a playlist the client has, not only the one on
  screen: the list, an answer that is on its way, the list a rollback would restore. In each of them a track is as it is in the
  back end, or an event about it is under way, or what this copy has missed says so; the same holds of the settings, except
  while an edit of them is open.
* `SyncTypeCorrect`, `SettledPlayersAgree`, `SettledServerMatches`: one invariant (`SyncInv`) describes every mixture of the two
  routes. What is under way names its track and is told to a member only (`Addressed`). Since the last command that nobody
  overtook, everything under way agrees with it (`Fitting`), a seek travels with seeks only (`SeekAlone`), and for each route and each client
  the client has the command's track, or its message is still coming, or it is about to sync (`Reaching`). The server's records
  have it or a request that brings it is in the net (`Kept`); who asked or started alone did so with nothing else under way
  (`Asking`, `Started`). When all is quiet only the first alternatives are left. What a send, a delivery or a loss does to
  the bags and sequences under way is said once, in lemmas.
* `BackgroundsResumedOnce`: a background that is remembered is owed a resumption (`PausedIsOwed`); an interrupt adds one of each,
  `Advance` pays one when it resumes, and nothing else touches either (`Balanced`).
* `PlayerTypeCorrect`, `RanksHold`, `AnnouncementHolds`, `StepsMoveOne`: `TypeOK` is inductive as it stands, since it says that every list
  names a track once and that what is queued has arrived. Selecting, putting together, adding and exchanging keep lists
  lists (`OnlyIs`, `ConcatIs`, `AppendIs`, `SwapIs`). The rules order any part of the queue in a line (`BeforeLines`); in a line each
  track has a number of others ahead, and each number is some track's (`Ranks`), so the sorted group holds its tracks once and
  in order (`SortedIs`), and no other list does (`OneOrder`). From there: what flow and stream mode choose is taken from
  the highest rank that has somebody waiting (`QueueRanks`); the track after the head of the list is the one that `pickNext`
  chooses and that `useUpNextFeed` puts first (`SecondIsNext`, `FirstAnnounced`); and the order that a step writes down is the one that was
  on screen but for two neighbours (`FreeVisible`), so the group sorted by it is that order (`StepMoves`).
* `CountersHaveTasks` is inductive once a delivery that was not made is known to be idle (`NewAreIdle`). `TasksFindCounters` needs
  the order of things under one key (`InOrder`): at most one task or one handler on its way to schedule it, a
  counter while there is one, and the names by the time the handler schedules.
* `DeliveriesToldOnce`: a delivery is counted under its own key only and not before it is made (`ToldInv`); every step
  either makes one or only moves and drops what is there (`Shrinks`).

Only model-checked: the liveness properties `EveryOrderSettles`, `SyncTriesAll`, `NobodyStarves`, `Settles` and `CountedIsFlushed`, which are beyond
the prover. Every invariant and action property that a passing run checks is a theorem, and so is the refinement of `PlaylistView`.

## 5. Not modelled

* A restart of the broker (`order.proccess` is declared by name only and is not durable, although docs/core/orders.md:17
  calls it so); YouTube's answers beyond "any videos or an error"; chat messages; the commands that manage a reward;
  deletion of the owner's account while an order is handled.
* Moderators: requests and responses over two tables. What can go wrong is two check-then-write races (`moderator_service.py:99`
  and `:162`), which the hazards list.
* The mirror of the rooms in Redis, the token vault and the connect requests with their timeouts: each stands apart from what
  is modelled; the hazards list what can go wrong.
* The reading side of notifications (feed, unread count, read marks, settings, subscriptions) and direct notifications: requests over
  one row or one query.
* `bot_da` and `bot_donatex`, which keep the same map of streams as `bot_donatepay`, in Python.
* Most lines of the repository are pages, forms and dialogs of the web client (React components and their texts) and
  routes that read or write one row. They have no state of their own that outlives a click, and a model
  would repeat them. The stores under them, where events, answers and clicks meet, are `PlaylistCache`, `PlayerQueue` and `PlaybackSync`.
