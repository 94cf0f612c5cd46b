# Verification of nest-aznw-api in TLA+

`nest-aznw-api` is the NestJS backend of a website: a Telegram bridge, a chat with
streamed answers, games, a quiz, recipes and a number of small forwarding
endpoints. This directory holds TLA+ models of the parts of it that keep state,
the TLC configurations that check them, and TLAPS proofs of the results that
should not depend on the size of a model. `PROJECT.json` is the machine-readable
index: components, runs, mutants, the source lines of every definition, hazards,
findings and theorems.

Paths below are relative to the repository's root (`src/telegram/...` is the
application's own `src` directory).

## 1. The system

One Node process serves HTTP and socket.io. Nothing is shared between processes,
and JavaScript runs one handler at a time: **concurrency exists only at `await`**.
Everything between two awaits of a handler is atomic, everything across an await
is not, and a handler may find any state the others left behind while it waited.
All models follow that rule: one action is what a handler does between two awaits.

| component | state it keeps | operations | what is hard about it |
|---|---|---|---|
| Telegram service `src/telegram/telegram.service.ts` | Maps `sessions`, `eventCallbacks`, `mediaTokens`; a clean-up timer | send code, sign in, 2FA, status, logout, chats and media, media tokens, clean-up, shutdown | every operation awaits Telegram and then works on whatever the maps hold; connections drop and return |
| Telegram gateway `telegram.gateway.ts` | `registeredSessions`, keep-alive timers, socket.io rooms | a page connects or disconnects; registers and removes event handlers; callbacks emit what Telegram sends | event handlers capture a room; the sets of the gateway and the maps of the service are updated by different events; a callback awaits the sender before it emits |
| Chat `src/chat/chat.service.ts`, `chat.controller.ts` | Map of conversations, at most `MAX_SESSIONS`, with a time to live | ask (a streamed answer), reset, clean-up | the history is read before and written after a long stream; streams abort or break; SSE chunks are cut anywhere |
| Rate limits `src/common/memory-rate-limiter.ts`, `rate-limit.guard.ts` | time stamps per key | consume; `clientIp` chooses the key | a sliding window kept by forgetting; two limits in a row; headers a visitor may send along |
| Failed logins `src/auth/auth.service.ts`, `src/users/users.service.ts` | a table row per address | login | up to five database calls without a transaction |
| Signups, same files | the users | signup | looks for the email, awaits the hash, inserts |
| Yahtzee lobby `src/yahtzee-game/` | list of players, `noMorePlayers` | join, leave, start, questions of pages | pages learn of changes by messages that are under way while it changes again |
| High scores `src/moorhuhn/` | one row per player | save, list with ranks | find, compare and write without a transaction; shared ranks |
| Trivia `src/trivia/` | read-only tables; the page has a round | random round, the same round in another language | normalisers of counts, numbers and languages |
| Recipes `src/recipes/` | a table | create, update, remove | `save` inserts again what was removed meanwhile |
| Difficulty settings `src/math4lisa/` | a row of settings | update, broadcast | the broadcast goes out before the save, which is not awaited and whose failure nobody handles |
| Speech `src/chat/speech.service.ts` | none | one synthesis against a timer | the loser of the race goes on |
| Files, guestbook | files, a table | one write per request | no state between requests |
| Geolocation, imagegen, availability, stripe, mail, jokes, health | none | forward or answer | no state |
| Bootstrap, database scripts, deployment, tests | none | run once or offline | not part of the running program |

How they interact: the Telegram controller calls the service and then the gateway
(`src/telegram/telegram.controller.ts`), the gateway registers callbacks with the
service and touches its sessions, the service's callbacks emit into the gateway's
rooms. The chat controller consumes two limits of the rate limiter before it calls
the chat service; uploads, images and speech use the same limiter through a guard.
`AuthService` uses the users service for logins and signups. High scores, recipes and
settings share a database and no table. The other components share nothing.

What makes each component correct is stated as properties in section 3.

## 2. Modules

| module | models |
|---|---|
| `TelegramSessions` | service, gateway and controller of the Telegram bridge together |
| `SessionGrants` | abstract: what a media token promises |
| `TelegramUpdates` | extends `TelegramSessions` by what Telegram sends, from its arrival to the pages |
| `ChatSessions` | the Map of conversations and every `streamReply` in progress |
| `ChatStream` | one answer stream: SSE parser, response, heartbeat, abort |
| `AnswerPipe` | abstract: what an answer stream promises its page |
| `MemoryRateLimiter` | the limiter and the double limit of the chat |
| `SlidingWindow` | abstract: a limit that remembers every call |
| `ClientIp` | the address a request is counted under, as a function of its headers |
| `FailedLogins` | `login` and the table of failed logins of one address |
| `Signups` | `signup` and the users |
| `YahtzeeLobby` | the lobby, its messages and the pages that read them |
| `HighScores` | saves with their queries, and the ranking |
| `Recipes` | create, update and remove with their queries |
| `DifficultySettings` | the row of settings, the save, the broadcast, the pages |
| `Speech` | one synthesis against its timer |
| `TriviaRounds` | the quiz service as operators, and the round on a page |
| `MC...` | the instances that TLC explores. `MCTables` holds `HighScores`, `Recipes` and `DifficultySettings`, `MCFailedLogins` also `Signups`, `MCChatRequests` `ChatStream` and `Speech`, `MCMemoryRateLimiter` also `ClientIp` |
| `TelegramSessions_proofs` (also about `TelegramUpdates`), `MemoryRateLimiter_proofs`, `ChatSessions_proofs`, `MCChatRequests_proofs`, `MCFailedLogins_proofs`, `YahtzeeLobby_proofs`, `MCTables_proofs`, `TriviaRounds_proofs` | the theorems, section 4. Where an `MC` module puts components together or adds the condition that one request is at work at a time, its specification is what the theorems are about, for every value of its constants |

Definitions keep the names of the methods they model. A comment "Mutant:" marks an
operator that is *not* the code but a plausible slip of it; section 3 says what they
are for.

### TelegramSessions

| code | model |
|---|---|
| `sessions: Map<string, UserSession>` | function from ids to a record of client, `phoneCodeHash` and `idle`, or `None`; `lastActivity` is kept as the age `idle` |
| `phoneCodeHash` | the client whose SendCode produced it |
| `eventCallbacks` | per id the callback that the map remembers; one callback stands for the pair (new message, raw update), which the code always adds and removes together |
| GramJS client | `link` (connecting, up, down, closed) and `handlers`, the set of callbacks that were added to it |
| `mediaTokens` | token -> session id and age |
| a handler that awaits | an element of `requests` with what it captured: id and client object |
| rooms, `registeredSessions`, keep-alive timers | `room`, and two sets of ids |
| `onModuleDestroy` | `down`; nothing runs after it |

`SendCode` is split at the two awaits of `ensureClient`/`sendCode` (`ClientConnected`
or `ClientReconnected`, then `CodeSent`), the sign-ins and `auth/status` at theirs
(`SignedIn`), logout at its own (`LoggedOut`), a download at the metadata
(`IterDownloadMedia`). `RequestFails` is every rejected call. Handlers without an
await before their last change of the registry are one action (`ServiceCall`,
`CreateMediaToken`, `HandleConnection`, `HandleDisconnect`, `KeepAlive`,
`CleanupInactiveSessions`). What the handlers return, and the conversion of chats,
messages and media to JSON, leave the registry alone and are not modelled.

`SessionGrants` is the abstract specification of the tokens: a token is handed out
while its session is live, and no session ends without its tokens. The refinement
mapping (`Grants` in `TelegramSessions`) forgets clients, requests, sockets and
ages; the property `GrantsSpec` says that every step of the registry is a step of
it or a stutter.

### TelegramUpdates

| code | model |
|---|---|
| an update of Telegram | `updates[u]`: its kind (incoming, outgoing, read receipt) and the callbacks that have not ended |
| `registerEventHandlers`: the handlers of a client when an update arrives | `UpdateArrives`: `todo` is the set of callbacks that are on the client now; a read receipt is emitted at once |
| the callback of a message: `getSender` in a `try`, then `server.to(room).emit` | `SenderKnown`: emits whether the sender was found or not, to whoever is in the room *then*; it asks neither for the session nor for the handler |
| pages | `shown[k][u]`, how often page `k` was sent update `u`; a page that goes takes it along |
| `NewMessage({})` and the raw handler | `Events`: the filter of `NewMessage({})` is empty, so a message of the user's own reaches `onNewMessage`, and the raw handler sends it once more |

Every step of `TelegramSessions` is a step here (`RegistryStep`), so logouts, clean-ups,
re-logins and pages interleave with the callbacks. The media of a message is already
in it; the code awaits nothing else that can fail on its own.

### ChatSessions, ChatStream and Speech

`chats` is the Map: `place` is the insertion order on which eviction relies,
`idle` the age of `lastUsed`. A question (`streams[q]`) has what `streamReply`
keeps in local variables across its awaits: the history it read before `fetch`,
whether a token has arrived and how many messages a summary replaces. `StreamEnds`
is the `finally` block, whatever led to it. A message is the set of texts it stands
for, so that a summary stands for everything it replaced.

`ChatStream` follows one response. Text is a sequence of pieces: an event is two
pieces, so a chunk can end inside it, and a line break is a piece, so a chunk can end
between the two line breaks that end an event. `Chunk(n)` reads `n` pieces,
splits, keeps the rest and writes the events, which is one turn of `readEvents`
and of the loop in the controller. `Nth` numbers the events of the page past the
heartbeats between them: `PassedThrough` compares the n-th with the n-th that was sent.

A response may end in the middle of an event, and `[DONE]` may be missing; the event that was cut
off is kept in `cut`, so that what the page misses is known.

`AnswerPipe` is the abstract specification of one stream: what the API sends is shown in
order, some time later, and the page is told how it ended. "done" means that it has everything only
when the API said so itself (`source`); when its response just ended, the last event may be missing.
In the refinement mapping (`Pipe`) an event that was cut off counts as sent, `Shown` is the events
among the lines of the page in their order, and `Outcome` what the last
line says; chunks, buffer, line breaks and heartbeats are forgotten.

`Speech` is `Promise.race` in `synthesize`: `reader` is the promise that reads the
sound, `timer` the other one. The loser of the race goes on (`TooLate`) without a
listener. What Edge and its library do when the connection is closed under them is
left open: the reader may end, fail or stay silent at any point.

### MemoryRateLimiter, SlidingWindow and ClientIp

`hits` is the array of a key (as a set of calls with their times, since only the
number of recent ones matters), cut down at each `consume` as the code does.
`admitted` is the full history, which the code does not have: `WindowBound` relates
the two. `SlidingWindow` is the abstract limit, which has that history and decides by
it; the property `AsIfNothingForgotten` says that the limiter, hits thrown away and
all, lets pass and refuses the same calls. It also says that a refused call leaves no
trace, so that insisting never prolongs a refusal.

`ClientIp` is a pure function: the last of the entries that are not blank (`Given`) counts; the lists of header entries are enumerated
(`Sent`, one per behaviour), and `ThroughApache` adds what the proxy in front of the process adds
(`X-Forwarded-For` appended, `X-Real-IP` set or not).

### FailedLogins and Signups

`rows` is the table for one address, `logins[l].at` the database call (or the
password comparison) that a login waits for. TypeORM's `save` is two calls: it selects
the row by its key (`LoadFailedLogin`), compares it with the entity that was read earlier
(`Diff`), and updates the columns that differ (`UpdateFailedLogin`) or, if the row is gone,
inserts the entity (`InsertFailedLogin`). So what overlapping logins save may mix in one row.
`blockedUntil` is the time that is left. The address is fixed: it is the first entry of
`X-Forwarded-For` or the address of the connection (`auth.controller.ts:41-49`), and the rows of
different addresses never meet. `streak` and `sinceWrong` record what a
guesser has achieved, `given` the wrong passwords since neither the table nor a login on its
way to it knew of one.

`Signups` has the three awaits of `signup`. The unique column is part of
`CreateUser`; an insert may have been done although its answer was lost
(`DatabaseFails`). A call that was refused may be made again.

### YahtzeeLobby, HighScores, Recipes, DifficultySettings, TriviaRounds

`YahtzeeLobby`: `inbox` is what is under way to each page, in order, and `view` what the
page has last read of each event. `HighScores`: `repo` is the table, `calls` the requests
with the query they wait for; a row remembers the score it was inserted with, and `best`
what players were told is stored. `Recipes`: `save` selects the row again (`Loaded`), updates the
fields in which the entity found before differs from it (`Updated`), or inserts it again if its
row has gone (`Reinserted`); a query that fails has written nothing; `book` is what the answered requests asked for, without any
interleaving. `DifficultySettings`: the pages, what each shows, the save with its
three queries. A rejected save is an unhandled rejection: Node ends the process, the
pages lose their connection (`view` is `None`), and it is started again; an insert gets
the next id, so only the first one makes row 1. `TriviaRounds`: the normalisers and queries are
operators, and the loops among them recursive functions of the position, as for the
ranks; numbers that come from a URL are counted in halves, so fractions, zero,
negative numbers and NaN are inputs; the state is the round on a page.

## 3. Runs

Most MC modules add one variable, `about` or one named for its choice, that is chosen
at the start and never changes. It selects what the behaviour is about: which of several
components that share no state, and whether requests overlap without a limit or one is
at work at a time. So one run covers the full interleaving at the size it needs and,
beside it, what holds only under a condition at its own size.

| run | instance | states | shows |
|---|---|---|---|
| `telegram` | 2 ids, 2 client objects, 3 callbacks; 2 overlapping requests with 1 page and 1 token, or (`calm`) one request at a time with 2 pages | 1 975 364 | safety of the registry and the refinement of `SessionGrants` |
| `telegram_updates` | 1 id, 1 client, 2 callbacks, 1 request, 2 pages, 1 token, 1 update of each kind; limits of 2 and 1 ticks | 92 588 | what pages are sent, and that sessions and tokens go when nobody uses them |
| `rate_limiter` | 6 calls, 8 units of time, limits 2 per 2, 3 per 5 and 1 per 2; or one request with up to 3 entries in its header | 279 066 | the windows hold, nothing that matters is forgotten, the address is the visitor's |
| `chat` | 3 chats of which 2 are kept, 4 questions | 891 887 | histories, eviction, forgetting |
| `chat_requests` | 2 different events, up to 3 sent, 1 heartbeat; or 8 chunks of speech | 13 610 | nothing lost, one last word, an end |
| `login` | 2 logins, 3 row ids, 3 failures, a block of 2 ticks; or 3 signups for 2 emails | 224 089 | blocks and their end; one account |
| `yahtzee` | 3 pages with 2 messages under way, or 2 pages with 4 | 1 239 582 | seats, lobby, what pages know |
| `tables` | scores: 3 calls, 3 scores, 1 name overlapping or 3 names one by one; recipes: 2 calls, 2 recipes of 2 fields with 2 values; settings: 2 updates, 2 pages, 2 values | 1 841 114 | best scores and ranks; recipes; settings |
| `trivia_rounds` | 3 numbers, 2 languages, every table; limits 2 and 3 | 448 | the algorithms against definitions without loops |
| `telegram_relogin`, `chat_lost_answer`, `login_lost_block` | small | | findings, section 6 |

Every property of a passing run has a **mutant** in `PROJECT.json`: a changed
definition under which TLC finds that property violated, with the same
configuration. It is the evidence that the property depends on the code.

### What the properties say

* `telegram`: `SubscriptionsSound` has three parts: an update reaches the room of its
  own session only; a client never holds two handlers, which would send every
  message twice; and it holds one only while the gateway has its session registered. A session
  with an open page goes only by a logout of its own id (`WatchedSessionKept`); tokens follow
  `SessionGrants` (`GrantsSpec`). A connection to Telegram that no session answers for
  (`Stray`) comes about in two ways only: a client is connected again after its session was
  dropped, or a request meant another client than its id has by then, because the id logged in
  anew meanwhile (`StrayConnectionsExplained`); under `calm` only the former remains. Under
  `calm` also: a code is checked against the hash of the client that asked for it, and a dropped
  client keeps no handlers (`ClientsKeptApartWhenCalm`). The code does not promise these two for
  overlapping requests, and does not keep them (section 6).
* `telegram_updates`: whatever interleaves with the callbacks, a page is sent an
  incoming message or a receipt at most once and a message of the user's own at most
  twice (`ShownOnce`); a message whose sender is being looked up reaches the page
  in the room, also when the lookup fails or the session goes (`EveryMessageShown`);
  `UnusedSessionGoes`, `TokenLapses`.
* `rate_limiter`: `WindowBound`, `DayCountsAnsweredQuestions`, `AsIfNothingForgotten`
  (the refinement of `SlidingWindow`); `CountedUnderOwnAddress`: whatever headers are sent
  along, behind the proxy a request counts under the address the proxy saw.
* `chat`: every history that is stored or sent is a dialogue, whatever overlaps or
  breaks off (`HistoriesAreDialogues`); the chat that makes room is the one used
  longest ago (`OldestDroppedFirst`); at most `MAX_SESSIONS` (`TypeOK`); when the
  frontend waits for each answer nothing that was told is lost
  (`AnswersKeptWhenWaiting`); chats are forgotten (`EveryChatIsForgotten`).
* `chat_requests`: every event of the API is passed on once and in order, wherever
  chunks are cut; after `[DONE]` nothing is missing, or nothing but the event in which a response
  ended that never said `[DONE]` itself; an error means that the response broke or never
  began (`PipeSpec`, the refinement of `AnswerPipe`); nothing follows the last line
  (`LastWord`); every stream ends (`EveryStreamEnds`). A request for speech is
  always answered, whatever the loser of the race does (`EverySpeechAnswered`).
* `login`: whichever columns overlapping saves write last, a row counts no more failures than
  wrong passwords were given since the address had none, and is blocked only when those have
  reached the limit (`BlockedForCause`); a block ends even if the visitor goes on trying
  (`BlockEnds`); one by one, no more than three wrong passwords in a row
  (`GuessesBoundedOneByOne`) and a block for its whole time (`BlockLastsOneByOne`).
  Signups: an email has one account, of the password that was answered
  (`OneAccountPerEmail`).
* `yahtzee`: `OneSeatEach`, `ClosedLobbyIsHeld`, and `PagesCatchUp`: once a page
  has read what is under way it knows the server's list and state.
* `tables`: `NeverBelowFirst` in every interleaving; one by one
  `BestScoreKeptOneByOne`; `RanksAreStandard` on every table that arises. A recipe that no
  two requests were about at the same time is what the answered requests made of it,
  whatever other requests did and failed (`ChangedAsAsked`). Pages show what is stored
  once no save is under way, provided that no request overlapped a save since the
  process started (`PagesShowStored`).
* `trivia_rounds`: `AnswersFollowRequest` compares the loops with a declarative
  answer for every list of up to five parts; `RoundSizeFits`; `SwitchKeepsRound`.

### Bounds and why they are enough

* Two overlapping requests, logins or streams are what a lost update needs; a third
  actor is there when it changes the outcome (three calls of `saveNewHighscore` so
  that two rows of a name exist while a third call picks one; four questions, so that
  three chats exist and one is used again before room is needed).
* Two ids and two clients are the least with which an update, a hash or a token can
  go to the wrong one. Three callbacks: two in use and one fresh. Three row ids: one for each
  login and one more.
* Updates of Telegram do not wait for each other and share no state, so one update
  meets every interleaving with the registry that several would. Two callbacks are
  needed for the handlers of a session before and after a new login; two pages, so that
  one may come or go while the other watches.
* Two recipes with two fields: one field that an update names and one that it does not,
  and a second recipe that must not be touched. Two updates of the settings overlap or
  follow each other; a third would repeat one of these. Three signups, so that two
  overlap on one email beside one on another.
* Lists of three header entries: one sent along, one blank and one more before the
  proxy's.
* Limits are as small as they can be while below, at and above the limit are
  different: `MaxInactivity` 1 or 2 ticks, `TTL` 1, `Block` 2, `MaxFailures` as in the
  code (3). `MaxAttempts` bounds the counter of a row one above the limit.
* `Horizon` 8 is longer than both windows of the limiter together. `MaxInbox` bounds
  the messages under way; an emit that would exceed it is not taken.
* Ages stop one past their limit, since nothing distinguishes later ones.
* Symmetry is declared only in runs without liveness, and only for values no definition
  tells apart. `MCChatSessions` uses numbers for questions and chats in their order
  instead, because its run includes a liveness property.

Where the bound itself ends the behaviours (`Horizon`, all questions asked, the stream
or the speech has ended) deadlock is not checked, and the configuration says so. It is checked
everywhere else.

### Fairness

Fairness is assumed only for what the process does by itself:

* Telegram: the clock and the two `setInterval` timers (`Tick`,
  `CleanupInactiveSessions`, `KeepAlive`), and that GramJS answers or rejects
  `getSender` (`SenderKnown`). No fairness of requests, of their answers or of pages.
  `UnusedSessionGoes` adds its own premise: from some time on no page is open and no
  request uses the session.
* Chat: the clock and the clean-up interval. Streams may stay open for ever.
* Answer stream: the event loop handles what has arrived (`Read`, `EndOfBody`,
  `BodyFails`, `Aborted`). That the API goes on sending is not assumed: the property
  starts when it has ended or the page has closed.
* Speech: the timer fires if nobody clears it (`TimerFires`). Nothing of Edge.
* Login: the clock, and that each database call is answered or fails (`Answered`
  includes `DatabaseFails`).

## 4. Proofs

All theorems hold for every value of the constants under the named assumptions of
the modules (durations and limits are natural numbers, positive where the code's
are; `None` differs from every value; the sets of calls and of chats are finite where
something is counted; a line break is no piece of an event's line; a blank header entry is no address;
the limits of the quiz are natural numbers, the least one first, its questions are finitely many,
and NaN is no integer).
TLC evaluates these assumptions in every run. `MCSpec` is the specification of the
module that composes the components, in which the variable `about`, `calm` or `waits`
chooses the condition of a behaviour.

| theorem | says | argument |
|---|---|---|
| `TelegramSessions_proofs!TypeCorrect` | `TypeOK` | inductive by itself, one step per action |
| `...!Safety` | `SubscriptionsSound` and `KeepAliveMatchesRooms` | inductive invariant `Inv`, below |
| `...!WatchedKept` | `WatchedSessionKept` | `WatchInv`: an occupied room has a timer, and the timer keeps its session at age 0 or 1, which the clean-up spares because the limit is at least 1 |
| `...!ImplementsGrants` | the registry implements `SessionGrants` | initial states and every step map to the abstract specification; needs only `TypeOK` |
| `...!NoTokenOutlivesSession` | `TokensHaveSession` | the abstract invariant, carried over by the refinement |
| `...!ClientsKeptApart` | `ClientsKeptApartWhenCalm` | `CalmInv`, below |
| `...!NoOtherStray` | `StrayConnectionsExplained` | one step per action: only `ClientConnected`, `ClientReconnected` and `LoggedOut` can leave a connection without a session; under `calm` `RequestsMatch` excludes a request that means another client |
| `...!UpdatesLeaveRegistryAlone` | `Spec`: the registry with updates around it implements the registry | every step of `TelegramUpdates` is one of `TelegramSessions` or a stutter, so `Inv` holds there too |
| `...!UpdatesShownOnce` | `ShownOnce`, for any number of updates and pages | `SentInv`, below |
| `...!MessagesAreShown` | `EveryMessageShown`, if the callbacks of each update are treated fairly | a wait ends only with the message, or with the page or the process (`AwaitedStays`), and the one callback that can be waiting shows it (`SenderShows`) |
| `MemoryRateLimiter_proofs!LimitsHold` | `WindowBound` | see below |
| `...!ImplementsWindow` | `AsIfNothingForgotten`: the limiter implements `SlidingWindow` | the hits that count now are the admitted calls that count now, so both decide alike |
| `...!DayBudget` | `DayCountsAnsweredQuestions` | inductive with the types |
| `...!OwnAddress` | `CountedUnderOwnAddress`, for any number of entries | the entry that the proxy appends is the greatest index that is not blank |
| `ChatSessions_proofs!TypeCorrect` | types and at most `MAX_SESSIONS` chats | see below |
| `...!DropsTheOldest` | `OldestDroppedFirst` | see below |
| `...!AlwaysDialogues` | `HistoriesAreDialogues` | see below |
| `...!WaitingKeepsAnswers` | `AnswersKeptWhenWaiting` | `ReadsTheChat`, below |
| `MCChatRequests_proofs!EventsPassThrough` | `PassedThrough`, for any events and any chunks | `Unread`, below |
| `...!EndsWithLastWord` | `LastWord` | inductive with `PassedThrough` and `Unread`: `[DONE]` and errors are only written in the step that ends the stream |
| `...!ImplementsPipe` | `PipeSpec`: every stream implements `AnswerPipe` | each action maps to a step of the pipe or a stutter, below |
| `...!SpeechIsAnswered` | `EverySpeechAnswered`, if the timer is treated fairly | a timer stays set until the page is answered, and firing answers it |
| `MCFailedLogins_proofs!BlocksAreCaused` | `BlockedForCause` and the types | `Counted`, below |
| `...!GuessesAreBounded` | `GuessesBoundedOneByOne` | `StreakInv`, below |
| `...!BlockLastsItsTime` | `BlockLastsOneByOne` | whoever may write has learnt that no block is in force, and with one login at a time that is still so (`Current`) |
| `...!OneAccount` | `OneAccountPerEmail` | the types and the property are inductive: an insert needs a free email, and nothing changes a row |
| `MCTables_proofs!NothingElseChanges` | `ChangedAsAsked`, for any number of requests, recipes, fields and values | see below |
| `...!NeverBelow` | `NeverBelowFirst` | an update that waits for its query carries at least the score its row began with (`UpdatesImprove`), and nothing changes `first` |
| `...!BestScoreIsKept` | `BestScoreKeptOneByOne` | what a save has learnt of the table is still true when it acts on it (`UpToDate`) |
| `...!StandardRanks` | `RanksAreStandard`, for any table | see below |
| `...!PagesAgree` | `PagesShowStored`, for any number of pages and updates | `SettingsCurrent`, below |
| `TriviaRounds_proofs!RoundType` | `TypeOK` | part of `RoundInv` |
| `...!EveryRequestAnswered` | `AnswersFollowRequest`, for any questions, limits and requests | `NormalizeLemma` and `FindLemma`, below |
| `...!EveryRoundFits` | `RoundSizeFits` | how many questions there are to choose from and what the query takes of them (`CountLemma`, `NewRoundLemma`) |
| `...!SwitchKeepsEveryRound` | `SwitchKeepsRound` | the numbers of a round differ and are at most the limit (`RoundInv`), so normalising them changes nothing |
| `YahtzeeLobby_proofs!SeatsHeld`, `!LobbyIsHeld` | `OneSeatEach`, `ClosedLobbyIsHeld` | inductive together with the types |
| `...!TypeCorrect` | `TypeOK` | lemmas about sequences of messages |
| `...!PagesKnow` | `PagesCatchUp` | `WillKnow` is preserved by appending a new message and by reading the first one; one lemma each |

Why a strengthening is needed, and which:

* **Telegram.** `OneSubscription`, one part of `SubscriptionsSound`, is not inductive: a step adds a handler to the
  client of a session and removes the one the *map* remembers, so the proof must know
  that the map remembers the only handler that client has. `HandlersInv` says so:
  a remembered callback belongs to a live session and to its own room, and the
  handlers of a live session's client are among the remembered one. That is only
  true if no two sessions share a client and a client being connected belongs to
  nobody, which is `ClientsInv`. `Inv` is the types, `ClientsInv`, `HandlersInv` and
  `WatchInv`, each proved by one step per action, with frame lemmas for the many
  actions that leave the handlers alone.
* **Telegram, one request at a time.** The request that waits is the only one, and
  what it captured is what the registry has (`RequestsMatch`): an id for which it is
  connecting a client has no session, and otherwise the session of its id, if there still
  is one, has the client it took along. With that, every hash a session stores is of its own client
  (`OwnPhoneCode`). `CalmInv` is these and the two parts of the property.
* **Updates.** That no page sees an update twice rests on `OneSubscription` from the
  registry's `Inv`: a client that holds at most one callback puts at most one into
  `todo`. `SentInv` adds that while that callback is awaiting the sender nobody has been shown
  the message; it has to say nothing of sessions or rooms,
  which is why logouts and logins meanwhile cannot spoil it.
* **Rate limiter.** `WindowBound` speaks about calls the array has forgotten. The
  invariant says that `hits` still has every admitted call that is younger than the
  window, and that nobody's time lies ahead of the clock. A window that ends now then has at
  most the limit because `consume` counted it, and one that ended before does not
  change any more.
* **Chat.** Eviction drops the lowest `place`, the property speaks of the oldest
  `idle`. The invariant is that the two orders agree and that places are distinct and
  at most `inserted`. For the dialogues: a question that was not asked or has not ended
  is in no history yet (`NotToldYet`), so the end of its stream appends a turn that
  nobody has told, to a history that is a dialogue, whatever other streams stored
  meanwhile; a summary of the first messages keeps a dialogue one (`ShortenedDialogue`).
  With questions that wait, a stream that is open has read every message its chat has
  (`ReadsTheChat`), so that storing its history at the end erases nothing; a chat that
  is reset or dropped meanwhile has nothing to erase.
* **Answer streams.** `Unread` says that what lies in the parser's buffer and on the wire,
  in that order, is exactly the events that were sent and are not yet on the page, each as
  its two pieces and two line breaks (`Holds`), wherever the buffer ends and the wire begins.
  Reading moves that place and splitting takes whole events off the front, so the
  page, past its heartbeats, is always a prefix of what was sent. A response that is cut
  off may end with a part of an event without its line breaks, which is never passed on.
  The lines with events are numbered without a gap (`Numbered`), so with `PassedThrough` the
  abstract `Shown` is a prefix of `sent` (`ShownIsBeginning`). An event is cut off only when the
  response ends, at most one (`CutInv`). What an action appends to the
  page then decides its abstract step: a chunk shows the events it completes (`ChunkPipes`),
  `[DONE]` is written when nothing is missing but an event that was cut off (`PipeShows`), and a
  heartbeat is a stutter.
* **Quiz.** The loops of the service are recursive functions of the position. A function with that
  equation exists (`Recursion`), and what it yields is found without induction: if a
  claim failed anywhere there would be a least position where it does, and the step before
  refutes it (`LeastNumber`). For `normalizeNumbers` the claim is that what has been collected
  are the different valid numbers seen, in the order of their first occurrence
  (`InOrder`), as many as were seen or the limit. `FilterLemma` says the like of a filter,
  `FindLemma` of the look-up of the numbers in the table. `RoundInv` then carries to a later switch of the
  language that a round on a page has different numbers and no more of them than the limit.
* **Logins.** What a login has read and will save later must have as good a cause as a row of
  the table, and a login that is about to count its failure will add one more. `Counted` says
  both: the failures in a row or in an entity, together with the logins that wait for their
  query (`Finders`), never exceed the wrong passwords given, and a block in either means that
  those have reached the limit. A save mixes the columns of two of these, which keeps that. One
  login at a time: the row counts at least the streak of wrong passwords, without a row the streak
  is 0 or the pause has been made, and what is left of a block and the time since the
  last wrong password add up to the whole block (`StreakInv`). So by the time a row is
  deleted the guesser has paused for as long as a block lasts.
* **Recipes.** The property speaks of the table, but a request that will save carries a
  whole entity it read earlier. The invariant adds that, unless the recipe was
  overlapped, the entity is what is stored with the request's fields changed, and the columns to
  update are those in which the two differ (`SavesFresh`), that two
  requests about one recipe are known as an overlap (`OverlapsKnown`), and that an id not
  given out yet has no row and is in no save.
* **Ranks.** `Place` counts the rows that come before a row, so it is strictly monotone in
  the order of sorting, hence one-to-one on as many places as rows, hence a permutation
  (`PlaceLemma`, `SortedLemma`). The loop of `sortHighScore` is a recursive function:
  one more than the number of higher scores satisfies its equation, and two functions that do
  cannot differ first anywhere (`RanksLemma`), so no induction is needed. A
  permutation keeps every count (`SameCount`).
* **Settings.** Unless requests overlapped, a save that is under way is the only one, no page
  is being answered, and the row, the broadcast and the save agree up to the query the
  save waits for (`SettingsCurrent`).

**Liveness.** The provers do not know `ENABLED`, so `WF` cannot be used in a proof. Two theorems
therefore assume the fairness of the run with the guard of the action in the place of
`ENABLED`: `[]<>~Guard \/ []<><<A>>_v` (`TimerIsFair`, `LookupIsFair`). In both the guard
is all that the action needs in order to be taken, so that this is the `WF` of the runs. From that the usual argument is proved:
the wait lasts until it is over, and the fair action ends it.

Out of the prover's reach, and left to TLC: liveness that needs as many steps as a limit or
a length says (`UnusedSessionGoes`, `TokenLapses`, `EveryChatIsForgotten`, `BlockEnds`,
`EveryStreamEnds`). They need induction over temporal formulas, which no installed prover can do.
Every other property of a passing run is a theorem. Proved modules use no `RECURSIVE` operator.

The type invariants of `FailedLogins`, `YahtzeeLobby`, `HighScores`, `Signups`, `Recipes`,
`DifficultySettings`, `ChatStream` and `MemoryRateLimiter` are part of the proved
inductive invariants and no run spends a property on them.

## 5. Not modelled, and why

* Of Telegram: the conversion of chats, messages and media to JSON, what the handlers
  return, and a download that goes on after its page has closed: none of them touches
  the registry.
* The Google login (one query, then the same tokens), the tokens themselves, the internal
  API key (one comparison of a header) and the calls of ElevenLabs: no state.
* `math4lisa` tasks: one insert, and one query for the list. `findAll` of recipes: one query.
* Speech: what `speakable` and `escapeXml` do to the text; only whether anything is left.
* JWT guard and strategies: stateless library calls. `findAll` of the trivia
  service: one sorted query. `transcribe`: forwards one request.
* Files, guestbook, geolocation, imagegen, availability, stripe, mail, jokes and
  health: one request to another service or one write, without state between requests.
* Bootstrap, scripts, deployment and tests: not part of the running program.

Outside the models altogether: the process is killed without `onModuleDestroy`
(everything in memory is gone and `Init` is the state after a restart), the memory
that the limiter's map takes as visitors come (its keys are never dropped), and the
time zone or precision of dates.

## 6. Where the code differs from what it says

Three runs are expected to end with a counterexample. Each checks one sentence of a
comment without the condition that section 3 adds.

* `telegram_relogin`: after a logout (or the clean-up) and a new login under the
  same id while a socket stays open, `registeredSessions` still has the id. The new
  client gets no handlers, neither by the login nor by a further page, until every
  socket of the room has gone (`telegram.gateway.ts:57`: "Register Telegram event
  handlers for this session if not already done").
* `chat_lost_answer`: two overlapping questions of one chat. The stream that ends last
  stores the history it read at its start and its own answer, without the other's
  (`chat.service.ts:51-52`: "The complete answer is stored in the history ...").
* `login_lost_block`: a login read the row before the third failure was saved, and its `save`
  selects the row afterwards: its copy differs in the count and in the block, so it writes
  the older count and no block (`users.service.ts:44`: "Block for 5 minutes").

Behaviour of the models worth knowing that no run is spent on:

* Two overlapping send-code requests of a new id each connect a client; the map
  keeps the second, and the first stays connected, also after `onModuleDestroy`,
  whose comment (`telegram.service.ts:77`) speaks of all clients.
* While a send-code connects the client of its session again, the clean-up or a logout may drop
  that session. The client comes up when the connection is there, nobody has it, and
  neither the clean-up nor `onModuleDestroy` will close it (`telegram.service.ts:103-113`). For
  the clean-up one request is enough.
* A logout overlapping a send-code of the same id disconnects the client it captured
  and drops the entry that the send-code has stored meanwhile, whose client stays
  connected (`telegram.service.ts:288-298`).
* `isBlocked` filters by address only, while the comment at `auth.service.ts:41`
  speaks of "IP & email combination": failures with one email refuse logins with
  another from the same address. That is why `FailedLogins` has no emails.
* Two overlapping logins can mix columns: a login that selected the row before the block was
  saved updates only the count, and leaves a block on a row that counts two failures
  (`users.service.ts:47`).
* A login counts its failures under the first entry of `X-Forwarded-For`
  (`auth.controller.ts:46-49`), which the visitor sends; `memory-rate-limiter.ts:25-26` says why
  the limiter takes the last one. What is shown of `login` is per address in that sense.
* A response of the API that ends without `[DONE]` is reported as `[DONE]`
  (`chat.controller.ts:67-70`), and an event it was cut off in is dropped: the page cannot tell
  it from a complete answer, although the comment at `chat.controller.ts:43-47` lets an answer
  end with "data: [DONE]" and an error with an event "error".
* A reset while a stream is open: the stream stores the old history again.
* A message of the user's own is sent to every page twice, once with the looked-up name and
  once as "Du" (`telegram.gateway.ts:95-160`), although `telegram.service.ts:659` calls the
  first handler one for incoming messages ("eingehende Nachrichten"): `NewMessage({})`
  filters nothing. `ShownOnce` states the two.
* A read receipt is emitted at once and a message after its sender is known: a
  receipt can overtake the message before it, and messages one another. A callback
  that still waits emits to its room after a logout and a new login under the
  same id, to whoever is in the room then.
* An update of a recipe saves what it found, in the columns in which that differs from the row
  as `save` selects it: fields that another request changed meanwhile are written back, and a recipe that was removed meanwhile is inserted again
  (`recipes.service.ts:64-65`).
* Two updates of the settings may be saved in the other order than they were broadcast,
  and a page that asks while one is being saved may be shown the old settings until the next
  update. A save that fails ends the process (`difficulty-settings.gateway.ts:22-23`).

## 7. Plan

Done: the Telegram registry and its callbacks, the rate limiter and the sliding window it
implements, the chat with its streams and speech, logins and signups, the lobby, high
scores, recipes, settings, the quiz.

What would add most next:

1. An abstract register for `YahtzeeLobby`: each page reads values the server had, in order;
   the refinement needs a history of those values and can be proved from the lemmas about
   inboxes that are there.
2. One step of `EveryStreamEnds`, that a response which has ended is read on until nothing is
   left, as a theorem for each length; only the induction over the length would remain.

New modules join existing runs or replace weaker properties rather than adding to
the number of runs; `telegram` is near the time it should take.
