# Formal models of haiji

haiji is a kana trainer: a Go backend (`backend/`) with accounts, sessions and a
websocket "battle" mode, and a React frontend (`frontend/src/`). This directory
holds TLA+ models of it, TLC configurations that check them, and TLAPS proofs.
All paths below are relative to the repository's root.

## 1. Inventory

| Component | State it keeps | Operations | Talks to |
|---|---|---|---|
| Battle hub (`backend/internal/game/hub.go`) | connected clients; map code -> room, under a mutex | register, unregister, CREATE_ROOM, JOIN_ROOM, HTTP create, closeRoom | rooms by blocking channel sends; connections by closing their queue |
| Battle room (`game/room.go`) | game state, clients, players and scores, host, 30 s grace timer, end-of-game goroutine | register, unregister, START_GAME, SUBMIT_SCORE, end of game, shutdown, three broadcasts | connections' queues, `client.Room`, hub's map |
| Battle connection (`game/client.go`) | queue of 256 messages, socket, current room, two goroutines | read, write, ping, fail | hub, room |
| Rate limiter (`middleware/ratelimit.go`) | token bucket per address | allow, refill, evict | every limited route |
| Sessions and accounts (`service/auth.go`, `sessions/`, `auth/`, `handlers/auth.go`, `handlers/user.go`, `database/`) | users, refresh tokens | register, login, update, refresh, revoke | database; browser through a cookie and a one-hour access token |
| Browser session (`context/UserContext.js`, `utils/http.js`) | user, access token, stored user, pending requests | load, login, logout, silent refresh, retry | the session endpoints |
| Battle page (`pages/KanaBattlePage.js`, `KanaBattleLandingPage.js`) | socket, players, game state, own score, ranking | join, reduce a message, start, submit | the websocket |
| Practice page, kana pool (`pages/KanaPracticePage.js`, `utils/kanaData.js`, `utils/mathUtils.js`) | chosen groups, current index | toggle, answer | none |
| Forms and validation (`utils/validation.js`, login, register and profile pages) | form fields and errors | check, submit | session endpoints |
| Start, routes, schema, generated queries, styling, build | none, or declarative | | |

Which behaviours are hard, and what makes each part correct:

* **Hub, rooms, connections.** Four kinds of goroutine share `client.Send`,
  `client.Room`, `room.State` and the room map, over unbuffered channels. Correct
  means: the single hub goroutine never waits for a room that cannot answer; a
  room ends only when nobody is in it; a game only goes forward; every queue shows
  the room's changes in order; the lobby lists who is there; joins are answered
  and broken connections are released.
* **Rate limiter.** Concurrent requests stamp the time outside the lock. Correct
  means: no address is admitted more often than its bucket allows, and forgetting
  an idle bucket changes nothing.
* **Sessions.** Several database statements without a transaction, next to other
  requests of the same user. Correct means: a password change ends the sessions that lived when it was stored; a logout
  ends its session.
* **Browser session.** Every `await` is a point where another request, a logout or
  a page change can run. Correct means: a user who logged out stays logged out;
  a request is retried at most once.
* **Battle page.** Frames may hold several messages, and a new token reopens the
  socket. Correct means: the page shows what the room said last.

PROJECT.json lists each hazard at its line, with the properties that cover it.

## 2. Plan

1. `GameState`, `Room`, `Client`, `Hub`, `HubProperties`, `MCHub` (hub, rooms and
   connections), `Match` (what a room promises), `HubProofs`, `MatchProofs`. **Done.**
2. `RateLimiter` against an abstract `Bucket` that never forgets, `RateHistory` for
   the bounds of one interval, `RateProofs`. **Done.**
3. `Sessions` (the server's side of accounts and sessions), `Browser` (the tab:
   UserContext, httpRequest, the pages with forms), `AccountProperties`,
   `MCAccounts`, `AccountProofs`. **Done.**
4. `KanaData`, `Practice`, `Landing`, `BattleRooms`, `BattlePage`, `KanaPages`,
   `KanaProperties`, `MCKana` (the kana pages and the server they meet). **Done.**
5. Further proofs: `LobbyProofs` and `QueueProofs` (the battle server), the counts of
   `RateProofs`, `FormProofs` (the tab), `KanaProofs` (the kana pages). **Done:** every
   safety property and action property that a passing run checks is proved.
6. Open: `LobbyIsExact` for a user whose earlier connection has been released, and
   `QuietPageIsCurrent` for pages that are `muddled` and have caught up since.

The kana pages and the accounts are two models. What they share is the user of the
tab, of whom the kana pages need only that somebody is signed in and that his
token changes; `KanaPages` has both as free steps (`SignedIn`, `SignedOut`,
`TokenRefreshed`). The kana pages and the battle server share the rooms, and both
implement `Match`.

## 3. The battle server

### Modules

Each extends the one before it and shares its variables.

* `GameState` declares the state, the messages, and `Broadcast`, the
  `broadcastToClients` of `room.go`: a queue that is full is closed and its client
  dropped from the room; a queue that is closed panics.
* `Room` has the steps of `Room.Run`. Go's channels are unbuffered here, so an
  event is received only at the `select`. Receiving (`TakeRegister`,
  `TakeUnregister`, `TakeAction`, `FinishSignal`, `ShutdownFires`) and handling
  (`HandleRegister`, ...) are two steps. Between them the sender goes on while the
  loop is busy, which is where `client.Room` is read too early and the
  end-of-game signal is lost.
* `Client` has `readPump` and `writePump`. What `Hub.handleMessage` does runs in
  `readPump`, so `ReadJoin` (lookup and `State` check) and the hand-off to the
  room are separate steps of the connection, as is the blocking `c.Send <- ERROR`.
* `Hub` has `Hub.Run`, the HTTP request that creates a room, and `Next`.
* `HubProperties` has the fairness and every property; `MCHub` the constants.
* `Match` is the abstract room: phases, members, scores, host. `M(r)` in
  `HubProperties` maps room `r` to it; `RoomsKeepMatch` says that `r` starts and
  steps as `Match` does. A room that ended maps to phase "gone".

| Variable | Code |
|---|---|
| `loop[r]` | where `Room.Run` is, with the client or closure it received |
| `state`, `clients`, `players`, `host` | the `Room` fields `State`, `Clients`, `Players`, `HostID` |
| `timer[r]` | `shutdownTimer` is armed; from Go 1.23 on a stopped timer leaves nothing in its channel |
| `ending[r]` | the goroutine of `startGame` that sleeps and calls `finishGame` |
| `pump[c]` | where `readPump` is, and the room and request it is handing over |
| `roomOf`, `buf`, `closed` | `Client.Room`, the contents of `Client.Send`, whether it is closed |
| `writer`, `conn` | `writePump`, the websocket |
| `hub`, `hubClients`, `rooms` | where `Hub.Run` is, `Hub.clients`, `Hub.rooms` |
| `panic` | the operation on a closed channel that ended the process |
| `joins` | counter for the bound `MaxJoins`, not in the code |

### What is abstracted

* A room code is a constant `CodeOf[r]`, chosen before the room exists, so that
  runs and proofs can choose distinct or equal codes.
* A broadcast is one step. The code sends to one client after another, but what
  other goroutines do between two sends concerns one queue at a time and can be
  moved before or after the broadcast. After a panic nothing more happens.
* The unsynchronised accesses to `Room.State` and `Client.Room` are reads of the old or the
  new value at the step that reads. The three states have different letters or
  lengths, so a torn string never equals `WAITING` unless one of the two values does.
* `Duration` and the 30 s, 100 ms and ping timeouts are nondeterministic. Payload
  text, names, kana groups and `EndTime` are left out. Malformed JSON and unknown
  message types change nothing and are left out.
* A message carries the state the page shows after it; only ROOM_STATE names it
  in the code, the other types imply it (`KanaBattlePage.js:85-124`).
* A write error of `writePump` appears as a connection that is down.
* Not modelled, because nothing outside tests sends to them: `Hub.broadcast`,
  `Room.Broadcast`, `stopGame`, `GetValues`. Rooms are in memory only: a restarted
  process starts again in `Init`, so there is no recovery to model.

### Runs

`CHECK_DEADLOCK FALSE` everywhere: when every connection is gone or the process
has panicked the system really stops.

| Run | Instance | Checks |
|---|---|---|
| `one_room` | 2 connections of 2 users, 1 room, queue of 1, scores {1,2} of which 2 is refused | `TypeOK`, `ClosedOnlyInHandOff`, `LobbyIsExact`, `RoomDiesEmpty`, `RoomsKeepMatch`, `PanicIsExplained` |
| `two_rooms` | 1 connection, 2 rooms of one code, 2 joins, queue of 2 | `HubNeverWedged`, `QueueIsCurrent`, `GameOverIsLast`, `CodesLeadToRooms` |
| `progress` | 1 connection, 2 rooms of one code, 2 joins, queue of 2, fair | `JoinIsAnswered`, `EmptyRoomGoesAway`, `BrokenIsReleased` |
| `late_entry` | 2 connections, 1 room | violates `NoLateEntry` |
| `lost_end` | 1 connection, 1 room, fair | violates `GameEnds` |
| `lobby_leave` | 2 connections, 1 room, fair | violates `LeaverIsUnlisted` |

Why these bounds suffice: the races are between two connections of a room, a
connection and its hub, or a room and its timer, so two connections and one room
show them all; a second room matters only to a connection that changes rooms. A
queue of 1 or 2 (256 in the code) fills after a few broadcasts, so a slow
connection is dropped early. One accepted and one refused score tell apart what the guards do.
`MaxJoins` bounds the joins of a connection (the page sends one); other messages
are unbounded. `Submitted` is empty where scores play no part.

Some properties speak only of the connections and rooms they hold of, and assume
nothing of the others. `ClosedOnlyInHandOff` and `PanicIsExplained` are about
connections that have asked to join once, as the page does. In `LobbyIsExact` a member
is sure to be listed when its user has no other connection: the list is keyed by user,
and the first of two connections of one user that leaves the lobby takes the entry of both
(`room.go:115`). No run has two connections of one user; that the rest of the property
holds with them is proved (`LobbyListsWhoIsThere`). In `CodesLeadToRooms` a room is sure to be found under its code until another
room draws it. `two_rooms` has two rooms of the same six digits, since the server
does not look whether a code is in use: while both run, the map leads to the younger,
and the end of either removes it.

The same instance is fair in `progress`. There a `readPump` may come to wait for ever
(`Stranded`): for a room that ended before it received the connection
(`hub.go:148`), or for a place in its own queue when `writePump` has returned (`hub.go:138`,
`143`, `client.go:77-91`). The code has no way out of either, so `BrokenIsReleased`
promises the release of every broken connection that is not stranded, and
`EmptyRoomGoesAway` excepts a room that dropped such a connection as its last.

### Fairness

`FairSpec` lets goroutines that can run do so (weak fairness of the hub, of
every pump, of every room's own steps, of the sleeping goroutine). Hand-offs to a
room are strongly fair: a blocked sender waits in the channel's first-in first-out
queue and `select` picks at random among ready cases. Connections need not send,
answer or leave. The grace timer fires once it stays armed; it is stopped by a
register only.

### What the code gets wrong

Three statements in the repository about this part do not hold (findings in PROJECT.json).

* `late_entry`: "Game already in progress" (`hub.go:143`) is decided before
  the hand-off; a game that starts in between gets the player all the same.
* `lost_end`: `finishGame` (`room.go:210-216`) offers the end of the game
  once, without blocking. A loop busy with any event misses it; the game never ends.
* `lobby_leave`: the hub closes `client.Send` (`hub.go:50`) before the room
  knows. A broadcast in between sends on a closed channel and the process panics.

`PanicIsExplained` lists every way to panic. Beside the one of `lobby_leave` a slow
connection is one: the room closes its full queue (`room.go:299`), the connection
fails, and the hub closes the queue again. So is a connection that breaks between its
join and the room's register handler: the hub does not see a room to tell (`hub.go:51`).
`EmptyRoomGoesAway` depends on it: a room whose last client is dropped this way
never arms its timer, and ends only with the process.

## 4. The rate limiter

* `Bucket` is what an address is promised: a level that rises with the time up to
  the capacity and falls by one request at each admission. A request decided later
  than it came in may gain or lose the refill of that lag (`Settle`), nothing else.
* `RateLimiter` is `ratelimit.go`: `Arrive` is `now := time.Now()` before the lock,
  `Allow` the rest of `allow`, `Cleanup` one round of `startCleanup`. A level of
  `Bucket` is what a request would find now (`Found(k, clock)`).
* `RateHistory` adds records of admissions for the properties that count them: by
  the time of the decision (`granted`), and by the time the request had read
  (`asOf`), for the keys that never served a request later than its bucket knew
  (`overtaken`).

| Variable | Code |
|---|---|
| `clock` | `time.Now()`, in ticks |
| `buckets[k]` | the entry of `RateLimiter.buckets`; tokens in `Interval`-ths of a token |
| `req[q]` | the key and `now` of a call of `allow` that waits for the lock |

The refill of a span is then an integer, as the product `elapsed * refillRate` is
exact. The rounding of `float64` is left out, and so is where `clientIP` takes the
address from. `Cleanup` may run at any time, more often than the code's once a minute.

| Run | Instance | Checks |
|---|---|---|
| `rate_race` | 1 address, 2 requests, 2 per 2 ticks | `LimTypeOK`, `KeepsBucket`, `RefusalIsEarned`, `BurstIsBounded` |

`MaxClock` is the only bound. With 6 ticks a bucket outlives its ttl of 4 and is
evicted, and two requests can be decided out of order by as much as an interval.
Addresses never touch each other's bucket (proved with `KeepsBucket`), so one is
enough. The clock stops at `MaxClock`, so deadlock is not checked.

`RefusalIsEarned` says that nobody who keeps below the limit is refused, in whatever
order requests get the lock. `BurstIsBounded` is the other side. `ratelimit.go:26`
speaks of a maximum for "the given interval"; a full bucket and its refill
together admit more than that, but always less than twice the limit. It speaks of
keys that were never `overtaken`: a request that took its time before another and the
lock after it moves `lastRefill` back, and the span between them is refilled twice.

## 5. Accounts and sessions

### Modules

* `Sessions` is the server for one account: `service/auth.go` with its handlers,
  `sessions.go` and the access-token middleware. Every statement of a request is a
  step of its own (`UpdateCheck`, `UpdateWrite`, `UpdateRevoke`, `UpdateIssue`),
  except for `Register`, which runs in a transaction. `Fail` ends a request at
  any statement: a database error, a refusal by a limit, a server that stops,
  an answer that is lost.
* `Browser` is a tab of the owner. A call of `httpRequest` is one slot of
  `calls` that goes through its first request, the silent refresh and the retry
  or the logout (`stage`). What a handler does after an `await`, the render and the
  effects that follow it are one step (`Open`): the guards redirect, the created
  page signs the new user in, the profile page loads again when the user object
  has changed. `OtherDevice` updates the same account from elsewhere.
* `AccountProperties` has the properties, `MCAccounts` the symmetry.

| Variable | Code |
|---|---|
| `account` | the row of `users`, as a version: an update always replaces password and profile together; 0 before the registration |
| `sessions[t]` | the row of `refresh_tokens`: none, live, or (history) "old", which lives and was there when an update stored its password that has yet to revoke |
| `cookie` | the refresh token in the cookie jar of the tab |
| `calls[c]` | a request: the call of the page it belongs to (`op`, `stage`), whether that page is still the one open (`here`), where the server has got to (`at`), its answer |
| `user`, `loadingUser` | the state of `UserContext`; "good" and "old" are access tokens before and after they expire |
| `page`, `payload` | the route, `location.state` of the created page |
| `form` | `useAuthForm` and the state of the profile page; login and register use `submitting` only |
| `signedOut` | history: the user logged out and has not asked to sign in since |

`RevokeToken` has both branches of the handler: with a cookie it ends the session and clears
the cookie, without one it only clears it. The cookie is set with the path of the refresh
endpoint (`BringsCookie`, `cookies.go:13`), so from a browser only the second is reached;
`logout_session` shows what follows.

### Runs

| Run | Instance | Checks |
|---|---|---|
| `accounts` | 2 requests at a time, 2 tokens, 2 versions | `AccountsTypeOK`, `OldSessionsEnd`, `NoFormWaitsForever`, `EditsAreKept`, `CallsComeToAnEnd` |
| `logout` | 2 requests, 1 token, 1 version | violates `LogoutSticks` |
| `logout_session` | 2 requests, 1 token, 1 version | violates `LogoutEndsSession` |

Why these bounds suffice: the races are between two requests of the account, from one
tab (two loads of the profile, a logout and a refresh) or from two devices (a login and
an update). `Tokens` counts tokens that live or that a cookie or an answer holds; a dead
one is used again, so sessions can follow each other without end. `MaxVersion = 2` is the
registration and one change, except that an update which overlaps another one stores its
password all the same (`Overlaps`): two updates that both passed their check both succeed,
and write, revoke and issue in every order. The request slots are symmetric; only safety
is checked in these runs. The other device updates only: a login of its own would reach
the server by the same statements as the tab's. The user does not go back to the created
page after leaving it. An instance that runs out of slots, tokens or versions stops, so
deadlock is not checked.

`OldSessionsEnd` is about the sessions that live when an update stores its password: they
are marked, and while a mark is left an update must be at work that has yet to revoke. The
revocation takes the mark away when it fails or is cut off, which is the only way such a
session survives (the code ignores the error, `sessions.go:36-38`). A session issued after
the password was stored is not meant: one that a login or an update checked before, but issued
after, lives on, and nothing in the repository promises otherwise. `NoFormWaitsForever` and
`CallsComeToAnEnd` are the safety form of a liveness property: a form waits only
while a call of its page is on its way, and each request a call sends is nearer
to the end of the call. That the call ends then needs only that requests are
answered, which the code leaves to the network.

What the code gets wrong. `logout` shows that a user who logs out on the page that
follows the registration is signed in again. The effect of `UserCreatedPage.js:12-27`
depends on the user, runs when logout clears it, and finds the token of the registration
still in `location.state`. A silent refresh that is in flight during the logout does the
same on any page (`UserContext.js:40`). `logout_session`: the handler, the service and
`TestAuthHandler_RevokeToken` (`auth_test.go:181-213`) revoke the session of the cookie that
comes with the request, but none ever comes. Logging out clears the cookie, and a token that
was copied before goes on working until it expires after 60 days.

## 6. The kana pages

### Modules

Each extends the one before it.

* `KanaData`: the groups of `kanaData.js` in file order with their number of kana, the pool,
  toggling, and the random index. The categories and sections by which the pages lay out their
  buttons are left out.
* `Practice`: the practice page. `pool` and `currentChar` are computed from the state, as
  in the code; the effect on the pool is part of the action that changes it.
* `Landing`: choosing groups, presets, and the requests to create a room.
* `BattleRooms`: the server as a page meets it. The races inside it are the matter of
  section 3, but for one that a page can see: the phase is checked in one step
  (`ServerChecks`) and the room receives the registration in a later one (`ServerRegisters`),
  so a page may enter a game under way. A broadcast with its cause is one step, and what
  lies between page and server is in the open: `inbox` holds what the page sent, `out` what
  was queued for it. A friend plays in the same rooms.
* `BattlePage`: the effect that opens the socket and its clean-up, `handleMessage`, start
  and answers, the ranking. `Deliver(s, n)` is a frame: `writePump` puts all it finds
  queued into one, and a frame of more than one message does not parse.
* `KanaPages`: the routes, a user who signs in and out, answers that arrive on any page.
* `KanaProperties` has fairness and properties, `MCKana` the constants.

| Variable | Code |
|---|---|
| `checkedGroups`, `currentIndex`, `userInput`, `message`, `count`, `incorrectCount`, `showRomanji` | the hooks of `KanaPracticePage.js`; typed text by how it compares with the romaji |
| `selectedGroups`, `calls` | `KanaBattleLandingPage.js`, and its requests on their way |
| `room[r]` | a `Room` of the server, with the groups it was created for |
| `sock[s]` | a WebSocket of the page, with both directions; `joining` is the room its registration waits for, `in` is `Client.Room` of its connection, `mine` that its page is still mounted |
| `code`, `current` | `roomCode` of the address, `socketRef.current` |
| `gameState`, `players`, `hostId`, `definitions`, `index`, `score` | the state of `KanaBattlePage.js` |
| `user`, `route` | somebody is signed in; the page that is open |
| `muddled` | history: a frame did not parse or came from a socket that was replaced, or the page went to another room in the middle of a game |
| `carried` | history: the page has entered a game under way with an index that it drew in an earlier one |
| `strayed` | history: the rooms to which a muddled page has sent an answer |

### Runs

| Run | Instance | Checks |
|---|---|---|
| `kana_pages` | 2 sockets, 2 rooms (one of the friend's), queue of 2, 1 unread request, scores up to 1 | `PagesTypeOK`, `ShownIsChecked`, `ComplaintIsCurrent`, `AnswerMovesOn`, `OffersAreAccepted`, `AnswersHaveAKana`, `QuietPageIsCurrent`, `NoUnearnedScore`, `RankingIsStandard`, `PageRoomsKeepMatch` |
| `final_ranking` | 1 socket, 1 room, fair | violates `FinalRankingAppears` |

Why these bounds suffice: what is hard is a page that goes from one socket or one room to
the next, so it has two of each; the second room has another pool (one kana
instead of five), so that an index can be left beyond it. A queue of 2 makes a
frame of two messages. The user clicks one group of many kana and the group of
one (`Clicked`), so that the pool shrinks, is left with one kana, and would be empty.
An answer moves the index to the first or the last place (`IndexChoice`). One request to
create a room is on its way at a time. Groups are clicked and presets tried on visits of the
landing page before the first battle (`Choosing`): the form of a later visit starts from
the same state, and as rooms are asked for with the vowels only (`Wanted`), what is
clicked reaches none of the sockets and rooms that are left over. In
`RankingIsStandard` two players of any score stand beside the two modelled; `WellRanked`
is the table of the answers, so that TLC ranks each pair of scores once instead of in
every state. `OneFrame`: the start and the end of a game never
share a frame, since a write takes ten seconds at most and a game lasts thirty. The
sockets of a run are used up at some point, so deadlock is not checked.

`AnswersHaveAKana` has one exception besides a muddled page. `GAME_STARTED` resets the index
(`KanaBattlePage.js:110`), but a page that enters late learns of the game by `ROOM_STATE` and
keeps the index it has. On a page that was used for an earlier game and now enters a room
with a smaller pool, that index may lie beyond the pool, and an answer throws
(`KanaBattlePage.js:170-171`). Such pages are `carried`; all others have a kana, late entrants
included.

`NoUnearnedScore` needs `strayed`, which the proof brought to light. A page that plays in
room A and goes to room B still shows A's game, and an answer typed now goes out on B's
socket with A's score. If B starts its game before it reads that answer, a later page in
B is credited with it, although that page itself was never muddled. The shortest such
history needs three sockets and more than twenty steps, which no run of this size
reaches; `strayed` names the rooms it happens to, and for all others the property is proved.

`QuietPageIsCurrent` is stated for a page at rest (`Settled`): nothing is on its way
and no frame was lost. `PageRoomsKeepMatch` maps the rooms as the pages meet them to the
same `Match` that the battle server implements, with a page whose sockets overlap after a
new token or a change of room as one of its clients.

Fairness (`FairSpec`): what is queued for an open socket is delivered. The user and the
friend need not act. `final_ranking` uses it: when the last score and `GAME_OVER` are
queued together they leave in one frame (`client.go:84-87`), the page cannot parse
it (`KanaBattlePage.js:67`), and the ranking that `KanaBattleLandingPage.js:351`
promises never appears.

## 7. Proofs

`HubProofs` and `MatchProofs` prove, for every set of connections, rooms, users
and codes, every assignment of codes (equal ones included), and every bound:

* `TypeCorrect`: `Spec => []TypeOK`. Induction needs `Placed`: whoever hands
  something over, or has received it, names a real connection and room.
* `DeadRoomsAreEmpty`: `Spec => []RoomDiesEmpty`.
* `HubHandsOverToLiveRoom`: `Spec => []HubNeverWedged`. The invariant is
  `IInv = TypeOK /\ Placed /\ RoomDiesEmpty /\ HandOver`. `HandOver` says, while the
  process runs: a connection with an open queue is in the room its `Client.Room`
  names; the connection the hub holds is closed, gone, and still in the room it is
  held for; a leave a room is handling is no longer the hub's. `HubNeverWedged` is not
  inductive alone: the connection stays in the room only because its queue is
  closed, so a broadcast that would drop it panics instead.
* `RoomsImplementMatch`: `Spec => RoomsKeepMatch`, from `IInv` and `Fresh` (an
  uncreated room is in the lobby state), one lemma per kind of step.
* What a room inherits from `Match`: `GamesStartAtNil` (nobody in a lobby has points)
  and `ResultsStand` (once a game is over the score of nobody on its list changes).
  Both follow from the steps of `Match` alone (`MatchScores`); no run checks them
  besides.

The assumptions are the four named ASSUMEs of `GameState`: the "none" values are
outside their sets, `UserOf` and `CodeOf` are functions on their domains, and the
bounds are natural numbers with a queue of at least one message.

`RateProofs` proves, for every set of keys and requests and every argument of
`NewRateLimiter` (zero and negative ones included):

* `RateTypeCorrect`: `LimSpec => []LimTypeOK`.
* `LimiterKeepsBucket`: `LimSpec => KeepsBucket`. `TickPasses`, `CleanupForgetsNothing` and
  `AllowDecides` map each step. The cleanup changes no level because the ttl refills
  a whole capacity (`Arguments`); a decision stays within its lag because between
  two times a bucket gains at most the refill of the span (`RefillGap`).

They rest on `RateAssumption`: integer arguments, a positive minute, and "none"
values outside their sets. `MaxClock` is any natural number.

`AccountProofs` proves, for every set of requests and tokens and every number of
versions:

* `AccountsTypeCorrect`: `Spec => []AccountsTypeOK`.
* `PasswordChangeEndsSessions`: `Spec => []OldSessionsEnd`, for any number of overlapping
  updates.

The invariant is `IInv = AccountsTypeOK /\ AllOrderly(calls) /\ NobodyYet /\ OldSessionsEnd`.
`OldSessionsEnd` speaks of an update between two of its statements, so the tab must not
disturb one: `Sound` says that whatever the tab does to its slots, a request between its
check and its last statement stays as it is. That holds because a slot is given away
only when it is idle or answered (`AllOrderly`) and a reload keeps requests on their way.
`NobodyYet` says that before the registration there are no sessions and no password was
checked. `UpdateWriteKeeps` and `DoneKeeps` are the heart: an update that marks sessions is
itself the one that has yet to revoke, and whoever leaves that point, by revoking, failing
or being cut off, either ends or unmarks them all or leaves another update to do it.
There is one lemma per action. They rest
on `TokenAssumption` (tokens are positive numbers, 0 is "none") and `VersionAssumption` (there
is at least one version).

`LobbyProofs` and `QueueProofs` prove the remaining invariants of the battle server, on
top of `IInv`, for every set of connections, rooms, users and codes and every bound:

* `CodesAreExact`: `Spec => []CodesLeadToRooms`. The server draws six hexadecimal digits
  (`hub.go:92-93`) and does not look whether they are in use, so the proof follows a
  room from its birth to its end or to the birth of another room of its code
  (`CodeTaken`, `CodeReturned`).
* `ClosedQueuesAreHandedOver`: `Spec => []ClosedOnlyInHandOff`. The page sends one
  JOIN_ROOM per socket (`KanaBattlePage.js:58`) and no CREATE_ROOM; the property is
  about connections that have joined once so far, next to any others. The invariant
  `OnceInv` adds `OnePlace` (what such a connection asked for is in `readPump`, at the
  loop of one room, or among the clients of one room) and `MembersKnowTheirRoom`
  (`Client.Room` names the room it is in).
* `CrashesAreExplained`: `Spec => PanicIsExplained`, from `OnceInv` and `IInv`. It names
  all the ways in which the process can die: a broadcast to a connection whose hand-over
  is under way, the admission of a connection that the hub has already released, and
  the second use of a full queue that a room closed. A connection that joined more than
  once may add others, and is named when it does.
* `LobbyListsWhoIsThere`: `Spec => []LobbyIsExact`. The invariant adds `HubKnows`: a
  connection with running pumps is in `Hub.clients` until its queue is closed, and
  only such connections are in a room.
* `QueuesAreCurrent`: `Spec => []QueueIsCurrent`, and `GameOverIsTheEnd`:
  `Spec => []GameOverIsLast`. The first is inductive with `IInv`; the second needs `OverIsFinished` (a room whose GAME_OVER is queued is
  FINISHED for good). `BroadcastQueues` says once what a broadcast does to every queue.

`RateProofs` also proves what `RateHistory` counts:

* `BurstsAreBounded`: `HistSpec => []BurstIsBounded`.
* `RefusalsAreEarned`: `HistSpec => RefusalIsEarned`.

`HistInv` keeps two books per key. `Balanced`: over any span up to what the bucket
knows, `Interval` times the admissions never exceed the capacity, plus what the span
refilled, minus the level now; that gives less than twice the limit. `Earned`: what is missing
from the bucket was admitted since, so an empty bucket means a limit's worth of recent
admissions. The sums are folds over the record; the lemmas about `Total` say how a sum
grows by one admission and how it splits.

`FormProofs` proves, on top of the invariant of `AccountProofs`:

* `FormsAreReleased`: `Spec => []NoFormWaitsForever`.
* `TypingIsKept`: `Spec => EditsAreKept`.
* `RefreshIsTriedOnce`: `Spec => CallsComeToAnEnd`.

One invariant serves all three. `TabInv` says exactly what a form waits for (`Waits`: for
each flag of the form the call that will clear it, as long as the page is open), what the
form keeps (`Kept`), and that while the user is being loaded nothing else is on its
way. There is one lemma per answer of a request and per click, each of which proves the
invariant and the two action properties for that step.

`KanaProofs` proves, for every set of sockets and rooms and every bound:

* of the pool, without any state: `PoolIsExact` (`flatMap` over the chosen groups makes
  as many kana as the groups have, of no other group, none twice);
* of practice and landing: `DisplayIsChecked`, `ComplaintsAreCurrent`, `AnswersMoveOn`,
  `RoomsOnOfferAreAccepted`;
* of the battle page: `PagesAreTyped`, `KanaToAnswer`, `QuietPagesAreCurrent`,
  `ScoresAreEarned`;
* of the ranking: `SortingIsRight` (the sorted scores fall, and are those of the players),
  `RanksAreStandard` (the ranks of a sorted list of any length), and from the two
  `RankingIsRight`: `Spec => []RankingIsStandard`;
* `PageRoomsImplementMatch`: `Spec => PageRoomsKeepMatch`, the second refinement of `Match`.

`QuietPageIsCurrent` says what holds when nothing is on its way, which is far from
inductive. The invariant `KanaInv` says what holds at any time. `SocketInv` and
`CurrentInv` tie sockets, queues and the mounted page together. `FollowInv` is the heart: the
open socket of a page that is not muddled asks to join, waits for the room to receive it, was
refused, or is a member, and then `Follows` holds of its queue: reading the queued messages
in order takes the page from what it shows to what the room is (`PhaseArrives`,
`PlayersArrive`, `FactsArrive`), a start comes at most once and to a lobby only, and scores
come after the start or after the `ROOM_STATE` by which a late entrant learns of the game. One
lemma
(`OneMoreFollows`) covers a message appended with the change of a room, another the
message taken from the front; the empty queue is `QuietPageIsCurrent`. `PendingInv` and
`ScoreInv` follow the scores on their way: outside the `strayed` rooms they are in rooms whose
game has begun, belong to the page's own socket, and are no higher than what the page
counted; while a game may still arrive at the page (`Arrives`), the room has no score of its
user and none is on its way (`Unscored`), so that a late entrant too starts from nothing.
`RoomsKept`, which the refinement adds, says that the friend is only in rooms
that run and that a room not yet created lists nobody.

The library's induction theorems take an operator as a parameter, which the provers
cannot instantiate. Where a proof is by induction over data (the folds of `Total`, the pool
made by `FlattenSeq`, the ranks), the set of numbers without the property is given to
a lemma on the least element of a set of naturals (`LeastNat`, `ByInduction`), which needs no
parameter.

The assumptions are `SocketAssumption`, `QueueAssumption` and `FriendAssumption` of
`BattleRooms` (sockets are positive numbers, bounds are positive, the groups of a friend's
room are groups and pass the server's check, `dto/game.go:3-6`), and those of `Landing`
and `Practice`: "no room" is no room, and what may be clicked, picked or preset exists.

Model-checked only is liveness, which is out of the prover's reach: `JoinIsAnswered`,
`EmptyRoomGoesAway`, `BrokenIsReleased`.

## 8. Not modelled

* Practice page: visits other than the first of a tab (the page starts afresh each time).
* Battle page: the clock it shows, the copy button, the text being typed, layout; on the
  landing page whether the list of groups is open.
* Browser: localStorage, which mirrors the user; a second tab of the same browser, which
  shares only that and the cookie; the second run of effects in development.
* Forms and validation: the checks of field texts and the wording of errors, pure
  functions of the text that change no other state.
* `HandleWS`: the name it looks up. `ValidateToken`, which changes nothing and which no
  page calls. The expiry of a session after 60 days.
* Server start, routes, the reset route for development, the schema and generated
  queries, pages without state, styles and the build. A restart of the server drops all
  rooms, which live in memory, and cuts off requests, which `Fail` covers.

PROJECT.json gives the reason for each component.
