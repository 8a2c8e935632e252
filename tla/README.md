# A TLA+ model of the CTF platform

The repository is a capture-the-flag platform: an Express API over MongoDB and
Redis (`src/api`), a Next.js client (`src/web`) and notes (`src/docs`). This
directory holds specifications of its stateful core, TLC configurations for small
instances, and TLAPS proofs of what must hold for instances of any size.

The repository has no tests of this behaviour (the two files under
`src/api/src/tests` are empty), and hardly any of the API runs in transactions, so
what the models are about is what happens *between two awaits*.

## 1. The system

| Part | State it keeps | Operations | Talks to |
| --- | --- | --- | --- |
| Flag submission (`modules/submissions`) | `submissions`, `challenges.{solveCount, totalAttempts, firstBlood, recentSolves}`, score and solved challenges of users and teams, Redis `rl:flag` counters | `submitFlag`, `deleteSubmission`, read-only queries | leaderboard (`markStale`), story (`notifyChallengeSolved`), sockets, audit |
| Challenges (`modules/challenges`) | the challenge documents | create, edit, visibility, delete, hints, attachments, `purchaseHint` | users (score) |
| Sessions (`modules/refreshToken`, `verifyAuth`) | `refreshtokens`, access-token blacklist in Redis | `issue`, `rotate`, five revocations, authentication | users |
| Accounts (`modules/auth`, `modules/users`, `modules/oauth`) | user documents, reset tokens | register, login, OAuth login, logout, change, forgot, reset, profile | sessions, mail |
| Administration (`modules/admin`) | user documents | ban, unban, delete, roles, score adjustment, recalculation of all scores | sessions, teams, submissions |
| Teams (`modules/teams`) | `teams.{members, owner, invites, joinCode}`, `users.teamId` | create, join, invite, accept, decline, leave, kick, disband, update | users |
| Leaderboards (`modules/leaderboard`) | one board per scope: entries, `isStale`, `isFrozen` | `markStale`, `recompute`, `recomputeStale`, `setFrozen` | users, teams, submissions, events |
| Events (`modules/events`) | status, challenges, counters, freeze | create, register, update, transition, freeze, automatic transitions, delete | leaderboards, sockets |
| Story (`modules/story`) | stories, chapters as node graphs, progress per user | start, advance, choose, `notifyChallengeSolved`, authoring | submissions, users (score) |
| Announcements, notifications | documents with published, retracted and dispatched flags; read and dismissed state | publish, retract, dispatch queue; read, dismiss, clear | each other, sockets |
| Client (`src/web`) | `isRefreshing`, `failedQueue`; caches and stores | every call; token refresh | the API |
| Server (`server.ts`, `db`, `lib/redis.ts`, `jobs`) | connections, shutdown flag, queues nobody fills | connect with back-off, graceful shutdown | all |

Handlers share no memory. They interact through documents: one reads a document,
computes, and saves what it computed, while other handlers do the same. Three ways
of writing are mixed in the code, and which one a handler uses decides what it can
lose: `$inc`/`$addToSet` (nothing), `save()` of a loaded document (`$set` of each
assigned field, from the value read earlier; a failed save when an array was
replaced and the version moved), and transactions (teams and story progress only).

What is hard in each part, and the property that makes it correct:

- **Submission.** Checks before inserts, a value and a first blood computed from an
  old read, four writes in a `Promise.all`, `INCR` and `EXPIRE` apart, crashes. One
  solve per player and challenge; scores are the sums of what was awarded.
- **Sessions.** Look-up, revocation and insert of a rotation are three commands, and
  login compares a password long before it inserts. Revocation must end sessions;
  reuse must be detected and must kill the family; a shut account gets nothing.
- **Client refresh.** Many calls meet a 401 together. One refresh, no retry loop,
  every call settles.
- **Client inbox.** The list is fetched once and then kept by events of a socket that
  drops and reconnects; deletions are shown before they happen. What is taken as fresh
  shows everything, what was deleted stays away.
- **Teams.** Snapshot transactions against plain saves, and save hooks that write.
  `members` and `teamId` agree; one team per player; a team has an active owner.
- **Leaderboards.** A board that is not stale shows every solve; freezing is two
  writes in two collections; a recomputation writes what it read before.
- **Events.** Only the edges of the status graph; capacity; what two edits drop.
- **Story.** A node completes once, the bonus is paid once, a story can be finished.
- **Announcements.** Dispatched once; never published and retracted; nobody missed.
- **Score writers.** Hint purchase, manual adjustment and recalculation write scores
  from old reads and race the `$inc` of a solve.
- **Accounts.** Look-ups and writes of addresses, providers and passwords are apart, and
  no index makes an identity unique. An account has one owner, a password that was
  accepted works, a deleted account lets go of everything.
- **Roles.** The count of superadmins is read before the one is removed.
- **Authoring.** Challenges and chapters are large documents that many calls load and
  save: arrays are spliced, nodes addressed, fields validated on copies. An edit must
  land where it was meant to, undo nothing, and leave a document the rules admit.
- **Server.** A shutdown starts beside whatever the startup or the clients do, and
  every service it closes may fail to call back.

`PROJECT.json` lists the hazards at their lines with the properties that catch them.

## 2. The modules

| Module | Models | Kind |
| --- | --- | --- |
| `ChallengePoints` | `getCurrentPoints` of `challenge.model.ts` | operators |
| `Challenges` | one challenge: updates, visibility, deletion, hints, attachments, solves and their deletion | state machine, extends `ChallengePoints` |
| `SolveLedger` | what scoring promises: a solve, which has an identity, is recorded once, reaches its player's and its team's account once each, with the points it was recorded with, and accounts change in no other way | abstract specification |
| `Submission` | `submitFlag` and `deleteSubmission` with `recordSolve` and `rateLimitCache` | state machine, implements `SolveLedger` |
| `SessionLedger` | what refresh tokens promise: one owner, one stretch of usability, families grow only by replacing a used-up member | abstract specification |
| `Sessions` | `refreshToken.service.ts` and its callers in the auth and admin services, `verifyAuth` | state machine, implements `SessionLedger` |
| `RefreshQueue` | the response interceptor of `api.ts` | state machine |
| `Roster` | what teams promise: a player is in one team or none, a closed team never opens again | abstract specification |
| `Teams` | `team.service.ts`, the hooks of `team.model.ts`, `deleteUser` | state machine, implements `Roster` |
| `Events` | `event.service.ts`, `event.model.ts`, one event | state machine |
| `Scoreboards` | `leaderboard.service.ts` and `leaderboard.model.ts`, composed with `Events` and the life of solves | state machine, extends `Events` |
| `StoryGraph` | `validateGraph`, `collectBranch`, `computeBypassedNodes`, `isChapterComplete` | operators |
| `Story` | playing one story | state machine, extends `StoryGraph` |
| `Chapters` | editing one story: chapters, nodes, edges, publishing, deletion | state machine, extends `StoryGraph` and `Challenges` |
| `Roles` | roles, creation, demotion and deletion of accounts | state machine, part of `Scores` |
| `Scores` | every writer of a score at once | state machine, extends `Roles` |
| `Notifications` | the inbox | state machine, part of `Announcements` |
| `Announcements` | one announcement and the notifications of it | state machine, extends `Notifications` |
| `Inbox` | the socket and the notification list of one page (`SocketProvider.tsx`, `socket.gateway.ts`, the hooks and store of notifications) | state machine |
| `Identities` | registration, linking of providers, passwords, new addresses and deletion, as far as they decide whom an account belongs to | state machine |
| `Server` | `server.ts`, `db/index.ts`, `lib/redis.ts` | state machine |
| `*Proofs` | theorems: `AccountsProofs` about `Scores`, `Roles` and `Identities`; `ChallengesProofs` about `ChallengePoints`, `Challenges`, `Chapters` and `Story`; `ProcessesProofs` about `RefreshQueue`, `Inbox` and `Server`; `ScoreboardsProofs` about `Events` and `Scoreboards`; the others about the module they are named after | proofs |
| `MC*` | instances; `MCDecay` holds the table of the exponential | TLC |

Definitions marked "Mutant of X" in the modules are X with a plausible mistake. No
action uses them; they show that a property can fail. Where a property is a
conjunction there is one for each part that could fail on its own.

### 2.1 Submission

A call is an element of `Requests` or `Deletions`; `pc` is where it stands, `snap` and
`victim` are the documents it loaded. Each action is one awaited command:

| Action | Code (`submission.service.ts`) |
| --- | --- |
| `CheckRate`, `LoadChallenge`, `CheckUserSolve`, `CheckTeamSolve` | 131-183, each read with its refusal |
| `InsertSubmission` | the comparison of the flag and `submission.save()`, unique indexes included (`DuplicateKey`) |
| `SaveAttempt`, `IncrAttempts`, `ExpireAttempts` | the wrong-flag branch: `challenge.save`, `INCR`, `EXPIRE` |
| `CreditUser`, `CreditTeam`, `RecordSolve` | the members of the `Promise.all`, in any order; a failure of one does not stop the others |
| `FinishSolve` | `markStale` and `notifyChallengeSolved`, not awaited |
| `ResetAttempts` | `DEL` of the counter |
| `FindSubmission`, `RemoveSubmission`, `DebitUser`, `DebitTeam`, `UncountSolve`, `RemoveIncorrect`, `FinishDelete`, `ClampScore` | `deleteSubmission` |
| `Crash`, key expiry, opening and closing of a challenge | environment |

`TeamIndexBuilt` says whether MongoDB accepted the unique index on team solves. Its
partial filter uses `$ne`, which partial indexes do not support, so the runs take it as
FALSE; the proofs hold for both.

`Decay` is the integer part of `points * exp(...)`. TLA+ has no exponential: the model
takes `Decay` as a constant about which it assumes only what the formula gives (range
and monotony), and `MCDecay` supplies the table of real values for TLC.

### 2.2 Sessions

A call is an element of `Requests`, its kind one of thirteen. A document `token[t]` has
the owner, family and status of the code; `parent`, `pw` and `straddled` are history
that only properties read. `straddled` is set on a call that stands between its check
and its insert at the moment a revocation runs: the two "unless overtaken" properties
say that this window is the *only* way for a token to outlive a revocation.

| Action | Code |
| --- | --- |
| `Login`, `OAuthLogin`, `IssueToken` | `auth.service.ts` 125-222, `refreshToken.service.ts` 57-79 |
| `Rotate`, `RevokeFamily`, `RevokeOld`, `IssueToken`, `CheckUser` | `refreshToken.service.ts` 89-148 and the handler `rotateRefreshToken` |
| `Logout`, `Blacklist` | `auth.controller.ts` 132-160 |
| `RevokeSession`, `RevokeAllSessions` | `revokeSessionById`, `revokeAllForUser` |
| `ChangePassword`, `ForgotPassword`, `MailSent`, `MailRefused`, `ResetPassword`, `SavePassword`, `RevokeAll` | `auth.service.ts` 230-323 |
| `BanUser`, `SaveBan`, `UnbanUser`, `SaveUnban`, `DeleteUser`, `RevokeForDeletion`, `CommitDeletion` | `admin.service.ts` 458-680 |
| `Authenticate`, `LoadUser` | `verifyAuth.middleware.ts` |
| `Expire`, `Remove`, `ResetExpires`, `Fail` | clocks, the TTL index, a failing command or a stop of the process |

`Blacklist` and `Authenticate` keep the two key prefixes of the code
(`blacklist:at:` written, `blacklist:` read), so in the model too a logged-out access
token is accepted until it expires.

### 2.3 RefreshQueue

`call[r]` is a request with its `_retry` mark, `refresh[r]` the refresh it posted.
An action is one run of the interceptor between two awaits, or a step of the server.
`SettleAll` is `processQueue`; `RefreshUnauthorized` is the interceptor applied to the
answer of the refresh itself, which is posted through the same axios instance.
`cookie = expiries` means that the access token is accepted. An answer that is lost
after the server has rotated is `LoseRefresh` with `session` falling to FALSE.

### 2.4 Teams and Roster

`team` and `teamId` are the two collections, `seen[c]` what call `c` has loaded. The
code has two ways of writing, and so has the model:

- *Transactions* (create, join, accept, leave, kick, disband). Their reads are one
  snapshot (`Load`), their commit one step (`Commit`), refused when a document it
  writes was written since (`Conflict`); `withTransaction` then runs the callback again
  (`Retry`).
- *Plain saves* (update, code, invite, decline) send the assigned fields only
  (`Save`); taking an invite out replaces the array and so names the version that was
  read (`overtaken`).

Both run the hooks of `team.model.ts`: `MembersFree` and `WithinLimit` refuse,
`WithOwner` and `PushOwner` put the owner back among the members. `IndexAdmits` is the
unique multikey index on `members`, in which an empty array is one entry as well.
`DeleteUser` is the transaction of `admin.service.ts`, whose `$pull` runs no hook.
`Roster` has neither documents nor calls, only who is where; its `FoundDeserted` is the
team founded by a player who is being deleted.

### 2.5 Events and Scoreboards

`Events` is one document. A call loads it, checks it and changes a copy (`Load`), and
later saves the fields that changed (`Save`, `Merged`); replacing the challenges as a
whole compares the version (`Current`). `Admits` and `Changed` are the checks and
changes of `transitionTo`, `updateEvent`, `addChallenges`, `removeChallenges`,
`freezeScoreboard`, the scheduler (`Due`) and registration. The counters of a
registration are two increments (`CountRegistration`, `CountTeam`). `mixed` and
`capacities` are history.

`Scoreboards` extends it with boards and recomputations, and with solves that are
stamped, stored, credited, marked, and perhaps deleted again. `Recompute`, `ReadEvent`,
`ReadSolves`, `Update`/`FindNone`/`Insert` are the awaits of `recompute` and
`upsertBoard`; `Mark` is `markStale`, which may be lost. The second step of
`freezeScoreboard` is two actions: `TakeNow`, the time that `setFrozen` takes, and
`FlagBoards`, the `updateMany` it then awaits. Whether a board is computed for the two global collections of
scores or for one event decides what `Counted` counts. `missed`, `torn` and
`raced` are history: a mark that came while the board was being computed, a flag written
for another state of the event, and a board that was computed from solves read after the
time it is then frozen at. A solve is deleted here only after the handler that inserted it
has ended; that the two may overlap is in `Submission`.

### 2.6 StoryGraph and Story

`StoryGraph` defines the worklist algorithms of the code as least closed sets: `Reach`
over `Forward` (what `collectBranch` follows) or `Edges` (what `validateGraph` follows).
`Story` takes any set of `Graphs` and starts in each. A call decides on the progress it
loaded (`AdvanceNode`, `MakeChoice`, `NotifyChallengeSolved`), reads it again in a
transaction (`Open`) and commits (`Commit`) unless a document it writes changed;
nothing starts it again (`Abort`). `Publish` publishes what `ValidChapter`
admits, at any time. `unseen` is history: the chapters published behind the back of the
transaction that finished a player's last chapter.

### 2.7 Roles and Scores

`Roles`: `verifyAuth`, the load of the target, the count of superadmins and the save are
four steps. `Scores` extends it with everything that writes a score: `Credit`,
`CreditTeam` and `AwardBonus` with `$inc`, `SaveHint` and `SaveScore` with the sum
computed from the score they loaded (a score that did not change is not sent), `SetTeam`
from a team score read before, and the six steps of `recalculateAllScores`. `charged`,
`adjusted`, `torn` and `teamTorn` are history since the last recalculation; `unseen`, in the
call of a recalculation, names the players who were credited a solve that its sums leave out.

### 2.8 Notifications and Announcements

`notices` is every notification ever created. A personal one is read and deleted by its
recipient, a broadcast has a list of who dismissed it; `adminMarkRead` is a load and a
save. `Announcements` adds one announcement whose publish, retract and update are a load
and a save of the changed fields (`Merged`), the notifications that a publication
creates (`Send`) and marks as dispatched (`MarkDispatched`) while nobody waits for it,
and the queue that lists and sends what is not marked. `group` is who plays in a team, who
does not and who has no account; `ChangeGroup` lets anyone join, leave, register or go at
any time, as dispatch and feed each look at the group of their own time. `moved` is
history: who changed groups once the notifications were out. `Stop` cuts a call off
anywhere.

### 2.9 Server

`boot` is what the startup awaits, `stop` what `gracefulShutdown` awaits. Sockets close
on `Hangup` or because the shutdown destroys those that are not `Active`. `Active` is
empty: the middleware that would mark a socket as serving is added behind the 404
handler of `index.ts` and is never reached.

### 2.10 Challenges and Chapters

Nearly every editing call has the same shape: it loads a document, checks it, edits the
copy and saves. `edit[c]` and `nodeEdit[c]` hold what a call asks for and the copy
(`was`). What a save sends, and what the document's version does to it, follows what
Mongoose does with the change the call made:

| The call | sends | asks for the loaded version | raises the version |
| --- | --- | --- | --- |
| sets a field of the document | the field | no | no |
| pushes to an array of the document | a push | no | yes |
| replaces an array (`splice`, `slice`, `filter`) | the whole array | yes | yes |
| sets a field of a node, or the target of an option | the field, by position | yes | no |
| changes an array of a node | the array or a push, by position | yes | yes |

| Action | Code |
| --- | --- |
| `UpdateChallenge`, `SaveUpdate` (`Valid`, `UpdateWith`) | `updateChallenge`, the validate and save hooks of `challenge.model.ts` |
| `SetVisibility`, `DeleteChallenge` and their saves | `setVisibility`, `deleteChallenge` |
| `AddHint`, `RemoveHint`, `AddAttachment`, `RemoveAttachment` and their saves | `challenge.service.ts` 641-817 |
| `Solve`, `SaveSolve`, `DeleteSolve` | `submitFlag` with `recordSolve`, as many at a time as there are calls, and the update of `deleteSubmission`; who solves what is in `Submission` |
| `CreateNode`, `UpdateNode`, `DeleteNode`, `ConnectEdge`, `DisconnectEdge`, `PublishChapter`, all saved by `SaveChapter` | `story.service.ts` 1353-1831 |
| `CreateChapter`, `InsertChapter`, `ListChapter` | `createChapter`, three commands |
| `DeleteChapter`, `DeleteFrom` | `deleteChapter`, two commands in any order |
| `SetStoryStatus`, `FindPublished`, `CheckChapter`, `SaveStatus` | `setStoryStatus`, each read apart |
| `DeleteStory`, `CommitDeletion` | `deleteStory`, whose transaction is one step |

`createNode` and `updateNode` take what they are asked for from the constants `NewNodes`
and `Changes`. A challenge and a story share nothing, so a behaviour edits one of the
two (the guards of `Next`).

### 2.11 Inbox

One page of one player, beside a server that creates and removes notifications.

| Action | Code |
| --- | --- |
| `CreateNotice`, `Emit` | `notification.service.ts` (`create` emits, `createBulk` does not), `newNotification` under `safeEmit` |
| `Connects`, `JoinRooms` | the "connect" handler, which is there only while a player is signed in, and `room:join` |
| `Drop`, `GiveUp`, `SignIn`, `ChangeTeam`, `SignOut`, `Reload` | the effect of `SocketProvider`, `disconnectSocket`, the two kinds of logout, `redirectToLogin` |
| `HandleEvent` (`Invalidate`) | "notification:new" |
| `Mount`, `Unmount`, `Refetch`, `CollectGarbage`, `ServeFetch`, `FetchSucceeds`, `FetchFails` | `useNotifications` over `getMyNotifications` |
| `Delete`, `ServeDelete`, `DeleteSucceeds`, `DeleteFails` | `useDeleteNotification`, `deleteMyNotification` |
| `Clear`, `ServeClear`, `ClearSucceeds`, `ClearFails` | `useClearInbox`, `clearMyInbox` |

How React Query treats an invalidation (`Restarts`: a fetch in flight is cancelled and
repeated, but for the first one, which is joined; data nobody looks at is only marked;
any success makes the data fresh) is modelled as the library documents it, and marked
external. Its retries of a failed fetch are one longer fetch. The list is the first page
without filters. `deaf`, `swallowed`, `failed` and `deleted` are history: each names a
way in which the code really loses a notification, or hides one for good.

`MCProcesses` runs `RefreshQueue`, `Inbox` or `Server`, which share no state.

### 2.12 Identities

Accounts and calls are numbered as they come; `seen` is the copy of an account that a
call loaded. A password is named by the call that set it (`by`), with whether it was
hashed, a picture by the registration that sent it.

| Action | Code |
| --- | --- |
| `Register`, `FindToRegister`, `Upload`, `Unlink`, `Create`, `LinkPassword` | multer's disk storage, `registerUser`, `uploadOnCloudinary` |
| `SignInWith`, `FindByEmail`, `LinkIdentity`, `Create` | `oauthLogin` |
| `Authenticate` with `Rename` or `LoadToChange` and `SavePassword` | `updateAccountDetails`, `changePassword` |
| `Forgot`, `Lapse`, `LoadToReset`, `SavePassword` | `forgotPassword`, `resetPassword` |
| `Appoint`, `Create` | `createAdmin` |
| `Ban`, `LoadToDelete`, `SaveDeletion` | `banUser` and `unbanUser`, `deleteUser` |

What a save sends follows the copy: it pushes "local" if the copy did not list it, hashes
by what the copy lists (`Hashed`), and only the deletion, which replaces the list of
providers, asks for the version. All registrations send a file of one name, as most
phones do. `overlapped`, `mixed`, `crossed` and `disturbed` are history: each names the
overlap that the code leaves open.

## 3. The runs

All are complete explorations.

| Run | Question | Bounds |
| --- | --- | --- |
| `submission` | What stays consistent when handlers work from snapshots? Implements `SolveLedger`. | 3 calls, 3 players (2 in a team), 1 challenge, 2 attempts, `recentSolves` of 1, 1 crash |
| `submission_progress` | Do lockouts end, and do two deletions of one solve leave a sound score? | 3 submissions, or 1 and 2 deletions; 1 player, 2 attempts, 1 crash, fairness |
| `sessions` | What holds of tokens, although no check and update are one command? Implements `SessionLedger`. | 1 account, 3 tokens, 4 calls of any kind; any command may fail |
| `processes` | A page: one refresh, nobody forgotten, no loop, every call settles? When does the list of notifications miss one, and what becomes of deletions? The server: is the shutdown in order and does everything end? | 3 calls, 2 expiries; 1 notification, personal or broadcast; 2 clients, 2 signals, 2 retries; fairness |
| `teams` | Do users and teams agree? Implements `Roster`. | 3 players, 2 teams, 6 calls of any kind, 2 at a time, limits 1 and 2 |
| `events` | What do loads and saves that overlap do to an event? | 2 challenges, 3 calls of any kind, 2 at a time, every draft, scheduled or active start, clock 0 to 1 |
| `scoreboards` | When is a board out of date without being stale, which solves does a frozen one show? | 1 solve, made and deleted, 2 boards, 2 recomputations, 2 changes of the event |
| `story` | Is everything paid once, and what can leave a player stuck? | 128 stories of two chapters (3 nodes and 1), 2 players, 2 overlapping calls |
| `administration` | What is a score the sum of, and can the last superadmin go? | 2 superadmins, a free account, a player in a team, 2 challenges, 4 calls, up to 3 on scores and 2 on roles at a time |
| `announcements` | Who is notified how often, what stays hidden? | 2 users who change groups, 3 audiences, 4 calls or changes, 2 calls at a time and an `adminMarkRead`, any cut off |
| `authoring` | What do overlapping edits of a challenge, or of a story, make of each other? | 2 calls at a time; 5 on a challenge whose floor is above half its points (edits, solves, their deletion), 2 orders of hints, 0 or 9 solves; 4 on a story of 3 chapters and 4 nodes, empty or with one chapter of three nodes |
| `identities` | Whom does an account belong to, whose picture does it show, does its password work? | 2 addresses, 1 identity, 3 accounts, 3 calls of any kind, one account or none at the start |

Invariants that every module needs are one conjunction each: `ChallengeFollowsSolves`
(first blood, solve count), `ScoresAreLedger` (user and team sums, and what is paid once
all writes have landed), `OneRefreshServesAll`, `UsersAndTeamsAgree`, `EventConsistent`,
`EventEditsHold`, `BoardsConsistent`, `StoryConsistent`, `WayThrough`,
`ScoresConsistent`, `PostConsistent`, `ChallengeConsistent`, `ChaptersConsistent`,
`ServerConsistent`, `ServerEndsSomehow`, `InboxConsistent`, `IdentitiesConsistent`,
`NothingReturns`; those whose name ends in "Consistent" contain the type invariant.

Why the bounds are enough: every race in `Submission` is between two calls, and a third
one makes both a winner and two losers possible, and lets a save replace
`recentSolves` while two others hold older versions. Wrong attempts reach their limit
with two, and a third request that counts, succeeds or finds the counter gone comes
between the INCR and the EXPIRE of the first. In `Sessions` three tokens are a sign-in, an exchange and a second exchange
of the same token, and four calls are those three and a revocation. In `RefreshQueue`
three requests are the one that refreshes, one that waits, and one whose 401 arrives
after the refresh has ended; two expiries let the access token expire again before the
retry. Accounts are independent in `Sessions`, so one is enough there.

In the others every step is a load or a save of one document, so two calls at a time
give every overlap, and the calls made in all bound what may have happened before:
six in `teams` found two teams, fill one, and leave four for a race and its aftermath
(three players are an owner, a member and a stranger; two teams are the one left and
the one joined, and with limits 1 and 2 both a full and an open team occur); three in
`events` are two that cross and one that meets the result; four in `announcements`
create, publish and dispatch, with an edit, a retraction or a player's change of team
anywhere between. In `authoring` five calls on a challenge are
two that overlap and three before, beside or after them, which is what it takes for one
solve to outlast two others and take the count back, to fill `recentSolves`, to store an order of hints twice and to meet it; on a story four calls
are a deletion, a creation that it overtakes, a second deletion that still holds the old
copy, and an update: what it takes to leave an edge without an end and to lose it again. `MCAuthoring` also evaluates the points curve of six scorings from 0 to
102 solves (`CurvesAssumption`). `scoreboards` needs two boards because the
broken index lets two event boards exist, and two recomputations to write them. The
three nodes of the first chapter of a story give every merge of two branches, an
optional node in the middle or at the end, and a prerequisite on another branch; the
second chapter is what is published late. That larger stories bring nothing new is
proved (section 4), and so it is for every other safety property named here.

One notification is enough for what `Inbox` can do with it, as no action relates two, but
for clearing. With two, one of them a broadcast, `InboxConsistent` was checked once
outside the runs (9,141,731 states).

In `identities` three calls are two that overlap and one that has prepared them, or meets
what they left; a second identity would only repeat the first.

Several properties have the form "unless overtaken": a history variable records that the
one window the code leaves open was hit. They say that nothing else goes wrong, and the
model checker was used to find that each excuse is needed.

### What the code does that a reader may not expect

- Two members of a team race: the second check precedes the first insert and no index
  stops the second insert, so a team can be paid twice (comment `submission.model.ts:157`).
- Two saves of a challenge replace `recentSolves`: the later one fails on `__v`,
  `submitFlag` rejects after the score was written, and the board is not marked stale.
- Of three overlapping solves, one that loaded first and saves last takes the count back
  to one: the challenge counts fewer solves than before, and its value rises.
- The process stops between `INCR` and `EXPIRE`: later increments see a value above 1
  and never set the TTL.
- A deletion debits before the credit of the same solve lands, the clamp raises the
  negative score to 0, and the credit stays.
- A login or rotation that passed its check inserts its token after a password change,
  or after the detection of reuse, has revoked what there was.
- A refresh answered 401 waits in the queue that only its own answer would empty
  (`api.ts:212`, `api.ts:224`; the comment at `api.ts:14` promises otherwise).
- `manualScoreAdjust` writes `score ?? 0 + delta`, which is the team score without the
  delta; the comment of the route says that the team score is synced.
- A hint that two overlapping calls buy is charged twice and listed once; any hint bought
  while a solve is credited may take the solve's points away. A recalculation takes a solve
  away that was credited since it aggregated, and so does one that aggregated earlier and
  overlaps the recalculation that repairs it.
- A title above 120 or a body above 1000 characters passes the announcement's limits (150,
  5000) and fails the notification's; the failure is swallowed and the announcement is
  marked dispatched. The same happens when a notification cannot be stored.
- A publication and a retraction that loaded the same draft leave it published and
  retracted.
- Prerequisites on a parallel branch, a challenge solved before its node is current, a
  notice whose transaction conflicts, and an optional last node leave a player stuck;
  `StuckForAReason` says that there is no other way but a required node that no edge leads a
  player to, and chapters of a lower or the same order or published too late.
- `markStale` creates no board and names the global ones: an event board is never stale.
- `setFrozen` takes the time before it writes. A board that is computed between the two is
  frozen at that time and shows later solves (`raced`).
- A player who joins or leaves a team after an announcement for one of the two groups was
  dispatched is shown it, and nobody ever tells them of it.
- `connectEdge` and `updateNode` may give two options of a node one label, which
  `createNode` refuses. `computeBypassedNodes` (`story.service.ts:92`) then hides neither
  branch, and the required nodes of the one not taken are left behind (read from the code,
  not modelled).
- Two `addHint` calls can store one order twice; from then on every `updateChallenge`
  fails validation until one of the hints is removed.
- While an administrator changes hints or attachments, a correct submission of a
  challenge that has ten solves or more fails to record its solve (`__v`).
- `deleteNode` asks whether *any* option of another node has a target, as `??` binds
  weaker than `===` (`story.service.ts:1583`): in a chapter with a choice hardly any node
  can be deleted. A deletion that succeeds puts the other nodes back as it had loaded
  them, so a field set meanwhile is lost.
- `createNode` does not see a deletion that overtakes it: a node may lead to nowhere.
- `createChapter` beside `deleteStory` leaves a chapter without a story, beside
  `deleteChapter` an entry in the list without a chapter; `setStoryStatus` passes over
  chapters that were deleted while it checked, and publishes a story without any.
- Nodes of a published chapter can be edited and nothing validates it again;
  `updateStory` and `updateChapter` assign to a new object and save nothing.
- In-flight requests are cut at shutdown (see 2.9), and a signal during the startup can
  leave the server listening until the process exits.
- The comment of `getCurrentPoints` (`challenge.model.ts` 510-512) gives 439, 222 and 108
  points after 10, 50 and 100 solves; the formula gives 409, 271 and 251, and never less
  than half of the points.

- The page never fetches notifications again when its socket comes back, and `createBulk`
  emits nothing: until another event comes the list is out of date and is shown as fresh.
  The same holds after an event that meets the first load, or the fetch of a page that
  has been left.
- A sign-out while the socket reconnects leaves a socket that then connects without
  joining a player's room; the next sign-in finds it connected and joins none either. In
  the same way a change of team joins no room of the new team.
- The button of `NotifCard` deletes broadcasts as well (`dismiss` is bound and not called);
  the server answers 404. A deletion that failed stays hidden until the inbox is cleared or
  the page is loaded again, although the comment of `useDismissNotification`, for the
  same mechanism, says that it re-appears on the next fetch.
- The logout of the administration (`app/(admin)/admin/layout.tsx:202`) clears no query
  cache: the next player of that page starts with the lists of the last one.
- A reset of an account that has no password of its own, being one of a provider, stores
  the new password as it was typed (`user.model.ts:304`): it never works, and registration
  answers 409 from then on.
- Registration sets the password of an account of a provider without asking whether it is
  banned, and answers 201; the sign-in is refused.
- Two first sign-ins with one identity and different addresses make two accounts with it;
  a sign-in that is linking while the account is deleted links the deleted account, and a
  new address that comes late gives a deleted account an address again.
- The file of a registration that is refused stays on the disk until another one with
  that name comes.
- `leaderboardUpdated` and `teamMemberJoined` have listeners and no caller.

### Fairness

- `submission_progress`: each write that was started is answered, each handler continues
  after its await, and a Redis key with a TTL expires. The driver's timeouts and Redis
  give that. Nothing obliges a player to submit or an administrator to delete.
- `processes`: a request of `RefreshQueue` that was sent is answered or times out (the
  instance has `timeout: 15_000`), and the event loop runs the continuation. Nothing
  obliges the application to send a request, and neither expiry nor the end of a session
  is fair. For the server, an attempt to connect succeeds or fails, and the timers of the
  back-off and of the forced exit fire. Closing services and clients owe nothing. `Inbox`
  has no liveness property and no fairness.

Deadlock is not checked, because every one of these systems may really stop: all calls
of the instance have ended, or the process has exited (the server).

## 4. What is proved

Every safety property that a run checks is a theorem, for every number of players,
calls, tokens, teams, challenges, notifications, boards and nodes. What the theorems
assume of the constants is named in the modules and evaluated by the runs:

- their types, the monotony of `Decay`, and finiteness where something is counted
  (`SubmissionAssumption`, `StoryAssumption`, `MaxTime # 0` in `Scoreboards`, and so on);
- that "nothing" is no value of the kind it stands beside (`NoneIsNoEvent`,
  `NoneIsNoProgress`, `NoneIsNoAnswer`, `NothingIsNoDocument`, `IdleIsNoEdit`,
  `IdleIsNoCall`): the checker sees that of model values, a prover has to be told.

Four theorems about `Submission` also assume `Deletions = {}`, as the run that checks
their properties does: a deletion takes points, solves and first blood away, so they would
be false with one. What holds with deletions is `OneSolvePerUser` and
`ScoreNotNegativeAtRest`.

| Theorem | States |
| --- | --- |
| `TypeCorrect` | `Spec => []TypeOK` of `Submission` |
| `OneSolvePerUserHolds` | at most one correct submission per player and challenge, crashes and deletions included |
| `SubmissionImplementsLedger` | without deletions, each solve is recorded once and reaches each account once, with its own points, and accounts change in no other way: `Submission` implements `SolveLedger` |
| `ChallengeFollowsSolvesHolds` | without deletions, no challenge counts more solves than were made, the stored first blood has a flagged submission, a solved challenge has one |
| `ScoresAreLedgerHolds` | without deletions, each score is the sum of the solves credited to it, and every credit a solve |
| `RecentSolvesHold` | without deletions, `recentSolves` shows solves of the challenge, each once |
| `ScoreNotNegativeHolds` | whatever deletions overlap, no score is negative once every call has ended without a crash |
| `PointsDecay` | more solves never make a challenge worth more |
| `ChallengeConsistentHolds` | overlapping edits keep the value between the two bounds, a visible challenge dated and a flag hashed once |
| `ChallengeEditsHoldHolds` | no edit of a challenge undoes what others saved since it loaded it; the count falls and the value rises only by an edit of the points, a deleted solve, or a solve that others overtook |
| `ChaptersConsistentHolds` | the nodes of a chapter have different ids; a chapter is listed, but for calls that create or delete it |
| `NodeEditsHoldHolds` | an edit lands on the node that was loaded and the field it names; edges lose their end only by an overtaken copy |
| `StoryInvHolds`, `StoryConsistentHolds` | in every story the bonus is paid once to each who completed it, and completion follows the chapters |
| `WayThroughHolds` | nobody stands on a branch not taken, nothing required is left behind |
| `StuckForAReasonHolds` | a player who can go no further has one of five reasons |
| `SessionsTypeCorrect` | `Spec => []TypeOK` of `Sessions` |
| `NoAccessWhileShutHolds` | a banned or deleted account gets no access |
| `ForksHolds` | a family forks only by a double exchange |
| `OldSessionsEndHolds`, `ReusedFamilyDeadHolds` | what outlives a revocation was overtaken by it |
| `SessionsImplementLedger` | `Sessions` implements `SessionLedger` |
| `OneRefreshServesAllHolds` | the safety properties of `RefreshQueue` |
| `InboxConsistentHolds` | a list that is taken as fresh shows what the server keeps, and what was deleted stays away, but for the named losses |
| `ServerConsistentHolds` | a shutdown closes everything in order, unless it met the startup |
| `TeamsTypeCorrect` | `Spec => []TypeOK` of `Teams` |
| `UsersAndTeamsAgreeHolds` | the two sides of membership agree, but for closed teams' owners and deleted users |
| `OwnerIsInTeamHolds` | the owner of an active team plays in it, or was deleted |
| `NobodyJoinsBeyondLimitHolds` | no join takes a team beyond the limit it then has |
| `TeamsImplementRoster` | `Teams` implements `Roster` |
| `EventConsistentHolds` | dates, freeze, capacity and counters of an event, but for edits that crossed |
| `EventEditsHoldHolds` | status steps follow the graph, no unseen challenge is dropped, a frozen end stays frozen |
| `BoardsConsistentHolds` | one global board, solves of a frozen board before its freeze unless it was computed between the freeze's time and its write, flags that agree with the event unless torn |
| `FreshUnlessOvertakenHolds` | a global board that is not stale shows every solve that was marked, unless a mark came while it was computed |
| `PostConsistentHolds` | a retracted announcement is not published, targets fit the audience, unless saves crossed |
| `NotifiedOnceHolds` | nobody is notified twice, unless dispatches overlapped or one was cut off |
| `NobodyMissedHolds` | whom the feed shows an announcement is or will be notified, but for who changed groups after the dispatch and the named exceptions |
| `NothingReturnsHolds` | what is gone from a feed or an inbox stays gone |
| `ScoresConsistentHolds` | scores and solves are what the overlapping calls made of them |
| `SuperadminsGoneOnlyLateHolds` | with a superadmin at the start, the last one goes only by a call saved after its requester had lost the role |

Type correctness of `Submission` needs more than types: a deletion in its fan-out holds
a loaded document (`VictimLoaded` in `TypeInv`), or the team to debit would have no
type. The ledger rests on `Inserted`: a call has no submission before its insert, and the
one its snapshot determines while its writes are in flight. So what a call adds to an
account are the points of its own entry; that it does so once is read off `landed`, the
writes of the `Promise.all` that have been answered (`CreditFacts`); that no other entry
is for the same player and challenge is the unique index (`InsertMaps`). First
blood needs `BloodInv`, which ties the snapshot of every call to the stored first blood:
a snapshot without first blood means that the flag is still to be drawn or that its
holder has a flagged submission. The solve count needs `CountInv`, which bounds the
count that a snapshot can lead a call to write. Sums over sets of solves grow by one
solve at a time (`PointsAdded`), so `ScoreInv` only has to say in which order a call inserts,
credits and ends (`PaidInOrder`). For `recentSolves`, `RecentInv` says that a snapshot of
the current version has the current array, so that a save which the version admits drops
or repeats nothing. A negative score is bounded by who owes it (`NegativeIsOwed`): some
deletion has debited the player and not clamped yet.

The proofs about `Sessions` rest on two facts. Every step either keeps the stored
tokens, except that usable ones may end, or inserts one (`TokenSteps`). And `CallInv`
says what a handler may rely on between two of its commands: the token it holds is
stored and belongs to its user, a rotation about to insert has a used-up token, a
sign-in about to insert began with an open account, and a call that began with a shut
account still has one. The refinement and `NoAccessWhileShut` follow from these. For
forks, `ForkInv` says that a family without a double exchange is a chain: at most one
token in it has not been exchanged. `ReuseInv` and `PasswordInv` extend the two "unless
overtaken" properties to the calls that have not inserted their token yet.

`ProcessesProofs` has three inductive invariants. `QueueInv` adds to `OneRefreshServesAll`
that a request is refreshing exactly while its refresh exists, that it is queued exactly
while its item is in `failedQueue`, that a queued or refreshing request has been sent
once, and that the queue is empty when nothing refreshes. `InboxInv` speaks of an answer
that is under way: it has what the server keeps but for what is in the wire or not yet
emitted (`ListInv`), and nothing that was deleted unless an event was swallowed
(`DeletionInv`). `ServerInv` says what each stage of the shutdown has already closed.

`TeamsProofs` goes in three stages. `CallKnows` says what the documents that a call
loaded guarantee, and `KnowledgeKept` that other calls do not take it away. A
transaction without a conflict then finds what it read unchanged, so each writing action
is one of six atomic changes of the documents alone (`Founded`, `Entered`, `Exited`,
`Dissolved`, `Saved`, `Deleted`, together `DocsStep`). Finally each of the six keeps
`DocsInv` and is a step of `Roster`, with no call left in the argument. `DocsInv`
strengthens the properties by `OwnerListed`: only a deleted user can be missing in the
members of a team that names it owner, which is why a hook that puts the owner back
never lets a stranger in.

`ChallengesProofs` rests on `Known`: what the copy of a call still has in common with the
stored document. `minPoints` is the same because no call writes it; the arrays are the
same as long as the version is, because whatever changes an array raises it; and the
solve count is the same as long as no other solve was counted or taken back, which marks
the calls it overtakes (`CountKeeps`). A replacement that is not
refused therefore starts from the stored array, an update that was valid on the copy is
valid on the document, and each save keeps the invariant by one lemma (`SaveKeeps`). For
chapters, `NodeCallInv` says that a copy of the current version has the shape of the
document (`SameShape`: the ids and the numbers of options, position by position), so that
what is addressed by position lands where it was meant to; that `minted` ids are fresh
makes two creations independent (`Alone`).

The proofs about `Story` rest on what `validateGraph` gives: `FollowValid` (what a player
follows stays in the chapter and never comes back) and `NodeOpens` (a node's branches
are either followed or hidden, and a hidden node never leads back). They need an
induction over paths, and get it from the definition of `Reach` as the least closed set:
to show that everything reached is good, show that the good nodes are closed.
`PlayerSound` says where a player stands (`InPlace`), that what is played, what is hidden
and what can still be followed are apart (`Apart`), that all that is required is done or
ahead (`AheadOf`), which chapters are complete (`Ended`) and what is left (`StoryDone`);
`CallSound` that a call works on the node its player stands on, or one that is completed.
`_commitNodeCompletion` is a relation of the old and the new progress (`Passed`), and each
part of `PlayerSound` survives it by a lemma of its own.

`AccountsProofs` rests, for `Scores`, on `CallKnows` as well: the hint that a call is buying was not owned
when it loaded, and the sums of a recalculation leave out no solve but those that are
still to be credited or were credited meanwhile (`unseen`). With `Recorded` (what is
credited was submitted, what was charged is owned) every save of a score either keeps the
ledger of its player or is one that `torn` names. That the last superadmin goes only late
follows from nobody being their own target: who saves in time is still there afterwards.
For `Identities`, `IdentitiesInv` says that a call which has not been disturbed still has
what it saw of the account (`StillSo`), that a sign-in with an identity is alone with it
(`SignInAlone`), that a deletion is alone at its account (`DeletionAlone`), each unless the
history says otherwise, and that a hash is stored only where "local" is listed
(`HashListed`), which is why every later password is hashed as well.

`ScoreboardsProofs` has one invariant for the event and one for the boards, and a lemma that
every step of the boards is a step of the event or leaves it alone (`BoardsStepEvent`), so
that the first serves both. `EventInv` says what the copy of a call will send
(`SaveSound`) and what its counters will still add (`Comers`, `TeamsToCome`): capacity can be
exceeded by as many as were between check and count. `BoardsInv` says how far a solve has
come (`SolveSound`), that what a recomputation holds for the global board has every solve
that was marked but for those it missed (`JobSound`, `Fresh`), that a board of an event shows
nothing later than its solves were read, which dates it unless it `raced`, and that flags can disagree
with the event only while a freeze is between its two writes (`Flagging`), or was torn.

`AnnouncementsProofs` takes a step of the inboxes and one of the announcement apart.
`Onward` is what any step may make of a notification, and `OnlyOthers` says that the
inboxes' own calls tell nobody of the announcement. `Knows` is what the copy of a call
says of its save (`Merging`): it never takes a retraction or a dismissal back. `OnceInv`
adds to `NotifiedOnce` that without an overlap one call sends at a time, and before
anyone was told; `ReachInv` adds to `NobodyMissed` that what a call is sending is still
what the announcement says, and that all of its recipients have it once it is marked, but for those who `moved` since
(`Reached`).
That each gets one notification, whatever order they are created in, is the one place there
that counts: the order is a surjection between finite sets of one size.

Proof attempts changed the models where they were wrong or said more than the code does:

- `EdgesHold` once allowed an edge to lose its end only by a deletion that overtook its
  creation; with a third call it can lose it again, and the run now has the four calls that show it.
- `Counted` counted, for an event that is not frozen, solves of challenges of other events.
- `FlagsAgreeUnlessTorn` excused more than a freeze between its writes.
- `ReasonToBeStuck` did not know chapters of one order, which two overlapping
  `createChapter` calls can make (`story.service.ts:1243`: the order is only looked up, and
  the index of `story.model.ts:529` is not unique): from one of them nobody comes to the other.
- A platform without room for an account (`MaxDocs = 0`) and an event without time
  (`MaxTime = 0`) are excluded, since their initial states do not exist.

Only model-checked: the three liveness properties (`LockoutEnds`, `SettledUnlessRefused`,
`ServerEndsSomehow`), which TLAPS does not reach, as they need ENABLED; and that the
operators which stand for loops of the code compute what the loops do, which is read
from the code. Where a proof needs induction over a set, it takes a smallest
counterexample or a least closed set instead of an induction theorem, which no installed
prover can instantiate. What the theorems say holds of the models: that these are the code is
for the reader of the mapping.

## 5. The plan

Done: submission, sessions, the refresh queue, teams, events with leaderboards, stories,
the score writers with roles, announcements with notifications, the editing of challenges
and stories, the server, the notification list of a page, the identities
of accounts.

Left:

1. Two browser tabs: `RefreshQueue` per tab over one `Sessions` account, which would also
   say what a refresh costs the other tab.
2. Playing a story while its published chapters are edited: `Story` over `Chapters`.

## 6. What is not modelled, and why

- Most of the repository's lines are the web client's pages, stores and query caches:
  interface state over the API. `Inbox` has the list of notifications. The event lists, the
  feed of announcements and the statistics of a player are kept by socket events in the
  same way (`staleTime: Infinity`), without calls of their own on the items; the other
  queries are refetched by age.
- `Story` publishes chapters while others play, but the graph of a published chapter
  stays as it is there; `Chapters` edits it, with no players. `createStory`, unique
  titles, the order and the text of nodes and chapters, their layout, and what files
  stand behind an attachment are left out of the editing.
- Read-only queries, wording and audit entries: nothing reads them back. Socket events
  other than those of notifications show a message or invalidate a query.
- `jobs/queues.ts`: no producer and no consumer exists.
- Other uploads, mail, OAuth providers: external; where their outcome matters it is a choice.
- Validation and routing: stateless; what they admit bounds the inputs of the models.
- The health check: read-only probes and a rate limiter in memory.
- Clocks: expiry is an action that may happen at any time; `Events`, which compares
  times, has a clock of its own.
- Simplifications inside modelled parts: in `Scores` all solves are worth the same and no
  call is cut off; `Scoreboards` deletes a solve only after its handler; `StoryGraph` tells
options apart, not their labels; `Teams` leaves out the
  uniqueness of names, where a case-insensitive check (`team.service.ts:60`) meets a
  case-sensitive index.
- Hazards no run covers: the rate limit is checked and counted in separate commands
  (`submission.service.ts:136`); the team credited is the one `verifyAuth` loaded
  (`submission.service.ts:240`); the blacklist is read under another prefix than it is
  written (`verifyAuth.middleware.ts:37`), which `Sessions` models as it is; two tabs
  share a cookie and not `isRefreshing` (`api.ts:22`).
- MongoDB itself: a command on one document is atomic, as the server documents;
  a standalone server is assumed not to lose acknowledged writes.
