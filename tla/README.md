# TLA+ models of the social wallet backend

The repository is a NestJS backend (TypeScript, TypeORM over PostgreSQL, Bull
over Redis, socket.io) for users who befriend each other and chat. These modules
model what is hard to test in it: handlers that interleave at every `await`,
transactions whose commits are not awaited, a connection pool that is never
given back to, a job queue whose handlers do not wait for their work, a map of
connected users that outlives connections, and rows that are read, changed and
saved as a whole. TLC checks the models on small instances; TLAPS proves the
invariants of every model for all instances.

Contents: [the system](#the-system), [modules](#modules),
[runs](#runs-and-their-bounds), [fairness](#fairness), [proofs](#proofs),
[limits](#what-is-not-modelled), [what is left](#what-is-left).

## The system

One Node process serves HTTP requests and socket events. JavaScript code runs
alone between two awaits; everything that awaits a query interleaves with
everything else. Committed data is in PostgreSQL (READ COMMITTED, no explicit
locks, hardly any unique constraint); jobs are in Redis.

| component | state | operations | interacts with | what is hard | what makes it correct |
|---|---|---|---|---|---|
| friend-request | `friend_request`: a row in each direction per relation, more where first requests overlapped | send, accept, cancel, block, unblock, unfriend; lists and search | chatroom (an acceptance finds or creates the private room in its own transaction), the connection pool | check outside the transaction, two UPDATEs locking rows in caller-dependent order, un-awaited commits and deletions, unreleased query runners | as many rows one way as the other, a block tells the other user, both block only over duplicate rows, a transaction that has its connection ends |
| chatroom | `chatroom`, its participants, `lastMessage` | find or create, add participant, lists, update on new message | friend-request, chat-message | find-then-insert without a constraint, read-modify-write of the participants | the room a pair is answered with has both, whom a room was created with stays in it, last message belongs to the room |
| chat-message | `chat_message` with the `seenStatuses` list | bulk create, bulk status update, delete, image upload, pages | chatroom, the queue | read-modify-write of a shared list by overlapping jobs, checks before an upload that are stale after it, pages of a list that changes order | what reached the queue is stored unless its job was complete too early, statuses are those acknowledged, images come from participants, paging skips nothing |
| chat queue | Bull jobs in Redis | add, process | gateway, chat-message | nobody awaits the add; handlers return before their work is done; stalled jobs are given out again | work is done once for every job |
| chat gateway | in-memory map of online users, sockets' rooms | connect, disconnect, join, new message, status update, typing | queue, sockets | the map outlives the connection and knows one socket per user | the map knows the connected users and where they are, what is stored in a room is heard there |
| auth, otp, user | `user`, `otp` | sign up and in, link and verify e-mail and phone, profile updates, removal | sessions, mail and SMS | read-modify-write of the user row, users found by name twice in a handler, saves that insert a removed row again | names are unique, nobody is verified without an accepted code of their own, codes that were invalidated are refused |
| user-session, crypto-keys | `user_session`, `crypto_key` | refresh, logout, add key | auth | two lookups that are not awaited | a session ends only by its own logout or with its user |
| pagination helper | none | skip and take of a page | the lists | off-by-one | pages adjoin |
| transaction, guards, mail, SMS, storage, configuration | none or none used | | | little: one check or one call each | |

`PROJECT.json` lists the components with what of each is modelled, and under
`hazards` every place in the code where one of these difficulties bites, with the
properties that watch it.

## Modules

| module | models | state | actions |
|---|---|---|---|
| `FriendRequest` | `friend-request.service.ts` over the `friend_request` table, statement by statement | `rows` (committed); `req`, `pc` (what each request is and the await it is at); `todo`, `writes` (rows its statement still has to write, what its transaction has written) | one per handler's reaction to its first SELECT (`SendFriendRequest` ... `UnFriend`), one per statement or row of the three transactions, `CommitUpdate`, `CommitInBackground`, `QueryFails`, `Crash` |
| `FriendRequestInvariant` | the inductive invariant `IndInv`, and in it the history fact it needs: which two rows were inserted together (`Mirror`) | | |
| `FriendRequestProofs` | its proof | | |
| `Friendship` | abstract: what the endpoints promise of the relation between two users | `relation` | `Ask`, `Accept`, `Withdraw`, `Block`, `Unblock`, `EndFriendship` |
| `FriendRequestRefinement` | the mapping from the rows of two users to that relation | | |
| `FriendRequestExclusion` | `FriendRequest` restricted: no two requests about one couple past their first SELECT at once; the inductive invariant `ExclusiveInv` of the restriction | | |
| `FriendRequestExclusionProofs` | its proof, and that the restriction implements `Friendship` | | |
| `QueryRunners` | connections the friend-request handlers take from `pg.Pool` | `idle`, `kept`, `waiting`, `granted`; `needs` (steps left of each request); `committed` | `Receive`, `Ask`, `Grant`, `EndQuery`, `Connect`, `Commit`, `Restart` |
| `QueryRunnersProofs` | the proof of its invariant | | |
| `ChatMessages` | gateway events that store messages, the Bull queue, `ChatDBQueueConsumer`, `createMessageBulk`, `updateMessageStatusesBulk`, `updateChatroomOnNewMessage` | `queue`, `reached` (jobs added, and how many of them are in Redis yet), `open` (Redis); `job`, `step`, `copy` (work in progress); `seen`, `lastMessage` (committed); histories `sent`, `told`, `dropped` | `NewMessage`, `UpdateMessageStatus`, `ReachRedis`, `StartJob`, `CompleteJob`, `SaveMessages`, `UpdateChatroomOnNewMessage`, `ReadStatuses`, `WriteStatuses`, `StatusQueryFails`, `Crash` |
| `ChatMessagesProofs` | the proof of its invariants | | |
| `ChatGateway` | `chat.gateway.ts`: connections, the map of online users, socket.io rooms, every event that emits something | `owner`, `open`, `joined`, `joining` (sockets); `map` (in memory); `out` (what the last event emitted, and the chatrooms its messages will be stored in) | `HandleConnection`, `HandleDisconnect`, `OnJoinRoom`, `JoinRoom`, `OnNewMessage`, `BroadcastToNamedRoom`, `OnUpdateMessageStatus`, `IgnoreEvent`, `Restart` |
| `ChatGatewayProofs` | the proof of its invariants | | |
| `Pagination` | `pagination.ts` as operators | | |
| `PaginationProofs` | that pages adjoin, for any size | | |
| `Chatroom` | `chatroom.service.ts` and the parts of `chat-message.service.ts` behind HTTP, await by await | `members`, `lastMessage`, `list`, `author` (committed); `req` (what each request is, knows and awaits); histories `founders`, `participated` | one per await of find or create, of adding a participant, of the upload of an image, of deletion and of paging; `ChatJob` for what jobs do meanwhile (`StoreMessage`, `NameLastMessage`, `WriteStatuses`) |
| `Participants` | abstract: what the endpoints promise of a room's participants | `members` | `Create`, `Add` |
| `ChatroomAdditions` | `Chatroom` restricted: no two additions to one room between their read and their write; the inductive invariant `AdditionsInv` of the restriction | | |
| `ChatroomProofs` | the proof of `Chatroom`'s invariants, and that the restriction implements `Participants` | | |
| `Accounts` | `auth.service.ts` with the user, otp, user-session and crypto-keys services | `user`, `used`, `code`, `session` (committed); `req`; histories `accepted`, `retired`, `vouched` | one per kind of await: look-ups, the read, reload and write of `save()`, issuing, validating and invalidating codes, sessions, removal |
| `AccountsProofs` | the proof of its invariants and action properties | | |
| `MC...` | instances for TLC | | |

Definitions marked "Mutation" are plausible mistakes in the definition that
follows them. They are not part of any specification: `PROJECT.json` pairs each
with the property that notices it.

**FriendRequest.** A slot in `Requests` is one HTTP request at a time. `find` is the
SELECT of `findFriendEntity`; duplicates are possible, so it returns any matching
row. After it the handler is committed to one of three transactions. `firstRows`
and `secondRows` are the UPDATEs of the two directions: a statement fixes its rows
when it starts (`StartStatement`), writes them one by one in any order and waits
for rows another transaction has written (`LockedFor`), as PostgreSQL does at READ
COMMITTED; a row deleted meanwhile is skipped. `friendRequestDeleteTransaction`
selects outside its transaction and deletes by id. `commitSave` and `commitRemove`
are the commits nobody awaits, and a cancellation does not even await its
deletion; a failure in these (`InBackground`) has no handler and takes the process
down, any other failure rolls back. `Pairs` are the identities of the two rows one
transaction inserts; the table has no such column, so no property speaks of them: the
properties are about all rows of a couple. The chatroom that an acceptance finds or
creates in its transaction is in `Chatroom`; here it is one more query that may fail.

**QueryRunners.** A plan is the order in which a handler needs connections: a
repository query takes one and returns it, `connect` takes one for a query runner
and never returns it. It is kept apart from `FriendRequest` because the pool's
state does not depend on row contents, and its plans over-approximate: any step
may be a handler's last.

**ChatMessages.** The gateway does not await `queue.add`: a job is in `queue` at once, but in
Redis only when `ReachRedis` has counted it, in the order of the adds; a crash loses the rest. A
job's handler (`StartJob`) starts work in a slot and returns;
`CompleteJob` is Redis learning of it, at any time after, whether the work is over
or not. Work is the list of awaits: save, then the chatroom's last message; or find
messages, then write each list back. The process may end at any await (a failed
query of a save job is an unhandled rejection), after which Bull gives jobs it
finds open out once more, and a second run stores its messages under new ids.

**ChatGateway.** A socket belongs to one user for good; a user may have several.
`StoreUserToMap` is `storeUserToMap`: the entry of a known user is given the new
socket and no room. `HandleDisconnect` leaves the map as it is. `onJoinRoom` awaits
`client.join` after it has written the room into the map, so `OnJoinRoom` and
`JoinRoom` are two steps. `out` is the last event with its emissions, so that
invariants can speak of who hears what. Rooms are named by clients: `JOIN_ROOM` accepts any
name, the id of another's socket among them, so `server.to(clientId)` reaches whoever is in
that room (`InRoom`). A message is broadcast to the room the map has for its sender and stored
under the chatroom it names itself (`stored`), which may be another. `OnUpdateMessageStatus`
tells the users that the acknowledging client's payload names as senders, which nothing compares
with the stored messages (chat.gateway.ts:184); it may stop after some of them because
an unknown one throws (`Reached`).

**Chatroom.** `find` and `create` are the query and the insert of
`findOrCreateChatroom`; `answer` is the second read of a room that was found.
`LoadParticipants`, `Reread` and `SaveParticipants` are `addParticipantToChatroom`
with the two halves of TypeORM's `save()`: it compares what it is given with what it
reads again and writes the difference. An upload checks permission, stores the file,
checks the author again, stores the message and only then updates the room. `list` is
a room's messages in the order of `updatedAt`, the latest first, which is how pages are
cut (`Skip` and `Take` of `Pagination`); every write of a message moves it to the front
(`ToFront`). A message that is deleted keeps its row. `ChatJob` does in one step what
`ChatMessages` does in several: here only the moves of the list and the room's last message
matter. A job stores a message of whoever sent it: that the sender takes part in the room is
looked up and only logged, so `UploaderTookPart` speaks of images only.

**Accounts.** A handler is the list of awaits it has still to go through (`Program`);
every step of a request takes the first one off. Finding a user by name (or, for a token that
`refreshToken` has signed, by address: `Wanted`), reading the row again and saving it are steps of their own, so a user may be removed and the name
signed up anew between any two. `LoadAgain` and `WriteUser` are `save()`: columns that
differ from what was read again are written, a row that is not there is inserted as it
was read, and an update of a row removed in between changes nothing. Ids are random
and never reused (`used`). A code's time, or a session's, may be over at any moment: the
request is refused as by a failing query. `VerifyTokenExists` and `AddPublicKey` are the
two calls nobody awaits: a query that fails in them ends the process (`Crash`).

## Runs and their bounds

| run | instance | shows |
|---|---|---|
| `friend_request_safety` | 2 users, 1 unregistered id, 2 concurrent requests, 3 row pairs, all operations | as many rows one way as the other (`TwinRows`), two users block each other only over duplicate rows (`OneBlockerUnlessDuplicates`), each block tells the other user (`BlockIsMirrored`), and the whole inductive invariant, through every interleaving, failure and crash (323,419 states) |
| `friend_request_accept` | same | **violated**: an acceptance overwrites a block committed after its check |
| `friend_request_blocked` | same | **violated**: a block's second UPDATE reaches a row inserted after its first, and tells a user they are blocked by somebody who holds no such row |
| `friend_request_serial` | 3 users, 2 concurrent requests that are not about the same couple past their first SELECT, 1 row pair, all operations, failures and crashes | `FriendRequest` implements `Friendship`; `BlockedByOtherUser` and `AcceptsOnlyPending`, which the two runs above refute, hold with the inductive invariant `ExclusiveInv`: only overlapping requests about one couple break them |
| `friend_request_live` | 2 users, 2 concurrent blocks and unblocks, 2 row pairs, fairness | every transaction that has its connection ends although blocks lock rows in opposite orders |
| `query_runners` | 3 requests, a pool of 2, fairness | connections add up, no more commits than connections, waiting for ever only for kept connections |
| `query_runners_list` | same | **violated**: after two transactions a friend list is never answered |
| `chat_messages` | 2 users, 2 rooms of which one user is in only one, 2 messages, 2 slots of work, 1 crash, 2 acknowledgements | nothing sent is lost but what had not reached Redis, or was in a job complete before it had saved, when the process ended, and no message is in two jobs or saved over statuses it already has, also when jobs are given out twice; last messages belong to their room; no status that its user did not send |
| `chat_messages_own` | as `chat_messages`, with 2 jobs open at a time | **violated**: of two users' acknowledgements of one message the later write undoes the other's |
| `chat_gateway` | 2 users, 3 sockets, 2 room names: a chatroom and the id of a socket | the map knows every connected user and no room that its socket did not ask for; who uses one socket and one room, and names it in the messages, is heard where they are stored and nowhere else (891,239 states) |
| `chatroom` | 4 users (an administrator and one who is not registered among them), 2 rooms, 3 messages, 2 concurrent requests, pages of 2; five scenarios of operations and first participants, in one of which additions to a room do not overlap | founders stay, the room two users are answered with has both, who sent an image took part, rooms of images are listed, paging skips nothing that stays as it is; without overlap each commit creates a room or adds one user (`AtomicAdditions`) |
| `accounts` | 2 ids, 1 name, 2 e-mail addresses and 1 phone number, 2 codes, 2 tokens, 2 concurrent requests; eight scenarios | names are unique, codes and sessions have users; nobody is verified without an accepted code or an administrator; invalidated codes are refused; sessions end by their own logout or with their user |

The four violations are the entries of `findings` in `PROJECT.json`, each with the
sentence of the repository it contradicts.

Why these bounds. Every property of `FriendRequest` speaks of the rows of one
couple, so two users are enough, with an id that is not registered for the insert
that the foreign key refuses. Two requests already produce duplicates, races of
every pair of operations, lock waits and deadlocks. Three pairs of rows for them:
each insert takes one and a pair is reused once nothing refers to it; the instance
never lacks one for behaviours with up to three rows pairs at once, the least with
which a statement meets rows both older and newer than itself. The proofs cover the
rest. The serial run has three users instead, so that relations could leak from one
couple to another; one pair of rows keeps it short, as a couple gets no second pair there.
With two pairs, so that two couples have rows at once, the invariants of this run were
checked once (281,905 states, no error); the proofs cover any number. The liveness run has the operations that take locks in both
directions and what is needed to come back to the start.

In `QueryRunners` a pool of two is the smallest in which a request can hold one
connection and wait for another while a third is served, and three requests are
the least that overfill it. In `ChatMessages` one job open at a time already makes
work overlap, because completion does not await work; two slots are two pieces of
work at once. `MaxWaiting` bounds the queue (a longer queue adds delay, not order:
it is FIFO), `MaxTold` the acknowledgements, `MaxCrashes` the restarts: one crash
makes a job run a second time, after which Bull would declare it failed.

`ChatGateway`: three sockets are the least with which one user reconnects while
another is there, or both sockets of one user meet a second user; a chatroom and
the room of a socket are the two kinds of name there are, and two names are the least
that a map and a socket, or a broadcast and a message, can disagree about. In `Chatroom` two
requests overlap at every await, and a scenario keeps operations that touch the same rows together: rooms
are created, found and added to; added to while an image is sent; read while messages
are stored, acknowledged and deleted. With three messages and pages of two, a message
can move across the border of a page. The scenario without overlap starts with a room of
one, so that two additions can follow one another while an acceptance creates the other
room. In `Accounts` one name shared by two ids is the
case in which a look-up by name could meet somebody else; two codes are the least for
an older and a later one, two tokens for two devices. Each scenario combines the
operations that touch the same columns; the administrator changes phone numbers only,
as kinds do not influence each other. Two names were checked once with the invariant of
the proof, without a difference. Bounds on ids, codes, tokens, rooms and messages end behaviours
early but add no step that the code lacks, and the proofs have none of them but `MaxCodes`,
which is arbitrary.

All runs of chat and accounts switch deadlock checking off because clients may stop
sending. Symmetry is used over users, requests, row pairs, slots, messages, tokens and
e-mail addresses, never in a liveness run.

## Fairness

`FriendRequest!FairSpec`: strong fairness of each handler whose transaction has its connection
(`Connected`), because a row lock is passed to waiting statements in turn, so a statement
that can go on again and again does. Handlers before that wait for the pool, which may have
nothing left to give (`query_runners_list`), so nothing is promised of them; nor of an acceptance,
which needs a second connection while it holds its locks (`CommitUpdate`), so the liveness run
offers blocks and unblocks. Weak fairness of the deadlock detector, which PostgreSQL runs for every
waiting lock after `deadlock_timeout`. No fairness of clients, of failures or of
crashes. `QueryRunners!FairSpec`: weak fairness of the pool's queue and of each
request's next step (queries end, the pool is FIFO); nothing makes the process
restart. `ChatMessages`, `ChatGateway`, `Chatroom` and `Accounts` state safety only: every
step of theirs depends on what clients ask for, and the process may end at any of them.

## Proofs

`FriendRequestProofs` proves, for any users, requests, row pairs and offered
operations, under `FriendRequestAssumption` (registered users are users; the two
placeholder values differ from each other and from rows):

* `Invariant`: `Spec => []IndInv`, and from it `TypeCorrect`, `RowsAreTwins`,
  `OneBlocker` and the action property `BlockReachesTheOther`.

`TwinRows` is not inductive: whether a commit keeps rows whole depends on what
its transaction has written, and counting rows is no help when several pairs of one couple
change at once. `IndInv` keeps a fact of history instead that no handler can read: rows that
were inserted together exist together, and at most one of them is BLOCKED_BY_ME
(`MirrorsExist`, `OneBlocksInMirrors`). From it follow, for all rows of a couple, that there are
as many in one direction as in the other, and that two blockers need a second pair.
It adds what every open transaction looks like: write sets are disjoint (`LocksExclusive`);
an insert holds both rows of an id nobody else knows (`InsertsInOrder`); an update has changed
only the status of existing rows between its two users, and in its second statement the mirror
of every row of the first is written or about to be (`UpdatesInOrder`); a removal holds
or is about to take the mirror of each row it has deleted (`RemovalsInOrder`). The
proof first shows that types and control (`RequestsInOrder`) are preserved, then,
for each kind of step, that the order of all write sets is (`EndKeepsOrder` for
steps that end or do not touch a transaction, `InsertKeepsOrder`, `StartKeepsOrder`,
`WriteKeepsOrder`), then what each kind of commit does to the committed rows.
A commit that is not awaited needs no separate argument: it is a step at any later
time.

What two runs refute is true when requests about one couple do not overlap, and
`FriendRequestExclusionProofs` proves it, under the same assumption, of `ExclusiveSpec`: the
same steps, of any number of requests, less those after which two requests about one
couple would both be past their first SELECT. Such a service would hold a lock on the couple
from the check to the end of the background work; requests about other couples, failures
and crashes interleave as before.

* `Refinement`: `ExclusiveSpec => ImplementsFriendship`; with one request at a time this is so
  for the specification as it is (`OneAtATime`).
* `BlockedByTheOther` and `AcceptsWhatIsPending`: the two properties the code's error text and doc
  comment state.
* `ExclusiveInvariant`: `ExclusiveSpec => []ExclusiveInv`, on which the others rest.

`ExclusiveInv` says that all rows of a couple agree on the relation (`RowsAgree`), that what a
request found in its check is still the relation while its transaction is open
(`ChecksHold`), and that its statements reach all rows of the couple (`CouplesCovered`).
It needs `IndInv` beside it, for what a transaction has written. Steps before the commit
leave the relation alone; a commit gives all rows of its couple one view (`CoupleMoves`), so it
is one move of that couple (`OneCoupleMoves`), and what the check found makes it an allowed
one. Requests about other couples are not disturbed, because none of the rows they read
or cover has changed (`OthersUndisturbed`).

`QueryRunnersProofs` proves, for any finite set of requests and any positive pool
size, `PoolInvariant` (`Spec => []PoolInv`) and `CommitsBounded`. `CommitsWithinPool`
alone is not inductive: `PoolInv` adds that free, used and kept connections make up
the pool, and that each commit and each open transaction keeps a connection of
its own.

`ChatMessagesProofs` proves all five invariants of `ChatMessages` from `ChatInv`. A status
list is read, changed and written with any number of awaits of other work in between,
so `WorkInOrder` says of every slot what its copy contains: nothing that its user has not
acknowledged by now, and acknowledgements only grow (`Grows`). `OrderedJobs` says the same
of jobs that wait, and `Kept` where a message is between being sent and stored: queued, in
an open job, being saved, or stored. Both are needed because a job can be complete,
open or waiting independently of its work. `CarriedOnce` is proved from a second
invariant on top of it, `Once`: a message that nobody has sent is in no job and not
stored, without which sending could give it a second carrier.

`ChatGatewayProofs` proves all four properties of `ChatGateway`. `HeardInRoom` and `RoomWasJoined`
are not inductive: the map's entry of a user with one socket must be that socket
(`SingleIsKnown`), and its room one that the socket has joined or is joining.

`PaginationProofs` proves that consecutive pages neither overlap nor leave a row out
(`PagesAdjoin`) and that the two helpers agree when page and size are given. `ChatroomProofs`
uses it: a reader has seen what it is due, or it is still ahead in the list behind what
the pages read so far cover (`ReaderInOrder`). Writes keep that because they move messages
to the front, so that others only move back. The rest of `ChatroomInv` is what requests
know of their rooms: a copy of the participants contains the founders
(`AdditionInOrder`), a found room of two has exactly its founders as those who asked
(`AnswerInOrder`), an uploader who passed the second check has taken part (`UploadInOrder`).

Two overlapping additions may undo each other, so `Chatroom` does not implement
`Participants`. `AdditionsAreAtomic` proves `ApartSpec => ImplementsParticipants`: it does if no two
requests that add to the same room are between their read and their write at once, as a
lock on the room's row would have it; additions to different rooms, uploads, creations and failures
interleave as before. `AdditionsInv`, which the proof adds to `ChatroomInv`, says that the copy a
request will save is the room as it is now with one user more, so that of the
difference `save()` writes, the insertion is that user and the deletion is empty.
TLC checked `AdditionsInv` once in the scenario without overlap (18,156 states).

`AccountsProofs` proves the four properties of `Accounts` under `AccountsAssumption` (the
placeholders differ from the values they stand beside). The difficulty is that handlers look a
user up by name, more than once, and save copies of rows that may be gone. Ids are never
reused, so there is a function `nameOf` that gives each id that was given out the name of
its first row; `Fits` says that every row there is, and every copy a request is about to save,
agrees with it, and `Knows` that such a copy marks nobody as verified who has had no code
accepted. It is an invariant that some `nameOf` fits, extended at every sign-up. A
confirmation that looks the name up again finds the same user: the accepted code
refers to that user, so the user has not been removed, and names are unique. `Orderly` keeps
of the list of awaits what the steps need, above all that no handler ends right after
a code was accepted.

The proofs use no bound: `MaxCodes`, `MaxWaiting` and the like are arbitrary numbers, all sets
are arbitrary (finite where their sizes are compared).

Only model-checked: liveness (`OpenTransactionEnds`, `WaitsOnlyForKept`), since fairness and
ENABLED are out of the prover's reach, as are RECURSIVE operators and induction over data.

## What is not modelled

* TypeORM, PostgreSQL, Bull, socket.io and Node are modelled from how the code uses them; an
  entity's `save` is one step unless another request could see the difference.
* Conditions such as `user: userId` and the explicit `expiryTime: null` are taken for what the
  code means by them. A version of TypeORM that reads them differently makes these queries
  fail or find nothing, and a query may fail at every await here.
* Wording, message texts, full names, pictures, list and search results (other than the list
  of chatrooms and pages of messages), and search, which read only.
* Time. Codes and sessions expire at any moment. Their default times are computed once, when
  the module is loaded; one call shows what follows.
* Whether mail and SMS arrive; the text of codes, which is taken to be unique.
* A JWT: it names a user, and what a request does with the name is in the models. That
  `refresh-token` answers without waiting for its look-up is visible in one call; that the look-up
  may end the process is in the model. `LogoutDTO` demands a numeric user id, so a
  logout may be refused for its form; the model has those that pass.
* Public keys get into `crypto_key` from outside only (`Keyed`), as `addPublicKeyByUserId`
  refuses all. Codes for forgotten passwords are like log-in codes that nothing completes.
* What the removal of a user (user.service.ts:109) does to tables other than codes and sessions.
  Friend requests and messages of the user make the database refuse it; the participants of
  chatrooms cascade, so a founder who is removed leaves the room. In
  `Chatroom` and the chat modules the users are constant (`Registered`, `Users`): what they say of
  founders and participants is said while nobody is removed.
* Which address a code was for: `completeEmailUsingOtp` checks a code and then marks the user's
  address, whatever it is by then (auth.service.ts:203-218). The model has it, and
  `VerifiedUserHadCode` does not exclude it, nor a mark that a stale copy of the row brings back.
* `deleteMessage` checks the message it found and updates the one that was named; the model does
  so too, and no property says that only one's own messages are deleted. An older batch that finishes later
  overwrites a newer `lastMessage`: only the room of the last message is checked. Two rooms for one pair
  of users, and a group request that is answered with a private room, are possible in the
  model and excluded by no property.
* `addNewMessage`, which is deprecated and called by nothing, and the two endpoints for
  developers, which add jobs as the gateway does.
* The pool in `FriendRequest` and rows in `QueryRunners`: exhaustion of the pool
  stops requests at a query, which safety properties do not notice.
* A `queue.add` that Redis refuses; a message for a chatroom that does not exist.
* Guards and JWT checks, which are stateless and decide one request each; `transaction`, which
  nothing calls; mail, SMS and storage clients, migrations and configuration, which are plain
  I/O or wording.

## What is left

All components that keep state are modelled and their invariants proved. What remains
worth doing, in this order:

1. An abstract specification of a code's life (issued, accepted once, retired), and under which
   restriction on overlapping confirmations `Accounts` implements it.
2. The gateway composed with the queue: a message that is heard in a room is stored there
   once, for clients that use one room.
3. Liveness of `ChatMessages` for a process that stays up: every open job's work ends.
