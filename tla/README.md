# EchoChat: formal models

EchoChat is a chat for intranets: a backend (Express, Socket.IO, PostgreSQL,
MinIO, optionally Redis, one or more instances), a web client (React, Zustand), a
desktop shell and a documentation site. This directory models the parts whose
correctness depends on the order in which things happen: modules in TLA+, TLC runs
on small instances, and proofs checked by TLAPS. Everything is written from the code
under `src/`; paths below are relative to `src/backend/src/` unless they start with
`frontend/`.

## How to run

    tlc -config MCScheduledMessages.cfg MCScheduledMessages
    tlapm ScheduledMessages_proofs.tla

Each MC module has a configuration of the same name; `MCAccountsSuperAdmin.cfg`, of `MCAccounts`,
is the run that shows a claim of the documentation to be false. `PROJECT.json` lists every run
with its properties, the mutants that show each property can fail, the hazards at
their lines and, for each definition, the lines of code it models.

## Inventory

| Component | State | Operations | What is hard | What makes it correct |
|---|---|---|---|---|
| Scheduled messages and reminders (`services/scheduled.service.ts`) | rows of `scheduled_messages`, `message_reminders` | create, cancel, sweep, post, mark | overlapping sweeps on several instances, cancel against sweep, failure after posting, restart with rows taken | never posted twice; what the sender is told is true; outcomes final |
| Background jobs (`jobs/index.ts`) | one Redis key per job, 30 s | tick, claim, run | the lock expires during a run; a claim whose reply is lost | two runs at once do no harm; a lock always comes free |
| Broadcast lists (`services/broadcast.service.ts`) | lists, broadcasts, deliveries, totals | send, schedule, dispatch, add or remove a recipient, count receipts | request against job, a list that changes, receipts during the fan-out, crash in the middle | one message per recipient; deliveries and totals match the messages |
| Calls (`frontend/src/stores/callStore.ts`, `socket.ts`, `services/call.service.ts`) | each client's store and timer, its connections, rooms, rows | start, ring, accept, refuse, cancel, hang up, leave; negotiate, share a screen | two users' actions that cross, events of another call, awaits in the middle of an operation, lost connections, offers that cross | whoever is in a call hears it; ringing ends; one event per call; the media arrive |
| Presence (`socket.ts`, `config/presenceStore.ts`, `jobs/presenceTimeout.job.ts`, `jobs/awayExpiry.job.ts`) | presence column, mark of automatic absence, timers, sockets | connect, disconnect, heartbeat, manual change, expiry | the grace period against a reconnection, read-then-write, marks held per instance | a manual state is not overridden; an automatic one can be lifted; nobody stays online |
| Messages and receipts (`services/message.service.ts`) | messages, search index, edits, receipts, reactions | send, edit, delete, react, acknowledge | edit against delete, news emitted out of order | deleted stays deleted; the index finds what there is; clients end up right |
| Files, stickers, wallpapers (`services/storage.service.ts`, `services/sticker.service.ts`) | object rows, files, references | upload, forward, collect, remove, delete if unreferenced | count-then-delete, failures half-way, forwards that share a file | what is shown has its file; what nothing refers to has none |
| Conversations and channels (`services/conversation.service.ts`, `services/channel.service.ts`) | conversations, members, roles, join requests, a counter | create, add, remove, leave, change role, ask, review, post | find-then-create, creation in several statements, a role read early | one direct conversation for two people; requests and counter agree with the members |
| Polls and games (`services/poll.service.ts`, `services/game.service.ts`) | votes and counters, game state | vote, retract, close, move | delete-and-insert without transaction, read-modify-write | one vote per person; counters match; what is over stays over |
| Accounts (`services/auth.service.ts`, `services/admin.service.ts`, `services/scim.service.ts`) | credentials, lock, second factor, sessions, roles, status | log in, lock, challenge, change the second factor, suspend, demote, import | check-then-act on counters and codes, revocations in another statement | a code works once; who is put out has no session; a super_admin remains |
| Chat client (`frontend/src/stores/chatStore.ts`) | timeline, cache, unread counts | open, page, optimistic send, retry, resynchronise | HTTP answers against socket events, cuts, switching chats in mid-request | the timeline is whole; a send leaves one message; the counts are true |
| Composer (`frontend/src/pages/ConversationPage.tsx`) | text, edit, reply, draft and its timer | type, reply, edit, send, autosave, switch | handlers that go on after an await, in another chat; requests out of order | a text stays in its chat and is kept until sent |
| The rest: relationships, notifications, monitoring, HTTP surface, migrations, other pages, desktop | | | exchanges with outside services, rendering, aggregates | see "Not modelled" |

They interact in four ways. Requests and jobs share PostgreSQL, statement by
statement, with few transactions. Jobs of several instances share a lock in Redis.
Services publish events on a bus that the socket server forwards to rooms. Clients
and socket server exchange events over a connection that keeps order and loses what
is on its way when it drops.

## Modules

One shape recurs on the server. A request is a record: what it still has to run, for
whom, and what it has read. One action is one statement, with an await between any two;
statements of different requests interleave freely, and in some modules any statement
may fail or be the last. Where the code has a race, the module keeps a *history variable*
that says for whom it has happened, and the property says that nothing is wrong anywhere
else: the race is named, not excused in general.

| Module | Models | State and actions |
|---|---|---|
| `JobLock` | `claimRun` in `jobs/index.ts` | a key set if absent, with a time to live; `ClaimReplyLost` sets it and fails; `Expire` frees it whatever its owner does |
| `ScheduledMessages` | `scheduled.service`, its repository and job | `status` is the column of both tables, `due` the rows whose time has come, `pc`, `batch`, `cur` where each run is; faults bounded by `MaxFaults` |
| `TimedDelivery` | what anything left for later promises (abstract) | waits, is withdrawn or taken; if taken, is delivered once or has failed |
| `Broadcast` | `broadcast.service`, its repository and job | the request and the runs of the job dispatch; `ReadStatus` and `MarkSending` are two statements; receipts are rows of a user and a message that may be acknowledged again (`Acknowledge`, `RefreshTotals`); `uncounted` records whose totals are not those of the receipts; the list changes at any time |
| `CallSignalling` | `callStore` and the call handlers of `socket.ts` | the store of each client, timeouts, the queues to and from the server, the rooms; `startCall`, `acceptCall` and `call:accept` are split at their awaits |
| `CallRecords` | rows and events of calls | `updateStatus` reads and writes later, and so does the persistence of `call:accept` |
| `Calls` | both, composed | each client step that sends a request conjoins an action of each |
| `PeerMesh` | the connections of a call of two | `peer[u]` is the RTCPeerConnection with its signalling state and its chain of operations; offers, answers, rollbacks, candidates, departures; the browser asks which screen to share and the answer comes at any moment, so the stream (`screen`) and the button (`sharing`) are apart; the events of a call may arrive in the next one |
| `Presence` | `socket.ts`, `presenceStore`, both jobs, `user.service` | the column, the mark of an automatic absence (in Redis or in each instance), sockets, timers; handlers and job runs as tasks, one await at a time; `PATCH /me`, which leaves the mark; a restoration that fails, which writes 'online' |
| `Messages` | `message.service`, the receipt handlers | row, search index, edit history, reactions, receipts, and `shown`, what the last news told the clients |
| `StoredFiles` | `storage`, `sticker`, `wallpaper`, attachments, group photos | rows, files in the bucket and everything that refers to them; the uploads that a picker has made and not saved; `DELETE /storage`, of any object by anybody |
| `Membership` | `conversation`, `channel`, the guards of `message`, `poll` and `game` and the trigger that counts members | members, the roles of the schema, settings, join requests; members are added to and removed from any conversation, direct ones too; messages heed `is_read_only`, polls and games ask for membership only; the trigger counts what has been committed |
| `InteractiveMessages` | `poll`, `game` and the rules in `games/` | votes, counters, what clients show; the three games with their legal positions |
| `Accounts` | `auth`, `admin`, `scim`, the import of `ldap`, the repositories of users, credentials and sessions | status, lock, second factor, codes, the token of a challenge, sessions and whether they are active, roles |
| `ChatClient` | the timeline in `chatStore` and the pages of the server | log of the server, timeline, cache, requests, sends (of a file, once it is uploaded, from whatever chat is open by then), the queue of the socket |
| `ConversationPage` | the composer and the drafts of the server | text, edit, reply, the autosave's timer, handlers waiting for their answer (send, edit, schedule), requests in flight |
| `ConversationList` | the list in `chatStore`, `findUserConversations`, `markAsRead` | badges, read marks, lists asked and read, the queue of the socket, what has been on the screen |

`KeepsPromise` says that `ScheduledMessages` implements `TimedDelivery` under the mapping
`StageOf` from statuses to stages. `Calls` implements `CallRecords` and `CallSignalling` (proved, see below).
`MCChatClient` runs the three modules of the client as three parts of one run, since they
share nothing but the chat that is open, and `MCMessages` runs `Messages` and `StoredFiles` as two.

### Choices worth knowing

- *The listeners of calls ignore the `callId`*, as the code does: events of one call act
  on another. `PeerMesh` keeps the call in each signal only as history.
- *The browser* is not in `src/`. `PeerMesh` models an RTCPeerConnection as the store uses
  it: operations one at a time and in order, an implicit rollback, `negotiationneeded`
  while it is stable and its tracks are not those agreed on.
- *"Read" is a time* (`last_read_at = NOW()`), so `ConversationList` counts the messages
  there were when the mark was served.
- *In groups*, `CallSignalling` leaves whether a departure ends the call as a free choice.

## Runs

| Run | Instance | Shows |
|---|---|---|
| `scheduled` | 2 messages, 1 reminder, 2 instances, 2 runs, batches of 1, 2 faults | `OneOwner`, `AtMostOnce`, `NoticeMatchesRow`, `KeepsPromise`, `DueIsSettled`: each row in one run's hands, posted at most once, news true, outcomes those of `TimedDelivery`, nothing due left waiting |
| `broadcast` | 1 broadcast, 2 users, request and 1 run on 2 instances, 1 fault | `DuplicateNeedsRace`, `BooksTellTheTruth`, `DueIsDispatched` |
| `call_signalling` | `Calls` with the database idle: 2 members, 2 calls (one of a group), 1 lost connection | `OverlayTellsTheTruth`: who shows a call hears it, and the overlay never loses its call |
| `calls` | 2 members, 1 call, 1 lost connection | `SecondEventNeedsRace`, `RingingEnds`, `ClosedCallIsRecorded` |
| `call_media` | 2 users, 2 calls, 3 screens, candidates or departures | `MediaArrives`: negotiations end, and then each has the other's media |
| `presence` | 1 tab, 2 tasks, 1 request of the person or 1 mishap | `PresenceIsTheirs`; `NobodyLeftOnline`: nobody stays online after leaving, though a restoration that failed wrote 'online' late or the instance with the timer died |
| `messages` | text: 1 message, its sender and a moderator; files: 2 users, 2 messages, 1 attachment, 2 stickers, a group photo, 1 failure; each 4 requests, 2 at a time | `TablesAgree`, `ClientsAreUpToDate`; `FilesMatchReferences`, `LossesAreNamed` |
| `membership` | 2 users, 2 direct conversations, a channel, 2 requests at a time; 4, or 3 of which 1 is cut short | `RegistersAgree`, `PostsWereAllowed` |
| `accounts` | 2 users, 2 sessions, 2 codes, 2 requests at a time; 3, or 2 of which 1 is cut short | `AccountsAreKept`, `LoginsWereAllowed` |
| `interactive` | 2 voters, 2 options, 5 requests about the poll, 2 at a time, 1 cut short; or one game of each kind, 2 moves in flight | `PollAgrees`, `OverIsOver` |
| `client` | 2 chats; timeline: pages of 2, 1 send, 2 requests, up to 4 messages and 4 turns, 5 in all; composer: 2 texts, 2 handlers, 2 writes; list: 2 messages, 1 list | `TimelineIsWhole`, `SentOnce`, `TextsAreKept`, `ListIsTrue` |

Two runs have parts, which share nothing, and each behaviour is of one of them: `messages` the
text and the files, `client` the timeline, the composer and the list. `accounts_super_admin`
is the twelfth run, see below.

Each passing run but `call_signalling` also checks the type invariant; that of `CallSignalling`
is part of `TypeOK` of `Calls`. Deadlock is checked in `presence` only: the other systems
may stop, with nothing scheduled, no request left or no more calls to make.

In `presence` a behaviour has requests or a mishap, not both: after a mishap a choice that is
lost is not held against the server, so the two together would add states and no cases. In
`membership` and `accounts` what is cut short counts among the requests, and in the timeline of
`client` turns and messages are bounded together (`MaxEvents`).

Why the bounds are enough. Every race here is between two actors: two sweeps, two
requests, two members, an answer and an event. Two requests in flight and one or two
more before or after them give every race its cause and its consequence; a fault in
either of two runs, or two in one, covers a failure while handling a failure. Two calls are
needed for the events of one to reach the other. Two chats are needed for an answer to
come back to another chat, or to the same one left and opened again. Of the game of
tic-tac-toe seven cells are played, enough for each kind of line and for both players to
win. The bounds that cap a run are named in the modules: `MaxFaults`, `MaxMishaps`,
`MaxRequests`, `MaxTurns`, `MaxPosts`, `MaxTexts`, `MaxMoves`, `MaxWrites`, `MaxMessages`, `MaxSteps`, `MaxCalls`, `MaxEvents`.

### Claims that the code does not keep

`accounts_super_admin` states what `admin/usuarios.md:45` of the site says, that the last
super_admin cannot be deleted (`LastSuperAdminStays`), and TLC refutes it with two requests, one
after the other: the guard counts the rows of accounts that are deleted or suspended, so once one
of two super_admins is deleted the other may be deleted too.

In other places the documentation or a comment claims more than the properties of the passing
runs, which name as a race what the claim has not foreseen:

| Claim | What the code does | Named in |
|---|---|---|
| `socket.ts:158`, `config/presenceStore.ts:60`: what was chosen is not overridden by a heartbeat, and clears the mark | the heartbeat reads the mark and writes 'online' in two statements, with a choice in between; `PATCH /me` writes a choice and leaves the mark | `PresenceIsTheirs` (`raced`, `markKept`) |
| `services/sticker.service.ts:98`: a sticker that was sent keeps its file | `countReferences` does not count the messages that show a sticker | `LossesAreNamed`: it does while somebody has it in a collection |
| schema, line 250: only admins write where `is_read_only` | a poll asks for membership only | `PostsWereAllowed` |
| `admin/integraciones.md:87`: SCIM DELETE revokes the sessions | it revokes none | `AccountsAreKept` (`unrevoked`) |
| `admin/integraciones.md:27`: who the directory disables is logged out | the import revokes the sessions of the missing only | `AccountsAreKept` (`unrevoked`) |
| `uso/primeros-pasos.md:27`: backup codes are of one use | two challenges read the code before either removes it | `AccountsAreKept` (`shared`) |
| `uso/encuestas.md:16`: one option each | two votes at once delete first and insert later, each for its option | `PollAgrees` (`doubled`) |
| `uso/mensajeria.md:69-70`: the draft is still there | leaving a chat clears the timer that would have saved its last text | `TextsAreKept` (`left`) |

The `.md` files are pages of the site, under `site/src/content/docs/docs/`. The sessions that a
directory leaves stay in the table; `validateToken` refuses them while the account is out, and
they serve again once it is back.

### What the named races are

Each exception in a property is a defect or a limit of the code. The ones that change
what a user sees:

- *Broadcasts.* Two dispatchers that read the status before either writes it send
  everything twice (`services/broadcast.service.ts:199-203`; the request does not take the
  lock of `jobs/index.ts:42-60`). The dispatch ends by writing zeros over totals that
  receipts had counted (`:269-271`), and a counting that fails is not repeated: the total
  stays behind until another receipt comes (`uncounted`).
- *Calls.* Two clients that close a call at once leave two events
  (`services/call.service.ts:62-68`). Late news of one call connect another that nobody
  accepted (`frontend/src/stores/callStore.ts:344-345`).
- *Media.* An offer that comes to the impolite side while it applies an answer is ignored
  for good (`:449-455`: there is no `isSettingRemoteAnswerPending`). A signal of a call
  that is over makes a connection without tracks that the next call uses (`:445-446`). A
  screen that is stopped before it was seen leaves its tile. A screen chosen when its call is
  over stays in the store and goes into the next call, whose button says that nothing is shared
  (`:553-561`, `:387-389`).
- *Presence.* A choice written between the heartbeat's question and its answer is
  overridden, which the comment at `socket.ts:158` says never happens, and so is one made by
  `PATCH /me`, by the next heartbeat: it leaves the mark of an automatic absence
  (`repositories/user.repository.ts:211-231`). An offline timer that fires while its person
  comes back, and the catch that writes 'online' when the restoration of the previous state
  fails (`socket.ts:149-151`), replace a choice too.
- *Messages.* An edit that found the message whole writes its body over a deletion
  (`services/message.service.ts:339`).
- *Files.* A sticker removed while another adds it loses its file
  (`services/sticker.service.ts:98-99`), and so does one that was sent, once the last collection
  drops it. `DELETE /storage` removes
  any object for any user and the rows that refer to it with it
  (`services/storage.service.ts:101-108`). A picker of wallpapers closed during its upload, or
  whose wallpaper is removed before it is saved, forgets a file that nobody owns
  (`frontend/src/components/WallpaperPicker.tsx:100-108`, `:164`, `:191-196`).
- *Membership.* Two people who open a conversation at once get two
  (`services/conversation.service.ts:58`); a member who leaves a direct conversation, opens
  another and is added to the first again has two as well, with no overlap (`:137-157`
  do not look at the type; `enlarged`); the counter of members is one off after two
  changes that overlap; an approved request whose second statement fails leaves nobody in. A poll is posted
  by who may only read (`services/poll.service.ts:14-25`).
- *Accounts.* A SCIM deletion leaves the sessions open (`services/scim.service.ts:167-172`),
  and so do an import by LDAP and a revocation that fails (`unrevoked`). A backup code tried twice
  at once opens two sessions. A challenge clears the failures and the lock of the account without
  reading it (`services/auth.service.ts:485`); all it needs is the token of a login that came before.
  The last super_admin can be lost: by two demotions at once, and because suspended and
  deleted users still count (`repositories/user.repository.ts:498`,
  `services/admin.service.ts:504-514`), where `admin/usuarios.md:45` of the site says that one
  is kept.
- *Timeline.* The first page replaces a message that came meanwhile
  (`frontend/src/stores/chatStore.ts:493-500`); two older pages asked at once come twice;
  a resync that fails leaves a hole; one's own message during a cut hides it; a retry after
  a lost answer posts twice (`:664`).
  A file whose upload ends in another chat is shown there, and kept in that chat's cache
  (`frontend/src/stores/chatStore.ts:601-642`, `frontend/src/pages/ConversationPage.tsx:2230-2253`; `astray`).
- *Composer.* The answer to a send empties whatever is being written in whichever chat is
  open, and deletes a later draft (`frontend/src/pages/ConversationPage.tsx:2105-2110`);
  so does the answer to scheduling one (`:2716-2727`);
  leaving within 600 ms loses the last text (`:1962-1974`; `left`, apart from the races, which are in `lost`); the text of an edit left by a
  reply or by its window stays as a draft (`:2081-2086`, `:2397-2399`).
- *Unread counts.* The list counts one's own messages and replies in threads
  (`repositories/conversation.repository.ts:81-85`), so a badge is right only up to
  one's own; it gives a count to the open chat, which nothing clears; a message that
  crosses the list is lost from the count or counted twice. A mark covers whatever was
  posted until it is served (`:217-229`), seen or not; leaving a chat before its page
  comes marks it as read (`frontend/src/stores/chatStore.ts:474-484`, `:504-508`).

## Fairness

- Jobs: a run that began takes its next step, ticks come (node-cron), the lock's time
  passes. Requests, cancels, changes of the list and crashes are never forced.
- Broadcasts: the request that has been received is carried through.
- Calls: delivered events are handled, timeouts fire, requests that reached the server
  are served. Nobody is obliged to answer, to grant a microphone or to hang up.
- Media: events that were sent arrive and a connection does what it has to do. Nothing
  that a user does is forced. `MediaArrives` is `[]<>(Quiet /\ MediaFlows)`: once the users
  stop, nothing forces a change of a quiet state, so it says both that quiet comes and
  that no quiet state is wrong.
- Presence: handlers go on, timers fire, jobs come, time passes and a stopped instance
  comes back.

`DueIsSettled` and `DueIsDispatched` except runs with faults: a crash leaves rows in
`sending` that nothing resumes. `ClosedCallIsRecorded` supposes that the request gets to
the database: the client ignores its failure. The other modules have no fairness: their
properties are of the states where nothing is under way.

## Proofs

For every value of the constants, without bounds on rows, runs, instances, users, tabs,
requests, calls or faults. Each `IInv` was checked with TLC on the instance of the run
before it was proved.

| Module | Proved | Inductive invariant, and why the property alone is not enough |
|---|---|---|
| `ScheduledMessages_proofs` | `TypeOK`, `OneOwner`, `AtMostOnce`, `NoticeMatchesRow`, `OutcomeIsFinal`, and that the job implements `TimedDelivery` | `RunsInv`: what a run may rely on about the rows it holds. That a row in a run's hands has not gone out yet is known only because `OneOwner` keeps others away and the program counter tells how far this run is with it. Nothing is needed of the lock, so this holds with Redis and without |
| `Broadcast_proofs` | `TypeOK`, `DuplicateNeedsRace`, `BooksTellTheTruth` | `OneDispatcher`: of a broadcast that was not let through twice, one dispatcher is alone with the status and has not sent what it still has to do. `Books`, `Done`: messages, delivery rows and counters are written in that order. `Reach`: whoever was on the list is served or still to be served, which says nothing of a dispatch that failed. `DeliveredIsCounted` is inductive beside it: whatever moves the receipts without the total leaves somebody with a receipt to count, or the broadcast in `uncounted` |
| `Presence_proofs` | `TypeOK`, `PresenceIsTheirs` | `Straight`: an 'away' of the job has its mark or a task that is about to set it, no mark stays on what the person chose, and what each task decided on still holds (`Grounded`) - unless a race, a mishap or a choice that left the mark was recorded |
| `Calls_proofs` | of `CallRecords`: `TypeOK`, `SecondEventNeedsRace`; of `CallSignalling`: `TypeOK`, `OverlayTellsTheTruth`; that `Calls` implements both; `TypeOK`, `SecondEventNeedsRace` and `OverlayTellsTheTruth` from end to end | `OneCloser`: of a call that was not raced, at most one request believes it closes it, and once the event is out nobody does and the row stays closed. Counting events says nothing of the requests that read the row before. `Calm`, while no connection is lost: a call goes through its stages once and in order (`OneStage`), so nobody who left it is called back; whoever shows it is in its room or on the way, and nobody leaves a call that it still shows (`InOrOut`). It rests on the order that the queues keep: a `leave` behind a `start` would otherwise overtake it. From end to end no invariant of its own is needed: each step is one of either component or a stutter, so theirs are carried along |
| `Messages_proofs` | `TypeOK`, `TablesAgree`, `ClientsAreUpToDate` | per message and topic: a request that nothing has crossed is alone at it, and its step tells how far row, index, counters and news are apart (`TextAgrees`, `ReactionsShown`, `ReceiptsShown`); what a user's only request on the reactions found is still so (`OneOf`) |
| `Accounts_proofs` | `TypeOK`, `AccountsAreKept`, `LoginsWereAllowed` | What a request has still to run is a suffix of one of its lists of statements (`Todos`), so the statements left tell what it has already found: every failure counted took a request (`FailuresWereTried`), who is about to get a session was active when it was looked up or the account was touched since (`EnteringIsActive`, `LoginsStand`), whoever stops being active has the removal of its sessions as the next statement (`SessionsEnd`), whoever is in a challenge had its token, and a code in a request's hands is in nobody else's unless two of them read the column at once (`CodesAreHeldOnce`). The tables alone say nothing of the requests that are between two statements |
| `Membership_proofs` | `TypeOK`, `RegistersAgree`, `PostsWereAllowed` | Again the statements left tell what a request has checked. Whoever is about to write a member, an owner, a request to join or a message found that it may, and this still holds unless another request is known to have got in between (`PostStands`, `JoinsAreOne`, `DirectsAreOne`, `ApprovedComeIn`); a channel has its founder (`ChannelIsFounded`); and `member_count` is right once nobody has a count to write or has counted what there is (`CountsAreFresh`). The registers alone do not tell who is about to count |
| `InteractiveMessages_proofs` | `TypeOK`, `PollAgrees`, `OverIsOver` | `Fresh`: what a request has read (the votes it counted, the counters and the state it is to tell) is still so, unless the poll has changed since and it is marked late. `VotesAreOne`, `Cleared`: between the removal of a user's votes and the new one there is none. `CountsAreShown`: what is shown is what there is, or somebody is about to tell who knows that it changed, or writes the counters first. `Playing`: a move about to be written is legal on the game as it was read. `PollAgrees` only speaks of states where nothing is under way, so it cannot be inductive |

The assumptions are the ones named in the modules: that constants have their types and are
disjoint, that whatever is counted is finite (users in `Membership`; users and calls;
users and options; the slots of requests in `Accounts`), that `None` is not a user, and that
a call has two users. Those on calls are in `Calls`, whose
instances `CallSignalling` and `CallRecords` are.

`OutcomeIsFinal` has no run of its own: `KeepsPromise` implies it on the instance. The run of
`OverlayTellsTheTruth` leaves the database idle, which the theorem `OverlayIsTrue` does not.

Only model-checked:

- liveness (`DueIsSettled`, `DueIsDispatched`, `RingingEnds`, `ClosedCallIsRecorded`,
  `MediaArrives`, `NobodyLeftOnline`), which rests on fairness and is out of the prover's
  reach;
- `PeerMesh`, whose `TypeOK` is all the safety its run checks: what matters there is
  `MediaArrives`;
- `StoredFiles`: `FilesMatchReferences` and `LossesAreNamed` are not proved yet;
- the client. `TimelineIsWhole` speaks of the messages that `SelectSeq` keeps, a recursive
  definition, so what it gives of every list would need induction over data, which is out
  of the prover's reach; `SentOnce`, `TextsAreKept` and `ListIsTrue` are not proved yet.

## Not modelled

- Components without a module: relationships, notifications (quiet hours compare two
  readings of a clock), monitoring, migrations, the event bus, the HTTP surface, the other
  pages, themes, the desktop shell. They are single statements, aggregates, routing or
  rendering: most of the lines of the repository are JSX, types, styles and strings, which
  have no behaviour of their own.
- In calls: the camera (like the screen, a track added later), the mute, a mesh of three,
  the logout while a call is on, participants' rows. A newcomer sees the microphone and
  camera as on, whatever the other has muted (`_ensurePeer`).
- In messages: threads' counters, mentions, pins, saved messages, notifications, the
  search itself. A pin that fails is undone in whatever chat is open by then
  (`frontend/src/pages/ConversationPage.tsx:2535-2537`).
- In presence: the news that clients get. "Typing" stays on when the typer's connection
  drops (`socket.ts:178-190`).
- In accounts: the tokens of sessions, the single sign-on transaction, the clock of sessions, the exchange
  with directories. A directory that answers nothing suspends everybody it did not
  name (`repositories/user.repository.ts:193-209`).
- In broadcasts, the management of lists; in polls, the hour at which they close.

Clocks are abstracted to "its time has come". In the models of calls and of the client a
user has one tab; `Presence` has several.

## Plan

Every component of the core has its module, and all that the server does is proved but for
the files. What is left to prove, in this order:

1. `StoredFiles`: `LossesAreNamed`, then `FilesMatchReferences`, by what a request has
   found of a file and who has referred to it since.
2. `ConversationPage`: `TextsStayInTheirChat`, which is nearly inductive.

`ChatClient`, `ConversationList` and `PeerMesh` stay with TLC.
