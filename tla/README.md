# A formal model of customer-support-hub

This directory holds TLA+ specifications of the NestJS API in `src/apps/api` and of
the browser's side of a session in `src/apps/web`,
TLC configurations that check them on small instances, and proofs that TLAPS
checks for every instance.  Every definition is a translation of code;
`PROJECT.json` gives the file and the lines for each (`map`), a mutated form of
the code that each property catches (`mutants`), and the places in the code that
the properties are about (`hazards`).

## The system

The API is a stateless Node process, of which several may run.  All durable
state is in PostgreSQL (through Prisma), in a vector store (Qdrant, or a map in
memory) and in an object store; Redis holds rate-limit counters.  A request is an
async function: other requests, and other instances, run between any two of its
`await`s.  Some statements are grouped in interactive transactions (READ
COMMITTED); many are not, and those over two stores cannot be.

| component | state | operations | who else touches it |
|---|---|---|---|
| Sessions and refresh tokens (`auth.service.ts`) | `Session`, `RefreshToken`, `User.status` | login, refresh, logout, logout-all, deactivate | the guards read it on every request; password reset revokes sessions; removal of a member and switching rewrite the tenant of a session |
| Password reset (`auth.service.ts`) | `PasswordResetOtp`, the password | request, verify, confirm | sends mail; revokes sessions; races with logins |
| Team (`team.service.ts`, `register`) | `Membership`, `Invitation` | invite, revoke, accept, register, change role, remove, expire | the guards read membership once, when the request starts |
| Organizations, workspaces | `Organization`, `Workspace`, tenant of a session | create, switch | team removal |
| Work items (`workflow-items.service.ts`) | `WorkflowItem`, `WorkflowEvent` | create, update | the agent's tools write the same rows; an assignment writes an outbox event |
| Outbox worker (`notifications.worker.ts`) and notifications | `OutboxEvent`, `Notification` | scan deadlines, poll, claim, notify, mail, deliver or fail; mark as read | every instance runs one on a 15 s timer |
| Agent runs (`agent.service.ts`, `agent-tools.service.ts`, `agent.gateway.ts`) | `AgentRun`, `AgentMessage` | run, clear the conversation | provider, tools, memory; tells the client the outcome over a socket or in the HTTP answer |
| Agent drawer (`agent-drawer.tsx`, `agent/page.tsx`) | the question under way, its socket, "New chat" under way | send, hear, close, clear | a client of agent runs, next to others |
| Agent memory (`agent-memory.service.ts`) | `AgentMemoryChunk`, vector points | remember, retrieve, clear | |
| Knowledge base (`knowledge.service.ts`, `knowledge-text.ts`) | `KnowledgeDocument`, `KnowledgeChunk`, vector points | upload, cut into chunks, index, retry, remove, retrieve | agent runs retrieve from it; the knowledge page puts the chunks of a guide together again |
| Attachments (`attachments.service.ts`) | `Attachment`, `AuditLog`, objects | upload, download, remove | hang on a work item, which is never deleted |
| Comments (`comments.service.ts`) | `Comment`, `WorkflowEvent` | create, list | hang on a work item |
| Page of an item (`workflow-items/[id]/page.tsx`) | what it shows of the item's comments and files | load, upload, delete, comment | comments, attachments, work items; colleagues change the same rows |
| Rate limiting (`rate-limit.store.ts`, two guards) | counters in Redis or in the memory of an instance | increment | auth routes by address and path, agent runs by user and organization |
| Web client (`lib/api.ts`, `lib/auth.ts`, pages) | the stored session of each tab, the cookies all tabs share | log in, call, refresh and call again, switch, log out, reload | every call is a request to the API |

What is hard in it, and what makes each part correct:

* **Sessions.**  Two refreshes with one token, a refresh against a revocation,
  locks taken in two orders, an error thrown in the transaction that has just
  written the revocation.  Correct means: one live token per live session, a
  chain that never forks, a closed session that stays closed with all its
  tokens, and an absolute lifetime nobody outlives.
* **Password reset.**  A count that is read and written back, a code verified
  twice, a reset that stops half-way.  Correct: a spent code is dead, one code
  buys one token, a reset consumes the code and closes the sessions it saw.
* **Team.**  Everything is checked before the transaction and written by id.
  Correct: one owner for ever, nobody inside without an invitation of their own.
* **Work items.**  The update writes back all columns of an old reading.
  Correct: history and row agree, an owner has been told, one reminder per
  deadline and type.
* **Outbox.**  Overlapping polls, retries, partial failure, a dead cycle.
  Correct: one holder per event, DELIVERED is true, back-off is kept, attempts
  end.
* **Agent.**  Retried requests, a tool that committed before an error, memory
  written after success but inside the `try`, clearing in the middle; a drawer
  whose connection, instance or page goes away.  Correct: the runs are those of an
  idempotent service, success means a complete record, the drawer is told what
  happened and does not wait for ever, a point in the vector store can be found
  again.
* **Knowledge.**  Two stores, failing calls, clean-up that can fail.  Correct:
  READY is searchable to the last letter, FAILED is clean, indexing ends, and a
  guide reads as the text that was uploaded.
* **Attachments.**  Object and row in two stores, in opposite orders for upload
  and removal, and calls that fail after their effect.  Correct: rows and objects
  match, the audit log tells what happened to the rows.
* **Page of an item.**  Answers in any order, next to colleagues, after the page
  was left.  Correct: it shows what it was told is there, and nothing it was told
  is gone.
* **Rate limiting.**  Two stores with different windows, changed over at any
  moment.  Correct: no window admits more than the limit of a store; memory refuses
  nobody below it, and Redis nobody who has paused for a window.
* **Web client.**  Tabs with one cookie and a stored session each, calls refused
  at the same time, answers after the tab has signed out.  Correct: a call acts
  once and never waits for a refresh that has ended, a tab does not spend its own refresh token twice, signed out stays signed
  out.

## Modules

One module per component, one action per awaited call, transaction or, where a
transaction takes row locks in an order that matters, per statement.  `pc[r]` is
where request `r` is, `call[r]` holds its arguments and what it has read.

| module | component | how state and actions correspond to the code |
|---|---|---|
| `Sessions` | sessions and refresh tokens | `user`, `session`, `token` are the committed rows; `held[r]` are the rows the open transaction of `r` has updated; `todo[r]` the rows an `updateMany` has still to lock. Login/`createSession`, `Refresh` with `ReadSession`, `ReadToken`, `Consume`, `Rotate`, and `Logout`, `LogoutAll`, `Deactivate` with the steps of `revokeSession`/`revokeAllSessions`. Writes become visible at `Rotate` or `Commit`; `ThrowUnauthorized` ends a transaction without them. |
| `RefreshChain` | abstract specification | What sessions promise: a session has at most one live token; a refresh replaces it, a closing ends the chain. `Sessions` implements it (`Chain` in `Sessions`, property `ImplementsChain`). |
| `SessionsProofs` | | The inductive invariant of `Sessions` and the theorems. |
| `PasswordReset` | password reset | One account; `otp` rows whose code and token hashes are the id and a count of issued tokens; `guesses` counts answers compared with a code. A code's `updateMany`, the look-up and each by-id update are steps of their own. |
| `PasswordResetProofs` | | The inductive invariant of `PasswordReset` and the theorems. |
| `Outbox` | outbox worker | `event` rows, `notified`, `read`, `mails`; `job[c][e]` is where cycle `c` is with event `e` (a cycle handles its events concurrently, as `Promise.all` does). |
| `Delivery` | abstract specification | What the outbox promises of an event: one attempt at a time, a mail per attempt and only after the notification, a pause of 1 to 60 minutes after a failure, DELIVERED only when told and for good. `Outbox` implements it (`Promise` in `Outbox`, property `ImplementsDelivery`). |
| `OutboxProofs` | | The inductive invariants of `Outbox` and of `WebClient`, the refinement and the theorems. |
| `WorkflowItems` | work items, SLA scan | `item` rows, `latest` the owner and deadline of the newest history event, `outbox` the notices. `Update` reads and decides, `Write` is the transaction with the values decided then. |
| `WorkflowItemsProofs` | | The inductive invariant of `WorkflowItems` and the theorems. |
| `Team` | team, invitations, tenant switch | `account`, `member`, `invite`, `tenant` (users whose session points to the organization); `accepted` counts how often an invitation made somebody a member. |
| `TeamProofs` | | The inductive invariant of `Team` and the theorems. |
| `AgentRuns` | agent runs, tools, memory | `run` rows with their messages, `chunk` and `point` for the memory of each run, `effects` the tools executed, `crossed` the runs remembered during a clearing, `wire[r]` what the client of a request has been told. One action per awaited call of `run`, `remember` and `clearConversation`; `Catch` is the catch block, `Crash` the loss of the instance. |
| `IdempotentRuns` | abstract specification | What the service promises its callers: one run of a key at a time, work only until the run has ended, an end that is final. `AgentRuns` implements it (property `ImplementsIdempotentRuns`). |
| `AgentChat` | agent drawer, over `AgentRuns` | `asked[d]`, `socket[d]` and `erasing[d]` are the question, the connection and the clearing of a drawer; callers of the REST interface ask with keys of their own choice (`ApiKeys`). |
| `AgentChatProofs` | | The inductive invariants of `AgentRuns`, `AgentChat` and `RateLimit`, the refinement and the theorems. |
| `Chunking` | chunking, and the knowledge page | Pure operators: `Chunks` is `chunkMarkdown`, `Guide` is `combineGuideSections`, over texts as sequences of characters. |
| `Knowledge` | knowledge base, over `Chunking` | `doc` rows with their chunks, `point` the vectors; `disturbed`, `leaked`, `lost` are history variables that name the exceptions of the properties. |
| `KnowledgeProofs` | | The inductive invariant of `Knowledge`, what `Chunks` and `Guide` compute, and the theorems. |
| `Attachments` | attachments | `row`, `audit` and `object`; `doubt` and `removal` are history variables that name the exceptions. An upload is `Upload`, `Put`, `Insert` and, after an error, `Compensate`; a removal `Remove`, `DeleteObject`, `DeleteRow`. |
| `AttachmentsProofs` | | The inductive invariants of `Attachments` and of `ItemPage` over it, and the theorems. |
| `ItemPage` | page of an item and comments, over `Attachments` | `comment`, `thread` and `activity` are the requests, the rows and the history events of comments; `phase`, `fetched` and `shown` the page's state, `asked`, `awaits` and `reply` its requests and their answers; `known` and `gone` record what it has been told. |
| `RateLimit` | rate limiting | `bucket[s][k]` is the count and expiry of key `k` in store `s`, Redis or an instance's memory; `asking[i]` counts the agent requests of an instance between their two increments; `log` records the tries, when and where they were counted and whether they were let pass. `Authenticate` is the one guard, `AskAgent` and `AskOrganization` the two increments of the other. |
| `WebClient` | web client, with `RefreshChain` as its server | `stored[b]` is a tab's session storage, `layout[b]` the copy the layout component read when it was mounted, `promise[b]` the tab's `refreshPromise`; `call[k]` is a page action with the `apiFetch` it is at, `refresh[k]` the refresh that call began. `Serve*` is the server; `GoOn`, `LoggedIn`, `Loaded`, `Switched`, `LoggedOut`, `Throw`, `AwaitRefresh` and `RefreshSettles` are the code after an `await`. `Sessions` implements the server (`ImplementsChain`). |
| `MC*` | | Constants and symmetry sets for TLC. |

Modelling assumptions, all about what is outside `src/`:

* PostgreSQL under READ COMMITTED: a statement sees committed rows and the
  writes of its own transaction; an `UPDATE` waits for a row another open
  transaction has updated and then re-evaluates its `WHERE` on the committed row;
  a cycle of waits (refresh locks its token before its session, a revocation its
  sessions before their tokens) is broken by cancelling one of the transactions,
  which is one of the rollbacks `Abort` allows at any time.
  Transactions that touch one row of interest, or whose lock order cannot
  matter, are one step.
* A call that reports an error has had no effect, except where the code makes
  the difference visible (a mail that went out before the final update failed)
  and in `Attachments`, `ItemPage`, `RateLimit` and `WebClient`, where it may have
  had its effect.
* Redis keeps its keys while it runs and shares the clock of the instances; the
  bounds on an instance's memory hold for the life of its process.
* A lost instance stops a request between two steps (`Abort`, `Crash`); an open
  transaction is rolled back.
* Time is a counter; durations keep their order, not their size.  In `Outbox`
  one tick is one minute and the back-off is computed as in the code.
* In a tab, code runs from one `await` to the next undisturbed, and everything
  that waits for one promise continues before the next answer is handled.  A
  browser stores the cookies of an answer when the answer arrives.  A request that a
  reload overtakes is served before the reload or not at all (`Reload` says why a
  later service looks the same).
* Hashes do not collide; tokens, codes, texts and ids are model values.

## Runs

| run | instance | what it shows |
|---|---|---|
| `sessions` | 1 user, 2 sessions, 3 tokens, 2 requests; sliding 2, absolute 3, clock to 3 | one live token, lifetimes, complete revocations, the refinement of `RefreshChain` |
| `sessions_reuse` | 1 session, 2 tokens | violated: see Findings |
| `password_reset` | 2 codes, 1 session, 2 passwords, 2 requests, 2 attempts, validity 1, clock to 1 | lock-out, one token per code, a complete reset |
| `password_attempts` | the same with more guesses | violated: see Findings |
| `outbox` | 2 events, 2 cycles, lists of 1, mail on, clock to 3, 1 crash, fair | claiming, the refinement of `Delivery`, progress |
| `work_items` | 1 item, 2 users, 2 requests, statuses new and closed, 1 deadline, clock to 1 | history, notices, reminders |
| `team` | owner and 2 users, 2 invitations, 2 requests | ownership and admission |
| `agent_runs` | 2 runs, 1 drawer with 1 key, 1 key of REST callers, 2 requests, 1 tool step, fair | the refinement of `IdempotentRuns`, a complete record, memory that can be cleared, true outcomes, sends that end |
| `knowledge` | 2 documents, 1 text of 2 chunks, 2 requests, fair; chunks of 8 letters with an overlap of 4, repeats of 2 to 5, at most 3 chunks and 13 letters; about 4,000 texts | READY and FAILED, progress, and guides that read exactly as their texts without the blanks around them |
| `attachments` | 2 files, 2 comments, an admin and a member who has the page open, 2 requests | rows, objects and audit log agree; the page keeps up |
| `rate_limit` | 2 instances, 1 user, 1 address; limits 1 (user, organization) and 2 (address), window 2, clock to 3, 4 tries | what is admitted in a window, and that refusals are earned: in memory by more tries than the limit, in Redis by the limit and no pause since |
| `web_client` | 2 tabs, 2 page actions in flight, 2 sessions, 3 tokens | one effect per call, nobody waits in vain, one refresh per tab, late answers |

Why the bounds are enough.  Every race in the list of hazards is between two
requests, or two requests and a third state change that the model makes in one
step.  Two sessions are
what `revokeAllSessions` needs to visit more than one; three tokens let a session
be rotated while another is opened.  The clocks run past the longest duration
(sliding, absolute, validity of a code; the first two back-offs).  Two chunks
distinguish "all" from "some".  `Chunking` scales 1200 letters, an overlap of 180 and
repeats of 24 to 300 down to 8, 4 and 2 to 5, with the same order among them: half a
chunk, an overlap and a repeat can each be met by a line break, a run of blanks or
the end of the text (`ChunkingAssumption` states the order: a repeat is looked for
between 24 and 300, the overlap of 180 is within that, and at most half a chunk), and
three chunks are needed for one with neighbours on both
sides.  Four tries are what it takes to fill two adjacent windows of
a limit of two, and a clock to 3 has room for a pause of a whole window.  `MaxClock`, `MaxGuesses`, `MaxCrashes`, `MaxTries` and the sets of
ids are the only bounds; in `WebClient` two page actions in one tab, or one in each,
are what a race between refreshes needs, and three tokens are a login, its
refresh and another login.  In `ItemPage` two requests are a request of the page and
one of a colleague, or two of the page.  A request that finds no id left ends as if its insert had
failed.

Fairness.  `Knowledge!Spec` assumes weak fairness of the
next step of a request that has begun: an awaited call returns, with a result or
an error.  No fairness is assumed for arrivals or for which error occurs.
`Outbox!FairSpec` assumes the same for each job and that the timer (`setInterval`)
fires again.  Crashes are never fair and are bounded.  `AgentChat!ChatSpec` assumes
weak fairness of the next step of the service, and that what is on a wire arrives
(`HearOutcome`, `ChatCleared`); nothing makes a user act, an instance live on or a
connection last, so `SendsEnd` is conditional on the socket.  No liveness is claimed
where it would need more: a lost event or run is not taken up again by anybody.

`outbox` switches the deadlock check off: when every event is delivered and the
clock has reached its bound, the worker is idle; `rate_limit` does, because the
clock and the tries are bounded.  In the other runs no state is without a
successor.

## Findings

1. `ReuseRevokesSession` (`sessions_reuse`).  `refresh` revokes the session when it
   is shown a used token and then throws inside the transaction callback
   (`auth.service.ts:348`), so the revocation is rolled back.  The unit test that
   says "refresh token reuse revokes the server session"
   (`tests/unit/auth/auth.service.test.ts:136`) uses a double without rollback.
   The same holds for the expiry written by `expireSession`.
2. `AttemptsAreBounded` (`password_attempts`).  Wrong answers write back a count
   they read (`auth.service.ts:251`); answers in parallel are counted once, while
   the README promises at most five attempts.

Observed while modelling, reachable in the models or read next to them, and not
stated as properties:

* *Sessions.*  A login that overlaps a revocation opens a session after it.
* *Password reset.*  Two requests for a code can leave two, of which the newer
  counts.
* *Team.*  An acceptance that read PENDING writes by id (`team.service.ts:189`), so
  with a second acceptance and a removal of the member in between, one invitation
  admits its user twice; the repository's `README.md:96` calls the tokens one-time.
  The team page reads members and invitations at different times, and two of its
  `load()`s race, so an older answer may win.
* *Work items.*  A MEMBER's status update writes an old owner back over a concurrent
  assignment (`workflow-items.service.ts:91`, `:105`), and so does the page's routing
  form, which sends the owner it loaded; reopening an item over REST keeps `closedAt`
  (`:114`) while the tool clears it.
* *Outbox.*  An event whose cycle died stays PROCESSING; a mail is sent again when the
  final update of its event failed.
* *Agent.*  A run whose instance died stays RUNNING and its key is refused.  The key
  of a FAILED run is answered as `run.completed`, with the text of the error
  (`agent.service.ts:41`).  A run that is being remembered while its conversation is
  cleared leaves a point that no later clearing finds (`agent-memory.service.ts:103`),
  although the drawer says it permanently deletes (`agent-drawer.tsx:209`).  The drawer
  does not keep a question from being sent during a clearing (`:146`, against `:123`),
  waits for ever when its connection is lost and comes back, and asks again with a new
  key, so the idempotency of runs never helps it.  Service and gateway both report a
  failure.
* *Knowledge.*  A document whose instance died stays INDEXING; two retries of one
  document can leave it READY without points; one removed while it is indexed leaves
  points.  A guide that says something twice loses letters when its chunks are put
  together (`knowledge/page.tsx:29`), a long run of blanks makes an overlap appear
  twice, and a text of more than about 160 chunks (163,000 letters) is refused though
  the extractor admits 512,000.  The page does not cancel a load, so a late answer
  wins.
* *Page of an item.*  The comment button stays enabled, so pressed twice it adds two
  comments, and the answer empties what was typed meanwhile; previews and downloads
  are fetched without the refresh of `apiFetch`.
* *Rate limiting.*  `RedisRateLimitStore.increment` (`rate-limit.store.ts:68`) renews
  the expiry of the key with every try, the refused ones included, so the count only
  starts anew after a whole window of silence: a user who sends a request every 50
  seconds is refused at the eleventh, although the setting is ten per minute.  The
  memory store does not do this.  `RefusalsAreEarned` says what each store does
  promise: who paused for one window is never refused by Redis.  Setting the expiry
  with the first try only would give up `AdmittedWithinLimit` for Redis (its mutant is
  that change).  Every bound is per store: with Redis out of reach the limit is
  multiplied by the number of instances, which the repository's `README.md:51` says.
* *Web client.*  A tab whose refresh loses against another tab's signs itself out
  although the session is open; after a login as somebody else in another tab, a
  refused call is sent again as that user; `switchOrganization` and
  `createOrganization` write back a session they read before their request, so an
  expired access token, or one of a tab that has signed out, is stored again; and
  signing out with an access token that has expired leaves the server session and
  the cookies as they are (`org-layout-client.tsx:52`).

## Proofs

`SessionsProofs` proves, for any sets of users, sessions, tokens and requests and
any durations, from the assumptions of the module alone (`RowsAssumption` and
`TimeAssumption`: ids are disjoint, durations natural numbers):

| theorem | statement |
|---|---|
| `Invariance` | `Spec => []IInv` |
| `TypeCorrect` | `Spec => []TypeOK` |
| `LiveTokens` | `Spec => []OneLiveToken` |
| `WithinAbsolute` | `Spec => []AuthorisedWithinAbsolute` |
| `Closed` | `Spec => ClosedIsFinal` |
| `OneSuccessor` | `Spec => OneSuccessorPerToken` |
| `ExpiryGrows` | `Spec => ExpiryNeverRecedes` |
| `RevocationCompletes` | `Spec => RevocationIsComplete` |
| `Refinement` | `Spec => ImplementsChain` |

The argument.  `OneLiveToken` is not inductive: `Rotate` writes a token as ACTIVE
into a session that it read two steps earlier, and a revocation writes rows it
found several steps earlier.  `IInv` adds what the row locks guarantee in between:
two transactions never hold one row; a refresh that has consumed its token holds
it, and while it does the session it belongs to is still ACTIVE with that token as
its current one, because whoever closes a session must first have locked its live
token; a revocation under way holds the sessions it has visited and has visited
every live token of those; the time a refresh has read is no older than the
issue of the live token, which is what `ExpiryNeverRecedes` rests on.  Each action
is one step of `IInv /\ [Next]_vars => IInv'`; lemmas state what the actions have
in common (which variables they leave alone).  The action properties and the
refinement follow from `IInv` and one step.

`ClosedIsFinal` is about a closed session with its tokens: neither its row nor a token of
its is written again and it is given no new token.  Besides `IInv` its proof needs that
a token row which does not exist belongs to no session (`Unissued`).  `ClosedIsFinal`,
`OneSuccessorPerToken` and `ExpiryNeverRecedes` have no run of their own.

`AttachmentsProofs` proves, for any sets of files, users, admins and requests, from
`FilesAssumption`, and of the page, for any set of comments, from `PageAssumption`:

| theorem | statement |
|---|---|
| `Invariance` | `Spec => []IInv` |
| `TypeCorrect` | `Spec => []TypeOK` |
| `RowsAndObjects` | `Spec => []FilesMatchRows` |
| `AuditTrail` | `Spec => []AuditTellsRows` |
| `PageInvariance` | `PageSpec => []PageInv` |
| `PageTold` | `PageSpec => []PageKeepsUp` |

`FilesMatchRows` alone is not inductive: `Insert` makes a row on the strength of a
`Put` that came before it, `Compensate` deletes an object on the strength of an
insert that failed, and `DeleteRow` a row on the strength of an object that is gone.
`IInv` adds that an upload whose row is not there (as far as it can know: its file is
not in `doubt`) works on a file nobody else works on, that the object is there from
`Put` to `Insert`, and that a removal has seen a row and, once it has deleted the
object, does not see it again, because only an upload of an absent row writes one.
Again there is a lemma per action, with one step for each part of `IInv`.

Whatever the page and its colleagues ask, a step of `ItemPage` is a step of
`Attachments` or leaves it alone, so `IInv` holds there as well.  `PageKeepsUp` needs two
more things.  A file's row only goes from absent to stored to deleted (`RowsStayStep`):
what the page was told is gone cannot come back, and what it was told of has been there.
And a request is still about what the page asked for (`AskedInv`): an upload's file is
in neither `known` nor `gone` until its answer is heard, because only one upload of the
page is under way at a time and a file has one upload; and an answer that says `ok` is
true when it is heard, however late.

`OutboxProofs` proves, for any number of events, cycles, lists and crashes and any
clock, from `OutboxAssumption`:

| theorem | statement |
|---|---|
| `Invariance` | `Spec => []IInv` |
| `TypeCorrect` | `Spec => []TypeOK` |
| `SingleHolder` | `Spec => []OneHolder` |
| `Refinement` | `Spec => ImplementsDelivery` |

`OneHolder` rests on the claim being one conditional update: whoever finds an event
PROCESSING did not claim it.  For the refinement `IInv` adds `Told`: how far a cycle
has come with an event says whether the notification is there and whether this
attempt's mail is still to be sent, which is what `Delivery!Mail` and
`Delivery!Succeed` ask for.  Each action of `Outbox` is then shown to be a step of
`Delivery` or to leave its variables alone; the back-off is between 1 and 60 minutes
by a case split over the attempts.

The same module proves of the web client, for any sets of tabs, page actions, sessions
and tokens, from `TabsAssumption`:

| theorem | statement |
|---|---|
| `WebInvariance` | `WebSpec => []WebInv` |
| `WaitingEnds` | `WebSpec => []NobodyWaitsInVain` |
| `DoneOnce` | `WebSpec => []AtMostOneEffect` |
| `OwnTokenOnce` | `WebSpec => []NoSelfRefusal` |
| `StaysOut` | `WebSpec => SignedOutStaysOut` |

`WebInv` has a part for each.  Who waits for a refresh waits for the one that the
`refreshPromise` of its tab names, and that one is under way (`WaitInv`, `PromiseInv`).
A call that is sent again has been refused, so it has done nothing yet (`EffectInv`).
`NoSelfRefusal` is about the cookies, which all tabs share, and about answers that
arrive late; its part says where the successor of a used token is.  A token is issued
to one session (`TokenInv`), and what the pages and the cookies hold was issued
(`PageInv`, `CookieInv`).  While the cookies still hold a token that a tab has used, in
a session that is open, its successor is in the answer on the way to that very tab, or
an answer was lost (`WayInv`); and a tab has one refresh under way at a time, so it
does not present the token again before the answer is there (`SentInv`).

`WorkflowItemsProofs` proves, for any sets of items, users, requests, statuses and
deadlines, from `ItemsAssumption`:

| theorem | statement |
|---|---|
| `Invariance` | `Spec => []IInv` |
| `TypeCorrect` | `Spec => []TypeOK` |
| `History` | `Spec => []HistoryEndsAtRow` |
| `OwnersTold` | `Spec => []OwnerWasTold` |
| `Reminders` | `Spec => []OneReminderPerDeadline` |

An update writes what it decided on an old reading, so `OwnerWasTold` needs to know of
every update under way that the owner it is going to write either was told before or
is told by the notice written with it, however many updates commit in between: notices
are never deleted.  `Reminders` needs that a scan under way has at most one reminder
for an item, and none called overdue before its deadline.

`TeamProofs` proves, for any sets of users, invitations and requests, from
`TeamAssumption`:

| theorem | statement |
|---|---|
| `Invariance` | `Spec => []IInv` |
| `TypeCorrect` | `Spec => []TypeOK` |
| `Ownership` | `Spec => []OwnerStays` |
| `Admission` | `Spec => []MembersWereInvited` |

Requests write by id what they read earlier, so the argument is about what no step
takes back (`Kept`): an account, a membership row, the address and the role of an
invitation, the count of its acceptances.  `IInv` then says of each request under way
that it is about somebody who is not the owner, or about an invitation of that very
user, both of which stay true whatever happens before its write.

`AgentChatProofs` proves, for any sets of runs, drawers, keys and requests and any
number of tool steps, from `RunsAssumption` and `ChatAssumption`, and of the request
limits, for any sets of instances, users and addresses, any limits and any window, from
`LimitAssumption`:

| theorem | statement |
|---|---|
| `Invariance` | `ChatSpec => []ChatInv` |
| `TypeCorrect` | `ChatSpec => []ChatTypeOK` |
| `Recorded` | `ChatSpec => []SuccessIsRecorded` |
| `Findable` | `ChatSpec => []PointsAreFindable` |
| `ToldRight` | `ChatSpec => []OutcomesAgree` |
| `Refinement` | `ChatSpec => ImplementsIdempotentRuns` |
| `LimitInvariance` | `LimitSpec => []LimitInv` |
| `WithinLimit` | `LimitSpec => []AdmittedWithinLimit` |
| `FairRefusals` | `LimitSpec => []RefusalsAreEarned` |

`ChatInv` says of a request how far it has come with its run and which messages it has
written unless the conversation was cleared meanwhile (`RunInv`), that no other request
works on that run (`Alone`), that a run without a row has left nothing (`Unborn`), and of
a clearing which points it has still to delete (`MemoryInv`): a run that is being
remembered has a row in `chunk` or is in `crossed`.  Each step of the service is then a
step of `IdempotentRuns` for the run of its request, or changes neither status nor work.

`OutcomesAgree` compares what a drawer was told with the row, which it knows by its key
only.  So the invariant adds that the run of a request has the key of the request, that
a run keeps its key, and that the key a drawer makes up (a random UUID) is known to no
row, request or other drawer.

For the limits, `LimitInv` says of every store and key when the count at hand began and
which admitted tries it stands for.  Redis renews the expiry with every try, so what it
admitted before the count began is a whole window back, and any window meets one count
only.  The memory of an instance keeps its windows, which do not overlap, so any window
meets two of them at most, each with no more than the limit; and what it counts it has
logged within the last window, which is why it is fair.  What Redis counts
(`RedisStreak`) began at some moment from which on, up to the expiry, every window has a
try in it, of which the last may have been answered by the memory of an instance: a
command that fails may have counted all the same.

`PasswordResetProofs` proves, for any sets of codes, sessions, passwords and requests,
any validity and any maximum of attempts, from `ResetAssumption`:

| theorem | statement |
|---|---|
| `Invariance` | `Spec => []IInv` |
| `TypeCorrect` | `Spec => []TypeOK` |
| `Locked` | `Spec => []LockedOut` |
| `OneToken` | `Spec => OneTokenPerCode` |
| `Complete` | `Spec => ResetIsComplete` |

A wrong answer writes a count that may be out of date, but the count it has read is below
the maximum, so what it writes is at most the maximum, and then consumes the code.  The
token of a code never changes once it is there (`Kept`), so a reset that found it still
has the last one when it commits.

`KnowledgeProofs` proves, for any sets of documents, texts and requests and any sizes of
chunks, from `KnowledgeAssumption` and `ChunkingAssumption`:

| theorem | statement |
|---|---|
| `Invariance` | `Spec => []IInv` |
| `TypeCorrect` | `Spec => []TypeOK` |
| `Tidy` | `Spec => []FailedIsClean` |
| `Searchable` | `Spec => []ReadyIsSearchable` |
| `Cutting` | for any text: every letter is in one of `Chunks(text)`; these begin and end with letters, are at most `Size` long, and are no more than the text has characters |
| `Reading` | for any text that is `Plain`: `Guide(text) = Trimmed(text)` |
| `ReadsAsText` | `Spec => []GuidesReadAsText` |

A document that no removal has touched and no two retries at once has at most one request
at work on it (`Alone`): a retry begins only when the document is FAILED, and the request
that indexes it has it INDEXING.  So what that request has written stays until it ends:
the points up to the chunk it is at, and none after a clean-up that worked.

`Cutting` and `Reading` are about the two recursive functions of `Chunking`, for texts of
any length.  They rest on the least element of a set of numbers (`Least`, from the
well-foundedness of `<` on the naturals), which gives induction over a range in either
direction (`Upward`, `Downward`): what holds of a number if it holds of all greater ones
holds of the whole range.  `LoopEnds` uses it to show that the loop of `chunkMarkdown`
ends, that is, that a function with its equation exists, because every turn begins
further on (`NextOf`); `CutsAreGood` to show what the loop pushes.  For a plain text,
`CutsAreChained` shows that every chunk begins inside the one before, by at least
`MinRepeat` and at most `Overlap` letters, since a chunk ends behind its middle, an
overlap is at most half a chunk, and runs of blanks are short; `CombineOf` that the page
then finds this overlap and, as no `MinRepeat` letters come twice, no other; and
`ChainReads` that all chunks together give the text back.

Only model-checked: `EventsMoveOn`, `IndexingEnds` and `SendsEnd`, since liveness under
fairness, and ENABLED, are beyond the prover.

## Not modelled

The AI and embedding providers, security headers, configuration, metrics, health and
deployment; how PDF and DOCX files are read; mail texts; what the dashboard, the
team, organization and settings pages show, which load, display and keep nothing;
`PROJECT.json` gives the reason for each.  Creating organizations and workspaces is
one transaction of inserts with random slugs.  Titles, descriptions and priorities of
items, audit logs other than those of attachments, and the reads that only list are
left out of the modelled components.

## Plan

Order of work; all blocks are done.

1. Sessions with `RefreshChain` and proofs; then password reset, outbox, work
   items, team, agent runs, knowledge.
2. Attachments and rate limiting.
3. The web client with its refresh, over `RefreshChain`; proofs of `Attachments`.
4. The arithmetic of `chunkMarkdown` and of `combineGuideSections` (`Chunking`).
5. Abstract specifications with their implementations: `Delivery` for `Outbox`,
   `IdempotentRuns` for `AgentRuns`.
6. The pages that keep state of their own over the API: the drawer (`AgentChat`), the
   page of an item with comments (`ItemPage`).
7. Proofs of `Outbox`, `WorkflowItems`, `Team`, `AgentChat`, `PasswordReset`,
   `Knowledge` and `ItemPage`.
8. Proofs of `WebClient`, of `OutcomesAgree`, of `RateLimit`, and of what `Chunking`
   computes for every text.
