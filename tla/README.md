# A formal model of google-drive-mcp

This directory holds TLA+ specifications of the stateful parts of the MCP server in `src/`, TLC
configurations that check them on small instances, and TLAPS proofs of their main theorems for every
instance. Paths below are relative to the repository's root as `src/...`; the server's TypeScript is
under `src/src/` and the relay under `src/infra/cloudflare-relay/`.

    tlc -workers 2 -config MCTeamTokens.cfg MCTeamTokens       # model-check a run
    tlapm TeamTokensProofs.tla                                 # check the proofs of a module

`PROJECT.json` lists the components, the runs, which definition models which lines, one mutant of the
code per property, the hazards of the code at their lines, and the theorems.

## 1. The system

The server exposes Google Drive, Docs, Sheets, Slides and Calendar as MCP tools, in three modes: over
stdio for the accounts of one local user, over HTTP for the same, and in *team mode*, as an OAuth
authorization server for MCP clients that holds one Google grant per team member. It is one Node
process. Nothing runs in parallel, but every `await` lets other requests, timers and callbacks in, and
several components keep state across awaits: that is where the code is hard to test.

| Component | State it keeps | Operations | What is hard |
|---|---|---|---|
| **Token endpoint** (`auth/team/provider.ts`, `memoryStore.ts`, `types.ts`) | access and refresh tokens, codes, clients with a recency clock | register, exchange a code, refresh, verify, revoke, sweep | a refresh is three durable writes with other requests in between; caps, tombstones and a grace window; write-backs of records read earlier |
| **Team store on disk** (`auth/team/fileStore.ts`) | a write queue, the maps, `team-store.json` | `init`, `mutateDurable`, `flush` | failed reads and writes, crashes, a restart that overlaps the old process, a damaged file |
| **Google sign-in** (`provider.authorize`, `callback.ts`, `googleIdp.ts`) | pending authorizations, codes with lookup counters, members | authorize, callback, challenge lookup | expiry, replay and the cap on members race; a refused sign-in must give its grant back |
| **Team clients** (`clientFactory.ts`) | cached OAuth clients and Drive services, refreshes in flight | getClient, getDrive, evict, persist, handleRevokedGrant | events of a client that was replaced; a dead-grant answer for a grant that was renewed |
| **Team runtime** (`runtime.ts`, `config.ts`) | the sweep timer | create, stop, flush | shutdown with work queued |
| **Local accounts** (`accountStore.ts`, `accountClientFactory.ts`, flows of `index.ts`) | `tokens.json`, caches, one-time initialisation | add, remove, set default, refresh, migrate | a refresh persisted after a removal or a new consent; caches filled after an eviction |
| **Authorization server** (`auth/server.ts`, `auth.ts`) | a listener on one of five ports, the client of its flow | start, callback, stop | several consents at once on shared ports; a time-out against a callback |
| **Account resolver** (`accountResolver.ts`, `sessionStore.ts`) | selections by session, which nothing reads | resolve | a default that lacks the scope; accounts that change while a call waits |
| **HTTP sessions** (`index.ts` 98-116, 788-845, 1286-1561) | the session map, idle timers, who opened a session, the shared build of the authorization | initialize, request, DELETE, idle close, shutdown | close, timeout and requests in any order; a session used by another member |
| **Tool dispatch, resources, CLI** (`index.ts`) | nothing of its own | one call each | who a call acts for |
| **Relay and bridge** (`infra/cloudflare-relay`) | pending requests, the bridge socket, active fetches, back-off | forward, response frames, cancel, reconnect | a new bridge replaces the old; timeout against late answer |
| **Retry core** (`utils/retry.core.js`) | attempt counter, deadline | retry | an attempt that was applied and not answered |
| **Drive tools** (`tools/drive-base.ts`, `index.ts` 356-440, `download-file.ts`) | none; files in local directories | 27 tools, and six of the parity layer, that change files, each a sequence of requests | check-then-create; what was read is stale when written; a sequence that breaks off; two downloads to one path |
| **Docs, Sheets and Slides tools** (`tools/docs.ts`, `slides.ts`, `sheets.ts`, `utils.ts`) | none | 58 tools that edit one file, each one to three requests | indexes computed from a file that was read before; tabs; A1 ranges; images that are public while they are fetched |
| **Calendar tools** (`tools/calendar-base.ts`) | none | one or two Google calls each | an event is read, merged and written as a whole |
| **Parity layer** (`tools/openai-drive-parity*.ts`, `google-drive-*.ts`) | none; temporary copies of files that a client provides | lists of edits with images, lists of comments; copies and new files, at Google's own server first; duplicated sheets; permanent deletion; single requests as the caller gives them | images are cleared whatever fails; the local attempt repeats what a server that answered too late has done |
| **Windows scripts** | none | installation | nothing that a model would show |

How they interact. An HTTP request of a team member carries an access token; the session layer asks the
token endpoint to verify it, binds the session to the member, and dispatches the tool with a Drive
client from the team clients, which refresh the member's Google grant and write the result back through
the store. Google's answers come back as callbacks: the sign-in callback stores the member, tells the
team clients to evict theirs, and issues the code that the token endpoint later exchanges; a dead grant
flags the member and revokes the member's MCP tokens. Every durable change, whoever makes it, goes
through the one queue of `mutateDurable`.

What makes each correct, in a line: tokens never exceed the sign-in they come from and die with it
(token endpoint); what was answered is on disk (store); a code is issued once, to the client that asked,
and no grant is left behind by a refused sign-in (sign-in); a call never acts through a replaced or
revoked grant for longer than it overlapped the replacement (clients, accounts); a session serves only
who opened it and is closed exactly once (sessions); each relayed request is answered exactly once
(relay).

## 2. Modules

| Module | Models | Checked by | Proved in |
|---|---|---|---|
| `TeamTokens` | token endpoint, the maps behind it, the queue of `mutateDurable`, the sweep timer, the two mutations of a sign-in and of a dead grant | `MCTeamTokens` | `TeamTokensProofs` |
| `DurableStore` | `FileTeamStore`, from boot to shutdown, for any number of processes on one file | `MCDurableStore` | `DurableStoreProofs` |
| `AtomicStore` | what a caller of `mutateDurable` may rely on (an abstract specification, not code) | as a property of `DurableStore` | refinement theorem in `DurableStoreProofs` |
| `TeamSignIn` | the two hops of signing in: `/authorize`, Google's callback, the code's lookups and its exchange | `MCTeamSignIn` | `TeamSignInProofs` |
| `SignInFlow` | what a sign-in promises: one use, by the client that asked (abstract) | as a property of `TeamSignIn` | refinement theorem in `TeamSignInProofs` |
| `TeamGrant` | one member's Google grant, the cached clients, their refreshes, a new sign-in, a dead grant | `MCTeamGrant` | `TeamGrantProofs` |
| `Relay` | the Durable Object, the bridge, and connections that break and are replaced | `MCRelay` | `RelayProofs` |
| `Accounts` | the accounts of a local user: `tokens.json` and its migrations, the consents, the cached clients, for several processes | `MCAccounts` | `AccountsProofs` |
| `AuthServer` | the consent pages of local users: ports, links, callbacks, time-outs | `MCAuthServer` | |
| `DriveTools` | every Drive tool that changes something, called by several sessions, with path resolution, the retries of an insertion, downloads and PDF chunks | `MCDriveTools` | `DriveToolsProofs` |
| `AccountResolver` | which accounts a call runs as, in each mode, and what that should be (operators only) | through `HttpSessions` | `AccountsProofs` |
| `HttpSessions` | the HTTP server: sessions, idle timers, shutdown, and the way of a call to its account | `MCHttpSessions` | `AccountsProofs` |
| `EditRequests` | what the next four share: the requests of a handler, marked text, lists of edits with their images | through `Editors` | |
| `Documents`, `Presentations`, `Spreadsheets`, `Calendars` | the tools that edit one kind of file, as functions from the answers so far to the next request, and Google carrying out a request | through `Editors` | |
| `Editors` | calls of these tools by several sessions to one file | `MCEditors` | `EditorsProofs` |

`TeamTokens` and `DurableStore` meet at `mutateDurable`. `TeamTokens` uses it as `AtomicStore` describes it, without the
failures: one mutation at a time, in call order, applied and then answered. `DurableStore` shows when
that holds: for a process alone with its file.

### TeamTokens

State. `accessTokens`, `refreshTokens`, `users`, `codes`, `clientLastUsed` and `lastClientTick` are the
maps of `memoryStore.ts`. Tokens are numbered in the order they are minted, one number for the access
and the refresh token of a pair, so `createdAt` and `expiresAt` grow with the number; a code names the
token family that will descend from it, as `family` does in the code. `job[j]` is a request: what its
handler keeps in local variables across its awaits, and the mutation it is waiting for. `writeQueue` and
`writing` are the promise chain. `revoked`, `known` and `usedSince` are history, for properties only.

Actions. A handler is cut at its awaits on `mutateDurable` and nowhere else, because the lookups before
them are awaits on resolved promises over in-memory maps with no other effect in between. So
each request has a first step (`ExchangeRefreshToken`, `RevokeToken`, ...: every check up to the first
mutation, with the clock and the records it read), each mutation is a step of the queue
(`SaveRefreshToken`, `RevokeTokenFamily`, ...: the whole callback given to `mutateDurable`, with its
evictions), and each continuation a step that queues the next mutation (`ThenMutateAgain`), stores the
authorization code (`ThenIssueCode`) or answers (`ThenRespond`). A request that is refused without
changing anything is not a step. The sweep is one more job, started by `SweepTimer`.

Abstractions. A PKCE mismatch, another redirect URI or resource is the flag `matches` of
`ExchangeAuthorizationCode`: the code is burned all the same. Token strings and their hashes are the
numbers. The in-memory store applies a mutation without the queue; its behaviours are those in which
the queue is empty at each call. Failures of the disk are left to `DurableStore`.

Properties. `TokensKeepTheirGrant`: no chain of narrowed refreshes changes who a token speaks for or
widens it. `TokensCapped`: both caps, in spite of the mutation between the check and the tombstone; the
tombstone cap is in fact exceeded by overlapping rotations, and the property is the exact bound. `CleanRevocationIsFinal`: after a revocation that found no exchange in flight nothing
of the family comes back. `SuccessorStoredFirst`: wherever the process stops during a rotation, the
session has a token to come back with. `ActiveClientSurvives`: only `MaxClients` clients used more
recently can evict one. `NeverReactivated`: a record written back late never revives a token.
`ExpiredTokensSwept` is liveness.

### DurableStore

State. A mutation is a number in call order, and the content of the file (`file`, with `health` good,
absent or corrupt) and of each process's maps (`mem`) is the sequence of the mutations in it. That tells
a lost, repeated, reordered or unwanted mutation from a good history, whatever the mutations do. `stage`
says where a process is: in `init()` (`quarantine`, `starting`), between mutations (`ready`), or between
the re-read and the rename (`writing`) or the rename and the answer (`written`). `queue` is the promise
chain, `tail` the promise `flush()` awaits. `stale`, `kept`, `due` and `excused` are history.

Actions follow `fileStore.ts`: `Load`, `FindCorrupt`, `Quarantine`, `RefuseToStart`, `Start` and
`StartFails` are `init()`; `Call` is `mutateDurable`; `Mutate` is its callback up to the write
(`MergeFromDisk`, then the mutation), `MutateThrows` the mutation that refuses, `Write`, `WriteFails` and
`Resolve` the write and the two ways it ends. `Flush` and `Exit` are the shutdown of `index.ts`. `Crash`
and `DamageFile` come from outside. The re-read and the mutation are one step, and so are the temporary
file and its rename: what happens in between touches nothing another step can see, and the window from
the re-read to the rename, which others can see, is open between two steps.

Properties. `ResolvedIsDurable`: what was answered stays on file, through failures, crashes, boots and
other processes, until the file is damaged or replaced by a process that missed a write. It is not
enough for this that reads and writes are atomic: a boot must not mistake an unreadable file for a
corrupt one, and a failed re-read must keep maps that hold everything on file. `RejectedStaysOut`: a
mutation reported as failed reaches the file only through a later write that could not re-read.
`ExitAnswersTheQueue` and `EveryCallSettles` (liveness) are about the queue.
`ImplementsAtomicStore` is the refinement.

### TeamSignIn

State. A flow is one call of `/authorize`, known by the state it sent to Google; a callback stands for
the grant Google issues to it and for the code it mints. `pending` and `codes` are the maps that live in
memory only; `users` is the map of members and `file` the same on disk, with the queue in between. `cb`
is where a callback's handler is: `exchanging` (awaiting Google), `saving` (in the queue), `givingBack`
(awaiting the revocation). `live` is what Google honours.

Actions. `Authorize` is `authorize` with `savePendingAuthorization`, its sweep at the cap and its
refusal; `Callback` the synchronous head of the handler up to the exchange, in which the state is
consumed whatever follows; `ExchangeCode` everything from Google's answer to the next await, with the
domain check, the missing refresh token and the decision to give the grant back; `UpsertUser` the
mutation, which sees the member cap again on what it re-reads; `IssueCode` and `WriteFails` its two ends;
`LookUpCode` the challenge lookup that the SDK makes before every exchange, and `ExchangeCodeForTokens`
the exchange. `Restart` loses what is in memory. Google revokes all grants of a person at once, as
`callback.ts:103` relies on.

Properties. `MembersCapped`: sign-ins that overlap never exceed the cap. `CodesAreGuarded`: a code is
answered for at most `maxPkceLookups` times and only when its member is on file. `NoGrantLeftBehind`: a
refused sign-in leaves no live grant behind unless something failed. `RefusalSparesMembers`: once a member
stands (the grant on file and in memory is one that Google honours, and nothing of the member's is being given back),
no sign-in that is refused, given back, failed or repeated, the member's or anybody's, ever takes that grant, although a
revocation at Google takes all grants of a person. A refusal that had begun to give back when the member was stored does
take it (`callback.ts:109` reads the record before it awaits); `Stands` leaves exactly that out. `ImplementsSignInFlow`: the flow of `SignInFlow`, in which each stage has one
holder, is what every replayed state, repeated code and restart amounts to.

### TeamGrant

State. Everything is keyed by `sub`, so one member is modelled. `creds` are the OAuth2 objects ever
made, `client` and `service` the two caches, `refresh` the shared refresh in flight with the state of its
answer, `library` the objects that refresh inside `google-auth-library` for a request of their own.
`user` is the record in memory, `file` what is on disk of it and of the member's MCP tokens (`mcp` in memory),
`queue` and `writing` the mutations, `faults` the writes that failed and `givenUp` the revocations given up for it.

Actions. `Start` is a tool call that asks for its service and its client: both at once, or a wait for the
refresh. `AnswerRefresh` is Google; `RefreshSucceeds`, `RefreshFails` and `GrantIsDead` the three
branches of `refreshIfNeeded`, and `WaitersGoOn` what everybody who waited does before anything else can
run (promise continuations of one settlement are not interleaved with other events). `FlagDone`,
`RevokeDone` continue `handleRevokedGrant`, whose `try` (`clientFactory.ts:164-181`) makes `RevocationFails` of a failed
write: after a flag that was not written the MCP tokens are not touched; the client is evicted and those who
wait are rejected all the same. Any other write may fail too, of a refreshed token, a sign-in or a code exchange, with what its
handler does then; the maps keep a mutation whose write failed until `Reread`. `SignInReturns` and `UpsertDone` are the callback's upsert and
the eviction `runtime.ts` hangs on it. The listener and the library share one credentials object, and
whether the old refresh token is already in it when the update is built depends on the library's order of
continuations: `PersistRefreshed` allows both.

Properties. `SignInTakesEffect`: a sign-in that found nothing in flight stays in force, in the record and
the caches. With something in flight the code makes no such promise: a `getDrive` that awaits `getClient`
while the sign-in evicts puts the service of the old grant back, where later calls find it, and a late `invalid_grant`
flags the record of the new grant. The property excludes these overlaps, and does not catch what goes wrong in them.
`WaitersAreServed`: nobody waits for a refresh that is not there; it says nothing of *which* grant a
waiter's refresh is of. `DeadGrantSignsOut`: a dead grant ends in withdrawn MCP tokens, in memory and on file,
unless this revocation is given up because a write failed. The code then leaves the tokens in force, and only logs it.

### Relay

State. `link` is a connection as the Durable Object sees it, `ws` and `wsOpen` the same at the bridge;
frames are in `toBridge` and `toRelay`. `pending` is the relay's map and `entry` the object that the map
and the closures of `forward` share, which outlives its removal from the map. `caller` is where the
outside request is, or how it ended; `work` is `forwardBridgeRequest`, `active` the bridge's map of
abort controllers.

Actions. `Forward`, `Send`, `Timeout`, `Continue` and `Cancel` cut `forward` at its awaits: between the
frame that settles the head of the answer and the continuation that builds the stream, further frames
are buffered, the stream may fail or end, and the connection may go. `DeliverToRelay` is one
`webSocketMessage`, or the close frame; `WebSocketGone` is how a broken connection is noticed. The bridge
acts in `DeliverToBridge`, `Origin...`, `AbortedFetch`, and reconnects in `Terminate`, `Connect`,
`WsOpens`. `OtherBridge` is a second bridge with the same key, `CutSocket` and `Exit` what may fail.

Properties. `HeldAtBothEnds`: whoever waits can be reached by a frame, the timeout or the end of the
connection, the map holds nobody else, and the bridge can abort exactly what runs, all of it on the
connection in use. `CompleteIsWhole`: a stream that ends normally has every chunk, whatever connection was
lost or replaced. `EveryRequestAnswered`, `GivenUpIsAborted` and `BridgeReturns` are liveness.

### Accounts

State. `file` is `tokens.json`, `legacy` the token file of an older release, `backups` what was moved
aside. Every MCP client starts a process of its own: `mem`, `queue` and `writing` are its `AccountStore`,
`flow` its consents by alias, `client` and `service` its caches, `waiting` the calls that await a refresh
with the client each will cache. `stage` is where its boot is. A *grant* stands for one refresh token; an
access token is not modelled, so a refresh is a record that is written again. `word` is history: for
each alias the grant (or none) that the user's last undisturbed request left, and whether it stands or was moved aside. The Calendar service is
cached like the Drive service and is left out. `Serving` are the processes whose user calls tools.

Actions. `Load` to `Quarantine` are `AccountStore.reload`, cut at the reads, writes and renames that
another process can see; `FirstConsent`, `ConsentUnavailable` the end of `buildAuthSystem`.
`AddAccount`, `Consented` and `ThenSetDefault` are `addAccountFlow`, which keeps the record it read at
its start until the browser returns; `RemoveAccount`, `SetDefaultAccount` the other two requests.
`Mutate` is a mutation on what is re-read, up to the write, and `Written`, `WriteFails` its ends, with
the evictions that follow. `GetDrive` is a tool call, `RefreshReturns` and `LibraryRefreshes` the two
ways a refreshed token comes in. `Crash` ends a process anywhere.

Properties. `CredentialsKept`: through migrations, failures and crashes a grant from before the upgrade is
in some file (after a crash between the two steps of the v1 migration only in a backup, and the user is
asked for a new consent). `SettledAccountStands`: what the user did with an account while no other
process, call or mutation had to do with it (`Alone`) holds on file, in every process that serves and in the caches, through crashes,
migrations, failed reads and writes and whatever others do later. It ends in one way: one read error at a boot counts as
corruption (`auth.ts:106-112`), and the boot moves the healthy file aside. What the user did is then no longer in force, as soon as the
other processes re-read, and the property says that the grant is in the backup (`word` is "aside"). A process that could neither read the
file at its boot, nor move it aside, nor read it again writes over it, grants and all (`Blind`); that is excluded by name, and
a removal's word ends where an older release's file is left to adopt. With overlap the code
keeps no such promise: the record that a refresh persists was copied from memory before, so a removal, or
another process's new consent, that reaches the file first is undone. `ConsentsAreAnswered` is liveness: boots end, consents are answered.

### AuthServer

State. A flow is one `AuthServer` object, of any process; `holder` says who listens at each port of the range,
`port` which port a flow tries and then has in its link, `consent` whose callback is exchanging the code of a
user's consent, `got` whose consents a flow has stored. `Accounts` takes it from there: a consent of an alias is
one that reaches its flow, from whatever page.

Actions. `TryPort` is one turn of the loop of `startServerOnAvailablePort`, with what Express does to its
callback as the constant `ErrorReachesListener`; `LoadCredentials` the rest of `start`; `Consent`, `Stored` and
`CallbackFails` the callback route cut at the exchange; `Poll` and `Timeout` the two ways the callers wait. A
link carries no state, so a code is accepted by any flow that listens at the port of its link.

Property. `ListensAtItsPort`: what the documentation says of the range of ports. It does not hold (section 3).

### HttpSessions and AccountResolver

State. A session is named after the request that initialized it. `sessions` are the keys of the session
map, `sub` who a session belongs to, `booked` the keys of `sessionTimers` and `left` the timers that are
really pending, with the ticks each has left: the two differ when a handle is dropped without
`clearTimeout`. `selections` are the keys of `authSystem.sessions`. `request[r]` is an HTTP request or the
tool call it carries, with the `step` it is at, and `closing` the closers that await `server.close`.
`auth` is `authSystem` and the promise of `ensureAuthSystem`; `table` the accounts on file with their
scopes, and the default. `quiet` is history: the ticks since a request last reached the session.

Actions. The code between two awaits is one action: `PostToSession`, `Refuse`, `Initialize`, `Registered`,
`Listen`, `Delete`, `Deleted` for the routes; `TimerFires` and `TimerEnds`, `ShutdownCloses` and
`ShutdownGoesOn` for the other two closers. `transport.close` runs `onclose` before the closer's first await,
and each closer deletes the same entries once more afterwards (`OnClose` twice), when other sessions may
have come. `EnsureAuth`, `BuildEnds`, `Dispatch`, `Answer` are a tool call. `Resolve` is
`accountResolver.ts` line by line, as the set of accounts it returns, empty for each of its errors;
`LocalTargets` and `TeamTargets` what `createMcpServer` and `handleTeamToolCall` make of it. A session that
was created but whose first request has not been answered is in no map, so a request that carries its id is
refused with 400 (`Refuse`, `src/src/index.ts:1417`).

Properties. `NothingOutlivesItsSession`: three closers and a late registration meet on three maps and one
timer each. `ClosedForCause`: what closes a session is its user, the shutdown or a whole idle time without a
request; `OnlyTheOpenerReaches`: the id of another member's session is worth nothing, in any route.
`CallsHitTheirAccount` compares the resolver with a reference that says what is meant without its branches
(`MeantFor`: the account that is named, else the default, else the only one that consented to a scope of the
tool, and never one that did not), on the accounts that are on file when the call is dispatched, not when it came. `ComesToRest` is
liveness: nobody waits for ever for a build that failed, and no session stays without a timer. A stream or
a call does not prolong its session: one that lasts longer than the idle time is cut off.

### DriveTools

State. `items` is a user's Drive: a file or folder has a kind, a name, one parent, a content and the
flags that the tools set; `revisions` what it contained. A handler keeps nothing between two calls, so
`call` is all there is: the tool, its arguments, the request it is at (`pc`), what it read (`saw`), the
folder a path has reached (`at`, `rest`). Contents are sequences of call numbers, which tells whose text
is where. `listed` is the page of PDFs that a bulk conversion works on. `local` is the file at the path of a download, `writers` the downloads that have that path open,
`chunks` the directories of PDF parts.

Actions. Each tool is the list of the requests it makes (`Handlers`), and each request is a step: it is
carried out or refused by Google as a whole, and may fail before or lose its answer after
(`RequestFails`, `Heard`). `LookUpFolder` and `MakeFolder` are the loop of `resolvePath`, `CheckName` is
`checkFileExists` with the error that counts as "not there", `Read` and `Fetch` what a handler looks at
first, with every early return that follows from it (`Declined`, `NothingToDo`), and the other steps are
the changes. `FillDocument` is the one call under `withRetry`. `OpenLocal` to `SaveFails` are the two ways
a download writes, `Split` and `UploadPart` the upload of a PDF in parts. `New` and `Place` make a
spreadsheet or a presentation in the root and move it, `FillSheet`, `AddSlide` and `FillSlide` fill it, one
slide after the other. `Provider` is the attempt of `copy_file` and `create_file` at Google's own MCP server,
before they are done locally; `CopyTab` follows `New` in `duplicate_sheet_in_new_spreadsheet`. `Erase` deletes
an item or the trash for good, with what lies in it, while other calls hold ids of it: their next request is
refused (`Impossible`, `Refused`).

Properties. `AnsweredIsDone`: an answer without an error means that the promise of the tool holds on Drive
(the item has its new name, place, role or text; a file made under a name is the only one of it) and that a path led to the
folder it names, and both stay so until something else changes. `bulkConvertFolderPdfs` asks for one page of `maxResults`
files (`drive-base.ts:1748-1756`) and never for the next, so its promise is that every PDF was converted but those that a full page
left out (`PagesOf`); the answer does not tell the two cases apart. Nothing is promised of `deleteRange`, `uploadPdfWithSplit` and `downloadFile`.
The property is claimed for a call that was *alone*: no other session changed anything while it ran, and it passed over no
error (a name that could not be checked, a PDF reported as not converted). A request that was lost and made again is inside it,
as long as the call answers without an error. With overlap the code makes no such promise: two sessions may create one name twice or move an item
from under each other. `WholeStaysWhole` and `ChunksAreRemoved` are about the local files, with overlap
and failures: a download that replaces a file never leaves it cut (a download that found no file at its start writes in place and may, so
such downloads are excluded), and the parts of a PDF do not stay
behind, except when the split itself fails after it made its directory (`Split`). An insertion may be
applied twice after a timeout or a 503, which `docs/configuration.md:28` accepts, and a copy made twice after
a time-out of the other server, which `docs/openai-drive-parity.md:31` describes.

Abstractions. Shortcuts to folders, the sizes and MIME types of files, ownership, labels and the listing
tools are left out; a part of a PDF holds the call's content.

### Editors

State. `file` is one document, presentation, spreadsheet or calendar (`kind`), and `call` what each session calls:
the arguments, what Google has answered so far (`saw`), the request it is at (`next`), the file as it was
at the beginning (`before`), and the images the call has put on Drive. A tool is an operator from its arguments and the answers to its
next request (`Documents!Handler` and its twins), so that everything it computes in between, indexes above
all, is part of the request. A document is a set of tabs, each a sequence of tokens that Google counts: a
character with its style, or the marks of a table, a row, a cell. A slide is a sequence of elements with
ids; an id that a call makes up is a pair of a number of the call's own and a counter, apart from those at the start
and those that Google makes (`ConstantsAssumption`). A spreadsheet is a sequence of
sheets, each with the marks its cells bear (`<<"bold", cell>>`, with the side for borders). Column letters
are digits of base 2 rather than 26 (`Base`), which keeps the carry and the missing zero. A calendar is a set
of events with ids; a field of an event stands for the fields that `buildCalendarEventUpdate` treats alike.

Actions. `Begin` is a call; arguments that are refused without a request are no step. `ReadFile` is a read,
`Change` a list of edits that Google carries out as a whole or refuses, and whose answer may be lost,
`Image` the upload, sharing, link and deletion of an image (`uploadImageToDrive`, `deleteDriveFile`),
`RequestFails` a request that fails. Whether a handler goes on after a failure (`Catches`) is read from its
`try` blocks. `Carry` and what it needs is Google, described from how the tools use it.

Properties. `EditsHitTheirTarget`: a call that nothing disturbed changes what its arguments name and nothing
else. `Done` says what that is without the indexes of the handlers: the n-th occurrence of a text in what a
reader sees, the ends of the paragraphs that a range is in, the cell in a row and column, the cells of an A1
range by their names in order. The run tries the tools at the spots of a small file, with indexes that are
wrong among them. `Done` says nothing, or less, of four cases: requests that the caller wrote and the
parity layer passes on for a presentation or a spreadsheet; `editTableCell` that aligns a cell while
its text gets shorter, which uses the old end of the cell; the quote of a comment on more than text; and the size of an element
with scale 0 (turned by 90 degrees) that `moveSlideElement` moves without a new width: `scaleX || 1` (`slides.ts:1743`) makes its scale 1,
so the element changes its size. `EditsStayInTheirPart`: indexes may be stale when another session edits in between, but an
edit never leaves the tab, sheet, slide, element or event it is for. For the tools that are for a whole presentation or
its slides (`updateGoogleSlides`, `setGoogleSlidesBackground`, `deleteGoogleSlide`, `duplicateSlide`, `reorderSlides`,
`replaceAllTextInSlides`, `batch_update_presentation`) and for `deleteSlideElement` it says nothing (`Rest` is constant). `ImagesAreCleared`: an image made public for a
request does not stay, whatever fails.

What else the properties leave out, because the code does not promise it: ranges whose corners name different things (`A2:B`) end
at the first row; an image whose link could not be fetched, or whose deletion fails, stays public;
`updateGoogleDoc` outside tabs is two requests, and a failure between them leaves the document empty; stale indexes that hit another place of the same tab,
where two sessions edit one text;
`updateCalendarEvent` puts the event back as it was read, over what was changed in between, and without the
fields it does not know, such as the colour (`extras`). Styles
are one attribute each, text is a few letters, and UTF-16 lengths are not modelled.

## 3. Runs

| Run | Instance | Shows |
|---|---|---|
| `team_tokens` | `MCTeamTokens.cfg` | all properties of `TeamTokens` |
| `team_tokens_revoked` | same constants | **violation** of `RevokedFamilyIsDead` |
| `durable_store` | two processes, 2 calls, 2 faults, a file that may be damaged | all properties of `DurableStore` |
| `durable_store_atomic` | one process, 4 calls, 3 faults | `DurableStore` implements `AtomicStore` |
| `team_sign_in` | two flows, two callbacks, three token requests, one fault | all properties of `TeamSignIn` |
| `team_grant` | two calls, two grants, three access tokens, one failed write | all properties of `TeamGrant` |
| `relay` | one request, five connections, two faults | all properties of `Relay` |
| `accounts` | two processes, two accounts, two grants, one request, two faults | all properties of `Accounts` |
| `auth_server_ports` | a first consent, two added accounts, another program, two ports | **violation** of `ListensAtItsPort` |
| `sessions` | two members or the local user with up to two accounts, three requests, one change of the accounts | all properties of `HttpSessions` |
| `drive_tools` | two sessions, two calls of any tools, one fault | all properties of `DriveTools` |
| `editors` | a small file of each kind, two sessions, two calls of any tools, one fault | all properties of `Editors` |

Bounds of `team_tokens`. Two requests at a time besides the sweep (`Requests`), three that change the
store in all (`MaxRequests`), five pairs (`MaxPairs`), one tick (`MaxTime`). The server boots from a file
that a longer run left: an active session with the tombstone of its last rotation, a second session at
the end of its life, the member at the token cap (`MaxTokensPerSub` = 2) and the client registry at its
cap. So the cases that need a long history (reuse past the grace window, an eviction, an expired token, a
member at the cap) are one or two requests away, and three requests are enough for any two of them to
overlap and a third to see the outcome. Every property is violated within these bounds by a mutant of
the code, listed in `PROJECT.json`.

Bounds of `durable_store`. Two calls are what it takes to reorder, to lose or to keep one; two faults let
a write and then a re-read fail, or a process crash after a failure; two processes overlap in every
stage. Exits and boots are not bounded.

Bounds of `team_sign_in`. Two sign-ins are what it takes to overlap, to replay a state and to find the
caps (`MaxPending` and `MaxUsers` are 1) reached; three lookups exceed `MaxLookups` = 2; one tick expires
a pending flow or a code. Bounds of `team_grant`: a grant and its successor, a token of each and one
refresh, and the objects of both grants; one write fails, so that a revocation is given up, or a sign-in or a refreshed token is
not written (0.59 million states). Bounds of `relay`: requests share nothing but the connections,
so one request stands for each; two chunks can be cut in the middle; with two faults five connections are
one more than can be used up.
Bounds of `accounts`: two processes on the file, one of which calls tools; the grant on file before the
upgrade and one new consent; one request of the user (an account added, removed or made the default)
and two faults: failed reads, writes or renames, or crashes. With two, a boot can misread a healthy file and then fail to move it
aside (0.69 million states).
Bounds of `sessions`: three requests open a session, use it and close it, or open two, or share one with
another member, while the timer and the shutdown close them too; an idle time of two ticks tells a timer that
was reset from one that was not. The accounts on file change once, before, during or after a wait; the calls
name an account or none, with and without a scope that the account or the token lacks. What the resolver
makes of a list of accounts is part of `Resolve`, but the dispatch passes it none.
Bounds of `drive_tools`: every tool is one to seven requests and meets another call between any two of
them, so two calls show every pair of tools in every order; one fault is a request that fails or whose
answer is lost. The Drive starts with a folder that holds a text file and a PDF, and a path of two names
is half there. A page of a bulk conversion is two files (`MaxResults`), one less than the PDFs in
the folder after an upload in parts, so a page that leaves one out does happen. The run has 0.85 million states. The two sessions are symmetric, and there is no liveness property in the run.
Bounds of `editors`: a call is at most three requests and images, and two calls are what it takes for one to
change the file under the other. The document has a text with an image in it, a table and a second tab; the
presentation slides with, without and with empty notes; the spreadsheet two sheets of three rows and four
columns, which need two letters; the calendar an event with every field and a plain one. A step of another call only matters between a read and a change, so a
third call would add nothing that the second does not do. On the first slide are a title and two bodies, one of
them with scale 0, on the second a box, on the third nothing. The run has 0.66 million states.

Deadlock is not checked in the `team_tokens`, `team_sign_in`, `team_grant`, `relay`, `accounts`, `sessions`,
`drive_tools`, `editors` and `auth_server_ports` runs: once the
bounded requests were made and nothing is left to do, the system may stop. In `DurableStore` a process
can always be started or stopped.

Fairness. `TeamTokens` assumes weak fairness of the queue and its continuations (the disk answers every
write and the event loop runs every continuation) and of the sweep timer (`setInterval` keeps firing).
`DurableStore` assumes it of the queue of each process, where an answer may be a failure. `TeamSignIn` and
`TeamGrant` assume it of the answers of Google and the disk and, in `TeamGrant`, of the end of a tool call
whose requests were answered. `Relay` assumes that timers fire, that frames on an unbroken connection
arrive, that a dial ends (`ws` sets no handshake timeout, so this is an assumption about TCP), that both
ends notice a broken connection (the heartbeat at the bridge, Cloudflare at the relay) and that an aborted
fetch rejects; the local origin may take for ever. `Accounts` assumes it of the reads and writes of a
boot and of the queue, never of the user or of Google. `HttpSessions` assumes that time passes, that handlers,
timer callbacks and the shutdown run to their end, and that the authorization can be built in the end once an
account is on file, never that the user consents. `AuthServer`, `DriveTools` and `Editors` assume none. No request, boot,
shutdown or tick of the clock is ever assumed to happen, and no fairness is strong: an enabled step of a
single-threaded event loop stays enabled until it runs.

What the violations show.

* `RevokedFamilyIsDead`. `exchangeRefreshToken` reads the token's record and then awaits two saves. A
  family revocation queued between them (a theft signal, or `/revoke`) drops the family, and the exchange
  then stores a fresh pair of it. `types.ts:219` says "drop all tokens in a rotation family",
  `provider.ts:186` "revoke the entire family and force a full re-auth".
* `ListensAtItsPort`. `startServerOnAvailablePort` resolves in the callback of `app.listen`. Express 5 calls that
  callback for the `error` event of the server too, before the handler that would try the next port, so a port
  that is taken counts as bound. The consent of the user then goes to whoever listens there: another program,
  or the flow of another account or process, which stores it under its own alias, while a first consent polls
  for ever. `docs/authentication.md:49` says "The server will try 5 consecutive ports starting from the
  configured value". With `ErrorReachesListener = FALSE`, as Express 4 behaves, TLC finds no violation.

## 4. Proofs

Every theorem holds for all values of the constants that satisfy the assumptions named below. Each proof
goes the same way: an inductive invariant (an operator of the model's own module, for `DriveTools` and `Editors` of their proofs; TLC checked it before it was
proved), a lemma per kind of step, then the properties from the invariant.

`TeamTokensProofs`, for any members, clients, codes, requests, caps and bounds that satisfy
`ConstantsAssumption` (the tokens on file at boot carry the grant of their family) and `FileAssumption`.

* `Invariance`: `Spec => []IInv`. `CleanRevocationIsFinal` is not inductive: a queued mint carries a
  record read earlier, so one needs what jobs carry (`JobsKeepTheirGrant`: the grant of the family they
  mint for, and a rotated record of that family) and that a family with a token, a mint or a revocation
  has a spent code, while a sign-in under way has a fresh one (`FamiliesAreConsumed`), or a code exchange
  could restart a revoked family. The proof has a lemma per kind of step: what it does to the tokens,
  the jobs and the codes.
* From it `TypeCorrect`, `TokensStayWithinGrant` and `CleanRevocation`, and `RotatedStaysRotated`
  (`NeverReactivated`, an action property: of the mutations only a first save makes a token active, and a
  saved pair is never saved again).
* `SuccessorAlwaysStoredFirst`, from `SuccessorInv`: handlers mint different pairs (`MintsApart`), and the
  successor that a tombstone names is past both its saves (`SuccessorIsSaved`).
* `ActiveClientAlwaysSurvives`, from `RegistryInv`: a client with a later tick than an evicted candidate was active since
  (`TicksTellActivity`), and a client_id is registered once.
* `TokensAlwaysCapped`, from `CapsInv`. What an eviction leaves is counted with the theorems on finite
  sets: the newest of a set are as many as the cap or the whole set. The cap on tombstones has slack for the requests that
  were in flight, as the property says: each can add one that the eviction did not see.
* `FileAssumption` is about the file the server boots from: it obeys the caps, names no pair it does not hold, and no two
  clients were last used at the same tick. The code justifies it for files that the same code wrote, with the slack that a
  crash can leave.

`DurableStoreProofs`, for any number of processes, calls and faults.

* `DurableInvariance`, `TypeCorrect`, `Durability`. `ResolvedIsDurable` needs that a process that missed
  no write has everything on file in its maps (`FreshMapsHoldTheFile`), in particular after a failed
  re-read, and that the running call is first in the maps and then on file (`RunningCallIsKept`). The
  queues are part of it: an answer must concern the head only.
* `RejectedAlwaysStaysOut`, from `RejectedInv`: what is on file, and what is in a process's maps, was resolved, is
  being written, or was rejected by a process that has not read the file since.
* `ExitAlwaysAnswersTheQueue`, from `DrainInv`: what was queued when the exit began is answered or stands
  before the tail that the exit waits for.
* `Refinement`: for one process with an undamaged file, `Spec => ImplementsAtomicStore`. The mapping is
  the identity on the file. It needs `SoloInv`: the maps are the file followed by mutations that failed
  and then the one being written, and what is on file and unanswered is the call just written. Each step
  then maps to one of `AtomicStore` (the rename to `Commit`) or changes nothing there.

`TeamSignInProofs`, for any clients, people, lifetimes, limits and number of calls.

* `Invariance`: `Spec => []IInv`. The three properties are about different records of one sign-in, and the
  invariant says what they know of one another: whom a callback speaks for (`PersonKnown`), that it alone came back with
  its flow's state, which is spent (`FlowKnown`), that a code is for the client of its callback, counts the
  requests that use it and is gone once tokens were granted (`CodeKnows`, `RequestKnows`), and that a member in memory is on
  file, or a save of it is queued or has failed (`MembersFollowFile`, `QueueSaves`).
* From it `TypeCorrect`, `MembersAlwaysCapped`, `CodesAlwaysGuarded`, `NoGrantEverLeftBehind`, and
  `RefusalAlwaysSparesMembers`: standing is inductive once members' grants are known to be their own (`OwnTokens`), since what
  Google revokes is what one person holds. It is a property of suffixes; PTL turns its step into it.
* `Refinement`: `Spec => ImplementsSignInFlow`, with a mapping that reads the state of a sign-in off its callback, its
  code and the token requests. That an exchange maps to the one grant of `SignInFlow`, for the client that asked, is `CodeKnows`.

`TeamGrantProofs`, for any number of calls, grants, tokens and client objects.

* `Invariance`: `Spec => []IInv`. `SignInTakesEffect` is about the member's record, in memory and on file, and the cached objects. Inductive is
  `SettledInPlace`: once a sign-in has settled, everything held is of its grant and every pending mutation is harmless to it. This
  needs that there is one revocation at a time, the one the shared refresh waits for (`OneRevocation`), that a refresh knows what
  Google said (`RefreshKnown`) and that a written sign-in stays until its callback goes on (`UpsertInPlace`).
* From it `TypeCorrect`, `SignInAlwaysTakesEffect` and `WaitersAlwaysServed`.

`RelayProofs`, for any set of requests, any number of connections, chunks and faults.

* `Invariance`: `Spec => []IInv`. The invariant is about one request at a time: the frames about it on all wires are a part of
  one conversation (asked once, the head first, the end last, `Ordered`, `Begun`), the chunks read, those on the wire and
  those sent add up (`Counted`), and what is over at one end is over at the other (`Over`, `Held`). A step is about one request or
  one connection; that it leaves the conversations of all others alone is one lemma, used by all.
* From it `TypeCorrect`, `HeldCorrect` and `CompleteIsAlwaysWhole`.

`AccountsProofs`, about `Accounts`, for any processes and aliases, any default among them and any number of grants and faults.

* `Invariance`: `Spec => []IInv`. `CredentialsKept` needs where the oldest grant is while the user has not let go of it and no
  backup holds it (`OldestIsHeld`): in the current file or the older release's, and in every process that serves, none of which
  has queued a write without it. `SettledAccountStands` needs that every process and its caches, and every queued mutation, agree
  with a word that stands (`SettledAreAgreed`), also those who are on the consent page with what they have read (`HasRead`), that the
  grant of a word that was moved aside is in a backup, where nothing takes it from, and that stores in memory are
  whole (`DefaultIsAccount`, `MutationsAreWhole`, `WritingIsApplied`, `ColdUntilLoaded`, `ConsentIsAlone`).
* From it `TypeCorrect`, `DefaultAlwaysAccount`, `CredentialsAlwaysKept` and `SettledAccountAlwaysStands`.

`DriveToolsProofs`, for any sessions, names, paths and roles, any items at the start and any number of calls.

* `Invariance`: `Spec => []IInv`. `AnsweredIsDone` speaks of a call that has ended, and the invariant says of every call
  at each of its requests (`Sound`) that its fields fit the request (`Formed`), that it stands where the names it has resolved
  lead, by a chain of live folders from the root (`Reached`), and what the requests behind it have done (`Underway`: a
  name just checked is free, a made file is the only one of its name, a presentation has as many slides as were added and all but
  the last are filled, a PDF of the folder is still to convert, has its document, or was left out by a full page); and of one that is kept its promise
  (`Fulfilled`). The last three are claimed of a call that is `alone`. The proof has one lemma per request and handler (`CreateKeeps`,
  `MoveKeeps`, ...), each of which takes the call one request further, and one for all other calls (`OthersStaySound`): a step that
  changes anything they rely on ends their being alone.
* A move and `resolvePath` need facts about folders: who has no way up to a folder is not among its ancestors, and a moved folder
  changes no chain of names that leads to another place. `FoldersAt`, which the property uses, is a recursive function
  over the path; a least counterexample (`NatMin`) shows that the end of every chain is one of its values.
* From it `AnsweredAlwaysDone`, `WholeAlwaysStaysWhole` and `ChunksAlwaysRemoved` (two action properties).

`AccountsProofs`, about `HttpSessions`, for any members, accounts, scopes, calls, idle time and number of requests
(`SessionsAssumption`). It extends `Accounts` and `HttpSessions`, so the definitions of the two share no name.

* `SessionsInvariance`: `SessionsSpec => []SessionsInv`, that is `SessionParts` and what the constants are. `NothingOutlivesItsSession` needs that a closer which goes on after its
  await meets no other session (`IdsAreUsedOnce`: an id in the map was handed out, its request is over, and
  none that is being closed is in the map), and that there are no selections while the authorization is not
  ready. `TimersCountQuiet` (what a timer has left and what has passed since the last request make up the
  idle time) is what makes a firing timer a cause.
* From it `CleanSessions`, `OnlyForCause`, `ForeignIdsAreWorthless`, and `RightAccount`, which rests on
  `LocalCallsAreRight` and `MemberCallsAreRight`: for every table of accounts and every argument the
  resolver returns what `MeantFor` means, or nothing.

`EditorsProofs`, for any sessions, number of calls and failures, any alphabet and any file at the start.

* `ImagesAlwaysCleared`, from `ImagesInv`. What is left of the images of a call depends on how far its handler has come, so
  the invariant says of every call in progress with images (`OfOpen`): its next request is the handler's (`Request`), each
  three requests without a failure have stored, shared and linked one image (`Uploading`, `IsUpTo`), and from the first
  failure or the list itself on, only as many of them have a link as there are deletions to come (`Dropping`, `Turned`,
  `AreLeft`), unless a deletion failed. The handlers are operators on sequences of answers, so the proof goes from the
  answers behind a request to the request after it (`HeardWhileUploading`, `HeardWhileDropping`, `BatchStays`, `LocalImageStays`), for every position of the first failure.
  That only the calls which share images have any is read off the set of calls of each kind of file (`DocumentCalls`,
  `PresentationCalls`, `SpreadsheetCalls`, `CalendarCalls`).
* `EditsAlwaysStayInTheirPart`, from `PartsInv`. Of every call in progress it says (`OfParts`) that its next request is the
  one its handler makes of the answers so far, and that its arguments and what it has seen (`Seen`) are of its kind. A
  call that makes a box by one request and fills it by the next of the same batch stays on its slide only if no other element has the new id:
  so the calls in progress have numbers of their own (`Numbered`), and no element of the file has the id that call n
  will make, 10 * n, while that call has not asked for anything (`Unused`, `Without`, `GoodFile`, `GoodPresentation`).
  `StepKeepsParts` has the steps. That the requests of one batch change nothing outside the part
  (`DocumentsKeepTheRest`, `SlidesKeepTheRest`, `SheetsKeepTheRest`, `CalendarsKeepTheRest`) needs an induction over the list of
  requests: a list for which it fails would have a first request at which it does (`LeastNumber`).

Assumptions of the proofs are those named in the modules, which TLC evaluates in the runs, and in
`DurableStoreProofs!Refinement` the two stated in it. Only model-checked: liveness (out of the prover's reach, like
everything about `ENABLED`), and of `Editors` `EditsHitTheirTarget`: what an edit makes of a text is computed by
recursion over it, which needs induction over data. `ListensAtItsPort` of `AuthServer` does not hold. Type
invariants are proved and not run.

## 5. Plan

1. *Proofs of Editors*: `EditsHitTheirTarget` for the tools whose requests need no recursion over a text (sheets, the calendar).
2. *Refinements*: what `TeamGrant` and `Relay` promise as abstract specifications, as `SignInFlow` is for `TeamSignIn`.

The runs ask about forty questions; what a new module asks replaces the shallowest of them rather than
adding to their number.

## 6. Not modelled

Formatting of requests and answers, logging, the tools that only read, the tools of the parity layer that send
one request as the caller gives it (imports, uploads, `update_file`, `share_file`, labels, approvals, shared
drives, channels, single comments and revisions) and their temporary copies of provided files, the stdio transport (it has one client
and no sessions), the rate limits of the OAuth routes, the command line, schemas of the tools, parsing of configuration, file
permissions, the installation scripts, in `Relay` the filtering of headers, the health route and the
eviction of the Durable Object, and the inside of Google's services, which appear only as answers.
Cryptography is perfect: a token is known to whom it was given. In `DurableStore` a rename is durable
once it returns; the code does not `fsync`, so after a power loss the file may be found damaged, which
is `DamageFile`. Two processes with the same pid (two containers on one volume) would share the name of
the temporary file; the model gives each its own.
