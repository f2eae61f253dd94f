# Apico: a verification project

Apico is a self-hosted API client: an Express and Prisma server over MySQL
(`src/api`), a Next.js web application (`src/apps/web`) and a command line runner
(`src/api/src/cli`). This directory holds TLA+ modules translated from that
code, the TLC configurations that check them on small instances, and proofs,
checked by TLAPS, that hold for every size.

    tlc -config MCWorkspacesSerial.cfg MCWorkspaces.tla
    tlapm WorkspacesProofs.tla

A module named after a part of the system models it. A module `MC...` gives it, or
several modules together, to TLC. A module `...Proofs` holds theorems. `PROJECT.json`
lists the components, says for every definition which lines it stands for, names for
every property a plausible bug that it catches, and lists what in this code is hard
to test with the properties that watch it.

## The system

All server state is in MySQL. A handler is an `async` function that awaits one
query after another; Node runs other handlers between any two of them. Apart
from import, clear-data, reordering and tag replacement no handler opens a
transaction, so what a handler has read may be stale when it writes, and a
query that fails, or a process that dies, leaves what was written before it.
Foreign keys (with their ON DELETE rules) and unique indexes are the only checks
made at the moment of a write. The web application keeps tokens, the
draft of a request and a guest's playground in localStorage, lists in a cache that is
invalidated by hand, one request editor with its response, and a script sandbox in a
hidden frame that the editor shares with a runner of whole collections. In a tab one
event runs to its end, but every `await` lets others in, and a promise goes on with
the state of the render it began in.

| Component | State | Operations | Hard part | What makes it correct | Module |
|---|---|---|---|---|---|
| Membership and invites (`services/workspace.service.ts`) | Workspace, WorkspaceMember, WorkspaceInvite rows | create, invite, look up, accept, decline, list, revoke, remove, change role, leave | checks several queries before the write; expiry; OWNER invites | an OWNER at all times; nobody in without an open invite; an answer is final | `Workspaces`, `Roster` |
| Environments (`services/environment.service.ts`) | Environment, EnvironmentVariable rows, no foreign key | create, rename, delete, save all variables | a save is a deletion and many parallel insertions | a save replaces the variables whole; deletes remove them | `Environments` |
| Environment window (`EnvironmentManager.tsx`, `hooks/useEnvironments.ts`) | cached list, rows being edited, the active one | edit, save, create, rename, delete, activate | edits in place of the cache; answers that replace the rows in the editor | at rest, what is shown and used is what is stored | `EnvironmentEditor` |
| Variables (three programs) | environment rows, variables set by scripts | resolve, set, send | three resolutions of one name; overlapping sends | one meaning; a value set stays | `Variables` |
| Folders and collections (`services/folder.service.ts`, `collection.service.ts`) | Folder tree, Collection rows, order numbers, share links | create, update, move, reorder, delete, clear | cascades, cycles, stale lists | a tree inside one workspace; collections survive their folder | `Folders` |
| Sidebar (`CollectionsSidebar.tsx`, `hooks/queries/useCollections.ts`) | cached lists, selection, search | every call on the library, bulk jobs, export | hand-written invalidation; jobs over stale lists | lists catch up; an export is current | `LibraryLists` |
| Saved requests and tags (`services/request.service.ts`, `tag.service.ts`) | SavedRequest, Tag, RequestTag rows, links | save, update, move, reorder, delete, tags, share | access checked before a move; tags keep their workspace | only members write; tags come from one update | `SavedRequests` |
| Import (`services/import.service.ts`) | the same, in one transaction | import a bundle | multi-pass creation of a hierarchy | ends; rejects exactly what cannot be resolved | `LibraryImport` |
| Importers (`postman.parser.ts`, `openapi.parser.ts`, `curl.parser.ts`) | texts, and what is saved of them call by call | read, preview, save | parsers written twice; loops of schemas; patterns over text | saved as it would run; read as it was written | `PostmanFile`, `OpenApiFile`, `CurlCommand` |
| Session (`services/api.service.ts`, `auth.service.ts`, `middleware.ts`; `auth.service.ts` of the server) | two tokens in localStorage, a cookie | request, refresh and retry, log in, log out | parallel refreshes; refresh against logout | tokens of one user; calls end | `Session` |
| Script sandbox (`script.runner.ts`, `public/sandbox.html`) | frame, pending map, timers, log array | initialize, run, answer, time out, destroy | lost messages; late answers; frame replaced | every run is answered once, by its own result | `Scripts`, `ScriptedRequest` |
| Collection runner (`hooks/useCollectionRunner.ts`) | results, summary, cancel flag | run, stop, close, leave | a send beside it; a destroyed sandbox; errors that skip the summary | in order, one verdict each; ends | `CollectionRun`, `OrderedRun` |
| CLI runner (`cli/runner.ts`, `run.ts`, `sandbox.ts`) | verdicts, exit code | run a file | unawaited tests; awaits nobody settles | the exit code says what happened | `CliRun`, `OrderedRun` |
| Request builder (`hooks/useRequestBuilder.ts`) | the edited request, its draft, the response | edit, send, open, reset, reload | sends that end after the request changed | what is sent is what is shown; the spinner stops | `RequestBuilder`, `SentRequest` |
| Execution and history (`proxy/executor.ts`, `history.service.ts`, `useRequestHistory.ts`) | History rows, a list in every tab, the rate limit | execute, list, delete, clear | a fetch at every render against a limit | the list shown catches up | `History`, `SentRequest` |
| Playground (`app/playground`, `playground.storage.ts`) | environments and history in localStorage | edit, choose, send, reload, a second tab | two copies in one tab, one storage | a reload restores what was shown | `Playground` |
| Response tree (`hooks/useJsonTree.ts`, `json.util.ts`) | collapsed paths, search | collapse, search, copy | paths built and taken apart as text | a path leads back to its node | `JsonTree` |

Components call each other in few places. Every library, environment and
workspace handler asks `requireWorkspaceRole` for the caller's membership row; the
modules of those handlers let that check go either way, and `Workspaces` says what it is
worth. The collection runner and the request builder share one script sandbox:
`CollectionRun` extends `Scripts` and composes all three. The sidebar works on the
rows of `SavedRequests` and `Folders` through a cache: `LibraryLists` has both
ends. The environment window is the client of `Environments`, the tabs of `History` are the
clients of its handlers. The web session wraps every call of the web application; the
other web modules let any call fail instead.

## Modules

### On the server

`Workspaces`. `ownerId`, `members` and `invites` are the three tables; `issued` numbers the
invites in order of creation; `now` is the clock; `call[r]` is request slot `r`:
the statement its handler is about to run and the locals it still needs. A
`Begin...` action is a handler up to the answer of its first query and the
checks on it. Every later action is one query and what follows it up to the
next `await`. So `accept` is `BeginAccept` (the invite is read and checked),
`FindMember`, `AddMember` and `MarkAccepted`, with other requests anywhere in
between, and `Fail` ends any of them early. A handler that would answer an error
having written nothing changes nothing, hence is no step. Looking up rows that
no handler deletes (the user, the workspace) is folded into a neighbouring
step. A user stands for the account and its e-mail. Sending the e-mail is left
out: the code catches its failure. `Roster` says what membership promises without
requests or invites: a founder who is OWNER for good, others who come in, change role and go.

`Environments`. `env` and `rows` are the two tables. A save is `BeginSave`, `Clear` and then one
`CreateVariable` or `LoseVariable` per variable in any order, because the code
starts all insertions at once; an insertion that fails does not stop the
others. `Crash` ends all requests in flight. `saved`, `latest`, `late` and `lost` are
history: which batch the last deletion made room for and which saves were still
inserting then. The services for single variables have no route and are left out.

`Folders`. `space` and `parent` are the Folder and Collection tables: a row's workspace, and the
folder it is filed in. `call[k]` is the one call client `k` has in flight; two calls
at once are two clients. Since a row's workspace never changes, a handler's
lookups are one step and its write another, and the foreign keys bind at the
write. `Remove` is what they do there: the folders inside go too (`Subtree`), collections
move to the root. `view[k]` is the list of folders `k`'s sidebar fetched last. A drag
is `Drag` (the sidebar's own check on that list, the request and the handler's
checks), `Drop` (the transaction) and `Refetch`, and a sidebar starts no other drag in
between, as `isMoving` has it; with `AnswersLost` it may go on with its old list. Callers whose role
does not suffice change nothing and are left out; clear-data is one transaction
and one step. MySQL follows at most 15 levels of cascade: deeper trees are not considered.

`SavedRequests`. `at[q]` is the collection of request `q`, `tag` the Tag rows,
`tagged` the links between them. A call finds its requests, checks a role per workspace it found,
and writes by id, each an action with other calls between; `verified` is what it has
checked, and a check may fail. An update with tags upserts them one by one and then replaces
the links in one transaction, which fails as a whole when a tag is gone. `asked` and `strays`
are history.

`LibraryImport` is one transaction, step by step, over every list of folders of a given
length: the loop that passes over the list until nothing is left, and its guard against lists
without an end.

`History` has the rows, `shown[t]` and the one fetch and one call of each tab, and the count of calls
that `globalLimiter` allows. `Render` asks for the list again whenever the code's effect does.

### In the browser

`Session`. The storage (`access`, `refresh`) and the cookie are shared by the tabs; `tab[t]` is the
one call of a tab, from the interceptor that adds the token to the one that refreshes and tries
again. `now` lets access tokens and refresh tokens expire; the server answers from the call, the
time and the quota of `authLimiter`. `stray`, `failed` and `excused` are history.

`RequestBuilder` is the loading flag and the draft in localStorage against `Sends` under way, each a
sequence of awaits that ends by saving the state it began with.

`Scripts` has the page's map of pending scripts and timers on one side, the frame's
jobs and its one log array on the other, and messages that reach nobody when sent too soon or to
another origin. `CollectionRun` adds the loop of `useCollectionRunner`, its window, and the builder's
`Send`; `Quiet` keeps a new event out while a continuation is due, as JavaScript does.
`ScriptedRequest` is what one script does to a list of headers or parameters, and the merge after it.

`LibraryLists` has the rows of the server and, per list, what the cache holds (`data`), whether it
is invalidated (`stale`) and the fetch under way. `Operate` is a call of the sidebar, `Apply` its
effect on the server, `Invalidated` the lists its mutation names. Bulk jobs and exports run over
`job`. `missed` remembers answers that came after an invalidation they did not see; React Query
lets a fetch under way serve for the new one.

`EnvironmentEditor` has the server's environments, the cached list, calls and the fetch, and the editor:
`open`, `selected`, rows kept beside the cache (`own`). Rows are edited in place of
the cache, as `VariableEditor` does. `touched`, `doomed` and `missed` are what the properties except.

`Playground` has the storage, the sidebar's and the page's copy in each tab, sends and the history;
`unsaved`, `lone` and `apart` are what the properties except.

`JsonTree` is checked over every document of up to `MaxNodes` nodes with keys that look
like indices or hold a dot: the text of each path, its taking apart, the sets of collapsed and matching paths.

`SentRequest` is a request in the editor, with rows of a form and files that are attached to row numbers,
what the proxy makes of it, and what comes back from a collection, the history or the draft.

### In all programs

`Variables` resolves a name in the builder, the web's runner and the command line, and lets
scripts set variables before and after sends that overlap. `PostmanFile` reads a file
twice, once for the import (its dialog and the calls that save it, any of which may fail) and once for the
command line. `OpenApiFile` follows parameters and the schemas of a body, with
the stack as a depth. `CurlCommand` writes a command from a request, edits, and reads it back.

`CliRun` is the process from its arguments to `exit`: requests, scripts, tests with
`async` functions whose failure nobody awaits, `--bail`. `OrderedRun` is what both runners
promise: one request at a time, in order, with one verdict that stands, and none after a skipped one.

## Runs

Small modules that share no state are checked side by side in one run: a variable `part`,
chosen at the start, says which of them a behaviour is about, and the others stand still.
The state space is the sum of theirs. Where a module needs different bounds for different
questions, it has several parts (`wide` and `deep`, `rows` and `choice`).

| Run | Question | Bounds |
|---|---|---|
| `ws_serial` | what each handler's checks guarantee with no other request in between | 3 users, 1 workspace, 1 slot, 2 invites, OWNER and VIEWER offered, 2 ticks |
| `ws_concurrent` | what survives any overlap of two requests | 3 users, 1 workspace, 2 slots, 2 invites, VIEWER offered, 1 tick |
| `ws_ownerless` | can concurrent owners lose the last OWNER | 2 users, 2 slots; violated |
| `ws_revoked_join` | does a revoke stop an accept already under way | 2 users, 2 slots; violated |
| `environments` | what overlapping saves leave; what the window shows of it; what a variable means | server: 2 environments, 2 slots, 3 saves of up to 2 variables; window: 2 environments, up to 2 rows, one call and a fetch under way, 2 calls where several may be; variables: 2 names, 2 values, 2 sends |
| `env_orphans` | do variables outlive their environment | 2 slots; violated |
| `folders` | does one sidebar keep the tree; where rows are filed under any overlap | 4 folders, 1 client, or 2 workspaces, 2 folders, 1 collection and 2 clients with lost answers |
| `folders_cycle` | do two sidebars keep the tree | 2 folders, 2 clients; violated |
| `runners` | order, verdicts, counts, exit codes; do runs and scripts end | web: 2 requests, a run and a send, 2 script ids, a frame that loads, does not, or is of another origin; command line: 2 requests, 4 kinds of assertion |
| `web_client` | tokens, cookie, retries; draft and spinner | 2 users, 2 tabs, 2 ticks, a quota of 2 logins; 2 sends |
| `library` | rows, tags, imports | 2 workspaces, 2 requests, 2 tags, 2 calls; every list of 3 folders; Postman files of 2 items, 2 edits; 3 schemas, 2 parameters; a request with 1 later edit |
| `web_views` | what the browser shows and sends | 2 collections, 2 requests, pages of 1, 1 job, or 2 jobs over one of each; 2 tabs; a quota of 2 calls; JSON documents of 4 nodes; forms of 2 rows, 2 files, 3 steps; scripts of 2 items, 2 edits |

Why these suffice. Three users are the creator, the invitee and a third who must not profit; two
slots are enough for every pair of handlers to overlap, with a third acting
before or after; two invites let one lapse and be replaced; three saves let
two overlap after a third. EDITOR and VIEWER differ only in the role checks of
other components, so runs that offer one of them miss nothing. A life of 0 or 1
ticks lets an invite lapse during, and between, requests. Four folders are enough for a
folder dragged below its grandchild with a sibling at the destination; two workspaces for a row to stray.
A token can be expired, replaced and expired again within two ticks, and two
tabs are every pair of calls; a quota of two is reached. Two requests show an
order, a verdict left behind and a request skipped; three folders make a chain, a loop and a parent of
two in every order of the list. Three schemas make a loop that is entered from outside. Two rows, edits or items
are the fewest that can be mixed up, removed from the middle of each other or share a name.
A list of one page and one entry more has something beyond the page.

### What the passing runs show

*Server.* One request at a time, a workspace keeps an OWNER (`HasOwner`), has one open invite per
address, admits only on an open invite and with its role, and never changes an answer already
given. With requests overlapping and no OWNER invites, the creator stays the one OWNER and nobody
comes in without having been invited. Saves that overlap may mix, but the save that emptied the
table last is complete unless a row of its own failed, and rows of an older save remain only if the
two overlapped. However clients overlap, a row stays within its workspace, in a folder that exists,
and a deleted folder takes its folders along and no collection. A saved request has the tags of one
update, all that are left of them. A call writes only to workspaces where it checked the caller's role,
unless the request was moved there after it was found. An import creates each folder once and after
its parent, and fails exactly when some folder does not hang from the root.

*Browser.* One sidebar keeps the folders a tree and moves one folder per drag (`SidebarMoves`).
At rest, lists, history, environments and the editor show what the server has. A call of the API
ends, however often it is refused; a script's caller goes on and a run ends, also when the frame never
loads, is taken away, or the script never ends. Timers and pending entries go together. A run that ended
shows every verdict and a summary that agrees with them. A path of the tree leads back to its node.
What the editor shows is what the target receives, and what is opened again is sent again.

*Command line.* The exit code is 0 only when every request passed and no test asserted what is false;
`--bail` stops at the first that did not pass.

Each property states its exceptions, because the code has them. They are behaviours found while
modelling, each kept in a history variable or an operator so that only that case is excused:

| Property | Except |
|---|---|
| `TokensTogether` | the answer of a refresh stored after a logout or another login (`stray`) |
| `LoginReachable` | tokens removed by a refresh that failed, which leaves the cookie (`failed`) |
| `ResetStays` | a send under way when the request was reset |
| `SpinnerStops` in `EverythingSettles` | a loading flag read from a draft (`restored`) |
| `SummaryTrue` | requests that could not be sent after the last one counted |
| `ConsoleIsOwn` | scripts that ran beside this one |
| `ExitCode` in `ExitAndBail` | a script that never settles (exit 0 from inside it), an async test that threw unnoticed (`slipped`) |
| `TagsAtHome` | a request moved to another workspace (`strays`) |
| `WritesWhereAllowed` | a request moved after it was found |
| `ListsCatchUp` | an answer lost (`failed`), an answer that arrived after an invalidation it had not seen (`missed`) |
| `ExportIsCurrent` | lists known to be old as it began (`old`): of closed collections, invalidated and not fetched, or missed; a collection that is gone |
| `EditorHolds` | rows edited and not saved (`touched`), answers lost (`missed`), an environment chosen from an old list (`doomed`) |
| `VariablesHold` | a name that occurs twice; failing and overlapping sends of the builder (`loose`) |
| `HistoryCatchesUp` | what other tabs, or a send given up, changed (`behind`) |
| `PlaygroundHolds` | another tab (`lone`), rows not saved (`unsaved`), the sidebar used after the page loaded (`apart`) |
| `JsonTreeHolds` | keys that dots and brackets cannot tell apart (`Lost`), an array at the root |
| `SentAsMeant` | two files under one key (`Ambiguous`), files of a request opened again, what is not recalled |
| `SentAsLeft` | in the builder, what a script removed or repeated |
| `SavedAsRun` | form data, default names and answers lost, which are told apart in `Alike` and `told` |
| `ReadUnlessLoop` | schemas that contain each other by allOf; a placeholder declared twice |
| `PastedAsCopied` | texts the patterns misread and the parts its comment lists |

`EditorHolds`, `VariablesHold`, `ExitAndBail`, `RunsEnd`, `EverythingSettles`, `PlaygroundHolds` and
`JsonTreeHolds` are conjunctions of two or three named properties of their modules.

### Refinement

`Workspaces` implements `Roster` (`RefinesRoster`): the abstract members are the table. `CollectionRun` and
`CliRun` both implement `OrderedRun` (`RefinesOrderedRun`, and `Cli!RefinesOrderedRun` within `RunsEnd`): the abstract verdicts are what the window
shows, respectively the verdicts of the process; every other step is a stutter. That the
two runners, written apart and with different loops, keep the same promise is checked and proved once for each,
also while a send of the builder uses the sandbox and while the page is left and entered again.

### Fairness and deadlock

Liveness is checked in `runners` and `web_client`. Weak fairness is assumed of what a scheduler or a timer
does by itself: a promise that is settled continues, a timeout fires, and the server answers or the
call fails (its own timeout). Nothing is assumed of scripts (they may run for ever), of the frame (it may
never load), or of the user, who need not press, close or send anything. `SilentRenewal`,
`ListsCatchUp` and the other statements about rest are invariants: they say what holds once nothing is under way.

Most runs do not check deadlock, because bounds make clients run out of calls, ids or steps, and runs and
processes end. No server handler waits for another, so there is nothing on the server to
deadlock on; what could wait for ever in the browser is a caller of a script, which
`RunsEnd` is about. `web_client` has no end and does check deadlock.

### Findings

Four runs are violated: two owners who demote each other leave a workspace without OWNER, a revoked
invite still admits, variables outlive their environment, two folders end up inside each other.
Others are exceptions of a passing property, above, that a comment or a help text of the
repository denies: a client without tokens that the middleware keeps from `/login`, an exit code of 0 from a
script that never settles, headers removed by a script and sent all the same, and a
history that is fetched at every render instead of on mount. `PROJECT.json` quotes them.

## Proofs

The modules `...Proofs` extend the modules above; the theorems hold for
every value of the constants that meets the named assumptions.

- `TypeCorrect` (all of them): `TypeOK` is inductive once the locals are known to match the
  label (`TypeInv`: an accepting call holds an existing invite, and so on).
- `CreatorStaysOwner`, assuming that invites never offer OWNER. `CreatorIsOwner` alone is not
  inductive: a handler about to delete or change a row has read it earlier.
  `OwnerInv` adds what those reads still guarantee: an invite, and a call holding one,
  belongs to a workspace that has its OWNER and does not offer that role; a call
  about to remove or change a member aims at someone other than the creator;
  and only one call is about to insert a workspace's OWNER row, while it has no members.
- `ImplementsRoster` follows from `OwnerInv`: each action is a move of `Roster` or leaves `members` alone.
- `NoUninvitedMember`: `ProvenanceInv` adds that a call accepting an invite is made by someone
  whom an invite to that workspace addresses; invites are never deleted and keep their addressee.
- `SerialRequestsKeepAnOwner`, `SerialInvitesAreOne`, `SerialJoinsAreInvited`, `SerialAnswersAreFinal`, assuming `Alone`:
  there is one request slot, the hypothesis under which `ws_serial` checks the same. Whatever a handler has read is then
  still so when it writes; `SerialInv` says it of every label a handler can wait at.
- `LatestSaveSurvives`, `SavesReplaceWhole`: `SaveInv` is their conjunction. A variable
  on its way can only be stored or lost, and when the table is emptied those on
  their way are the ones `late` records; `TypeInv` adds that only a creating call has any.
- `DeletedStaysDeleted` is an action property: every action is looked at once.
- `VariablesKeepTheirMeaning`, `EditorKeepsUp`, assuming `VariablesAssumption`: the editor's invariant follows an environment
  through the server, the list, the call and the fetch under way, and the rows being edited, with what `touched`, `missed`
  and `doomed` except at each place.
- `RowsStayFiled`: `Filed` is not inductive, because a write trusts earlier lookups. `Checked`
  says what those lookups still guarantee of each call: the row and its new place are of
  one workspace, unless one has been deleted. It lasts because rows keep
  their workspace until they are deleted (`Kept`), and the foreign key settles the rest.
- `DeletionsHaveCause` is an action property; its lemma `SubtreeParent` shows that whatever
  a cascade reaches, other than its root, lies in a folder that the cascade reaches.
- `OneSidebarKeepsTheTree`, on the specification of one sidebar's drags: a list fetched before still shows the true place of
  every folder that is left (`TreeInv`), because nobody else moves any; so the way up from the destination (`WayUp`) that the
  sidebar looks at is the real one, and it does not pass the folder dragged.
- `SessionProofs`: each of `TokensTogether`, `LoginReachable` and `SilentRenewal` is inductive together with
  the types, which say that a token that is issued or good is not `NoToken`. `RenewalIsSilent` shows that an excuse
  lasts until the next call begins, and that every step that refuses a call finds, or leaves, no refresh token.
  `ResetsStay` is about the drafts of the editor beside it.
- `LibraryProofs`, saved requests: a call's locals say what it has looked up (`Progress`): once it writes, every place it
  found and every place it moves to was checked, which gives `WritesAreAllowed`. For the tags, `TagsOfOneUpdate`
  needs that the ids an update holds were stored when it upserted them and belong to its workspace (`TagsFound`),
  and that the request a save is about to create is in nobody else's hands (`Newcomers`).
- `ImportIsExact`, for a file of any length (this and the next three assume `LibraryAssumption`): every pass has created a
  folder, or nothing can be created any more (`Searching`), and each creation leaves one key fewer (`Accounts`); so
  `Length + 5` passes exhaust what can be created, and `Exhausted` shows that this is all that hangs from the root.
- `SavesWhatRuns`: what the walk of a file collects is its requests in their order (`WalkIs`), and `PostInv` ties the job of
  an import, the requests made and the report of each to the file as it was when it was given.
- `ReadsUnlessLoop`: unless allOf makes a loop, the names on the stack since the last property are distinct, so that the depth
  is at most `|seen| * (N + 1) + |chain| + 1`, which the assumed `Limit` exceeds; `BracesInv` counts the placeholders.
- `PastesWhatWasCopied`: `PasteInv` says that the clipboard holds the command of the request copied, the preview what is read
  of it, and the pasted request what the preview held. Under the property's exceptions reading gives back each part: the
  filter over the headers keeps all, the one for authorization only the first or none, and what is enabled stays so.
- `CollectionRunProofs`: `NothingLeft` holds because who asks for a script awaits nothing (`Free`), so that no
  promise is forgotten, and because a promise that has settled has lost its id (`SettledFree`). `ConsoleIsOwn` is
  about answers; `ConsoleShared` says it of scripts still running: every two know of each other, and the array holds
  only lines of scripts each of them knows. `ImplementsOrderedRun`: `Follows` ties the results a window shows to
  the loop's index for as long as it is shown; after that they stand still. `SummaryStaysTrue` counts: the verdicts before
  the loop's index are as many as the counters say, and one more verdict adds one to one of three finite sets.
- `RunnersProofs`, assuming `RunnersAssumption`: `Follows` does the same for the process, and `Flags` says that `bailOut` and
  the history of tests are about verdicts already given, which gives `ExitTellsVerdicts` and its `ImplementsOrderedRun`.
- `WebViewsProofs`, assuming `ViewsAssumption`, has an invariant for each part of the run `web_views`.
  `HistoryIsShown`: a tab's list is the server's, or a fetch or call is under way, or another tab is `behind` the change (`HistoryInv`).
  `SentIsMeant`: rows of a form and files stay attached through removals and renamings (`SentInv`).
  `PlaygroundIsKept`: what each copy in a tab and the storage may differ in (`PlayInv`).
  `ListsAreCurrent`, `ExportsAreCurrent`: what a list holds, or is about to receive, is what the server has, unless the list is
  marked stale, has missed an invalidation, or a call that is done has not invalidated it yet; and a list on display
  that is stale or unanswered is being fetched (`ListsInv`); `ExportHolds` says what the read under way will add.
  `ScriptedIsSent`: the merge is the identity on a list without repeated names, by induction over its loop (`ScriptInv`).
  `PathsStayTrue`: from a node's path to its child's, one segment more is read and one step more is followed (`OneStep`), and
  among its siblings that step finds the child alone (`FollowsTo`); by induction over the nodes (`Onward`) a path leads
  to its node, and the hook's walks build the same paths (`WalkedIs`). `JsonAssumption` says what keys are: words, odd or dotted.

Every safety property that a passing run checks is thus proved, for every size, of the specification that the run checks.
Only model-checked are the liveness properties `RunsEnd` (its safety part is `ImplementsOrderedRun`) and `EverythingSettles`,
which are out of the prover's reach, and the counterexamples. The library's induction theorems cannot be instantiated by the provers, so
`LibraryProofs` and `WebViewsProofs` prove induction once, of a set of numbers (`LeastOf`, `Induction`), and use it for the loops.
What a recursive definition over a list or a tree computes is taken step by step from a lemma (`GrowsOne`) that such a function exists.

## Not modelled

- *Order among siblings.* Folders, collections and requests are numbered, maximum plus one, in two
  queries: two creations may get one place (`folder.service.ts:34`). The properties are about where a row is,
  not which comes first.
- *Registration's user row* and its unique e-mail; the expiry and access count of share links; the secret flag of
  variables, which the window shows or hides by index.
- *gRPC execution* keeps no state and shares none. Layout, styling, e-mail contents and the
  numbers of the rate limiter are left out.
- *Contents.* OpenAPI servers, security schemes and example values; JSON keys that are empty; blank form keys; a typed
  body that is itself an encoded form; JSONPath texts beyond a path's segments.
- *History*: a deletion looks for its entry among the newest 1000 (`history.service.ts:15`); pages list 50, so that
  an entry shown is beyond those only after 950 others, and the run's bounds leave that out. The response of an earlier send is shown beside another request when it ends last.
- *Two invites at once for one address* find none pending and both are created (`workspace.service.ts:108`);
  the run with overlapping requests therefore does not check `OneOpenInvite`.
- *The window that saves a request* resets its name and the chosen collection whenever its parent renders
  (`components/collections/SaveRequestModal.tsx:47`); pinned requests, the palette and the comparison of responses keep
  state of their own that nothing else reads.
- *The crash of a browser* is a reload; the server's graceful shutdown is the crash of its handlers.

## Plan

Done, in this order: `Workspaces`, `Environments`, `Folders` with their proofs; `SavedRequests` and
`LibraryImport`; `Scripts`, `CollectionRun` and `CliRun` with their common abstraction; `Session`,
`RequestBuilder`; the caches and windows; the importers; the contents that are sent.

What would add most next: an order of siblings as a refinement of `Folders`; share links with their expiry
and access count; the tags that an import upserts.
