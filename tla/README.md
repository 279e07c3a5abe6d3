# OpenHPC Web: verification project

TLA+ specifications of the stateful parts of OpenHPC Web (a Go web server for
one Slurm cluster, with a browser script), the TLC runs that check them on small instances, and TLAPS
proofs for every value of the constants. `PROJECT.json` lists the runs, the
mutants each property was tried against, the source lines each definition
models, the hazards, the findings and the theorems.

    tlc -workers 2 -config <cfg> <module>     # a run
    tlapm <Module>Proofs.tla                  # the proofs of a module

## 1. The system

The server (`cmd/server`) is one Go process. Every HTTP request is a goroutine;
state is shared between requests in memory (under mutexes and channels), in
SQLite (accounts, partitions, settings, audit log) and outside (slurmctld
through command lines, an LDAP directory, an SSH login node).

| Part | State it keeps | Operations | Hard behaviour |
|---|---|---|---|
| Query cache (`slurm/cache.go`, `slurm/client.go`) | last attempt, value, error, `refreshing` channel | `get`, `invalidate`, the Slurm commands | single flight, cancelled loaders, invalidation during a load |
| SSH terminal (`web/terminal.go`, `terminal/`) | map of sessions, owner, claimed, timer | create, Add, Claim, stream, Release, CloseUsername, Close | opening takes seconds; four parties may close one session |
| Login, sessions, accounts (`web/app.go`, `web/platform_users.go`, `platform/users.go`) | session map (memory), accounts (SQLite) | login, middlewares, logout, create, enable/disable, start-up upsert | checks in one place, effects in another; copies of the role |
| Partition management (`web/partitions.go`, `platform/partitions.go`, `slurm/partition_admin.go`) | rows (SQLite) and Slurm's partitions | save, delete with compensation, import and restore at start | two stores without a common transaction; crashes; timeouts after the effect |
| Job output (`web/job_output*.go`) | slots in a channel, goroutine per read | `slurmJobOutput`, the reader | slot changes owner; deadline, client and result race |
| Login limiter (`web/app.go`) | attempts per client | reserve, reset | window boundary, eviction when full |
| Audit log (`platform/audit.go`) | rows with ids | Record with retention, List by cursor | pruning between pages |
| Settings (`platform/settings.go`, `web/settings.go`, `cmd/server`) | key/value rows | SetMany, parse at start | form and start-up disagree |
| LDAP (`ldapdirectory/`, `web/ldap.go`) | directory (external), slot pool | Authenticate, search, CreateUser | check, then add |
| Job cancel, node availability, job resources | none, slot pool | look up, check owner, command | stale lookup |
| Accounting, core hours, metrics (`slurm/*.go`) | none | pure aggregation | boundaries, overflow |
| Browser script (`web/static/app.js`) | dialogs, pending forms, fetches in flight, a timer, a WebSocket | click, submit, close, timer, frame and socket handlers | events arrive after what caused them is gone; aborted answers still arrive |
| Config browser, views | none | text | - |

Interactions: handlers call the Slurm client (cache in between), the stores and
the directory; login, logout and account status act on the session store *and*
on the terminal store; job cancellation and node changes invalidate the cache;
start-up (`New`) upserts the administrator and synchronises partitions. The
browser script submits forms to those handlers, fetches job output and resource
usage, and attaches to terminals over a WebSocket.

## 2. Modules

| Module | Models | Proofs |
|---|---|---|
| `ValueCache` | `valueCache.get/invalidate`, `CancelJob`, `SetNodeState` | `ValueCacheProofs` |
| `TerminalSessions` | `createTerminalSession`, `terminalSocket`, `terminalSessionStore`, logout/disable/shutdown | `TerminalSessionsProofs` |
| `AuthSessions` | login, `requireAuthentication`, `requireCSRF`, `requireAdmin`, logout, platform users, restart | `AuthSessionsProofs` |
| `PartitionSync` | `savePartition`, `deletePartition`, both start-up syncs | `PartitionSyncProofs` |
| `JobOutput` | `slurmJobOutput` and its goroutine | `JobOutputProofs` |
| `AuditLog` | `AuditStore.Record`, `List`, the pages of `auditLog` | `PlatformProofs` |
| `LoginLimiter` | `loginAttemptStore.reserve`, `reset` and the login around them | `PlatformProofs` |
| `LdapProvision` | `createLinkedLDAPUser`, `Client.CreateUser`, the directory slots | `PlatformProofs` |
| `ModalDialogs` | the dialogs of the browser script and the class `modal-open` | `DialogProofs` |
| `PageForms` | confirmation, job cancel, node state, partition and user forms | `DialogProofs` |
| `JobOutputPreview` | the preview of stdout and stderr | `DialogProofs` |
| `ResourcePolling` | the resource dialog, its polling and charts | `DialogProofs` |
| `JobViewer` | abstract: what the resource dialog promises; `ResourcePolling` implements it | `DialogProofs` |
| `BrowserPage` | the dialogs of the three modules above in one page, interleaved | `DialogProofs` |
| `TerminalClient` | the browser's side of a terminal | `BrowserProofs` |
| `SlotPool` | abstract: what a channel of slots promises; `JobOutput` and `LdapProvision` implement it | `JobOutputProofs`, `PlatformProofs` |
| `OutputView` | `JobOutputPreview` and `JobOutput` joined: a click makes a request, its answer reaches the dialog | `BrowserProofs` |

`MCTerminalSessions` and `MCAuthSessions` only add symmetry sets. `MCPartitionSync`
adds a scenario, start-up with one request at a time or overlapping requests on
one partition. `MCBrowser` composes the parts of the page and the reader behind
the preview, `MCPlatform` the audit log, the limiter and the directory accounts: a
behaviour follows one part, chosen at its start, because the parts do not act on
each other's state (the dialogs do share the class and the queue of close events:
`BrowserPage` interleaves them; their product is left to the proofs). `OutputView`
joins the preview and the reader step by step; at the sizes of the browser run
its states number more than ten million, so what it states is proved and not run. Definitions named `XMutated`-style with
the comment "Mutant of X" are the faulty variants of X that the properties are
tried against; the specifications do not use them.

Conventions. A section under a mutex, a channel operation, a database statement
or transaction, and an external command is one action, because other goroutines
run in between. External parties (Slurm, LDAP, SSH, the browser) succeed or fail
by choice; a Slurm command may also take effect and be reported as failed.
History variables record what happened and guard nothing; they are marked.

### ValueCache
`pc[c]` follows a caller through `get`: `check` (first locked section: `Hit`,
`Join`, `Lead`), `wait`/`woken` (the select), `loading`, `loaded`, `Store` (second
locked section), `Return`. Slurm's state is a version number. Only the age of the
stored attempt matters; a zeroed and an expired attempt are both `age = TTL`.
A caller may be cancelled at any point. `Client.Snapshot` runs the same protocol, and nothing
invalidates what it keeps.

### TerminalSessions
A create request and its SSH session share a name. `create[r]` follows
`createTerminalSession`; `stored`, `owner`, `claimed`, `timer` are the store;
`closer[r]` is the goroutine that took the entry out under the lock and closes it
afterwards. `leaving[u]` is a logout (terminals first, then the token) or a disable
(tokens first) in progress. `late` notes that `CloseUsername` ran while the session
was being created. Shutdown stops new requests and then closes the store.

### AuthSessions
A login attempt makes at most one token, which takes its name. `login[l]` carries
the user and the role that were read from the account; `request[q]` goes through
`identified` (session found), `checked` (account not disabled), `passed` (CSRF, the
token is looked up again) to the handler. Disabling is two steps: the row, then
`removeUsername` (`purging`). The terminals that a logout or a disable also closes
are in TerminalSessions. `Restart` clears memory and upserts the administrator.
`Forget` frees the name of a token nobody holds, so that behaviours go on.

### PartitionSync
Partitions are numbered in name order. `conf` is what slurm.conf defines, `slurm`
what slurmctld runs, `db` the rows. Nodes of several partitions get a joined name
(`Group`), which the store rejects; the import stops there. `request[q].step` follows
a handler between its store transaction and its scontrol commands. `torn` marks a
partition on which requests overlapped or a delete was left half done, `settled`
one whose last request ran alone and reported success.

### JobOutput
`handler[r]` and `reader[r]` are the request and the goroutine it starts, `owned[r]`
is `slotOwnedByHandler`, `context[r]` the read context. Every way out is `Answer`
(audit, then the response) followed by `Return` (the deferred calls). `HungReads`
are requests whose file system never answers.

### AuditLog, LoginLimiter, LdapProvision
An audit event is its id; `walk` is an administrator's walk from page to page,
with what it has shown. In the limiter a request reads the clock (`ReadClock`) and
only then takes the lock (`Reserve` or `Refuse`), so times arrive out of order;
`admitted` is the history the bound is stated on. An account creation goes through
its three searches one by one; `raced` marks a request under which the directory
changed after it began.

### SlotPool and OutputView
`SlotPool` knows who has a slot and how many are taken, nothing of handlers. Of a
job output request the holder is the request, whether its handler (`owned`) or its
goroutine has the slot; of a creation of a directory account, from its first search to
its last answer. The pages that search the directory take slots by the same function and
only read; a login's LDAP authentication takes none. In `OutputView` a fetch and its request share a name: `AskForOutput` is a click
with the request it sends, `ServerStep` any step of the handler or its goroutine,
`ResponseArrives` the answer with content only if the handler served it,
`ConnectionFails` a lost connection or an abort. The history `trail` holds the streams
of the job on display that this dialog asked for and whose success was audited;
another job empties it.

### The browser script
JavaScript runs one task at a time; an action is one task with its microtasks
(all callbacks of an answered fetch run in one). What the browser does is assumed
of its standards and marked external in the map: `showModal()` makes the rest of
the page inert; `close()` hides a dialog at once and *queues* its close event, so
that a click may open a dialog before the event of an earlier one has run
(`closeEvents`, and the history `overtaken`); `abort()` loses against an answer
whose task is already queued; a WebSocket's close event may come long after
`close()`; a ResizeObserver and an animation frame are later tasks.

- `PageForms`: `hidden` is what a dialog will submit, `shown` what its text says. A
  POST leads to another page, an initial state. Pages may be rendered with a
  dialog open, which the script closes and opens again (`Reopened`).
- `JobOutputPreview`, `ResourcePolling`: request numbers are compared only with the
  latest one, so a fetch is a name and `current` holds the one whose number is the
  latest. The scroll handler is a value (`onscroll`), a closure over one log.
- `ResourcePolling`'s charts are operators in integers: tenths of a unit, as
  `toFixed(1)` writes them, thousandths of a core. The samples a chart draws are the
  set of their indices (`Finite`), and `Index` is the place of one in the filtered array.
- `TerminalClient`: sizes are model values; `TooLarge` are those the server's `Resize`
  refuses. `loaded` says which of the two scripts of xterm.js arrived.

## 3. Runs

| Run | Instance | Shows |
|---|---|---|
| `cache` | 2 callers, 1 admin, ttl 1, 2 changes of Slurm | one loader at a time; a cancelled loader harms nobody; waiters wake, cancelled callers return; a stale fresh value only from a load in flight at the invalidate |
| `cache_race` (violation) | 2 callers, 1 admin | read-your-writes does not hold: see finding 1 |
| `terminal_store` | 2 users, 3 creates, limits 2/2, no sockets | both limits; logout misses only sessions being created |
| `terminal_attach` | 2 users, 1 session, 2 sockets | attached once by its owner; never orphaned; closed in the end |
| `terminal_logout` (violation) | 1 user, 1 create | finding 2 |
| `auth` | 3 names (one invalid locally), 3 logins, 2 requests, 1 restart, any database | role copies stay backed; what a disabled account can still do; how the last administrator can be lost |
| `auth_ldap_names` (violation) | same, smaller | finding 3 |
| `partition` | 2 nodes, 1 crash, 1 slurmctld restart; 2 partitions and requests one by one, or 3 overlapping requests on one partition | rows of system partitions protect them; own partitions stay managed; lone successful requests leave database and Slurm in agreement |
| `partition_read_only` (violation) | 2 partitions, 2 nodes | finding 4 |
| `browser` | 2 rows, 2 nodes, 2 queued close events; 3 fetches, logs of 1 and 5 lines in batches of 2; 2 jobs, 2 polls, 4 samples, a history of 3; 2 sockets, 3 sizes, 2 frames; reader: 2 requests, 1 slot, one hung file | see below |
| `browser_resume` (violation) | same | finding 5 |
| `platform` | log of 5 of 12 events in pages of 2; 3 addresses, 2 attempts, window 2, 1 attempt, table of 2, clock to 4; 3 creations, 2 names, 2 numbers, 2 slots | a walk through the log misses and repeats nothing; the attempts of one address are bounded; two accounts share a number only if a request was overtaken; the creations take and return slots of the directory as of a pool (`ImplementsDirectoryPool`), also when none is left |

What `browser` shows. Every POST is about what the dialog named
(`SubmitsWhatIsShown`); the editor starts from its own partition
(`EditorStartsFromPartition`); the page is locked exactly under a dialog
(`LockFollowsDialogs`); no late or aborted answer is displayed (`OnlyScrollMisleads`)
and every fetch and disabled button is accounted for (`FetchAccounting`); the
resource dialog implements `JobViewer` (`ImplementsViewer`), with one polling loop
(`OnePollLoop`) that goes on after errors (`PollingContinues`), and its charts stay
in their frame (`ChartsFaithful`); one WebSocket is alive (`OneLiveSocket`), the
keyboard follows it (`DeadOnlyByLateClose`), the remote terminal has the size the
user sees (`SizeAgrees`) and connecting ends (`ConnectingEnds`); the reader
conserves and returns its slots (`SlotAccounting`, `SlotsComeBack`), which to other
requests are a plain pool (`ImplementsPool`), answers every request (`HandlerReturns`) and audits what happened (`AuditTruthful`).

Several of these name an exception, each one a behaviour TLC finds in the code:
- after a long log, a click on the other stream leaves the scroll handler of the
  first: scrolling before the answer arrives brings the first log back under the
  new title (`app.js:151`, `168`);
- a close event that runs after the dialog was opened again unlocks the page under
  it, cancels its fetch or its polling, or leaves the accept button without a form
  (`app.js:114`, `235`, `409`); a page rendered with an open dialog always starts so;
- the close event of an earlier socket disables the keyboard of the next one and
  says "Disconnected" (`app.js:659`);
- the message of a failed socket (`app.js:663`) is always overwritten by the close
  event that follows it;
- a partition whose node is not listed any more is saved without it (`app.js:505`);
- an attempt that took its time before another dropped the window starts that
  window again: the limiter then admits more than it promises (`app.go:1278`).

Why the bounds suffice. Two callers give a loader and a waiter, and either may be
cancelled; two versions let a sample be older than an acknowledged command. Three
creates exceed a limit of two (there the total masks the limit per user, which
`LimitsHold` covers for any values); two sockets race for one id. Three logins allow two
administrators and a victim, two requests the mutual disable. Two partitions and
two nodes give every overlap of partitions and every order of import errors; three
requests on one partition give overlap with an overlap. Two requests exceed one
slot. Two close events of one dialog allow a late one of each of two showings;
three fetches an aborted one behind a current one for each of two streams; logs
shorter and longer than a batch, a history shorter than the polls; two sockets the
old and the new one; one size in three is refused. Seven events fall out of the
log in the middle of a walk of three pages; three addresses overflow the table with
a choice of whom to evict, and a clock of two windows lets a window be dropped and
begun again; three creations exceed two slots of the directory. Where a theorem exists, the instance only guards against a vacuous
statement. `MaxVersion`, `MaxRestarts`, `MaxCrashes` and `MaxReloads` bound events
that are otherwise unlimited. The terminal runs turn the deadlock check off: after
shutdown nothing is left to do; so does `platform`, where the creations end and the
log and the clock are bounded. All other runs check for deadlock.

Symmetry is used in the safety runs `terminal_store`, `auth` and
`partition`; the runs with liveness have none.

Fairness. Goroutines that can run do run (weak fairness of each step of `get`, of
the handlers, of the closers); the loader ends because every Slurm command has a
timeout, `Open` has one, timers fire, an attached stream ends at its connection
deadline. A Go select whose two cases stay ready chooses each eventually: strong
fairness of giving up in `get`. The browser runs its timers and queued tasks, and
fetches and handshakes end, because the handlers behind them do or by a timeout
(`PollFairness`, `ClientFairness`). Nothing is assumed of clients, of file systems
in `HungReads`, or of commands succeeding.

### Findings
1. `slurm/cache.go:48`: a load in flight during `invalidate` stores its old sample
   afterwards; it is served as fresh for a ttl.
2. `web/terminal.go:84`: a terminal being opened during logout or disable is added
   afterwards; README.md:91 says logout closes terminals.
3. `web/app.go:1044`: an LDAP user whose name `ValidateUsername` rejects gets a
   session whose every request, logout included, is answered 503.
4. `web/partitions.go:148`: an aborted import leaves system partitions that the
   page then lets an administrator overwrite.
5. `web/static/app.js:109`: the confirmation submits a form without its button, and
   the button that resumes a node carries the state the server needs: 400.

## 4. Proofs

Each proof module defines the inductive invariant `IInv`, proves it from `Init`
and for every action, and derives the properties; the assumptions are those named
in the component modules (`CacheAssumption`, ...): finiteness of request sets where
cardinalities are counted, natural limits, distinct special values.

- `ValueCacheProofs`: `SingleFlight` (that `refreshing` is true exactly while a
  caller loads) carries the rest; `NoSharedAbort` (no context error is ever stored) gives
  `CancelIsPrivate`; `LoadRaced` (a sample older than an acknowledged command belongs to
  a loader marked as raced) gives `StaleOnlyAfterRace`.
- `TerminalSessionsProofs`: `NoOrphan` is inductive given that an entry is stored only
  after Add; `WithinLimits` needs cardinalities of the store when an entry is added;
  `AttachedOnceByOwner` needs that an attached socket has used up the claim;
  `OnlyLateSurvive` needs that sessions of a leaving user are late from `CloseUsername` on.
- `AuthSessionsProofs`: `OnlyLateLogins` (tokens and logins of a disabled account that
  is not being purged are late) and `CheckedHoldsToken` relate requests to tokens;
  the two action properties follow from them.
- `JobOutputProofs`: `HandOff` (who may own a slot when) makes `SlotAccounting` inductive,
  over `FiniteSetTheorems`; `ReadContext` (a goroutine left alone has an ended context)
  makes `AuditTruthful` inductive. `ReaderRefinesPool`: the hand-off is a stutter of
  `SlotPool`, every other step that touches a slot an `Acquire` or a `Release`; it needs the
  same invariant, because a goroutine may only give back what its handler no longer owns.
- `PartitionSyncProofs`: `LoneSuccessAgrees` needs `AloneIsAlone` (the flag of a request
  and the mark of a partition mean what they say) and `LoneProgress` (what a lone
  request wrote to the database is still there at its scontrol commands);
  `OwnPartitionStaysManaged` needs that outside a half-done delete Slurm runs no own
  partition without a managed row (`OwnIsManaged`), so that the import at a restart
  cannot take it; the action property `SystemRowsUntouched` needs that no request past
  its store step is about a system row (`NoSystemRequest`).
- `PlatformProofs`, three parts. Directory accounts: a slot per working request and
  `FoundFree` (what a search found free stays free until the directory changes under
  the request). Audit log: `WalkSoFar` (everything between the newest event of a walk
  and its cursor is shown); that a page has no gap is shown with the least
  event of a set, by well-foundedness. Limiter: `Paced` (the history of an
  address ends in one window, which holds its attempts, as do the one and the two
  windows' lengths before it); a new window moves that summary on, and any interval
  of one or two windows is covered by it. The parts of the composition share
  nothing (lemma `PartsOfPlatform`), so `PlatformCorrect` needs no further induction. `ProvisionRefinesPool` and
  `PlatformRefinesPool` show that creations of directory accounts implement `SlotPool`.
- `DialogProofs`: `DialogInv` (types, `LockFollowsDialogs`, at most one dialog open), and per part
  an invariant of its own: `FormsInv` (field and text of an open dialog agree); `PreviewInv`
  (the controller's fetch is the current one and of the stream in the title, each
  stream has one attached fetch at most, the scroll handler is that of the log on
  display); `PollInv` (the current poll is of the job on display). For each part one
  lemma says what its steps do to its own dialogs and one ("bystander") that steps on
  other dialogs leave its invariant alone. `PageCorrect`
  puts them together for `BrowserPage`, where every close event, answer and timer may
  run under another dialog, with any number of close events queued.
  `PollingRefinesViewer` and `PageRefinesViewer` show that the initial states map to
  initial states of `JobViewer` and every step to a step or a stutter.
  `ChartsStayInFrame` is about the arithmetic of the charts: `Rounded` (a division with
  rounding) is monotone and stays between its end points (`DivMeans` and the lemmas
  after it); the least and the greatest element of a finite set exist (`LeastOf`,
  `GreatestOf`, by well-foundedness of the number of elements above), which gives the
  axis' maximum and the range of times; readings of any history are typed and, where
  the server's clock does not go back, their times ordered (`ReadingsTyped`, `TimesOrdered`,
  by a least counterexample), so every point is inside its frame and not left of the
  points before it.
- `BrowserProofs`: `ClientInv` (no socket while the POST is in flight, the button follows
  the POST, a pending resize has its frame, without the scripts nothing is fitted) for
  the terminal; every step of the composition the run checks is a step of the page,
  of the terminal and of the reader (`BrowserStep`), which gives `BrowserCorrect`,
  `BrowserRefinesViewer` and `BrowserRefinesPool`. `DisplayedOutputIsAudited`: every step of
  `OutputView` is one of the preview and one of the reader (`OutputStep`), so both
  invariants hold of it; what is new is `TrailInv`: the current fetch has its buttons in
  the document (`CurrentIsAttached`), the success of a fetch under way is in the trail
  (`SuccessInTrail`) and so is the log the scroll handler holds (`HandlerInTrail`), without
  which a scroll could bring back a log of another job. `AuditTruthful` closes the chain:
  content is served only with its success in the log.

The assumptions on constants that these use say that limits are positive (page and
batch sizes, window, attempts, capacity, slots, queued events), that the
null values (`None`, `Nil`) are none of the values they stand beside, that the
requests which hold slots are finitely many, that the default size of a terminal is
one the server accepts, and that there is a client and a node. The bounds on
events (`MaxCrashes`, `MaxClock`, `MaxRecorded`, ...) may be any number.

The type invariants are proved, of the compositions too (`BrowserTypeOK`,
`PlatformTypeOK`); only that of `PartitionSync` is also checked by a run.

Only model-checked:
- the liveness properties `WaiterWakes`, `CancelledReturns`, `EveryTerminalCloses`, `HandlerReturns`,
  `SlotsComeBack`, `PollingContinues`, `ConnectingEnds`: fairness and ENABLED are beyond the prover;
- the properties that the code violates (findings).

## 5. Status

Modelled: the cache, the terminal on both sides, sessions and accounts, partitions,
job output on both sides and joined, the forms and the resource dialog of the
browser, the audit log, the limiter, directory accounts. Proved: every safety
invariant and action property of the passing runs, both abstract specifications
(`JobViewer`, `SlotPool`) as implemented, and `DisplayedIsAudited` of `OutputView`. Left:

1. How often an exception can happen, such as a late close event of a dialog or of a
   socket: the properties say what causes one, not how many there are.
2. A run of `OutputView` needs constants of its own; with one fetch and two streams it
   has some 84,000 states, with two fetches and one stream 5.3 million, and the invariant
   holds on both.

Not modelled: settings (one transaction, read at the next start; the rest is the
parsing of texts), core hours and accounting (pure sums over time stamps), the
parsers of Slurm's output, the configuration browser (fixed files, text
redaction), views and templates (layout), of the browser script the sidebar menu,
the tooltips, the search shortcut, the formatting of numbers and an answer of unexpected
form that makes `renderResourceUsage` throw half way; what other tools do to the
directory besides adding accounts; password hashing,
SSH and LDAP wire protocols, the content of files and terminal streams.
