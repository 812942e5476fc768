# TLA+ specification of zenmind-official-server

The server is one Go process (`cmd/server`) behind the ZenMind web site and the
desktop application. It logs people in, hands out sessions and JWTs, serves the
JSON feeds that desktop applications poll for updates, proxies avatars, and
lists and counts installers, which a second program (`cmd/releasectl`)
publishes. This directory holds
TLA+ modules for the parts of it that keep state under concurrency and failure,
TLC models of them, and TLAPS proofs.

    tlc -workers 2 -config MCAuthCodes.cfg MCAuthServer
    tlapm AuthServerProofs.tla

## 1. Inventory

| Component | State | Operations | What is hard |
|---|---|---|---|
| Accounts (`internal/auth/store.go`) | `auth_user`, `auth_local_credential`, `auth_identity` in MySQL | `EnsureAdmin`, `UpsertGoogleUser`, `UpsertEmailCodeUser`, `UpsertAuthentikUser` | linking by verified address while addresses change; who becomes administrator |
| Login server (`internal/auth/server.go`, `store.go`, `google.go`, `desktop_jwt.go`) | `auth_session`, `auth_desktop_sso_ticket`, `auth_oauth_request`, `auth_email_code`; requests in progress | the login, code, Google, Authentik, desktop, market, logout handlers | one-time secrets under concurrent requests; a session that is read several times in one request; accounts disabled meanwhile; requests that die between two statements |
| Rate limiter (`request_security.go`) | a map from key to (count, window start) in memory | `allow` | the instant is taken before the mutex; the sweep |
| Update feeds (`internal/release/directory_updates.go`, `auth/desktop_updates.go`) | per feed a public file, a disabled file and a sidecar; the export marker; a mutex | load, save, list, import at start; files put there by hand | several files per save, crash or error between them; unlocked readers; stale editors |
| Legacy feed store (`release/update_feeds.go`) | SQLite tables | the one-time migration of the singleton, `SaveUpdateFeed`; read once by the import | several processes on one file; a pointer that is behind the newest revision |
| Manifest validation (`release/desktop_updates.go`) | none | `ValidateDesktopManifest` | size limit before and after formatting |
| Avatar proxy (`auth/avatar_proxy.go`) | cache files, a lock per version | `serve`, `download`, `writeCache` | the lock is per version, the clean-up per user; files found and read later; redirects; crashes |
| Installer publishing (`release/upsert.go`, `catalog.go`, `cmd/releasectl`) | installer files, catalogue rows | `UpsertFile`, `UpsertInstaller` | check, copy, chmod, digest and row are separate steps; overlapping and dying runs; a source that changes |
| Download statistics (`auth/download_store.go`) | event rows and totals in SQLite | `RecordDownloadEvent`, `ListDownloadStats` | one connection and one writer; transactions cut off |
| Desktop bridge (`server.go`) | two cookies of the browser | `desktopSsoStart`, `desktopSsoContinue` | tabs that share the cookies; late responses |
| Market proxy (`server.go`) | none | signs a JWT, forwards | the session check before it |
| Mailer, configuration, Google's library, JWT cryptography | none | I/O, parsing, cryptography | |

Handlers run in one goroutine each and share nothing but the database, the rate
limiter's map, the feed directory and the avatar cache. The login server calls the accounts'
operations from several handlers; its session and role checks guard the feed
editing of `desktop_updates.go`; `login`, `emailCodeStart`, `emailCodeVerify` and
`googleStart` ask the rate limiter first; a start of the process runs `EnsureSchema`, `EnsureInitialAdmin` and the
feed import, in this order, before it listens. `releasectl` shares the release
root and the SQLite file with the server and knows nothing of its mutexes.

`PROJECT.json` lists the hazards line by line with the properties aimed at them.

## 2. Modules

| Module | Models | Checked by | Proved in |
|---|---|---|---|
| `Accounts` | the account tables and their writers | `MCAuthServer` (`links`) | `AccountsProofs` |
| `AuthServer` | the login server; extends `Accounts`, whose operations it calls | `MCAuthServer`, four configurations | `AuthServerProofs` |
| `RateLimiter` | `allow` and its callers | `MCRateLimiter` | `RateLimiterProofs` |
| `FeedDirectory` | update feeds, Admin editing, the import | `MCFeedRefinement`, `MCFeedDirectory` | `FeedProofs` |
| `FeedStore` | abstract: a compare-and-set register and a log per feed | `MCFeedRefinement` | `FeedProofs` |
| `FeedRefinement` | the mapping by which `FeedDirectory` implements `FeedStore` | `MCFeedRefinement` | `FeedProofs` |
| `LegacyFeeds` | the SQLite tables the feeds are imported from | `MCSiteDatabase` | `SiteDatabaseProofs` |
| `AvatarCache` | the avatar proxy | `MCAvatarCache` | `AvatarProofs` |
| `Installers` | `releasectl upsert` and the catalogue | `MCInstallers` | `InstallersProofs` |
| `Downloads` | download events and statistics | `MCSiteDatabase` | `SiteDatabaseProofs` |
| `SiteDatabase` | the SQLite file: composes `Downloads`, `LegacyFeeds` and `releasectl` | `MCSiteDatabase` | `SiteDatabaseProofs` |
| `DesktopBridge` | desktop logins in the tabs of a browser | `MCDesktopBridge` | `BridgeProofs` |

Operators called "Mutant" in a module are deliberately wrong variants of the
definition below them. Putting one in place of that definition must make TLC
report the property it is paired with in `PROJECT.json`: this shows that the
property depends on the code it is about.

### Accounts

A row of `auth_user` is an element of the sequence `users` (no code deletes
users, so the id is the index), `identity` is `auth_identity`.
`upsertIdentityUser` is one transaction with locking reads and therefore one
step with three cases: the identity is known (`LoginKnownIdentity`), an account
with the address exists (`LinkIdentity`, administrators first, then the lowest
id), or neither (`CreateIdentityUser`). `UpsertAuthentikUser` and `EnsureAdmin`
are the two `INSERT ... ON DUPLICATE KEY UPDATE`. `SetEnabled` is an operator in
the database. Names, avatars and time stamps are left out: nothing decides on
them.

### AuthServer

A worker is a goroutine, `pc` the store call it makes next. `Begin` is the
arrival of a request that passes the checks that read no table; it may carry any
cookie, ticket, state or code, issued or not, and any number of requests may
carry the same one. Each later action is one store call with the code around
it: `FindLocalUser`, `SaveEmailCode`, `ConsumeEmailCode`, `SaveOAuthRequest`,
`ConsumeOAuthRequest`, `GoogleIdentity` (the exchange with Google), `UpsertUser`,
`UpsertAuthentik` and `ReadAuthentik` (two statements, hence two steps),
`ConsumeDesktopSsoTicket`, `CreateSession`, `SaveDesktopSsoTicket`,
`RequireCSRF`, `CurrentUser`, `SessionStartedAt`, `Issue`, `RevokeSession`.
`Refuse` ends a request at any point with everything it has committed left
behind: error answers, failed statements, cancelled contexts, crashes. `now[w]`
is the argument `s.now()`, evaluated when the previous call returned; the clock
may have moved on when the statement runs. Expiry is reckoned from that argument,
while the creation instants of codes and sessions are the store's own
`time.Now()`, any instant from `now[w]` on. A code is stored as its hash over
address and digits (`EmailCodeHash`), so equal digits of two addresses do not
meet. `Restart` runs `EnsureInitialAdmin`.

`origin`, `via`, `dead`, `off` are history: which secret and which identity are
behind a session; which sessions were over when the request's latest read of a
session began; which accounts have been disabled since the read of `ENABLED_`
that decides began. No action reads them to decide anything.

### RateLimiter

`Request` evaluates `s.now()`; `Open`, `Count` and `Deny` are the three returns
of `allow` under its mutex, each after the sweep. `MaxDelay` bounds the time
between the two. `log` is history.

### FeedDirectory

A step is one file operation of `GetUpdateFeed`, `SaveUpdateFeed` or
`importLegacy`. `atomicWrite` is one step because it renames; what it may leave
behind is a temporary file no valid name matches. `Crash` and `Fail` may come
between any two steps and undo nothing. An editor loads without the mutex
(`Load`, `ReadPub`, `ReadOff`, `ReadSideLoad`), submits, and saves under it
(`Lock`, the same reads, `Accept` or `Conflict`, `Write`, `Remove`, `Record`,
the read back). `UnchangedSince` is the comparison of revision and ETag; the
ETag hashes content, place and revision, and equal hashes are taken to mean
equal values. `Start`, `ImportSidecar`, `ImportFile`, `ImportDone` are the
start; the two `Lstat` and the write of a file by the import are one step, since
nobody else writes then. `Publish` and `Unpublish` change public files by hand
while no save and no import runs (`Coordinated`): the README of the server and a
comment in `SaveUpdateFeed` ask for this, as no lock can enforce it. Without it
a file could be overwritten between the comparison and the rename.

Contents are abstract: `Manifests` are what validation accepts, `Readable` the
manifests whose indented file is within the limit of `read`. Other contents are
JSON of another schema or no JSON. The history in SQLite is a constant; its
current entry need not be the last one, as rows migrated from the singleton
tables show. What the assumption `FeedAssumption` says of that history is
`LegacyComplete` and `NumbersGoUp` of `LegacyFeeds`; the import lists feeds by a
join with their pointer, so a singleton taken over without a current row has
nothing to import.

### FeedStore and FeedRefinement

`FeedStore` says what the README of the server promises without files: per feed
a value that clients see (`shown`) and a log. A save takes effect in one step
(`Switch`), only on the value its editor has seen, and is logged in a later one
(`Log`); a save may be left anywhere, so it may have switched and not logged.
The import fills an empty log and a missing value, again and again until it is
done. `FeedRefinement` maps the two files of a feed to `shown` (the public file
if there is one, else the disabled one) and the sidecar to `log`. Which step is
the `Switch` depends on the save: the `Write`, if the feed is enabled or no public file
hides the new disabled one, and the `Remove` of the public file otherwise
(`TookEffect`). All other steps of a save, the reads under the mutex included,
stutter.

### LegacyFeeds

Processes (the server, runs of `releasectl`) with one connection each, on one
SQLite file in WAL mode. `outdated` is SQLite's rule that a transaction which
has read may not write once somebody else has committed; it is what makes the
comparison of `SaveUpdateFeed` safe, since the transaction begins deferred. `Migrate`
and `Insert` are the writes of a transaction with its commit, which nobody can see
apart. The old tables may be empty or without a current row (`0` in
`OldCurrents`); a current row is taken to name a release that is there. At this
commit the server and `releasectl` only migrate and read these tables:
`SaveUpdateFeed` of the SQLite store is called by tests alone. It is modelled as it
stands, and `SavedOnLoaded` and the part of `NumbersGoUp` about new numbers are about
that code; the migration and the import do not depend on it.

### AvatarCache

A step is one file operation or one HTTP exchange of `serve`. `dir` is the
directory of one user: a file per version and extension, and the temporary file of
each request. `Begin` reads the user row once; `ChangeAvatar` may change it at
any time after. `Hit` and `Miss` are the `Lstat` calls of `findCachedAvatar`,
in any order as Go's maps are. The provider answers an image, an error or a
redirect to anywhere (`Download`, `DownloadFails`, `Redirected`). The clean-up
lists the directory (`List`) and removes what it has listed one by one (`Clean`),
also files that requests for another version are writing or about to read.
`Crash` keeps the directory; temporary files of dead requests are one `Stray`.

### Installers

One run of `releasectl upsert` is one worker; flags, path and source are chosen
freely. A build is its content: size and SHA-256 of a row are recorded as the
build they were taken from, so a row can mix two. `public` is the file mode
(`CreateTemp` makes 0600, the `Chmod` 0644). `Fail` may stop a run anywhere, and
the same command may be run again. `alone` is history. Nothing is locked between
the comparison of `UpsertFile` and its rename, so of two overlapping runs without
`-replace` the later one can replace the earlier one's file: the properties about
files promise nothing for runs that overlap on one path.

### Downloads

Requests share the one connection of the handle (`conn`) and, with everybody
else who writes to the file, its one write lock (`writer`). A transaction
collects its two rows in `draft` and applies them in `Commit`. `Fail` is any error
before that, the busy timeout and a client that leaves included. Others on the
file are `OtherLocks` and `OtherUnlocks`, where the component stands alone. The total is
compared with the number of rows, and both with the answers 202 (`accepted`).

### SiteDatabase

The server opens the file twice, once for downloads and once for the catalogue;
`releasectl` opens it again. `SiteDatabase` extends `Downloads` and instantiates
`LegacyFeeds` on the same `writer`. Counting a download, and the installer row of
`releasectl`, are commits that outdate the snapshots of `LegacyFeeds`; requests
arrive once the server has run `EnsureSchema`; `ServerDies` ends its requests and its
catalogue transaction together. The requests of the composed system are the actions
of `Downloads`; that they keep to the environment `DownloadsSpec` assumes is so by
construction, and only a lemma on the way to the theorems.

### DesktopBridge

A tab sends a request with the cookies the browser has then and applies the
Set-Cookie headers of the response when it arrives; in between other tabs do the
same. `Start`, `StartTrusted`, `StartInvalid` are the ways out of
`desktopSsoStart`, the five `Continue...` those of `desktopSsoContinue`. A handler is
one step, as `AuthServer` has their database calls one by one. The browser,
the login page and the user are the environment: a user may go back, reload, log in
or out in another tab, or close the tab.

## 3. Runs

| Run | Question | Bounds | States |
|---|---|---|---|
| `codes` | Does one e-mail code give one session at most? | 2 workers, 2 codes of 2 values, 2 addresses | 230 000 |
| `desktop` | The same for OAuth states and tickets, and ticket to session | 2 workers, 2 states, tickets, sessions, subjects, addresses | 1.1 million |
| `sessions` | Can logout, expiry or disabling be outrun by a request with several reads? | 2 workers, 1 account, 1 ticket, 1 session of 2 ticks, clock to 2 | 2.9 million |
| `links` | Do identities stay on their accounts while addresses change, who owns a session, and who gets administrator rights? | e-mail codes, Google and Authentik, 2 addresses (one the administrator's), 1 subject per provider, 2 accounts, 1 code, 1 session | 1.3 million |
| `limiter` | How much passes at most, and is a denial justified? | window 3, sweep at 4, capacity 1, delay 1, clock to 7 | 2.4 million |
| `feeds` | Do concurrent, interrupted saves and imports implement the register with a log, and is every save answered? | 1 feed with legacy history, every initial directory, 2 editors, 4 contents (one a manifest too large to read back, one no manifest), 3 revisions | 230 000 |
| `avatar` | Who gets which image, what stays in the cache, which hosts are contacted? | 2 requests, 3 versions (one of a foreign origin), 2 types, 3 redirects | 170 000 |
| `installers` | What do overlapping and dying runs leave behind? | 2 runs, 2 paths, 2 builds | 310 000 |
| `bridge` | Which desktop gets which answer, and how often? | 2 tabs, 3 attempts (one not allowed, one with a state cookies change), 2 sessions | 1.1 million |
| `database` | Do totals, events and answers agree, is the old feed history taken over once and whole, do saves replace only what was seen, is every request answered? | 2 requests, 2 events, server and `releasectl`, 2 feeds, 2 old releases with the pointer at the first or no pointer, saves up to 3 rows | 130 000 |
| `feed_readable` | finding: a saved feed can be read again | as above | violated |
| `feed_listing` | finding: manifests appear in Admin | 2 feeds | violated |

The bounds are the least at which each hazard happens: two workers for a race on
one secret; two codes for collision and for shadowing; two subjects (`desktop`) and
two addresses that identities change between (`links`) for a mix-up of accounts; a clock that passes every expiry; a rate
limiter map over its capacity while a window is open; a second revision so that
a save meets the result of an earlier one (for feeds in any number, and an import
that stops between two of them, there are the theorems of `FeedProofs`); two versions of an avatar, as requests for one version exclude
each other; two tabs for one cookie jar. Workers and random tokens are interchangeable (symmetry),
except in `feeds` and `database`, which check liveness. `MaxUsers`, `MaxTime`,
`MaxRevisions`, `MaxRows`, `MaxEvents` cap counters in guards; the theorems hold for every
value of those they are about. Deadlock is checked
in every run.

Each module states its type invariant; the login server's is checked in `codes`,
and every module's is proved by its proof module. What the runs show beyond types:

- `SingleUse`, `RightOwner`, `DisabledStaysOut`, `GrantNeedsLiveSession`,
  `RenewalKeepsStart`, `AdminSaveByAdmin` for logins and sessions;
- `OriginLinked`, `IdentityNeverMoves`, `AdminsAreConfigured` for accounts;
- `RateBound`: the fixed window lets through at most twice the limit within
  `Window - MaxDelay`, and no less can be promised (2 x limit is reached, and
  over a full `Window` it may be exceeded); `DenialJustified`;
- `SwitchesOnce`: what a feed shows changes in one step from what the editor saw
  to what the editor submitted, wherever a save stops; `HistoryOnlyGrows`,
  `SavedMeansSaved`, `ExportComplete`, `ImportKeepsFiles`, `EverySaveAnswers`;
- `ImplementsStore`: all of that at once, as the refinement of `FeedStore`;
- `ServedIsOwn`: a 200 carries the image of the version in its URL, complete and
  with its own type, whatever other requests write or remove; `NoNeedlessFetch`,
  `OneFileLeft`, `AllowedHosts`. `AloneIsServed` says when an image cannot vanish
  between two steps: if no other request for the same user runs. With one, 404
  and 500 do happen, which the code accepts (the next request fetches again);
- `AloneDescribesFile`: a run that no other run on its path overlaps leaves a row
  that is true of a file that is there and readable, so an interrupted publication is
  repaired by repeating it; `AloneKeepsFile`;
- `TotalsMatchEvents`, `AcceptedIsCounted`, `EveryDownloadAnswers` in the composed system;
- `LegacyComplete`, `SavedOnLoaded`, `NumbersGoUp`;
- `RedirectUnmixed`, `NoReplay`, `CalmComesHome` for desktop logins. An attempt
  that another one overlaps may be lost (its cookies are overwritten or cleared,
  and it ends with 400 or at the other desktop), but never comes back
  under a wrong state. `CalmComesHome` leaves out a state of which the cookie
  keeps no character: `desktopSsoContinue` takes an empty cookie for none and
  answers 400.

Fairness is assumed in `feeds` and `database` only: weak fairness of the steps of a
goroutine (the Go scheduler runs every runnable goroutine; file operations
return, a busy statement fails after `busy_timeout`) and strong fairness of taking
the mutex or the connection (a waiter of `sync.Mutex` gets it after 1 ms of waiting,
in starvation mode; whenever the connection is given back `database/sql` hands it
to a waiter picked at random, so a request that waits through infinitely many
of these is picked with probability one). Other requests, other processes, manual changes and crashes carry no
fairness.

## 4. Findings

1. **A save can leave a feed nobody can read** (`feed_readable`). Validation
   bounds the compact JSON, the file is written indented, and `read` applies the
   same bound to the file. A manifest close to 256 KiB is accepted and replaces
   the public file, which is then answered with 503; `SaveUpdateFeed` reads the
   feed first, so Admin cannot repair it.
2. **One foreign JSON file hides every feed from the Admin list**
   (`feed_listing`), though the directory is open to "future JSON document
   schemas" and "directly added Desktop manifests appear in Admin".

## 5. Proofs

All theorems are of the form `Spec => []Inv`, `Spec => [][A]_vars` or, for
the refinement of `FeedStore`, `Spec => AbstractSpec`, for every value of the constants that
satisfies the named assumptions (`AccountsAssumption`, `AuthServerAssumption`,
`RateLimiterAssumption`, `FeedAssumption`, `DownloadsAssumption`,
`SiteAssumption`, `InstallersAssumption`, `BridgeAssumption`,
`AvatarAssumption`). Each inductive invariant was checked with TLC on the runs of
its module before it was proved.

- `AccountsProofs`. The inductive invariant `AccountsInv` is the conjunction of
  the types, `OriginLinked` and `AdminsAreConfigured`: a new row is inserted only
  when no row has its subject, and `OriginLinked` then says that its identity is
  free. Every operation is shown once to preserve it and to be `Stable` (accounts
  and links are only added, subjects never change); `IdentitiesNeverMove` follows
  from the latter, and `AuthServerProofs` uses the same lemmas.
- `AuthServerProofs`. `CoreInv` adds `Control` to the types: what a worker has
  found at each of its calls. Without it the types of the tables are not
  inductive, since a row is filled from what the request found some steps before.
  `Spending` strengthens `SingleUse`: a secret that a worker, a session or a
  ticket has as its origin is consumed in its table, and no two of them have the
  same one. The workers must be in it, as a secret is out of its table and
  not yet in a session while its request runs. `Freshness` ties what a worker has
  checked to the beginning of the read that checked it: sessions that were over
  then still are at `now[w]`, accounts disabled ever since still are, and the
  session and user a worker acts for are not among them. From these follow `TypeCorrect`,
  `SecretsAreSingleUse`, `RenewalsKeepStart`, `GrantsNeedLiveSessions` and
  `DisabledAccountsStayOut`.
  `Ownership` strengthens `RightOwner` by the workers, which carry the verified
  identity and the consumed secret over several calls before a row is written
  (`AlwaysRightOwner`). It needs `Spending`, since a ticket or code a row refers
  to must be saved for good, and that operations are `Stable`: an identity keeps
  its account. It also says that an e-mail login upserts the address of its own
  subject, which is the one condition `AccountsSpec` puts on a caller; so
  `LoginsKeepAccounts` carries the theorems of `AccountsProofs` over to the server,
  whose other calls are the operations of `Accounts` by construction (the lemma
  `ImplementsAccounts`). `AdminInv` says that a worker which `updateAdmin` has let
  pass acts for a local account of a configured address. The role it has read
  may be old when the save is let through, so the invariant speaks of provider
  and subject, which never change (`AdminSavesByAdmins`).
- `RateLimiterProofs`. `LimiterInv` says that the windows of a key lie a whole
  `Window` apart, that no two calls have the same number in one window, that each
  held the mutex less than `Window + MaxDelay` after its window opened, that the
  entry in the map is the newest window, and that a key without an entry has no
  window a late caller could still have been counted in. So an interval of
  `Window - MaxDelay` meets at most two windows of `Limit` numbers each
  (`RateIsBounded`), and a denied caller finds all numbers of the open window
  let through (`DenialsAreJustified`).
- `FeedProofs`. `FeedInv` adds three parts to the types. `Control`: a worker is in
  its save exactly while it holds the mutex, and only while the server serves.
  `View`: what that worker has read is still what the directory holds, and its
  next step tells what the files are; between `Write` and `Remove` the feed shows
  either what its editor loaded or what was submitted, which depends on the
  directory the new file went to. `Export`: how far the import has got tells which
  sidecars hold the legacy history. The first is needed for the second (nobody
  else writes), the second for `SavesSwitchOnce`, `HistoriesOnlyGrow` and
  `SavesAreSaved`, since the comparison is made several file operations before
  the switch; the third gives `ExportsComplete` and `ImportsKeepFiles`. That hand-made
  changes keep away from saves and imports (`Coordinated`) is part of the
  specification, and the proofs rest on it.
  `DirectoryImplementsStore` is the refinement of `FeedStore`. `StoreInv` adds that
  an idle request remembers nothing and that the import has left a file for every
  feed it is through with (`Blank`, `Filled`). One lemma per action then names the
  step of the store: `Write` or `Remove` is the `Switch`, depending on
  `TookEffect`, and is allowed because `View` says that the directory still shows
  what the editor has seen and `Control` that nobody else is in a save; `Record`
  is the `Log`; a crash is an `Interrupt` of the import or the `Leave` of all
  editors; reads and lock operations stutter.
- `SiteDatabaseProofs`. `DownloadsInv` says what a request has written at each
  statement and, in `Tally`, that totals are events and that answers 202 given and
  due together are no more than the events: counting the due ones is what makes
  `AcceptedIsCounted` inductive. It is proved of `DownloadsSpec`, the component in
  its assumed environment; the lemma `SiteImplementsDownloads`, that migrations,
  saves and `releasectl` are such an environment, gives `TotalsAlwaysMatch` and
  `AcceptedAlwaysCounted` for the whole file. `FeedsInv` says what a transaction
  knows as long as its snapshot is not `outdated`: the pointer is the one its
  editor loaded and its number is above all others. So whoever may still write
  compared a value that is still there (`SavesAreOnLoaded`, `NumbersAlwaysGoUp`,
  `LegacyAlwaysComplete`), whatever commits of the other component come between.
- `InstallersProofs`. `Progress` is what every run has at each step. `Undisturbed` is
  what a run knows that no other overlapped on its path: the file it is about to
  write is absent or may be replaced, and size and digest are those of the file
  (`AloneAlwaysDescribes`, `AloneAlwaysKeeps`).
- `BridgeProofs`. `Whole`: two cookies that are both there were set by one response,
  in the jar as in any request that left with an older jar; `Unspent`: the attempt in
  them has had no ticket since it was started. Both hold of every snapshot of the
  jar, and so survive any order of responses (`RedirectsNeverMixed`,
  `TicketsNeverReplayed`). `UndisturbedAt` follows an attempt nothing disturbs
  through every page (`CalmAlwaysComesHome`).
- `AvatarProofs`. `BaseInv`: every cached file is a whole image of the version and
  type in its name, a temporary file belongs to the request that is writing it
  (`ServedAlwaysOwn`, `OnlyAllowedHosts`). `TidyInv`: of any two files, one is on
  the list of some request that will remove it; two files of one version are on
  the list of a holder of its mutex. The property itself speaks of idle states
  only; with clean-ups of several requests running over outdated listings, this
  pairwise form is what every step preserves (`AtMostOneFileLeft`). `CacheInv`:
  what was looked for under the mutex is still missing (`NeverNeedlessFetch`).
  `AloneInv`: what a request that meets no other relies on (`AloneAlwaysServed`).

The assumptions are what the code's constants satisfy: the sweep age (30
minutes) is at least the window (15 minutes) plus the delay, and the delay is
shorter than the window; tokens of different tables are different values; the
current entry of a legacy feed is one of its history; requests are finitely many;
the current row of the old singleton tables, if there is one, names one of their
releases, and if they have releases there is a newest one; a missing or half-written file is no image; names of attempts are not
the words for "no cookie set".

Only model-checked: the liveness properties `EverySaveAnswers` and
`EveryDownloadAnswers` (liveness under fairness is out of the prover's reach).
Every safety property of a passing run is stated by a theorem. The two findings
are counterexamples and have nothing to prove.

## 6. Not modelled

The field checks of manifests, addresses and URLs, headers, media types,
cryptography, SMTP, configuration (parsing and I/O with unit tests); the login
log and `LAST_SEEN_AT_` (written, never read); the forwarding of the market
proxy; the cookie helpers of an older OAuth flow in `server.go`, which nothing
calls. The two limits of `emailCodeStart` are not composed, and no property says
which of two open e-mail codes must work: no document promises anything there
(see the hazards). MySQL's transactions are taken to be atomic, and its locking
reads to serialise the transactions that use them; SQLite's to be serialisable
by the WAL rules described above.

## 7. Plan

1. Accounts from before `auth_identity` as initial states, with `AccountsInv`
   weakened to what holds of them.
2. The two limits of `emailCodeStart` composed with the rate limiter.
3. A theorem that ties the modules together: what `LegacyComplete` and
   `NumbersGoUp` give is what `FeedAssumption` takes from the SQLite history.
