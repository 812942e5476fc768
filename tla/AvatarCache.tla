----------------------------- MODULE AvatarCache -----------------------------
(***************************************************************************)
(* The avatar proxy, internal/auth/avatar_proxy.go: requests for the        *)
(* avatar of one user, the directory its images are cached in, and the     *)
(* upstream hosts they are fetched from.                                   *)
(*                                                                         *)
(* A version stands for a provider URL (avatarVersion hashes it), a cached *)
(* file is named by version and extension.  The mutex is per version, the  *)
(* clean-up after a write covers the whole directory of the user.  One     *)
(* step is one file operation or one HTTP exchange; a request runs with    *)
(* the user row it has read, which may change behind its back.  An image   *)
(* is stale once it is older than cacheTTL.  Reading or removing a file    *)
(* that exists succeeds; creating and writing one may fail.                *)
(***************************************************************************)
EXTENDS Naturals, FiniteSets

CONSTANTS
    Versions,      \* provider URLs the account has over time
    Types,         \* supported content types, one extension each
    Origins,       \* scheme and host of a URL
    Allowed,       \* AVATAR_UPSTREAM_ORIGINS
    OriginOf,      \* version: the origin of its URL
    Workers,       \* requests
    MaxRedirects,  \* 3
    Stray,         \* a temporary file whose process died
    Partial,       \* a file that is being written
    Absent,        \* no file
    None           \* no worker, no version, no type

\* What was downloaded: from which URL, of which type, and whether the file
\* that holds it has passed cacheTTL.
Image == [of: Versions, type: Types, stale: BOOLEAN]

Paths == Versions \X Types
Entries == Paths \cup Workers \cup {Stray}

ASSUME AvatarAssumption ==
    /\ Allowed \subseteq Origins
    /\ OriginOf \in [Versions -> Origins]
    /\ MaxRedirects \in Nat
    /\ Workers \cap Paths = {} /\ Stray \notin Workers \cup Paths
    /\ None \notin Workers \cup Versions \cup Types \cup Origins
    /\ Partial # Absent /\ {Partial, Absent} \cap Image = {}

VARIABLES
    avatar,     \* the version of the account's AVATAR_URL_
    dir,        \* the directory: cached files, and one temporary file per worker
    lock,       \* version: the worker holding its mutex
    pc,         \* worker: its next operation
    ver,        \* worker: the version in the request path
    source,     \* worker: the version of the user row it has read
    look,       \* worker: extensions findCachedAvatar has still to try
    found,      \* worker: the extension it has found, then the one it writes
    host,       \* worker: the origin of currentURL in download
    hops,       \* worker: redirects followed
    listing,    \* worker: what ReadDir returned and is not yet dealt with
    answer,     \* worker: its response, in the state after it was sent
    contacted,  \* history: origins a request was sent to
    crashed,    \* history: a crash, and no complete clean-up since
    alone       \* history: the worker met no other request on its way

request == <<pc, ver, source, look, found, host, hops, listing>>
avatarVars == <<avatar, dir, lock, request, answer, contacted, crashed, alone>>

Contents == Image \cup {Partial, Absent}

Statuses == {"none", "ok", "notModified", "notFound", "badGateway", "writeFailed", "vanished"}
Answer == [status: Statuses, type: Types \cup {None}, image: Contents]
Status(s) == [status |-> s, type |-> None, image |-> Absent]

Labels == {"idle", "find", "lock", "findLocked", "fetch", "create", "write",
           "rename", "list", "clean", "serve"}

AvatarTypeOK ==
    /\ avatar \in Versions
    /\ dir \in [Entries -> Contents]
    /\ lock \in [Versions -> Workers \cup {None}]
    /\ pc \in [Workers -> Labels]
    /\ ver \in [Workers -> Versions \cup {None}]
    /\ source \in [Workers -> Versions \cup {None}]
    /\ look \in [Workers -> SUBSET Types]
    /\ found \in [Workers -> Types \cup {None}]
    /\ host \in [Workers -> Origins \cup {None}]
    /\ hops \in [Workers -> 0 .. MaxRedirects]
    /\ listing \in [Workers -> SUBSET Entries]
    /\ answer \in [Workers -> Answer]
    /\ contacted \subseteq Origins
    /\ crashed \in BOOLEAN
    /\ alone \in [Workers -> BOOLEAN]

IdleWorkers ==
    /\ pc = [w \in Workers |-> "idle"]
    /\ ver = [w \in Workers |-> None]
    /\ source = [w \in Workers |-> None]
    /\ look = [w \in Workers |-> {}]
    /\ found = [w \in Workers |-> None]
    /\ host = [w \in Workers |-> None]
    /\ hops = [w \in Workers |-> 0]
    /\ listing = [w \in Workers |-> {}]

Init ==
    /\ avatar \in Versions
    /\ dir = [e \in Entries |-> Absent]
    /\ lock = [v \in Versions |-> None]
    /\ IdleWorkers
    /\ answer = [w \in Workers |-> Status("none")]
    /\ contacted = {}
    /\ crashed = FALSE
    /\ alone = [w \in Workers |-> FALSE]

Goto(w, label) == pc' = [pc EXCEPT ![w] = label]

\* A step that sends no response.
Silent == answer' = [w \in Workers |-> Status("none")]

\* serve returns: the response is sent and the deferred Unlock runs.
Reply(w, response) ==
    /\ answer' = [o \in Workers |-> IF o = w THEN response ELSE Status("none")]
    /\ Goto(w, "idle")
    /\ ver' = [ver EXCEPT ![w] = None]
    /\ source' = [source EXCEPT ![w] = None]
    /\ look' = [look EXCEPT ![w] = {}]
    /\ found' = [found EXCEPT ![w] = None]
    /\ host' = [host EXCEPT ![w] = None]
    /\ hops' = [hops EXCEPT ![w] = 0]
    /\ listing' = [listing EXCEPT ![w] = {}]
    /\ lock' = [v \in Versions |-> IF lock[v] = w THEN None ELSE lock[v]]

-----------------------------------------------------------------------------
(* The request: avatar, serve *)

\* sourceURL: an https URL of an allowed origin, in any redirect too.
SourceURL(origin) == origin \in Allowed

\* Mutant: serve does not compare the version with the user's.
ServesAny(v) == SourceURL(OriginOf[avatar])

\* The tests at the top of serve, on the user row of the session.
Serves(v) == v = avatar /\ SourceURL(OriginOf[avatar])

Refuse(w, v) ==
    /\ pc[w] = "idle"
    /\ ~Serves(v)
    /\ Reply(w, Status("notFound"))
    /\ alone' = [alone EXCEPT ![w] = FALSE]
    /\ UNCHANGED <<avatar, dir, contacted, crashed>>

Begin(w, v) ==
    LET others == {o \in Workers \ {w} : pc[o] # "idle"} IN
    /\ pc[w] = "idle"
    /\ Serves(v)
    /\ Goto(w, "find")
    /\ ver' = [ver EXCEPT ![w] = v]
    /\ source' = [source EXCEPT ![w] = avatar]
    /\ look' = [look EXCEPT ![w] = Types]
    /\ Silent
    /\ alone' = [o \in Workers |-> IF o = w THEN others = {} ELSE FALSE]
    /\ UNCHANGED <<avatar, dir, lock, found, host, hops, listing, contacted, crashed>>

-----------------------------------------------------------------------------
(* findCachedAvatar: one Lstat per extension, in the random order of a map *)

\* Where serve goes on when find has ended without a fresh file.
AfterFind(w) == IF pc[w] = "find" THEN "lock" ELSE "fetch"

Hit(w, t) ==
    LET file == dir[<<ver[w], t>>] IN
    /\ pc[w] \in {"find", "findLocked"}
    /\ t \in look[w]
    /\ file # Absent
    /\ look' = [look EXCEPT ![w] = {}]
    /\ found' = [found EXCEPT ![w] = t]
    /\ Goto(w, IF file.stale THEN AfterFind(w) ELSE "serve")
    /\ Silent
    /\ UNCHANGED <<avatar, dir, lock, ver, source, host, hops, listing, contacted,
                   crashed, alone>>

Miss(w, t) ==
    /\ pc[w] \in {"find", "findLocked"}
    /\ t \in look[w]
    /\ dir[<<ver[w], t>>] = Absent
    /\ look' = [look EXCEPT ![w] = @ \ {t}]
    /\ found' = [found EXCEPT ![w] = None]
    /\ IF look[w] = {t} THEN Goto(w, AfterFind(w)) ELSE UNCHANGED pc
    /\ Silent
    /\ UNCHANGED <<avatar, dir, lock, ver, source, host, hops, listing, contacted,
                   crashed, alone>>

\* Mutant: the cache is not looked at again once the mutex is held.
LockAndFetch(w) ==
    /\ pc[w] = "lock"
    /\ lock[ver[w]] = None
    /\ lock' = [lock EXCEPT ![ver[w]] = w]
    /\ host' = [host EXCEPT ![w] = OriginOf[source[w]]]
    /\ Goto(w, "fetch")
    /\ Silent
    /\ UNCHANGED <<avatar, dir, ver, source, look, found, hops, listing,
                   contacted, crashed, alone>>

Lock(w) ==
    /\ pc[w] = "lock"
    /\ lock[ver[w]] = None
    /\ lock' = [lock EXCEPT ![ver[w]] = w]
    /\ host' = [host EXCEPT ![w] = OriginOf[source[w]]]
    /\ look' = [look EXCEPT ![w] = Types]
    /\ found' = [found EXCEPT ![w] = None]
    /\ Goto(w, "findLocked")
    /\ Silent
    /\ UNCHANGED <<avatar, dir, ver, source, hops, listing, contacted,
                   crashed, alone>>

-----------------------------------------------------------------------------
(* download *)

\* Mutant: only the URL of the account is checked, not the redirects.
MayContactFirst(w) == hops[w] = 0 => SourceURL(host[w])

\* Each round of the loop checks the origin before it sends anything.
MayContact(w) == SourceURL(host[w])

Contact(w) == contacted' = contacted \cup {host[w]}

MayFollow(w) == hops[w] < MaxRedirects

Redirected(w, origin) ==
    /\ pc[w] = "fetch"
    /\ MayContact(w)
    /\ MayFollow(w)
    /\ Contact(w)
    /\ host' = [host EXCEPT ![w] = origin]
    /\ hops' = [hops EXCEPT ![w] = @ + 1]
    /\ Silent
    /\ UNCHANGED <<avatar, dir, lock, pc, ver, source, look, found, listing,
                   crashed, alone>>

\* download returns, with or without an image.
EndDownload(w) ==
    /\ host' = [host EXCEPT ![w] = None]
    /\ hops' = [hops EXCEPT ![w] = 0]

\* 200 with a supported type and at most maxBytes.
Download(w, t) ==
    /\ pc[w] = "fetch"
    /\ MayContact(w)
    /\ Contact(w)
    /\ found' = [found EXCEPT ![w] = t]
    /\ Goto(w, "create")
    /\ EndDownload(w)
    /\ Silent
    /\ UNCHANGED <<avatar, dir, lock, ver, source, look, listing, crashed, alone>>

\* Any other status, type or size, one redirect too many, a network error, the
\* fetch timeout, a client that left, an origin that is not allowed.  A stale
\* file is better than none.
DownloadFails(w) ==
    /\ pc[w] = "fetch"
    /\ IF MayContact(w) THEN Contact(w) ELSE UNCHANGED contacted
    /\ IF found[w] # None
       THEN /\ Goto(w, "serve")
            /\ EndDownload(w)
            /\ Silent
            /\ UNCHANGED <<lock, ver, source, look, found, listing>>
       ELSE Reply(w, Status("badGateway"))
    /\ UNCHANGED <<avatar, dir, crashed, alone>>

-----------------------------------------------------------------------------
(* writeCache *)

CreateTemp(w) ==
    /\ pc[w] = "create"
    /\ dir' = [dir EXCEPT ![w] = Partial]
    /\ Goto(w, "write")
    /\ Silent
    /\ UNCHANGED <<avatar, lock, ver, source, look, found, host, hops, listing,
                   contacted, crashed, alone>>

\* Write and Sync.  They succeed on the open file even if its name is gone.
Write(w) ==
    /\ pc[w] = "write"
    /\ dir' = IF dir[w] = Absent THEN dir
              ELSE [dir EXCEPT ![w] = [of |-> source[w], type |-> found[w],
                                       stale |-> FALSE]]
    /\ Goto(w, "rename")
    /\ Silent
    /\ UNCHANGED <<avatar, lock, ver, source, look, found, host, hops, listing,
                   contacted, crashed, alone>>

\* MkdirAll, CreateTemp, Chmod, Write, Sync or Rename fails; the deferred Remove runs.
WriteFails(w) ==
    /\ pc[w] \in {"create", "write", "rename"}
    /\ dir' = [dir EXCEPT ![w] = Absent]
    /\ Reply(w, Status("writeFailed"))
    /\ UNCHANGED <<avatar, contacted, crashed, alone>>

Target(w) == <<ver[w], found[w]>>

Rename(w) ==
    /\ pc[w] = "rename"
    /\ dir[w] # Absent
    /\ dir' = [dir EXCEPT ![Target(w)] = dir[w], ![w] = Absent]
    /\ Goto(w, "list")
    /\ Silent
    /\ UNCHANGED <<avatar, lock, ver, source, look, found, host, hops, listing,
                   contacted, crashed, alone>>

\* The clean-up of another version has taken the temporary file.
RenameFails(w) ==
    /\ pc[w] = "rename"
    /\ dir[w] = Absent
    /\ Reply(w, Status("vanished"))
    /\ UNCHANGED <<avatar, dir, contacted, crashed, alone>>

\* Mutant: the file just written is not spared.
ReadDirAll(w) == {e \in Entries : dir[e] # Absent}

\* Mutant: only other extensions of the same version are cleaned up.
ReadDirOwn(w) == {p \in Paths : p[1] = ver[w] /\ dir[p] # Absent} \ {Target(w)}

\* Everything in the directory but the file just written.
ReadDir(w) == {e \in Entries : dir[e] # Absent} \ {Target(w)}

List(w) ==
    /\ pc[w] = "list"
    /\ listing' = [listing EXCEPT ![w] = ReadDir(w)]
    /\ Goto(w, "clean")
    /\ Silent
    /\ UNCHANGED <<avatar, dir, lock, ver, source, look, found, host, hops,
                   contacted, crashed, alone>>

\* Remove: no matter whether the file is still there.
Clean(w, e) ==
    /\ pc[w] = "clean"
    /\ e \in listing[w]
    /\ dir' = [dir EXCEPT ![e] = Absent]
    /\ listing' = [listing EXCEPT ![w] = @ \ {e}]
    /\ Silent
    /\ UNCHANGED <<avatar, lock, pc, ver, source, look, found, host, hops,
                   contacted, crashed, alone>>

\* writeCache returns and serve calls Stat; a concurrent clean-up may have
\* taken the file.
Stat(w) ==
    /\ pc[w] = "clean" /\ listing[w] = {}
    /\ crashed' = FALSE
    /\ IF dir[Target(w)] = Absent
       THEN Reply(w, Status("vanished"))
       ELSE /\ Goto(w, "serve")
            /\ Silent
            /\ UNCHANGED <<lock, ver, source, look, found, host, hops, listing>>
    /\ UNCHANGED <<avatar, dir, contacted, alone>>

-----------------------------------------------------------------------------
(* serveFile *)

\* If-None-Match names the version: the file is not read.  (ServeContent may
\* also answer 304, to If-Modified-Since, after reading it.)
NotModified(w) ==
    /\ pc[w] = "serve"
    /\ Reply(w, Status("notModified"))
    /\ UNCHANGED <<avatar, dir, contacted, crashed, alone>>

\* Content-Type is that of the extension, the body what the file holds now.
ServeFile(w) ==
    LET file == dir[Target(w)] IN
    /\ pc[w] = "serve"
    /\ Reply(w, IF file = Absent THEN Status("notFound")
                ELSE [status |-> "ok", type |-> found[w], image |-> file])
    /\ UNCHANGED <<avatar, dir, contacted, crashed, alone>>

-----------------------------------------------------------------------------
(* Around the requests *)

\* A login updates AVATAR_URL_ of the account.
ChangeAvatar(v) ==
    /\ v # avatar
    /\ avatar' = v
    /\ Silent
    /\ UNCHANGED <<dir, lock, request, contacted, crashed, alone>>

\* cacheTTL passes for a file.
Expire(p) ==
    /\ dir[p] # Absent /\ ~dir[p].stale
    /\ dir' = [dir EXCEPT ![p].stale = TRUE]
    /\ Silent
    /\ UNCHANGED <<avatar, lock, request, contacted, crashed, alone>>

\* The process dies and is started again: requests and mutexes are gone, the
\* directory stays as it is, temporary files included.
Crash ==
    /\ \E w \in Workers : pc[w] # "idle"
    /\ dir' = [e \in Entries |->
                  IF e \in Workers THEN Absent
                  ELSE IF e = Stray /\ \E w \in Workers : dir[w] # Absent THEN Partial
                  ELSE dir[e]]
    /\ lock' = [v \in Versions |-> None]
    /\ pc' = [w \in Workers |-> "idle"]
    /\ ver' = [w \in Workers |-> None]
    /\ source' = [w \in Workers |-> None]
    /\ look' = [w \in Workers |-> {}]
    /\ found' = [w \in Workers |-> None]
    /\ host' = [w \in Workers |-> None]
    /\ hops' = [w \in Workers |-> 0]
    /\ listing' = [w \in Workers |-> {}]
    /\ Silent
    /\ crashed' = TRUE
    /\ alone' = [w \in Workers |-> FALSE]
    /\ UNCHANGED <<avatar, contacted>>

\* What the goroutine of a request does by itself.
Advance(w) ==
    \/ \E t \in Types : Hit(w, t) \/ Miss(w, t) \/ Download(w, t)
    \/ \E o \in Origins : Redirected(w, o)
    \/ DownloadFails(w)
    \/ CreateTemp(w) \/ Write(w) \/ WriteFails(w)
    \/ Rename(w) \/ RenameFails(w)
    \/ List(w) \/ (\E e \in Entries : Clean(w, e)) \/ Stat(w)
    \/ NotModified(w) \/ ServeFile(w)

Next ==
    \/ \E w \in Workers :
          \/ \E v \in Versions : Refuse(w, v) \/ Begin(w, v)
          \/ Lock(w) \/ Advance(w)
    \/ \E v \in Versions : ChangeAvatar(v)
    \/ \E p \in Paths : Expire(p)
    \/ Crash

Spec == Init /\ [][Next]_avatarVars

-----------------------------------------------------------------------------
(* Properties *)

\* A 200 carries an image that was downloaded from the very URL its version
\* hashes, whole and under its own content type, whichever requests for other
\* versions were writing, cleaning up or dying in the same directory, and
\* whenever the account changed its avatar.
ServedIsOwn ==
    [][\A w \in Workers :
          answer'[w].status = "ok" =>
              \E b \in BOOLEAN :
                  answer'[w].image = [of |-> ver[w], type |-> answer'[w].type,
                                      stale |-> b]]_avatarVars

\* Requests for one version that arrive together cost one download: nobody
\* contacts the provider while a fresh image of its version is in the cache.
\* (A crash inside the clean-up may leave an old image beside a fresh one, and
\* the first found counts.)
NoNeedlessFetch ==
    \A w \in Workers :
        pc[w] = "fetch" /\ ~crashed =>
            \A t \in Types : dir[<<ver[w], t>>] # Absent => dir[<<ver[w], t>>].stale

\* The clean-ups of concurrent writers and of writers after a crash leave at
\* most one file for a user, once nobody is writing.
OneFileLeft ==
    (\A w \in Workers : pc[w] = "idle") /\ ~crashed =>
        Cardinality({e \in Entries : dir[e] # Absent}) <= 1

\* Only another request of the same user makes an image vanish between two
\* steps: alone, a request for the current version ends with the image, with
\* 304, or with 502 when the provider fails, never with 404.
AloneIsServed ==
    \A w \in Workers :
        alone[w] => answer[w].status \in {"none", "ok", "notModified", "badGateway",
                                          "writeFailed"}

\* README: "Avatar proxy downloads are restricted to the exact HTTPS origins
\* in AVATAR_UPSTREAM_ORIGINS", wherever the provider redirects to.
AllowedHosts == contacted \subseteq Allowed
=============================================================================
