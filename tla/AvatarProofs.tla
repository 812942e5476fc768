---------------------------- MODULE AvatarProofs ----------------------------
(***************************************************************************)
(* Proofs about AvatarCache, for any number of requests, provider URLs and *)
(* content types.                                                          *)
(*                                                                         *)
(* BaseInv: what a request knows at each step, and what every file is.     *)
(* TidyInv: any two files are on the list of somebody who will remove one. *)
(* CacheInv: what the holder of a version's mutex may rely on.  AloneInv:  *)
(* what a request that meets no other may rely on.                         *)
(***************************************************************************)
EXTENDS AvatarCache, FiniteSetTheorems, TLAPS

Present(e) == dir[e] # Absent

\* A whole image of version v and type t.
ImageOf(file, v, t) == file \in Image /\ file.of = v /\ file.type = t

\* From Lock to the return of serve, but for the answer itself.
Holding == {"findLocked", "fetch", "create", "write", "rename", "list", "clean"}

\* The file of the version is in place and the clean-up not finished.
Sweeping == {"list", "clean"}

RequestAt(w) ==
    /\ pc[w] # "idle" => ver[w] \in Versions /\ source[w] = ver[w]
    /\ pc[w] \in {"create", "write", "rename", "list", "clean", "serve"} => found[w] \in Types
    /\ pc[w] \in Holding => lock[ver[w]] = w

\* A temporary file belongs to a request that is writing it.
TempAt(w) ==
    /\ Present(w) => pc[w] \in {"write", "rename"}
    /\ pc[w] = "rename" /\ Present(w) => ImageOf(dir[w], ver[w], found[w])

FilesOwn ==
    \A v \in Versions, t \in Types : Present(<<v, t>>) => ImageOf(dir[<<v, t>>], v, t)

BaseInv ==
    /\ AvatarTypeOK /\ FilesOwn /\ contacted \subseteq Allowed
    /\ \A w \in Workers : RequestAt(w) /\ TempAt(w)

-----------------------------------------------------------------------------
\* Worker u is about to remove e or f.
Covers(u, e, f) ==
    \/ pc[u] \in {"write", "rename"} /\ u \in {e, f}
    \/ pc[u] = "list"
    \/ pc[u] = "clean" /\ {e, f} \cap listing[u] # {}

\* Two files of one version are dealt with under the mutex of that version.
Sweeper(u, e, f) ==
    /\ Covers(u, e, f)
    /\ e \in Paths /\ f \in Paths /\ e[1] = f[1] => ver[u] = e[1]

Swept(e, f) == \E u \in Workers : Sweeper(u, e, f)

Tidy(e, f) ==
    e # f /\ Present(e) /\ Present(f) =>
        /\ ~crashed => Swept(e, f)
        /\ \A w \in Workers : pc[w] \in Sweeping => Covers(w, e, f) \/ Swept(e, f)

TidyInv == \A e \in Entries, f \in Entries : Tidy(e, f)

-----------------------------------------------------------------------------
\* The extensions that were tried under the mutex have no file.
ScanAt(w) ==
    pc[w] = "findLocked" => \A t \in Types \ look[w] : ~Present(<<ver[w], t>>)

\* After a crash, the files of a version nobody has written since are on
\* everybody's list.
OldAt(w) ==
    crashed /\ pc[w] = "clean" =>
        \A v \in Versions, t \in Types :
            Present(<<v, t>>) /\ (\A u \in Workers : pc[u] \in Sweeping => ver[u] # v) =>
                <<v, t>> \in listing[w]

FetchAt(w) ==
    pc[w] = "fetch" /\ ~crashed =>
        \A t \in Types : Present(<<ver[w], t>>) => dir[<<ver[w], t>>].stale

CacheInv == \A w \in Workers : ScanAt(w) /\ OldAt(w) /\ FetchAt(w)

-----------------------------------------------------------------------------
AloneAt(w) ==
    alone[w] =>
        /\ \A o \in Workers \ {w} : pc[o] = "idle"
        /\ pc[w] \in {"write", "rename"} => Present(w)
        /\ pc[w] \in {"list", "clean", "serve"} => Present(Target(w))
        /\ pc[w] = "clean" => Target(w) \notin listing[w]
        /\ pc[w] = "fetch" /\ found[w] # None => Present(Target(w))
        /\ answer[w].status \in {"none", "ok", "notModified", "badGateway", "writeFailed"}

AloneInv == \A w \in Workers : AloneAt(w)

AvatarInv == BaseInv /\ TidyInv /\ CacheInv /\ AloneInv

-----------------------------------------------------------------------------
(* Types *)

LEMMA StatusTyped ==
    ASSUME NEW s \in Statuses
    PROVE  Status(s) \in Answer /\ Status(s).status = s
BY DEF Status, Answer, Contents

LEMMA SilentTyped ==
    ASSUME Silent
    PROVE  answer' \in [Workers -> Answer] /\ \A w \in Workers : answer'[w].status = "none"
<1>1. Status("none") \in Answer /\ Status("none").status = "none"
  BY StatusTyped DEF Statuses
<1>q. QED
  BY <1>1 DEF Silent

\* What Reply leaves of the request.
Released ==
    /\ lock \in [Versions -> Workers \cup {None}]
    /\ pc \in [Workers -> Labels]
    /\ ver \in [Workers -> Versions \cup {None}]
    /\ source \in [Workers -> Versions \cup {None}]
    /\ look \in [Workers -> SUBSET Types]
    /\ found \in [Workers -> Types \cup {None}]
    /\ host \in [Workers -> Origins \cup {None}]
    /\ hops \in [Workers -> 0 .. MaxRedirects]
    /\ listing \in [Workers -> SUBSET Entries]
    /\ answer \in [Workers -> Answer]

LEMMA ReplyTyped ==
    ASSUME AvatarTypeOK, NEW w \in Workers, NEW r \in Answer, Reply(w, r)
    PROVE  Released'
<1>1. answer' \in [Workers -> Answer]
  <2>1. Status("none") \in Answer
    BY StatusTyped DEF Statuses
  <2>q. QED
    BY <2>1 DEF Reply
<1>2. lock' \in [Versions -> Workers \cup {None}]
  BY DEF Reply, AvatarTypeOK
<1>3. pc' \in [Workers -> Labels]
  BY DEF Reply, Goto, AvatarTypeOK, Labels
<1>4. hops' \in [Workers -> 0 .. MaxRedirects]
  BY AvatarAssumption DEF Reply, AvatarTypeOK
<1>5. /\ ver' \in [Workers -> Versions \cup {None}]
      /\ source' \in [Workers -> Versions \cup {None}]
      /\ found' \in [Workers -> Types \cup {None}]
      /\ host' \in [Workers -> Origins \cup {None}]
  BY DEF Reply, AvatarTypeOK
<1>6. look' \in [Workers -> SUBSET Types] /\ listing' \in [Workers -> SUBSET Entries]
  BY DEF Reply, AvatarTypeOK
<1>q. QED
  BY <1>1, <1>2, <1>3, <1>4, <1>5, <1>6 DEF Released

\* The request of a busy worker.
LEMMA Known ==
    ASSUME BaseInv, NEW w \in Workers, pc[w] # "idle"
    PROVE  /\ ver[w] \in Versions /\ source[w] = ver[w]
           /\ pc[w] \in {"create", "write", "rename", "list", "clean", "serve"} =>
                 found[w] \in Types /\ Target(w) \in Paths /\ Target(w) \in Entries
           /\ pc[w] \in Holding => lock[ver[w]] = w
BY DEF BaseInv, RequestAt, Target, Paths, Entries

\* A cached file is an image.
LEMMA FileKnown ==
    ASSUME BaseInv, NEW p \in Paths, Present(p)
    PROVE  /\ dir[p] \in Image /\ p \in Entries
           /\ [dir[p] EXCEPT !.stale = TRUE] \in Image
<1>1. PICK v \in Versions, t \in Types : p = <<v, t>>
  BY DEF Paths
<1>2. dir[p] \in Image /\ p \in Entries
  BY <1>1 DEF BaseInv, FilesOwn, ImageOf, Entries
<1>3. [dir[p] EXCEPT !.stale = TRUE] \in Image
  BY <1>2 DEF Image
<1>q. QED
  BY <1>2, <1>3

LEMMA TypeStep ==
    ASSUME BaseInv, Next
    PROVE  AvatarTypeOK'
<1>0. AvatarTypeOK
  BY DEF BaseInv
<1>1. ASSUME NEW w \in Workers, NEW v \in Versions, Refuse(w, v)
      PROVE  AvatarTypeOK'
  <2>1. Released'
    BY <1>0, <1>1, ReplyTyped, StatusTyped DEF Refuse, Statuses
  <2>2. alone' \in [Workers -> BOOLEAN]
    BY <1>0, <1>1 DEF Refuse, AvatarTypeOK
  <2>q. QED
    BY <1>0, <1>1, <2>1, <2>2 DEF Refuse, Released, AvatarTypeOK
<1>2. ASSUME NEW w \in Workers, NEW v \in Versions, Begin(w, v)
      PROVE  AvatarTypeOK'
  <2>1. pc' \in [Workers -> Labels]
    BY <1>0, <1>2 DEF Begin, Goto, Labels, AvatarTypeOK
  <2>2. /\ ver' \in [Workers -> Versions \cup {None}]
        /\ source' \in [Workers -> Versions \cup {None}]
        /\ look' \in [Workers -> SUBSET Types]
    BY <1>0, <1>2 DEF Begin, AvatarTypeOK
  <2>3. answer' \in [Workers -> Answer]
    BY <1>2, SilentTyped DEF Begin
  <2>4. alone' \in [Workers -> BOOLEAN]
    BY <1>0, <1>2 DEF Begin, AvatarTypeOK
  <2>q. QED
    BY <1>0, <1>2, <2>1, <2>2, <2>3, <2>4 DEF Begin, AvatarTypeOK
<1>3. ASSUME NEW w \in Workers, Lock(w)
      PROVE  AvatarTypeOK'
  <2>1. pc' \in [Workers -> Labels]
    BY <1>0, <1>3 DEF Lock, Goto, Labels, AvatarTypeOK
  <2>2. /\ lock' \in [Versions -> Workers \cup {None}]
        /\ look' \in [Workers -> SUBSET Types]
        /\ found' \in [Workers -> Types \cup {None}]
    BY <1>0, <1>3 DEF Lock, AvatarTypeOK
  <2>3. host' \in [Workers -> Origins \cup {None}]
    BY <1>0, <1>3, AvatarAssumption, Known DEF Lock, AvatarTypeOK
  <2>4. answer' \in [Workers -> Answer]
    BY <1>3, SilentTyped DEF Lock
  <2>q. QED
    BY <1>0, <1>3, <2>1, <2>2, <2>3, <2>4 DEF Lock, AvatarTypeOK
<1>4. ASSUME NEW w \in Workers, NEW t \in Types, Hit(w, t)
      PROVE  AvatarTypeOK'
  <2>1. pc' \in [Workers -> Labels]
    BY <1>0, <1>4 DEF Hit, Goto, Labels, AfterFind, AvatarTypeOK
  <2>2. look' \in [Workers -> SUBSET Types] /\ found' \in [Workers -> Types \cup {None}]
    BY <1>0, <1>4 DEF Hit, AvatarTypeOK
  <2>3. answer' \in [Workers -> Answer]
    BY <1>4, SilentTyped DEF Hit
  <2>q. QED
    BY <1>0, <1>4, <2>1, <2>2, <2>3 DEF Hit, AvatarTypeOK
<1>5. ASSUME NEW w \in Workers, NEW t \in Types, Miss(w, t)
      PROVE  AvatarTypeOK'
  <2>1. pc' \in [Workers -> Labels]
    BY <1>0, <1>5 DEF Miss, Goto, Labels, AfterFind, AvatarTypeOK
  <2>2. look' \in [Workers -> SUBSET Types] /\ found' \in [Workers -> Types \cup {None}]
    BY <1>0, <1>5 DEF Miss, AvatarTypeOK
  <2>3. answer' \in [Workers -> Answer]
    BY <1>5, SilentTyped DEF Miss
  <2>q. QED
    BY <1>0, <1>5, <2>1, <2>2, <2>3 DEF Miss, AvatarTypeOK
<1>6. ASSUME NEW w \in Workers, NEW t \in Types, Download(w, t)
      PROVE  AvatarTypeOK'
  <2>1. pc' \in [Workers -> Labels]
    BY <1>0, <1>6 DEF Download, Goto, Labels, AvatarTypeOK
  <2>2. found' \in [Workers -> Types \cup {None}]
    BY <1>0, <1>6 DEF Download, AvatarTypeOK
  <2>3. host' \in [Workers -> Origins \cup {None}]
    BY <1>0, <1>6 DEF Download, EndDownload, AvatarTypeOK
  <2>4. hops' \in [Workers -> 0 .. MaxRedirects]
    BY <1>0, <1>6, AvatarAssumption DEF Download, EndDownload, AvatarTypeOK
  <2>5. contacted' \in SUBSET Origins
    BY <1>0, <1>6, AvatarAssumption DEF Download, Contact, MayContact, SourceURL, AvatarTypeOK
  <2>6. answer' \in [Workers -> Answer]
    BY <1>6, SilentTyped DEF Download
  <2>q. QED
    BY <1>0, <1>6, <2>1, <2>2, <2>3, <2>4, <2>5, <2>6 DEF Download, AvatarTypeOK
<1>7. ASSUME NEW w \in Workers, NEW o \in Origins, Redirected(w, o)
      PROVE  AvatarTypeOK'
  <2>1. host' \in [Workers -> Origins \cup {None}]
    BY <1>0, <1>7 DEF Redirected, AvatarTypeOK
  <2>2. hops' \in [Workers -> 0 .. MaxRedirects]
    BY <1>0, <1>7, AvatarAssumption DEF Redirected, MayFollow, AvatarTypeOK
  <2>3. contacted' \in SUBSET Origins
    BY <1>0, <1>7, AvatarAssumption DEF Redirected, Contact, MayContact, SourceURL, AvatarTypeOK
  <2>4. answer' \in [Workers -> Answer]
    BY <1>7, SilentTyped DEF Redirected
  <2>q. QED
    BY <1>0, <1>7, <2>1, <2>2, <2>3, <2>4 DEF Redirected, AvatarTypeOK
<1>8. ASSUME NEW w \in Workers, DownloadFails(w)
      PROVE  AvatarTypeOK'
  <2>1. contacted' \in SUBSET Origins
    BY <1>0, <1>8, AvatarAssumption DEF DownloadFails, Contact, MayContact, SourceURL, AvatarTypeOK
  <2>2. Released'
    <3>1. CASE found[w] = None
      BY <1>0, <1>8, <3>1, ReplyTyped, StatusTyped DEF DownloadFails, Statuses
    <3>2. CASE found[w] # None
      <4>1. /\ Goto(w, "serve") /\ EndDownload(w) /\ Silent
            /\ UNCHANGED <<lock, ver, source, look, found, listing>>
        BY <1>8, <3>2 DEF DownloadFails
      <4>2. pc' \in [Workers -> Labels]
        BY <1>0, <4>1 DEF Goto, Labels, AvatarTypeOK
      <4>3. host' \in [Workers -> Origins \cup {None}] /\ hops' \in [Workers -> 0 .. MaxRedirects]
        BY <1>0, <4>1, AvatarAssumption DEF EndDownload, AvatarTypeOK
      <4>q. QED
        BY <1>0, <4>1, <4>2, <4>3, SilentTyped DEF Released, AvatarTypeOK
    <3>q. QED
      BY <3>1, <3>2
  <2>q. QED
    BY <1>0, <1>8, <2>1, <2>2 DEF DownloadFails, Released, AvatarTypeOK
<1>9. ASSUME NEW w \in Workers, CreateTemp(w)
      PROVE  AvatarTypeOK'
  <2>1. pc' \in [Workers -> Labels]
    BY <1>0, <1>9 DEF CreateTemp, Goto, Labels, AvatarTypeOK
  <2>2. dir' \in [Entries -> Contents]
    BY <1>0, <1>9 DEF CreateTemp, Contents, AvatarTypeOK
  <2>3. answer' \in [Workers -> Answer]
    BY <1>9, SilentTyped DEF CreateTemp
  <2>q. QED
    BY <1>0, <1>9, <2>1, <2>2, <2>3 DEF CreateTemp, AvatarTypeOK
<1>10. ASSUME NEW w \in Workers, Write(w)
      PROVE  AvatarTypeOK'
  <2>1. pc' \in [Workers -> Labels]
    BY <1>0, <1>10 DEF Write, Goto, Labels, AvatarTypeOK
  <2>2. dir' \in [Entries -> Contents]
    BY <1>0, <1>10, Known DEF Write, Contents, Image, AvatarTypeOK
  <2>3. answer' \in [Workers -> Answer]
    BY <1>10, SilentTyped DEF Write
  <2>q. QED
    BY <1>0, <1>10, <2>1, <2>2, <2>3 DEF Write, AvatarTypeOK
<1>11. ASSUME NEW w \in Workers, WriteFails(w)
      PROVE  AvatarTypeOK'
  <2>1. Released'
    BY <1>0, <1>11, ReplyTyped, StatusTyped DEF WriteFails, Statuses
  <2>2. dir' \in [Entries -> Contents]
    BY <1>0, <1>11 DEF WriteFails, Contents, AvatarTypeOK
  <2>q. QED
    BY <1>0, <1>11, <2>1, <2>2 DEF WriteFails, Released, AvatarTypeOK
<1>12. ASSUME NEW w \in Workers, Rename(w)
      PROVE  AvatarTypeOK'
  <2>1. pc' \in [Workers -> Labels]
    BY <1>0, <1>12 DEF Rename, Goto, Labels, AvatarTypeOK
  <2>2. dir' \in [Entries -> Contents]
    BY <1>0, <1>12, Known DEF Rename, Contents, Target, Entries, Paths, AvatarTypeOK
  <2>3. answer' \in [Workers -> Answer]
    BY <1>12, SilentTyped DEF Rename
  <2>q. QED
    BY <1>0, <1>12, <2>1, <2>2, <2>3 DEF Rename, AvatarTypeOK
<1>13. ASSUME NEW w \in Workers, RenameFails(w)
      PROVE  AvatarTypeOK'
  <2>1. Released'
    BY <1>0, <1>13, ReplyTyped, StatusTyped DEF RenameFails, Statuses
  <2>q. QED
    BY <1>0, <1>13, <2>1 DEF RenameFails, Released, AvatarTypeOK
<1>14. ASSUME NEW w \in Workers, List(w)
      PROVE  AvatarTypeOK'
  <2>1. pc' \in [Workers -> Labels]
    BY <1>0, <1>14 DEF List, Goto, Labels, AvatarTypeOK
  <2>2. listing' \in [Workers -> SUBSET Entries]
    BY <1>0, <1>14 DEF List, ReadDir, AvatarTypeOK
  <2>3. answer' \in [Workers -> Answer]
    BY <1>14, SilentTyped DEF List
  <2>q. QED
    BY <1>0, <1>14, <2>1, <2>2, <2>3 DEF List, AvatarTypeOK
<1>15. ASSUME NEW w \in Workers, NEW e \in Entries, Clean(w, e)
      PROVE  AvatarTypeOK'
  <2>1. dir' \in [Entries -> Contents]
    BY <1>0, <1>15 DEF Clean, Contents, AvatarTypeOK
  <2>2. listing' \in [Workers -> SUBSET Entries]
    BY <1>0, <1>15 DEF Clean, AvatarTypeOK
  <2>3. answer' \in [Workers -> Answer]
    BY <1>15, SilentTyped DEF Clean
  <2>q. QED
    BY <1>0, <1>15, <2>1, <2>2, <2>3 DEF Clean, AvatarTypeOK
<1>16. ASSUME NEW w \in Workers, Stat(w)
      PROVE  AvatarTypeOK'
  <2>1. Released'
    <3>1. CASE ~Present(Target(w))
      BY <1>0, <1>16, <3>1, ReplyTyped, StatusTyped DEF Stat, Statuses, Present
    <3>2. CASE Present(Target(w))
      <4>1. /\ Goto(w, "serve") /\ Silent
            /\ UNCHANGED <<lock, ver, source, look, found, host, hops, listing>>
        BY <1>16, <3>2 DEF Stat, Present
      <4>2. pc' \in [Workers -> Labels]
        BY <1>0, <4>1 DEF Goto, Labels, AvatarTypeOK
      <4>q. QED
        BY <1>0, <4>1, <4>2, SilentTyped DEF Released, AvatarTypeOK
    <3>q. QED
      BY <3>1, <3>2
  <2>q. QED
    BY <1>0, <1>16, <2>1 DEF Stat, Released, AvatarTypeOK
<1>17. ASSUME NEW w \in Workers, NotModified(w)
      PROVE  AvatarTypeOK'
  <2>1. Released'
    BY <1>0, <1>17, ReplyTyped, StatusTyped DEF NotModified, Statuses
  <2>q. QED
    BY <1>0, <1>17, <2>1 DEF NotModified, Released, AvatarTypeOK
<1>18. ASSUME NEW w \in Workers, ServeFile(w)
      PROVE  AvatarTypeOK'
  <2>1. \/ Reply(w, Status("notFound"))
        \/ Reply(w, [status |-> "ok", type |-> found[w], image |-> dir[Target(w)]])
    BY <1>18 DEF ServeFile
  <2>2. [status |-> "ok", type |-> found[w], image |-> dir[Target(w)]] \in Answer
    BY <1>0, <1>18, Known DEF ServeFile, Answer, Statuses, AvatarTypeOK, Target, Entries, Paths
  <2>3. Released'
    BY <1>0, <2>1, <2>2, ReplyTyped, StatusTyped DEF Statuses
  <2>q. QED
    BY <1>0, <1>18, <2>3 DEF ServeFile, Released, AvatarTypeOK
<1>19. ASSUME NEW v \in Versions, ChangeAvatar(v)
      PROVE  AvatarTypeOK'
  <2>1. answer' \in [Workers -> Answer]
    BY <1>19, SilentTyped DEF ChangeAvatar
  <2>q. QED
    BY <1>0, <1>19, <2>1 DEF ChangeAvatar, AvatarTypeOK, request
<1>20. ASSUME NEW p \in Paths, Expire(p)
      PROVE  AvatarTypeOK'
  <2>1. dir' \in [Entries -> Contents]
    <3>1. [dir[p] EXCEPT !.stale = TRUE] \in Contents
      BY <1>20, FileKnown DEF Expire, Present, Contents
    <3>2. dir' = [dir EXCEPT ![p] = [dir[p] EXCEPT !.stale = TRUE]]
      BY <1>20 DEF Expire
    <3>q. QED
      BY <1>0, <3>1, <3>2 DEF AvatarTypeOK
  <2>2. answer' \in [Workers -> Answer]
    BY <1>20, SilentTyped DEF Expire
  <2>q. QED
    BY <1>0, <1>20, <2>1, <2>2 DEF Expire, AvatarTypeOK, request
<1>21. CASE Crash
  <2>1. dir' \in [Entries -> Contents]
    BY <1>0, <1>21 DEF Crash, Contents, AvatarTypeOK
  <2>2. /\ lock' \in [Versions -> Workers \cup {None}]
        /\ pc' \in [Workers -> Labels]
        /\ ver' \in [Workers -> Versions \cup {None}]
        /\ source' \in [Workers -> Versions \cup {None}]
    BY <1>0, <1>21 DEF Crash, Labels, AvatarTypeOK
  <2>3. /\ look' \in [Workers -> SUBSET Types]
        /\ found' \in [Workers -> Types \cup {None}]
        /\ host' \in [Workers -> Origins \cup {None}]
        /\ listing' \in [Workers -> SUBSET Entries]
    BY <1>0, <1>21 DEF Crash, AvatarTypeOK
  <2>4. hops' \in [Workers -> 0 .. MaxRedirects]
    BY <1>0, <1>21, AvatarAssumption DEF Crash, AvatarTypeOK
  <2>5. alone' \in [Workers -> BOOLEAN]
    BY <1>0, <1>21 DEF Crash, AvatarTypeOK
  <2>6. answer' \in [Workers -> Answer]
    BY <1>21, SilentTyped DEF Crash
  <2>q. QED
    BY <1>0, <1>21, <2>1, <2>2, <2>3, <2>4, <2>5, <2>6 DEF Crash, AvatarTypeOK
<1>q. QED
  BY <1>1, <1>2, <1>3, <1>4, <1>5, <1>6, <1>7, <1>8, <1>9, <1>10, <1>11,
     <1>12, <1>13, <1>14, <1>15, <1>16, <1>17, <1>18, <1>19, <1>20, <1>21 DEF Next, Advance

-----------------------------------------------------------------------------
(* Steps of one request *)

Serving(w) ==
    \/ \E v \in Versions : Refuse(w, v) \/ Begin(w, v)
    \/ Lock(w) \/ Advance(w)

\* A step of w leaves the other requests alone, and their mutexes.
OthersStay(w) ==
    \A u \in Workers \ {w} :
        /\ pc'[u] = pc[u] /\ ver'[u] = ver[u] /\ source'[u] = source[u]
        /\ look'[u] = look[u] /\ found'[u] = found[u] /\ listing'[u] = listing[u]
        /\ \A v \in Versions : lock[v] = u => lock'[v] = u

LEMMA ReplyFrame ==
    ASSUME AvatarTypeOK, NEW w \in Workers, NEW r, Reply(w, r)
    PROVE  /\ OthersStay(w)
           /\ pc'[w] = "idle" /\ answer'[w] = r
           /\ \A u \in Workers \ {w} : answer'[u] = Status("none")
BY DEF Reply, Goto, OthersStay, AvatarTypeOK

LEMMA ServingFrame ==
    ASSUME BaseInv, NEW w \in Workers, Serving(w)
    PROVE  OthersStay(w)
<1>0. AvatarTypeOK
  BY DEF BaseInv
<1>1. ASSUME NEW v \in Versions, Refuse(w, v)
      PROVE  OthersStay(w)
  BY <1>0, ReplyFrame, <1>1 DEF Refuse
<1>2. ASSUME NEW v \in Versions, Begin(w, v)
      PROVE  OthersStay(w)
  BY <1>0, <1>2 DEF Begin, Goto, OthersStay, AvatarTypeOK
<1>3. CASE Lock(w)
  BY <1>0, <1>3, AvatarAssumption DEF Lock, Goto, OthersStay, AvatarTypeOK
<1>4. ASSUME NEW t \in Types, Hit(w, t)
      PROVE  OthersStay(w)
  BY <1>0, <1>4 DEF Hit, Goto, OthersStay, AvatarTypeOK
<1>5. ASSUME NEW t \in Types, Miss(w, t)
      PROVE  OthersStay(w)
  BY <1>0, <1>5 DEF Miss, Goto, OthersStay, AvatarTypeOK
<1>6. ASSUME NEW t \in Types, Download(w, t)
      PROVE  OthersStay(w)
  BY <1>0, <1>6 DEF Download, Goto, OthersStay, AvatarTypeOK
<1>7. ASSUME NEW o \in Origins, Redirected(w, o)
      PROVE  OthersStay(w)
  BY <1>0, <1>7 DEF Redirected, Goto, OthersStay, AvatarTypeOK
<1>8. CASE DownloadFails(w)
  BY <1>0, ReplyFrame, <1>8 DEF DownloadFails, Goto, OthersStay, AvatarTypeOK
<1>9. CASE CreateTemp(w)
  BY <1>0, <1>9 DEF CreateTemp, Goto, OthersStay, AvatarTypeOK
<1>10. CASE Write(w)
  BY <1>0, <1>10 DEF Write, Goto, OthersStay, AvatarTypeOK
<1>11. CASE WriteFails(w)
  BY <1>0, ReplyFrame, <1>11 DEF WriteFails
<1>12. CASE Rename(w)
  BY <1>0, <1>12 DEF Rename, Goto, OthersStay, AvatarTypeOK
<1>13. CASE RenameFails(w)
  BY <1>0, ReplyFrame, <1>13 DEF RenameFails
<1>14. CASE List(w)
  BY <1>0, <1>14 DEF List, Goto, OthersStay, AvatarTypeOK
<1>15. ASSUME NEW e \in Entries, Clean(w, e)
      PROVE  OthersStay(w)
  BY <1>0, <1>15 DEF Clean, Goto, OthersStay, AvatarTypeOK
<1>16. CASE Stat(w)
  BY <1>0, ReplyFrame, <1>16 DEF Stat, Goto, OthersStay, AvatarTypeOK
<1>17. CASE NotModified(w)
  BY <1>0, ReplyFrame, <1>17 DEF NotModified
<1>18. CASE ServeFile(w)
  BY <1>0, ReplyFrame, <1>18 DEF ServeFile
<1>q. QED
  BY <1>1, <1>2, <1>3, <1>4, <1>5, <1>6, <1>7, <1>8, <1>9, <1>10, <1>11,
     <1>12, <1>13, <1>14, <1>15, <1>16, <1>17, <1>18 DEF Serving, Advance

LEMMA RequestStep ==
    ASSUME BaseInv, NEW w \in Workers, Serving(w)
    PROVE  RequestAt(w)'
<1>0. AvatarTypeOK /\ RequestAt(w)
  BY DEF BaseInv
<1>1. ASSUME NEW v \in Versions, Refuse(w, v)
      PROVE  RequestAt(w)'
  BY <1>0, ReplyFrame, <1>1 DEF Refuse, RequestAt, Holding
<1>2. ASSUME NEW v \in Versions, Begin(w, v)
      PROVE  RequestAt(w)'
  BY <1>0, <1>2 DEF Begin, Goto, RequestAt, Holding, AvatarTypeOK, Serves
<1>3. CASE Lock(w)
  BY <1>0, <1>3 DEF Lock, Goto, RequestAt, Holding, AvatarTypeOK
<1>4. ASSUME NEW t \in Types, Hit(w, t)
      PROVE  RequestAt(w)'
  BY <1>0, <1>4 DEF Hit, Goto, RequestAt, Holding, AvatarTypeOK, AfterFind
<1>5. ASSUME NEW t \in Types, Miss(w, t)
      PROVE  RequestAt(w)'
  BY <1>0, <1>5 DEF Miss, Goto, RequestAt, Holding, AvatarTypeOK, AfterFind
<1>6. ASSUME NEW t \in Types, Download(w, t)
      PROVE  RequestAt(w)'
  BY <1>0, <1>6 DEF Download, Goto, RequestAt, Holding, AvatarTypeOK
<1>7. ASSUME NEW o \in Origins, Redirected(w, o)
      PROVE  RequestAt(w)'
  BY <1>0, <1>7 DEF Redirected, Goto, RequestAt, Holding, AvatarTypeOK
<1>8. CASE DownloadFails(w)
  BY <1>0, ReplyFrame, <1>8 DEF DownloadFails, Goto, RequestAt, Holding, AvatarTypeOK
<1>9. CASE CreateTemp(w)
  BY <1>0, <1>9 DEF CreateTemp, Goto, RequestAt, Holding, AvatarTypeOK
<1>10. CASE Write(w)
  BY <1>0, <1>10 DEF Write, Goto, RequestAt, Holding, AvatarTypeOK
<1>11. CASE WriteFails(w)
  BY <1>0, ReplyFrame, <1>11 DEF WriteFails, RequestAt, Holding
<1>12. CASE Rename(w)
  BY <1>0, <1>12 DEF Rename, Goto, RequestAt, Holding, AvatarTypeOK
<1>13. CASE RenameFails(w)
  BY <1>0, ReplyFrame, <1>13 DEF RenameFails, RequestAt, Holding
<1>14. CASE List(w)
  BY <1>0, <1>14 DEF List, Goto, RequestAt, Holding, AvatarTypeOK
<1>15. ASSUME NEW e \in Entries, Clean(w, e)
      PROVE  RequestAt(w)'
  BY <1>0, <1>15 DEF Clean, Goto, RequestAt, Holding, AvatarTypeOK
<1>16. CASE Stat(w)
  BY <1>0, ReplyFrame, <1>16 DEF Stat, Goto, RequestAt, Holding, AvatarTypeOK
<1>17. CASE NotModified(w)
  BY <1>0, ReplyFrame, <1>17 DEF NotModified, RequestAt, Holding
<1>18. CASE ServeFile(w)
  BY <1>0, ReplyFrame, <1>18 DEF ServeFile, RequestAt, Holding
<1>q. QED
  BY <1>1, <1>2, <1>3, <1>4, <1>5, <1>6, <1>7, <1>8, <1>9, <1>10, <1>11,
     <1>12, <1>13, <1>14, <1>15, <1>16, <1>17, <1>18 DEF Serving, Advance

\* Where a step of w may leave a file that was not there, or another one.
FileEffect(w) ==
    \A e \in Entries :
        Present(e)' =>
            \/ dir'[e] = dir[e]
            \/ e = w /\ (CreateTemp(w) \/ (Write(w) /\ Present(e)))
            \/ e = Target(w) /\ Rename(w) /\ dir'[e] = dir[w] /\ Present(w)

LEMMA ServingFiles ==
    ASSUME BaseInv, NEW w \in Workers, Serving(w)
    PROVE  FileEffect(w)
<1>0. AvatarTypeOK
  BY DEF BaseInv
<1>1. ASSUME NEW v \in Versions, Refuse(w, v)
      PROVE  FileEffect(w)
  BY <1>0, <1>1 DEF Refuse, FileEffect, Present
<1>2. ASSUME NEW v \in Versions, Begin(w, v)
      PROVE  FileEffect(w)
  BY <1>0, <1>2 DEF Begin, FileEffect, Present
<1>3. CASE Lock(w)
  BY <1>0, <1>3 DEF Lock, FileEffect, Present
<1>4. ASSUME NEW t \in Types, Hit(w, t)
      PROVE  FileEffect(w)
  BY <1>0, <1>4 DEF Hit, FileEffect, Present
<1>5. ASSUME NEW t \in Types, Miss(w, t)
      PROVE  FileEffect(w)
  BY <1>0, <1>5 DEF Miss, FileEffect, Present
<1>6. ASSUME NEW t \in Types, Download(w, t)
      PROVE  FileEffect(w)
  BY <1>0, <1>6 DEF Download, FileEffect, Present
<1>7. ASSUME NEW o \in Origins, Redirected(w, o)
      PROVE  FileEffect(w)
  BY <1>0, <1>7 DEF Redirected, FileEffect, Present
<1>8. CASE DownloadFails(w)
  BY <1>0, <1>8 DEF DownloadFails, FileEffect, Present
<1>9. CASE CreateTemp(w)
  <2>1. dir' = [dir EXCEPT ![w] = Partial]
    BY <1>9 DEF CreateTemp
  <2>q. QED
    BY <1>0, <1>9, <2>1 DEF FileEffect, Present, AvatarTypeOK
<1>10. CASE Write(w)
  BY <1>0, <1>10 DEF Write, FileEffect, Present, AvatarTypeOK
<1>11. CASE WriteFails(w)
  BY <1>0, <1>11 DEF WriteFails, FileEffect, Present, AvatarTypeOK
<1>12. CASE Rename(w)
  BY <1>0, <1>12 DEF Rename, FileEffect, Present, AvatarTypeOK
<1>13. CASE RenameFails(w)
  BY <1>0, <1>13 DEF RenameFails, FileEffect, Present
<1>14. CASE List(w)
  BY <1>0, <1>14 DEF List, FileEffect, Present
<1>15. ASSUME NEW e \in Entries, Clean(w, e)
      PROVE  FileEffect(w)
  BY <1>0, <1>15 DEF Clean, FileEffect, Present, AvatarTypeOK
<1>16. CASE Stat(w)
  BY <1>0, <1>16 DEF Stat, FileEffect, Present
<1>17. CASE NotModified(w)
  BY <1>0, <1>17 DEF NotModified, FileEffect, Present
<1>18. CASE ServeFile(w)
  BY <1>0, <1>18 DEF ServeFile, FileEffect, Present
<1>q. QED
  BY <1>1, <1>2, <1>3, <1>4, <1>5, <1>6, <1>7, <1>8, <1>9, <1>10, <1>11,
     <1>12, <1>13, <1>14, <1>15, <1>16, <1>17, <1>18 DEF Serving, Advance

\* A temporary file is no cached file.
LEMMA NotAPath ==
    ASSUME NEW w \in Workers, NEW p \in Paths
    PROVE  w # p /\ w \in Entries /\ p \in Entries
BY AvatarAssumption DEF Entries

LEMMA TempStep ==
    ASSUME BaseInv, NEW w \in Workers, Serving(w)
    PROVE  TempAt(w)'
<1>0. AvatarTypeOK /\ RequestAt(w) /\ TempAt(w) /\ w \in Entries
  BY DEF BaseInv, Entries
<1>1. ASSUME NEW v \in Versions, Refuse(w, v)
      PROVE  TempAt(w)'
  BY <1>0, ReplyFrame, <1>1 DEF Refuse, Goto, TempAt, Present, AvatarTypeOK
<1>2. ASSUME NEW v \in Versions, Begin(w, v)
      PROVE  TempAt(w)'
  BY <1>0, <1>2 DEF Begin, Goto, TempAt, Present, AvatarTypeOK
<1>3. CASE Lock(w)
  BY <1>0, <1>3 DEF Lock, Goto, TempAt, Present, AvatarTypeOK
<1>4. ASSUME NEW t \in Types, Hit(w, t)
      PROVE  TempAt(w)'
  BY <1>0, <1>4 DEF Hit, Goto, TempAt, Present, AvatarTypeOK, AfterFind
<1>5. ASSUME NEW t \in Types, Miss(w, t)
      PROVE  TempAt(w)'
  BY <1>0, <1>5 DEF Miss, Goto, TempAt, Present, AvatarTypeOK, AfterFind
<1>6. ASSUME NEW t \in Types, Download(w, t)
      PROVE  TempAt(w)'
  BY <1>0, <1>6 DEF Download, Goto, TempAt, Present, AvatarTypeOK
<1>7. ASSUME NEW o \in Origins, Redirected(w, o)
      PROVE  TempAt(w)'
  BY <1>0, <1>7 DEF Redirected, Goto, TempAt, Present, AvatarTypeOK
<1>8. CASE DownloadFails(w)
  BY <1>0, ReplyFrame, <1>8 DEF DownloadFails, Goto, TempAt, Present, AvatarTypeOK
<1>9. CASE CreateTemp(w)
  BY <1>0, <1>9 DEF CreateTemp, Goto, TempAt, Present, AvatarTypeOK
<1>10. CASE Write(w)
  BY <1>0, Known, <1>10 DEF Write, Goto, TempAt, Present, AvatarTypeOK, ImageOf, Image
<1>11. CASE WriteFails(w)
  BY <1>0, ReplyFrame, <1>11 DEF WriteFails, Goto, TempAt, Present, AvatarTypeOK
<1>12. CASE Rename(w)
  BY <1>0, Known, NotAPath, <1>12 DEF Rename, Goto, TempAt, Present, AvatarTypeOK
<1>13. CASE RenameFails(w)
  BY <1>0, ReplyFrame, <1>13 DEF RenameFails, Goto, TempAt, Present, AvatarTypeOK
<1>14. CASE List(w)
  BY <1>0, <1>14 DEF List, Goto, TempAt, Present, AvatarTypeOK
<1>15. ASSUME NEW e \in Entries, Clean(w, e)
      PROVE  TempAt(w)'
  BY <1>0, <1>15 DEF Clean, Goto, TempAt, Present, AvatarTypeOK
<1>16. CASE Stat(w)
  BY <1>0, ReplyFrame, <1>16 DEF Stat, Goto, TempAt, Present, AvatarTypeOK
<1>17. CASE NotModified(w)
  BY <1>0, ReplyFrame, <1>17 DEF NotModified, Goto, TempAt, Present, AvatarTypeOK
<1>18. CASE ServeFile(w)
  BY <1>0, ReplyFrame, <1>18 DEF ServeFile, Goto, TempAt, Present, AvatarTypeOK
<1>q. QED
  BY <1>1, <1>2, <1>3, <1>4, <1>5, <1>6, <1>7, <1>8, <1>9, <1>10, <1>11,
     <1>12, <1>13, <1>14, <1>15, <1>16, <1>17, <1>18 DEF Serving, Advance

LEMMA ServingKeepsBase ==
    ASSUME BaseInv, NEW w \in Workers, Serving(w)
    PROVE  FilesOwn' /\ \A u \in Workers : RequestAt(u)' /\ TempAt(u)'
<1>0. /\ OthersStay(w) /\ FileEffect(w)
      /\ AvatarTypeOK /\ FilesOwn /\ \A u \in Workers : RequestAt(u) /\ TempAt(u)
  BY ServingFrame, ServingFiles DEF BaseInv
<1>1. ASSUME NEW v \in Versions, NEW t \in Types, Present(<<v, t>>)'
      PROVE  ImageOf(dir[<<v, t>>], v, t)'
  <2>1. <<v, t>> \in Paths /\ w # <<v, t>> /\ <<v, t>> \in Entries
    BY NotAPath DEF Paths
  <2>2. CASE dir'[<<v, t>>] = dir[<<v, t>>]
    BY <1>0, <1>1, <2>2 DEF FilesOwn, Present, ImageOf
  <2>3. CASE <<v, t>> = Target(w) /\ Rename(w) /\ dir'[<<v, t>>] = dir[w] /\ Present(w)
    BY <1>0, <2>3 DEF Rename, TempAt, Target, ImageOf
  <2>q. QED
    BY <1>0, <1>1, <2>1, <2>2, <2>3 DEF FileEffect
<1>2. ASSUME NEW u \in Workers
      PROVE  RequestAt(u)' /\ TempAt(u)'
  <2>1. CASE u = w
    BY <2>1, RequestStep, TempStep
  <2>2. CASE u # w
    <3>1. RequestAt(u)'
      BY <1>0, <2>2 DEF RequestAt, OthersStay, Holding
    <3>2. Present(u)' => dir'[u] = dir[u]
      BY <1>0, <2>2, Known, NotAPath DEF FileEffect, Rename, Entries
    <3>3. TempAt(u)'
      BY <1>0, <2>2, <3>2 DEF TempAt, OthersStay, Present, ImageOf
    <3>q. QED
      BY <3>1, <3>3
  <2>q. QED
    BY <2>1, <2>2
<1>q. QED
  BY <1>1, <1>2 DEF FilesOwn

-----------------------------------------------------------------------------
(* Steps around the requests *)

\* An avatar that changes or a file that expires leaves every request alone.
LEMMA SurroundingsFrame ==
    ASSUME BaseInv,
           (\E v \in Versions : ChangeAvatar(v)) \/ (\E p \in Paths : Expire(p))
    PROVE  /\ UNCHANGED <<lock, pc, ver, source, look, found, listing, contacted, crashed, alone>>
           /\ \A w \in Workers : answer'[w].status = "none"
           /\ \A e \in Entries :
                 \/ dir'[e] = dir[e]
                 \/ e \in Paths /\ Present(e) /\ Present(e)' /\ dir'[e].stale
                    /\ \A v \in Versions, t \in Types :
                          ImageOf(dir[e], v, t) => ImageOf(dir[e], v, t)'
<1>1. CASE \E v \in Versions : ChangeAvatar(v)
  BY <1>1, SilentTyped DEF ChangeAvatar, request
<1>2. ASSUME NEW p \in Paths, Expire(p)
      PROVE  /\ UNCHANGED <<lock, pc, ver, source, look, found, listing, contacted, crashed,
                            alone>>
             /\ \A w \in Workers : answer'[w].status = "none"
             /\ \A e \in Entries :
                   \/ dir'[e] = dir[e]
                   \/ e \in Paths /\ Present(e) /\ Present(e)' /\ dir'[e].stale
                      /\ \A v \in Versions, t \in Types :
                            ImageOf(dir[e], v, t) => ImageOf(dir[e], v, t)'
  <2> DEFINE old == [dir[p] EXCEPT !.stale = TRUE]
  <2>1. dir' = [dir EXCEPT ![p] = old] /\ Present(p) /\ Silent
    BY <1>2 DEF Expire, Present
  <2>2. dir[p] \in Image /\ old \in Image /\ p \in Entries
    BY <2>1, FileKnown
  <2>3. old.stale /\ old.of = dir[p].of /\ old.type = dir[p].type
    BY <2>2 DEF Image
  <2> HIDE DEF old
  <2>4. dir'[p] = old /\ \A e \in Entries \ {p} : dir'[e] = dir[e]
    BY <2>1, <2>2 DEF BaseInv, AvatarTypeOK
  <2>5. Present(p)' /\ dir'[p].stale
    BY <2>2, <2>3, <2>4, AvatarAssumption DEF Present
  <2>6. \A v \in Versions, t \in Types : ImageOf(dir[p], v, t) => ImageOf(dir[p], v, t)'
    BY <2>2, <2>3, <2>4 DEF ImageOf
  <2>7. UNCHANGED <<lock, pc, ver, source, look, found, listing, contacted, crashed, alone>>
    BY <1>2 DEF Expire, request
  <2>q. QED
    BY <2>1, <2>4, <2>5, <2>6, <2>7, SilentTyped
<1>q. QED
  BY <1>1, <1>2

\* After a crash nobody is busy, and only the stray temporary file may be new.
LEMMA CrashFrame ==
    ASSUME BaseInv, Crash
    PROVE  /\ \A w \in Workers : /\ pc'[w] = "idle" /\ ~Present(w)' /\ ~alone'[w]
                                 /\ answer'[w].status = "none"
           /\ \A p \in Paths : dir'[p] = dir[p]
           /\ crashed' /\ contacted' = contacted
<1>1. \A w \in Workers : w \in Entries
  BY DEF Entries
<1>2. \A p \in Paths : p \in Entries /\ p \notin Workers /\ p # Stray
  BY AvatarAssumption DEF Entries
<1>q. QED
  BY <1>1, <1>2, SilentTyped DEF Crash, Present

LEMMA BaseInit == Init => BaseInv
<1> SUFFICES ASSUME Init PROVE BaseInv
  OBVIOUS
<1>1. Status("none") \in Answer
  BY StatusTyped DEF Statuses
<1>2. AvatarTypeOK
  <2>1. hops \in [Workers -> 0 .. MaxRedirects]
    BY AvatarAssumption DEF Init, IdleWorkers
  <2>2. dir \in [Entries -> Contents] /\ lock \in [Versions -> Workers \cup {None}]
    BY DEF Init, Contents
  <2>3. pc \in [Workers -> Labels]
    BY DEF Init, IdleWorkers, Labels
  <2>q. QED
    BY <1>1, <2>1, <2>2, <2>3 DEF Init, IdleWorkers, AvatarTypeOK
<1>3. \A e \in Entries : ~Present(e)
  BY DEF Init, Present
<1>4. \A w \in Workers : pc[w] = "idle" /\ w \in Entries
  BY DEF Init, IdleWorkers, Entries
<1>5. FilesOwn
  BY <1>3 DEF FilesOwn, Entries, Paths
<1>6. \A w \in Workers : RequestAt(w) /\ TempAt(w)
  BY <1>3, <1>4 DEF RequestAt, TempAt, Holding
<1>q. QED
  BY <1>2, <1>5, <1>6 DEF BaseInv, Init

\* Every origin is checked before it is contacted.
LEMMA ContactStep ==
    ASSUME BaseInv, Next
    PROVE  contacted' \subseteq Allowed
<1>1. contacted \subseteq Allowed
  BY DEF BaseInv
<1>2. ASSUME NEW w \in Workers, Serving(w)
      PROVE  contacted' \subseteq Allowed
  BY <1>1, <1>2 DEF Serving, Advance, Refuse, Begin, Lock, Hit, Miss, Redirected, Download,
       DownloadFails, CreateTemp, Write, WriteFails, Rename, RenameFails, List, Clean, Stat,
       NotModified, ServeFile, Contact, MayContact, SourceURL
<1>q. QED
  BY <1>1, <1>2, SurroundingsFrame, CrashFrame DEF Next, Serving

LEMMA BaseStep == BaseInv /\ [Next]_avatarVars => BaseInv'
<1> SUFFICES ASSUME BaseInv, [Next]_avatarVars PROVE BaseInv'
  OBVIOUS
<1>0. AvatarTypeOK /\ FilesOwn /\ \A w \in Workers : RequestAt(w) /\ TempAt(w)
  BY DEF BaseInv
<1>1. CASE UNCHANGED avatarVars
  <2>1. AvatarTypeOK' /\ contacted' \subseteq Allowed
    BY <1>1 DEF avatarVars, request, BaseInv, AvatarTypeOK
  <2>2. FilesOwn' /\ \A w \in Workers : RequestAt(w)' /\ TempAt(w)'
    BY <1>0, <1>1 DEF avatarVars, request, FilesOwn, RequestAt, TempAt, Present, ImageOf
  <2>q. QED
    BY <2>1, <2>2 DEF BaseInv
<1>2. ASSUME NEW w \in Workers, Serving(w)
      PROVE  FilesOwn' /\ \A u \in Workers : RequestAt(u)' /\ TempAt(u)'
  BY <1>2, ServingKeepsBase
<1>3. ASSUME (\E v \in Versions : ChangeAvatar(v)) \/ (\E p \in Paths : Expire(p))
      PROVE  FilesOwn' /\ \A u \in Workers : RequestAt(u)' /\ TempAt(u)'
  <2>1. \A v \in Versions, t \in Types : <<v, t>> \in Entries
    BY DEF Entries, Paths
  <2>2. FilesOwn'
    BY <1>0, <1>3, <2>1, SurroundingsFrame DEF FilesOwn, Present, ImageOf
  <2>3. \A u \in Workers : dir'[u] = dir[u]
    BY <1>3, SurroundingsFrame, NotAPath DEF Entries
  <2>4. \A u \in Workers : RequestAt(u)' /\ TempAt(u)'
    BY <1>0, <1>3, <2>3, SurroundingsFrame DEF RequestAt, TempAt, Present, ImageOf
  <2>q. QED
    BY <2>2, <2>4
<1>4. ASSUME Crash
      PROVE  FilesOwn' /\ \A u \in Workers : RequestAt(u)' /\ TempAt(u)'
  <2>1. \A v \in Versions, t \in Types : <<v, t>> \in Paths
    BY DEF Paths
  <2>2. FilesOwn'
    BY <1>0, <1>4, <2>1, CrashFrame DEF FilesOwn, Present, ImageOf
  <2>3. \A u \in Workers : RequestAt(u)' /\ TempAt(u)'
    BY <1>4, CrashFrame DEF RequestAt, TempAt, Holding
  <2>q. QED
    BY <2>2, <2>3
<1>5. CASE Next
  <2>1. AvatarTypeOK' /\ contacted' \subseteq Allowed
    BY <1>5, TypeStep, ContactStep
  <2>2. FilesOwn' /\ \A u \in Workers : RequestAt(u)' /\ TempAt(u)'
    BY <1>2, <1>3, <1>4, <1>5 DEF Next, Serving
  <2>q. QED
    BY <2>1, <2>2 DEF BaseInv
<1>q. QED
  BY <1>1, <1>5

-----------------------------------------------------------------------------
(* The clean-up *)

\* What a writing or sweeping request does next.
LEMMA WriterMoves ==
    ASSUME NEW w \in Workers, Serving(w), pc[w] \in {"write", "rename", "list", "clean"}
    PROVE  \/ Write(w) \/ WriteFails(w) \/ Rename(w) \/ RenameFails(w) \/ List(w) \/ Stat(w)
           \/ \E e \in Entries : Clean(w, e)
BY DEF Serving, Advance, Refuse, Begin, Lock, Hit, Miss, Redirected, Download, DownloadFails,
       CreateTemp, NotModified, ServeFile

\* Who covers two files covers them until one is gone.
LEMMA CoverStep ==
    ASSUME BaseInv, NEW w \in Workers, Serving(w), NEW e \in Entries, NEW f \in Entries, e # f,
           Present(e), Present(f), Present(e)', Present(f)', Covers(w, e, f)
    PROVE  Covers(w, e, f)' /\ ver'[w] = ver[w]
<1>0. AvatarTypeOK /\ w \in Entries
  BY DEF BaseInv, Entries
<1>1. pc[w] \in {"write", "rename", "list", "clean"}
  BY DEF Covers
<1>2. CASE Write(w)
  BY <1>0, <1>2 DEF Write, Goto, Covers, AvatarTypeOK
<1>3. CASE WriteFails(w)
  BY <1>0, <1>3 DEF WriteFails, Covers, Present, AvatarTypeOK
<1>4. CASE Rename(w)
  <2>1. dir'[w] = Absent
    BY <1>0, <1>4 DEF Rename, AvatarTypeOK
  <2>q. QED
    BY <1>4, <2>1 DEF Rename, Covers, Present
<1>5. CASE RenameFails(w)
  BY <1>5 DEF RenameFails, Covers, Present
<1>6. CASE List(w)
  <2>1. pc'[w] = "clean" /\ listing'[w] = ReadDir(w) /\ ver' = ver
    BY <1>0, <1>6 DEF List, Goto, AvatarTypeOK
  <2>2. e \in ReadDir(w) \/ f \in ReadDir(w)
    BY DEF ReadDir, Present
  <2>q. QED
    BY <2>1, <2>2 DEF Covers
<1>7. ASSUME NEW g \in Entries, Clean(w, g)
      PROVE  Covers(w, e, f)' /\ ver'[w] = ver[w]
  <2>1. dir'[g] = Absent /\ pc'[w] = "clean" /\ listing'[w] = listing[w] \ {g} /\ ver' = ver
    BY <1>0, <1>7 DEF Clean, AvatarTypeOK
  <2>2. g # e /\ g # f
    BY <2>1 DEF Present
  <2>3. {e, f} \cap listing[w] # {}
    BY <1>7 DEF Clean, Covers
  <2>q. QED
    BY <2>1, <2>2, <2>3 DEF Covers
<1>8. CASE Stat(w)
  BY <1>8 DEF Stat, Covers
<1>q. QED
  BY <1>1, <1>2, <1>3, <1>4, <1>5, <1>6, <1>7, <1>8, WriterMoves

\* A file that appears is the temporary file of the request, or its image.
LEMMA Appears ==
    ASSUME BaseInv, NEW w \in Workers, Serving(w), NEW e \in Entries, Present(e)', ~Present(e)
    PROVE  \/ e = w /\ CreateTemp(w)
           \/ e = Target(w) /\ Rename(w)
BY ServingFiles DEF FileEffect, Present

\* With the file that has just appeared, its writer covers every other.
LEMMA AppearsSwept ==
    ASSUME BaseInv, NEW w \in Workers, Serving(w), NEW e \in Entries, NEW f \in Entries,
           ~Present(e) \/ ~Present(f), Present(e)', Present(f)'
    PROVE  Sweeper(w, e, f)'
<1>0. AvatarTypeOK
  BY DEF BaseInv
<1>1. CASE CreateTemp(w) /\ w \in {e, f}
  <2>1. pc'[w] = "write"
    BY <1>0, <1>1 DEF CreateTemp, Goto, AvatarTypeOK
  <2>2. e \notin Paths \/ f \notin Paths
    BY <1>1, NotAPath
  <2>q. QED
    BY <1>1, <2>1, <2>2 DEF Sweeper, Covers
<1>2. CASE Rename(w) /\ Target(w) \in {e, f}
  <2>1. pc'[w] = "list" /\ ver' = ver
    BY <1>0, <1>2 DEF Rename, Goto, AvatarTypeOK
  <2>2. Target(w)[1] = ver[w]
    BY DEF Target
  <2>q. QED
    BY <1>2, <2>1, <2>2 DEF Sweeper, Covers
<1>q. QED
  BY <1>1, <1>2, Appears

\* Only the end of a clean-up forgets a crash.
LEMMA CrashForgotten ==
    ASSUME NEW w \in Workers, Serving(w), crashed' # crashed
    PROVE  Stat(w) /\ ~crashed'
BY DEF Serving, Advance, Refuse, Begin, Lock, Hit, Miss, Redirected, Download, DownloadFails,
       CreateTemp, Write, WriteFails, Rename, RenameFails, List, Clean, Stat, NotModified, ServeFile

\* A clean-up begins with a rename.
LEMMA SweepBegins ==
    ASSUME AvatarTypeOK, NEW w \in Workers, Serving(w), pc'[w] \in Sweeping, pc[w] \notin Sweeping
    PROVE  Rename(w)
<1>1. \A r : ~Reply(w, r)
  BY ReplyFrame DEF Sweeping
<1>2. ~\E label \in {"find", "findLocked", "lock", "fetch", "create", "write", "rename", "serve"} :
        Goto(w, label)
  BY DEF Goto, Sweeping, AvatarTypeOK
<1>3. ASSUME NEW v \in Versions, Refuse(w, v) \/ Begin(w, v)
      PROVE  FALSE
  BY <1>1, <1>2, <1>3 DEF Refuse, Begin
<1>4. ASSUME NEW t \in Types, Hit(w, t) \/ Miss(w, t) \/ Download(w, t)
      PROVE  FALSE
  BY <1>2, <1>4 DEF Hit, Miss, Download, AfterFind
<1>5. ~Lock(w) /\ ~(\E o \in Origins : Redirected(w, o)) /\ ~DownloadFails(w)
  BY <1>1, <1>2 DEF Lock, Redirected, DownloadFails, Sweeping
<1>6. ~CreateTemp(w) /\ ~Write(w) /\ ~WriteFails(w) /\ ~RenameFails(w)
  BY <1>1, <1>2 DEF CreateTemp, Write, WriteFails, RenameFails, Sweeping
<1>7. /\ ~List(w) /\ ~(\E e \in Entries : Clean(w, e)) /\ ~Stat(w)
      /\ ~NotModified(w) /\ ~ServeFile(w)
  BY <1>1 DEF List, Clean, Stat, NotModified, ServeFile, Sweeping
<1>q. QED
  BY <1>3, <1>4, <1>5, <1>6, <1>7 DEF Serving, Advance

LEMMA ServingKeepsTidy ==
    ASSUME BaseInv, TidyInv, NEW w \in Workers, Serving(w), NEW e \in Entries, NEW f \in Entries
    PROVE  Tidy(e, f)'
<1> SUFFICES ASSUME e # f, Present(e)', Present(f)'
             PROVE  /\ ~crashed' => Swept(e, f)'
                    /\ \A u \in Workers : pc'[u] \in Sweeping => Covers(u, e, f)' \/ Swept(e, f)'
  BY DEF Tidy
<1>0. AvatarTypeOK /\ OthersStay(w)
  BY ServingFrame DEF BaseInv
<1>1. CASE ~Present(e) \/ ~Present(f)
  BY <1>1, AppearsSwept DEF Swept
<1>2. CASE Present(e) /\ Present(f)
  <2>1. ASSUME NEW u \in Workers, Covers(u, e, f)
        PROVE  Covers(u, e, f)' /\ ver'[u] = ver[u]
    <3>1. CASE u = w
      BY <1>2, <2>1, <3>1, CoverStep
    <3>2. CASE u # w
      BY <1>0, <2>1, <3>2 DEF OthersStay, Covers
    <3>q. QED
      BY <3>1, <3>2
  <2>2. Swept(e, f) => Swept(e, f)'
    BY <2>1 DEF Swept, Sweeper
  <2>3. /\ ~crashed => Swept(e, f)
        /\ \A u \in Workers : pc[u] \in Sweeping => Covers(u, e, f) \/ Swept(e, f)
    BY <1>2 DEF TidyInv, Tidy
  <2>4. ~crashed' => Swept(e, f)
    <3>1. CASE Stat(w)
      BY <2>3, <3>1 DEF Stat, Covers, Sweeping
    <3>2. CASE ~Stat(w)
      BY <2>3, <3>2, CrashForgotten
    <3>q. QED
      BY <3>1, <3>2
  <2>5. ASSUME NEW u \in Workers, pc'[u] \in Sweeping
        PROVE  Covers(u, e, f)' \/ Swept(e, f)'
    <3>1. CASE pc[u] \in Sweeping
      BY <2>1, <2>2, <2>3, <3>1
    <3>2. CASE pc[u] \notin Sweeping
      <4>1. u = w /\ Rename(w)
        BY <1>0, <2>5, <3>2, SweepBegins DEF OthersStay
      <4>2. pc'[u] = "list"
        BY <1>0, <4>1 DEF Rename, Goto, AvatarTypeOK
      <4>q. QED
        BY <4>2 DEF Covers
    <3>q. QED
      BY <3>1, <3>2
  <2>q. QED
    BY <2>2, <2>4, <2>5
<1>q. QED
  BY <1>1, <1>2

LEMMA TidyStep == BaseInv /\ TidyInv /\ [Next]_avatarVars => TidyInv'
<1> SUFFICES ASSUME BaseInv, TidyInv, [Next]_avatarVars, NEW e \in Entries, NEW f \in Entries
             PROVE  Tidy(e, f)'
  BY DEF TidyInv
<1>0. Tidy(e, f)
  BY DEF TidyInv
<1>1. ASSUME UNCHANGED <<pc, ver, listing, crashed>>, Present(e)' = Present(e), Present(f)' = Present(f)
      PROVE  Tidy(e, f)'
  BY <1>0, <1>1 DEF Tidy, Swept, Sweeper, Covers
<1>2. CASE UNCHANGED avatarVars
  BY <1>1, <1>2 DEF avatarVars, request, Present
<1>3. ASSUME NEW w \in Workers, Serving(w)
      PROVE  Tidy(e, f)'
  BY <1>3, ServingKeepsTidy
<1>4. CASE (\E v \in Versions : ChangeAvatar(v)) \/ (\E p \in Paths : Expire(p))
  BY <1>1, <1>4, SurroundingsFrame DEF Present
<1>5. CASE Crash
  BY <1>5, CrashFrame DEF Tidy, Sweeping
<1>q. QED
  BY <1>2, <1>3, <1>4, <1>5 DEF Next, Serving

-----------------------------------------------------------------------------
(* Under the mutex *)

\* Two requests that hold the mutex of one version are one.
LEMMA Exclusive ==
    ASSUME BaseInv, NEW u \in Workers, NEW x \in Workers, pc[u] \in Holding, pc[x] \in Holding,
           ver[u] = ver[x]
    PROVE  u = x
BY Known DEF Holding

\* Nobody else renames a file of a version whose mutex is held.
LEMMA NoForeignRename ==
    ASSUME BaseInv, NEW u \in Workers, pc[u] \in Holding \ {"rename"}, NEW w \in Workers, Rename(w),
           NEW t \in Types
    PROVE  Target(w) # <<ver[u], t>>
<1>1. pc[w] = "rename" /\ pc[w] \in Holding
  BY DEF Rename, Holding
<1>2. ver[u] # ver[w]
  BY <1>1, Exclusive
<1>q. QED
  BY <1>2 DEF Target

\* A scan under the mutex is begun by Lock and goes on with Miss.
LEMMA ScanMoves ==
    ASSUME AvatarTypeOK, NEW w \in Workers, Serving(w), pc'[w] = "findLocked"
    PROVE  Lock(w) \/ \E t \in Types : Miss(w, t) /\ pc[w] = "findLocked" /\ look[w] # {t}
<1>1. \A r : ~Reply(w, r)
  BY ReplyFrame
<1>2. ~\E label \in {"find", "lock", "fetch", "create", "write", "rename", "list", "clean", "serve"} :
        Goto(w, label)
  BY DEF Goto, AvatarTypeOK
<1>3. ASSUME NEW v \in Versions, Refuse(w, v) \/ Begin(w, v)
      PROVE  FALSE
  BY <1>1, <1>2, <1>3 DEF Refuse, Begin
<1>4. ASSUME NEW t \in Types, Hit(w, t) \/ Download(w, t)
      PROVE  FALSE
  BY <1>2, <1>4 DEF Hit, Download, AfterFind
<1>5. ASSUME NEW t \in Types, Miss(w, t)
      PROVE  pc[w] = "findLocked" /\ look[w] # {t}
  BY <1>2, <1>5 DEF Miss, AfterFind
<1>6. ~(\E o \in Origins : Redirected(w, o)) /\ ~DownloadFails(w)
  BY <1>1, <1>2 DEF Redirected, DownloadFails
<1>7. ~CreateTemp(w) /\ ~Write(w) /\ ~WriteFails(w) /\ ~Rename(w) /\ ~RenameFails(w)
  BY <1>1, <1>2 DEF CreateTemp, Write, WriteFails, Rename, RenameFails
<1>8. /\ ~List(w) /\ ~(\E e \in Entries : Clean(w, e)) /\ ~Stat(w)
      /\ ~NotModified(w) /\ ~ServeFile(w)
  BY <1>1, <1>2 DEF List, Clean, Stat, NotModified, ServeFile
<1>q. QED
  BY <1>3, <1>4, <1>5, <1>6, <1>7, <1>8 DEF Serving, Advance

\* A fetch is begun by the end of a scan under the mutex, and goes on with a
\* redirect.
LEMMA FetchMoves ==
    ASSUME AvatarTypeOK, NEW w \in Workers, Serving(w), pc'[w] = "fetch"
    PROVE  \/ \E o \in Origins : Redirected(w, o)
           \/ \E t \in Types : Hit(w, t) /\ pc[w] = "findLocked" /\ dir[<<ver[w], t>>].stale
           \/ \E t \in Types : Miss(w, t) /\ pc[w] = "findLocked" /\ look[w] = {t}
<1>1. \A r : ~Reply(w, r)
  BY ReplyFrame
<1>2. ~\E label \in {"find", "findLocked", "lock", "create", "write", "rename", "list", "clean", "serve"} :
        Goto(w, label)
  BY DEF Goto, AvatarTypeOK
<1>3. ASSUME NEW v \in Versions, Refuse(w, v) \/ Begin(w, v)
      PROVE  FALSE
  BY <1>1, <1>2, <1>3 DEF Refuse, Begin
<1>4. ASSUME NEW t \in Types, Hit(w, t)
      PROVE  pc[w] = "findLocked" /\ dir[<<ver[w], t>>].stale
  BY <1>2, <1>4 DEF Hit, AfterFind
<1>5. ASSUME NEW t \in Types, Miss(w, t)
      PROVE  pc[w] = "findLocked" /\ look[w] = {t}
  BY <1>2, <1>5 DEF Miss, AfterFind
<1>6. ~Lock(w) /\ ~DownloadFails(w) /\ ~\E t \in Types : Download(w, t)
  BY <1>1, <1>2 DEF Lock, DownloadFails, Download
<1>7. ~CreateTemp(w) /\ ~Write(w) /\ ~WriteFails(w) /\ ~Rename(w) /\ ~RenameFails(w)
  BY <1>1, <1>2 DEF CreateTemp, Write, WriteFails, Rename, RenameFails
<1>8. /\ ~List(w) /\ ~(\E e \in Entries : Clean(w, e)) /\ ~Stat(w)
      /\ ~NotModified(w) /\ ~ServeFile(w)
  BY <1>1, <1>2 DEF List, Clean, Stat, NotModified, ServeFile
<1>q. QED
  BY <1>3, <1>4, <1>5, <1>6, <1>7, <1>8 DEF Serving, Advance

LEMMA ServingKeepsScan ==
    ASSUME BaseInv, CacheInv, NEW w \in Workers, Serving(w), NEW u \in Workers
    PROVE  ScanAt(u)'
<1> SUFFICES ASSUME pc'[u] = "findLocked", NEW t \in Types, t \notin look'[u]
             PROVE  ~Present(<<ver[u], t>>)'
  BY DEF ScanAt, Present
<1>0. AvatarTypeOK /\ OthersStay(w) /\ ScanAt(u)
  BY ServingFrame DEF BaseInv, CacheInv
<1>1. CASE u # w
  <2>1. pc[u] = "findLocked" /\ ver'[u] = ver[u] /\ look'[u] = look[u]
    BY <1>0, <1>1 DEF OthersStay
  <2>2. ver[u] \in Versions /\ pc[u] \in Holding \ {"rename"}
    BY <2>1, Known DEF Holding
  <2>3. <<ver[u], t>> \in Paths /\ <<ver[u], t>> \in Entries /\ <<ver[u], t>> # w
    BY <2>2, NotAPath DEF Paths
  <2>4. ~Present(<<ver[u], t>>)
    BY <1>0, <2>1 DEF ScanAt
  <2>q. QED
    BY <2>1, <2>2, <2>3, <2>4, Appears, NoForeignRename DEF Present
<1>2. CASE u = w
  <2>1. CASE Lock(w)
    BY <1>0, <1>2, <2>1 DEF Lock, AvatarTypeOK
  <2>2. ASSUME NEW s \in Types, Miss(w, s), pc[w] = "findLocked"
        PROVE  ~Present(<<ver[u], t>>)'
    <3>1. dir' = dir /\ ver' = ver /\ look'[w] = look[w] \ {s} /\ ~Present(<<ver[w], s>>)
      BY <1>0, <2>2 DEF Miss, Present, AvatarTypeOK
    <3>q. QED
      BY <1>0, <1>2, <2>2, <3>1 DEF ScanAt, Present
  <2>q. QED
    BY <1>0, <1>2, <2>1, <2>2, ScanMoves
<1>q. QED
  BY <1>1, <1>2

\* A clean-up goes on until it ends in Stat.
LEMMA SweepMoves ==
    ASSUME BaseInv, NEW w \in Workers, Serving(w), pc[w] \in Sweeping, ~Stat(w)
    PROVE  pc'[w] \in Sweeping /\ ver'[w] = ver[w]
<1>0. AvatarTypeOK
  BY DEF BaseInv
<1>1. List(w) \/ \E e \in Entries : Clean(w, e)
  BY WriterMoves DEF Sweeping, Write, WriteFails, Rename, RenameFails
<1>q. QED
  BY <1>0, <1>1 DEF List, Clean, Goto, Sweeping, AvatarTypeOK

LEMMA ServingKeepsOld ==
    ASSUME BaseInv, CacheInv, NEW w \in Workers, Serving(w), NEW u \in Workers
    PROVE  OldAt(u)'
<1> SUFFICES ASSUME crashed', pc'[u] = "clean", NEW v \in Versions, NEW t \in Types,
                    Present(<<v, t>>)',
                    \A x \in Workers : pc'[x] \in Sweeping => ver'[x] # v
             PROVE  <<v, t>> \in listing'[u]
  BY DEF OldAt, Present
<1>0. AvatarTypeOK /\ OthersStay(w) /\ OldAt(u)
  BY ServingFrame DEF BaseInv, CacheInv
<1>1. <<v, t>> \in Paths /\ <<v, t>> \in Entries /\ <<v, t>> # w
  BY NotAPath DEF Paths
<1>2. ~Stat(w) /\ crashed
  BY CrashForgotten DEF Stat
<1>3. Present(<<v, t>>)
  <2>1. ASSUME Rename(w) PROVE Target(w) # <<v, t>>
    <3>1. pc'[w] = "list" /\ ver' = ver
      BY <1>0, <2>1 DEF Rename, Goto, AvatarTypeOK
    <3>q. QED
      BY <3>1 DEF Sweeping, Target
  <2>q. QED
    BY <1>1, <2>1, Appears
<1>4. ASSUME NEW x \in Workers, pc[x] \in Sweeping
      PROVE  ver[x] # v
  <2>1. CASE x = w
    BY <1>2, <1>4, <2>1, SweepMoves
  <2>2. CASE x # w
    BY <1>0, <1>4, <2>2 DEF OthersStay
  <2>q. QED
    BY <2>1, <2>2
<1>5. CASE pc[u] = "clean"
  <2>1. <<v, t>> \in listing[u]
    BY <1>0, <1>2, <1>3, <1>4, <1>5 DEF OldAt
  <2>2. CASE u # w
    BY <1>0, <2>1, <2>2 DEF OthersStay
  <2>3. CASE u = w
    <3>1. PICK e \in Entries : Clean(w, e)
      BY <1>2, <1>5, <2>3, WriterMoves DEF Write, WriteFails, Rename, RenameFails, List
    <3>2. dir'[e] = Absent /\ listing'[w] = listing[w] \ {e}
      BY <1>0, <3>1 DEF Clean, AvatarTypeOK
    <3>q. QED
      BY <2>1, <2>3, <3>2 DEF Present
  <2>q. QED
    BY <2>2, <2>3
<1>6. CASE pc[u] # "clean"
  <2>1. u = w
    BY <1>0, <1>6 DEF OthersStay
  <2>2. pc[w] \in Sweeping
    BY <1>0, <2>1, SweepBegins DEF Sweeping, Rename, Goto, AvatarTypeOK
  <2>3. List(w)
    BY <1>2, <1>6, <2>1, <2>2, WriterMoves
       DEF Sweeping, Write, WriteFails, Rename, RenameFails, Clean
  <2>4. listing'[w] = ReadDir(w) /\ ver' = ver
    BY <1>0, <2>3 DEF List, AvatarTypeOK
  <2>5. Target(w) # <<v, t>>
    BY <1>4, <2>2 DEF Target
  <2>q. QED
    BY <1>1, <1>3, <2>1, <2>4, <2>5 DEF ReadDir, Present
<1>q. QED
  BY <1>5, <1>6

LEMMA ServingKeepsFetch ==
    ASSUME BaseInv, TidyInv, CacheInv, NEW w \in Workers, Serving(w), NEW u \in Workers
    PROVE  FetchAt(u)'
<1> SUFFICES ASSUME pc'[u] = "fetch", ~crashed', NEW t \in Types, Present(<<ver[u], t>>)'
             PROVE  dir'[<<ver'[u], t>>].stale
  BY DEF FetchAt, Present
<1>0. AvatarTypeOK /\ OthersStay(w) /\ FetchAt(u) /\ ScanAt(u)
  BY ServingFrame DEF BaseInv, CacheInv
<1>1. CASE u # w
  <2> DEFINE file == <<ver[u], t>>
  <2>1. pc[u] = "fetch" /\ ver'[u] = ver[u]
    BY <1>0, <1>1 DEF OthersStay
  <2>2. ver[u] \in Versions /\ pc[u] \in Holding \ {"rename"}
    BY <2>1, Known DEF Holding
  <2>3. file \in Paths /\ file \in Entries /\ file # w
    BY <2>2, NotAPath DEF Paths
  <2>4. ~(Rename(w) /\ Target(w) = file)
    BY <2>2, NoForeignRename
  <2>5. dir'[file] = dir[file] /\ Present(file)
    BY <2>1, <2>3, <2>4, ServingFiles DEF FileEffect, Present
  <2>6. ~crashed
    <3> SUFFICES ASSUME crashed PROVE FALSE
      OBVIOUS
    <3>1. Stat(w)
      BY CrashForgotten
    <3>2. \A x \in Workers : pc[x] \in Sweeping => ver[x] # ver[u]
      BY <2>1, <2>2, Exclusive DEF Sweeping, Holding
    <3>3. file \in listing[w]
      BY <2>2, <2>5, <3>1, <3>2 DEF CacheInv, OldAt, Stat
    <3>q. QED
      BY <3>1, <3>3 DEF Stat
  <2>q. QED
    BY <1>0, <2>1, <2>5, <2>6 DEF FetchAt
<1>2. CASE u = w
  <2>1. ASSUME NEW o \in Origins, Redirected(w, o)
        PROVE  dir'[<<ver'[u], t>>].stale
    BY <1>0, <1>2, <2>1 DEF Redirected, FetchAt, Present
  <2>2. ASSUME NEW s \in Types, Hit(w, s), pc[w] = "findLocked", dir[<<ver[w], s>>].stale
        PROVE  dir'[<<ver'[u], t>>].stale
    <3> DEFINE e == <<ver[w], t>>
    <3> DEFINE f == <<ver[w], s>>
    <3>1. dir' = dir /\ ver' = ver /\ crashed' = crashed /\ Present(f)
      BY <2>2 DEF Hit, Present
    <3>2. ver[w] \in Versions /\ pc[w] \in Holding
      BY <2>2, Known DEF Holding
    <3>3. e \in Paths /\ f \in Paths /\ e \in Entries /\ f \in Entries /\ e[1] = ver[w] /\ f[1] = ver[w]
          /\ Present(e)
      BY <1>2, <3>1, <3>2 DEF Paths, Entries, Present
    <3> HIDE DEF e, f
    <3>4. e = f
      <4> SUFFICES ASSUME e # f PROVE FALSE
        OBVIOUS
      <4>1. PICK x \in Workers : Sweeper(x, e, f)
        BY <3>1, <3>3 DEF TidyInv, Tidy, Swept
      <4>2. ver[x] = ver[w] /\ pc[x] \in Sweeping
        BY <3>3, <4>1, NotAPath DEF Sweeper, Covers, Sweeping
      <4>3. x = w
        BY <3>2, <4>2, Exclusive DEF Sweeping, Holding
      <4>q. QED
        BY <2>2, <4>2, <4>3 DEF Sweeping
    <3>q. QED
      BY <1>2, <2>2, <3>1, <3>4 DEF e, f
  <2>3. ASSUME NEW s \in Types, Miss(w, s), pc[w] = "findLocked", look[w] = {s}
        PROVE  dir'[<<ver'[u], t>>].stale
    <3>1. dir' = dir /\ ver' = ver /\ ~Present(<<ver[w], s>>)
      BY <2>3 DEF Miss, Present
    <3>2. ~Present(<<ver[w], t>>)
      BY <1>0, <1>2, <2>3, <3>1 DEF ScanAt
    <3>q. QED
      BY <1>2, <3>1, <3>2 DEF Present
  <2>q. QED
    BY <1>0, <1>2, <2>1, <2>2, <2>3, FetchMoves
<1>q. QED
  BY <1>1, <1>2

LEMMA CacheStep == BaseInv /\ TidyInv /\ CacheInv /\ [Next]_avatarVars => CacheInv'
<1> SUFFICES ASSUME BaseInv, TidyInv, CacheInv, [Next]_avatarVars, NEW u \in Workers
             PROVE  ScanAt(u)' /\ OldAt(u)' /\ FetchAt(u)'
  BY DEF CacheInv
<1>0. ScanAt(u) /\ OldAt(u) /\ FetchAt(u)
  BY DEF CacheInv
<1>1. CASE UNCHANGED avatarVars
  BY <1>0, <1>1 DEF avatarVars, request, Present, ScanAt, OldAt, FetchAt
<1>2. ASSUME NEW w \in Workers, Serving(w)
      PROVE  ScanAt(u)' /\ OldAt(u)' /\ FetchAt(u)'
  BY <1>2, ServingKeepsScan, ServingKeepsOld, ServingKeepsFetch
<1>3. CASE (\E v \in Versions : ChangeAvatar(v)) \/ (\E p \in Paths : Expire(p))
  <2>1. UNCHANGED <<pc, ver, look, listing, crashed>>
    BY <1>3, SurroundingsFrame
  <2>2. ASSUME NEW v \in Versions, NEW t \in Types
        PROVE  /\ Present(<<v, t>>)' <=> Present(<<v, t>>)
               /\ Present(<<v, t>>) =>
                     dir'[<<v, t>>] = dir[<<v, t>>] \/ dir'[<<v, t>>].stale
    <3>1. <<v, t>> \in Entries
      BY DEF Entries, Paths
    <3>q. QED
      BY <1>3, <3>1, SurroundingsFrame DEF Present
  <2>3. pc[u] # "idle" => ver[u] \in Versions
    BY Known
  <2>4. ScanAt(u)'
    BY <1>0, <2>1, <2>2, <2>3 DEF ScanAt
  <2>5. OldAt(u)'
    BY <1>0, <2>1, <2>2 DEF OldAt
  <2>6. FetchAt(u)'
    BY <1>0, <2>1, <2>2, <2>3 DEF FetchAt
  <2>q. QED
    BY <2>4, <2>5, <2>6
<1>4. CASE Crash
  BY <1>4, CrashFrame DEF ScanAt, OldAt, FetchAt
<1>q. QED
  BY <1>1, <1>2, <1>3, <1>4 DEF Next, Serving

-----------------------------------------------------------------------------
(* A request that meets no other *)

LEMMA AloneMoves ==
    ASSUME BaseInv, NEW w \in Workers, Serving(w), AloneAt(w)
    PROVE  AloneAt(w)'
<1>0. AvatarTypeOK /\ AloneAt(w) /\ OthersStay(w) /\ w \in Entries
  BY ServingFrame DEF BaseInv, Entries
<1>s. \A s \in {"badGateway", "writeFailed", "notModified"} : Status(s).status = s
  BY StatusTyped DEF Statuses
<1>k. /\ pc[w] \in {"write", "rename", "list", "clean"} =>
            ver[w] \in Versions /\ source[w] = ver[w] /\ found[w] \in Types
            /\ Target(w) \in Entries /\ Target(w) # w
  BY Known, NotAPath
<1>1. ASSUME NEW v \in Versions, Refuse(w, v)
      PROVE  AloneAt(w)'
  BY <1>0, <1>s, ReplyFrame, <1>1 DEF Refuse, AloneAt, Present, Target, OthersStay, AvatarTypeOK
<1>2. ASSUME NEW v \in Versions, Begin(w, v)
      PROVE  AloneAt(w)'
  BY <1>0, SilentTyped, <1>2 DEF Begin, Goto, AloneAt, Present, Target, OthersStay, AvatarTypeOK
<1>3. CASE Lock(w)
  BY <1>0, SilentTyped, <1>3 DEF Lock, Goto, AloneAt, Present, Target, OthersStay, AvatarTypeOK
<1>4. ASSUME NEW t \in Types, Hit(w, t)
      PROVE  AloneAt(w)'
  BY <1>0, SilentTyped, <1>4 DEF Hit, Goto, AloneAt, Present, Target, OthersStay, AvatarTypeOK, AfterFind
<1>5. ASSUME NEW t \in Types, Miss(w, t)
      PROVE  AloneAt(w)'
  BY <1>0, SilentTyped, <1>5 DEF Miss, Goto, AloneAt, Present, Target, OthersStay, AvatarTypeOK, AfterFind
<1>6. ASSUME NEW t \in Types, Download(w, t)
      PROVE  AloneAt(w)'
  BY <1>0, SilentTyped, <1>6 DEF Download, Goto, AloneAt, Present, Target, OthersStay, AvatarTypeOK
<1>7. ASSUME NEW o \in Origins, Redirected(w, o)
      PROVE  AloneAt(w)'
  BY <1>0, SilentTyped, <1>7 DEF Redirected, Goto, AloneAt, Present, Target, OthersStay, AvatarTypeOK
<1>8. CASE DownloadFails(w)
  <2>1. CASE found[w] = None
    <3>1. Reply(w, Status("badGateway")) /\ alone' = alone
      BY <1>8, <2>1 DEF DownloadFails
    <3>q. QED
      BY <1>0, <1>s, <3>1, ReplyFrame DEF AloneAt, OthersStay
  <2>2. CASE found[w] # None
    <3>1. /\ pc'[w] = "serve" /\ UNCHANGED <<dir, ver, found, alone>> /\ Silent /\ pc[w] = "fetch"
      BY <1>0, <1>8, <2>2 DEF DownloadFails, Goto, AvatarTypeOK
    <3>q. QED
      BY <1>0, <2>2, <3>1, SilentTyped DEF AloneAt, OthersStay, Present, Target
  <2>q. QED
    BY <2>1, <2>2
<1>9. CASE CreateTemp(w)
  <2>1. pc'[w] = "write" /\ dir'[w] = Partial /\ alone' = alone /\ Silent
    BY <1>0, <1>9 DEF CreateTemp, Goto, AvatarTypeOK
  <2>q. QED
    BY <1>0, <2>1, SilentTyped, AvatarAssumption DEF AloneAt, OthersStay, Present
<1>10. CASE Write(w)
  <2> DEFINE image == [of |-> source[w], type |-> found[w], stale |-> FALSE]
  <2>1. pc[w] = "write" /\ pc'[w] = "rename" /\ alone' = alone /\ Silent
    BY <1>0, <1>10 DEF Write, Goto, AvatarTypeOK
  <2>2. image \in Image
    BY <1>k, <2>1 DEF Image
  <2>3. image # Absent
    BY <2>2, AvatarAssumption
  <2> HIDE DEF image
  <2>4. Present(w) => dir'[w] = image
    BY <1>0, <1>10 DEF Write, Present, AvatarTypeOK, image
  <2>q. QED
    BY <1>0, <2>1, <2>3, <2>4, SilentTyped DEF AloneAt, OthersStay, Present
<1>11. CASE WriteFails(w)
  <2>1. Reply(w, Status("writeFailed")) /\ alone' = alone
    BY <1>11 DEF WriteFails
  <2>q. QED
    BY <1>0, <1>s, <2>1, ReplyFrame DEF AloneAt, OthersStay
<1>12. CASE Rename(w)
  BY <1>0, <1>k, SilentTyped, <1>12 DEF Rename, Goto, AloneAt, Present, Target, OthersStay, AvatarTypeOK
<1>13. CASE RenameFails(w)
  BY <1>0, <1>s, ReplyFrame, <1>13 DEF RenameFails, AloneAt, Present, Target, OthersStay, AvatarTypeOK
<1>14. CASE List(w)
  BY <1>0, SilentTyped, <1>14 DEF List, Goto, AloneAt, Present, Target, OthersStay, AvatarTypeOK, ReadDir
<1>15. ASSUME NEW e \in Entries, Clean(w, e)
      PROVE  AloneAt(w)'
  <2>1. /\ pc[w] = "clean" /\ pc' = pc /\ e \in listing[w] /\ listing'[w] = listing[w] \ {e}
        /\ UNCHANGED <<ver, found, alone>> /\ Silent
        /\ dir' = [dir EXCEPT ![e] = Absent]
    BY <1>0, <1>15 DEF Clean, AvatarTypeOK
  <2>2. alone[w] => Target(w) \notin listing[w] /\ Present(Target(w))
    BY <1>0, <2>1 DEF AloneAt
  <2>3. alone[w] => dir'[Target(w)] = dir[Target(w)]
    BY <1>0, <1>k, <2>1, <2>2 DEF AvatarTypeOK
  <2>4. Target(w)' = Target(w)
    BY <2>1 DEF Target
  <2>q. QED
    BY <1>0, <2>1, <2>2, <2>3, <2>4, SilentTyped DEF AloneAt, OthersStay, Present
<1>16. CASE Stat(w)
  BY <1>0, <1>s, SilentTyped, ReplyFrame, <1>16 DEF Stat, Goto, AloneAt, Present, Target, OthersStay, AvatarTypeOK
<1>17. CASE NotModified(w)
  <2>1. Reply(w, Status("notModified")) /\ alone' = alone
    BY <1>17 DEF NotModified
  <2>q. QED
    BY <1>0, <1>s, <2>1, ReplyFrame DEF AloneAt, OthersStay
<1>18. CASE ServeFile(w)
  BY <1>0, <1>s, ReplyFrame, <1>18 DEF ServeFile, AloneAt, Present, Target, OthersStay, AvatarTypeOK
<1>q. QED
  BY <1>1, <1>2, <1>3, <1>4, <1>5, <1>6, <1>7, <1>8, <1>9, <1>10, <1>11,
     <1>12, <1>13, <1>14, <1>15, <1>16, <1>17, <1>18 DEF Serving, Advance

\* Of two busy requests, the one that came first is no longer alone.
LEMMA AloneStays ==
    ASSUME BaseInv, NEW w \in Workers, Serving(w), NEW u \in Workers \ {w}, AloneAt(u)
    PROVE  AloneAt(u)'
<1>0. AvatarTypeOK /\ OthersStay(w)
  BY ServingFrame DEF BaseInv
<1>1. CASE \E v \in Versions : Refuse(w, v)
  <2>1. Reply(w, Status("notFound")) /\ dir' = dir /\ alone' = [alone EXCEPT ![w] = FALSE]
    BY <1>1 DEF Refuse
  <2>2. pc'[w] = "idle" /\ answer'[u].status = "none" /\ alone'[u] = alone[u]
    BY <1>0, <2>1, ReplyFrame, StatusTyped DEF AvatarTypeOK, Statuses
  <2>q. QED
    BY <1>0, <2>1, <2>2 DEF AloneAt, OthersStay, Present, Target
<1>2. CASE \E v \in Versions : Begin(w, v)
  <2>1. ~alone'[u]
    BY <1>2 DEF Begin
  <2>q. QED
    BY <2>1 DEF AloneAt
<1>3. CASE Lock(w) \/ Advance(w)
  <2>1. pc[w] # "idle" /\ alone' = alone
    BY <1>3 DEF Advance, Lock, Hit, Miss, Redirected, Download, DownloadFails, CreateTemp, Write,
         WriteFails, Rename, RenameFails, List, Clean, Stat, NotModified, ServeFile
  <2>q. QED
    BY <2>1 DEF AloneAt
<1>q. QED
  BY <1>1, <1>2, <1>3 DEF Serving

LEMMA AloneStep == BaseInv /\ AloneInv /\ [Next]_avatarVars => AloneInv'
<1> SUFFICES ASSUME BaseInv, AloneInv, [Next]_avatarVars, NEW u \in Workers
             PROVE  AloneAt(u)'
  BY DEF AloneInv
<1>0. AloneAt(u)
  BY DEF AloneInv
<1>1. CASE UNCHANGED avatarVars
  BY <1>0, <1>1 DEF avatarVars, request, Present, AloneAt, Target
<1>2. ASSUME NEW w \in Workers, Serving(w)
      PROVE  AloneAt(u)'
  BY <1>0, <1>2, AloneMoves, AloneStays
<1>3. CASE (\E v \in Versions : ChangeAvatar(v)) \/ (\E p \in Paths : Expire(p))
  <2>1. UNCHANGED <<pc, ver, found, listing, alone>> /\ answer'[u].status = "none"
    BY <1>3, SurroundingsFrame
  <2>2. \A e \in Entries : Present(e)' <=> Present(e)
    BY <1>3, SurroundingsFrame DEF Present
  <2>3. u \in Entries
    BY DEF Entries
  <2>4. pc[u] \in {"list", "clean", "serve"} \/ (pc[u] = "fetch" /\ found[u] # None) =>
           Target(u) \in Entries
    BY Known DEF BaseInv, AvatarTypeOK, Target, Entries, Paths
  <2>q. QED
    BY <1>0, <2>1, <2>2, <2>3, <2>4 DEF AloneAt, Target
<1>4. CASE Crash
  BY <1>4, CrashFrame DEF AloneAt
<1>q. QED
  BY <1>1, <1>2, <1>3, <1>4 DEF Next, Serving

-----------------------------------------------------------------------------
(* Theorems *)

LEMMA OthersInit == Init => TidyInv /\ CacheInv /\ AloneInv
<1> SUFFICES ASSUME Init PROVE TidyInv /\ CacheInv /\ AloneInv
  OBVIOUS
<1>1. \A e \in Entries : ~Present(e)
  BY DEF Init, Present
<1>2. \A w \in Workers : pc[w] = "idle" /\ ~alone[w]
  BY DEF Init, IdleWorkers
<1>q. QED
  BY <1>1, <1>2 DEF TidyInv, Tidy, CacheInv, ScanAt, OldAt, FetchAt, AloneInv, AloneAt

\* The inductive invariant of the avatar proxy.
THEOREM AvatarInvariant == Spec => []AvatarInv
<1>1. Init => AvatarInv
  BY BaseInit, OthersInit DEF AvatarInv
<1>2. AvatarInv /\ [Next]_avatarVars => AvatarInv'
  BY BaseStep, TidyStep, CacheStep, AloneStep DEF AvatarInv
<1>q. QED
  BY <1>1, <1>2, PTL DEF Spec

\* Files, requests and responses have their types.
THEOREM AvatarTypeCorrect == Spec => []AvatarTypeOK
<1>1. AvatarInv => AvatarTypeOK
  BY DEF AvatarInv, BaseInv
<1>q. QED
  BY <1>1, AvatarInvariant, PTL

\* AllowedHosts: nothing is sent to an origin that is not configured, wherever
\* the provider redirects to.
THEOREM OnlyAllowedHosts == Spec => []AllowedHosts
<1>1. AvatarInv => AllowedHosts
  BY DEF AvatarInv, BaseInv, AllowedHosts
<1>q. QED
  BY <1>1, AvatarInvariant, PTL

\* NoNeedlessFetch: nobody fetches while a fresh image of its version is cached.
THEOREM NeverNeedlessFetch == Spec => []NoNeedlessFetch
<1>1. AvatarInv => NoNeedlessFetch
  BY DEF AvatarInv, CacheInv, FetchAt, Present, NoNeedlessFetch
<1>q. QED
  BY <1>1, AvatarInvariant, PTL

\* OneFileLeft: once nobody is busy, concurrent clean-ups have left at most one
\* file of the user.
THEOREM AtMostOneFileLeft == Spec => []OneFileLeft
<1>1. AvatarInv => OneFileLeft
  <2> DEFINE files == {e \in Entries : Present(e)}
  <2> SUFFICES ASSUME AvatarInv, \A w \in Workers : pc[w] = "idle", ~crashed
               PROVE  Cardinality(files) <= 1
    BY DEF OneFileLeft, Present
  <2>1. ASSUME NEW e \in files, NEW f \in files
        PROVE  e = f
    BY <2>1 DEF AvatarInv, TidyInv, Tidy, Swept, Sweeper, Covers
  <2>2. files = {} \/ \E e : files = {e}
    BY <2>1
  <2> HIDE DEF files
  <2>q. QED
    BY <2>2, FS_EmptySet, FS_Singleton
<1>q. QED
  BY <1>1, AvatarInvariant, PTL

\* AloneIsServed: a request that meets no other ends with the image, with 304
\* or with the error of the provider or of the disk, never with 404.
THEOREM AloneAlwaysServed == Spec => []AloneIsServed
<1>1. AvatarInv => AloneIsServed
  BY DEF AvatarInv, AloneInv, AloneAt, AloneIsServed
<1>q. QED
  BY <1>1, AvatarInvariant, PTL

\* ServedIsOwn: a 200 carries a whole image of the version in the request.
THEOREM ServedAlwaysOwn == Spec => ServedIsOwn
<1> DEFINE Own == \A w \in Workers :
               answer'[w].status = "ok" =>
                   \E b \in BOOLEAN :
                       answer'[w].image = [of |-> ver[w], type |-> answer'[w].type, stale |-> b]
<1>1. AvatarInv /\ [Next]_avatarVars => [Own]_avatarVars
  <2> SUFFICES ASSUME BaseInv, Next, NEW w \in Workers, answer'[w].status = "ok"
               PROVE  \E b \in BOOLEAN :
                        answer'[w].image = [of |-> ver[w], type |-> answer'[w].type, stale |-> b]
    BY DEF AvatarInv
  <2>0. AvatarTypeOK
    BY DEF BaseInv
  <2>1. ~Silent
    BY SilentTyped
  <2>2. ASSUME NEW u \in Workers, NEW s \in Statuses \ {"ok"}
        PROVE  ~Reply(u, Status(s))
    BY <2>0, <2>2, ReplyFrame, StatusTyped DEF Statuses
  <2>3. PICK u \in Workers : ServeFile(u)
    <3>1. ~Crash /\ ~(\E v \in Versions : ChangeAvatar(v)) /\ ~\E p \in Paths : Expire(p)
      BY <2>1 DEF Crash, ChangeAvatar, Expire
    <3>2. PICK u \in Workers : Serving(u)
      BY <3>1 DEF Next, Serving
    <3>3. ~\E v \in Versions : Refuse(u, v) \/ Begin(u, v)
      BY <2>1, <2>2 DEF Refuse, Begin, Statuses
    <3>4. ~Lock(u) /\ ~(\E o \in Origins : Redirected(u, o)) /\ ~DownloadFails(u)
      BY <2>1, <2>2 DEF Lock, Redirected, DownloadFails, Statuses
    <3>5. ~\E t \in Types : Hit(u, t) \/ Miss(u, t) \/ Download(u, t)
      BY <2>1 DEF Hit, Miss, Download
    <3>6. ~CreateTemp(u) /\ ~Write(u) /\ ~WriteFails(u) /\ ~Rename(u) /\ ~RenameFails(u)
      BY <2>1, <2>2 DEF CreateTemp, Write, WriteFails, Rename, RenameFails, Statuses
    <3>7. ~List(u) /\ ~(\E e \in Entries : Clean(u, e)) /\ ~Stat(u) /\ ~NotModified(u)
      BY <2>1, <2>2 DEF List, Clean, Stat, NotModified, Statuses
    <3>q. QED
      BY <3>2, <3>3, <3>4, <3>5, <3>6, <3>7 DEF Serving, Advance
  <2>4. /\ pc[u] = "serve" /\ Present(Target(u))
        /\ Reply(u, [status |-> "ok", type |-> found[u], image |-> dir[Target(u)]])
    BY <2>2, <2>3 DEF ServeFile, Statuses, Present
  <2>5. answer'[u] = [status |-> "ok", type |-> found[u], image |-> dir[Target(u)]] /\ u = w
    BY <2>0, <2>4, ReplyFrame, StatusTyped DEF Statuses
  <2>6. ImageOf(dir[Target(w)], ver[w], found[w])
    BY <2>4, <2>5, Known DEF BaseInv, FilesOwn, Target
  <2>7. dir[Target(w)] = [of |-> ver[w], type |-> found[w], stale |-> dir[Target(w)].stale]
        /\ dir[Target(w)].stale \in BOOLEAN
    BY <2>6 DEF ImageOf, Image
  <2>q. QED
    BY <2>5, <2>7
<1>q. QED
  BY <1>1, AvatarInvariant, PTL DEF Spec, ServedIsOwn
=============================================================================
