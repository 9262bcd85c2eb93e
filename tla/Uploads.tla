------------------------------- MODULE Uploads -------------------------------
(***************************************************************************)
(* Resumable uploads: the tabs of a dashboard send a file to the scheduler  *)
(* in parts, in any order and several at a time, and have it stored as a    *)
(* resource.  The scheduler keeps each session in two files, a record and   *)
(* the data, and has no transaction over them and the store of resources:   *)
(* it may crash between any two writes of a request.  Requests are handled  *)
(* one at a time, but a tab may have given one up before it is handled.     *)
(***************************************************************************)
EXTENDS Integers, Sequences, FiniteSets, SequencesExt

CONSTANTS
  Tabs,          \* the tabs that upload the file; they share a browser's storage
  Hashes,        \* those that declare the file's hash
  Size,          \* of the file, in bytes
  ChunkSize,     \* of a part; the last one may be shorter
  Providers,     \* where resources may be stored: "local" files or the "db"
  MaxUploads,    \* bound: sessions
  MaxResources,  \* bound: resources
  Faults,        \* the kinds of fault a behaviour may have
  MaxFaults      \* bound: their number

FaultKinds == {"crash", "give_up", "corrupt", "delete", "expire"}

ASSUME UploadsAssumption ==
  /\ Hashes \subseteq Tabs /\ Size \in Nat \ {0} /\ ChunkSize \in Nat \ {0}
  /\ Providers \subseteq {"local", "db"}
  /\ MaxUploads \in Nat /\ MaxResources \in Nat
  /\ Faults \subseteq FaultKinds /\ MaxFaults \in Nat

NParts == (Size + ChunkSize - 1) \div ChunkSize
Parts == 0..(NParts - 1)
Uploads == 1..MaxUploads
Resources == 1..MaxResources
None == 0

VARIABLES
  disk,    \* what survives a crash: session records, their data, the resources
           \* and which provider stores them
  tab,     \* what each tab is doing
  cache,   \* the session each tab remembers for the file, if it has looked it up
  stored,  \* the session the browser's storage remembers for the file
  late,    \* requests given up by their tabs that may still be handled, or never
  due,     \* a session whose time is up and whose removal a crash cut short
  vain,    \* sessions that could not be completed though nothing was missing
  deleted, \* history: resources a user has deleted
  faults   \* faults so far

vars == <<disk, tab, cache, stored, late, due, vain, deleted, faults>>

Fault(kind) ==
  /\ kind \in Faults /\ faults < MaxFaults
  /\ faults' = faults + 1

-----------------------------------------------------------------------------
(* The files of the upload store.  A record is rewritten in place, so that a *)
(* crash may leave it torn.                                                  *)

Absent == [p \in Parts |-> "absent"]    \* no data file
Empty == [p \in Parts |-> "hole"]

Record(status, done, res, hash) ==
  [status |-> status, done |-> done, res |-> res, hash |-> hash]

NoRecord == Record("none", {}, None, FALSE)

WithMeta(d, u, record) == [d EXCEPT !.meta[u] = record]
WithData(d, u, bytes) == [d EXCEPT !.data[u] = bytes]

\* The states the disk goes through when a record is written.
MetaWrites(d, u, record) ==
  <<WithMeta(d, u, [d.meta[u] EXCEPT !.status = "torn"]), WithMeta(d, u, record)>>

CleanupMetaFirst(d, u) ==   \* mutant: the record goes before the data
  LET unlisted == WithMeta(d, u, Record("gone", {}, None, FALSE))
  IN  <<unlisted, WithData(unlisted, u, Absent)>>

CleanupFiles(d, u) ==
  LET dropped == WithData(d, u, Absent)
  IN  <<dropped, WithMeta(dropped, u, Record("gone", {}, None, FALSE))>>

Readable(d, u) == d.meta[u].status \in {"pending", "completed", "aborted"}

\* The bytes a set of parts amounts to.
ExpectedPartSize(p) ==
  LET remaining == Size - ChunkSize * (NParts - 1)
  IN  IF p < NParts - 1 \/ remaining <= 0 THEN ChunkSize ELSE remaining

UploadedBytes(done) ==
  LET last == NParts - 1
      excess == IF last \in done THEN ChunkSize - ExpectedPartSize(last) ELSE 0
      bytes == Cardinality(done) * ChunkSize - excess
  IN  IF bytes > Size THEN Size ELSE bytes

IsComplete(record) ==
  UploadedBytes(record.done) >= Size /\ Cardinality(record.done) >= NParts

-----------------------------------------------------------------------------
(* The store of resources.  A local resource is a file and a row, written    *)
(* one after the other; one in the database is written in one commit.        *)

Visible(d, r) == d.row[r] /\ d.file[r] # Absent

NewResource(d) == CHOOSE r \in Resources : d.of[r] = None

HasRoom(d) == \E r \in Resources : d.of[r] = None

SaveFileCopies(d, u) ==   \* mutant: the data file is copied
  LET r == NewResource(d)
      copied == [d EXCEPT !.file[r] = d.data[u], !.of[r] = u]
  IN  <<copied, [copied EXCEPT !.row[r] = TRUE]>>

SaveFile(d, u) ==
  LET r == NewResource(d)
      moved == [d EXCEPT !.file[r] = d.data[u], !.of[r] = u, !.data[u] = Absent]
      committed == [d EXCEPT !.file[r] = d.data[u], !.of[r] = u, !.row[r] = TRUE]
  IN  IF d.provider = "local" THEN <<moved, [moved EXCEPT !.row[r] = TRUE]>>
      ELSE <<committed, WithData(committed, u, Absent)>>

DeleteResource(d, r) ==
  LET unlinked == [d EXCEPT !.file[r] = Absent]
  IN  IF d.provider = "local" THEN <<unlinked, [unlinked EXCEPT !.row[r] = FALSE]>>
      ELSE <<[unlinked EXCEPT !.row[r] = FALSE]>>

Good(bytes) == \A p \in Parts : bytes[p] = "good"

\* A row with the file's hash: one the provider finds is looked at alone, and
\* passed over if its file is missing.
FindBySha256(d) ==
  {r \in Resources : d.row[r] /\ d.file[r] # Absent /\ Good(d.file[r])}

-----------------------------------------------------------------------------
(* The requests: the states the disk goes through while one is handled, none *)
(* if it is refused or changes nothing.                                      *)

Fresh == CHOOSE u \in Uploads : disk.meta[u].status = "none"
                                /\ \A v \in 1..(u - 1) : disk.meta[v].status # "none"

CreateWrites(hash) ==
  LET written == MetaWrites(disk, Fresh, Record("pending", {}, None, hash))
  IN  Append(written, WithData(Last(written), Fresh, Empty))

\* The file is there already: the session is created and completed at once.
DedupWrites(r) ==
  LET created == CreateWrites(TRUE)
      closed == MetaWrites(Last(created), Fresh, Record("completed", Parts, r, TRUE))
  IN  created \o closed \o <<WithData(Last(closed), Fresh, Absent)>>

PartWritesMetaFirst(u, p, chunk) ==   \* mutant: the part is recorded before it is written
  LET record == disk.meta[u]
      listed == MetaWrites(disk, u, [record EXCEPT !.done = @ \cup {p}])
      bytes == IF disk.data[u] = Absent THEN Empty ELSE disk.data[u]
  IN  IF record.status # "pending" \/ p \in record.done THEN <<>>
      ELSE Append(listed, WithData(Last(listed), u, [bytes EXCEPT ![p] = chunk]))

PartWritesNext(u, p, chunk) ==   \* mutant: off by one
  LET record == disk.meta[u]
      bytes == IF disk.data[u] = Absent THEN Empty ELSE disk.data[u]
      chunked == WithData(disk, u, [bytes EXCEPT ![p] = chunk])
  IN  IF record.status # "pending" \/ p \in record.done THEN <<>>
      ELSE <<chunked>> \o MetaWrites(chunked, u, [record EXCEPT !.done = @ \cup {p + 1}])

PartWrites(u, p, chunk) ==
  LET record == disk.meta[u]
      bytes == IF disk.data[u] = Absent THEN Empty ELSE disk.data[u]
      chunked == WithData(disk, u, [bytes EXCEPT ![p] = chunk])
  IN  IF record.status # "pending" \/ p \in record.done THEN <<>>
      ELSE <<chunked>> \o MetaWrites(chunked, u, [record EXCEPT !.done = @ \cup {p}])

AbortWrites(u) ==
  LET marked == MetaWrites(disk, u, [disk.meta[u] EXCEPT !.status = "aborted"])
  IN  IF Readable(disk, u) THEN marked \o CleanupFiles(Last(marked), u) ELSE <<>>

Completable(u) ==
  /\ disk.meta[u].status = "pending"
  /\ IsComplete(disk.meta[u]) /\ disk.data[u] # Absent

Mismatch(u) == disk.meta[u].hash /\ ~Good(disk.data[u])

CompleteWritesEarly(u) ==   \* mutant: the session is closed before the resource is stored
  LET closed == MetaWrites(disk, u,
        [disk.meta[u] EXCEPT !.status = "completed", !.res = NewResource(disk)])
  IN  IF ~Completable(u) THEN <<>>
      ELSE IF Mismatch(u) THEN SaveFile(disk, u) \o DeleteResource(Last(SaveFile(disk, u)), NewResource(disk))
      ELSE closed \o SaveFile(Last(closed), u)

CompleteWrites(u) ==
  LET saved == SaveFile(disk, u)
      r == NewResource(disk)
  IN  IF ~Completable(u) THEN <<>>
      ELSE IF Mismatch(u) THEN saved \o DeleteResource(Last(saved), r)
      ELSE saved \o MetaWrites(Last(saved), u,
                      [disk.meta[u] EXCEPT !.status = "completed", !.res = r])

Request(op, u, p, t) == [op |-> op, u |-> u, p |-> p, tab |-> t]

CanCreate == \E u \in Uploads : disk.meta[u].status = "none"

\* Whether the bounds leave room for what a request may make.
Within(request) ==
  /\ request.op = "create" => CanCreate
  /\ request.op = "complete" /\ Completable(request.u) => HasRoom(disk)

WritesOf(request, chunk) ==
  CASE request.op = "create" ->
         IF request.tab \in Hashes /\ FindBySha256(disk) # {}
         THEN {DedupWrites(r) : r \in FindBySha256(disk)}
         ELSE {CreateWrites(request.tab \in Hashes)}
    [] request.op = "part" -> {PartWrites(request.u, request.p, chunk)}
    [] request.op = "complete" -> {CompleteWrites(request.u)}
    [] request.op = "abort" -> {AbortWrites(request.u)}
    [] request.op = "get" -> {<<>>}

-----------------------------------------------------------------------------
(* The tabs.                                                                 *)

Idle == [phase |-> "idle", u |-> None, todo |-> {}, res |-> None]
Unread == -1

Busy == {"resume", "create", "parts", "complete"}

Init ==
  /\ \E provider \in Providers :
       disk = [meta |-> [u \in Uploads |-> NoRecord], data |-> [u \in Uploads |-> Absent],
               file |-> [r \in Resources |-> Absent], row |-> [r \in Resources |-> FALSE],
               of |-> [r \in Resources |-> None], provider |-> provider]
  /\ tab = [t \in Tabs |-> Idle]
  /\ cache = [t \in Tabs |-> Unread] /\ stored = None
  /\ late = {} /\ due = {} /\ vain = {} /\ deleted = {} /\ faults = 0

Remembers(t) == IF cache[t] = Unread THEN stored ELSE cache[t]

\* The user has the file uploaded, or tries again.
Start(t) ==
  /\ tab[t].phase = "idle"
  /\ cache' = [cache EXCEPT ![t] = Remembers(t)]
  /\ tab' = [tab EXCEPT ![t] =
               [Idle EXCEPT !.phase = IF Remembers(t) = None THEN "create" ELSE "resume",
                            !.u = Remembers(t)]]
  /\ UNCHANGED <<disk, stored, late, due, vain, deleted, faults>>

Cached(t, u) ==
  /\ cache' = [cache EXCEPT ![t] = u]
  /\ stored' = u

Uploading(u, todo) ==
  [Idle EXCEPT !.phase = IF todo = {} THEN "complete" ELSE "parts", !.u = u, !.todo = todo]

\* The requests a tab is waiting for.
Waiting(t) ==
  CASE tab[t].phase = "resume" -> {Request("get", tab[t].u, None, t)}
    [] tab[t].phase = "create" -> {Request("create", None, None, t)}
    [] tab[t].phase = "parts" -> {Request("part", tab[t].u, p, t) : p \in tab[t].todo}
    [] tab[t].phase = "complete" -> {Request("complete", tab[t].u, None, t)}
    [] OTHER -> {}

\* What the answer to a request makes of the tab that waits for it; the disk is
\* then as after the request.
AnswerResume(t) ==
  /\ IF disk.meta[tab[t].u].status = "pending"
     THEN /\ tab' = [tab EXCEPT ![t] = Uploading(@.u, Parts \ disk.meta[@.u].done)]
          /\ Cached(t, tab[t].u)
     ELSE /\ tab' = [tab EXCEPT ![t] = [Idle EXCEPT !.phase = "create"]]
          /\ Cached(t, None)
  /\ UNCHANGED vain

AnswerCreate(t) ==
  /\ tab' = [tab EXCEPT ![t] = Uploading(Fresh, Parts \ disk'.meta[Fresh].done)]
  /\ Cached(t, Fresh)
  /\ UNCHANGED vain

Fails(t) ==
  /\ tab' = [tab EXCEPT ![t] = Idle]
  /\ UNCHANGED <<cache, stored>>

AnswerPart(t, p) ==
  IF disk.meta[tab[t].u].status = "pending"
  THEN /\ tab' = [tab EXCEPT ![t] = Uploading(@.u, @.todo \ {p})]
       /\ UNCHANGED <<cache, stored, vain>>
  ELSE Fails(t) /\ UNCHANGED vain

AnswerComplete(t) ==
  LET record == disk'.meta[tab[t].u]
  IN  IF record.status = "completed" /\ Visible(disk', record.res)
      THEN /\ tab' = [tab EXCEPT ![t] = [Idle EXCEPT !.phase = "done", !.res = record.res]]
           /\ Cached(t, None)
           /\ UNCHANGED vain
      ELSE Fails(t) /\ vain' = vain \cup {tab[t].u}

Answer(t, request) ==
  CASE request.op = "get" -> AnswerResume(t)
    [] request.op = "create" -> AnswerCreate(t)
    [] request.op = "part" -> AnswerPart(t, request.p)
    [] request.op = "complete" -> AnswerComplete(t)

-----------------------------------------------------------------------------
(* The scheduler.                                                            *)

DoneBy(writes) == IF writes = <<>> THEN disk ELSE Last(writes)

\* What a sweep was cut short of comes before anything else.
Swept == due = {}

\* A request is handled and answered.
Serve(t) ==
  /\ Swept
  /\ \E request \in Waiting(t) :
       /\ Within(request)
       /\ \E writes \in WritesOf(request, "good") : disk' = DoneBy(writes)
       /\ Answer(t, request)
  /\ UNCHANGED <<late, due, deleted, faults>>

\* A part arrives as something other than what the tab read from the file.
ServeCorrupt(t) ==
  /\ Swept /\ Fault("corrupt")
  /\ \E request \in Waiting(t) :
       /\ request.op = "part"
       /\ disk' = DoneBy(PartWrites(request.u, request.p, "bad"))
       /\ AnswerPart(t, request.p)
  /\ UNCHANGED <<late, due, deleted>>

\* A request its tab has given up is handled all the same.
ServeLate ==
  \E request \in late :
    /\ Swept
    /\ Within(request)
    /\ \E writes \in WritesOf(request, "good") : disk' = DoneBy(writes)
    /\ late' = late \ {request}
    /\ UNCHANGED <<tab, cache, stored, due, vain, deleted, faults>>

\* Nobody will change the session before its time is up: no tab remembers it, or
\* all of its parts are there and completing it fails.
Untouched(u) ==
  \/ u \in vain
  \/ u \notin {cache[t] : t \in Tabs} \cup {stored} \cup {tab[t].u : t \in Tabs}

ExpirableAborted(u) == disk.meta[u].status = "aborted"   \* mutant: others are kept

Expirable(u) == Readable(disk, u)

\* The scheduler crashes after some of the writes of a request; every tab that
\* waits for an answer gets an error, and nothing more of what was asked is done.
CrashIn(writes) ==
  /\ writes # <<>>
  /\ \E i \in 1..(Len(writes) - 1) : disk' = writes[i]

Interrupted(t) ==
  IF tab[t].phase = "resume" THEN [Idle EXCEPT !.phase = "create"]
  ELSE IF tab[t].phase \in Busy THEN Idle ELSE tab[t]

Crash ==
  /\ Fault("crash")
  /\ \/ \E request \in late \cup UNION {Waiting(t) : t \in Tabs} :
          /\ Swept /\ Within(request)
          /\ \E writes \in WritesOf(request, "good") : CrashIn(writes)
          /\ UNCHANGED due
     \/ \E u \in Uploads :
          /\ Swept /\ Expirable(u) /\ Untouched(u)
          /\ CrashIn(CleanupFiles(disk, u))
          /\ due' = {u}
  /\ tab' = [t \in Tabs |-> Interrupted(t)]
  /\ cache' = [t \in Tabs |-> IF tab[t].phase = "resume" THEN None ELSE cache[t]]
  /\ stored' = IF \E t \in Tabs : tab[t].phase = "resume" THEN None ELSE stored
  /\ late' = {}
  /\ UNCHANGED <<vain, deleted>>

\* A tab loses patience with its requests, or is closed and opened again.  A
\* session that cannot be looked up is forgotten, and a new one asked for.
GiveUp(t) ==
  /\ Fault("give_up")
  /\ tab[t].phase \in Busy
  /\ late' = late \cup Waiting(t)
  /\ \/ /\ tab[t].phase = "resume"
        /\ tab' = [tab EXCEPT ![t] = [Idle EXCEPT !.phase = "create"]] /\ Cached(t, None)
     \/ tab[t].phase # "resume" /\ Fails(t)
     \/ /\ tab' = [tab EXCEPT ![t] = Idle]
        /\ cache' = [cache EXCEPT ![t] = Unread] /\ UNCHANGED stored
  /\ UNCHANGED <<disk, due, vain, deleted>>

\* The user cancels the upload, for good.
Abort(t) ==
  /\ tab[t].phase \in {"parts", "complete"}
  /\ late' = late \cup Waiting(t) \cup {Request("abort", tab[t].u, None, t)}
  /\ tab' = [tab EXCEPT ![t] = [Idle EXCEPT !.phase = "cancelled"]]
  /\ Cached(t, None)
  /\ UNCHANGED <<disk, due, vain, deleted, faults>>

DeleteByUser(r) ==
  /\ Fault("delete")
  /\ Visible(disk, r)
  /\ disk' = Last(DeleteResource(disk, r))
  /\ deleted' = deleted \cup {r}
  /\ UNCHANGED <<tab, cache, stored, late, due, vain>>

\* The sweep at the head of every request removes the sessions whose time is up.
Expire(u) ==
  /\ Expirable(u) /\ due \subseteq {u}
  /\ IF Untouched(u) \/ u \in due THEN UNCHANGED faults ELSE Fault("expire")
  /\ disk' = Last(CleanupFiles(disk, u))
  /\ due' = {}
  /\ UNCHANGED <<tab, cache, stored, late, vain, deleted>>

-----------------------------------------------------------------------------
Next ==
  \/ \E t \in Tabs : Start(t) \/ Serve(t) \/ ServeCorrupt(t) \/ GiveUp(t) \/ Abort(t)
  \/ ServeLate \/ Crash
  \/ \E r \in Resources : DeleteByUser(r)
  \/ \E u \in Uploads : Expire(u)

Spec == Init /\ [][Next]_vars

\* Requests are handled; the user does not leave it at a failed upload; and the
\* time of a session nobody changes comes.
FairSpec ==
  /\ Spec
  /\ \A t \in Tabs : WF_vars(Start(t)) /\ WF_vars(Serve(t))
  /\ \A u \in Uploads : WF_vars(Expire(u))

-----------------------------------------------------------------------------
Chunks == {"absent", "hole", "good", "bad"}

TypeOK ==
  /\ \A u \in Uploads :
       /\ disk.meta[u].status \in {"none", "torn", "pending", "completed", "aborted", "gone"}
       /\ disk.meta[u].done \subseteq Parts /\ disk.meta[u].res \in Resources \cup {None}
       /\ \A p \in Parts : disk.data[u][p] \in Chunks
  /\ \A r \in Resources :
       /\ disk.row[r] \in BOOLEAN /\ disk.of[r] \in Uploads \cup {None}
       /\ disk.row[r] => disk.of[r] # None
  /\ \A t \in Tabs : /\ tab[t].phase \in Busy \cup {"idle", "done", "cancelled"}
                      /\ tab[t].phase \in Busy \ {"create"} => tab[t].u \in Uploads
                      /\ cache[t] \in Uploads \cup {None, Unread}
  /\ stored \in Uploads \cup {None} /\ due \subseteq Uploads /\ faults \in 0..MaxFaults

Holds(r, checked) ==
  r \in deleted \/ /\ Visible(disk, r)
                   /\ \A p \in Parts : disk.file[r][p] \in {"good"} \cup IF checked THEN {} ELSE {"bad"}

\* What a session that has ended, or a tab that was answered, points to is the
\* file as it was uploaded: stored, without a hole, and with the declared hash --
\* unless a user deleted it since.  No crash, repeated or overtaken request, and
\* no second tab changes that (complete_resource_upload, UploadSessionStore).
CompletedIsStored ==
  /\ \A u \in Uploads : disk.meta[u].status = "completed" =>
       Holds(disk.meta[u].res, disk.meta[u].hash)
  /\ \A t \in Tabs : tab[t].phase = "done" => Holds(tab[t].res, FALSE)

\* A part a session counts as received is in its data as long as there is any:
\* a resumed upload leaves out exactly the parts it need not send (write_part).
ReceivedIsWritten ==
  \A u \in Uploads : disk.meta[u].status = "pending" /\ disk.data[u] # Absent =>
    \A p \in disk.meta[u].done : disk.data[u][p] # "hole"

\* What the record of a session promises is on the disk: its parts while it is
\* pending, the whole file once it is completed (resources/uploads.py).
RecordsKeepTheirWord == CompletedIsStored /\ ReceivedIsWritten

\* No data file outlives its session's record, by which alone the sweep finds
\* it; only a crash in the middle of writing that record hides it
\* (_cleanup_files, _cleanup_expired).
DataIsSwept ==
  \A u \in Uploads : disk.data[u] # Absent =>
    disk.meta[u].status \in {"pending", "completed", "aborted", "torn"}

\* However often completing a session is asked for, by whom, and interrupted, its
\* data becomes one local resource at most: it is moved, not copied (save_file).
StoredOnce ==
  disk.provider = "local" =>
    \A r1, r2 \in Resources : disk.of[r1] = disk.of[r2] /\ disk.of[r1] # None => r1 = r2

\* Data is in one place: with a session that can be swept, or moved to the one
\* resource made of it.
DataHasAPlace == DataIsSwept /\ StoredOnce

\* Whoever goes on trying gets the file uploaded, whatever parts, answers or
\* sessions were lost to crashes on the way (resolveResumeSession, uploadResource).
Uploaded == \A t \in Tabs : <>(tab[t].phase \in {"done", "cancelled"})
=============================================================================
