--------------------------- MODULE Uploads_proofs ---------------------------
(***************************************************************************)
(* What the upload store promises is kept by every write, so that it does  *)
(* not matter where a crash cuts a request short: each state of the disk a  *)
(* request goes through satisfies the same invariant (DiskOK) as the state  *)
(* it started from.                                                         *)
(***************************************************************************)
EXTENDS Uploads, FiniteSetTheorems, SequenceTheorems, NaturalsInduction,
        WellFoundedInduction, TLAPS

-----------------------------------------------------------------------------
(* The invariant of the disk.  It depends on what users have deleted         *)
(* (gone), on the sessions whose removal a crash cut short (left) and on the *)
(* resources that tabs were promised (owed).                                 *)

Statuses == {"none", "torn", "pending", "completed", "aborted", "gone"}

RecordType == [status : Statuses, done : SUBSET Parts,
               res : Resources \cup {None}, hash : BOOLEAN]

Bytes == [Parts -> Chunks]

DiskType ==
  [meta : [Uploads -> RecordType], data : [Uploads -> Bytes],
   file : [Resources -> Bytes], row : [Resources -> BOOLEAN],
   of : [Resources -> Uploads \cup {None}], provider : {"local", "db"}]

\* A resource is there whole, unless a user deleted it.
Kept(d, gone, r, checked) ==
  r \in gone \/ /\ Visible(d, r)
                /\ \A p \in Parts : d.file[r][p] \in {"good"} \cup IF checked THEN {} ELSE {"bad"}

\* A session with a record and data: data is whole or away; only a session that
\* has all its parts, or none, or is being removed, is pending without data; and
\* once its data was moved to a local resource, it gets none any more.
SessionOK(d, gone, left, u, rec, bytes) ==
  /\ bytes # Absent =>
       /\ \A p \in Parts : bytes[p] # "absent"
       /\ rec.status \in {"pending", "completed", "aborted", "torn"}
  /\ rec.status = "pending" =>
       IF bytes = Absent THEN rec.done \in {{}, Parts} \/ u \in left
                         ELSE \A p \in rec.done : bytes[p] # "hole"
  /\ rec.status = "completed" => rec.res \in Resources /\ Kept(d, gone, rec.res, rec.hash)
  /\ d.provider = "local" /\ (\E r \in Resources : d.of[r] = u) =>
       /\ bytes = Absent /\ rec.status # "none"
       /\ rec.status = "pending" => rec.done = Parts

StoreOK(d, gone, owed) ==
  /\ \A r \in Resources : d.row[r] => d.of[r] # None
  /\ d.provider = "local" =>
       \A r1, r2 \in Resources : d.of[r1] = d.of[r2] /\ d.of[r1] # None => r1 = r2
  /\ \A r \in Resources : r \in owed => Kept(d, gone, r, FALSE)

DiskOK(d, gone, left, owed) ==
  /\ d \in DiskType
  /\ StoreOK(d, gone, owed)
  /\ \A u \in Uploads : SessionOK(d, gone, left, u, d.meta[u], d.data[u])

\* Sequences of writes are proved about as sequences over these.
Sound(gone, left, owed) == {d \in DiskType : DiskOK(d, gone, left, owed)}

-----------------------------------------------------------------------------
(* Numbers, parts and sequences.                                             *)

LEMMA LeastUpload ==
  ASSUME NEW T \in SUBSET Uploads, T # {}
  PROVE  \E n \in T : \A m \in 1..(n - 1) : m \notin T
<1> DEFINE Less == {ss \in Nat \X Nat : ss[1] < ss[2]}
<1>1. IsWellFoundedOn(Less, Nat)
  BY NatLessThanWellFounded DEF OpToRel
<1>2. \A m, n \in Nat : <<m, n>> \in Less <=> m < n
  OBVIOUS
<1> HIDE DEF Less
<1>3. T \in SUBSET Nat
  BY UploadsAssumption DEF Uploads
<1>4. PICK n \in T : \A m \in T : ~(<<m, n>> \in Less)
  BY <1>1, <1>3, WFMin
<1>5. ASSUME NEW m \in 1..(n - 1), m \in T
      PROVE  FALSE
  <2>1. m \in Nat /\ n \in Nat /\ m < n
    BY <1>3
  <2> QED
    BY <1>2, <1>4, <1>5, <2>1
<1> QED
  BY <1>5

LEMMA PartsProps ==
  /\ NParts \in Nat
  /\ IsFiniteSet(Parts) /\ Cardinality(Parts) = NParts
<1>1. Size + ChunkSize - 1 \in Nat /\ ChunkSize \in Nat \ {0}
  BY UploadsAssumption
<1>2. NParts \in Nat
  BY <1>1 DEF NParts
<1>3. IsFiniteSet(Parts) /\ Cardinality(Parts) = IF 0 > NParts - 1 THEN 0 ELSE (NParts - 1) - 0 + 1
  BY <1>2, FS_Interval DEF Parts
<1> QED
  BY <1>2, <1>3

\* A session counts as complete only with all of its parts.
LEMMA CompleteHasAll ==
  ASSUME NEW rec \in RecordType, IsComplete(rec)
  PROVE  rec.done = Parts
<1>1. rec.done \in SUBSET Parts /\ Cardinality(rec.done) >= NParts
  BY DEF RecordType, IsComplete
<1>2. Cardinality(rec.done) <= Cardinality(Parts) /\ Cardinality(rec.done) \in Nat
      /\ (Cardinality(Parts) = Cardinality(rec.done) => Parts = rec.done)
  BY <1>1, PartsProps, FS_Subset, FS_CardinalityType
<1> QED
  BY <1>1, <1>2, PartsProps

LEMMA Pair ==
  ASSUME NEW S, NEW a \in S, NEW b \in S
  PROVE  <<a, b>> \in Seq(S) /\ Last(<<a, b>>) = b /\ <<a, b>> # <<>>
BY DEF Last

LEMMA LastOfJoined ==
  ASSUME NEW S, NEW s \in Seq(S), NEW t \in Seq(S), t # <<>>
  PROVE  s \o t \in Seq(S) /\ s \o t # <<>> /\ Last(s \o t) = Last(t)
<1>1. Len(s) \in Nat /\ Len(t) \in Nat \ {0} /\ s \o t \in Seq(S) /\ Len(s \o t) = Len(s) + Len(t)
  BY EmptySeq, LenProperties, ConcatProperties
<1>2. (s \o t)[Len(s) + Len(t)] = t[Len(t)]
  BY <1>1, ConcatProperties
<1>3. s \o t # <<>>
  BY <1>1
<1> QED
  BY <1>1, <1>2, <1>3 DEF Last

LEMMA LastIsIn ==
  ASSUME NEW S, NEW s \in Seq(S), s # <<>>
  PROVE  Last(s) \in S
BY EmptySeq, LenProperties DEF Last

-----------------------------------------------------------------------------
(* Single writes.                                                            *)

LEMMA AbsentIsBytes == Absent \in Bytes /\ Empty \in Bytes
BY DEF Absent, Empty, Bytes, Chunks

\* What a session needs of the disk is only the resources.
LEMMA SameResources ==
  ASSUME NEW d, NEW e, NEW gone, NEW left, NEW owed,
         e.file = d.file, e.row = d.row, e.of = d.of, e.provider = d.provider
  PROVE  /\ \A r, c : Kept(e, gone, r, c) <=> Kept(d, gone, r, c)
         /\ \A u, rec, bytes : SessionOK(e, gone, left, u, rec, bytes)
                                 <=> SessionOK(d, gone, left, u, rec, bytes)
         /\ StoreOK(e, gone, owed) <=> StoreOK(d, gone, owed)
<1>1. \A r, c : Kept(e, gone, r, c) <=> Kept(d, gone, r, c)
  BY DEF Kept, Visible
<1> QED
  BY <1>1 DEF SessionOK, StoreOK

LEMMA MetaKeeps ==
  ASSUME NEW gone, NEW left, NEW owed, NEW d \in Sound(gone, left, owed),
         NEW u \in Uploads, NEW rec \in RecordType,
         SessionOK(d, gone, left, u, rec, d.data[u])
  PROVE  /\ WithMeta(d, u, rec) \in Sound(gone, left, owed)
         /\ WithMeta(d, u, rec).meta[u] = rec
         /\ WithMeta(d, u, rec).data = d.data
<1> DEFINE e == WithMeta(d, u, rec)
<1>1. d \in DiskType /\ DiskOK(d, gone, left, owed)
  BY DEF Sound
<1>2. e \in DiskType /\ e.meta = [d.meta EXCEPT ![u] = rec] /\ e.data = d.data
      /\ e.file = d.file /\ e.row = d.row /\ e.of = d.of /\ e.provider = d.provider
  BY <1>1 DEF WithMeta, DiskType
<1>3. e.meta[u] = rec /\ \A v \in Uploads : v # u => e.meta[v] = d.meta[v]
  BY <1>1, <1>2 DEF DiskType
<1> HIDE DEF e
<1>4. \A v \in Uploads : SessionOK(d, gone, left, v, e.meta[v], e.data[v])
  BY <1>1, <1>2, <1>3 DEF DiskOK
<1>5. DiskOK(e, gone, left, owed)
  BY <1>1, <1>2, <1>4, SameResources DEF DiskOK
<1>6. e \in Sound(gone, left, owed)
  BY <1>2, <1>5 DEF Sound
<1> QED
  BY <1>2, <1>3, <1>6 DEF e

LEMMA DataKeeps ==
  ASSUME NEW gone, NEW left, NEW owed, NEW d \in Sound(gone, left, owed),
         NEW u \in Uploads, NEW bytes \in Bytes,
         SessionOK(d, gone, left, u, d.meta[u], bytes)
  PROVE  /\ WithData(d, u, bytes) \in Sound(gone, left, owed)
         /\ WithData(d, u, bytes).data[u] = bytes
         /\ WithData(d, u, bytes).meta = d.meta
<1> DEFINE e == WithData(d, u, bytes)
<1>1. d \in DiskType /\ DiskOK(d, gone, left, owed)
  BY DEF Sound
<1>2. e \in DiskType /\ e.data = [d.data EXCEPT ![u] = bytes] /\ e.meta = d.meta
      /\ e.file = d.file /\ e.row = d.row /\ e.of = d.of /\ e.provider = d.provider
  BY <1>1 DEF WithData, DiskType
<1>3. e.data[u] = bytes /\ \A v \in Uploads : v # u => e.data[v] = d.data[v]
  BY <1>1, <1>2 DEF DiskType
<1> HIDE DEF e
<1>4. \A v \in Uploads : SessionOK(d, gone, left, v, e.meta[v], e.data[v])
  BY <1>1, <1>2, <1>3 DEF DiskOK
<1>5. DiskOK(e, gone, left, owed)
  BY <1>1, <1>2, <1>4, SameResources DEF DiskOK
<1>6. e \in Sound(gone, left, owed)
  BY <1>2, <1>5 DEF Sound
<1> QED
  BY <1>2, <1>3, <1>6 DEF e

\* Writing a record may leave it torn, which promises nothing.
LEMMA MetaWritesKeep ==
  ASSUME NEW gone, NEW left, NEW owed, NEW d \in Sound(gone, left, owed),
         NEW u \in Uploads, NEW rec \in RecordType,
         SessionOK(d, gone, left, u, rec, d.data[u])
  PROVE  /\ MetaWrites(d, u, rec) \in Seq(Sound(gone, left, owed))
         /\ MetaWrites(d, u, rec) # <<>>
         /\ Last(MetaWrites(d, u, rec)) = WithMeta(d, u, rec)
<1> DEFINE torn == [d.meta[u] EXCEPT !.status = "torn"]
<1>1. d \in DiskType /\ DiskOK(d, gone, left, owed)
  BY DEF Sound
<1>2. d.meta[u] \in RecordType /\ SessionOK(d, gone, left, u, d.meta[u], d.data[u])
  BY <1>1 DEF DiskOK, DiskType
<1>3. torn \in RecordType /\ torn.status = "torn"
  BY <1>2 DEF RecordType, Statuses
<1> HIDE DEF torn
<1>4. SessionOK(d, gone, left, u, torn, d.data[u])
  BY <1>2, <1>3 DEF SessionOK
<1>5. WithMeta(d, u, torn) \in Sound(gone, left, owed) /\ WithMeta(d, u, rec) \in Sound(gone, left, owed)
  BY <1>3, <1>4, MetaKeeps
<1>6. MetaWrites(d, u, rec) = <<WithMeta(d, u, torn), WithMeta(d, u, rec)>>
  BY DEF MetaWrites, torn
<1> QED
  BY <1>5, <1>6, Pair

\* A session is removed data first.
LEMMA CleanupKeeps ==
  ASSUME NEW gone, NEW left, NEW owed, NEW d \in Sound(gone, left, owed),
         NEW u \in Uploads, Readable(d, u),
         u \in left \/ d.meta[u].status # "pending"
  PROVE  /\ CleanupFiles(d, u) \in Seq(Sound(gone, left, owed))
         /\ CleanupFiles(d, u) # <<>>
         /\ Last(CleanupFiles(d, u)) = CleanupFiles(d, u)[2]
<1> DEFINE dropped == WithData(d, u, Absent)
           rec == Record("gone", {}, None, FALSE)
           ended == WithMeta(dropped, u, rec)
<1>1. d \in DiskType /\ DiskOK(d, gone, left, owed)
  BY DEF Sound
<1>2. SessionOK(d, gone, left, u, d.meta[u], d.data[u])
  BY <1>1 DEF DiskOK
<1>3. SessionOK(d, gone, left, u, d.meta[u], Absent)
  BY <1>2 DEF SessionOK, Readable
<1>4. dropped \in Sound(gone, left, owed) /\ dropped.data[u] = Absent
  BY <1>3, DataKeeps, AbsentIsBytes
<1>5. rec \in RecordType /\ rec.status = "gone"
  BY DEF Record, RecordType, Statuses, None
<1>6. \A x \in Sound(gone, left, owed) : SessionOK(x, gone, left, u, rec, Absent)
  BY <1>5 DEF SessionOK
<1> HIDE DEF dropped, rec
<1>7. ended \in Sound(gone, left, owed)
  BY <1>4, <1>5, <1>6, MetaKeeps
<1>8. CleanupFiles(d, u) = <<dropped, ended>>
  BY DEF CleanupFiles, dropped, rec
<1> HIDE DEF ended
<1> QED
  BY <1>4, <1>7, <1>8, Pair

-----------------------------------------------------------------------------
(* The requests: every state of the disk on the way is sound.                *)

LEMMA FreshUpload ==
  ASSUME CanCreate
  PROVE  Fresh \in Uploads /\ disk.meta[Fresh].status = "none"
<1> DEFINE T == {u \in Uploads : disk.meta[u].status = "none"}
<1>1. T \in SUBSET Uploads /\ T # {}
  BY DEF CanCreate
<1>2. PICK n \in T : \A m \in 1..(n - 1) : m \notin T
  BY <1>1, LeastUpload
<1>3. \A m \in 1..(n - 1) : m \in Uploads
  BY <1>1, UploadsAssumption DEF Uploads
<1>4. n \in Uploads /\ disk.meta[n].status = "none"
      /\ \A v \in 1..(n - 1) : disk.meta[v].status # "none"
  BY <1>2, <1>3
<1> QED
  BY <1>4 DEF Fresh

LEMMA CreateSound ==
  ASSUME NEW gone, NEW owed, disk \in Sound(gone, {}, owed), CanCreate,
         NEW hash \in BOOLEAN
  PROVE  /\ CreateWrites(hash) \in Seq(Sound(gone, {}, owed))
         /\ CreateWrites(hash) # <<>>
         /\ Last(CreateWrites(hash)).meta[Fresh] = Record("pending", {}, None, hash)
         /\ Last(CreateWrites(hash)).data[Fresh] = Empty
         /\ Last(CreateWrites(hash)) =
              WithData(WithMeta(disk, Fresh, Record("pending", {}, None, hash)), Fresh, Empty)
<1> DEFINE S == Sound(gone, {}, owed)
           rec == Record("pending", {}, None, hash)
           listed == WithMeta(disk, Fresh, rec)
           written == MetaWrites(disk, Fresh, rec)
           made == WithData(listed, Fresh, Empty)
<1>1. Fresh \in Uploads /\ disk.meta[Fresh].status = "none"
  BY FreshUpload
<1>2. disk \in DiskType /\ SessionOK(disk, gone, {}, Fresh, disk.meta[Fresh], disk.data[Fresh])
  BY <1>1 DEF Sound, DiskOK
<1>3. disk.data[Fresh] = Absent /\ ~(disk.provider = "local" /\ \E r \in Resources : disk.of[r] = Fresh)
  BY <1>1, <1>2 DEF SessionOK
<1>4. rec \in RecordType /\ rec.status = "pending" /\ rec.done = {}
  BY DEF Record, RecordType, Statuses, None
<1>5. SessionOK(disk, gone, {}, Fresh, rec, disk.data[Fresh])
  BY <1>3, <1>4 DEF SessionOK
<1>6. listed \in S /\ listed.meta[Fresh] = rec
  BY <1>1, <1>4, <1>5, MetaKeeps
<1>7. written \in Seq(S) /\ written # <<>> /\ Last(written) = listed
  BY <1>1, <1>4, <1>5, MetaWritesKeep
<1>8. listed.of = disk.of /\ listed.provider = disk.provider /\ listed \in DiskType
  BY <1>2, <1>6 DEF WithMeta, Sound, DiskType
<1>9. SessionOK(listed, gone, {}, Fresh, listed.meta[Fresh], Empty)
  BY <1>3, <1>4, <1>6, <1>8 DEF SessionOK, Empty
<1>10. made \in S /\ made.data[Fresh] = Empty /\ made.meta = listed.meta
  BY <1>1, <1>6, <1>9, DataKeeps, AbsentIsBytes
<1>11. CreateWrites(hash) = Append(written, made)
  BY <1>7 DEF CreateWrites
<1> HIDE DEF made, written, listed, rec, S
<1>12. /\ Append(written, made) \in Seq(S) /\ Append(written, made) # <<>>
       /\ Last(Append(written, made)) = made
  BY <1>7, <1>10 DEF Last
<1> QED
  BY <1>6, <1>10, <1>11, <1>12 DEF S, rec, listed, made

LEMMA DedupSound ==
  ASSUME NEW gone, NEW owed, disk \in Sound(gone, {}, owed), CanCreate,
         NEW r \in FindBySha256(disk)
  PROVE  /\ DedupWrites(r) \in Seq(Sound(gone, {}, owed))
         /\ DedupWrites(r) # <<>>
         /\ Last(DedupWrites(r)).meta[Fresh] = Record("completed", Parts, r, TRUE)
<1> DEFINE S == Sound(gone, {}, owed)
           created == CreateWrites(TRUE)
           open == Last(created)
           rec == Record("completed", Parts, r, TRUE)
           closed == MetaWrites(open, Fresh, rec)
           ended == WithMeta(open, Fresh, rec)
           bare == WithData(ended, Fresh, Absent)
<1>1. Fresh \in Uploads
  BY FreshUpload
<1>2. created \in Seq(S) /\ created # <<>> /\ open.meta[Fresh] = Record("pending", {}, None, TRUE)
      /\ open.data[Fresh] = Empty
  BY CreateSound
<1>3. open \in S
  BY <1>2, LastIsIn
<1>4. open.file = disk.file /\ open.row = disk.row /\ open.of = disk.of /\ open.provider = disk.provider
  <2>1. open = WithData(WithMeta(disk, Fresh, Record("pending", {}, None, TRUE)), Fresh, Empty)
    BY CreateSound
  <2>2. disk \in DiskType
    BY DEF Sound
  <2> QED
    BY <2>1, <2>2 DEF WithData, WithMeta, DiskType
<1>5. r \in Resources /\ Kept(disk, gone, r, TRUE)
  BY DEF FindBySha256, Kept, Visible, Good
<1>6. Kept(open, gone, r, TRUE)
  BY <1>4, <1>5, SameResources
<1>7. rec \in RecordType /\ rec.status = "completed" /\ rec.res = r /\ rec.hash = TRUE
  BY <1>5 DEF Record, RecordType, Statuses, None
<1>8. SessionOK(open, gone, {}, Fresh, open.meta[Fresh], open.data[Fresh])
  BY <1>1, <1>3 DEF Sound, DiskOK
<1>9. SessionOK(open, gone, {}, Fresh, rec, open.data[Fresh])
  BY <1>5, <1>6, <1>7, <1>8, <1>2 DEF SessionOK, Record
<1> HIDE DEF open, rec
<1>10. closed \in Seq(S) /\ closed # <<>> /\ Last(closed) = ended /\ ended \in S /\ ended.meta[Fresh] = rec
  BY <1>1, <1>3, <1>7, <1>9, MetaWritesKeep, MetaKeeps
<1>11. SessionOK(ended, gone, {}, Fresh, ended.meta[Fresh], ended.data[Fresh])
  BY <1>1, <1>10 DEF Sound, DiskOK
<1>12. SessionOK(ended, gone, {}, Fresh, ended.meta[Fresh], Absent)
  BY <1>7, <1>10, <1>11 DEF SessionOK
<1>13. bare \in S /\ bare.meta = ended.meta
  BY <1>1, <1>10, <1>12, DataKeeps, AbsentIsBytes
<1>14. DedupWrites(r) = (created \o closed) \o <<bare>>
  BY <1>10 DEF DedupWrites, open, rec
<1> HIDE DEF created, closed, ended, bare, S
<1>15. created \o closed \in Seq(S) /\ created \o closed # <<>>
  BY <1>2, <1>10, LastOfJoined
<1>16. <<bare>> \in Seq(S) /\ <<bare>> # <<>> /\ Last(<<bare>>) = bare
  BY <1>13 DEF Last
<1>17. /\ (created \o closed) \o <<bare>> \in Seq(S)
       /\ (created \o closed) \o <<bare>> # <<>>
       /\ Last((created \o closed) \o <<bare>>) = bare
  BY <1>15, <1>16, LastOfJoined
<1> QED
  BY <1>10, <1>13, <1>14, <1>17 DEF S, rec

LEMMA PartSound ==
  ASSUME NEW gone, NEW owed, disk \in Sound(gone, {}, owed),
         NEW u \in Uploads, NEW p \in Parts, NEW chunk \in {"good", "bad"}
  PROVE  PartWrites(u, p, chunk) \in Seq(Sound(gone, {}, owed))
<1> DEFINE S == Sound(gone, {}, owed)
           record == disk.meta[u]
           bytes == IF disk.data[u] = Absent THEN Empty ELSE disk.data[u]
           filled == [bytes EXCEPT ![p] = chunk]
           chunked == WithData(disk, u, filled)
           rec == [record EXCEPT !.done = @ \cup {p}]
<1>1. disk \in DiskType /\ SessionOK(disk, gone, {}, u, record, disk.data[u])
      /\ record \in RecordType /\ disk.data[u] \in Bytes
  BY DEF Sound, DiskOK, DiskType
<1>2. CASE record.status # "pending" \/ p \in record.done
  <2>1. PartWrites(u, p, chunk) = <<>>
    BY <1>2 DEF PartWrites
  <2> QED
    BY <2>1
<1>3. CASE record.status = "pending" /\ p \notin record.done
  <2>1. bytes \in Bytes /\ \A q \in Parts : bytes[q] # "absent"
    BY <1>1, AbsentIsBytes DEF SessionOK, Empty
  <2>2. filled \in Bytes /\ filled[p] = chunk /\ \A q \in Parts : q # p => filled[q] = bytes[q]
    BY <2>1 DEF Bytes, Chunks
  <2>3. filled # Absent /\ \A q \in Parts : filled[q] # "absent"
    BY <2>1, <2>2 DEF Absent
  <2>4. \A q \in record.done : q \in Parts /\ bytes[q] # "hole"
    BY <1>1, <1>3 DEF SessionOK, RecordType
  <2>5. ~(disk.provider = "local" /\ \E r \in Resources : disk.of[r] = u)
    BY <1>1, <1>3 DEF SessionOK
  <2>6. rec \in RecordType /\ rec.status = "pending" /\ rec.done = record.done \cup {p}
    BY <1>1, <1>3 DEF RecordType
  <2> HIDE DEF filled, rec
  <2>7. SessionOK(disk, gone, {}, u, record, filled) /\ SessionOK(disk, gone, {}, u, rec, filled)
    BY <1>3, <2>2, <2>3, <2>4, <2>5, <2>6 DEF SessionOK
  <2>8. chunked \in S /\ chunked.data[u] = filled
    BY <2>2, <2>7, DataKeeps
  <2>9. chunked.file = disk.file /\ chunked.row = disk.row /\ chunked.of = disk.of
        /\ chunked.provider = disk.provider
    BY <1>1 DEF WithData, DiskType
  <2> HIDE DEF chunked
  <2>10. SessionOK(chunked, gone, {}, u, rec, chunked.data[u])
    BY <2>7, <2>8, <2>9, SameResources
  <2>11. MetaWrites(chunked, u, rec) \in Seq(S)
    BY <2>6, <2>8, <2>10, MetaWritesKeep
  <2>12. <<chunked>> \in Seq(S)
    BY <2>8
  <2>13. PartWrites(u, p, chunk) = <<chunked>> \o MetaWrites(chunked, u, rec)
    BY <1>3 DEF PartWrites, chunked, filled, rec
  <2> HIDE DEF S
  <2>14. <<chunked>> \o MetaWrites(chunked, u, rec) \in Seq(S)
    BY <2>11, <2>12, ConcatProperties
  <2> QED
    BY <2>13, <2>14 DEF S
<1> QED
  BY <1>2, <1>3

LEMMA AbortSound ==
  ASSUME NEW gone, NEW owed, disk \in Sound(gone, {}, owed), NEW u \in Uploads
  PROVE  AbortWrites(u) \in Seq(Sound(gone, {}, owed))
<1> DEFINE S == Sound(gone, {}, owed)
           rec == [disk.meta[u] EXCEPT !.status = "aborted"]
           marked == MetaWrites(disk, u, rec)
           void == WithMeta(disk, u, rec)
<1>1. SessionOK(disk, gone, {}, u, disk.meta[u], disk.data[u]) /\ disk.meta[u] \in RecordType
  BY DEF Sound, DiskOK, DiskType
<1>2. rec \in RecordType /\ rec.status = "aborted"
  BY <1>1 DEF RecordType, Statuses
<1> HIDE DEF rec
<1>3. SessionOK(disk, gone, {}, u, rec, disk.data[u])
  BY <1>1, <1>2 DEF SessionOK
<1>4. void \in S /\ void.meta[u] = rec /\ marked \in Seq(S) /\ Last(marked) = void
  BY <1>2, <1>3, MetaKeeps, MetaWritesKeep
<1>5. CleanupFiles(void, u) \in Seq(S)
  BY <1>2, <1>4, CleanupKeeps DEF Readable
<1>6. AbortWrites(u) = IF Readable(disk, u) THEN marked \o CleanupFiles(void, u) ELSE <<>>
  BY <1>4 DEF AbortWrites, rec
<1> HIDE DEF S, marked, void
<1>7. marked \o CleanupFiles(void, u) \in Seq(S)
  BY <1>4, <1>5, ConcatProperties
<1>8. <<>> \in Seq(S)
  OBVIOUS
<1> QED
  BY <1>6, <1>7, <1>8 DEF S

\* A row and a file of a session's data appear, and the data is left or taken.
Adds(d, e, u, r, row, bytes) ==
  /\ e \in DiskType /\ e.meta = d.meta /\ e.provider = d.provider
  /\ e.data = [d.data EXCEPT ![u] = bytes] /\ e.file = [d.file EXCEPT ![r] = d.data[u]]
  /\ e.of = [d.of EXCEPT ![r] = u] /\ e.row = [d.row EXCEPT ![r] = row]

\* A file goes, and perhaps its row.
Removes(d, e, r, row) ==
  /\ e \in DiskType /\ e.meta = d.meta /\ e.provider = d.provider
  /\ e.data = d.data /\ e.of = d.of
  /\ e.file = [d.file EXCEPT ![r] = Absent] /\ e.row = [d.row EXCEPT ![r] = row]

\* A resource that nothing refers to may become the file of a session that has
\* all its parts, if a local one takes the session's data away.
LEMMA ResourceKeeps ==
  ASSUME NEW gone, NEW left, NEW owed, NEW d \in Sound(gone, left, owed), NEW e,
         NEW u \in Uploads, NEW r \in Resources, NEW row \in BOOLEAN,
         NEW bytes \in {Absent, d.data[u]}, Adds(d, e, u, r, row, bytes),
         d.of[r] = None, d.meta[u].status = "pending", d.meta[u].done = Parts,
         d.data[u] # Absent, d.provider = "local" => bytes = Absent
  PROVE  e \in Sound(gone, left, owed)
<1>1. d \in DiskType /\ StoreOK(d, gone, owed) /\ d.row[r] = FALSE
      /\ \A v \in Uploads : SessionOK(d, gone, left, v, d.meta[v], d.data[v])
  BY DEF Sound, DiskOK, StoreOK, DiskType
<1>0. e \in DiskType /\ e.meta = d.meta /\ e.provider = d.provider
  BY DEF Adds
<1>2. /\ e.of[r] = u /\ e.row[r] = row
      /\ \A q \in Resources : q # r => e.of[q] = d.of[q] /\ e.row[q] = d.row[q] /\ e.file[q] = d.file[q]
      /\ e.data[u] = bytes /\ \A v \in Uploads : v # u => e.data[v] = d.data[v]
  BY <1>1 DEF DiskType, Adds
<1>3. \A q \in Resources, c \in BOOLEAN : Kept(d, gone, q, c) => Kept(e, gone, q, c)
  BY <1>1, <1>2 DEF Kept, Visible
<1>4. u # None
  BY UploadsAssumption DEF Uploads, None
<1>5. d.provider = "local" => \A q \in Resources : d.of[q] # u
  BY <1>1 DEF SessionOK
<1>6. StoreOK(e, gone, owed)
  <2>1. \A q \in Resources : e.row[q] => e.of[q] # None
    BY <1>1, <1>2, <1>4 DEF StoreOK
  <2>2. e.provider = "local" =>
          \A r1, r2 \in Resources : e.of[r1] = e.of[r2] /\ e.of[r1] # None => r1 = r2
    BY <1>0, <1>1, <1>2, <1>5 DEF StoreOK
  <2>3. \A q \in Resources : q \in owed => Kept(e, gone, q, FALSE)
    BY <1>1, <1>3 DEF StoreOK
  <2> QED
    BY <2>1, <2>2, <2>3 DEF StoreOK
<1>7. ASSUME NEW v \in Uploads, v # u
      PROVE  SessionOK(e, gone, left, v, e.meta[v], e.data[v])
  <2>1. SessionOK(d, gone, left, v, d.meta[v], d.data[v]) /\ d.meta[v].hash \in BOOLEAN
    BY <1>1 DEF DiskType, RecordType
  <2>2. \A q \in Resources : e.of[q] = v => d.of[q] = v
    BY <1>2, <1>7
  <2> QED
    BY <1>0, <1>2, <1>3, <1>7, <2>1, <2>2 DEF SessionOK
<1>8. SessionOK(e, gone, left, u, e.meta[u], e.data[u])
  <2>1. SessionOK(d, gone, left, u, d.meta[u], d.data[u])
    BY <1>1
  <2> QED
    BY <1>0, <1>2, <2>1 DEF SessionOK
<1> QED
  BY <1>0, <1>6, <1>7, <1>8 DEF Sound, DiskOK

\* One that nobody was promised may go.
LEMMA RemovalKeeps ==
  ASSUME NEW gone, NEW left, NEW owed, NEW d \in Sound(gone, left, owed), NEW e,
         NEW r \in Resources, NEW row \in BOOLEAN, row => d.row[r],
         Removes(d, e, r, row),
         r \in owed => r \in gone,
         \A v \in Uploads : d.meta[v].status = "completed" /\ d.meta[v].res = r => r \in gone
  PROVE  e \in Sound(gone, left, owed)
<1>1. d \in DiskType /\ StoreOK(d, gone, owed)
      /\ \A v \in Uploads : SessionOK(d, gone, left, v, d.meta[v], d.data[v])
  BY DEF Sound, DiskOK
<1>0. e \in DiskType /\ e.meta = d.meta /\ e.provider = d.provider /\ e.data = d.data /\ e.of = d.of
  BY DEF Removes
<1>2. /\ e.row[r] = row
      /\ \A q \in Resources : q # r => e.row[q] = d.row[q] /\ e.file[q] = d.file[q]
  BY <1>1 DEF DiskType, Removes
<1>3. \A q \in Resources, c \in BOOLEAN : 
        (q = r => r \in gone) /\ Kept(d, gone, q, c) => Kept(e, gone, q, c)
  BY <1>2 DEF Kept, Visible
<1>4. StoreOK(e, gone, owed)
  <2>1. \A q \in Resources : e.row[q] => e.of[q] # None
    BY <1>0, <1>1, <1>2 DEF StoreOK
  <2>2. e.provider = "local" =>
          \A r1, r2 \in Resources : e.of[r1] = e.of[r2] /\ e.of[r1] # None => r1 = r2
    BY <1>0, <1>1 DEF StoreOK
  <2>3. \A q \in Resources : q \in owed => Kept(e, gone, q, FALSE)
    BY <1>1, <1>3 DEF StoreOK
  <2> QED
    BY <2>1, <2>2, <2>3 DEF StoreOK
<1>5. ASSUME NEW v \in Uploads
      PROVE  SessionOK(e, gone, left, v, e.meta[v], e.data[v])
  <2>1. SessionOK(d, gone, left, v, d.meta[v], d.data[v]) /\ d.meta[v].hash \in BOOLEAN
    BY <1>1 DEF DiskType, RecordType
  <2> QED
    BY <1>0, <1>3, <2>1 DEF SessionOK
<1> QED
  BY <1>0, <1>4, <1>5 DEF Sound, DiskOK

LEMMA SaveFileSound ==
  ASSUME NEW gone, NEW owed, disk \in Sound(gone, {}, owed), NEW u \in Uploads,
         Completable(u), HasRoom(disk)
  PROVE  LET r == NewResource(disk)
             saved == SaveFile(disk, u)
             e == Last(saved)
         IN  /\ r \in Resources /\ disk.of[r] = None
             /\ saved \in Seq(Sound(gone, {}, owed)) /\ saved # <<>>
             /\ e \in Sound(gone, {}, owed)
             /\ e.meta = disk.meta /\ e.provider = disk.provider
             /\ e.row[r] = TRUE /\ e.file[r] = disk.data[u] /\ e.data[u] = Absent
<1> DEFINE r == NewResource(disk)
           S == Sound(gone, {}, owed)
           moved == [disk EXCEPT !.file[r] = disk.data[u], !.of[r] = u, !.data[u] = Absent]
           listed == [moved EXCEPT !.row[r] = TRUE]
           committed == [disk EXCEPT !.file[r] = disk.data[u], !.of[r] = u, !.row[r] = TRUE]
           taken == WithData(committed, u, Absent)
           saved == SaveFile(disk, u)
<1>1. r \in Resources /\ disk.of[r] = None
  BY DEF NewResource, HasRoom
<1> HIDE DEF r
<1>2. disk \in DiskType /\ disk.meta[u] \in RecordType /\ disk.data[u] # Absent
      /\ disk.meta[u].status = "pending" /\ disk.data[u] \in Bytes /\ disk.row[r] \in BOOLEAN
  BY <1>1 DEF Sound, DiskType, Completable
<1>3. disk.meta[u].done = Parts
  BY <1>2, CompleteHasAll DEF Completable
<1>4. CASE disk.provider = "local"
  <2>1. moved \in DiskType /\ listed \in DiskType
    BY <1>1, <1>2, AbsentIsBytes DEF DiskType
  <2>2. /\ moved.meta = disk.meta /\ moved.provider = disk.provider
        /\ moved.data = [disk.data EXCEPT ![u] = Absent] /\ moved.file = [disk.file EXCEPT ![r] = disk.data[u]]
        /\ moved.of = [disk.of EXCEPT ![r] = u] /\ moved.row = disk.row
        /\ listed.meta = moved.meta /\ listed.provider = moved.provider
        /\ listed.data = moved.data /\ listed.file = moved.file /\ listed.of = moved.of
        /\ listed.row = [disk.row EXCEPT ![r] = TRUE]
    BY <1>2 DEF DiskType
  <2> HIDE DEF moved, listed
  <2>3. disk.row = [disk.row EXCEPT ![r] = disk.row[r]]
    BY <1>2 DEF DiskType
  <2>4. Adds(disk, moved, u, r, disk.row[r], Absent) /\ Adds(disk, listed, u, r, TRUE, Absent)
    BY <2>1, <2>2, <2>3 DEF Adds
  <2>5. moved \in S /\ listed \in S
    BY <1>1, <1>2, <1>3, <2>4, ResourceKeeps
  <2>6. listed.row[r] = TRUE /\ listed.file[r] = disk.data[u] /\ listed.data[u] = Absent
    BY <1>1, <1>2, <2>2 DEF DiskType
  <2>7. SaveFile(disk, u) = <<moved, listed>>
    BY <1>4 DEF SaveFile, moved, listed, r
  <2> QED
    <3>1. saved = <<moved, listed>> /\ Last(saved) = listed /\ saved \in Seq(S) /\ saved # <<>>
      BY <2>5, <2>7, Pair
    <3> QED
      BY <1>1, <2>2, <2>5, <2>6, <3>1 DEF r
<1>5. CASE disk.provider # "local"
  <2>1. committed \in DiskType
    BY <1>1, <1>2 DEF DiskType
  <2>2. /\ committed.meta = disk.meta /\ committed.provider = disk.provider
        /\ committed.data = disk.data /\ committed.file = [disk.file EXCEPT ![r] = disk.data[u]]
        /\ committed.of = [disk.of EXCEPT ![r] = u] /\ committed.row = [disk.row EXCEPT ![r] = TRUE]
    BY <1>2 DEF DiskType
  <2> HIDE DEF committed
  <2>3. disk.data = [disk.data EXCEPT ![u] = disk.data[u]]
    BY <1>2 DEF DiskType
  <2>4. committed \in S
    <3>1. Adds(disk, committed, u, r, TRUE, disk.data[u])
      BY <2>1, <2>2, <2>3 DEF Adds
    <3> QED
      BY <1>1, <1>2, <1>3, <1>5, <3>1, ResourceKeeps
  <2>5. SessionOK(committed, gone, {}, u, committed.meta[u], Absent)
    BY <1>2, <1>3, <2>2 DEF SessionOK
  <2>6. taken \in S /\ taken.data[u] = Absent /\ taken.meta = committed.meta
    BY <2>4, <2>5, DataKeeps, AbsentIsBytes
  <2>7. taken.row = committed.row /\ taken.file = committed.file /\ taken.provider = committed.provider
    BY <2>1 DEF WithData, DiskType
  <2>8. taken.row[r] = TRUE /\ taken.file[r] = disk.data[u]
    BY <1>1, <1>2, <2>2, <2>7 DEF DiskType
  <2>9. SaveFile(disk, u) = <<committed, taken>>
    BY <1>5 DEF SaveFile, committed, r
  <2> HIDE DEF taken
  <2> QED
    <3>1. saved = <<committed, taken>> /\ Last(saved) = taken /\ saved \in Seq(S) /\ saved # <<>>
      BY <2>4, <2>6, <2>9, Pair
    <3> QED
      BY <1>1, <2>2, <2>6, <2>7, <2>8, <3>1 DEF r
<1> QED
  BY <1>4, <1>5

LEMMA CompleteSound ==
  ASSUME NEW gone, NEW owed, disk \in Sound(gone, {}, owed), NEW u \in Uploads,
         Completable(u) => HasRoom(disk)
  PROVE  CompleteWrites(u) \in Seq(Sound(gone, {}, owed))
<1> DEFINE S == Sound(gone, {}, owed)
           r == NewResource(disk)
           saved == SaveFile(disk, u)
           e == Last(saved)
<1>1. CASE ~Completable(u)
  BY <1>1 DEF CompleteWrites
<1>2. CASE Completable(u) /\ Mismatch(u)
  <2> DEFINE unlinked == [e EXCEPT !.file[r] = Absent]
             unlisted == [unlinked EXCEPT !.row[r] = FALSE]
  <2>1. /\ r \in Resources /\ disk.of[r] = None
        /\ saved \in Seq(S) /\ saved # <<>> /\ e \in S /\ e.meta = disk.meta
    BY <1>2, SaveFileSound
  <2>2. disk \in DiskType /\ e \in DiskType /\ StoreOK(disk, gone, owed) /\ ~disk.row[r]
    BY <2>1 DEF Sound, DiskOK, StoreOK, DiskType
  <2>3. r \in owed => r \in gone
    BY <2>1, <2>2 DEF StoreOK, Kept, Visible
  <2>4. \A v \in Uploads : disk.meta[v].status = "completed" /\ disk.meta[v].res = r => r \in gone
    <3>1. \A v \in Uploads : SessionOK(disk, gone, {}, v, disk.meta[v], disk.data[v])
      BY DEF Sound, DiskOK
    <3> QED
      BY <2>2, <3>1 DEF SessionOK, Kept, Visible
  <2> HIDE DEF e, r
  <2>5. unlinked \in DiskType /\ unlisted \in DiskType
    BY <2>1, <2>2, AbsentIsBytes DEF DiskType
  <2>6. /\ unlinked.meta = e.meta /\ unlinked.provider = e.provider /\ unlinked.data = e.data
        /\ unlinked.of = e.of /\ unlinked.file = [e.file EXCEPT ![r] = Absent] /\ unlinked.row = e.row
        /\ unlisted.meta = e.meta /\ unlisted.provider = e.provider /\ unlisted.data = e.data
        /\ unlisted.of = e.of /\ unlisted.file = [e.file EXCEPT ![r] = Absent]
        /\ unlisted.row = [e.row EXCEPT ![r] = FALSE]
        /\ e.row = [e.row EXCEPT ![r] = e.row[r]] /\ e.row[r] \in BOOLEAN
    BY <2>1, <2>2 DEF DiskType
  <2>7. DeleteResource(e, r) = IF e.provider = "local" THEN <<unlinked, unlisted>> ELSE <<unlisted>>
    BY DEF DeleteResource
  <2> HIDE DEF unlinked, unlisted
  <2>8. Removes(e, unlinked, r, e.row[r]) /\ Removes(e, unlisted, r, FALSE)
    BY <2>5, <2>6 DEF Removes
  <2>9. unlinked \in S /\ unlisted \in S
    <3>1. \A v \in Uploads : e.meta[v].status = "completed" /\ e.meta[v].res = r => r \in gone
      BY <2>1, <2>4
    <3>2. e \in Sound(gone, {}, owed) /\ e.row[r] \in BOOLEAN
      BY <2>1, <2>6
    <3>3. unlinked \in S
      BY <2>1, <2>3, <2>8, <3>1, <3>2, RemovalKeeps
    <3>4. unlisted \in S
      BY <2>1, <2>3, <2>8, <3>1, <3>2, RemovalKeeps
    <3> QED
      BY <3>3, <3>4
  <2>10. DeleteResource(e, r) \in Seq(S)
    <3> HIDE DEF S
    <3> QED
      BY <2>7, <2>9
  <2>11. CompleteWrites(u) = saved \o DeleteResource(e, r)
    BY <1>2 DEF CompleteWrites, e, r
  <2> HIDE DEF S, saved
  <2>12. saved \o DeleteResource(e, r) \in Seq(S)
    BY <2>1, <2>10, ConcatProperties
  <2> QED
    BY <2>11, <2>12 DEF S
<1>3. CASE Completable(u) /\ ~Mismatch(u)
  <2> DEFINE rec == [disk.meta[u] EXCEPT !.status = "completed", !.res = r]
  <2>1. /\ r \in Resources /\ disk.of[r] = None
        /\ saved \in Seq(S) /\ saved # <<>> /\ e \in S /\ e.meta = disk.meta
        /\ e.row[r] = TRUE /\ e.file[r] = disk.data[u] /\ e.data[u] = Absent
    BY <1>3, SaveFileSound
  <2>2. disk.meta[u] \in RecordType /\ disk.data[u] \in Bytes
        /\ SessionOK(disk, gone, {}, u, disk.meta[u], disk.data[u])
        /\ SessionOK(e, gone, {}, u, e.meta[u], e.data[u])
    BY <2>1 DEF Sound, DiskOK, DiskType
  <2>3. disk.meta[u].status = "pending" /\ disk.data[u] # Absent /\ disk.meta[u].done = Parts
    BY <1>3, <2>2, CompleteHasAll DEF Completable
  <2>4. rec \in RecordType /\ rec.status = "completed" /\ rec.res = r /\ rec.hash = disk.meta[u].hash
    BY <2>1, <2>2 DEF RecordType, Statuses
  <2>5. \A p \in Parts : disk.data[u][p] \in {"good", "bad"}
    BY <2>2, <2>3 DEF SessionOK, Bytes, Chunks
  <2>6. rec.hash => \A p \in Parts : disk.data[u][p] = "good"
    BY <1>3, <2>4 DEF Mismatch, Good
  <2> HIDE DEF rec, e, r
  <2>7. Kept(e, gone, rec.res, rec.hash)
    BY <2>1, <2>3, <2>4, <2>5, <2>6 DEF Kept, Visible
  <2>8. SessionOK(e, gone, {}, u, rec, e.data[u])
    BY <2>1, <2>2, <2>3, <2>4, <2>7 DEF SessionOK
  <2>9. MetaWrites(e, u, rec) \in Seq(S)
    BY <2>1, <2>4, <2>8, MetaWritesKeep
  <2>10. CompleteWrites(u) = saved \o MetaWrites(e, u, rec)
    BY <1>3 DEF CompleteWrites, e, r, rec
  <2> HIDE DEF S, saved
  <2>11. saved \o MetaWrites(e, u, rec) \in Seq(S)
    BY <2>1, <2>9, ConcatProperties
  <2> QED
    BY <2>10, <2>11 DEF S
<1> QED
  BY <1>1, <1>2, <1>3

-----------------------------------------------------------------------------
(* The invariant of the whole.                                               *)

TabType ==
  {x \in [phase : Busy \cup {"idle", "done", "cancelled"}, u : Uploads \cup {None},
          todo : SUBSET Parts, res : Resources \cup {None}] :
     /\ x.phase \in Busy \ {"create"} => x.u \in Uploads
     /\ x.phase = "done" => x.res \in Resources}

RequestOK(q) ==
  /\ q.op \in {"get", "create", "part", "complete", "abort"}
  /\ q.op = "part" => q.p \in Parts
  /\ q.op \in {"part", "complete", "abort"} => q.u \in Uploads

\* What tabs were told is uploaded.
OwedTo(tabs) == {tabs[t].res : t \in {s \in Tabs : tabs[s].phase = "done"}}

TabsOK ==
  /\ tab \in [Tabs -> TabType]
  /\ cache \in [Tabs -> Uploads \cup {None, Unread}]
  /\ stored \in Uploads \cup {None}
  /\ \A q \in late : RequestOK(q)
  /\ due \subseteq Uploads
  /\ faults \in 0..MaxFaults

UploadsInv == TabsOK /\ disk \in Sound(deleted, due, OwedTo(tab))

LEMMA UploadsInit == Init => UploadsInv
<1> SUFFICES ASSUME Init
             PROVE  UploadsInv
  OBVIOUS
<1>1. TabsOK
  <2>1. Idle \in TabType
    BY DEF Idle, TabType, Busy, None
  <2>2. 0 \in 0..MaxFaults
    BY UploadsAssumption
  <2> QED
    BY <2>1, <2>2 DEF Init, TabsOK, Unread, None
<1>2. OwedTo(tab) = {}
  BY DEF Init, OwedTo, Idle
<1>3. PICK provider \in Providers :
        disk = [meta |-> [u \in Uploads |-> NoRecord], data |-> [u \in Uploads |-> Absent],
                file |-> [r \in Resources |-> Absent], row |-> [r \in Resources |-> FALSE],
                of |-> [r \in Resources |-> None], provider |-> provider]
  BY DEF Init
<1>4. NoRecord \in RecordType /\ NoRecord.status = "none"
  BY DEF NoRecord, Record, RecordType, Statuses, None
<1>5. disk \in DiskType
  BY <1>3, <1>4, AbsentIsBytes, UploadsAssumption DEF DiskType
<1>6. StoreOK(disk, deleted, {})
  BY <1>3 DEF StoreOK
<1>7. \A u \in Uploads : u # None
  BY UploadsAssumption DEF Uploads, None
<1>8. \A u \in Uploads : SessionOK(disk, deleted, due, u, disk.meta[u], disk.data[u])
  BY <1>3, <1>4, <1>7 DEF SessionOK
<1> QED
  BY <1>1, <1>2, <1>5, <1>6, <1>8 DEF UploadsInv, Sound, DiskOK

\* What is promised may grow by what is kept.
Earned(more, owed, d, gone) ==
  \A r \in Resources : r \in more => r \in owed \/ Kept(d, gone, r, FALSE)

LEMMA OwedGrows ==
  ASSUME NEW gone, NEW left, NEW owed, NEW more, NEW d \in Sound(gone, left, owed),
         Earned(more, owed, d, gone)
  PROVE  d \in Sound(gone, left, more)
BY DEF Earned, Sound, DiskOK, StoreOK

LEMMA LeftGrows ==
  ASSUME NEW gone, NEW left, NEW more, NEW owed, NEW d \in Sound(gone, left, owed),
         left \subseteq more
  PROVE  d \in Sound(gone, more, owed)
BY DEF Sound, DiskOK, SessionOK

LEMMA TabSet ==
  ASSUME NEW tabs \in [Tabs -> TabType], NEW t \in Tabs, NEW x \in TabType
  PROVE  LET more == [tabs EXCEPT ![t] = x]
         IN  /\ more \in [Tabs -> TabType]
             /\ \A r \in OwedTo(more) : r \in OwedTo(tabs) \/ (x.phase = "done" /\ r = x.res)
BY DEF OwedTo

LEMMA WaitingOK ==
  ASSUME TabsOK, NEW t \in Tabs, NEW q \in Waiting(t)
  PROVE  /\ RequestOK(q) /\ q.op # "abort"
         /\ q.op = "get" => tab[t].phase = "resume"
         /\ q.op = "create" => tab[t].phase = "create"
         /\ q.op = "part" => tab[t].phase = "parts" /\ q.u = tab[t].u /\ q.p \in tab[t].todo
         /\ q.op = "complete" => tab[t].phase = "complete" /\ q.u = tab[t].u
<1>1. tab[t] \in TabType
  BY DEF TabsOK
<1>2. \/ tab[t].phase = "resume" /\ q = Request("get", tab[t].u, None, t)
      \/ tab[t].phase = "create" /\ q = Request("create", None, None, t)
      \/ tab[t].phase = "parts" /\ \E p \in tab[t].todo : q = Request("part", tab[t].u, p, t)
      \/ tab[t].phase = "complete" /\ q = Request("complete", tab[t].u, None, t)
  BY DEF Waiting
<1> QED
  BY <1>1, <1>2 DEF RequestOK, Request, TabType, Busy

LEMMA WritesSound ==
  ASSUME NEW gone, NEW owed, disk \in Sound(gone, {}, owed),
         NEW q, RequestOK(q), Within(q), NEW writes \in WritesOf(q, "good")
  PROVE  writes \in Seq(Sound(gone, {}, owed))
<1>1. CASE q.op = "create"
  <2>1. CanCreate
    BY <1>1 DEF Within
  <2>2. \/ \E r \in FindBySha256(disk) : writes = DedupWrites(r)
        \/ writes = CreateWrites(q.tab \in Hashes)
    BY <1>1 DEF WritesOf
  <2>3. (q.tab \in Hashes) \in BOOLEAN
    OBVIOUS
  <2> QED
    BY <2>1, <2>2, <2>3, DedupSound, CreateSound
<1>2. CASE q.op = "part"
  <2>1. writes = PartWrites(q.u, q.p, "good")
    BY <1>2 DEF WritesOf
  <2> QED
    BY <1>2, <2>1, PartSound DEF RequestOK
<1>3. CASE q.op = "complete"
  <2>1. writes = CompleteWrites(q.u) /\ q.u \in Uploads /\ (Completable(q.u) => HasRoom(disk))
    BY <1>3 DEF WritesOf, RequestOK, Within
  <2> QED
    BY <2>1, CompleteSound
<1>4. CASE q.op = "abort"
  <2>1. writes = AbortWrites(q.u)
    BY <1>4 DEF WritesOf
  <2> QED
    BY <1>4, <2>1, AbortSound DEF RequestOK
<1>5. CASE q.op = "get"
  <2>1. writes = <<>>
    BY <1>5 DEF WritesOf
  <2> QED
    BY <2>1
<1> QED
  BY <1>1, <1>2, <1>3, <1>4, <1>5 DEF RequestOK

LEMMA DoneBySound ==
  ASSUME NEW S, disk \in S, NEW writes \in Seq(S)
  PROVE  DoneBy(writes) \in S
BY LastIsIn DEF DoneBy

LEMMA CrashInSound ==
  ASSUME NEW S, NEW writes \in Seq(S), CrashIn(writes)
  PROVE  disk' \in S
<1>1. Len(writes) \in Nat
  BY LenProperties
<1>2. PICK i \in 1..(Len(writes) - 1) : disk' = writes[i]
  BY DEF CrashIn
<1>3. i \in 1..Len(writes)
  BY <1>1
<1> QED
  BY <1>2, <1>3, ElementOfSeq

-----------------------------------------------------------------------------
(* The steps.                                                                *)

LEMMA UploadingType ==
  ASSUME NEW u \in Uploads, NEW todo \in SUBSET Parts
  PROVE  Uploading(u, todo) \in TabType /\ Uploading(u, todo).phase # "done"
BY DEF Uploading, Idle, TabType, Busy, None

LEMMA IdleType ==
  /\ Idle \in TabType /\ Idle.phase # "done"
  /\ [Idle EXCEPT !.phase = "create"] \in TabType
  /\ [Idle EXCEPT !.phase = "cancelled"] \in TabType
BY DEF Idle, TabType, Busy, None

\* An answer leaves a tab with promises that are kept.
LEMMA AnswerKeeps ==
  ASSUME UploadsInv, Swept, NEW t \in Tabs, NEW q \in Waiting(t), Within(q),
         disk' \in Sound(deleted, {}, OwedTo(tab)), Answer(t, q)
  PROVE  /\ tab' \in [Tabs -> TabType]
         /\ cache' \in [Tabs -> Uploads \cup {None, Unread}]
         /\ stored' \in Uploads \cup {None}
         /\ Earned(OwedTo(tab'), OwedTo(tab), disk', deleted)
<1> DEFINE Caches == [Tabs -> Uploads \cup {None, Unread}]
           Kind(x) == x \in TabType /\ (x.phase = "done" => Kept(disk', deleted, x.res, FALSE))
<1>1. /\ tab \in [Tabs -> TabType] /\ cache \in Caches /\ stored \in Uploads \cup {None}
      /\ RequestOK(q) /\ q.op # "abort"
  BY WaitingOK DEF UploadsInv, TabsOK
<1>2. SUFFICES /\ \E x : Kind(x) /\ tab' = [tab EXCEPT ![t] = x]
               /\ \/ \E u \in Uploads \cup {None} : Cached(t, u)
                  \/ UNCHANGED <<cache, stored>>
  <2>1. PICK x : Kind(x) /\ tab' = [tab EXCEPT ![t] = x]
    BY <1>2
  <2>2. tab' \in [Tabs -> TabType]
        /\ \A r \in OwedTo(tab') : r \in OwedTo(tab) \/ Kept(disk', deleted, r, FALSE)
    <3> DEFINE more == [tab EXCEPT ![t] = x]
    <3>1. more \in [Tabs -> TabType]
          /\ \A r \in OwedTo(more) : r \in OwedTo(tab) \/ (x.phase = "done" /\ r = x.res)
      BY <1>1, <2>1, TabSet
    <3>2. tab' = more
      BY <2>1
    <3> HIDE DEF more
    <3> QED
      BY <2>1, <3>1, <3>2
  <2>3. cache' \in Caches /\ stored' \in Uploads \cup {None}
    BY <1>1, <1>2 DEF Cached
  <2> QED
    BY <2>2, <2>3 DEF Earned
<1>3. CASE q.op = "get"
  <2>1. tab[t].phase = "resume" /\ tab[t].u \in Uploads /\ AnswerResume(t)
    BY <1>1, <1>3, WaitingOK DEF Answer, UploadsInv, TabType, Busy
  <2>2. CASE disk.meta[tab[t].u].status = "pending"
    <3>1. tab' = [tab EXCEPT ![t] = Uploading(tab[t].u, Parts \ disk.meta[tab[t].u].done)]
          /\ Cached(t, tab[t].u)
      BY <1>1, <2>1, <2>2 DEF AnswerResume
    <3> QED
      BY <2>1, <3>1, UploadingType
  <2>3. CASE disk.meta[tab[t].u].status # "pending"
    <3>1. tab' = [tab EXCEPT ![t] = [Idle EXCEPT !.phase = "create"]] /\ Cached(t, None)
      BY <2>1, <2>3 DEF AnswerResume
    <3>2. Kind([Idle EXCEPT !.phase = "create"])
      BY IdleType DEF Idle
    <3> QED
      BY <3>1, <3>2
  <2> QED
    BY <2>2, <2>3
<1>4. CASE q.op = "create"
  <2>1. CanCreate
    BY <1>4 DEF Within
  <2>2. Fresh \in Uploads /\ AnswerCreate(t)
    BY <1>4, <2>1, FreshUpload DEF Answer
  <2>3. tab' = [tab EXCEPT ![t] = Uploading(Fresh, Parts \ disk'.meta[Fresh].done)] /\ Cached(t, Fresh)
    BY <2>2 DEF AnswerCreate
  <2> QED
    BY <2>2, <2>3, UploadingType
<1>5. CASE q.op = "part"
  <2>1. tab[t].phase = "parts" /\ tab[t].u \in Uploads /\ tab[t].todo \in SUBSET Parts
        /\ AnswerPart(t, q.p)
    BY <1>1, <1>5, WaitingOK DEF Answer, UploadsInv, TabType, Busy
  <2>2. CASE disk.meta[tab[t].u].status = "pending"
    <3>1. tab' = [tab EXCEPT ![t] = Uploading(tab[t].u, tab[t].todo \ {q.p})]
          /\ UNCHANGED <<cache, stored>>
      BY <1>1, <2>1, <2>2 DEF AnswerPart
    <3>2. tab[t].todo \ {q.p} \in SUBSET Parts
      BY <2>1
    <3> QED
      BY <2>1, <3>1, <3>2, UploadingType
  <2>3. CASE disk.meta[tab[t].u].status # "pending"
    BY <2>1, <2>3, IdleType DEF AnswerPart, Fails
  <2> QED
    BY <2>2, <2>3
<1>6. CASE q.op = "complete"
  <2> DEFINE record == disk'.meta[tab[t].u]
             x == [Idle EXCEPT !.phase = "done", !.res = record.res]
  <2>1. tab[t].phase = "complete" /\ tab[t].u \in Uploads /\ AnswerComplete(t)
    BY <1>1, <1>6, WaitingOK DEF Answer, UploadsInv, TabType, Busy
  <2>2. CASE record.status = "completed" /\ Visible(disk', record.res)
    <3>1. SessionOK(disk', deleted, {}, tab[t].u, record, disk'.data[tab[t].u])
      BY <2>1 DEF Sound, DiskOK
    <3>2. record.res \in Resources /\ Kept(disk', deleted, record.res, record.hash)
      BY <2>2, <3>1 DEF SessionOK
    <3>3. Kept(disk', deleted, record.res, FALSE)
      BY <3>2 DEF Kept
    <3>4. tab' = [tab EXCEPT ![t] = x] /\ Cached(t, None)
      BY <2>1, <2>2 DEF AnswerComplete
    <3> HIDE DEF record
    <3>5. Kind(x)
      BY <3>2, <3>3 DEF TabType, Idle, Busy, None
    <3> QED
      BY <3>4, <3>5
  <2>3. CASE ~(record.status = "completed" /\ Visible(disk', record.res))
    <3>1. Fails(t)
      BY <2>1, <2>3 DEF AnswerComplete
    <3> QED
      BY <3>1, IdleType DEF Fails
  <2> QED
    BY <2>2, <2>3
<1> QED
  BY <1>1, <1>3, <1>4, <1>5, <1>6 DEF RequestOK

\* A set of promises that did not grow.
LEMMA SameOwed ==
  ASSUME NEW gone, NEW left, NEW owed, NEW more, NEW d \in Sound(gone, left, owed),
         more \subseteq owed
  PROVE  d \in Sound(gone, left, more)
BY OwedGrows DEF Earned

LEMMA StartStep ==
  ASSUME UploadsInv, NEW t \in Tabs, Start(t)
  PROVE  UploadsInv'
<1> DEFINE x == [Idle EXCEPT !.phase = IF Remembers(t) = None THEN "create" ELSE "resume",
                             !.u = Remembers(t)]
<1>1. TabsOK /\ disk \in Sound(deleted, due, OwedTo(tab))
  BY DEF UploadsInv
<1>2. Remembers(t) \in Uploads \cup {None}
  BY <1>1 DEF Remembers, TabsOK, Unread, None
<1>3. x \in TabType /\ x.phase # "done"
  BY <1>2 DEF TabType, Idle, Busy, None
<1>4. tab' = [tab EXCEPT ![t] = x] /\ cache' = [cache EXCEPT ![t] = Remembers(t)]
      /\ UNCHANGED <<disk, stored, late, due, vain, deleted, faults>>
  BY DEF Start
<1> HIDE DEF x
<1>5. tab' \in [Tabs -> TabType] /\ OwedTo(tab') \subseteq OwedTo(tab)
  BY <1>1, <1>3, <1>4, TabSet DEF TabsOK
<1>6. TabsOK'
  BY <1>1, <1>2, <1>4, <1>5 DEF TabsOK, RequestOK
<1>7. disk' \in Sound(deleted', due', OwedTo(tab'))
  BY <1>1, <1>4, <1>5, SameOwed
<1> QED
  BY <1>6, <1>7 DEF UploadsInv

\* A request that is handled and answered.
LEMMA ServeStep ==
  ASSUME UploadsInv, NEW t \in Tabs, Serve(t)
  PROVE  UploadsInv'
<1>1. TabsOK /\ due = {} /\ disk \in Sound(deleted, {}, OwedTo(tab))
  BY DEF UploadsInv, Serve, Swept
<1>2. PICK q \in Waiting(t) :
        /\ Within(q)
        /\ \E writes \in WritesOf(q, "good") : disk' = DoneBy(writes)
        /\ Answer(t, q)
  BY DEF Serve
<1>3. PICK writes \in WritesOf(q, "good") : disk' = DoneBy(writes)
  BY <1>2
<1>4. disk' \in Sound(deleted, {}, OwedTo(tab))
  BY <1>1, <1>2, <1>3, WaitingOK, WritesSound, DoneBySound
<1>5. /\ tab' \in [Tabs -> TabType]
      /\ cache' \in [Tabs -> Uploads \cup {None, Unread}]
      /\ stored' \in Uploads \cup {None}
      /\ Earned(OwedTo(tab'), OwedTo(tab), disk', deleted)
  BY <1>2, <1>4, AnswerKeeps DEF Serve
<1>6. UNCHANGED <<late, due, deleted, faults>>
  BY DEF Serve
<1>7. disk' \in Sound(deleted', due', OwedTo(tab'))
  <2>1. disk' \in Sound(deleted, {}, OwedTo(tab'))
    BY <1>4, <1>5, OwedGrows
  <2> QED
    BY <1>1, <1>6, <2>1
<1>8. TabsOK'
  BY <1>1, <1>5, <1>6 DEF TabsOK, RequestOK
<1> QED
  BY <1>7, <1>8 DEF UploadsInv

LEMMA ServeCorruptStep ==
  ASSUME UploadsInv, NEW t \in Tabs, ServeCorrupt(t)
  PROVE  UploadsInv'
<1>1. TabsOK /\ due = {} /\ disk \in Sound(deleted, {}, OwedTo(tab))
  BY DEF UploadsInv, ServeCorrupt, Swept
<1>2. PICK q \in Waiting(t) :
        q.op = "part" /\ disk' = DoneBy(PartWrites(q.u, q.p, "bad")) /\ AnswerPart(t, q.p)
  BY DEF ServeCorrupt
<1>3. disk' \in Sound(deleted, {}, OwedTo(tab))
  BY <1>1, <1>2, WaitingOK, PartSound, DoneBySound DEF RequestOK
<1>4. Answer(t, q) /\ Within(q)
  BY <1>2 DEF Answer, Within
<1>5. /\ tab' \in [Tabs -> TabType]
      /\ cache' \in [Tabs -> Uploads \cup {None, Unread}]
      /\ stored' \in Uploads \cup {None}
      /\ Earned(OwedTo(tab'), OwedTo(tab), disk', deleted)
  BY <1>3, <1>4, AnswerKeeps DEF ServeCorrupt
<1>6. UNCHANGED <<late, due, deleted>> /\ faults' \in 0..MaxFaults
  BY <1>1, UploadsAssumption DEF ServeCorrupt, Fault, TabsOK
<1>7. disk' \in Sound(deleted', due', OwedTo(tab'))
  <2>1. disk' \in Sound(deleted, {}, OwedTo(tab'))
    BY <1>3, <1>5, OwedGrows
  <2> QED
    BY <1>1, <1>6, <2>1
<1>8. TabsOK'
  BY <1>1, <1>5, <1>6 DEF TabsOK, RequestOK
<1> QED
  BY <1>7, <1>8 DEF UploadsInv

LEMMA ServeLateStep ==
  ASSUME UploadsInv, ServeLate
  PROVE  UploadsInv'
<1>1. TabsOK /\ due = {} /\ disk \in Sound(deleted, {}, OwedTo(tab))
  BY DEF UploadsInv, ServeLate, Swept
<1>2. PICK q \in late :
        /\ Within(q)
        /\ \E writes \in WritesOf(q, "good") : disk' = DoneBy(writes)
        /\ late' = late \ {q}
        /\ UNCHANGED <<tab, cache, stored, due, vain, deleted, faults>>
  BY DEF ServeLate
<1>3. PICK writes \in WritesOf(q, "good") : disk' = DoneBy(writes)
  BY <1>2
<1>4. RequestOK(q)
  BY <1>1 DEF TabsOK
<1>5. disk' \in Sound(deleted, {}, OwedTo(tab))
  BY <1>1, <1>2, <1>3, <1>4, WritesSound, DoneBySound
<1>6. TabsOK'
  BY <1>1, <1>2 DEF TabsOK, RequestOK
<1> QED
  BY <1>1, <1>2, <1>5, <1>6 DEF UploadsInv

\* Wherever a crash cuts a request or a sweep short, the disk is sound.
LEMMA CrashStep ==
  ASSUME UploadsInv, Crash
  PROVE  UploadsInv'
<1>1. TabsOK /\ disk \in Sound(deleted, due, OwedTo(tab))
  BY DEF UploadsInv
<1>2. /\ tab' = [t \in Tabs |-> Interrupted(t)]
      /\ cache' = [t \in Tabs |-> IF tab[t].phase = "resume" THEN None ELSE cache[t]]
      /\ stored' = IF \E t \in Tabs : tab[t].phase = "resume" THEN None ELSE stored
      /\ late' = {} /\ UNCHANGED <<vain, deleted>> /\ faults' \in 0..MaxFaults
  BY <1>1, UploadsAssumption DEF Crash, Fault, TabsOK
<1>3. \A t \in Tabs : Interrupted(t) \in TabType
                      /\ (Interrupted(t).phase = "done" => Interrupted(t) = tab[t])
  BY <1>1, IdleType DEF Interrupted, Idle, TabsOK
<1>4. tab' \in [Tabs -> TabType] /\ OwedTo(tab') \subseteq OwedTo(tab)
  BY <1>2, <1>3 DEF OwedTo
<1>5. due' \subseteq Uploads /\ disk' \in Sound(deleted, due', OwedTo(tab))
  <2>1. ASSUME NEW q \in late \cup UNION {Waiting(t) : t \in Tabs},
               Swept, Within(q), UNCHANGED due,
               NEW writes \in WritesOf(q, "good"), CrashIn(writes)
        PROVE  due' \subseteq Uploads /\ disk' \in Sound(deleted, due', OwedTo(tab))
    <3>1. RequestOK(q)
      BY <1>1, WaitingOK DEF TabsOK
    <3>2. due = {} /\ due' = {} /\ disk \in Sound(deleted, {}, OwedTo(tab))
      BY <1>1, <2>1 DEF Swept
    <3>3. writes \in Seq(Sound(deleted, {}, OwedTo(tab)))
      BY <2>1, <3>1, <3>2, WritesSound
    <3>4. disk' \in Sound(deleted, {}, OwedTo(tab))
      BY <2>1, <3>3, CrashInSound
    <3> QED
      BY <3>2, <3>4
  <2>2. ASSUME NEW u \in Uploads, Swept, Expirable(u), CrashIn(CleanupFiles(disk, u)), due' = {u}
        PROVE  due' \subseteq Uploads /\ disk' \in Sound(deleted, due', OwedTo(tab))
    <3>1. disk \in Sound(deleted, {u}, OwedTo(tab))
      BY <1>1, <2>2, LeftGrows DEF Swept
    <3>2. CleanupFiles(disk, u) \in Seq(Sound(deleted, {u}, OwedTo(tab)))
      BY <2>2, <3>1, CleanupKeeps DEF Expirable
    <3>3. disk' \in Sound(deleted, {u}, OwedTo(tab))
      BY <2>2, <3>2, CrashInSound
    <3> QED
      BY <2>2, <3>3
  <2>3. \/ \E q \in late \cup UNION {Waiting(t) : t \in Tabs} :
             /\ Swept /\ Within(q)
             /\ \E writes \in WritesOf(q, "good") : CrashIn(writes)
             /\ UNCHANGED due
        \/ \E u \in Uploads : Swept /\ Expirable(u) /\ CrashIn(CleanupFiles(disk, u)) /\ due' = {u}
    BY DEF Crash
  <2> QED
    BY <2>1, <2>2, <2>3
<1>6. TabsOK'
  BY <1>1, <1>2, <1>4, <1>5 DEF TabsOK, RequestOK
<1>7. disk' \in Sound(deleted', due', OwedTo(tab'))
  BY <1>2, <1>4, <1>5, SameOwed
<1> QED
  BY <1>6, <1>7 DEF UploadsInv

LEMMA GiveUpStep ==
  ASSUME UploadsInv, NEW t \in Tabs, GiveUp(t)
  PROVE  UploadsInv'
<1>1. TabsOK /\ disk \in Sound(deleted, due, OwedTo(tab))
  BY DEF UploadsInv
<1>2. /\ late' = late \cup Waiting(t)
      /\ UNCHANGED <<disk, due, vain, deleted>> /\ faults' \in 0..MaxFaults
  BY <1>1, UploadsAssumption DEF GiveUp, Fault, TabsOK
<1>3. /\ cache' \in {cache, [cache EXCEPT ![t] = Unread], [cache EXCEPT ![t] = None]}
      /\ stored' \in {stored, None}
      /\ \E x \in {Idle, [Idle EXCEPT !.phase = "create"]} : tab' = [tab EXCEPT ![t] = x]
  BY DEF GiveUp, Cached, Fails
<1>4. \A x \in {Idle, [Idle EXCEPT !.phase = "create"]} : x \in TabType /\ x.phase # "done"
  BY IdleType DEF Idle
<1>5. tab' \in [Tabs -> TabType] /\ OwedTo(tab') \subseteq OwedTo(tab)
  <2>1. PICK x \in {Idle, [Idle EXCEPT !.phase = "create"]} : tab' = [tab EXCEPT ![t] = x]
    BY <1>3
  <2>2. x \in TabType /\ x.phase # "done"
    BY <1>4
  <2> QED
    BY <1>1, <2>1, <2>2, TabSet DEF TabsOK
<1>6. \A q \in late' : RequestOK(q)
  BY <1>1, <1>2, WaitingOK DEF TabsOK
<1>7. TabsOK'
  BY <1>1, <1>2, <1>5, <1>6, <1>3 DEF TabsOK, RequestOK
<1>8. disk' \in Sound(deleted', due', OwedTo(tab'))
  BY <1>1, <1>2, <1>5, SameOwed
<1> QED
  BY <1>7, <1>8 DEF UploadsInv

LEMMA AbortStep ==
  ASSUME UploadsInv, NEW t \in Tabs, Abort(t)
  PROVE  UploadsInv'
<1> DEFINE x == [Idle EXCEPT !.phase = "cancelled"]
           q == Request("abort", tab[t].u, None, t)
<1>1. TabsOK /\ disk \in Sound(deleted, due, OwedTo(tab))
  BY DEF UploadsInv
<1>2. /\ late' = late \cup Waiting(t) \cup {q} /\ tab' = [tab EXCEPT ![t] = x]
      /\ cache' = [cache EXCEPT ![t] = None] /\ stored' = None
      /\ UNCHANGED <<disk, due, vain, deleted, faults>>
  BY DEF Abort, Cached
<1>3. x \in TabType /\ x.phase # "done"
  BY IdleType DEF Idle
<1>4. RequestOK(q)
  BY <1>1 DEF Abort, RequestOK, Request, TabsOK, TabType, Busy
<1> HIDE DEF x, q
<1>5. tab' \in [Tabs -> TabType] /\ OwedTo(tab') \subseteq OwedTo(tab)
  BY <1>1, <1>2, <1>3, TabSet DEF TabsOK
<1>6. \A y \in late' : RequestOK(y)
  BY <1>1, <1>2, <1>4, WaitingOK DEF TabsOK
<1>7. TabsOK'
  BY <1>1, <1>2, <1>5, <1>6 DEF TabsOK, RequestOK
<1>8. disk' \in Sound(deleted', due', OwedTo(tab'))
  BY <1>1, <1>2, <1>5, SameOwed
<1> QED
  BY <1>7, <1>8 DEF UploadsInv

\* What a user deletes is no longer promised.
LEMMA DeleteStep ==
  ASSUME UploadsInv, NEW r \in Resources, DeleteByUser(r)
  PROVE  UploadsInv'
<1> DEFINE gone == deleted \cup {r}
           unlisted == [disk EXCEPT !.file[r] = Absent, !.row[r] = FALSE]
<1>1. TabsOK /\ disk \in Sound(deleted, due, OwedTo(tab)) /\ disk \in DiskType
  BY DEF UploadsInv, Sound
<1>2. deleted' = gone /\ UNCHANGED <<tab, cache, stored, late, due, vain>> /\ faults' \in 0..MaxFaults
  BY <1>1, UploadsAssumption DEF DeleteByUser, Fault, TabsOK
<1>3. disk \in Sound(gone, due, OwedTo(tab))
  <2>1. \A q, c : Kept(disk, deleted, q, c) => Kept(disk, gone, q, c)
    BY DEF Kept
  <2> QED
    BY <1>1, <2>1 DEF Sound, DiskOK, StoreOK, SessionOK
<1>4. disk' = unlisted
  <2> DEFINE unlinked == [disk EXCEPT !.file[r] = Absent]
             both == [unlinked EXCEPT !.row[r] = FALSE]
  <2>1. unlinked \in DiskType /\ both = unlisted
    BY <1>1, AbsentIsBytes DEF DiskType
  <2>2. DeleteResource(disk, r) = IF disk.provider = "local" THEN <<unlinked, both>> ELSE <<both>>
    BY DEF DeleteResource
  <2>3. disk' = Last(DeleteResource(disk, r))
    BY DEF DeleteByUser
  <2> HIDE DEF unlinked, both, unlisted
  <2>4. Last(DeleteResource(disk, r)) = both
    BY <2>2 DEF Last
  <2> QED
    BY <2>1, <2>3, <2>4
<1>5. Removes(disk, unlisted, r, FALSE)
  BY <1>1, AbsentIsBytes DEF Removes, DiskType
<1> HIDE DEF unlisted
<1>6. unlisted \in Sound(gone, due, OwedTo(tab))
  BY <1>3, <1>5, RemovalKeeps
<1>7. TabsOK'
  BY <1>1, <1>2 DEF TabsOK, RequestOK
<1> QED
  BY <1>2, <1>4, <1>6, <1>7 DEF UploadsInv

LEMMA ExpireStep ==
  ASSUME UploadsInv, NEW u \in Uploads, Expire(u)
  PROVE  UploadsInv'
<1> DEFINE owed == OwedTo(tab)
           dropped == WithData(disk, u, Absent)
           ended == WithMeta(dropped, u, Record("gone", {}, None, FALSE))
<1>1. TabsOK /\ disk \in Sound(deleted, due, owed) /\ disk \in DiskType
  BY DEF UploadsInv, Sound
<1>2. due \subseteq {u} /\ due' = {} /\ UNCHANGED <<tab, cache, stored, late, vain, deleted>>
      /\ faults' \in 0..MaxFaults /\ disk' = Last(CleanupFiles(disk, u)) /\ Readable(disk, u)
  BY <1>1, UploadsAssumption DEF Expire, Expirable, Fault, TabsOK
<1>3. disk \in Sound(deleted, {u}, owed)
  BY <1>1, <1>2, LeftGrows
<1>4. CleanupFiles(disk, u) = <<dropped, ended>>
  BY DEF CleanupFiles
<1>5. disk' \in Sound(deleted, {u}, owed)
  BY <1>2, <1>3, CleanupKeeps, LastIsIn
<1>6. disk'.meta[u].status = "gone"
  <2>1. disk' = ended
    <3> HIDE DEF dropped, ended
    <3> QED
      BY <1>2, <1>4 DEF Last
  <2>2. dropped.meta = disk.meta /\ dropped \in DiskType
    BY <1>1, AbsentIsBytes DEF WithData, DiskType
  <2> HIDE DEF dropped
  <2>3. ended.meta[u].status = "gone"
    BY <2>2 DEF WithMeta, Record, DiskType
  <2> QED
    BY <2>1, <2>3
<1>7. disk' \in Sound(deleted, {}, owed)
  BY <1>5, <1>6 DEF Sound, DiskOK, SessionOK
<1>8. TabsOK'
  BY <1>1, <1>2 DEF TabsOK, RequestOK
<1> QED
  BY <1>2, <1>7, <1>8 DEF UploadsInv

LEMMA UploadsStep ==
  ASSUME UploadsInv, [Next]_vars
  PROVE  UploadsInv'
<1>1. CASE UNCHANGED vars
  BY <1>1 DEF vars, UploadsInv, TabsOK, RequestOK
<1>2. CASE Next
  BY <1>2, StartStep, ServeStep, ServeCorruptStep, ServeLateStep, CrashStep, GiveUpStep,
     AbortStep, DeleteStep, ExpireStep DEF Next
<1> QED
  BY <1>1, <1>2

LEMMA UploadsAlways == Spec => []UploadsInv
<1>1. UploadsInv /\ [Next]_vars => UploadsInv'
  BY UploadsStep
<1> QED
  BY <1>1, UploadsInit, PTL DEF Spec

-----------------------------------------------------------------------------
\* The shape of the state, on disk and in the tabs; a resource that is listed was
\* made of a session (resources/provider.py).
THEOREM TypeCorrect == Spec => []TypeOK
<1>1. UploadsInv => TypeOK
  <2> SUFFICES ASSUME UploadsInv
               PROVE  TypeOK
    OBVIOUS
  <2>1. TabsOK /\ disk \in DiskType /\ StoreOK(disk, deleted, OwedTo(tab))
    BY DEF UploadsInv, Sound, DiskOK
  <2>2. \A u \in Uploads : disk.meta[u] \in RecordType /\ disk.data[u] \in Bytes
    BY <2>1 DEF DiskType
  <2>3. \A u \in Uploads :
          /\ disk.meta[u].status \in {"none", "torn", "pending", "completed", "aborted", "gone"}
          /\ disk.meta[u].done \subseteq Parts /\ disk.meta[u].res \in Resources \cup {None}
          /\ \A p \in Parts : disk.data[u][p] \in Chunks
    BY <2>2 DEF RecordType, Statuses, Bytes
  <2>4. \A r \in Resources : /\ disk.row[r] \in BOOLEAN /\ disk.of[r] \in Uploads \cup {None}
                             /\ disk.row[r] => disk.of[r] # None
    BY <2>1 DEF DiskType, StoreOK
  <2>5. \A t \in Tabs : tab[t] \in TabType /\ cache[t] \in Uploads \cup {None, Unread}
    BY <2>1 DEF TabsOK
  <2>6. \A t \in Tabs : /\ tab[t].phase \in Busy \cup {"idle", "done", "cancelled"}
                        /\ tab[t].phase \in Busy \ {"create"} => tab[t].u \in Uploads
                        /\ cache[t] \in Uploads \cup {None, Unread}
    BY <2>5 DEF TabType
  <2> QED
    BY <2>1, <2>3, <2>4, <2>6 DEF TypeOK, TabsOK
<1> QED
  BY <1>1, UploadsAlways, PTL

\* A session that is completed, and a tab that was told so, point to a stored
\* file without a hole and with the declared hash, unless a user deleted it; and
\* a part that a pending session counts as received is in its data. No crash
\* between two writes, repeated or late request, or other tab changes that
\* (resources/uploads.py, complete_resource_upload).
THEOREM RecordsAreTrue == Spec => []RecordsKeepTheirWord
<1>1. UploadsInv => RecordsKeepTheirWord
  <2> SUFFICES ASSUME UploadsInv
               PROVE  RecordsKeepTheirWord
    OBVIOUS
  <2>1. tab \in [Tabs -> TabType] /\ StoreOK(disk, deleted, OwedTo(tab))
        /\ \A u \in Uploads : SessionOK(disk, deleted, due, u, disk.meta[u], disk.data[u])
    BY DEF UploadsInv, TabsOK, Sound, DiskOK
  <2>2. \A r, c : Kept(disk, deleted, r, c) => Holds(r, c)
    BY DEF Kept, Holds
  <2>3. \A u \in Uploads : disk.meta[u].status = "completed" =>
          Holds(disk.meta[u].res, disk.meta[u].hash)
    BY <2>1, <2>2 DEF SessionOK
  <2>4. \A t \in Tabs : tab[t].phase = "done" => Holds(tab[t].res, FALSE)
    <3> SUFFICES ASSUME NEW t \in Tabs, tab[t].phase = "done"
                 PROVE  Holds(tab[t].res, FALSE)
      OBVIOUS
    <3>1. tab[t].res \in OwedTo(tab)
      BY DEF OwedTo
    <3>2. tab[t].res \in Resources
      BY <2>1 DEF TabType
    <3> QED
      BY <2>1, <2>2, <3>1, <3>2 DEF StoreOK
  <2>5. ReceivedIsWritten
    BY <2>1 DEF ReceivedIsWritten, SessionOK
  <2> QED
    BY <2>3, <2>4, <2>5 DEF RecordsKeepTheirWord, CompletedIsStored
<1> QED
  BY <1>1, UploadsAlways, PTL

\* Data is in one place: with a session the sweep finds, or moved to the one
\* local resource made of it, however often completing it is asked for and
\* interrupted (_cleanup_files, save_file).
THEOREM DataStaysInPlace == Spec => []DataHasAPlace
<1>1. UploadsInv => DataHasAPlace
  BY DEF UploadsInv, Sound, DiskOK, StoreOK, SessionOK, DataHasAPlace, DataIsSwept, StoredOnce
<1> QED
  BY <1>1, UploadsAlways, PTL
=============================================================================
