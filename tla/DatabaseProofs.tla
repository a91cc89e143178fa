--------------------------- MODULE DatabaseProofs ---------------------------
(***************************************************************************)
(* Safety of the database for any number of backup commands, any secrets   *)
(* and any faults, whatever release left the database and the artifacts.   *)
(***************************************************************************)
EXTENDS Database, TLAPS

-----------------------------------------------------------------------------
(* The inductive invariant. *)

(* The live database is one this release can take over, or a newer one,    *)
(* which nothing of this release writes.                                   *)
LiveIsKnown ==
    /\ live.version > Current \/ Consistent(live)
    /\ server \in {"opened", "up"} => live.version = Current /\ live.secret # None
    /\ server = "up" => live.method = "current"
    /\ server = "refused" => live.version > Current
    /\ adopted => live.version <= Current
    /\ purge \notin {"idle", "ok"} => live.version = Current

(* The purge holds its lock alone, and what it has restored stays restored. *)
PurgeIsAlone ==
    /\ Locked => ~Connected
    /\ purge = "restored" => ~files.free /\ files.mode = "wal"

(* What lies at the destination is whole and on stable storage; its entry  *)
(* there may not be.                                                       *)
DestinationIsWhole ==
    /\ dest # None => /\ dest \in File /\ dest.synced /\ dest.image.sound
                      /\ dest.image.version > Current \/ Consistent(dest.image)
    /\ durable \in {None, dest}

(* A backup of what was live when it began, or later. *)
Faithful(im, from) == Inspected(im, FALSE) /\ Consistent(im) /\ im.rows >= from

(* What each step of a backup command relies on. *)
BackupIsFaithful(b) ==
    /\ run[b].step = "reading" => Inspected(live, FALSE) /\ live.rows >= run[b].from
    /\ run[b].step \in {"staged", "verified", "linked", "synced"} =>
          /\ run[b].file \in File /\ run[b].file.synced
          /\ Faithful(run[b].file.image, run[b].from)
    /\ run[b].step \in {"linked", "synced"} => dest = run[b].file
    /\ run[b].step = "done" => dest # None /\ Faithful(dest.image, run[b].from)
    /\ run[b].step \in {"synced", "done"} => durable = dest

BackupsAreFaithful == \A b \in Backups : BackupIsFaithful(b)

(* What the drill accepts has been inspected, whatever lies there now. *)
DrillHasInspected ==
    /\ run[Drill].step \in {"copied", "drilled"} =>
          run[Drill].seen \in Image /\ Inspected(run[Drill].seen, TRUE)
    /\ run[Drill].step = "done" /\ dest # None => dest.image.version <= Current

IInv ==
    /\ TypeOK /\ LiveIsKnown /\ PurgeIsAlone /\ DestinationIsWhole
    /\ BackupsAreFaithful /\ DrillHasInspected

-----------------------------------------------------------------------------
(* Lemmas on the migration. *)

(* The updates of one field keep an image an image. *)
LEMMA GroupsType ==
    ASSUME NEW im \in Image, NEW x \in SUBSET Groups(Current)
    PROVE  [im EXCEPT !.groups = x] \in Image
<1> DEFINE S == SUBSET Groups(Current)
           V == {0, Current, 903} \cup Legacy
<1>1. Image = [version: V, groups: S, alerts: {"plain", "added", "columns", "checked"},
               events: {"plain", "added", "columns"}, installation: {None, "bare", "revised"},
               secret: Secrets \cup {None}, method: Methods \cup {None, "uninitialized"},
               actors: Methods \cup {None}, due: {None, "canonical", "malformed"},
               provider: BOOLEAN, raw: BOOLEAN, rows: Nat, sound: BOOLEAN]
    BY DEF Image
<1>2. x \in S OBVIOUS
<1> HIDE DEF S, V
<1> QED BY <1>1, <1>2

LEMMA VersionType ==
    ASSUME NEW im \in Image, NEW x \in {0, Current, 903} \cup Legacy
    PROVE  [im EXCEPT !.version = x] \in Image
BY DEF Image

LEMMA AlertsType ==
    ASSUME NEW im \in Image, NEW x \in {"plain", "added", "columns", "checked"}
    PROVE  [im EXCEPT !.alerts = x] \in Image
BY DEF Image

LEMMA EventsType ==
    ASSUME NEW im \in Image, NEW x \in {"plain", "added", "columns"}
    PROVE  [im EXCEPT !.events = x] \in Image
BY DEF Image

LEMMA InstallationType ==
    ASSUME NEW im \in Image, NEW x \in {None, "bare", "revised"}
    PROVE  [im EXCEPT !.installation = x] \in Image
BY DEF Image

LEMMA SecretType ==
    ASSUME NEW im \in Image, NEW x \in Secrets \cup {None}
    PROVE  [im EXCEPT !.secret = x] \in Image
BY DEF Image

LEMMA MethodType ==
    ASSUME NEW im \in Image, NEW x \in Methods \cup {None, "uninitialized"}
    PROVE  [im EXCEPT !.method = x] \in Image
BY DEF Image

LEMMA ActorsType ==
    ASSUME NEW im \in Image, NEW x \in Methods \cup {None}
    PROVE  [im EXCEPT !.actors = x] \in Image
BY DEF Image

LEMMA DueType ==
    ASSUME NEW im \in Image, NEW x \in {None, "canonical", "malformed"}
    PROVE  [im EXCEPT !.due = x] \in Image
BY DEF Image

LEMMA ProviderType ==
    ASSUME NEW im \in Image, NEW x \in BOOLEAN
    PROVE  [im EXCEPT !.provider = x] \in Image
BY DEF Image

LEMMA RowsType ==
    ASSUME NEW im \in Image, NEW x \in Nat
    PROVE  [im EXCEPT !.rows = x] \in Image
BY DEF Image

LEMMA SoundType ==
    ASSUME NEW im \in Image, NEW x \in BOOLEAN
    PROVE  [im EXCEPT !.sound = x] \in Image
BY DEF Image

LEMMA CreateMissingType == ASSUME NEW im \in Image PROVE CreateMissing(im) \in Image
<1> DEFINE A == IF "feed" \in im.groups THEN im.alerts ELSE "checked"
           E == IF "feed" \in im.groups THEN im.events ELSE "columns"
           I == IF "actor" \in im.groups THEN im.installation ELSE "revised"
           x == [im EXCEPT !.groups = Groups(Current)]
           y == [x EXCEPT !.alerts = A]
           z == [y EXCEPT !.events = E]
<1>1. A \in {"plain", "added", "columns", "checked"} /\ E \in {"plain", "added", "columns"}
      /\ I \in {None, "bare", "revised"}
    BY DEF Image
<1>2. CreateMissing(im) = [z EXCEPT !.installation = I] BY DEF CreateMissing, Image
<1> HIDE DEF A, E, I
<1>3. x \in Image BY GroupsType
<1> HIDE DEF x
<1>4. y \in Image BY <1>1, <1>3, AlertsType
<1> HIDE DEF y
<1>5. z \in Image BY <1>1, <1>4, EventsType
<1> HIDE DEF z
<1> QED BY <1>1, <1>2, <1>5, InstallationType

LEMMA AddColumnsType == ASSUME NEW im \in Image PROVE AddColumns(im) \in Image
<1> DEFINE A == IF im.alerts = "plain" THEN "added" ELSE im.alerts
           E == IF im.events = "plain" THEN "added" ELSE im.events
           M == IF im.installation = "bare" THEN "uninitialized" ELSE im.method
           x == [im EXCEPT !.alerts = A]
           y == [x EXCEPT !.events = E]
           z == [y EXCEPT !.installation = "revised"]
<1>1. A \in {"plain", "added", "columns", "checked"} /\ E \in {"plain", "added", "columns"}
      /\ M \in Methods \cup {None, "uninitialized"}
    BY DEF Image
<1>2. AddColumns(im) = [z EXCEPT !.method = M] BY DEF AddColumns, Image
<1> HIDE DEF A, E, M
<1>3. x \in Image BY <1>1, AlertsType
<1> HIDE DEF x
<1>4. y \in Image BY <1>1, <1>3, EventsType
<1> HIDE DEF y
<1>5. z \in Image BY <1>4, InstallationType
<1> HIDE DEF z
<1> QED BY <1>1, <1>2, <1>5, MethodType

LEMMA RebuildTablesType == ASSUME NEW im \in Image PROVE RebuildTables(im) \in Image
<1> DEFINE D == IF im.due = "malformed" THEN "canonical" ELSE im.due
           x == [im EXCEPT !.alerts = "checked"]
           y == [x EXCEPT !.events = "columns"]
<1>1. D \in {None, "canonical", "malformed"} BY DEF Image
<1>2. RebuildTables(im) = im \/ RebuildTables(im) = [y EXCEPT !.due = D]
    BY DEF RebuildTables, Image
<1> HIDE DEF D
<1>3. x \in Image BY AlertsType
<1> HIDE DEF x
<1>4. y \in Image BY <1>3, EventsType
<1> HIDE DEF y
<1> QED BY <1>1, <1>2, <1>4, DueType

LEMMA StampType ==
    ASSUME NEW im \in Image, NEW secret \in Secrets PROVE Stamp(im, secret) \in Image
<1> DEFINE S == IF im.secret = None THEN secret ELSE im.secret
           M == IF im.secret = None THEN "uninitialized" ELSE im.method
           x == [im EXCEPT !.secret = S]
           y == [x EXCEPT !.method = M]
<1>1. S \in Secrets \cup {None} /\ M \in Methods \cup {None, "uninitialized"} BY DEF Image
<1>2. Stamp(im, secret) = [y EXCEPT !.version = Current] BY DEF Stamp, Image
<1> HIDE DEF S, M
<1>3. x \in Image BY <1>1, SecretType
<1> HIDE DEF x
<1>4. y \in Image BY <1>1, <1>3, MethodType
<1> HIDE DEF y
<1> QED BY <1>2, <1>4, VersionType

LEMMA PrepareType == ASSUME NEW im \in Image PROVE PrepareActorMethod(im) \in Image
<1> DEFINE x == [im EXCEPT !.method = "current"]
<1>1. PrepareActorMethod(im) \in {im, [x EXCEPT !.actors = None]} BY DEF PrepareActorMethod, Image
<1>2. x \in Image BY MethodType DEF Methods
<1> HIDE DEF x
<1> QED BY <1>1, <1>2, ActorsType

(* CREATE, ALTER, the rebuild and the stamp make a consistent database one *)
(* of this release.  They keep an installation secret, every row and what  *)
(* an inspection looks at, and lift no malformed due time over 900.        *)
LEMMA MigrateProperties ==
    ASSUME NEW im \in Image, Consistent(im), NEW secret \in Secrets
    PROVE  /\ Migrate(im, secret) \in Image
           /\ Consistent(Migrate(im, secret))
           /\ Migrate(im, secret).version = Current
           /\ Migrate(im, secret).secret = IF im.secret = None THEN secret ELSE im.secret
           /\ Migrate(im, secret).rows = im.rows
           /\ Migrate(im, secret).provider = im.provider
           /\ Migrate(im, secret).sound = im.sound
           /\ Migrate(im, secret).raw = im.raw
           /\ im.version = Current /\ im.secret # None => Migrate(im, secret).method = im.method
<1> DEFINE c == CreateMissing(im)
           a == AddColumns(c)
           r == RebuildTables(a)
           z == Stamp(r, secret)
<1>1a. c \in Image BY CreateMissingType
<1>1. /\ c.version = im.version /\ c.groups = Groups(Current)
      /\ c.alerts = (IF "feed" \in im.groups THEN im.alerts ELSE "checked")
      /\ c.events = (IF "feed" \in im.groups THEN im.events ELSE "columns")
      /\ c.installation = (IF "actor" \in im.groups THEN im.installation ELSE "revised")
      /\ c.secret = im.secret /\ c.method = im.method /\ c.actors = im.actors /\ c.due = im.due
      /\ c.rows = im.rows /\ c.provider = im.provider /\ c.sound = im.sound /\ c.raw = im.raw
    BY DEF CreateMissing, Image
<1> HIDE DEF c
<1>2a. a \in Image BY <1>1a, AddColumnsType
<1>2. /\ a.version = c.version /\ a.groups = c.groups
      /\ a.alerts = (IF c.alerts = "plain" THEN "added" ELSE c.alerts)
      /\ a.events = (IF c.events = "plain" THEN "added" ELSE c.events)
      /\ a.installation = "revised"
      /\ a.method = (IF c.installation = "bare" THEN "uninitialized" ELSE c.method)
      /\ a.secret = c.secret /\ a.actors = c.actors /\ a.due = c.due
      /\ a.rows = c.rows /\ a.provider = c.provider /\ a.sound = c.sound /\ a.raw = c.raw
    BY <1>1a DEF AddColumns, Image
<1> HIDE DEF a
<1>3a. r \in Image BY <1>2a, RebuildTablesType
<1>3. /\ r.version = a.version /\ r.groups = a.groups
      /\ r.installation = a.installation /\ r.secret = a.secret /\ r.method = a.method
      /\ r.actors = a.actors /\ r.rows = a.rows /\ r.provider = a.provider
      /\ r.sound = a.sound /\ r.raw = a.raw
      /\ IF 0 < a.version /\ a.version < 900
         THEN r.alerts = "checked" /\ r.events = "columns" /\ r.due # "malformed"
         ELSE r.alerts = a.alerts /\ r.events = a.events /\ r.due = a.due
    BY <1>2a DEF RebuildTables, Image
<1> HIDE DEF r
<1>4a. z \in Image BY <1>3a, StampType
<1>4. /\ z.version = Current /\ z.groups = r.groups /\ z.alerts = r.alerts
      /\ z.events = r.events /\ z.installation = r.installation
      /\ z.secret = (IF r.secret = None THEN secret ELSE r.secret)
      /\ z.method = (IF r.secret = None THEN "uninitialized" ELSE r.method)
      /\ z.actors = r.actors /\ z.due = r.due /\ z.rows = r.rows /\ z.provider = r.provider
      /\ z.sound = r.sound /\ z.raw = r.raw
    BY <1>3a DEF Stamp, Image, Current
<1>5. Migrate(im, secret) = z BY DEF Migrate, c, a, r
<1> HIDE DEF z
<1>6. im.version \in {0, 501, 600, 700, 800, 801, 900, 901, 902}
    BY DEF Consistent, Image, Current, Legacy
<1>7. /\ "feed" \in im.groups <=> im.version # 0
      /\ "actor" \in im.groups <=> im.version >= 900
    <2>1. im.groups = Groups(im.version) BY DEF Consistent, ExactSchema
    <2>2. /\ "feed" \in Groups(im.version) <=> 501 <= im.version
          /\ "actor" \in Groups(im.version) <=> 900 <= im.version
        BY DEF Groups, FirstRelease
    <2> QED BY <1>6, <2>1, <2>2
<1>8. /\ im.alerts = (IF im.version < 800 THEN "plain"
                     ELSE IF im.version = 800 THEN "columns" ELSE "checked")
      /\ im.events = (IF im.version < 800 THEN "plain" ELSE "columns")
      /\ im.installation = (IF im.version < 900 THEN None
                           ELSE IF im.version = 900 THEN "bare" ELSE "revised")
    BY DEF Consistent, ExactSchema, AlertsForm, EventsForm, InstallationForm
<1>9. z.alerts = "checked" /\ z.events = "columns" /\ z.installation = "revised"
      /\ z.due # "malformed"
    <2>1. im.version = 0 \/ im.version >= 900 => im.due # "malformed" BY DEF Consistent
    <2>2. CASE im.version = 0 BY <1>1, <1>2, <1>3, <1>4, <1>7, <2>1, <2>2
    <2>3. CASE im.version \in {501, 600, 700, 800, 801} BY <1>1, <1>2, <1>3, <1>4, <2>3
    <2>4. CASE im.version \in {900, 901, 902} BY <1>1, <1>2, <1>3, <1>4, <1>7, <1>8, <2>1, <2>4
    <2> QED BY <1>6, <2>2, <2>3, <2>4
<1>10. ExactSchema(z)
    BY <1>1, <1>2, <1>3, <1>4, <1>9
    DEF ExactSchema, AlertsForm, EventsForm, InstallationForm, Current
<1>11. z.method = "current" => z.actors \in {None, "current"}
    BY <1>1, <1>2, <1>3, <1>4 DEF Consistent
<1>12. Consistent(z) BY <1>4, <1>9, <1>10, <1>11 DEF Consistent, Current
<1>13. im.version = Current /\ im.secret # None => z.method = im.method
    BY <1>1, <1>2, <1>3, <1>4, <1>7, <1>8 DEF Current
<1> QED BY <1>1, <1>2, <1>3, <1>4, <1>4a, <1>5, <1>12, <1>13
(* The preparation of the actor method is no step back. *)
LEMMA PrepareProperties ==
    ASSUME NEW im \in Image, Consistent(im)
    PROVE  /\ PrepareActorMethod(im) \in Image
           /\ Consistent(PrepareActorMethod(im))
           /\ PrepareActorMethod(im).method = "current"
           /\ PrepareActorMethod(im).version = im.version
           /\ PrepareActorMethod(im).secret = im.secret
           /\ PrepareActorMethod(im).rows = im.rows
           /\ PrepareActorMethod(im).provider = im.provider
           /\ im.method = "current" => PrepareActorMethod(im) = im
<1>1. PrepareActorMethod(im) \in Image BY PrepareType
<1>2. CASE im.method = "current" BY <1>1, <1>2 DEF PrepareActorMethod
<1>3. CASE im.method # "current"
    <2> DEFINE p == PrepareActorMethod(im)
    <2>1. /\ p.version = im.version /\ p.groups = im.groups /\ p.alerts = im.alerts
          /\ p.events = im.events /\ p.installation = im.installation /\ p.secret = im.secret
          /\ p.method = "current" /\ p.actors = None /\ p.due = im.due /\ p.rows = im.rows
          /\ p.provider = im.provider
        BY <1>3 DEF PrepareActorMethod, Image
    <2> HIDE DEF p
    <2>2. Consistent(p) BY <2>1 DEF Consistent, ExactSchema
    <2> QED BY <1>1, <1>3, <2>1, <2>2 DEF p
<1> QED BY <1>2, <1>3

(* A database that passes the inspection of the backup passes it again     *)
(* after it has been opened.                                               *)
LEMMA OpenedIsInspected ==
    ASSUME NEW im \in Image, Consistent(im), Inspected(im, FALSE), NEW secret \in Secrets
    PROVE  Inspected(Migrate(im, secret), FALSE)
<1> DEFINE z == Migrate(im, secret)
<1>1. im.version = Current /\ im.secret # None /\ im.method = "current" /\ im.sound /\ ~im.raw
    BY DEF Inspected, KnownMethod, Current
<1>2. /\ Consistent(z) /\ z.version = Current /\ z.secret = im.secret /\ z.sound /\ ~z.raw
      /\ z.method = "current"
    BY <1>1, MigrateProperties
<1> HIDE DEF z
<1> QED BY <1>1, <1>2 DEF Inspected, KnownMethod, Consistent, z

-----------------------------------------------------------------------------
(* The invariant holds initially. *)

LEMMA InitIInv == Init => IInv
<1> SUFFICES ASSUME Init PROVE IInv OBVIOUS
<1> USE DEF Init
<1>1. \A im \in Artifacts : [image |-> im, synced |-> TRUE] \in File
    BY DatabaseAssumption DEF File
<1>2. dest \in File \cup {None} /\ durable = dest BY <1>1
<1>3. TypeOK
    <2>1. Idle \in Run BY DEF Idle, Run
    <2>2. run \in [Runs -> Run] BY <2>1
    <2>3. live \in Image BY DatabaseAssumption
    <2>4. files \in [wal: BOOLEAN, mode: {"wal", "delete"}, free: BOOLEAN] OBVIOUS
    <2>5. faults \in 0..MaxFaults BY DatabaseAssumption
    <2> QED BY <1>2, <2>2, <2>3, <2>4, <2>5 DEF TypeOK, Purges
<1>4. LiveIsKnown BY DatabaseAssumption DEF LiveIsKnown
<1>5. PurgeIsAlone BY DEF PurgeIsAlone, Locked
<1>6. DestinationIsWhole
    BY <1>1, DatabaseAssumption DEF DestinationIsWhole
<1>7. BackupsAreFaithful BY DEF BackupsAreFaithful, BackupIsFaithful, Idle, Runs
<1>8. DrillHasInspected BY DEF DrillHasInspected, Idle, Runs
<1> QED BY <1>3, <1>4, <1>5, <1>6, <1>7, <1>8 DEF IInv

-----------------------------------------------------------------------------
(* Steps of the server and of the purge: they leave the files of the       *)
(* backups alone, and what they do to the database a backup reads is no    *)
(* step back.                                                              *)
LEMMA ServiceStep ==
    ASSUME IInv, UNCHANGED <<dest, durable, run, adopted>>,
           live' \in Image,
           live.version <= Current => Consistent(live'),
           live.version > Current => live' = live,
           live.version <= Current => live'.version >= live.version,
           Inspected(live, FALSE) => Inspected(live', FALSE),
           live'.rows >= live.rows,
           files' \in [wal: BOOLEAN, mode: {"wal", "delete"}, free: BOOLEAN],
           server' \in {"down", "opened", "up", "refused"}, purge' \in Purges,
           faults' \in 0..MaxFaults,
           server' \in {"opened", "up"} => live'.version = Current /\ live'.secret # None,
           server' = "up" => live'.method = "current",
           server' = "refused" => live'.version > Current,
           purge' \notin {"idle", "ok"} => live'.version = Current,
           PurgeIsAlone'
    PROVE  IInv'
<1> USE DEF IInv
<1>1. TypeOK' BY DEF TypeOK
<1>2. LiveIsKnown'
    <2>1. live.version \in Int BY DEF TypeOK, Image, Current, Legacy
    <2>2. live'.version > Current \/ Consistent(live') BY <2>1 DEF LiveIsKnown, Current
    <2>3. adopted' => live'.version <= Current BY <2>1 DEF LiveIsKnown, Consistent, Current
    <2> QED BY <2>2, <2>3 DEF LiveIsKnown
<1>3. DestinationIsWhole' BY DEF DestinationIsWhole
<1>4. BackupsAreFaithful'
    <2> SUFFICES ASSUME NEW b \in Backups PROVE BackupIsFaithful(b)' BY DEF BackupsAreFaithful
    <2>1. BackupIsFaithful(b) BY DEF BackupsAreFaithful
    <2>2. run[b].step = "reading" => Inspected(live', FALSE) /\ live'.rows >= run[b].from
        <3>1. run[b].from \in Nat /\ live.rows \in Nat /\ live'.rows \in Nat
            BY DEF TypeOK, Runs, Run, Image
        <3>2. run[b].step = "reading" => Inspected(live, FALSE) /\ live.rows >= run[b].from
            BY <2>1 DEF BackupIsFaithful
        <3>3. live'.rows >= live.rows OBVIOUS
        <3>4. live.rows >= run[b].from => live'.rows >= run[b].from BY <3>1, <3>3
        <3> QED BY <3>2, <3>4
    <2> QED BY <2>1, <2>2 DEF BackupIsFaithful
<1>5. DrillHasInspected' BY DEF DrillHasInspected
<1> QED BY <1>1, <1>2, <1>3, <1>4, <1>5

(* Opening the database as the server and the purge do. *)
LEMMA OpenProperties ==
    ASSUME IInv, live.version <= Current, NEW secret \in Secrets, OpenStore(secret)
    PROVE  /\ live' \in Image /\ Consistent(live') /\ live'.version = Current
           /\ live'.version >= live.version
           /\ live'.secret # None /\ live.secret \in {None, live'.secret}
           /\ live'.rows = live.rows /\ live'.provider = live.provider
           /\ Inspected(live, FALSE) => Inspected(live', FALSE)
           /\ live.version = Current /\ live.secret # None => live'.method = live.method
<1>1. live \in Image /\ Consistent(live)
    BY DEF IInv, TypeOK, LiveIsKnown, Image, Current, Legacy
<1>2. live' = Migrate(live, secret) BY DEF OpenStore
<1>3. secret # None BY DatabaseAssumption
<1>4. live'.version >= live.version BY <1>1, <1>2, MigrateProperties DEF Current, Image, Legacy
<1> QED BY <1>1, <1>2, <1>3, <1>4, MigrateProperties, OpenedIsInspected

LEMMA StartIInv == ASSUME IInv, Start PROVE IInv'
<1> USE DEF Start
<1>1. TypeOK /\ LiveIsKnown /\ PurgeIsAlone BY DEF IInv
<1>2. files' \in [wal: BOOLEAN, mode: {"wal", "delete"}, free: BOOLEAN] /\ files'.mode = "wal"
      /\ files'.free = files.free
    BY <1>1 DEF TypeOK
<1>3. PurgeIsAlone' BY <1>1, <1>2 DEF PurgeIsAlone, Locked, Connected
<1>4. live.version \in Int /\ live.rows \in Nat BY <1>1 DEF TypeOK, Image, Current, Legacy
<1>5. CASE live.version > Current
    <2>1. server' = "refused" /\ live' = live BY <1>5
    <2>2. purge \in {"idle", "ok"} BY <1>1, <1>5 DEF LiveIsKnown, Current
    <2>3. live.version \notin 0..Current /\ ~(live.version <= Current)
        BY <1>4, <1>5 DEF Current
    <2>4. live' \in Image /\ purge' \in Purges /\ faults' \in 0..MaxFaults
        BY <1>1, <2>1 DEF TypeOK
    <2>5. live'.rows >= live.rows /\ live'.version > Current /\ purge' \in {"idle", "ok"}
        BY <1>4, <1>5, <2>1, <2>2
    <2>6. Inspected(live, FALSE) => Inspected(live', FALSE) BY <2>1
    <2>7. UNCHANGED <<dest, durable, run, adopted>> OBVIOUS
    <2> HIDE DEF Start
    <2> QED BY <1>2, <1>3, <2>1, <2>3, <2>4, <2>5, <2>6, <2>7, ServiceStep
<1>6. CASE ~(live.version > Current)
    <2>1. server' = "opened" /\ live.version <= Current BY <1>4, <1>6 DEF Current
    <2>2. PICK secret \in Secrets : OpenStore(secret) BY <1>6
    <2>3. live' \in Image /\ Consistent(live') /\ live'.version = Current
           /\ live'.version >= live.version
           /\ live'.secret # None /\ live'.rows = live.rows
           /\ (Inspected(live, FALSE) => Inspected(live', FALSE))
        BY <2>1, <2>2, OpenProperties
    <2>4. live'.rows >= live.rows BY <1>4, <2>3
    <2>5. purge' \in Purges /\ faults' \in 0..MaxFaults BY <1>1 DEF TypeOK
    <2>6. UNCHANGED <<dest, durable, run, adopted>> OBVIOUS
    <2> HIDE DEF Start
    <2> QED BY <1>2, <1>3, <1>6, <2>1, <2>3, <2>4, <2>5, <2>6, ServiceStep
<1> QED BY <1>5, <1>6

LEMMA PrepareIInv == ASSUME IInv, Prepare PROVE IInv'
<1> USE DEF Prepare
<1>1. TypeOK /\ LiveIsKnown /\ PurgeIsAlone BY DEF IInv
<1>2. live \in Image /\ live.version = Current /\ live.secret # None /\ Consistent(live)
      /\ live.rows \in Nat
    BY <1>1 DEF TypeOK, LiveIsKnown, Current, Image
<1>3. /\ live' \in Image /\ Consistent(live') /\ live'.method = "current"
      /\ live'.version = Current /\ live'.secret = live.secret /\ live'.rows = live.rows
      /\ live.method = "current" => live' = live
    BY <1>2, PrepareProperties
<1>4. Inspected(live, FALSE) => live' = live BY <1>2, <1>3 DEF Inspected, KnownMethod, Current
<1>5. PurgeIsAlone' BY <1>1 DEF PurgeIsAlone, Locked, Connected, ServerConnected
<1>6. live'.rows >= live.rows /\ live'.version >= live.version BY <1>2, <1>3 DEF Current
<1>7. server' = "up" /\ files' = files /\ purge' \in Purges /\ faults' \in 0..MaxFaults
      /\ files' \in [wal: BOOLEAN, mode: {"wal", "delete"}, free: BOOLEAN]
    BY <1>1 DEF TypeOK
<1>8. ~(live.version > Current) BY <1>2 DEF Current
<1>9. UNCHANGED <<dest, durable, run, adopted>> OBVIOUS
<1>10. Inspected(live, FALSE) => Inspected(live', FALSE) BY <1>4
<1> HIDE DEF Prepare
<1> QED BY <1>2, <1>3, <1>5, <1>6, <1>7, <1>8, <1>9, <1>10, ServiceStep

LEMMA WriteIInv == ASSUME IInv, Write PROVE IInv'
<1> USE DEF Write
<1>1. TypeOK /\ LiveIsKnown /\ PurgeIsAlone BY DEF IInv
<1>2. live \in Image /\ live.version = Current /\ live.secret # None /\ live.method = "current"
      /\ Consistent(live) /\ live.rows \in Nat
    BY <1>1 DEF TypeOK, LiveIsKnown, Current, Image
<1>3. live' \in Image
    <2> DEFINE x == [live EXCEPT !.rows = live.rows + 1]
               y == [x EXCEPT !.provider = TRUE]
    <2>1. live' = [y EXCEPT !.actors = live.method] BY <1>2 DEF Image
    <2>2. live.rows + 1 \in Nat BY <1>2
    <2>3. x \in Image BY <1>2, <2>2, RowsType
    <2> HIDE DEF x
    <2>4. y \in Image BY <2>3, ProviderType
    <2> HIDE DEF y
    <2>5. live.method \in Methods \cup {None} BY <1>2 DEF Methods
    <2> QED BY <2>1, <2>4, <2>5, ActorsType
<1>4. /\ live'.version = live.version /\ live'.groups = live.groups /\ live'.alerts = live.alerts
      /\ live'.events = live.events /\ live'.installation = live.installation
      /\ live'.secret = live.secret /\ live'.method = live.method /\ live'.due = live.due
      /\ live'.raw = live.raw /\ live'.sound = live.sound /\ live'.actors = live.method
      /\ live'.rows = live.rows + 1
    BY <1>2 DEF Image
<1>5. Consistent(live') BY <1>2, <1>4 DEF Consistent, ExactSchema
<1>6. Inspected(live, FALSE) => Inspected(live', FALSE)
    BY <1>4 DEF Inspected, ExactSchema, KnownMethod
<1>7. files' \in [wal: BOOLEAN, mode: {"wal", "delete"}, free: BOOLEAN]
      /\ files'.mode = files.mode /\ files'.free = files.free
    BY <1>1 DEF TypeOK
<1>8. PurgeIsAlone' BY <1>1, <1>7 DEF PurgeIsAlone, Locked, Connected, ServerConnected
<1>9. live'.rows >= live.rows BY <1>2, <1>4
<1>10. server' = "up" /\ purge' \in Purges /\ faults' \in 0..MaxFaults BY <1>1 DEF TypeOK
<1>11. ~(live.version > Current) /\ live'.version >= live.version BY <1>2, <1>4 DEF Current
<1>12. UNCHANGED <<dest, durable, run, adopted>> OBVIOUS
<1> HIDE DEF Write
<1> QED BY <1>2, <1>3, <1>4, <1>5, <1>6, <1>7, <1>8, <1>9, <1>10, <1>11, <1>12, ServiceStep

LEMMA StopIInv == ASSUME IInv, Stop PROVE IInv'
<1> USE DEF Stop
<1>1. TypeOK /\ LiveIsKnown /\ PurgeIsAlone BY DEF IInv
<1>2. live \in Image /\ (live.version <= Current => Consistent(live))
      /\ live.version \in Int /\ live.rows \in Nat
    BY <1>1 DEF TypeOK, LiveIsKnown, Current, Image, Legacy
<1>3. PurgeIsAlone' BY <1>1 DEF PurgeIsAlone, Locked, Connected, ServerConnected
<1>4. purge \notin {"idle", "ok"} => live.version = Current BY <1>1 DEF LiveIsKnown
<1>5. UNCHANGED <<dest, durable, run, adopted>> /\ live' = live OBVIOUS
<1>6. files' \in [wal: BOOLEAN, mode: {"wal", "delete"}, free: BOOLEAN]
      /\ server' = "down" /\ purge' = purge /\ purge' \in Purges /\ faults' \in 0..MaxFaults
    BY <1>1 DEF TypeOK
<1>7. Inspected(live, FALSE) => Inspected(live', FALSE) BY <1>5
<1>8. live'.rows >= live.rows /\ live'.version >= live.version BY <1>2, <1>5
<1> QED BY <1>1, <1>2, <1>3, <1>4, <1>5, <1>6, <1>7, <1>8, ServiceStep

(* The steps of the purge that leave the server alone. *)
LEMMA PurgeStepIInv ==
    ASSUME IInv, live.version = Current, live' \in Image, Consistent(live'),
           Inspected(live, FALSE) => Inspected(live', FALSE),
           live'.version = Current, live'.rows = live.rows,
           live.secret # None => live'.secret = live.secret /\ live'.method = live.method,
           files' \in [wal: BOOLEAN, mode: {"wal", "delete"}, free: BOOLEAN],
           UNCHANGED <<dest, durable, run, adopted, server>>, purge' \in Purges,
           faults' \in 0..MaxFaults, PurgeIsAlone'
    PROVE  IInv'
<1>1. TypeOK /\ LiveIsKnown BY DEF IInv
<1>2. live'.rows >= live.rows /\ live.version <= Current /\ live'.version >= live.version
    BY <1>1 DEF TypeOK, Image, Current
<1>3. server' \in {"opened", "up"} => live'.secret # None BY <1>1 DEF LiveIsKnown
<1>4. server' = "up" => live'.method = "current" BY <1>1 DEF LiveIsKnown
<1>5. server' # "refused" BY <1>1 DEF LiveIsKnown, Current
<1>6. server' \in {"down", "opened", "up", "refused"} BY <1>1 DEF TypeOK
<1>7. ~(live.version > Current) BY DEF Current
<1> QED BY <1>2, <1>3, <1>4, <1>5, <1>6, <1>7, ServiceStep

LEMMA PurgeIInv ==
    ASSUME IInv, OpenPurge \/ LeaveWal \/ Lock \/ DeleteRows \/ Vacuum \/ FinalCheckpoint
    PROVE  IInv'
<1>1. TypeOK /\ LiveIsKnown /\ PurgeIsAlone BY DEF IInv
<1>2. live \in Image /\ live.rows \in Nat /\ faults \in 0..MaxFaults
      /\ files \in [wal: BOOLEAN, mode: {"wal", "delete"}, free: BOOLEAN] /\ purge \in Purges
    BY <1>1 DEF TypeOK, Image
<1>3. live.version = Current /\ Consistent(live)
    BY <1>1 DEF LiveIsKnown, OpenPurge, LeaveWal, Lock, DeleteRows, Vacuum, FinalCheckpoint, Current
<1> USE DEF PurgeStep
<1>4. CASE OpenPurge
    <2> USE <1>4 DEF OpenPurge
    <2>1. PICK secret \in Secrets : OpenStore(secret) OBVIOUS
    <2>2. live' \in Image /\ Consistent(live') /\ live'.version = Current
           /\ live.secret \in {None, live'.secret} /\ live'.rows = live.rows
           /\ (Inspected(live, FALSE) => Inspected(live', FALSE))
           /\ (live.secret # None => live'.method = live.method)
        <3>1. live.version <= Current BY <1>3 DEF Current
        <3> QED BY <1>3, <2>1, <3>1, OpenProperties
    <2>3. files' \in [wal: BOOLEAN, mode: {"wal", "delete"}, free: BOOLEAN] BY <1>2
    <2>4. PurgeIsAlone' BY <1>1 DEF PurgeIsAlone, Locked
    <2> QED BY <1>2, <1>3, <2>2, <2>3, <2>4, PurgeStepIInv DEF Purges
<1>5. CASE LeaveWal
    <2> USE <1>5 DEF LeaveWal
    <2>1. files' \in [wal: BOOLEAN, mode: {"wal", "delete"}, free: BOOLEAN] /\ purge' \in {"idle", "journal"}
        BY <1>2
    <2>2. PurgeIsAlone' BY <2>1 DEF PurgeIsAlone, Locked
    <2> QED BY <1>2, <1>3, <2>1, <2>2, PurgeStepIInv DEF Purges
<1>6. CASE Lock
    <2> USE <1>6 DEF Lock
    <2>1. files' \in [wal: BOOLEAN, mode: {"wal", "delete"}, free: BOOLEAN] /\ purge' \in {"idle", "locked"}
        BY <1>2
    <2>2. PurgeIsAlone' BY <2>1 DEF PurgeIsAlone, Locked, Connected, ServerConnected
    <2> QED BY <1>2, <1>3, <2>1, <2>2, PurgeStepIInv DEF Purges
<1>7. CASE DeleteRows
    <2> USE <1>7 DEF DeleteRows
    <2>1. live' \in Image BY <1>2, ProviderType
    <2>2. /\ live'.version = live.version /\ live'.groups = live.groups /\ live'.alerts = live.alerts
          /\ live'.events = live.events /\ live'.installation = live.installation
          /\ live'.secret = live.secret /\ live'.method = live.method /\ live'.due = live.due
          /\ live'.raw = live.raw /\ live'.sound = live.sound /\ live'.actors = live.actors
          /\ live'.rows = live.rows
        BY <1>2 DEF Image
    <2>3. Consistent(live') BY <1>3, <2>2 DEF Consistent, ExactSchema
    <2>4. Inspected(live, FALSE) => Inspected(live', FALSE)
        BY <2>2 DEF Inspected, ExactSchema, KnownMethod
    <2>5. live.provider \in BOOLEAN BY <1>2 DEF Image
    <2>6. files' \in [wal: BOOLEAN, mode: {"wal", "delete"}, free: BOOLEAN] BY <1>2, <2>5
    <2>7. PurgeIsAlone' BY <1>1 DEF PurgeIsAlone, Locked, Connected, ServerConnected
    <2> QED BY <1>2, <1>3, <2>1, <2>2, <2>3, <2>4, <2>6, <2>7, PurgeStepIInv DEF Purges
<1>8. CASE Vacuum
    <2> USE <1>8 DEF Vacuum
    <2>1. files' \in [wal: BOOLEAN, mode: {"wal", "delete"}, free: BOOLEAN]
          /\ ~files'.free /\ files'.mode = "wal"
        BY <1>2
    <2>2. PurgeIsAlone' BY <2>1 DEF PurgeIsAlone, Locked
    <2> QED BY <1>2, <1>3, <2>1, <2>2, PurgeStepIInv DEF Purges
<1>9. CASE FinalCheckpoint
    <2> USE <1>9 DEF FinalCheckpoint
    <2>1. files' \in [wal: BOOLEAN, mode: {"wal", "delete"}, free: BOOLEAN] /\ purge' \in {"idle", "ok"}
        BY <1>2
    <2>2. PurgeIsAlone' BY <2>1 DEF PurgeIsAlone, Locked
    <2> QED BY <1>2, <1>3, <2>1, <2>2, PurgeStepIInv DEF Purges
<1> QED BY <1>4, <1>5, <1>6, <1>7, <1>8, <1>9

LEMMA KillPurgeIInv == ASSUME IInv, KillPurge PROVE IInv'
<1> USE DEF KillPurge
<1>1. TypeOK /\ LiveIsKnown BY DEF IInv
<1>2. live.version = Current /\ live \in Image /\ Consistent(live)
    BY <1>1 DEF LiveIsKnown, TypeOK, Current
<1>3. faults' \in 0..MaxFaults BY <1>1, DatabaseAssumption DEF TypeOK
<1>4. PurgeIsAlone' BY DEF PurgeIsAlone, Locked
<1> QED BY <1>1, <1>2, <1>3, <1>4, PurgeStepIInv DEF TypeOK, Purges
-----------------------------------------------------------------------------
(* Steps of one backup command: they leave the service alone, and an       *)
(* artifact that lies at the destination stays there.                      *)
LEMMA BackupStep ==
    ASSUME IInv, NEW b \in Backups, UNCHANGED <<live, files, server, purge, adopted>>,
           run' \in [Runs -> Run], \A r \in Runs \ {b} : run'[r] = run[r],
           faults' \in 0..MaxFaults,
           run'[b].step = "reading" => run[b].step = "reading" \/ ~Locked,
           dest \in {None, dest'}, durable' \in {durable, dest'},
           dest' # dest => dest'.image.version <= Current,
           DestinationIsWhole', BackupIsFaithful(b)'
    PROVE  IInv'
<1>1. TypeOK /\ LiveIsKnown /\ PurgeIsAlone /\ BackupsAreFaithful /\ DrillHasInspected
    BY DEF IInv
<1>2. TypeOK'
    <2>1. dest' \in File \cup {None} /\ durable' \in File \cup {None}
        BY DEF DestinationIsWhole
    <2> QED BY <1>1, <2>1 DEF TypeOK
<1>3. LiveIsKnown' BY <1>1 DEF LiveIsKnown
<1>4. PurgeIsAlone'
    <2>1. Connected' => Connected \/ ~Locked BY DEF Connected, ServerConnected, Runs
    <2> QED BY <1>1, <2>1 DEF PurgeIsAlone, Locked
<1>5. BackupsAreFaithful'
    <2> SUFFICES ASSUME NEW c \in Backups, c # b PROVE BackupIsFaithful(c)'
        BY DEF BackupsAreFaithful
    <2>1. BackupIsFaithful(c) /\ run'[c] = run[c] BY <1>1 DEF BackupsAreFaithful, Runs
    <2>2. run[c].step \in {"linked", "synced", "done"} => dest # None
        BY <2>1, DatabaseAssumption DEF BackupIsFaithful, File
    <2> QED BY <2>1, <2>2 DEF BackupIsFaithful
<1>6. DrillHasInspected'
    <2>1. run'[Drill] = run[Drill] BY DatabaseAssumption DEF Runs
    <2> QED BY <1>1, <2>1 DEF DrillHasInspected
<1> QED BY <1>2, <1>3, <1>4, <1>5, <1>6 DEF IInv
(* An update of one run. *)
LEMMA RunUpdate ==
    ASSUME TypeOK, NEW r \in Runs, NEW x \in Run, run' = [run EXCEPT ![r] = x]
    PROVE  run' \in [Runs -> Run] /\ run'[r] = x /\ \A q \in Runs \ {r} : run'[q] = run[q]
BY DEF TypeOK

Steps == {"idle", "reading", "staged", "copied", "drilled", "verified", "linked", "synced",
          "failing", "done"}

LEMMA IdleType == Idle \in Run
BY DEF Idle, Run

LEMMA AdvanceProperties ==
    ASSUME TypeOK, NEW r \in Runs, NEW step \in Steps, Advance(r, step)
    PROVE  /\ run' \in [Runs -> Run] /\ \A q \in Runs \ {r} : run'[q] = run[q]
           /\ run'[r].step = step /\ run'[r].file = run[r].file
           /\ run'[r].from = run[r].from /\ run'[r].seen = run[r].seen
<1>1. run \in [Runs -> Run] BY DEF TypeOK
<1>2. run' = [run EXCEPT ![r] = [run[r] EXCEPT !.step = step]] BY <1>1 DEF Advance
<1>3. [run[r] EXCEPT !.step = step] \in Run BY <1>1 DEF Run, Steps
<1>4. run' \in [Runs -> Run] /\ run'[r] = [run[r] EXCEPT !.step = step]
      /\ \A q \in Runs \ {r} : run'[q] = run[q]
    BY <1>2, <1>3, RunUpdate
<1> QED BY <1>1, <1>4 DEF Run

LEMMA ResetProperties ==
    ASSUME TypeOK, NEW r \in Runs, Reset(r) \/ Failing(r)
    PROVE  /\ run' \in [Runs -> Run] /\ \A q \in Runs \ {r} : run'[q] = run[q]
           /\ run'[r].step \in {"idle", "failing"}
<1>1. Idle \in Run /\ [Idle EXCEPT !.step = "failing"] \in Run BY DEF Idle, Run
<1>2. run' = [run EXCEPT ![r] = Idle] \/ run' = [run EXCEPT ![r] = [Idle EXCEPT !.step = "failing"]]
    BY DEF Reset, Failing
<1>3. Idle.step = "idle" /\ [Idle EXCEPT !.step = "failing"].step = "failing" BY DEF Idle
<1> QED BY <1>1, <1>2, <1>3, RunUpdate

(* A command that fails, or is killed, promises nothing. *)
LEMMA BackupFails ==
    ASSUME IInv, NEW b \in Backups, UNCHANGED <<live, files, server, purge, dest, adopted>>,
           durable' \in {durable, dest}, faults' \in 0..MaxFaults, Reset(b) \/ Failing(b)
    PROVE  IInv'
<1>1. TypeOK /\ DestinationIsWhole BY DEF IInv
<1>2. b \in Runs BY DEF Runs
<1>3. /\ run' \in [Runs -> Run] /\ \A q \in Runs \ {b} : run'[q] = run[q]
      /\ run'[b].step \in {"idle", "failing"}
    BY <1>1, <1>2, ResetProperties
<1>4. DestinationIsWhole' BY <1>1 DEF DestinationIsWhole
<1>5. BackupIsFaithful(b)' BY <1>3 DEF BackupIsFaithful
<1> QED BY <1>3, <1>4, <1>5, BackupStep

LEMMA BeginBackupIInv == ASSUME IInv, NEW b \in Backups, BeginBackup(b) PROVE IInv'
<1> USE DEF BeginBackup
<1>1. TypeOK /\ DestinationIsWhole BY DEF IInv
<1>2. b \in Runs BY DEF Runs
<1>3. CASE Failing(b) BY <1>1, <1>3, BackupFails DEF TypeOK
<1>4. CASE /\ ~Locked /\ Inspected(live, FALSE)
           /\ run' = [run EXCEPT ![b] = [Idle EXCEPT !.step = "reading", !.from = live.rows]]
    <2> DEFINE new == [Idle EXCEPT !.step = "reading", !.from = live.rows]
    <2>1. live.rows \in Nat BY <1>1 DEF TypeOK, Image
    <2>2. new \in Run /\ new.step = "reading" /\ new.from = live.rows BY <2>1 DEF Idle, Run
    <2>3. run' \in [Runs -> Run] /\ run'[b] = new /\ \A q \in Runs \ {b} : run'[q] = run[q]
        BY <1>1, <1>2, <1>4, <2>2, RunUpdate
    <2> HIDE DEF new
    <2>4. BackupIsFaithful(b)'
        <3>1. live' = live OBVIOUS
        <3> HIDE DEF BeginBackup
        <3>2. live.rows >= live.rows BY <2>1
        <3> QED BY <1>4, <2>2, <2>3, <3>1, <3>2 DEF BackupIsFaithful
    <2>5. DestinationIsWhole' BY <1>1 DEF DestinationIsWhole
    <2>6. faults' \in 0..MaxFaults BY <1>1 DEF TypeOK
    <2> QED BY <1>4, <2>3, <2>4, <2>5, <2>6, BackupStep
<1> QED BY <1>3, <1>4

LEMMA SnapshotIInv == ASSUME IInv, NEW b \in Backups, Snapshot(b) PROVE IInv'
<1> USE DEF Snapshot
<1>1. TypeOK /\ DestinationIsWhole /\ LiveIsKnown /\ BackupIsFaithful(b)
    BY DEF IInv, BackupsAreFaithful
<1>2. b \in Runs /\ run[b] \in Run /\ live \in Image BY <1>1 DEF Runs, TypeOK
<1> DEFINE f == [image |-> live, synced |-> TRUE]
           new == [run[b] EXCEPT !.step = "staged", !.file = f]
<1>3. f \in File /\ f.image = live /\ f.synced BY <1>2 DEF File
<1> HIDE DEF f
<1>4. new \in Run /\ new.step = "staged" /\ new.file = f /\ new.from = run[b].from
    BY <1>2, <1>3 DEF Run
<1>5. run' = [run EXCEPT ![b] = new] BY <1>1 DEF TypeOK, f
<1>6. run' \in [Runs -> Run] /\ run'[b] = new /\ \A q \in Runs \ {b} : run'[q] = run[q]
    BY <1>1, <1>2, <1>4, <1>5, RunUpdate
<1> HIDE DEF new
<1>7. Faithful(live, run[b].from)
    <2>1. Inspected(live, FALSE) /\ live.rows >= run[b].from BY <1>1 DEF BackupIsFaithful
    <2>2. live.version = Current BY <2>1 DEF Inspected
    <2>3. ~(live.version > Current) BY <2>2 DEF Current
    <2> QED BY <1>1, <2>1, <2>3 DEF Faithful, LiveIsKnown
<1>8. BackupIsFaithful(b)' BY <1>3, <1>4, <1>6, <1>7 DEF BackupIsFaithful
<1>9. DestinationIsWhole' /\ faults' \in 0..MaxFaults BY <1>1 DEF DestinationIsWhole, TypeOK
<1> HIDE DEF Snapshot
<1>10. UNCHANGED <<live, files, server, purge, adopted, dest, durable>> BY DEF Snapshot
<1>11. run'[b].step # "reading" BY <1>4, <1>6
<1> QED BY <1>6, <1>8, <1>9, <1>10, <1>11, BackupStep

LEMMA VerifyStagedIInv == ASSUME IInv, NEW b \in Backups, VerifyStaged(b) PROVE IInv'
<1> USE DEF VerifyStaged
<1>1. TypeOK /\ DestinationIsWhole /\ BackupIsFaithful(b) BY DEF IInv, BackupsAreFaithful
<1>2. b \in Runs BY DEF Runs
<1>3. CASE Failing(b) BY <1>1, <1>3, BackupFails DEF TypeOK
<1>4. CASE Advance(b, "verified")
    <2>1. /\ run' \in [Runs -> Run] /\ \A q \in Runs \ {b} : run'[q] = run[q]
          /\ run'[b].step = "verified" /\ run'[b].file = run[b].file
          /\ run'[b].from = run[b].from
        BY <1>1, <1>2, <1>4, AdvanceProperties DEF Steps
    <2>2. BackupIsFaithful(b)' BY <1>1, <2>1 DEF BackupIsFaithful
    <2>3. DestinationIsWhole' /\ faults' \in 0..MaxFaults BY <1>1 DEF DestinationIsWhole, TypeOK
    <2> QED BY <2>1, <2>2, <2>3, BackupStep
<1> QED BY <1>3, <1>4

LEMMA PublishIInv == ASSUME IInv, NEW b \in Backups, Publish(b) PROVE IInv'
<1> USE DEF Publish
<1>1. TypeOK /\ DestinationIsWhole /\ BackupIsFaithful(b) BY DEF IInv, BackupsAreFaithful
<1>2. b \in Runs BY DEF Runs
<1>3. CASE Failing(b) /\ UNCHANGED dest BY <1>1, <1>3, BackupFails DEF TypeOK
<1>4. CASE dest = None /\ dest' = run[b].file /\ Advance(b, "linked")
    <2>1. /\ run' \in [Runs -> Run] /\ \A q \in Runs \ {b} : run'[q] = run[q]
          /\ run'[b].step = "linked" /\ run'[b].file = run[b].file
          /\ run'[b].from = run[b].from
        BY <1>1, <1>2, <1>4, AdvanceProperties DEF Steps
    <2>2. dest' \in File /\ dest'.synced /\ Faithful(dest'.image, run[b].from)
        BY <1>1, <1>4 DEF BackupIsFaithful
    <2>3. BackupIsFaithful(b)' BY <1>1, <1>4, <2>1, <2>2 DEF BackupIsFaithful
    <2>4. Consistent(dest'.image) /\ dest'.image.sound /\ dest'.image.version <= Current
        BY <2>2 DEF Faithful, Inspected, Consistent
    <2>5. DestinationIsWhole' BY <1>1, <1>4, <2>2, <2>4 DEF DestinationIsWhole
    <2>6. faults' \in 0..MaxFaults BY <1>1 DEF TypeOK
    <2> QED BY <1>4, <2>1, <2>3, <2>4, <2>5, <2>6, BackupStep
<1> QED BY <1>3, <1>4

LEMMA SyncEntryIInv == ASSUME IInv, NEW b \in Backups, SyncEntry(b) PROVE IInv'
<1> USE DEF SyncEntry
<1>1. TypeOK /\ DestinationIsWhole /\ BackupIsFaithful(b) BY DEF IInv, BackupsAreFaithful
<1>2. b \in Runs BY DEF Runs
<1>3. /\ run' \in [Runs -> Run] /\ \A q \in Runs \ {b} : run'[q] = run[q]
      /\ run'[b].step = "synced" /\ run'[b].file = run[b].file
      /\ run'[b].from = run[b].from
    BY <1>1, <1>2, AdvanceProperties DEF Steps
<1>4. BackupIsFaithful(b)' BY <1>1, <1>3 DEF BackupIsFaithful
<1>5. DestinationIsWhole' /\ faults' \in 0..MaxFaults BY <1>1 DEF DestinationIsWhole, TypeOK
<1> QED BY <1>3, <1>4, <1>5, BackupStep

LEMMA CleanIInv == ASSUME IInv, NEW b \in Backups, Clean(b) PROVE IInv'
<1> USE DEF Clean
<1>1. TypeOK /\ DestinationIsWhole /\ BackupIsFaithful(b) BY DEF IInv, BackupsAreFaithful
<1>2. b \in Runs /\ run[b] \in Run BY <1>1 DEF Runs, TypeOK
<1>3. CASE Reset(b) BY <1>1, <1>3, BackupFails DEF TypeOK
<1>4. CASE run[b].step = "synced" /\ run' = [run EXCEPT ![b].step = "done", ![b].file = None]
    <2> DEFINE new == [run[b] EXCEPT !.step = "done", !.file = None]
    <2>1. new \in Run /\ new.step = "done" /\ new.from = run[b].from BY <1>2 DEF Run
    <2>2. run' = [run EXCEPT ![b] = new] BY <1>1, <1>4 DEF TypeOK
    <2>3. run' \in [Runs -> Run] /\ run'[b] = new /\ \A q \in Runs \ {b} : run'[q] = run[q]
        BY <1>1, <1>2, <2>1, <2>2, RunUpdate
    <2> HIDE DEF new
    <2>4. dest \in File /\ dest # None /\ Faithful(dest.image, run[b].from)
        BY <1>1, <1>4, DatabaseAssumption DEF BackupIsFaithful
    <2>5. BackupIsFaithful(b)' BY <1>1, <2>1, <2>3, <2>4 DEF BackupIsFaithful
    <2>6. DestinationIsWhole' /\ faults' \in 0..MaxFaults BY <1>1 DEF DestinationIsWhole, TypeOK
    <2>7. run'[b].step # "reading" BY <2>1, <2>3
    <2> QED BY <2>3, <2>5, <2>6, <2>7, BackupStep
<1> QED BY <1>3, <1>4

LEMMA FileFailsIInv == ASSUME IInv, NEW b \in Backups, FileFails(b) \/ Kill(b) PROVE IInv'
<1>1. faults' \in 0..MaxFaults BY DatabaseAssumption DEF FileFails, Kill, IInv, TypeOK
<1> QED BY <1>1, BackupFails DEF FileFails, Kill

-----------------------------------------------------------------------------
(* Steps of the drill: they change nothing but its run. *)
LEMMA DrillStep ==
    ASSUME IInv, UNCHANGED <<live, files, server, purge, dest, durable, adopted>>,
           run' \in [Runs -> Run], \A r \in Runs \ {Drill} : run'[r] = run[r],
           faults' \in 0..MaxFaults, DrillHasInspected'
    PROVE  IInv'
<1>1. TypeOK /\ LiveIsKnown /\ PurgeIsAlone /\ DestinationIsWhole /\ BackupsAreFaithful
    BY DEF IInv
<1>2. TypeOK' BY <1>1 DEF TypeOK
<1>3. LiveIsKnown' BY <1>1 DEF LiveIsKnown
<1>4. \A b \in Backups : run'[b] = run[b] BY DatabaseAssumption DEF Runs
<1>5. PurgeIsAlone' BY <1>1, <1>4 DEF PurgeIsAlone, Locked, Connected, ServerConnected
<1>6. DestinationIsWhole' BY <1>1 DEF DestinationIsWhole
<1>7. BackupsAreFaithful' BY <1>1, <1>4 DEF BackupsAreFaithful, BackupIsFaithful
<1> QED BY <1>2, <1>3, <1>5, <1>6, <1>7 DEF IInv

LEMMA DrillIInv == ASSUME IInv, CopyArtifact \/ DrillCopy \/ Recheck \/ Kill(Drill) PROVE IInv'
<1>1. TypeOK /\ DestinationIsWhole /\ DrillHasInspected BY DEF IInv
<1>2. Drill \in Runs BY DEF Runs
<1>3. faults' \in 0..MaxFaults
    <2>1. CASE Kill(Drill) BY <1>1, <2>1, DatabaseAssumption DEF TypeOK, Kill
    <2>2. CASE UNCHANGED faults BY <1>1, <2>2 DEF TypeOK
    <2> QED BY <2>1, <2>2 DEF CopyArtifact, DrillCopy, Recheck
<1>4. UNCHANGED <<live, files, server, purge, dest, durable, adopted>>
    BY DEF CopyArtifact, DrillCopy, Recheck, Kill
<1>5. CASE Reset(Drill)
    <2>1. /\ run' \in [Runs -> Run] /\ \A q \in Runs \ {Drill} : run'[q] = run[q]
          /\ run'[Drill].step \in {"idle", "failing"}
        BY <1>1, <1>2, <1>5, ResetProperties
    <2>2. DrillHasInspected' BY <2>1 DEF DrillHasInspected
    <2> QED BY <1>3, <1>4, <2>1, <2>2, DrillStep
<1>6. CASE /\ dest # None /\ Inspected(dest.image, TRUE)
           /\ run' = [run EXCEPT ![Drill] = [Idle EXCEPT !.step = "copied", !.seen = dest.image]]
    <2> DEFINE new == [Idle EXCEPT !.step = "copied", !.seen = dest.image]
    <2>1. dest.image \in Image BY <1>1, <1>6 DEF DestinationIsWhole, File
    <2>2. new \in Run /\ new.step = "copied" /\ new.seen = dest.image BY <2>1 DEF Idle, Run
    <2>3. run' \in [Runs -> Run] /\ run'[Drill] = new /\ \A q \in Runs \ {Drill} : run'[q] = run[q]
        BY <1>1, <1>2, <1>6, <2>2, RunUpdate
    <2> HIDE DEF new
    <2>4. DrillHasInspected' BY <1>6, <2>1, <2>2, <2>3 DEF DrillHasInspected
    <2> QED BY <1>3, <1>4, <2>3, <2>4, DrillStep
<1>7. CASE run[Drill].step = "copied" /\ Advance(Drill, "drilled")
    <2>1. /\ run' \in [Runs -> Run] /\ \A q \in Runs \ {Drill} : run'[q] = run[q]
          /\ run'[Drill].step = "drilled" /\ run'[Drill].seen = run[Drill].seen
        BY <1>1, <1>2, <1>7, AdvanceProperties DEF Steps
    <2>2. DrillHasInspected' BY <1>1, <1>7, <2>1 DEF DrillHasInspected
    <2> QED BY <1>3, <1>4, <2>1, <2>2, DrillStep
<1>8. CASE /\ run[Drill].step = "drilled" /\ dest.image = run[Drill].seen
           /\ run' = [run EXCEPT ![Drill] = [Idle EXCEPT !.step = "done"]]
    <2> DEFINE new == [Idle EXCEPT !.step = "done"]
    <2>1. new \in Run /\ new.step = "done" BY DEF Idle, Run
    <2>2. run' \in [Runs -> Run] /\ run'[Drill] = new /\ \A q \in Runs \ {Drill} : run'[q] = run[q]
        BY <1>1, <1>2, <1>8, <2>1, RunUpdate
    <2> HIDE DEF new
    <2>3. Inspected(dest.image, TRUE) BY <1>1, <1>8 DEF DrillHasInspected
    <2>4. dest.image.version <= Current BY <2>3 DEF Inspected, Legacy, Current
    <2>5. DrillHasInspected' BY <1>4, <2>1, <2>2, <2>4 DEF DrillHasInspected
    <2> QED BY <1>3, <1>4, <2>2, <2>5, DrillStep
<1>9. CASE run' = [run EXCEPT ![Drill] = Idle] BY <1>5, <1>9 DEF Reset
<1> QED BY <1>5, <1>6, <1>7, <1>8, <1>9 DEF CopyArtifact, DrillCopy, Recheck, Kill
-----------------------------------------------------------------------------
(* Steps of the operator and of the machine. *)

LEMMA ForgottenProperties ==
    ASSUME TypeOK, run' = Forgotten
    PROVE  /\ run' \in [Runs -> Run]
           /\ \A r \in Runs : run'[r] = run[r] \/ run'[r].step = "idle"
           /\ \A r \in Runs : run'[r].step # "done"
<1>1. run' \in [Runs -> Run] BY IdleType DEF TypeOK, Forgotten
<1>2. \A r \in Runs : run'[r] = IF Reported(r) THEN Idle ELSE run[r] BY DEF Forgotten
<1> QED BY <1>1, <1>2 DEF Reported, Idle

LEMMA DiscardIInv == ASSUME IInv, Discard PROVE IInv'
<1> USE DEF Discard
<1>1. TypeOK /\ LiveIsKnown /\ PurgeIsAlone /\ BackupsAreFaithful /\ DrillHasInspected
    BY DEF IInv
<1>2. /\ run' \in [Runs -> Run]
      /\ \A r \in Runs : run'[r] = run[r] \/ run'[r].step = "idle"
      /\ \A r \in Runs : run'[r].step # "done"
    BY <1>1, ForgottenProperties
<1>3. \A im \in Artifacts : [image |-> im, synced |-> TRUE] \in File
    BY DatabaseAssumption DEF File
<1>4. DestinationIsWhole' BY <1>3, DatabaseAssumption DEF DestinationIsWhole
<1>5. TypeOK' BY <1>1, <1>2, <1>4 DEF TypeOK, DestinationIsWhole
<1>6. LiveIsKnown' BY <1>1 DEF LiveIsKnown
<1>7. PurgeIsAlone'
    <2>1. \A b \in Backups : run'[b].step = "reading" => run[b].step = "reading"
        BY <1>2 DEF Runs
    <2> QED BY <1>1, <2>1 DEF PurgeIsAlone, Locked, Connected, ServerConnected
<1>8. BackupsAreFaithful'
    <2> SUFFICES ASSUME NEW b \in Backups PROVE BackupIsFaithful(b)' BY DEF BackupsAreFaithful
    <2>1. BackupIsFaithful(b) /\ b \in Runs BY <1>1 DEF BackupsAreFaithful, Runs
    <2>2. run[b].step \notin {"linked", "synced"} OBVIOUS
    <2>3. CASE run'[b].step = "idle" BY <2>3 DEF BackupIsFaithful
    <2>4. CASE run'[b] = run[b]
        <3>1. run'[b].step \notin {"linked", "synced", "done"} BY <1>2, <2>1, <2>2, <2>4
        <3> QED BY <2>1, <2>4, <3>1 DEF BackupIsFaithful
    <2> QED BY <1>2, <2>1, <2>3, <2>4
<1>9. DrillHasInspected' BY <1>1, <1>2 DEF DrillHasInspected, Runs
<1> QED BY <1>4, <1>5, <1>6, <1>7, <1>8, <1>9 DEF IInv

LEMMA AdoptIInv == ASSUME IInv, Adopt PROVE IInv'
<1> USE DEF Adopt
<1>1. TypeOK /\ DestinationIsWhole /\ BackupsAreFaithful /\ DrillHasInspected BY DEF IInv
<1>2. live' \in Image /\ Consistent(live') /\ live'.version <= Current
    <2>1. dest.image \in Image BY <1>1 DEF DestinationIsWhole, File
    <2>2. dest.image.version <= Current BY <1>1 DEF DrillHasInspected, Reported
    <2>3. ~(dest.image.version > Current) BY <2>1, <2>2 DEF Image, Current, Legacy
    <2> QED BY <1>1, <2>1, <2>2, <2>3 DEF DestinationIsWhole
<1>3. TypeOK' BY <1>1, <1>2 DEF TypeOK
<1>4. LiveIsKnown' BY <1>2 DEF LiveIsKnown
<1>5. PurgeIsAlone' BY DEF PurgeIsAlone, Locked
<1>6. DestinationIsWhole' BY <1>1 DEF DestinationIsWhole
<1>7. BackupsAreFaithful'
    <2> SUFFICES ASSUME NEW b \in Backups PROVE BackupIsFaithful(b)' BY DEF BackupsAreFaithful
    <2>1. BackupIsFaithful(b) /\ run[b].step \in {"idle", "done"}
        BY <1>1 DEF BackupsAreFaithful, Runs
    <2> QED BY <2>1 DEF BackupIsFaithful
<1>8. DrillHasInspected' BY <1>1 DEF DrillHasInspected
<1> QED BY <1>3, <1>4, <1>5, <1>6, <1>7, <1>8 DEF IInv

LEMMA PowerLossIInv == ASSUME IInv, PowerLoss PROVE IInv'
<1> USE DEF PowerLoss
<1>1. TypeOK /\ LiveIsKnown /\ DestinationIsWhole /\ BackupsAreFaithful /\ DrillHasInspected
    BY DEF IInv
<1>2. dest' \in {None, dest} /\ (durable = dest => dest' = dest)
    <2>1. CASE dest = None BY <1>1, <2>1 DEF DestinationIsWhole
    <2>2. CASE dest # None
        <3> DEFINE torn == [image |-> [dest.image EXCEPT !.sound = @ /\ dest.synced], synced |-> TRUE]
        <3>1. dest \in File /\ dest.image \in Image /\ dest.synced = TRUE /\ dest.image.sound = TRUE
            BY <1>1, <2>2 DEF DestinationIsWhole, File, Image
        <3>2. [dest.image EXCEPT !.sound = @ /\ dest.synced] = dest.image BY <3>1 DEF Image
        <3>3. torn = dest BY <3>1, <3>2 DEF File
        <3> QED BY <1>1, <2>2, <3>3 DEF DestinationIsWhole
    <2> QED BY <2>1, <2>2
<1>3. /\ run' \in [Runs -> Run]
      /\ \A r \in Runs : run'[r].step \in {"idle", "done"}
      /\ \A r \in Runs : run'[r].step = "done" => run'[r] = run[r]
    <2>1. run' \in [Runs -> Run] BY <1>1, IdleType DEF TypeOK
    <2>2. \A r \in Runs : run'[r] = IF Reported(r) THEN run[r] ELSE Idle OBVIOUS
    <2> QED BY <2>1, <2>2 DEF Reported, Idle
<1>4. faults' \in 0..MaxFaults BY <1>1, DatabaseAssumption DEF TypeOK
<1>5. DestinationIsWhole' BY <1>1, <1>2 DEF DestinationIsWhole
<1>6. UNCHANGED <<live, files, adopted>> /\ server' = "down" /\ purge' = "idle" OBVIOUS
<1>7. dest' \in File \cup {None} /\ durable' = dest' BY <1>1, <1>2 DEF TypeOK
<1> HIDE DEF PowerLoss
<1>8. TypeOK' BY <1>1, <1>3, <1>4, <1>6, <1>7 DEF TypeOK, Purges
<1>9. LiveIsKnown' BY <1>1, <1>6 DEF LiveIsKnown
<1>10. PurgeIsAlone' BY <1>6 DEF PurgeIsAlone, Locked
<1>11. BackupsAreFaithful'
    <2> SUFFICES ASSUME NEW b \in Backups PROVE BackupIsFaithful(b)' BY DEF BackupsAreFaithful
    <2>1. BackupIsFaithful(b) /\ b \in Runs BY <1>1 DEF BackupsAreFaithful, Runs
    <2>2. CASE run'[b].step = "idle" BY <2>2 DEF BackupIsFaithful
    <2>3. CASE run'[b].step = "done"
        <3>1. run'[b] = run[b] /\ run[b].step = "done" BY <1>3, <2>1, <2>3
        <3>2. dest' = dest BY <1>2, <2>1, <3>1 DEF BackupIsFaithful
        <3> QED BY <1>7, <2>1, <3>1, <3>2 DEF BackupIsFaithful
    <2> QED BY <1>3, <2>1, <2>2, <2>3
<1>12. DrillHasInspected' BY <1>1, <1>2, <1>3 DEF DrillHasInspected, Runs
<1> QED BY <1>5, <1>8, <1>9, <1>10, <1>11, <1>12 DEF IInv

LEMMA StepIInv == ASSUME IInv, [Next]_vars PROVE IInv'
<1>1. CASE UNCHANGED vars
    <2>1. TypeOK' BY <1>1 DEF vars, IInv, TypeOK
    <2>2. LiveIsKnown' BY <1>1 DEF vars, IInv, LiveIsKnown
    <2>3. PurgeIsAlone' BY <1>1 DEF vars, IInv, PurgeIsAlone, Locked, Connected, ServerConnected
    <2>4. DestinationIsWhole' BY <1>1 DEF vars, IInv, DestinationIsWhole
    <2>5. BackupsAreFaithful' BY <1>1 DEF vars, IInv, BackupsAreFaithful, BackupIsFaithful
    <2>6. DrillHasInspected' BY <1>1 DEF vars, IInv, DrillHasInspected
    <2> QED BY <2>1, <2>2, <2>3, <2>4, <2>5, <2>6 DEF IInv
<1>2. CASE Start \/ Prepare \/ Write \/ Stop
    BY <1>2, StartIInv, PrepareIInv, WriteIInv, StopIInv
<1>3. CASE \E b \in Backups :
              \/ BeginBackup(b) \/ Snapshot(b) \/ VerifyStaged(b)
              \/ Publish(b) \/ SyncEntry(b) \/ Clean(b) \/ FileFails(b)
    BY <1>3, BeginBackupIInv, SnapshotIInv, VerifyStagedIInv, PublishIInv, SyncEntryIInv,
       CleanIInv, FileFailsIInv
<1>4. CASE CopyArtifact \/ DrillCopy \/ Recheck BY <1>4, DrillIInv
<1>5. CASE \E r \in Runs : Kill(r) BY <1>5, DrillIInv, FileFailsIInv DEF Runs
<1>6. CASE \/ OpenPurge \/ LeaveWal \/ Lock \/ DeleteRows \/ Vacuum \/ FinalCheckpoint \/ KillPurge
    BY <1>6, PurgeIInv, KillPurgeIInv
<1>7. CASE Discard \/ Adopt \/ PowerLoss BY <1>7, DiscardIInv, AdoptIInv, PowerLossIInv
<1> QED BY <1>1, <1>2, <1>3, <1>4, <1>5, <1>6, <1>7 DEF Next

-----------------------------------------------------------------------------
(* The theorems. *)

(* Whatever the processes, the operator and faults do, in any order. *)
THEOREM Invariance == Spec => []IInv
BY InitIInv, StepIInv, PTL DEF Spec

(* The database, its files and the runs keep their types. *)
THEOREM TypeCorrect == Spec => []TypeOK
<1>1. IInv => TypeOK BY DEF IInv
<1> QED BY <1>1, Invariance, PTL

(* A backup that the command reported is at the destination and on stable  *)
(* storage, whole, of this release, and no older than the command; nothing *)
(* torn ever lies there.                                                   *)
THEOREM WholeBackups == Spec => []BackupsAreWhole
<1>1. IInv => BackupsAreWhole
    BY DEF IInv, DestinationIsWhole, BackupsAreFaithful, BackupIsFaithful, Faithful,
           BackupsAreWhole, Reported
<1> QED BY <1>1, Invariance, PTL

(* The server serves only a database with the schema and the actor method  *)
(* of its release, and does not refuse an artifact the drill accepted.     *)
THEOREM PreparedServing == Spec => []ServingIsPrepared
<1>1. IInv => ServingIsPrepared
    <2> SUFFICES ASSUME IInv PROVE ServingIsPrepared OBVIOUS
    <2>1. LiveIsKnown /\ live.version \in Int
        BY DEF IInv, TypeOK, Image, Current, Legacy
    <2>2. server = "up" => Consistent(live) BY <2>1 DEF LiveIsKnown, Current
    <2> QED BY <2>1, <2>2 DEF LiveIsKnown, ServingIsPrepared, Consistent, Current
<1> QED BY <1>1, Invariance, PTL

(* Only the operator and a loss of power change an artifact: publishing is *)
(* a link, which fails when the destination exists.                        *)
THEOREM ArtifactsStay == Spec => NeverReplaced
<1>1. [Next]_vars => [dest # None /\ dest' # dest => Discard \/ PowerLoss]_vars
    BY DEF Next, vars, Start, Prepare, Write, Stop, BeginBackup, Snapshot, VerifyStaged, Publish,
           SyncEntry, Clean, FileFails, CopyArtifact, DrillCopy, Recheck, Kill, OpenPurge,
           LeaveWal, Lock, DeleteRows, Vacuum, FinalCheckpoint, KillPurge, Adopt, PurgeStep
<1> QED BY <1>1, PTL DEF Spec, NeverReplaced

(* No opening, by the server or the purge, and no write takes the database *)
(* back: version, installation secret and rows.                            *)
THEOREM ForwardMigration == Spec => MigrationIsForward
<1> DEFINE Forward == /\ live.version <= Current /\ live'.version >= live.version
                      /\ live.secret \in {None, live'.secret}
                      /\ live'.rows >= live.rows
<1>1. ASSUME IInv, [Next]_vars, live' # live PROVE Adopt \/ Forward
    <2>1. live \in Image /\ live.rows \in Nat /\ live.version \in Int /\ LiveIsKnown
        BY <1>1 DEF IInv, TypeOK, Image, Current, Legacy
    <2>2. CASE Start \/ OpenPurge
        <3>1. live.version <= Current
            BY <1>1, <2>1, <2>2 DEF Start, OpenPurge, Current
        <3>2. PICK secret \in Secrets : OpenStore(secret) BY <1>1, <2>2 DEF Start, OpenPurge
        <3>3. /\ live'.version >= live.version /\ live.secret \in {None, live'.secret}
              /\ live'.rows = live.rows
            BY <1>1, <3>1, <3>2, OpenProperties
        <3> QED BY <2>1, <3>1, <3>3
    <2>3. CASE Prepare
        <3>1. live.version = Current /\ Consistent(live)
            BY <2>1, <2>3 DEF Prepare, LiveIsKnown, Current
        <3>2. live'.version = live.version /\ live'.secret = live.secret /\ live'.rows = live.rows
            BY <2>1, <2>3, <3>1, PrepareProperties DEF Prepare
        <3> QED BY <2>1, <3>1, <3>2 DEF Current
    <2>4. CASE Write \/ DeleteRows
        <3>1. live.version = Current BY <2>1, <2>4 DEF Write, DeleteRows, LiveIsKnown
        <3>2. live'.version = live.version /\ live'.secret = live.secret
              /\ (live'.rows = live.rows \/ live'.rows = live.rows + 1)
            <4>1. CASE Write BY <2>1, <4>1 DEF Write, Image
            <4>2. CASE DeleteRows BY <2>1, <4>2 DEF DeleteRows, Image
            <4> QED BY <2>4, <4>1, <4>2
        <3> QED BY <2>1, <3>1, <3>2 DEF Current
    <2> QED BY <1>1, <2>2, <2>3, <2>4
        DEF Next, vars, Stop, BeginBackup, Snapshot, VerifyStaged, Publish, SyncEntry, Clean,
            FileFails, CopyArtifact, DrillCopy, Recheck, Kill, LeaveWal, Lock, Vacuum,
            FinalCheckpoint, KillPurge, Discard, PowerLoss
<1>2. IInv /\ [Next]_vars => [live' # live => Adopt \/ Forward]_vars BY <1>1
<1> QED BY <1>2, Invariance, PTL DEF Spec, MigrationIsForward

(* The purge deletes only while it is alone, and reports success only when *)
(* nothing of the deleted rows is left in the files.                       *)
THEOREM FailClosedPurge == Spec => PurgeFailsClosed
<1> DEFINE Closed == /\ live.provider /\ ~live'.provider => ~Connected
                     /\ purge' = "ok" => files' = [wal |-> FALSE, mode |-> "wal", free |-> FALSE]
<1>1. ASSUME IInv, [Next]_vars, purge' # purge PROVE Closed
    <2>1. TypeOK /\ LiveIsKnown /\ PurgeIsAlone BY <1>1 DEF IInv
    <2>2. CASE OpenPurge
        <3>1. live.version <= Current BY <2>2 DEF OpenPurge, Current
        <3>2. live'.provider = live.provider
            BY <1>1, <2>2, <3>1, OpenProperties DEF OpenPurge
        <3> QED BY <2>2, <3>2 DEF OpenPurge, PurgeStep
    <2>3. CASE DeleteRows
        BY <2>1, <2>3 DEF DeleteRows, PurgeStep, PurgeIsAlone, Locked
    <2>4. CASE FinalCheckpoint
        <3>1. live' = live BY <2>4 DEF FinalCheckpoint
        <3>2. purge' = "ok" => files' = [wal |-> FALSE, mode |-> "wal", free |-> FALSE]
            <4> SUFFICES ASSUME purge' = "ok"
                         PROVE  files' = [wal |-> FALSE, mode |-> "wal", free |-> FALSE]
                OBVIOUS
            <4>1. files' = [files EXCEPT !.wal = FALSE] /\ purge = "restored"
                BY <2>4 DEF FinalCheckpoint, PurgeStep
            <4>2. files.free = FALSE /\ files.mode = "wal"
                  /\ files \in [wal: BOOLEAN, mode: {"wal", "delete"}, free: BOOLEAN]
                BY <2>1, <4>1 DEF PurgeIsAlone, TypeOK
            <4> QED BY <4>1, <4>2
        <3> QED BY <3>1, <3>2
    <2>5. CASE LeaveWal \/ Lock \/ Vacuum \/ KillPurge \/ PowerLoss
        BY <2>5 DEF LeaveWal, Lock, Vacuum, KillPurge, PowerLoss, PurgeStep
    <2> QED BY <1>1, <2>2, <2>3, <2>4, <2>5
        DEF Next, vars, Start, Prepare, Write, Stop, BeginBackup, Snapshot, VerifyStaged, Publish,
            SyncEntry, Clean, FileFails, CopyArtifact, DrillCopy, Recheck, Kill, Discard, Adopt
<1>2. IInv /\ [Next]_vars => [purge' # purge => Closed]_vars BY <1>1
<1> QED BY <1>2, Invariance, PTL DEF Spec, PurgeFailsClosed
=============================================================================
