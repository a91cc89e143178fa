--------------------------- MODULE DatabaseSchema ---------------------------
(***************************************************************************)
(* What one database file of the application holds, as far as opening,     *)
(* migrating, backing up and restoring it can tell: the release that wrote *)
(* its schema, the groups of tables and the forms of those tables that     *)
(* changed from release to release, the installation secret, the actor     *)
(* method revision, and of the rows only what a migration or a check looks *)
(* at.  Every operator is a pure function of such an image.                *)
(***************************************************************************)
EXTENDS Integers

CONSTANTS
    None,       \* no secret, no method, no file
    Secrets     \* installation secrets; randomblob(32) is any of them

-----------------------------------------------------------------------------
(* Releases.  The user_version each one leaves. *)

Current == 902
Legacy == {501, 600, 700, 800, 801, 900, 901}

(* The revisions of the actor method: the one of this release, the one     *)
(* deployed with v0.9.1, and one nobody knows.                             *)
Methods == {"current", "previous", "unknown"}

(* The groups of tables, with the release each came with. *)
FirstRelease == [feed |-> 501, outcome |-> 600, risk |-> 700, brief |-> 800, actor |-> 900, identity |-> 902]

Groups(version) == {g \in DOMAIN FirstRelease : FirstRelease[g] <= version}

(* The alerts and events tables: as first released, with the columns of    *)
(* v0.8.0, and with the outbox CHECK of v0.8.1.                            *)
AlertsForm(version) ==
    IF version < 800 THEN "plain" ELSE IF version = 800 THEN "columns" ELSE "checked"
EventsForm(version) == IF version < 800 THEN "plain" ELSE "columns"

(* actor_installation without and with its method_revision column. *)
InstallationForm(version) ==
    IF version < 900 THEN None ELSE IF version = 900 THEN "bare" ELSE "revised"

Image ==
    [version: {0, Current, 903} \cup Legacy,
     groups: SUBSET Groups(Current),
     alerts: {"plain", "added", "columns", "checked"},
     events: {"plain", "added", "columns"},
     installation: {None, "bare", "revised"},
     secret: Secrets \cup {None},
     method: Methods \cup {None, "uninitialized"},
     actors: Methods \cup {None},        \* the method the stored actor evidence was collected by
     due: {None, "canonical", "malformed"},  \* a pending alert and the form of its due time
     provider: BOOLEAN,                  \* rows derived from a provider
     raw: BOOLEAN,                       \* an actor payload carrying a raw identity
     rows: Nat,                          \* application writes committed
     sound: BOOLEAN]                     \* integrity_check and foreign_key_check pass

(* A database as release `version` leaves it. *)
Released(version, secret, method, actors, due, raw) ==
    [version |-> version, groups |-> Groups(version),
     alerts |-> AlertsForm(version), events |-> EventsForm(version),
     installation |-> InstallationForm(version),
     secret |-> IF version < 900 THEN None ELSE secret,
     method |-> IF version < 901 THEN None ELSE method,
     actors |-> IF version < 900 THEN None ELSE actors,
     due |-> due, provider |-> FALSE, raw |-> raw, rows |-> 0, sound |-> TRUE]

Empty ==
    [version |-> 0, groups |-> {}, alerts |-> "plain", events |-> "plain", installation |-> None,
     secret |-> None, method |-> None, actors |-> None, due |-> None,
     provider |-> FALSE, raw |-> FALSE, rows |-> 0, sound |-> TRUE]

(* Every object of the schema is exactly that of the release. *)
ExactSchema(im) ==
    /\ im.groups = Groups(im.version)
    /\ im.alerts = AlertsForm(im.version)
    /\ im.events = EventsForm(im.version)
    /\ im.installation = InstallationForm(im.version)

(* A database this release can take over: a release left it, or this one   *)
(* was interrupted between the migration and the preparation.  Evidence    *)
(* under the present method was collected by it; an empty database has no  *)
(* alert, and from 900 on the table has the CHECK on the form of due times. *)
Consistent(im) ==
    /\ im.version <= Current
    /\ ExactSchema(im)
    /\ im.method = "current" => im.actors \in {None, "current"}
    /\ im.version = 0 \/ im.version >= 900 => im.due # "malformed"

-----------------------------------------------------------------------------
(* The migration: one transaction of the Store constructor. *)

(* CREATE TABLE IF NOT EXISTS: what is missing is created in its present   *)
(* form, what exists stays as it is.                                       *)
CreateMissing(im) ==
    [im EXCEPT
        !.groups = Groups(Current),
        !.alerts = IF "feed" \in im.groups THEN @ ELSE "checked",
        !.events = IF "feed" \in im.groups THEN @ ELSE "columns",
        !.installation = IF "actor" \in im.groups THEN @ ELSE "revised"]

(* ALTER TABLE ADD COLUMN for each column an older table lacks; it comes   *)
(* last, not where the present schema has it.                              *)
AddColumns(im) ==
    [im EXCEPT
        !.alerts = IF @ = "plain" THEN "added" ELSE @,
        !.events = IF @ = "plain" THEN "added" ELSE @,
        !.installation = "revised",
        !.method = IF im.installation = "bare" THEN "uninitialized" ELSE @]

(* Mutant: only databases older than the outbox columns are rebuilt. *)
MutantRebuildTables(im) ==
    IF 0 < im.version /\ im.version < 800
    THEN [im EXCEPT !.alerts = "checked",
                    !.events = "columns",
                    !.due = IF @ = "malformed" THEN "canonical" ELSE @]
    ELSE im

(* Before 900 both tables are copied into ones of the present form, and a  *)
(* pending row whose due time is malformed becomes due at once.            *)
RebuildTables(im) ==
    IF 0 < im.version /\ im.version < 900
    THEN [im EXCEPT !.alerts = "checked",
                    !.events = "columns",
                    !.due = IF @ = "malformed" THEN "canonical" ELSE @]
    ELSE im

(* Mutant: INSERT OR REPLACE. *)
MutantStamp(im, secret) ==
    [im EXCEPT !.secret = secret,
               !.method = IF im.secret = None THEN "uninitialized" ELSE @,
               !.version = Current]

(* INSERT OR IGNORE of the installation, then the version. *)
Stamp(im, secret) ==
    [im EXCEPT !.secret = IF @ = None THEN secret ELSE @,
               !.method = IF im.secret = None THEN "uninitialized" ELSE @,
               !.version = Current]

Migrate(im, secret) == Stamp(RebuildTables(AddColumns(CreateMissing(im))), secret)

(* prepareActorMethodRevision: evidence collected by another method goes,  *)
(* together with the record of which method it was.                        *)
PrepareActorMethod(im) ==
    IF im.method = "current" THEN im
    ELSE [im EXCEPT !.method = "current", !.actors = None]

-----------------------------------------------------------------------------
(* The checks of the backup and of the restore drill. *)

(* The method revision the verifier accepts. *)
KnownMethod(im, allowLegacy) ==
    \/ im.method = "current"
    \/ allowLegacy /\ im.version \in {901, Current} /\ im.method = "previous"

(* inspectOpenDatabase *)
Inspected(im, allowLegacy) ==
    /\ im.sound
    /\ im.version \in (IF allowLegacy THEN Legacy ELSE {}) \cup {Current}
    /\ ExactSchema(im)
    /\ im.version >= 900 => im.secret # None /\ ~im.raw
    /\ im.version >= 901 => KnownMethod(im, allowLegacy)

(* verifyApplicationWrites, all of it inside a transaction that is rolled  *)
(* back: an alert due now is accepted and one that could never be          *)
(* delivered is rejected;                                                  *)
AlertProbe(im) == im.alerts = "checked" /\ im.events = "columns"

(* actor evidence is admitted, deduplicated, expired and summarised under  *)
(* a method that needs no preparation and a secret that a reopening keeps; *)
ActorProbe(im, secret) ==
    /\ "actor" \in im.groups
    /\ PrepareActorMethod(im) = im
    /\ Migrate(im, secret).secret = im.secret

(* and a reviewed identity with its variants, relationship, proposal and   *)
(* decision can be stored.                                                 *)
IdentityProbe(im) == "identity" \in im.groups

(* What a disposable copy becomes before the application writes to it. *)
Restored(im, secret) ==
    IF im.version # Current \/ im.method # "current"
    THEN PrepareActorMethod(Migrate(im, secret))
    ELSE im

(* The drill on a copy whose inspection allowed a legacy release. *)
Restorable(im, secret) ==
    LET copy == Restored(im, secret) IN
    /\ Inspected(copy, FALSE)
    /\ AlertProbe(copy)
    /\ ActorProbe(copy, secret)
    /\ IdentityProbe(copy)
=============================================================================
