------------------------------ MODULE Storage -------------------------------
(***************************************************************************)
(* The per-workspace databases: sessions, each with a Root of its own, that *)
(* open, migrate, stamp, use, back up, restore and close them, at the same *)
(* time and with crashes between any two steps, and the data-side record   *)
(* of a workspace.                                                         *)
(*                                                                         *)
(* A database is abstracted to the migrations applied to it, its workspace *)
(* stamp and the workspace whose rows it holds.  A transaction is one step *)
(* (SQLite, external).                                                     *)
(***************************************************************************)
EXTENDS Naturals, Sequences, FiniteSets

CONSTANTS
    Workspaces,   \* workspace ids
    Sessions,     \* session.Open ... Close, in one process or in several
    Indices,      \* the databases, in the order OpenWorkspace opens them
    Target,       \* version.SchemaVersions
    Older,        \* workspaces a backup of which, by an older build, may be at hand
    NoWs,         \* no workspace
    MaxSnaps      \* bound on the backup directories

VARIABLES
    file,     \* workspace -> database -> what the file holds
    premig,   \* the copies under pre-migration/
    sess,     \* the sessions
    snaps,    \* the backup directories
    record,   \* workspace.json and its temporary file
    slots     \* workspaces with saved inference slots

stvars == <<file, premig, sess, snaps, record, slots>>

Last == Cardinality(Indices)

\* A database file.  `steps` are the migrations applied, `born` the version it
\* had when it was created or put there, `origin` the workspace whose rows it
\* holds; a file is not `whole` when its writer died half way.
NoFile == [there |-> FALSE, whole |-> TRUE, steps |-> <<>>, stamp |-> NoWs,
           origin |-> NoWs, born |-> 0]

OldFile(w) == [there |-> TRUE, whole |-> TRUE, steps |-> <<1>>, stamp |-> w,
               origin |-> w, born |-> 1]

\* A directory with some of the databases of a workspace.
OldBackup(w, kept) == [i \in Indices |-> IF i \in kept THEN OldFile(w) ELSE NoFile]

\* To SQLite a file of no bytes is a new database.
Emptied == [NoFile EXCEPT !.there = TRUE]

Version(f) == Len(f.steps)

Closed == [pc |-> "closed", ws |-> NoWs, at |-> 1, from |-> 0, held |-> {},
           active |-> NoWs, snap |-> <<>>, why |-> "use"]

StInit ==
    /\ file \in {h \in [Workspaces -> {[i \in Indices |-> NoFile]} \cup
                          {[i \in Indices |-> OldFile(w)] : w \in Workspaces}] :
                    \A w \in Workspaces : h[w][1].origin \in {w, NoWs}}
    /\ premig = {}
    /\ sess = [s \in Sessions |-> Closed]
    /\ snaps \in {{}} \cup {{OldBackup(w, kept)} : w \in Older, kept \in SUBSET Indices}
    /\ record = [w \in Workspaces |-> [tmp |-> "none", now |-> "none"]]
    /\ slots = {}

Set(s, rec) == sess' = [sess EXCEPT ![s] = rec]

\* Every error path closes the Root and the session is gone.
Fail(s) == Set(s, Closed)

-----------------------------------------------------------------------------
(* session.Open and Root.OpenWorkspace *)

Restoring == {"restore", "copy"}

\* workspace.Open, store.OpenRoot and the workspace's directories.  Nobody opens
\* a workspace that is being restored: the command asks the operator for that.
Open(s, w) ==
    /\ sess[s].pc = "closed"
    /\ \A o \in Sessions : sess[o].ws = w => sess[o].why = "use" /\ sess[o].pc \notin Restoring
    /\ Set(s, [Closed EXCEPT !.pc = "open", !.ws = w])
    /\ UNCHANGED <<file, premig, snaps, record, slots>>

\* A faulty variant: an older database is migrated without a copy.
CourseUncopied(f, i) ==
    IF ~f.whole \/ Version(f) > Target[i] THEN "fail"
    ELSE IF Version(f) = Target[i] THEN "stamp" ELSE "migrate"

\* What migrate does with a database whose version it has read: quick_check comes
\* first, and an older one is copied.
Course(f, i) ==
    IF ~f.whole \/ Version(f) > Target[i] THEN "fail"
    ELSE IF Version(f) = Target[i] THEN "stamp"
    ELSE IF Version(f) = 0 THEN "migrate" ELSE "backup"

\* openDB, which creates a file that is not there, and currentVersion.
OpenDB(s) ==
    LET w == sess[s].ws
        i == sess[s].at
        f == IF file[w][i].there THEN file[w][i]
             ELSE [NoFile EXCEPT !.there = TRUE, !.origin = w]
    IN  /\ sess[s].pc = "open"
        /\ file' = [file EXCEPT ![w][i] = f]
        /\ IF Course(f, i) = "fail" THEN Fail(s)
           ELSE Set(s, [sess[s] EXCEPT !.pc = Course(f, i), !.from = Version(f)])
        /\ UNCHANGED <<premig, snaps, record, slots>>

\* backupBeforeMigrating: VACUUM INTO a new file, or no migration at all.
BackupBeforeMigrating(s) ==
    /\ sess[s].pc = "backup"
    /\ premig' = premig \cup {[ws |-> sess[s].ws, db |-> sess[s].at,
                               steps |-> file[sess[s].ws][sess[s].at].steps]}
    /\ Set(s, [sess[s] EXCEPT !.pc = "migrate"])
    /\ UNCHANGED <<file, snaps, record, slots>>

BackupFails(s) ==
    /\ sess[s].pc = "backup"
    /\ Fail(s)
    /\ UNCHANGED <<file, premig, snaps, record, slots>>

\* One migration, in one transaction with the version and the stamp.  A step
\* that is already applied fails: its tables and columns are there.
Migrate(s) ==
    LET w == sess[s].ws
        i == sess[s].at
        n == sess[s].from + 1
    IN  /\ sess[s].pc = "migrate"
        /\ IF \E k \in 1 .. Version(file[w][i]) : file[w][i].steps[k] = n
           THEN Fail(s) /\ UNCHANGED file
           ELSE /\ file' = [file EXCEPT ![w][i].steps = Append(@, n), ![w][i].stamp = w]
                /\ Set(s, [sess[s] EXCEPT !.from = n,
                                          !.pc = IF n = Target[i] THEN "stamp" ELSE "migrate"])
        /\ UNCHANGED <<premig, snaps, record, slots>>

\* verifyWorkspaceStamp; then the next database, or what the caller does next.
VerifyStamp(s) ==
    LET w == sess[s].ws
        i == sess[s].at
    IN  /\ sess[s].pc = "stamp"
        /\ IF file[w][i].stamp # w THEN Fail(s)
           ELSE IF i < Last
           THEN Set(s, [sess[s] EXCEPT !.pc = "open", !.at = i + 1, !.held = @ \cup {i}])
           ELSE Set(s, [sess[s] EXCEPT !.held = @ \cup {i},
                           !.pc = IF sess[s].why = "verify" THEN "ready" ELSE "switch"])
        /\ UNCHANGED <<file, premig, snaps, record, slots>>

\* Root.SwitchTo, on the Root this session has just opened: `active` is a field
\* of that Root.
SwitchTo(s) ==
    /\ sess[s].pc = "switch"
    /\ slots' = slots \ ({sess[s].active} \ {sess[s].ws})
    /\ Set(s, [sess[s] EXCEPT !.pc = "truncate", !.active = sess[s].ws])
    /\ UNCHANGED <<file, premig, snaps, record>>

\* RecordWorkspace: WriteFile truncates the temporary file, which has one name
\* for all sessions, and then writes it; the rename follows.  A writer whose
\* file another session has renamed meanwhile writes into the record itself.
RecordTruncate(s) ==
    /\ sess[s].pc = "truncate"
    /\ record' = [record EXCEPT ![sess[s].ws].tmp = "torn"]
    /\ Set(s, [sess[s] EXCEPT !.pc = "write"])
    /\ UNCHANGED <<file, premig, snaps, slots>>

RecordWrite(s) ==
    LET r == record[sess[s].ws] IN
    /\ sess[s].pc = "write"
    /\ record' = [record EXCEPT ![sess[s].ws] =
                     IF r.tmp # "none" THEN [r EXCEPT !.tmp = "ok"] ELSE [r EXCEPT !.now = "ok"]]
    /\ Set(s, [sess[s] EXCEPT !.pc = "rename"])
    /\ UNCHANGED <<file, premig, snaps, slots>>

RecordRename(s) ==
    LET r == record[sess[s].ws] IN
    /\ sess[s].pc = "rename"
    /\ IF r.tmp = "none"
       THEN Fail(s) /\ UNCHANGED record
       ELSE /\ record' = [record EXCEPT ![sess[s].ws] = [now |-> r.tmp, tmp |-> "none"]]
            /\ Set(s, [sess[s] EXCEPT !.pc = "ready"])
    /\ UNCHANGED <<file, premig, snaps, slots>>

-----------------------------------------------------------------------------
(* An open store *)

\* The inference server saves a slot for the workspace it serves (external).
SaveSlot(s) ==
    /\ sess[s].pc = "ready" /\ sess[s].ws \notin slots
    /\ slots' = slots \cup {sess[s].ws}
    /\ UNCHANGED <<file, premig, sess, snaps, record>>

\* Store.Backup: VACUUM INTO for each of the databases.
Backup(s) ==
    /\ sess[s].pc = "ready"
    /\ snaps' = snaps \cup {file[sess[s].ws]}
    /\ Cardinality(snaps') <= MaxSnaps
    /\ UNCHANGED <<file, premig, sess, record, slots>>

\* Store.Close and Root.CloseAll.
Close(s) ==
    /\ sess[s].pc = "ready"
    /\ Fail(s)
    /\ UNCHANGED <<file, premig, snaps, record, slots>>

\* `le restore`: the store is closed and the files of a directory the operator
\* names are read.
RestoreBegin(s, snap) ==
    /\ sess[s].pc = "ready" /\ sess[s].why = "use"
    /\ \A o \in Sessions \ {s} : sess[o].ws # sess[s].ws
    /\ Set(s, [sess[s] EXCEPT !.pc = "restore", !.at = 1, !.held = {}, !.snap = snap])
    /\ UNCHANGED <<file, premig, snaps, record, slots>>

\* The next file; after the last one the workspace is opened again, on the same
\* Root, unless the directory held none of them.
RestoreNext(s) ==
    Set(s, IF sess[s].at < Last THEN [sess[s] EXCEPT !.pc = "restore", !.at = @ + 1]
           ELSE IF \A i \in Indices : ~sess[s].snap[i].there THEN Closed
           ELSE [sess[s] EXCEPT !.pc = "open", !.at = 1, !.why = "verify", !.snap = <<>>])

\* RestoreFrom, one file at a time: one the backup does not hold is skipped, and
\* without force the first that exists ends it.  os.WriteFile first truncates.
RestoreFile(s, force) ==
    LET w == sess[s].ws
        i == sess[s].at
        kept == file[w][i].there /\ ~force
    IN  /\ sess[s].pc = "restore"
        /\ \/ ~sess[s].snap[i].there /\ RestoreNext(s) /\ UNCHANGED file
           \/ sess[s].snap[i].there /\ kept /\ Fail(s) /\ UNCHANGED file
           \/ /\ sess[s].snap[i].there /\ ~kept
              /\ file' = [file EXCEPT ![w][i] = Emptied]
              /\ Set(s, [sess[s] EXCEPT !.pc = "copy"])
        /\ UNCHANGED <<premig, snaps, record, slots>>

RestoreCopy(s) ==
    LET f == sess[s].snap[sess[s].at]
    IN  /\ sess[s].pc = "copy"
        /\ file' = [file EXCEPT ![sess[s].ws][sess[s].at] = [f EXCEPT !.born = Version(f)]]
        /\ RestoreNext(s)
        /\ UNCHANGED <<premig, snaps, record, slots>>

\* The process of a session dies.  The file RestoreFrom was writing is cut short,
\* or as empty as it made it; those it had not come to are as they were.
Crash(s) ==
    LET w == sess[s].ws
        i == sess[s].at
    IN  /\ sess[s].pc # "closed"
        /\ \/ UNCHANGED file
           \/ /\ sess[s].pc = "copy"
              /\ file' = [file EXCEPT ![w][i] = [sess[s].snap[i] EXCEPT !.whole = FALSE]]
        /\ Fail(s)
        /\ UNCHANGED <<premig, snaps, record, slots>>

StNext ==
    \E s \in Sessions :
        \/ \E w \in Workspaces : Open(s, w)
        \/ OpenDB(s) \/ BackupBeforeMigrating(s) \/ BackupFails(s) \/ Migrate(s)
        \/ VerifyStamp(s) \/ SwitchTo(s)
        \/ RecordTruncate(s) \/ RecordWrite(s) \/ RecordRename(s)
        \/ SaveSlot(s) \/ Backup(s) \/ Close(s)
        \/ \E snap \in snaps : RestoreBegin(s, snap)
        \/ \E force \in BOOLEAN : RestoreFile(s, force)
        \/ RestoreCopy(s) \/ Crash(s)

StSpec == StInit /\ [][StNext]_stvars

-----------------------------------------------------------------------------
\* Schemas move forward whole: whatever two sessions and a crash do, a database
\* has had each migration up to its version once and in order; one that a
\* migration took over from an earlier version has a copy of that version beside
\* it; and no store is handed out with a database at another version, of another
\* stamp, or damaged where quick_check sees it.  (It does not see that a restore
\* died after truncating a file: the empty one is opened as a new database.)
SchemasSound ==
    /\ \A w \in Workspaces, i \in Indices :
          LET f == file[w][i] IN
          /\ f.steps = [k \in 1 .. Version(f) |-> k]
          /\ f.whole /\ f.born \in 1 .. Version(f) - 1 =>
                [ws |-> w, db |-> i, steps |-> [k \in 1 .. f.born |-> k]] \in premig
    /\ \A s \in Sessions : sess[s].pc = "ready" =>
          \A i \in Indices : LET f == file[sess[s].ws][i] IN
             i \in sess[s].held /\ f.whole /\ f.stamp = sess[s].ws /\ Version(f) = Target[i]

\* "a database file may only ever be opened as the workspace that created it".
OpenedAsCreated ==
    \A s \in Sessions : sess[s].pc = "ready" =>
        \A i \in Indices : file[sess[s].ws][i].origin = sess[s].ws
=============================================================================
