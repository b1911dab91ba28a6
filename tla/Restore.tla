------------------------------- MODULE Restore -------------------------------
(***************************************************************************)
(* The database file while it is replaced: by the S3 handler, which swaps  *)
(* files by renaming, and by the upload handler, which copies the file and *)
(* writes over it; and the start of the server, which creates what is      *)
(* missing and migrates what it finds.  One restore at a time; a running   *)
(* server goes on with the file it opened.  Files are what they hold:      *)
(* nothing, half of a write, or a database with its jobs (data) and the    *)
(* migrations made and recorded in it.                                     *)
(***************************************************************************)
EXTENDS Integers

CONSTANTS
  RsMigrations,  \* the number of migrations
  RsMaxFaults,   \* bound: crashes and renames or writes that fail
  RsMaxRestores  \* bound: restores begun

ASSUME RestoreAssumption ==
  /\ RsMigrations \in Nat \ {0} /\ RsMaxFaults \in Nat /\ RsMaxRestores \in Nat

VARIABLES
  rsFile,    \* db, tmp and restore of the S3 handler and its bak, copy of the upload
  rsStage,   \* how far the restore under way is
  rsServer,  \* "down", "starting", "up"
  rsBlank,   \* a file without jobs was accepted, and no other moved in since (history)
  rsFaults, rsBegun

rsVars == <<rsFile, rsStage, rsServer, rsBlank, rsFaults, rsBegun>>

NoFile == [kind |-> "none"]
Torn == [kind |-> "torn"]
Database(data, n) == [kind |-> "database", data |-> data, made |-> n, recorded |-> n]
IsDatabase(f) == rsFile[f].kind = "database"
FileExists(f) == rsFile[f].kind # "none"

\* Backups were made by this version of the server or an older one, of a database
\* with jobs or without.  An upload need only begin like a database.
Backup == {Database(data, n) : data \in BOOLEAN, n \in 1..RsMigrations}
Uploadable == Backup \cup {Torn, Database(FALSE, 0)}
HasJobs(c) == c.kind = "database" /\ c.data

RsInit ==
  /\ rsFile = [f \in {"db", "tmp", "restore", "bak", "copy"} |->
                 IF f = "db" THEN Database(TRUE, RsMigrations) ELSE NoFile]
  /\ rsStage = "none" /\ rsServer = "up" /\ rsBlank = FALSE
  /\ rsFaults = 0 /\ rsBegun = 0

-----------------------------------------------------------------------------
Files(fs) == rsFile' = [f \in DOMAIN rsFile |-> IF f \in DOMAIN fs THEN fs[f] ELSE rsFile[f]]
RenameFile(from, to) == Files([f \in {from, to} |-> IF f = to THEN rsFile[from] ELSE NoFile])
RemoveFile(f) == Files([g \in {f} |-> NoFile])

RsAt(stage) == rsServer = "up" /\ rsStage = stage
RsThen(stage) == rsStage' = stage /\ UNCHANGED <<rsServer, rsBegun>>
Accepts(c) == rsBlank' = ~HasJobs(c)
WithoutFault == UNCHANGED rsFaults
WithFault == rsFaults < RsMaxFaults /\ rsFaults' = rsFaults + 1

Begins(stage) ==
  /\ RsAt("none") /\ rsBegun < RsMaxRestores
  /\ rsStage' = stage /\ rsBegun' = rsBegun + 1
  /\ UNCHANGED <<rsServer, rsBlank, rsFaults>>

\* --- restore_s3_backup -----------------------------------------------------
\* The object is downloaded and unpacked, whole or not.
RestoreDownload ==
  /\ Begins("validate")
  /\ \E c \in Backup \cup {Torn} : Files([f \in {"tmp"} |-> c])

\* integrity_check and the table jobs, which may be empty
Validate ==
  /\ RsAt("validate")
  /\ IF IsDatabase("tmp")
       THEN /\ RenameFile("tmp", "restore") /\ RsThen("swap")
            /\ rsBlank' = (rsBlank \/ ~HasJobs(rsFile["tmp"]))
       ELSE /\ Files([f \in {"tmp", "restore"} |-> NoFile])
            /\ RsThen("none") /\ UNCHANGED rsBlank
  /\ WithoutFault

SwapMoveAway ==
  /\ RsAt("swap")
  /\ IF FileExists("db") THEN RenameFile("db", "bak") ELSE UNCHANGED rsFile
  /\ RsThen("swap_in") /\ WithoutFault /\ UNCHANGED rsBlank

SwapMoveAwayFails ==
  /\ RsAt("swap") /\ FileExists("db")
  /\ RemoveFile("restore") /\ RsThen("none") /\ WithFault /\ UNCHANGED rsBlank

SwapMoveIn ==
  /\ RsAt("swap_in")
  /\ RenameFile("restore", "db") /\ RsThen("swap_done") /\ WithoutFault
  /\ Accepts(rsFile["restore"])

SwapMoveInFails ==
  /\ RsAt("swap_in")
  /\ IF FileExists("bak") THEN RenameFile("bak", "db") ELSE UNCHANGED rsFile
  /\ RsThen("none") /\ WithFault /\ UNCHANGED rsBlank

SwapDone ==
  /\ RsAt("swap_done")
  /\ RemoveFile("bak") /\ RsThen("none") /\ WithoutFault /\ UNCHANGED rsBlank

\* --- restore_sqlite_database -----------------------------------------------
\* Mutant: the file is written over without a copy.
UploadCopyNot == Begins("write") /\ UNCHANGED rsFile
\* The upload has the magic header, all that is asked of it; the database is copied.
UploadCopy ==
  /\ Begins("write")
  /\ IF FileExists("db") THEN Files([f \in {"copy"} |-> rsFile["db"]]) ELSE UNCHANGED rsFile

\* fs::write empties the file first.
UploadWrite ==
  /\ RsAt("write")
  /\ Files([f \in {"db"} |-> Torn]) /\ RsThen("written") /\ WithoutFault /\ UNCHANGED rsBlank

UploadDone ==
  /\ RsAt("written")
  /\ \E c \in Uploadable :
       /\ Files([f \in {"db", "copy"} |-> IF f = "db" THEN c ELSE NoFile])
       /\ Accepts(c)
  /\ RsThen("none") /\ WithoutFault

UploadFails ==
  /\ RsAt("written")
  /\ IF FileExists("copy") THEN RenameFile("copy", "db") ELSE UNCHANGED rsFile
  /\ RsThen("none") /\ WithFault /\ UNCHANGED rsBlank

\* --- the server ------------------------------------------------------------
RsCrash ==
  /\ rsServer # "down" /\ WithFault
  /\ rsServer' = "down" /\ rsStage' = "none"
  /\ UNCHANGED <<rsFile, rsBlank, rsBegun>>

\* The answer to a restore: "Restart server to apply".
RsStop ==
  /\ RsAt("none") /\ rsServer' = "down"
  /\ UNCHANGED <<rsFile, rsStage, rsBlank, rsFaults, rsBegun>>

\* Opening the file makes an empty one if there is none; half a file does not open.
RsStart ==
  /\ rsServer = "down"
  /\ \/ IsDatabase("db") /\ UNCHANGED rsFile
     \/ ~FileExists("db") /\ Files([f \in {"db"} |-> Database(FALSE, 0)])
  /\ rsServer' = "starting"
  /\ UNCHANGED <<rsStage, rsBlank, rsFaults, rsBegun>>

Db == rsFile["db"]

\* Mutant: the statements and the record are separate transactions.
MigrateInTwo ==
  /\ rsServer = "starting" /\ Db.recorded < RsMigrations
  /\ \/ Db.made = Db.recorded /\ rsFile' = [rsFile EXCEPT !["db"].made = @ + 1]
     \/ Db.made > Db.recorded /\ rsFaults = 0
          /\ rsFile' = [rsFile EXCEPT !["db"].recorded = @ + 1]
  /\ UNCHANGED <<rsStage, rsServer, rsBlank, rsFaults, rsBegun>>
\* The next migration that is not recorded; its CREATE TABLE fails on a table
\* that is there already.
Migrate ==
  /\ rsServer = "starting" /\ Db.recorded < RsMigrations
  /\ Db.made = Db.recorded
  /\ Files([f \in {"db"} |-> Database(Db.data, Db.made + 1)])
  /\ UNCHANGED <<rsStage, rsServer, rsBlank, rsFaults, rsBegun>>

Ready ==
  /\ rsServer = "starting" /\ Db.recorded = RsMigrations
  /\ rsServer' = "up"
  /\ UNCHANGED <<rsFile, rsStage, rsBlank, rsFaults, rsBegun>>

RsSwap ==
  \/ RestoreDownload \/ Validate
  \/ SwapMoveAway \/ SwapMoveAwayFails \/ SwapMoveIn \/ SwapMoveInFails \/ SwapDone
RsUpload == UploadCopy \/ UploadWrite \/ UploadDone \/ UploadFails
RsServe == RsCrash \/ RsStop \/ RsStart \/ Migrate \/ Ready
RsNext == RsSwap \/ RsUpload \/ RsServe

RsSpec == RsInit /\ [][RsNext]_rsVars

\* A server that starts goes on; starting it again is the operator's.
RsFairness == WF_rsVars(Migrate \/ Ready)

-----------------------------------------------------------------------------
(* Whatever is going on, and whenever the server dies, some file holds a
   database with jobs: the one that is replaced or the one that replaces it.
   That is so until a file without jobs is accepted - half a database will do for
   an upload, of which 16 bytes are looked at - and again once one with jobs has
   taken its place.  (One fault: a second restore moves the database a new server
   made over the one a crash left aside, so that a second fault then loses the
   jobs.) *)
DataSurvives == rsBlank \/ \E f \in DOMAIN rsFile : HasJobs(rsFile[f])

(* A server that is starting gets up or is killed: whatever file it opens, a
   restored one, an older version's or one left by a crash between two
   migrations, no migration meets what it would make. *)
StartsAgain == rsServer = "starting" ~> rsServer # "starting"
=============================================================================
