------------------------------ MODULE Startup ------------------------------
(***************************************************************************)
(* What contacthub does before it serves (cmd/contacthub/main.go, run):    *)
(* open the database, apply the migrations that are not recorded yet, one  *)
(* transaction each (internal/migrations), and create the admin of the     *)
(* configuration if there is no user.  The process may fail or be killed   *)
(* anywhere and be started again, later perhaps with another release or    *)
(* another configuration; what was committed stays.                        *)
(*                                                                         *)
(* Migration files are numbers, ordered like their names.  An error of the *)
(* store ends the process.  Templates, logging and flags are left out.     *)
(***************************************************************************)
EXTENDS Naturals

CONSTANTS Absent,        \* no admin in the configuration
          UserNames,     \* values of users.username
          Passwords,
          Binaries,      \* releases: each is the set of its embedded files
          AdminConfigs,  \* what cfg.Admin may be: a name and password, or Absent
          AdminID,       \* the id that bootstrapAdmin generates
          UserIds,       \* values of users.id
          SeedApplied,   \* the migrations of the releases that ran before
          MaxStarts      \* bound: how often the process is started

Credentials == [name : UserNames, password : Passwords]

ASSUME StartupAssumption ==
    /\ Binaries \subseteq (SUBSET Nat) \ {{}}
    /\ AdminConfigs \subseteq Credentials \cup {Absent}
    /\ Absent \notin Credentials
    /\ AdminID \in UserIds
    /\ SeedApplied \subseteq SUBSET UNION Binaries
    /\ MaxStarts \in Nat

VARIABLES boot,       \* what the main goroutine does next
          binary,     \* the files of the running release
          admin,      \* cfg.Admin of the running process
          left,       \* the files the loop of migrations.Run has not passed
          tx,         \* the open transaction: what it has done so far
          effective,  \* how often each file has been applied for good
          applied,    \* the rows of schema_migrations
          users,      \* the table users
          starts      \* how often the process was started

startVars == <<boot, binary, admin, left, tx, effective, applied, users, starts>>

Files == UNION Binaries

User == [id : UserIds, name : UserNames, password : Passwords]

NoTx == [done |-> {}, recorded |-> {}]

Boots == {"stopped", "check", "exec", "record", "commit", "count", "admin", "serving"}

StartupTypeOK ==
    /\ boot \in Boots
    /\ binary \in Binaries \cup {{}}
    /\ admin \in AdminConfigs \cup {Absent}
    /\ left \subseteq binary
    /\ tx \in [done : SUBSET Files, recorded : SUBSET Files]
    /\ effective \in [Files -> Nat]
    /\ applied \subseteq Files
    /\ users \subseteq User
    /\ starts \in Nat

(* Nothing was ever run on this file, or an earlier release left its       *)
(* migrations and the users "seed".                                        *)
StartupInit(seed) ==
    /\ boot = "stopped"
    /\ binary = {}
    /\ admin = Absent
    /\ left = {}
    /\ tx = NoTx
    /\ applied \in IF seed = {} THEN {{}} ELSE SeedApplied
    /\ effective = [f \in Files |-> IF f \in applied THEN 1 ELSE 0]
    /\ users = seed
    /\ starts = 0

(* The file at hand: names are sorted. *)
First == CHOOSE f \in left : \A g \in left : f <= g

(* After the last file comes bootstrapAdmin, which has something to do     *)
(* only when an admin is configured.                                       *)
Continue(rest) ==
    /\ left' = rest
    /\ boot' = IF rest # {} THEN "check"
               ELSE IF admin # Absent THEN "count" ELSE "serving"

-----------------------------------------------------------------------------
(* Open, CREATE TABLE IF NOT EXISTS schema_migrations, and the reading of  *)
(* the embedded files.  When one of them fails the process has not started.*)
Start ==
    /\ boot = "stopped"
    /\ starts < MaxStarts
    /\ binary' \in Binaries
    /\ admin' \in AdminConfigs
    /\ left' = binary'
    /\ boot' = "check"
    /\ tx' = NoTx
    /\ starts' = starts + 1
    /\ UNCHANGED <<effective, applied, users>>

(* SELECT COUNT( * ) FROM schema_migrations WHERE filename = ? *)
MigrationCheck ==
    /\ boot = "check"
    /\ \/ /\ First \in applied
          /\ Continue(left \ {First})
       \/ /\ First \notin applied
          /\ boot' = "exec"
          /\ UNCHANGED left
    /\ UNCHANGED <<binary, admin, tx, effective, applied, users, starts>>

(* Mutant of MigrationExec: the statements run outside the transaction. *)
MigrationExecAutocommit ==
    /\ boot = "exec"
    /\ boot' = "record"
    /\ effective' = [effective EXCEPT ![First] = @ + 1]
    /\ UNCHANGED <<binary, admin, left, tx, applied, users, starts>>

MigrationExec ==
    /\ boot = "exec"
    /\ tx' = [tx EXCEPT !.done = @ \cup {First}]
    /\ boot' = "record"
    /\ UNCHANGED <<binary, admin, left, effective, applied, users, starts>>

MigrationRecord ==
    /\ boot = "record"
    /\ tx' = [tx EXCEPT !.recorded = @ \cup {First}]
    /\ boot' = "commit"
    /\ UNCHANGED <<binary, admin, left, effective, applied, users, starts>>

MigrationCommit ==
    /\ boot = "commit"
    /\ effective' = [f \in Files |-> IF f \in tx.done THEN effective[f] + 1
                                                      ELSE effective[f]]
    /\ applied' = applied \cup tx.recorded
    /\ tx' = NoTx
    /\ Continue(left \ {First})
    /\ UNCHANGED <<binary, admin, users, starts>>

-----------------------------------------------------------------------------
(* bootstrapAdmin *)

AdminCount ==
    /\ boot = "count"
    /\ boot' = IF users # {} THEN "serving" ELSE "admin"
    /\ UNCHANGED <<binary, admin, left, tx, effective, applied, users, starts>>

(* Mutant of CreateUserErr: users.username is not UNIQUE. *)
CreateUserErrByID(u) ==
    IF \E x \in users : x.id = u.id THEN "ErrConflict" ELSE "nil"

(* The error that users.CreateUser returns: id and username are unique. *)
CreateUserErr(u) ==
    IF \E x \in users : x.id = u.id \/ x.name = u.name THEN "ErrConflict" ELSE "nil"

AdminCreate ==
    LET u == [id |-> AdminID, name |-> admin.name, password |-> admin.password] IN
    /\ boot = "admin"
    /\ CreateUserErr(u) = "nil"
    /\ users' = users \cup {u}
    /\ boot' = "serving"
    /\ UNCHANGED <<binary, admin, left, tx, effective, applied, starts>>

-----------------------------------------------------------------------------
(* run returns an error at any of these steps, or the process is stopped or *)
(* killed at any moment: an open transaction is rolled back.               *)
Stop ==
    /\ boot # "stopped"
    /\ boot' = "stopped"
    /\ tx' = NoTx /\ left' = {} /\ binary' = {} /\ admin' = Absent
    /\ UNCHANGED <<effective, applied, users, starts>>

(* Mutant of StartupError: a file that fails is skipped. *)
StartupErrorSkips ==
    \/ /\ boot \in {"check", "count", "admin"}
       /\ Stop
    \/ /\ boot \in {"exec", "record", "commit"}
       /\ tx' = NoTx
       /\ Continue(left \ {First})
       /\ UNCHANGED <<binary, admin, effective, applied, users, starts>>

(* A step of migrations.Run or bootstrapAdmin fails; run returns its error. *)
StartupError ==
    /\ boot \in {"check", "exec", "record", "commit", "count", "admin"}
    /\ Stop

StartupNext ==
    \/ Start
    \/ MigrationCheck
    \/ MigrationExec
    \/ MigrationRecord
    \/ MigrationCommit
    \/ AdminCount
    \/ AdminCreate
    \/ StartupError

-----------------------------------------------------------------------------
(* Each migration took effect exactly as often as it is recorded, which is *)
(* never more than once: a crash between the statements of a file, its     *)
(* record and the commit loses all of them or none, so that no restart     *)
(* applies a file twice or leaves it out (migrations.go:57-76).            *)
EachOnce == \A f \in Files : effective[f] = IF f \in applied THEN 1 ELSE 0

(* A process that serves has every migration of its release, each applied  *)
(* once, also when earlier starts, of this or another release, broke off   *)
(* half way; and no handler works inside the transaction of a migration.   *)
ServesMigrated ==
    /\ EachOnce
    /\ boot = "serving" => binary \subseteq applied /\ tx = NoTx
=============================================================================
