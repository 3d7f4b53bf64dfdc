-------------------------- MODULE MCDatabaseBackups ------------------------
(***************************************************************************)
(* Three instances in one run.  In the first two a backup exists already.  *)
(* CALM: nothing fails, while users change the configuration and the       *)
(* destinations around the runs.  ROUGH: nobody changes anything, while    *)
(* calls fail and the process crashes.  SETTINGS: both, with a single run, *)
(* no backup and no destination to begin with.                             *)
(***************************************************************************)
EXTENDS DatabaseBackups, TLC

(* One backup, on the local disk or at a destination.                      *)
OneBackup(t) ==
    /\ backup = [b \in Backups |->
         IF b = 1 THEN [status |-> "completed", dest |-> t, key |-> t # None, file |-> 1]
         ELSE None]
    /\ count = 1 /\ second = 1
    /\ files = {1} /\ objects = ({t} \ {None}) \X {1} /\ completed = {1}

Calm ==
    /\ mishaps = MaxMishaps /\ changes = 0
    /\ config = None
    /\ dests = Destinations
    /\ \E t \in Dests : defaults = {t} \ {None} /\ OneBackup(t)

(* The backups so far have all been deleted, and one run is left.          *)
Settings ==
    /\ mishaps = 0 /\ changes = 0
    /\ config = None
    /\ dests = {} /\ defaults = {}
    /\ backup = [b \in Backups |-> None]
    /\ count = MaxBackups - 1 /\ second = 0
    /\ files = {} /\ objects = {} /\ completed = {}

Rough ==
    /\ mishaps = 0 /\ changes = MaxChanges
    /\ config = [dest |-> None, keep |-> Least(Keeps), enabled |-> TRUE]
    /\ dests = Destinations
    /\ \E t \in Dests : defaults = {t} \ {None} /\ OneBackup(t)

MCInit ==
    /\ Calm \/ Settings \/ Rough
    /\ alive = TRUE /\ adding = {}
    /\ run = [r \in Runs |-> NoRun]
    /\ deleting = None
    /\ byUser = {} /\ applied = {} /\ lapses = {}

MCSpec == MCInit /\ [][Next]_vars

Interchangeable == Permutations(Runs) \union Permutations(Destinations)
=============================================================================
