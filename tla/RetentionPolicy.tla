--------------------------- MODULE RetentionPolicy ---------------------------
(***************************************************************************)
(* What the retention job promises, without its batches, cursor and        *)
(* statements: readings are stored and grow old; a reading may be copied   *)
(* to the archive, from which nothing is ever lost; only readings past the *)
(* retention horizon are removed, and when backups are kept, only after    *)
(* they are in the archive.                                                *)
(***************************************************************************)
CONSTANT Readings

VARIABLES
  backups,   (* whether a reading must be in the archive to be removed      *)
  live,      (* readings in the telemetry table                             *)
  overdue,   (* readings past the retention horizon                         *)
  archive    (* readings in the archive                                     *)

policyVars == <<backups, live, overdue, archive>>

PolicyInit ==
  /\ backups \in BOOLEAN
  /\ live = {} /\ overdue = {} /\ archive = {}

(* A reading is stored; one that comes late may already be past the horizon.*)
Store ==
  \E r \in Readings \ live :
    /\ live' = live \cup {r}
    /\ overdue' \in {overdue, overdue \cup {r}}
    /\ UNCHANGED <<backups, archive>>

GrowOld ==
  \E r \in live :
    /\ overdue' = overdue \cup {r}
    /\ UNCHANGED <<backups, live, archive>>

Archive ==
  \E S \in SUBSET (live \cap overdue) :
    /\ archive' = archive \cup S
    /\ UNCHANGED <<backups, live, overdue>>

Remove ==
  \E S \in SUBSET (live \cap overdue) :
    /\ backups => S \subseteq archive
    /\ live' = live \ S
    /\ UNCHANGED <<backups, overdue, archive>>

PolicyNext == Store \/ GrowOld \/ Archive \/ Remove

PolicySpec == PolicyInit /\ [][PolicyNext]_policyVars
=============================================================================
