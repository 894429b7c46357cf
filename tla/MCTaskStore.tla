---------------------------- MODULE MCTaskStore ----------------------------
(***************************************************************************)
(* The task table of a machine and what happens around it: its sync with   *)
(* the other machines (BridgeSync), its writers (TaskWriters) and the      *)
(* backups of the file it is in (DatabaseBackup).  A behaviour looks at    *)
(* one of them; the variables of the others stay as they are.              *)
(***************************************************************************)
EXTENDS MCBridgeSync, TaskWriters, DatabaseBackup

VARIABLE part

others == <<vars, taskVars, backupVars>>

PartsInit ==
  /\ part \in {"sync", "writers", "backups"}
  /\ Init /\ TaskInit /\ BackupInit
  /\ part = "sync" \/ world = World(2, 0, Anything, InStep)
  /\ part = "backups" \/ stamp = [r \in Run |-> 1]

SyncPart    == part = "sync" /\ Next /\ UNCHANGED <<part, taskVars, backupVars>>
WritersPart == part = "writers" /\ TaskNext /\ UNCHANGED <<part, vars, backupVars>>
BackupsPart == part = "backups" /\ BackupNext /\ UNCHANGED <<part, vars, taskVars>>

PartsSpec ==
  PartsInit /\ [][SyncPart \/ WritersPart \/ BackupsPart]_<<part, others>>

\* Windows click, or a human reviews.
Clicking == \A c \in Candidate : candidate[c] = NoCandidate
Reviewing == now <= 1 /\ \A w \in Window : token[w] = NoToken /\ undo[w] = NoToken

ClickingOrReviewing == Clicking \/ Reviewing

(* Machines, files, clock values, rows and directories are what the code   *)
(* makes of them, in all three parts.                                      *)
StoreTypeOK == TypeOK /\ TaskTypeOK /\ BackupTypeOK
=============================================================================
