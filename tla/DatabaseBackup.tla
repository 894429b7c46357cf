--------------------------- MODULE DatabaseBackup ---------------------------
(***************************************************************************)
(* The rolling backups of the database (create_backup in db_utils.py).     *)
(* A run copies the database into a staging directory of its own, checks   *)
(* the copy, reserves a directory by mkdir, publishes into it and then     *)
(* removes the oldest generations beyond Keep, as far as they can be.      *)
(* Runs overlap, fail and die; the clock that names the generations may    *)
(* step back.                                                              *)
(*                                                                         *)
(* A generation is named by a second and, if that name is taken, by a      *)
(* variant of it; names sort by the second first (up to the tenth variant, *)
(* of which the source allows a hundred).                                  *)
(***************************************************************************)
EXTENDS Integers, FiniteSets

CONSTANTS Run,        \* invocations of create_backup
          Second,     \* what the clock may read
          Variants,   \* _BACKUP_COLLISION_LIMIT
          Keep,       \* generations to keep
          Old         \* seconds of the generations that are there already

ASSUME RunAssumption == IsFiniteSet(Run)
ASSUME NameAssumption == Second \subseteq Nat /\ Variants \in 1 .. 9
ASSUME KeepAssumption == Keep \in Nat \ {0}
ASSUME OldAssumption == Old \subseteq Second /\ IsFiniteSet(Old)

Name(t, v) == 10 * t + v
DirNames == {Name(t, v) : t \in Second, v \in 1 .. Variants}

VARIABLES
  entry,      \* the directories under the root, each with what it holds
  step,       \* step[r]: how far run r is
  stamp,      \* stamp[r]: the second r started in
  attempt,    \* attempt[r]: variants r found taken
  stale,      \* stale[r]: the generations r has yet to remove
  published,  \* every generation ever published (history)
  stuck       \* generations whose last removal left them whole (history)

history == <<published, stuck>>
backupVars == <<entry, step, stamp, attempt, stale, history>>

Steps == {"new", "reserving", "reserved", "moving", "published",
          "pruning", "done", "failed", "torn", "dead"}
Whole == {"memory.db", "manifest.json"}

Dirs == DOMAIN entry

\* The directory a run reserves or has reserved.
Final(r) == Name(stamp[r], attempt[r] + 1)

\* What list_backups takes for a generation.
Generations == {d \in Dirs : entry[d].files = Whole}

Holding(d, files, named) ==
  [x \in Dirs \cup {d} |->
     IF x = d THEN [files |-> files, named |-> named] ELSE entry[x]]

Without(d) == [x \in Dirs \ {d} |-> entry[x]]

Above(d, S) == {x \in S : x > d}

BackupInit ==
  /\ published = {Name(t, 1) : t \in Old} /\ stuck = {}
  /\ entry = [d \in {Name(t, 1) : t \in Old} |-> [files |-> Whole, named |-> d]]
  /\ step = [r \in Run |-> "new"]
  /\ stamp \in [Run -> Second]
  /\ attempt = [r \in Run |-> 0]
  /\ stale = [r \in Run |-> {}]

Goes(r, s) == step' = [step EXCEPT ![r] = s]

-----------------------------------------------------------------------------
\* The run copies into a staging directory of its own; the copy passed
\* quick_check.
CopyDatabase(r) ==
  /\ step[r] = "new"
  /\ Goes(r, "reserving")
  /\ UNCHANGED <<entry, stamp, attempt, stale, history>>

\* One attempt of _reserve_generation.
Reserve(r) ==
  /\ step[r] = "reserving"
  /\ attempt[r] < Variants
  /\ IF Final(r) \in Dirs
     THEN /\ attempt' = [attempt EXCEPT ![r] = @ + 1]
          /\ UNCHANGED <<entry, step>>
     ELSE /\ entry' = Holding(Final(r), {}, 0)
          /\ Goes(r, "reserved")
          /\ UNCHANGED attempt
  /\ UNCHANGED <<stamp, stale, history>>

\* The manifest names the reserved directory.  A rename replaces an empty
\* directory, or none.
PublishByRename(r) ==
  /\ step[r] = "reserved"
  /\ Final(r) \in Dirs => entry[Final(r)].files = {}
  /\ entry' = Holding(Final(r), Whole, Final(r))
  /\ published' = published \cup {Final(r)}
  /\ Goes(r, "published")
  /\ UNCHANGED <<stamp, attempt, stale, stuck>>

\* Windows cannot: the database is moved into the reserved directory first,
\* the manifest last.
MoveDatabase(r) ==
  /\ step[r] = "reserved"
  /\ Final(r) \in Dirs
  /\ entry' = Holding(Final(r), entry[Final(r)].files \cup {"memory.db"},
                      entry[Final(r)].named)
  /\ Goes(r, "moving")
  /\ UNCHANGED <<stamp, attempt, stale, history>>

MoveManifest(r) ==
  /\ step[r] = "moving"
  /\ Final(r) \in Dirs
  /\ entry' = Holding(Final(r), entry[Final(r)].files \cup {"manifest.json"},
                      Final(r))
  /\ published' = published \cup {Final(r)}
  /\ Goes(r, "published")
  /\ UNCHANGED <<stamp, attempt, stale, stuck>>

\* An error before the generation is published: rmdir takes the reserved name
\* back if nothing is in it.  A run is torn if its database was moved already.
FailBackup(r) ==
  /\ step[r] \in {"reserving", "reserved", "moving"}
  /\ entry' = IF /\ step[r] \in {"reserved", "moving"}
                 /\ Final(r) \in Dirs /\ entry[Final(r)].files = {}
              THEN Without(Final(r)) ELSE entry
  /\ Goes(r, IF step[r] = "moving" THEN "torn" ELSE "failed")
  /\ UNCHANGED <<stamp, attempt, stale, history>>

\* Bug: the newest are removed.
RemovableNewest(r) ==
  LET candidates == Generations \ {Final(r)}
      room == IF Final(r) \in Generations THEN Keep - 1 ELSE Keep
  IN {d \in candidates : Cardinality(candidates \ Above(d, candidates)) > room}

\* Bug: the generation just written does not count.
RemovableKeepingOne(r) ==
  LET candidates == Generations \ {Final(r)}
  IN {d \in candidates : Cardinality(Above(d, candidates)) >= Keep}

\* The oldest generations beyond Keep, never the one just written.
Removable(r) ==
  LET candidates == Generations \ {Final(r)}
      room == IF Final(r) \in Generations THEN Keep - 1 ELSE Keep
  IN {d \in candidates : Cardinality(Above(d, candidates)) >= room}

ListGenerations(r) ==
  /\ step[r] = "published"
  /\ stale' = [stale EXCEPT ![r] = Removable(r)]
  /\ Goes(r, "pruning")
  /\ UNCHANGED <<entry, stamp, attempt, history>>

\* rmtree, oldest first.  Another run may have removed it already; what cannot
\* be removed is left, up to the whole generation, and no complaint made.
RemoveStale(r) ==
  /\ step[r] = "pruning"
  /\ \E d \in stale[r] :
       /\ \A x \in stale[r] : d <= x
       /\ stale' = [stale EXCEPT ![r] = @ \ {d}]
       /\ \/ entry' = Without(d) /\ stuck' = stuck \ {d}
          \/ /\ d \in Dirs
             /\ \E left \in SUBSET entry[d].files :
                  /\ entry' = Holding(d, left, entry[d].named)
                  /\ stuck' = IF left = Whole THEN stuck \cup {d} ELSE stuck \ {d}
  /\ UNCHANGED <<step, stamp, attempt, published>>

\* A run whose own generation has disappeared reports an error.
FinishBackup(r) ==
  /\ step[r] = "pruning"
  /\ stale[r] = {}
  /\ Goes(r, IF Final(r) \in Dirs THEN "done" ELSE "failed")
  /\ UNCHANGED <<entry, stamp, attempt, stale, history>>

\* The process is killed, or an error after the publication ends the run.
CrashBackup(r) ==
  /\ step[r] \notin {"new", "done", "failed", "torn", "dead"}
  /\ Goes(r, "dead")
  /\ stale' = [stale EXCEPT ![r] = {}]
  /\ UNCHANGED <<entry, stamp, attempt, history>>

BackupNext ==
  \E r \in Run :
    \/ CopyDatabase(r) \/ Reserve(r)
    \/ PublishByRename(r) \/ MoveDatabase(r) \/ MoveManifest(r)
    \/ FailBackup(r) \/ CrashBackup(r)
    \/ ListGenerations(r) \/ RemoveStale(r) \/ FinishBackup(r)

BackupSpec == BackupInit /\ [][BackupNext]_backupVars

-----------------------------------------------------------------------------
(* Properties.                                                             *)

(* Directories hold files under names of the clock; what is listed for     *)
(* removal was published.                                                  *)
BackupTypeOK ==
  /\ Dirs \subseteq DirNames
  /\ entry \in [Dirs -> [files : SUBSET Whole, named : DirNames \cup {0}]]
  /\ step \in [Run -> Steps]
  /\ stamp \in [Run -> Second] /\ attempt \in [Run -> 0 .. Variants]
  /\ stale \in [Run -> SUBSET published]
  /\ published \subseteq DirNames /\ stuck \subseteq Generations

(* The Keep - 1 newest generations ever published are there, whatever runs *)
(* overlap, fail, die or read a clock that stepped back (the retention of  *)
(* create_backup).  The Keep-th need not be: two runs that list before     *)
(* either removes may each make room for themselves.                       *)
NewestKept ==
  \A d \in published :
    Cardinality(Above(d, published)) < Keep - 1 => d \in Generations

(* Once the runs are over, and none died, at most Keep generations are     *)
(* left besides those a removal was tried on and left whole, since whoever *)
(* lists last sees what all the others published - and one more for each   *)
(* run torn between its two moves: with the clock set back, its database   *)
(* may have joined another run's manifest.                                 *)
RetentionHolds ==
  (\E r \in Run : step[r] = "done") /\
  (\A r \in Run : step[r] \in {"new", "done", "failed", "torn"}) =>
    Cardinality(Generations \ stuck) <= Keep + Cardinality({r \in Run : step[r] = "torn"})
=============================================================================
