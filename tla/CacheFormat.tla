----------------------------- MODULE CacheFormat -----------------------------
(***************************************************************************)
(* How the disk cache recognises its drives at a start, and how it brings  *)
(* drives of the first format (V1) to the second while it runs             *)
(* (src/cmd/format-disk-cache.go, newCache and migrateCacheFromV1toV2 of   *)
(* disk-cache.go).  Each drive has a format.json that names the drive and  *)
(* the order of all of them; it is written and rewritten in place, and the *)
(* process may stop at any step.  A V1 drive holds one old object here.    *)
(***************************************************************************)
EXTENDS Naturals, Sequences, FiniteSets

CONSTANTS N,         \* number of configured drives
          MaxStarts  \* starts of the process

DriveIx == 1 .. N

VARIABLES
    fmt,    \* drive -> its format.json
    obj,    \* drive -> [old, tree, data, meta, kept]: the V1 object's data and
            \* metadata tree, the data and metadata of its V2 entry, and, as
            \* history, that an ignored error kept something of V1
    pc, k,  \* the start-up, and the drive it is at
    used,   \* formats the process works with
    mig,    \* drive -> where its migration is
    migrating, starts

vars == <<fmt, obj, pc, k, used, mig, migrating, starts>>

(* A format.json: absent, without readable content, or written.            *)
Absent == [ver |-> 0, this |-> <<0, 0>>, disks |-> <<>>]
Empty == [Absent EXCEPT !.ver = 9]
Written(f) == f.ver \in {1, 2}

NoObject == [old |-> FALSE, tree |-> FALSE, data |-> "none", meta |-> FALSE, kept |-> FALSE]

(* The formats that start number s generates for all the drives.           *)
newFormatCacheV2(s) ==
    [i \in DriveIx |-> [ver |-> 2, this |-> <<s, i>>, disks |-> [j \in DriveIx |-> <<s, j>>]]]

cacheDrivesUnformatted == \A i \in DriveIx : fmt[i] = Absent

(* nil for a drive whose format.json is absent or cannot be read.          *)
loadFormatCache == [i \in DriveIx |-> IF Written(fmt[i]) THEN fmt[i] ELSE Absent]

Loaded(fs) == {i \in DriveIx : fs[i] # Absent}

checkFormatCacheValues(fs, m) ==
    \A i \in Loaded(fs) : fs[i].ver \in (IF m THEN {1, 2} ELSE {2}) /\ Len(fs[i].disks) = N
checkCacheDisksSliceConsistency(fs) ==
    \A i, j \in Loaded(fs) : fs[i].disks = fs[j].disks

(* Mutant of checkCacheDiskConsistency: the drive is in the list somewhere. *)
MutDiskAnywhere(fs) ==
    \A i \in Loaded(fs) : \E j \in DOMAIN fs[i].disks : fs[i].disks[j] = fs[i].this

checkCacheDiskConsistency(fs) ==
    \A i \in Loaded(fs) : fs[i].disks[i] = fs[i].this

validateCacheFormats(fs, m) ==
    /\ Loaded(fs) # {}
    /\ checkFormatCacheValues(fs, m)
    /\ checkCacheDisksSliceConsistency(fs)
    /\ checkCacheDiskConsistency(fs)

-----------------------------------------------------------------------------
(* newCache: fresh drives are formatted one after the other, others loaded. *)

Start ==
    /\ pc = "down" /\ starts < MaxStarts
    /\ starts' = starts + 1
    /\ IF cacheDrivesUnformatted
       THEN /\ pc' = "create" /\ k' = 1
            /\ used' = newFormatCacheV2(starts + 1)
            /\ migrating' = FALSE
       ELSE /\ pc' = "validate" /\ k' = 0
            /\ used' = loadFormatCache
            /\ migrating' = (\E i \in Loaded(used') : used'[i].ver = 1)
    /\ UNCHANGED <<fmt, obj, mig>>

(* createFormatCache opens the file, creating it empty, and writes it only *)
(* when it has no content; a failure ends the start.                       *)
Create ==
    /\ pc = "create"
    /\ \/ fmt[k] = Absent /\ fmt' = [fmt EXCEPT ![k] = Empty] /\ pc' = "save"
       \/ pc' = "refused" /\ UNCHANGED fmt
    /\ UNCHANGED <<obj, k, used, mig, migrating, starts>>

Save ==
    /\ pc = "save"
    /\ fmt' = [fmt EXCEPT ![k] = used[k]]
    /\ IF k < N THEN pc' = "create" /\ k' = k + 1 ELSE pc' = "validate" /\ k' = 0
    /\ UNCHANGED <<obj, used, mig, migrating, starts>>

(* Drives without a format are left out of the cache; one that cannot be   *)
(* used, or keeps no access times, ends the start.                         *)
Validate ==
    /\ pc = "validate"
    /\ \/ /\ validateCacheFormats(used, migrating)
          /\ pc' = "running"
          /\ mig' = [i \in DriveIx |->
                       IF migrating /\ used[i] # Absent THEN "stat" ELSE "none"]
       \/ pc' = "refused" /\ UNCHANGED mig
    /\ UNCHANGED <<fmt, obj, k, used, migrating, starts>>

-----------------------------------------------------------------------------
(* migrateOldCache, one goroutine per loaded drive *)

Stage(i, s) == mig' = [mig EXCEPT ![i] = s]
OnDrive(i) == UNCHANGED <<pc, k, used, migrating, starts>>

(* Is there an old metadata tree?  An error of Stat counts as none; then   *)
(* what there may be of it is removed, and the old data stays.             *)
MigrateStat(i) ==
    /\ mig[i] = "stat"
    /\ \/ obj[i].tree /\ Stage(i, "data") /\ UNCHANGED obj
       \/ ~obj[i].tree /\ Stage(i, "truncate") /\ UNCHANGED obj
       \/ /\ obj[i].tree
          /\ \E left \in BOOLEAN :
              obj' = [obj EXCEPT ![i].tree = left, ![i].kept = left \/ obj[i].old]
          /\ Stage(i, "truncate")
    /\ OnDrive(i) /\ UNCHANGED fmt

(* The old data is copied block by block with checksums.  When that fails, *)
(* as it does once the old file is gone, the object is passed over.        *)
MigrateData(i) ==
    /\ mig[i] \in {"data", "copying"}
    /\ \/ /\ mig[i] = "data" /\ obj[i].old
          /\ obj' = [obj EXCEPT ![i].data = "partial"] /\ Stage(i, "copying")
       \/ /\ mig[i] = "copying"
          /\ obj' = [obj EXCEPT ![i].data = "whole"] /\ Stage(i, "remove")
       \/ UNCHANGED obj /\ Stage(i, "clean")
    /\ OnDrive(i) /\ UNCHANGED fmt

(* Mutant of MigrateRemoveOld: the format is rewritten before the clean-up. *)
MutFormatBeforeClean(i) ==
    /\ mig[i] = "remove"
    /\ obj' = [obj EXCEPT ![i].old = FALSE]
    /\ Stage(i, "truncate") /\ OnDrive(i) /\ UNCHANGED fmt

MigrateRemoveOld(i) ==
    /\ mig[i] = "remove"
    /\ obj' = [obj EXCEPT ![i].old = FALSE]
    /\ Stage(i, "meta") /\ OnDrive(i) /\ UNCHANGED fmt

MigrateMeta(i) ==
    /\ mig[i] = "meta"
    /\ obj' = [obj EXCEPT ![i].meta = TRUE]
    /\ Stage(i, "clean") /\ OnDrive(i) /\ UNCHANGED fmt

(* What is left of the old layout goes once its objects are done, first   *)
(* the old data, then the metadata tree; that a removal fails is ignored.  *)
MigrateClean(i) ==
    /\ \E failed \in BOOLEAN :
        \/ /\ mig[i] = "clean" /\ Stage(i, "sweep")
           /\ obj' = [obj EXCEPT ![i].old = @ /\ failed, ![i].kept = @ \/ (failed /\ obj[i].old)]
        \/ /\ mig[i] = "sweep" /\ Stage(i, "truncate")
           /\ obj' = [obj EXCEPT ![i].tree = failed, ![i].kept = failed \/ obj[i].old]
    /\ OnDrive(i) /\ UNCHANGED fmt

(* migrateCacheFormatJSON rewrites format.json in place.                   *)
MigrateFormat(i) ==
    /\ \/ /\ mig[i] = "truncate"
          /\ fmt' = [fmt EXCEPT ![i] = Empty] /\ Stage(i, "write")
       \/ /\ mig[i] = "write"
          /\ fmt' = [fmt EXCEPT ![i] = [used[i] EXCEPT !.ver = 2]] /\ Stage(i, "ok")
    /\ OnDrive(i) /\ UNCHANGED obj

MigrateError(i) ==
    /\ mig[i] \in {"data", "remove", "meta", "truncate", "write"}
    /\ Stage(i, "error") /\ OnDrive(i) /\ UNCHANGED <<fmt, obj>>

(* When all have ended, a purge is started for every drive whose migration *)
(* did not fail, those left out of the cache among them: that one has no   *)
(* drive to work on and takes the process down.                            *)
MigrateWait ==
    /\ pc = "running" /\ migrating
    /\ \A i \in DriveIx : mig[i] \in {"none", "ok", "error"}
    /\ mig' = [i \in DriveIx |-> "none"]
    /\ IF \E i \in DriveIx : mig[i] = "none"
       THEN pc' = "panic" /\ UNCHANGED migrating
       ELSE UNCHANGED pc /\ migrating' = \E i \in DriveIx : mig[i] = "error"
    /\ UNCHANGED <<fmt, obj, k, used, starts>>

(* The process stops, at any step.                                         *)
Stop ==
    /\ pc # "down"
    /\ pc' = "down" /\ k' = 0
    /\ used' = [i \in DriveIx |-> Absent]
    /\ mig' = [i \in DriveIx |-> "none"]
    /\ migrating' = FALSE
    /\ UNCHANGED <<fmt, obj, starts>>

(* While it is down the operator may exchange the first two drives, or     *)
(* replace one by a fresh drive.                                           *)
Operate ==
    /\ pc = "down" /\ starts \in 1 .. MaxStarts - 1
    /\ \/ /\ N > 1
          /\ fmt' = [fmt EXCEPT ![1] = fmt[2], ![2] = fmt[1]]
          /\ obj' = [obj EXCEPT ![1] = obj[2], ![2] = obj[1]]
       \/ \E i \in DriveIx :
          /\ fmt' = [fmt EXCEPT ![i] = Absent]
          /\ obj' = [obj EXCEPT ![i] = NoObject]
    /\ UNCHANGED <<pc, k, used, mig, migrating, starts>>

-----------------------------------------------------------------------------
(* Fresh drives, or drives an earlier release formatted as V1.             *)
Init ==
    /\ \/ /\ fmt = [i \in DriveIx |-> Absent]
          /\ obj = [i \in DriveIx |-> NoObject]
       \/ \E V1 \in (SUBSET DriveIx) \ {{}} :
          /\ fmt = [i \in DriveIx |-> IF i \in V1 THEN [newFormatCacheV2(0)[i] EXCEPT !.ver = 1]
                                      ELSE Absent]
          /\ obj = [i \in DriveIx |-> [NoObject EXCEPT !.old = i \in V1, !.tree = i \in V1]]
    /\ pc = "down" /\ k = 0 /\ starts = 0 /\ migrating = FALSE
    /\ used = [i \in DriveIx |-> Absent]
    /\ mig = [i \in DriveIx |-> "none"]

Next ==
    \/ Start \/ Create \/ Save \/ Validate \/ MigrateWait \/ Stop \/ Operate
    \/ \E i \in DriveIx :
        /\ pc = "running"
        /\ \/ MigrateStat(i) \/ MigrateData(i) \/ MigrateRemoveOld(i) \/ MigrateMeta(i)
           \/ MigrateClean(i) \/ MigrateFormat(i) \/ MigrateError(i)

Spec == Init /\ [][Next]_vars

-----------------------------------------------------------------------------
(* Properties *)

(* An entry that can be found, because it has its metadata, has all of its *)
(* data, however often the migration was cut off and run again.            *)
EntryWhole == \A i \in DriveIx : obj[i].meta => obj[i].data = "whole"

(* A drive is marked as the second format only when nothing of the first   *)
(* is left on it, so that a migration that was cut off is taken up again.  *)
(* The exception is what the code shrugs off: a removal that failed, or a  *)
(* Stat that found no old tree where there was one.                        *)
FormatLast ==
    \A i \in DriveIx : fmt[i].ver = 2 /\ ~obj[i].kept => ~obj[i].tree /\ ~obj[i].old

(* The drives a running cache works with are, position by position, the    *)
(* ones that were formatted together, and their format.json says so unless *)
(* it is being rewritten.                                                  *)
DrivesInOrder ==
    pc = "running" =>
        \A i \in DriveIx : used[i] # Absent =>
            /\ used[i].this[2] = i
            /\ mig[i] \notin {"write", "error"} /\ ~(migrating /\ mig[i] = "none")
                => fmt[i].this = used[i].this /\ fmt[i].disks = used[i].disks
=============================================================================
