-------------------------- MODULE FilePersistence ---------------------------
(***************************************************************************)
(* internal/incidents/file_persistence.go: Save writes the snapshot to a   *)
(* temporary file, syncs it and renames it over the state file; when the   *)
(* rename is refused it removes the state file and tries again.  Load      *)
(* reads the state file when the process starts.                           *)
(*                                                                         *)
(* A snapshot is its version: the number of the Save that wrote it.  Every *)
(* call may fail; the process may crash between two calls, which leaves    *)
(* the files as they are, and so may the machine, which loses directory    *)
(* updates that were not written back and the data of files that were not  *)
(* synced.                                                                 *)
(***************************************************************************)
EXTENDS Naturals

CONSTANTS
    MaxSaves,       \* bound: number of calls of Save
    MaxFailures     \* bound: crashes and failing calls

ASSUME SavesAssumption == MaxSaves \in Nat

ASSUME FailuresAssumption == MaxFailures \in Nat

VARIABLES
    pc,        \* where Save is
    version,   \* version of the latest Save that was called
    temporary, \* the temporary file
    target,    \* the state file as processes see it
    written,   \* the state file as the directory on the medium has it
    saved,     \* history: version of the latest Save that returned nil and
               \* that no power failure undid
    loaded,    \* history: what the latest Load returned
    refusals,  \* history: how often the first rename of a Save was refused
    failures   \* crashes and failing calls so far

vars == <<pc, version, temporary, target, written, saved, loaded, refusals, failures>>

-----------------------------------------------------------------------------
(* A file: absent, or a version of the snapshot, complete and synced or    *)
(* not.                                                                    *)
Absent == [version |-> 0, complete |-> TRUE, synced |-> TRUE]

File == [version : Nat, complete : BOOLEAN, synced : BOOLEAN]

Calls == {"create", "write", "sync", "close", "rename", "remove", "again"}

Init ==
    /\ pc = "idle"
    /\ version = 0
    /\ temporary = Absent
    /\ target = Absent
    /\ written = Absent
    /\ saved = 0
    /\ loaded = [version |-> 0, ok |-> TRUE]
    /\ refusals = 0
    /\ failures = 0

BeginSave ==
    /\ pc = "idle"
    /\ version < MaxSaves
    /\ version' = version + 1
    /\ pc' = "create"
    /\ UNCHANGED <<temporary, target, written, saved, loaded, refusals, failures>>

(* CreateTemp, and Chmod of the empty file.                                *)
CreateTemp ==
    /\ pc = "create"
    /\ temporary' = [version |-> version, complete |-> FALSE, synced |-> FALSE]
    /\ pc' = "write"
    /\ UNCHANGED <<version, target, written, saved, loaded, refusals, failures>>

Write ==
    /\ pc = "write"
    /\ temporary' = [temporary EXCEPT !.complete = TRUE]
    /\ pc' = "sync"
    /\ UNCHANGED <<version, target, written, saved, loaded, refusals, failures>>

(* Mutant: Save does not sync.                                             *)
SyncSkipped ==
    /\ pc = "sync"
    /\ pc' = "close"
    /\ UNCHANGED <<version, temporary, target, written, saved, loaded, refusals, failures>>

Sync ==
    /\ pc = "sync"
    /\ temporary' = [temporary EXCEPT !.synced = TRUE]
    /\ pc' = "close"
    /\ UNCHANGED <<version, target, written, saved, loaded, refusals, failures>>

Close ==
    /\ pc = "close"
    /\ pc' = "rename"
    /\ UNCHANGED <<version, temporary, target, written, saved, loaded, refusals, failures>>

(* A rename succeeds and Save returns nil; the deferred removal of the     *)
(* temporary file finds nothing.                                           *)
Rename ==
    /\ pc \in {"rename", "again"}
    /\ target' = temporary
    /\ temporary' = Absent
    /\ saved' = version
    /\ pc' = "idle"
    /\ UNCHANGED <<version, written, loaded, refusals, failures>>

Fails ==
    /\ failures < MaxFailures
    /\ failures' = failures + 1

(* replaceFile after a rename that was refused.                            *)
RenameFails ==
    /\ pc = "rename"
    /\ Fails
    /\ refusals' = refusals + 1
    /\ pc' = "remove"
    /\ UNCHANGED <<version, temporary, target, written, saved, loaded>>

(* Mutant: an error does not end Save.                                     *)
SaveFailsUnfinished ==
    /\ pc \in Calls \ {"rename"}
    /\ Fails
    /\ temporary' = Absent
    /\ pc' = "failed"
    /\ UNCHANGED <<version, target, written, saved, loaded, refusals>>

(* An absent state file is not an error.                                   *)
RemoveTarget ==
    /\ pc = "remove"
    /\ target' = Absent
    /\ pc' = "again"
    /\ UNCHANGED <<version, temporary, written, saved, loaded, refusals, failures>>

(* Mutant: a failing Save removes the state file with the temporary one.   *)
SaveFailsRemoving ==
    /\ pc \in Calls \ {"rename"}
    /\ Fails
    /\ temporary' = Absent
    /\ target' = Absent
    /\ pc' = "idle"
    /\ UNCHANGED <<version, written, saved, loaded, refusals>>

(* Any other call fails: Save returns the error and the deferred Remove    *)
(* deletes the temporary file.                                             *)
SaveFails ==
    /\ pc \in Calls \ {"rename"}
    /\ Fails
    /\ temporary' = Absent
    /\ pc' = "idle"
    /\ UNCHANGED <<version, target, written, saved, loaded, refusals>>

-----------------------------------------------------------------------------
(* The directory is written back to the medium.                            *)
WriteBack ==
    /\ written # target
    /\ written' = target
    /\ UNCHANGED <<pc, version, temporary, target, saved, loaded, refusals, failures>>

(* The process dies; a temporary file it leaves behind is never read.      *)
Crash ==
    /\ pc # "down"
    /\ Fails
    /\ temporary' = Absent
    /\ pc' = "down"
    /\ UNCHANGED <<version, target, written, saved, loaded, refusals>>

(* What is left of a file after a power failure.                           *)
Survivors(f) ==
    IF f.synced THEN {f} ELSE {f, [f EXCEPT !.complete = FALSE]}

PowerFailure ==
    /\ pc # "down"
    /\ Fails
    /\ target' \in Survivors(target) \cup Survivors(written)
    /\ written' = target'
    /\ saved' = target'.version
    /\ temporary' = Absent
    /\ pc' = "down"
    /\ UNCHANGED <<version, loaded, refusals>>

(* Load: no file is an empty snapshot, a file that cannot be decoded an    *)
(* error that keeps the service from starting.                             *)
Load ==
    /\ pc = "down"
    /\ loaded' = [version |-> target.version, ok |-> target.complete]
    /\ pc' = IF target.complete THEN "idle" ELSE "stuck"
    /\ UNCHANGED <<version, temporary, target, written, saved, refusals, failures>>

-----------------------------------------------------------------------------
SaveStep ==
    \/ CreateTemp \/ Write \/ Sync \/ Close \/ Rename
    \/ RenameFails \/ RemoveTarget \/ SaveFails

Next ==
    \/ BeginSave
    \/ SaveStep
    \/ WriteBack
    \/ Crash
    \/ PowerFailure
    \/ Load

Spec == Init /\ [][Next]_vars

-----------------------------------------------------------------------------
(* The type of the state.                                                  *)
TypeOK ==
    /\ pc \in Calls \cup {"idle", "down", "stuck"}
    /\ version \in Nat
    /\ temporary \in File
    /\ target \in File
    /\ written \in File
    /\ saved \in Nat
    /\ loaded \in [version : Nat, ok : BOOLEAN]
    /\ refusals \in Nat
    /\ failures \in Nat

(* Whatever fails, crashes or loses power, at whichever call, what Load    *)
(* finds can be decoded: the service always starts again.                  *)
AlwaysLoadable == loaded.ok

(* The state file holds all that a power failure can leave of it: this is  *)
(* why AlwaysLoadable holds.                                               *)
FilesSafe ==
    /\ target.complete /\ target.synced
    /\ written.complete /\ written.synced
    /\ pc \in {"rename", "remove", "again", "close"} => temporary.complete /\ temporary.synced
    /\ pc = "sync" => temporary.complete
    /\ pc # "stuck"
    /\ loaded.ok

(* The state file is there, and is no older than the latest Save that      *)
(* succeeded, unless the power failed.                                     *)
ReplacedAtomically == target.version >= saved

(* It is replaced atomically as long as no rename is refused, whichever    *)
(* other calls fail and wherever the process crashes.                      *)
ReplacedUnlessRefused == refusals = 0 => ReplacedAtomically
=============================================================================
