----------------------- MODULE FilePersistenceProofs ------------------------
(* The state file can always be loaded.                                    *)
EXTENDS FilePersistence, TLAPS

Inv == TypeOK /\ FilesSafe

(* A file whose data was synced survives a power failure as it is.         *)
LEMMA SurvivorsOfSynced ==
    ASSUME NEW f \in File, f.synced
    PROVE  Survivors(f) = {f}
BY DEF Survivors

(* No call, failure or crash leaves a file that Load cannot decode.        *)
LEMMA NextSafe ==
    ASSUME Inv, [Next]_vars
    PROVE  Inv'
<1>. USE DEF Inv, TypeOK, FilesSafe, File, Calls, Absent
<1>1. CASE BeginSave
  BY <1>1 DEF BeginSave
<1>2. CASE CreateTemp
  BY <1>2 DEF CreateTemp
<1>3. CASE Write
  BY <1>3 DEF Write
<1>4. CASE Sync
  BY <1>4 DEF Sync
<1>5. CASE Close
  BY <1>5 DEF Close
<1>6. CASE Rename
  BY <1>6 DEF Rename
<1>7. CASE RenameFails
  BY <1>7 DEF RenameFails, Fails
<1>8. CASE RemoveTarget
  BY <1>8 DEF RemoveTarget
<1>9. CASE SaveFails
  BY <1>9 DEF SaveFails, Fails
<1>10. CASE WriteBack
  BY <1>10 DEF WriteBack
<1>11. CASE Crash
  BY <1>11 DEF Crash, Fails
<1>12. CASE PowerFailure
  <2>1. target' \in {target, written}
    BY <1>12, SurvivorsOfSynced DEF PowerFailure
  <2>. QED
    BY <1>12, <2>1 DEF PowerFailure, Fails
<1>13. CASE Load
  BY <1>13 DEF Load
<1>14. CASE UNCHANGED vars
  BY <1>14 DEF vars
<1>. QED
  BY <1>1, <1>2, <1>3, <1>4, <1>5, <1>6, <1>7, <1>8, <1>9, <1>10, <1>11, <1>12,
     <1>13, <1>14 DEF Next, SaveStep

(* Whatever fails, and whenever the process or the machine dies, the next  *)
(* Load finds a snapshot it can decode, for any number of saves and        *)
(* failures and whether or not renames are refused.                        *)
THEOREM AlwaysLoads == Spec => []AlwaysLoadable
<1>1. Init => Inv
  BY DEF Init, Inv, TypeOK, FilesSafe, File, Calls, Absent
<1>2. Inv => AlwaysLoadable
  BY DEF Inv, FilesSafe, AlwaysLoadable
<1>. QED
  BY <1>1, <1>2, NextSafe, PTL DEF Spec

(* The state file, and what the disk holds of it, are complete and synced  *)
(* at every call of Save, and so is the temporary file from Close on: this *)
(* holds for any number of saves, failures, crashes and power failures.    *)
THEOREM StateFileSafe == Spec => [](TypeOK /\ FilesSafe)
<1>1. Init => Inv
  BY DEF Init, Inv, TypeOK, FilesSafe, File, Calls, Absent
<1>2. Inv => TypeOK /\ FilesSafe
  BY DEF Inv
<1>. QED
  BY <1>1, <1>2, NextSafe, PTL DEF Spec

(* Where the versions are as long as no rename was refused.                *)
Ordered ==
    refusals = 0 =>
        /\ pc \notin {"remove", "again"}
        /\ saved <= target.version
        /\ target.version <= version
        /\ written.version <= version
        /\ pc \in {"write", "sync", "close", "rename"} => temporary.version = version

(* Versions only grow, since the state file is not removed.                *)
LEMMA NextOrdered ==
    ASSUME Inv, Ordered, [Next]_vars
    PROVE  Ordered'
<1>. USE DEF Inv, TypeOK, File, Calls, Absent, Ordered
<1>1. CASE BeginSave
  BY <1>1 DEF BeginSave
<1>2. CASE CreateTemp \/ Write \/ Sync \/ Close
  BY <1>2 DEF CreateTemp, Write, Sync, Close
<1>3. CASE Rename
  BY <1>3 DEF Rename
<1>4. CASE RenameFails \/ RemoveTarget
  BY <1>4 DEF RenameFails, RemoveTarget
<1>5. CASE SaveFails
  BY <1>5 DEF SaveFails
<1>6. CASE WriteBack
  BY <1>6 DEF WriteBack
<1>7. CASE Crash
  BY <1>7 DEF Crash
<1>8. CASE PowerFailure
  <2>1. target' \in {target, written}
    BY <1>8, SurvivorsOfSynced DEF PowerFailure, FilesSafe
  <2>. QED
    BY <1>8, <2>1 DEF PowerFailure
<1>9. CASE Load
  BY <1>9 DEF Load
<1>10. CASE UNCHANGED vars
  BY <1>10 DEF vars
<1>. QED
  BY <1>1, <1>2, <1>3, <1>4, <1>5, <1>6, <1>7, <1>8, <1>9, <1>10 DEF Next, SaveStep

(* As long as no rename is refused, Save replaces the state file           *)
(* atomically: unless the power fails, the file is never older than the    *)
(* latest Save that succeeded.                                             *)
THEOREM ReplacesAtomically == Spec => []ReplacedUnlessRefused
<1>1. Init => Inv /\ Ordered
  BY DEF Init, Inv, TypeOK, FilesSafe, File, Calls, Absent, Ordered
<1>2. Inv /\ Ordered /\ [Next]_vars => Inv' /\ Ordered'
  BY NextSafe, NextOrdered
<1>3. Inv /\ Ordered => ReplacedUnlessRefused
  BY DEF Inv, TypeOK, File, Ordered, ReplacedUnlessRefused, ReplacedAtomically
<1>. QED
  BY <1>1, <1>2, <1>3, PTL DEF Spec
=============================================================================
