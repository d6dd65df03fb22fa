------------------------- MODULE ProfileStoreProofs -------------------------
(***************************************************************************)
(* Proofs about ProfileStore for any number of tasks, profiles and photos.  *)
(***************************************************************************)
EXTENDS ProfileStore, TLAPS

Holding == Steps \ {"idle", "lock"}
Saving  == {"check", "open", "write", "verify", "rename"}

(* The inductive invariant: who holds the lock, what the holder knows, and  *)
(* how RAM follows flash.                                                   *)
LockInv == \A t \in Tasks : pc[t] \in Holding <=> writer = t

RamInv ==
  /\ ~ready => stored = Blank /\ revision = 0
  /\ ready /\ (\A t \in Tasks : pc[t] # "publish") => stored = Shown(record)

HolderInv ==
  \A t \in Tasks :
    /\ pc[t] \in Saving => before = Shown(record)
    /\ pc[t] \in Saving /\ ready => previous = Shown(record)
    /\ pc[t] \in {"open", "write", "verify", "rename", "publish"} => ready
    /\ pc[t] \in {"mount", "format", "remount"} => ~ready
    /\ pc[t] = "rename" => temp = next
    /\ pc[t] = "publish" => record = next

OffInv == ~up => ~ready /\ pc = [t \in Tasks |-> "idle"]

IInv == TypeOK /\ LockInv /\ RamInv /\ HolderInv /\ OffInv

-----------------------------------------------------------------------------
(* What a reader sees of a file is always a whole record.                   *)
LEMMA ShownType == \A f : Shown(f) \in Contents
  BY StoreAssumption DEF Shown, Contents, Blank

(* Loading leaves RAM well typed.                                           *)
LEMMA LoadType ==
  ASSUME Load
  PROVE  stored' \in Contents /\ revision' \in Nat /\ ready' \in BOOLEAN
  BY ShownType DEF Load

(* The photo a save ends up with is a photo or none.                        *)
LEMMA NextPhotoType ==
  ASSUME previous \in Contents, NEW i \in Images, i # "bad"
  PROVE  NextPhoto(i) \in Photos \cup {NoPhoto}
<1>1. CASE i = "keep"
  BY <1>1 DEF NextPhoto, Contents
<1>2. CASE i = "drop"
  BY <1>2 DEF NextPhoto
<1>3. CASE i \notin {"keep", "drop"}
  BY <1>3 DEF NextPhoto, Images
<1> QED
  BY <1>1, <1>2, <1>3

(* The empty profile without a photo is a whole record.                     *)
LEMMA BlankType == Blank \in Contents
  BY StoreAssumption DEF Blank, Contents

(* The inductive invariant holds at power-up.                               *)
LEMMA InitInv == Init => IInv
<1> SUFFICES ASSUME Init PROVE IInv
  OBVIOUS
<1> USE StoreAssumption, BlankType DEF Init
<1>1. TypeOK
  BY DEF TypeOK, Files, Steps, Images
<1>2. LockInv
  BY DEF LockInv, Holding, Steps
<1>3. RamInv /\ HolderInv /\ OffInv
  BY DEF RamInv, HolderInv, OffInv, Saving
<1> QED
  BY <1>1, <1>2, <1>3 DEF IInv

(* Every step keeps the types.                                              *)
LEMMA NextTypeOK == TypeOK /\ [Next]_vars => TypeOK'
<1> SUFFICES ASSUME TypeOK, [Next]_vars PROVE TypeOK'
  OBVIOUS
<1> USE StoreAssumption, BlankType, ShownType DEF TypeOK, Files, Steps
<1>1. CASE Boot
  BY <1>1, LoadType DEF Boot, files, ram, local
<1>2. CASE PowerLoss
  BY <1>2 DEF PowerLoss, files, Images
<1>3. ASSUME NEW t \in Tasks, Call(t) PROVE TypeOK'
  BY <1>3 DEF Call, files, ram
<1>4. ASSUME NEW t \in Tasks, Lock(t) PROVE TypeOK'
  BY <1>4 DEF Lock, Free, files, ram
<1>5. ASSUME NEW t \in Tasks, Initialize(t) PROVE TypeOK'
  BY <1>5 DEF Initialize, Free, Unreadable, files, ram, local
<1>6. ASSUME NEW t \in Tasks, Check(t) PROVE TypeOK'
  <2>1. CASE UNCHANGED next
    BY <1>6, <2>1 DEF Check, Return, files, ram
  <2>2. CASE /\ arg[t].image # "bad"
             /\ next' = [profile |-> arg[t].profile,
                         photo |-> NextPhoto(arg[t].image)]
    <3>1. next' \in Contents
      BY <2>2, NextPhotoType DEF Contents
    <3> QED
      BY <1>6, <3>1 DEF Check, Return, files, ram
  <2> QED
    BY <1>6, <2>1, <2>2 DEF Check
<1>7. ASSUME NEW t \in Tasks, Open(t) PROVE TypeOK'
  BY <1>7 DEF Open, Return, ram, local
<1>8. ASSUME NEW t \in Tasks, Write(t) PROVE TypeOK'
  BY <1>8 DEF Write, ram, local
<1>9. ASSUME NEW t \in Tasks, Verify(t) PROVE TypeOK'
  BY <1>9 DEF Verify, Unlink, Return, ram, local
<1>10. ASSUME NEW t \in Tasks, Rename(t) PROVE TypeOK'
  BY <1>10 DEF Rename, Unlink, Return, ram, local
<1>11. ASSUME NEW t \in Tasks, PublishSave(t) PROVE TypeOK'
  BY <1>11 DEF PublishSave, NextRevision, Return, files, local
<1>12. ASSUME NEW t \in Tasks, Mount(t) PROVE TypeOK'
  BY <1>12, LoadType DEF Mount, LoadOrFail, Return, files, ram, local
<1>13. ASSUME NEW t \in Tasks, Format(t) PROVE TypeOK'
  BY <1>13 DEF Format, Return, files, ram, local
<1>14. ASSUME NEW t \in Tasks, Remount(t) PROVE TypeOK'
  BY <1>14, LoadType DEF Remount, LoadOrFail, Return, files, ram, local
<1>15. CASE UNCHANGED vars
  BY <1>15 DEF vars
<1> QED
  BY <1>1, <1>2, <1>3, <1>4, <1>5, <1>6, <1>7, <1>8, <1>9, <1>10, <1>11,
     <1>12, <1>13, <1>14, <1>15 DEF Next, Work

(* Every step keeps the inductive invariant.                                *)
LEMMA NextInv == IInv /\ [Next]_vars => IInv'
<1> SUFFICES ASSUME IInv, [Next]_vars
             PROVE  LockInv' /\ RamInv' /\ HolderInv' /\ OffInv'
  BY NextTypeOK DEF IInv
<1> USE StoreAssumption DEF IInv
<1> USE DEF LockInv, RamInv, HolderInv, OffInv, Holding, Saving, Steps, TypeOK
<1>1. CASE Boot
  BY <1>1 DEF Boot, Load, files, ram, local
<1>2. CASE PowerLoss
  BY <1>2 DEF PowerLoss, files
<1>3. ASSUME NEW t \in Tasks, Call(t)
     PROVE  LockInv' /\ RamInv' /\ HolderInv' /\ OffInv'
  BY <1>3 DEF Call, files, ram
<1>4. ASSUME NEW t \in Tasks, Lock(t)
     PROVE  LockInv' /\ RamInv' /\ HolderInv' /\ OffInv'
  BY <1>4 DEF Lock, Free, files, ram
<1>5. ASSUME NEW t \in Tasks, Initialize(t)
     PROVE  LockInv' /\ RamInv' /\ HolderInv' /\ OffInv'
  BY <1>5 DEF Initialize, Free, Unreadable, files, ram, local
<1>6. ASSUME NEW t \in Tasks, Check(t)
     PROVE  LockInv' /\ RamInv' /\ HolderInv' /\ OffInv'
  BY <1>6 DEF Check, Return, files, ram
<1>7. ASSUME NEW t \in Tasks, Open(t)
     PROVE  LockInv' /\ RamInv' /\ HolderInv' /\ OffInv'
  BY <1>7 DEF Open, Return, ram, local
<1>8. ASSUME NEW t \in Tasks, Write(t)
     PROVE  LockInv' /\ RamInv' /\ HolderInv' /\ OffInv'
  BY <1>8 DEF Write, ram, local
<1>9. ASSUME NEW t \in Tasks, Verify(t)
     PROVE  LockInv' /\ RamInv' /\ HolderInv' /\ OffInv'
  BY <1>9 DEF Verify, Verified, Unlink, Return, ram, local
<1>10. ASSUME NEW t \in Tasks, Rename(t)
     PROVE  LockInv' /\ RamInv' /\ HolderInv' /\ OffInv'
  BY <1>10 DEF Rename, Unlink, Return, ram, local
<1>11. ASSUME NEW t \in Tasks, PublishSave(t)
     PROVE  LockInv' /\ RamInv' /\ HolderInv' /\ OffInv'
  BY <1>11 DEF PublishSave, NextRevision, Shown, Return, files, local
<1>12. ASSUME NEW t \in Tasks, Mount(t)
     PROVE  LockInv' /\ RamInv' /\ HolderInv' /\ OffInv'
  BY <1>12 DEF Mount, LoadOrFail, Load, Return, files, ram, local
<1>13. ASSUME NEW t \in Tasks, Format(t)
     PROVE  LockInv' /\ RamInv' /\ HolderInv' /\ OffInv'
  BY <1>13 DEF Format, Return, files, ram, local
<1>14. ASSUME NEW t \in Tasks, Remount(t)
     PROVE  LockInv' /\ RamInv' /\ HolderInv' /\ OffInv'
  BY <1>14 DEF Remount, LoadOrFail, Load, Return, files, ram, local
<1>15. CASE UNCHANGED vars
  BY <1>15 DEF vars, Shown
<1> QED
  BY <1>1, <1>2, <1>3, <1>4, <1>5, <1>6, <1>7, <1>8, <1>9, <1>10, <1>11, <1>12, <1>13, <1>14, <1>15 DEF Next, Work

(* The inductive invariant holds in every reachable state.                  *)
LEMMA Invariance == Spec => []IInv
  BY InitInv, NextInv, PTL DEF Spec

-----------------------------------------------------------------------------
(* Every variable keeps its type, for any tasks, profiles and photos.       *)
THEOREM TypeCorrect == Spec => []TypeOK
<1>1. IInv => TypeOK
  BY DEF IInv
<1> QED
  BY Invariance, <1>1, PTL

(* Readers see what flash holds whenever no commit waits to be published.   *)
THEOREM RamCorrect == Spec => []RamFollowsFlash
<1>1. IInv => RamFollowsFlash
  BY DEF IInv, RamInv, RamFollowsFlash
<1> QED
  BY Invariance, <1>1, PTL

(* No save overwrites another one's update: what it started from is what it *)
(* replaces.                                                                *)
THEOREM NoLostUpdate == Spec => []SaveBuildsOnCurrent
<1>1. IInv => SaveBuildsOnCurrent
  BY DEF IInv, HolderInv, SaveBuildsOnCurrent, Saving
<1> QED
  BY Invariance, <1>1, PTL

(* A failed save keeps the previous badge, a successful one stores exactly  *)
(* what was asked for.                                                      *)
THEOREM AllOrNothing == Spec => SaveAllOrNothing
<1> DEFINE Ends(t) ==
      pc[t] \in {"check", "open", "write", "verify", "rename", "publish"}
        /\ pc'[t] = "idle" /\ up' =>
          \/ result'[t] = "failed" /\ Shown(record') = before
          \/ result'[t] = "ok" /\ record' = next /\ stored' = next
<1>1. ASSUME IInv, [Next]_vars, NEW t \in Tasks PROVE Ends(t)
  <2> USE DEF IInv, TypeOK, LockInv, HolderInv, OffInv, Holding, Saving, Steps
  <2>1. CASE Boot
    BY <1>1, <2>1 DEF Boot
  <2>2. CASE PowerLoss
    BY <1>1, <2>2 DEF PowerLoss
  <2>3. ASSUME NEW u \in Tasks, Call(u) \/ Lock(u) \/ Initialize(u) PROVE Ends(t)
    BY <1>1, <2>3 DEF Call, Lock, Initialize
  <2>4. ASSUME NEW u \in Tasks, Check(u) \/ Open(u) \/ Write(u) PROVE Ends(t)
    BY <1>1, <2>4 DEF Check, Open, Write, Return, files
  <2>5. ASSUME NEW u \in Tasks, Verify(u) \/ Rename(u) PROVE Ends(t)
    BY <1>1, <2>5 DEF Verify, Rename, Return
  <2>6. ASSUME NEW u \in Tasks, PublishSave(u) PROVE Ends(t)
    BY <1>1, <2>6 DEF PublishSave, NextRevision, Return, files
  <2>7. ASSUME NEW u \in Tasks, Mount(u) \/ Format(u) \/ Remount(u) PROVE Ends(t)
    BY <1>1, <2>7 DEF Mount, Format, Remount, LoadOrFail, Return
  <2>8. CASE UNCHANGED vars
    BY <1>1, <2>8 DEF vars
  <2> QED
    BY <1>1, <2>1, <2>2, <2>3, <2>4, <2>5, <2>6, <2>7, <2>8 DEF Next, Work
<1>2. IInv /\ [Next]_vars => [\A t \in Tasks : Ends(t)]_vars
  BY <1>1
<1> QED
  BY Invariance, <1>2, PTL DEF Spec, SaveAllOrNothing

(* An equal revision means an unchanged profile, within a power-up.         *)
THEOREM RevisionCorrect == Spec => RevisionMarksChange
<1> DEFINE Marks == up /\ up' => /\ revision' >= revision
                                /\ (stored' # stored => revision' > revision)
<1>1. ASSUME IInv, [Next]_vars PROVE Marks
  <2> USE DEF IInv, TypeOK, RamInv, HolderInv, Shown
  <2>1. CASE Boot
    BY <1>1, <2>1 DEF Boot
  <2>2. CASE PowerLoss
    BY <1>1, <2>2 DEF PowerLoss
  <2>3. ASSUME NEW t \in Tasks, PublishSave(t) PROVE Marks
    BY <1>1, <2>3 DEF PublishSave, NextRevision
  <2>4. ASSUME NEW t \in Tasks, Mount(t) \/ Remount(t) PROVE Marks
    BY <1>1, <2>4 DEF Mount, Remount, LoadOrFail, Load, ram
  <2>5. CASE UNCHANGED <<stored, revision>>
    BY <1>1, <2>5
  <2>6. ASSUME NEW t \in Tasks,
               \/ Call(t) \/ Lock(t) \/ Initialize(t) \/ Check(t) \/ Open(t)
               \/ Write(t) \/ Verify(t) \/ Rename(t) \/ Format(t)
        PROVE  UNCHANGED <<stored, revision>>
    BY <2>6 DEF Call, Lock, Initialize, Check, Open, Write, Verify, Rename,
                Format, ram
  <2> QED
    BY <1>1, <2>1, <2>2, <2>3, <2>4, <2>5, <2>6 DEF Next, Work, vars
<1>2. IInv /\ [Next]_vars => [Marks]_vars
  BY <1>1
<1> QED
  BY Invariance, <1>2, PTL DEF Spec, RevisionMarksChange

(* The store with its files, lock and failures implements the register.     *)
THEOREM Refinement == Spec => Implements
<1> USE DEF Register!vars, Register!Shown
<1>1. Init => Register!Init
  BY DEF Init, Register!Init, Files
<1>2. ASSUME IInv, [Next]_vars PROVE [Register!Next]_Register!vars
  <2> USE DEF IInv, TypeOK, LockInv, RamInv, HolderInv, OffInv, Shown,
              Holding, Saving, Steps
  <2>1. ASSUME Load, ~ready, UNCHANGED record PROVE Register!Open
    BY <2>1 DEF Load, Register!Open
  <2>2. CASE Boot
    <3>1. ~ready /\ UNCHANGED record
      BY <1>2, <2>2 DEF Boot, files
    <3>2. CASE Load
      BY <2>1, <3>1, <3>2 DEF Register!Next
    <3>3. CASE UNCHANGED ram
      BY <3>1, <3>3 DEF ram
    <3> QED
      BY <2>2, <3>2, <3>3 DEF Boot
  <2>3. CASE PowerLoss
    BY <2>3 DEF PowerLoss, files, Register!Next, Register!PowerLoss
  <2>4. ASSUME NEW t \in Tasks, Rename(t) PROVE [Register!Next]_Register!vars
    <3>1. CASE UNCHANGED record
      BY <2>4, <3>1 DEF Rename, ram
    <3>2. CASE record' = temp
      <4>1. pc[t] = "rename" /\ UNCHANGED <<stored, revision, ready>>
        BY <2>4 DEF Rename, ram
      <4>2. \A u \in Tasks : pc[u] # "publish"
        BY <1>2, <4>1
      <4>3. temp \in Contents /\ ready /\ stored = Shown(record)
        BY <1>2, <4>1, <4>2
      <4>4. Register!Commit(temp)
        BY <3>2, <4>1, <4>3 DEF Register!Commit
      <4> QED
        BY <4>3, <4>4 DEF Register!Next
    <3> QED
      BY <2>4, <3>1, <3>2 DEF Rename
  <2>5. ASSUME NEW t \in Tasks, PublishSave(t) PROVE Register!Publish
    BY <1>2, <2>5 DEF PublishSave, NextRevision, files, Register!Publish
  <2>6. ASSUME NEW t \in Tasks, Mount(t) \/ Remount(t)
        PROVE  [Register!Next]_Register!vars
    <3>1. ~ready /\ UNCHANGED record
      BY <1>2, <2>6 DEF Mount, Remount, files
    <3>2. CASE Load
      BY <2>1, <3>1, <3>2 DEF Register!Next
    <3>3. CASE UNCHANGED ram
      BY <3>1, <3>3 DEF ram
    <3> QED
      BY <2>6, <3>2, <3>3 DEF Mount, Remount, LoadOrFail, ram
  <2>7. ASSUME NEW t \in Tasks, Format(t) PROVE [Register!Next]_Register!vars
    BY <1>2, <2>7 DEF Format, files, ram, Register!Next, Register!Erase
  <2>8. ASSUME NEW t \in Tasks,
               \/ Call(t) \/ Lock(t) \/ Initialize(t) \/ Check(t) \/ Open(t)
               \/ Write(t) \/ Verify(t)
        PROVE  UNCHANGED Register!vars
    BY <2>8 DEF Call, Lock, Initialize, Check, Open, Write, Verify, files, ram
  <2>9. CASE UNCHANGED vars
    BY <2>9 DEF vars
  <2> QED
    BY <1>2, <2>1, <2>2, <2>3, <2>4, <2>5, <2>6, <2>7, <2>8, <2>9
    DEF Next, Work, Register!Next
<1>3. IInv /\ [Next]_vars => [Register!Next]_Register!vars
  BY <1>2
<1> QED
  BY Invariance, <1>1, <1>3, PTL DEF Spec, Implements, Register!Spec
=============================================================================
