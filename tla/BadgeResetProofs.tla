-------------------------- MODULE BadgeResetProofs --------------------------
(***************************************************************************)
(* Proofs about BadgeReset for any accounts and values.                     *)
(***************************************************************************)
EXTENDS BadgeReset, TLAPS

(* The types, in two halves that different provers are good at.             *)
FlagsOK ==
  /\ ready \in BOOLEAN /\ busy \in BOOLEAN /\ up \in BOOLEAN /\ wiped \in BOOLEAN
  /\ nvs \in BOOLEAN
  /\ resetRequested \in BOOLEAN /\ resetNeedsPreferences \in BOOLEAN
  /\ sameRevision \in BOOLEAN /\ confirmed \in BOOLEAN /\ fresh \in BOOLEAN

ValuesOK ==
  /\ who \in S!Owners /\ snap \in S!Owners \cup {NoPhoto}
  /\ reset \in {"Idle", "Pending", "Running", "Succeeded", "Failed"}
  /\ flash \in [Keys -> Values] /\ wifi \in {"none", "some"}
  /\ ram \in [Keys -> Values] /\ pending \in SUBSET Keys
  /\ resetState \in States
  /\ view \in {"none", "setup", "reset"}
  /\ built \in {"page", "confirmation", "neither"}
  /\ pc \in {"loop", "commit", "forget"} \cup Keys
  /\ torn \in SUBSET Keys /\ late \in {"no", "tap", "setup"}

LEMMA Types == TypeOK <=> FlagsOK /\ ValuesOK
  BY DEF TypeOK, S!TypeOK, FlagsOK, ValuesOK

(* The account a photo in flight carries is not one a reset has cleared.    *)
NobodyInFlight == who = Nobody /\ snap \in {NoPhoto, Nobody}

(* Reset, setup and photos exclude each other in the service ...            *)
ServiceInv ==
  /\ wiped => reset = "Running" /\ who = Nobody
  /\ up => view = "setup"
  /\ reset = "Running" => snap = NoPhoto
  /\ S!ResetPending => ~resetNeedsPreferences

(* ... so that a profile, once cleared, stays so to the end of the reset,   *)
(* unless setup was begun in it: a reset confirmed by a late tap lets it be. *)
ClearedInv ==
  /\ resetNeedsPreferences /\ sameRevision /\ late # "setup" => NobodyInFlight
  /\ resetNeedsPreferences /\ resetRequested /\ late # "setup" => NobodyInFlight
  /\ reset = "Succeeded" /\ resetRequested /\ late # "setup" => NobodyInFlight
  /\ fresh => NobodyInFlight

(* The writes come one after the other, and after the profile.              *)
WriteInv ==
  /\ pc # "loop" => resetNeedsPreferences
  /\ pc \in {"marks", "unlock", "commit", "forget"} => flash["prefs"] = Default
  /\ pc \in {"unlock", "commit", "forget"} => flash["marks"] = Default
  /\ pc \in {"commit", "forget"} => flash["unlock"] = Default

(* A completed reset holds in memory and on flash.                          *)
FreshInv ==
  fresh => wifi = "none" /\ flash = Defaults /\ ram = Defaults /\ pending = {}

IInv ==
  /\ TypeOK /\ ServiceInv /\ ResetKeepsScreen /\ ClearedInv /\ WriteInv
  /\ FreshInv /\ MemoryMatchesFlash
-----------------------------------------------------------------------------
(* The default of every preference is a value of it.                        *)
LEMMA DefaultsType ==
  ASSUME ResetAssumption
  PROVE  /\ Defaults \in [Keys -> Values]
         /\ \A k \in Keys : Defaults[k] = Default
         /\ "prefs" \in Keys /\ "marks" \in Keys /\ "unlock" \in Keys
  BY DEF ResetAssumption, Defaults, Keys

(* The steps of the badge, one by one.                                      *)
LEMMA Steps ==
  ASSUME [Next]_vars
  PROVE  \/ Tick
         \/ Persist
         \/ Relock
         \/ \E k \in Changeable : Change(k)
         \/ StartSetup
         \/ LeaveSetup
         \/ SaveWifi
         \/ SaveForm
         \/ ConfigureWifi
         \/ ClearProfile
         \/ Initialize
         \/ EndSetup /\ UNCHANGED <<stored, memory, coord, screen, fresh, torn, late>>
         \/ BeginReset /\ UNCHANGED <<stored, memory, coord, screen, fresh, torn, late>>
         \/ Wipe /\ UNCHANGED <<stored, memory, coord, screen, fresh, torn, late>>
         \/ EndReset /\ UNCHANGED <<stored, memory, coord, screen, fresh, torn, late>>
         \/ ReadOwner /\ UNCHANGED <<stored, memory, coord, screen, fresh, torn, late>>
         \/ SavePhoto /\ UNCHANGED <<stored, memory, coord, screen, fresh, torn, late>>
         \/ OpenReset
         \/ CloseReset
         \/ Confirm
         \/ ReportFailure
         \/ BeginWrites
         \/ WriteDefault
         \/ Commit
         \/ Finish
         \/ Restart
         \/ UNCHANGED vars
  BY DEF Next, ServiceStep, PollReset

(* A refresh keeps the types of what it is given.                           *)
LEMMA RefreshType ==
  ASSUME ResetAssumption, NEW r \in [Keys -> Values], NEW p \in SUBSET Keys, NEW f, Refresh(r, p, f)
  PROVE  ram' \in [Keys -> Values] /\ pending' \in SUBSET Keys
<1>1. CASE ram' = r /\ pending' = p
  BY <1>1
<1>2. CASE ram' = [r EXCEPT !["unlock"] = Revealed] /\ pending' = p \cup {"unlock"}
  <2>1. ram' \in [Keys -> Values]
    BY <1>2 DEF ResetAssumption
  <2>2. "unlock" \in Keys
    BY DEF Keys
  <2> QED
    BY <1>2, <2>1, <2>2, Zenon
<1> QED
  BY <1>1, <1>2, Zenon DEF Refresh, PlanUnlock

(* The next write.                                                          *)
LEMMA AfterType ==
  ASSUME NEW k \in Keys
  PROVE  After[k] \in {"marks", "unlock", "commit"} /\ k # "loop"
  BY DEF Keys, After

(* The inductive invariant holds after boot.                                *)
LEMMA InitInv == ResetAssumption /\ Init => IInv
<1> SUFFICES ASSUME ResetAssumption, Init PROVE IInv
  OBVIOUS
<1> USE DefaultsType DEF ResetAssumption, Init, S!Init
<1>1. TypeOK
  <2>1. ram \in [Keys -> Values]
    OBVIOUS
  <2> QED
    BY <2>1 DEF TypeOK, S!TypeOK, S!Owners, States, Keys
<1>2. ServiceInv /\ ClearedInv
  BY DEF ServiceInv, ClearedInv, S!ResetPending
<1>3. ResetKeepsScreen
  BY DEF ResetKeepsScreen, S!ResetPending
<1>4. WriteInv /\ FreshInv
  BY DEF WriteInv, FreshInv
<1>5. MemoryMatchesFlash
  BY DEF MemoryMatchesFlash
<1> QED
  BY <1>1, <1>2, <1>3, <1>4, <1>5 DEF IInv

(* Every step keeps the types of the flags                                  *)
LEMMA FlagsStep ==
  ASSUME ResetAssumption, IInv, [Next]_vars
  PROVE  FlagsOK'
<1>0. FlagsOK /\ ValuesOK
  BY Types DEF IInv
<1> USE <1>0, DefaultsType
    DEF ResetAssumption, FlagsOK,
        service, stored, memory, coord, screen
<1>1. CASE Tick
  BY <1>1, Zenon DEF Tick, Refresh, PlanUnlock, Screen
<1>2. CASE Persist
  BY <1>2, Zenon DEF Persist
<1>3. CASE Relock
  BY <1>3, Zenon DEF Relock
<1>4. ASSUME NEW k \in Changeable, Change(k) PROVE FlagsOK'
  BY <1>4, Zenon DEF Change, Refresh, PlanUnlock
<1>5. CASE StartSetup
  BY <1>5, Zenon DEF StartSetup, S!StartSetup, S!ResetPending
<1>6. CASE LeaveSetup
  BY <1>6, Zenon DEF LeaveSetup, Refresh, PlanUnlock
<1>7. CASE SaveWifi
  BY <1>7, Zenon DEF SaveWifi
<1>8. CASE SaveForm
  BY <1>8, Zenon DEF SaveForm, S!SaveForm, S!Owners
<1>9. CASE ConfigureWifi
  BY <1>9, Zenon DEF ConfigureWifi
<1>10. CASE ClearProfile
  BY <1>10, Zenon DEF ClearProfile, S!ClearProfile, S!ResetAllowed,
     S!ResetPending
<1>11. CASE Initialize
  BY <1>11, Zenon DEF Initialize, S!Initialize, S!ResetPending
<1>12. CASE EndSetup /\ UNCHANGED <<stored, memory, coord, screen, fresh, torn, late>>
  BY <1>12, Zenon DEF EndSetup, S!EndSetup
<1>13. CASE BeginReset /\ UNCHANGED <<stored, memory, coord, screen, fresh, torn, late>>
  BY <1>13, Zenon DEF BeginReset, S!BeginReset
<1>14. CASE Wipe /\ UNCHANGED <<stored, memory, coord, screen, fresh, torn, late>>
  BY <1>14, Zenon DEF Wipe, S!Wipe
<1>15. CASE EndReset /\ UNCHANGED <<stored, memory, coord, screen, fresh, torn, late>>
  BY <1>15, Zenon DEF EndReset, S!EndReset
<1>16. CASE ReadOwner /\ UNCHANGED <<stored, memory, coord, screen, fresh, torn, late>>
  BY <1>16, Zenon DEF ReadOwner, S!ReadOwner
<1>17. CASE SavePhoto /\ UNCHANGED <<stored, memory, coord, screen, fresh, torn, late>>
  BY <1>17, ZenonT(30) DEF SavePhoto, S!SavePhoto
<1>18. CASE OpenReset
  BY <1>18, Zenon DEF OpenReset
<1>19. CASE CloseReset
  BY <1>19, Zenon DEF CloseReset, Closable
<1>20. CASE Confirm
  BY <1>20, Zenon DEF Confirm, Ignore, TakeUp, RetrySettings, S!RequestReset, S!ResetAllowed,
     S!ResetPending, Refresh, PlanUnlock
<1>21. CASE ReportFailure
  BY <1>21, Zenon DEF ReportFailure, ProfileKept, ProfileCleared,
     S!ResetPending, Refresh, PlanUnlock
<1>22. CASE BeginWrites
  BY <1>22, Zenon DEF BeginWrites, ProfileCleared
<1>23. CASE WriteDefault
  BY <1>23, Zenon DEF WriteDefault, SettingsFail, After, Refresh, PlanUnlock,
     Defaults
<1>24. CASE Commit
  BY <1>24, Zenon DEF Commit, SettingsFail, Refresh, PlanUnlock
<1>25. CASE Finish
  BY <1>25, ZenonT(30) DEF Finish, SettingsFail, Refresh, PlanUnlock,
     NothingPlanned, Defaults
<1>26. CASE Restart
  BY <1>26, Zenon DEF Restart, S!Reboot, Loaded, Idle, Defaults
<1>27. CASE UNCHANGED vars
  BY <1>27, Zenon DEF vars
<1> QED
  BY Steps, Zenon, <1>1, <1>2, <1>3, <1>4, <1>5, <1>6, <1>7, <1>8, <1>9, <1>10,
     <1>11,
     <1>12, <1>13, <1>14, <1>15, <1>16, <1>17, <1>18, <1>19, <1>20, <1>21, <1>22,
     <1>23, <1>24, <1>25, <1>26, <1>27

(* and of the rest.                                                         *)
LEMMA ValuesStep ==
  ASSUME ResetAssumption, IInv, [Next]_vars
  PROVE  ValuesOK'
<1>0. FlagsOK /\ ValuesOK
  BY Types DEF IInv
<1> USE <1>0, DefaultsType
    DEF ResetAssumption, ValuesOK, Keys, States, S!Owners,
        service, stored, memory, coord, screen
<1>1. CASE Tick
  <2>1. ram' \in [Keys -> Values] /\ pending' \in SUBSET Keys
    BY <1>1, <1>0, RefreshType DEF Tick, ValuesOK
  <2>2. built' \in {"page", "confirmation", "neither"}
    BY <1>1, Zenon DEF Tick, Screen
  <2>3. UNCHANGED <<service, stored, coord, view, torn, late>>
    BY <1>1, Zenon DEF Tick
  <2> QED
    BY <2>1, <2>2, <2>3
<1>2. CASE Persist
  BY <1>2 DEF Persist
<1>3. CASE Relock
  <2>1. ram' \in [Keys -> Values] /\ flash' \in [Keys -> Values]
    BY <1>3 DEF Relock
  <2>2. pending' \in SUBSET Keys /\ torn' \in SUBSET Keys
    BY <1>3 DEF Relock
  <2>3. UNCHANGED <<service, wifi, coord, view, built, late>>
    BY <1>3, Zenon DEF Relock, screen
  <2> QED
    BY <2>1, <2>2, <2>3
<1>4. ASSUME NEW k \in Changeable, Change(k) PROVE ValuesOK'
  <2>1. PICK v \in Values \ {ram[k]} :
          Refresh([ram EXCEPT ![k] = v], pending \cup {k}, FALSE)
    BY <1>4 DEF Change
  <2>2. ram' \in [Keys -> Values] /\ pending' \in SUBSET Keys
    <3>1. k \in Keys
      BY DEF ResetAssumption
    <3>2. [ram EXCEPT ![k] = v] \in [Keys -> Values] /\ pending \cup {k} \in SUBSET Keys
      BY <3>1, <1>0 DEF ValuesOK
    <3> QED
      BY <2>1, <3>2, RefreshType
  <2> QED
    BY <1>4, <2>2 DEF Change
<1>5. CASE StartSetup
  BY <1>5 DEF StartSetup, S!StartSetup, S!ResetPending
<1>6. CASE LeaveSetup
  <2>1. ram' \in [Keys -> Values] /\ pending' \in SUBSET Keys
    BY <1>6, <1>0, RefreshType DEF LeaveSetup, ValuesOK
  <2> QED
    BY <1>6, <2>1 DEF LeaveSetup
<1>7. CASE SaveWifi
  BY <1>7 DEF SaveWifi
<1>8. CASE SaveForm
  BY <1>8 DEF SaveForm, S!SaveForm, S!Owners
<1>9. CASE ConfigureWifi
  BY <1>9 DEF ConfigureWifi
<1>10. CASE ClearProfile
  BY <1>10 DEF ClearProfile, S!ClearProfile, S!ResetAllowed, S!ResetPending
<1>11. CASE Initialize
  BY <1>11 DEF Initialize, S!Initialize, S!ResetPending
<1>12. CASE EndSetup /\ UNCHANGED <<stored, memory, coord, screen, fresh, torn, late>>
  BY <1>12 DEF EndSetup, S!EndSetup
<1>13. CASE BeginReset /\ UNCHANGED <<stored, memory, coord, screen, fresh, torn, late>>
  BY <1>13 DEF BeginReset, S!BeginReset
<1>14. CASE Wipe /\ UNCHANGED <<stored, memory, coord, screen, fresh, torn, late>>
  BY <1>14 DEF Wipe, S!Wipe
<1>15. CASE EndReset /\ UNCHANGED <<stored, memory, coord, screen, fresh, torn, late>>
  BY <1>15 DEF EndReset, S!EndReset
<1>16. CASE ReadOwner /\ UNCHANGED <<stored, memory, coord, screen, fresh, torn, late>>
  BY <1>16 DEF ReadOwner, S!ReadOwner
<1>17. CASE SavePhoto /\ UNCHANGED <<stored, memory, coord, screen, fresh, torn, late>>
  BY <1>17 DEF SavePhoto, S!SavePhoto
<1>18. CASE OpenReset
  BY <1>18 DEF OpenReset
<1>19. CASE CloseReset
  BY <1>19 DEF CloseReset, Closable
<1>20. CASE Confirm
  <2>1. UNCHANGED <<stored, view, torn, pc, who, snap>>
    BY <1>20 DEF Confirm, Ignore, TakeUp, S!RequestReset
  <2>2. CASE Ignore
    BY <1>20, <2>1, <2>2 DEF Ignore
  <2>3. CASE TakeUp
    <3>1. ram' \in [Keys -> Values] /\ pending' \in SUBSET Keys
      BY <2>3, <1>0, RefreshType DEF TakeUp, ValuesOK
    <3>2. resetState' \in {"Working", "Failed"} /\ reset' \in {reset, "Pending"}
      BY <2>3 DEF TakeUp, S!RequestReset
    <3>3. built' \in {"page", "confirmation", "neither"} /\ late' \in {"no", "tap", "setup"}
      BY <2>3, Zenon DEF TakeUp
    <3> QED
      BY <2>1, <3>1, <3>2, <3>3
  <2> QED
    BY <1>20, <2>2, <2>3 DEF Confirm
<1>21. CASE ReportFailure
  <2>1. ram' \in [Keys -> Values] /\ pending' \in SUBSET Keys
    BY <1>21, <1>0, RefreshType DEF ReportFailure, ValuesOK
  <2> QED
    BY <1>21, <2>1 DEF ReportFailure
<1>22. CASE BeginWrites
  BY <1>22 DEF BeginWrites, ProfileCleared
<1>23. CASE WriteDefault
  <2>1. flash' \in [Keys -> Values]
    BY <1>23 DEF WriteDefault
  <2>2. ram' \in [Keys -> Values] /\ pending' \in SUBSET Keys
    <3>1. (ram' = ram /\ pending' = pending) \/ Refresh(ram, pending, fresh)
      BY <1>23, Zenon DEF WriteDefault, SettingsFail, memory
    <3> QED
      BY <3>1, <1>0, RefreshType, Zenon DEF ValuesOK
  <2>3. /\ pc' \in {"loop", "marks", "unlock", "commit"} /\ torn' \in SUBSET Keys
        /\ resetState' \in {resetState, "SettingsFailed"}
    BY <1>23, AfterType DEF WriteDefault, SettingsFail
  <2>4. late' \in {late, "no"} /\ UNCHANGED <<service, wifi, screen>>
    BY <1>23, Zenon DEF WriteDefault, SettingsFail
  <2> QED
    BY <2>1, <2>2, <2>3, <2>4
<1>24. CASE Commit
  <2>1. ram' \in [Keys -> Values] /\ pending' \in SUBSET Keys
    <3>1. UNCHANGED memory \/ Refresh(ram, pending, fresh)
      BY <1>24, Zenon DEF Commit, SettingsFail
    <3> QED
      BY <3>1, <1>0, RefreshType, Zenon DEF ValuesOK, memory
  <2>2. /\ pc' \in {"loop", "forget"} /\ torn' \in SUBSET Keys
        /\ resetState' \in {resetState, "SettingsFailed"}
    BY <1>24 DEF Commit, SettingsFail
  <2>3. late' \in {late, "no"} /\ UNCHANGED <<service, stored, screen>>
    BY <1>24, Zenon DEF Commit, SettingsFail
  <2> QED
    BY <2>1, <2>2, <2>3
<1>25. CASE Finish
  <2>1. ram' \in [Keys -> Values] /\ pending' \in SUBSET Keys
    <3>1. Refresh(Defaults, {}, late # "setup") \/ Refresh(ram, pending, fresh)
      BY <1>25, Zenon DEF Finish, SettingsFail, NothingPlanned
    <3> QED
      BY <3>1, <1>0, DefaultsType, RefreshType DEF ValuesOK
  <2>2. /\ pc' = "loop" /\ torn' \in SUBSET Keys
        /\ resetState' \in {"Complete", "SettingsFailed"} /\ wifi' \in {wifi, "none"}
    BY <1>25 DEF Finish, SettingsFail
  <2>3. late' \in {late, "no"} /\ UNCHANGED <<service, flash, screen>>
    BY <1>25, Zenon DEF Finish, SettingsFail
  <2> QED
    BY <2>1, <2>2, <2>3
<1>26. CASE Restart
  BY <1>26 DEF Restart, S!Reboot, Loaded, Idle, Defaults
<1>27. CASE UNCHANGED vars
  BY <1>27 DEF vars
<1> QED
  BY Steps, Zenon, <1>1, <1>2, <1>3, <1>4, <1>5, <1>6, <1>7, <1>8, <1>9, <1>10,
     <1>11,
     <1>12, <1>13, <1>14, <1>15, <1>16, <1>17, <1>18, <1>19, <1>20, <1>21, <1>22,
     <1>23, <1>24, <1>25, <1>26, <1>27

(* Every step keeps reset, setup and photos apart.                          *)
LEMMA ServiceStepInv ==
  ASSUME ResetAssumption, IInv, [Next]_vars
  PROVE  ServiceInv'
<1> USE DefaultsType
    DEF ResetAssumption, IInv, ServiceInv, ResetKeepsScreen, WriteInv, S!ResetPending, TypeOK,
        S!TypeOK,
        service, stored, memory, coord, screen
<1>1. CASE Tick
  BY <1>1 DEF Tick, Refresh, PlanUnlock, Screen
<1>2. CASE Persist
  BY <1>2 DEF Persist
<1>3. CASE Relock
  BY <1>3 DEF Relock
<1>4. ASSUME NEW k \in Changeable, Change(k) PROVE ServiceInv'
  BY <1>4 DEF Change, Refresh, PlanUnlock
<1>5. CASE StartSetup
  BY <1>5 DEF StartSetup, S!StartSetup, S!ResetPending
<1>6. CASE LeaveSetup
  BY <1>6 DEF LeaveSetup, Refresh, PlanUnlock
<1>7. CASE SaveWifi
  BY <1>7 DEF SaveWifi
<1>8. CASE SaveForm
  BY <1>8 DEF SaveForm, S!SaveForm, S!Owners
<1>9. CASE ConfigureWifi
  BY <1>9 DEF ConfigureWifi
<1>10. CASE ClearProfile
  BY <1>10 DEF ClearProfile, S!ClearProfile, S!ResetAllowed, S!ResetPending
<1>11. CASE Initialize
  BY <1>11 DEF Initialize, S!Initialize, S!ResetPending
<1>12. CASE EndSetup /\ UNCHANGED <<stored, memory, coord, screen, fresh, torn, late>>
  BY <1>12 DEF EndSetup, S!EndSetup
<1>13. CASE BeginReset /\ UNCHANGED <<stored, memory, coord, screen, fresh, torn, late>>
  BY <1>13 DEF BeginReset, S!BeginReset
<1>14. CASE Wipe /\ UNCHANGED <<stored, memory, coord, screen, fresh, torn, late>>
  BY <1>14 DEF Wipe, S!Wipe
<1>15. CASE EndReset /\ UNCHANGED <<stored, memory, coord, screen, fresh, torn, late>>
  BY <1>15 DEF EndReset, S!EndReset
<1>16. CASE ReadOwner /\ UNCHANGED <<stored, memory, coord, screen, fresh, torn, late>>
  BY <1>16 DEF ReadOwner, S!ReadOwner
<1>17. CASE SavePhoto /\ UNCHANGED <<stored, memory, coord, screen, fresh, torn, late>>
  BY <1>17 DEF SavePhoto, S!SavePhoto
<1>18. CASE OpenReset
  BY <1>18 DEF OpenReset
<1>19. CASE CloseReset
  BY <1>19 DEF CloseReset, Closable
<1>20. CASE Confirm
  BY <1>20 DEF Confirm, Ignore, TakeUp, RetrySettings, S!RequestReset, S!ResetAllowed,
     S!ResetPending, Refresh, PlanUnlock
<1>21. CASE ReportFailure
  BY <1>21 DEF ReportFailure, ProfileKept, ProfileCleared, S!ResetPending,
     Refresh, PlanUnlock
<1>22. CASE BeginWrites
  BY <1>22 DEF BeginWrites, ProfileCleared
<1>23. CASE WriteDefault
  BY <1>23 DEF WriteDefault, SettingsFail, After, Refresh, PlanUnlock, Defaults
<1>24. CASE Commit
  BY <1>24 DEF Commit, SettingsFail, Refresh, PlanUnlock
<1>25. CASE Finish
  BY <1>25 DEF Finish, SettingsFail, Refresh, PlanUnlock, NothingPlanned,
     Defaults
<1>26. CASE Restart
  BY <1>26 DEF Restart, S!Reboot, Loaded, Idle, Defaults
<1>27. CASE UNCHANGED vars
  BY <1>27 DEF vars
<1> QED
  BY Steps, Zenon, <1>1, <1>2, <1>3, <1>4, <1>5, <1>6, <1>7, <1>8, <1>9, <1>10,
     <1>11,
     <1>12, <1>13, <1>14, <1>15, <1>16, <1>17, <1>18, <1>19, <1>20, <1>21, <1>22,
     <1>23, <1>24, <1>25, <1>26, <1>27

(* Every step keeps the screen of a reset at work.                          *)
LEMMA ScreenStep ==
  ASSUME ResetAssumption, IInv, [Next]_vars
  PROVE  ResetKeepsScreen'
<1> USE DefaultsType
    DEF ResetAssumption, IInv, ServiceInv, ResetKeepsScreen, WriteInv, S!ResetPending, TypeOK,
        S!TypeOK,
        service, stored, memory, coord, screen
<1>1. CASE Tick
  BY <1>1 DEF Tick, Refresh, PlanUnlock, Screen
<1>2. CASE Persist
  BY <1>2 DEF Persist
<1>3. CASE Relock
  BY <1>3 DEF Relock
<1>4. ASSUME NEW k \in Changeable, Change(k) PROVE ResetKeepsScreen'
  BY <1>4 DEF Change, Refresh, PlanUnlock
<1>5. CASE StartSetup
  BY <1>5 DEF StartSetup, S!StartSetup, S!ResetPending
<1>6. CASE LeaveSetup
  BY <1>6 DEF LeaveSetup, Refresh, PlanUnlock
<1>7. CASE SaveWifi
  BY <1>7 DEF SaveWifi
<1>8. CASE SaveForm
  BY <1>8 DEF SaveForm, S!SaveForm, S!Owners
<1>9. CASE ConfigureWifi
  BY <1>9 DEF ConfigureWifi
<1>10. CASE ClearProfile
  BY <1>10 DEF ClearProfile, S!ClearProfile, S!ResetAllowed, S!ResetPending
<1>11. CASE Initialize
  BY <1>11 DEF Initialize, S!Initialize, S!ResetPending
<1>12. CASE EndSetup /\ UNCHANGED <<stored, memory, coord, screen, fresh, torn, late>>
  BY <1>12 DEF EndSetup, S!EndSetup
<1>13. CASE BeginReset /\ UNCHANGED <<stored, memory, coord, screen, fresh, torn, late>>
  BY <1>13 DEF BeginReset, S!BeginReset
<1>14. CASE Wipe /\ UNCHANGED <<stored, memory, coord, screen, fresh, torn, late>>
  BY <1>14 DEF Wipe, S!Wipe
<1>15. CASE EndReset /\ UNCHANGED <<stored, memory, coord, screen, fresh, torn, late>>
  BY <1>15 DEF EndReset, S!EndReset
<1>16. CASE ReadOwner /\ UNCHANGED <<stored, memory, coord, screen, fresh, torn, late>>
  BY <1>16 DEF ReadOwner, S!ReadOwner
<1>17. CASE SavePhoto /\ UNCHANGED <<stored, memory, coord, screen, fresh, torn, late>>
  BY <1>17 DEF SavePhoto, S!SavePhoto
<1>18. CASE OpenReset
  BY <1>18 DEF OpenReset
<1>19. CASE CloseReset
  BY <1>19 DEF CloseReset, Closable
<1>20. CASE Confirm
  BY <1>20 DEF Confirm, Ignore, TakeUp, RetrySettings, S!RequestReset, S!ResetAllowed,
     S!ResetPending, Refresh, PlanUnlock
<1>21. CASE ReportFailure
  BY <1>21 DEF ReportFailure, ProfileKept, ProfileCleared, S!ResetPending,
     Refresh, PlanUnlock
<1>22. CASE BeginWrites
  BY <1>22 DEF BeginWrites, ProfileCleared
<1>23. CASE WriteDefault
  <2>1. /\ UNCHANGED <<service, view, confirmed, resetNeedsPreferences>>
        /\ \/ UNCHANGED <<resetRequested, resetState, late>>
           \/ pc' = "loop" /\ resetRequested' = FALSE /\ resetState' = "SettingsFailed"
    BY <1>23, Zenon DEF WriteDefault, SettingsFail
  <2>2. pc # "loop"
    BY <1>23, AfterType DEF WriteDefault
  <2> QED
    BY <2>1, <2>2
<1>24. CASE Commit
  BY <1>24 DEF Commit, SettingsFail, Refresh, PlanUnlock
<1>25. CASE Finish
  BY <1>25 DEF Finish, SettingsFail, Refresh, PlanUnlock, NothingPlanned,
     Defaults
<1>26. CASE Restart
  BY <1>26 DEF Restart, S!Reboot, Loaded, Idle, Defaults
<1>27. CASE UNCHANGED vars
  BY <1>27 DEF vars
<1> QED
  BY Steps, Zenon, <1>1, <1>2, <1>3, <1>4, <1>5, <1>6, <1>7, <1>8, <1>9, <1>10,
     <1>11,
     <1>12, <1>13, <1>14, <1>15, <1>16, <1>17, <1>18, <1>19, <1>20, <1>21, <1>22,
     <1>23, <1>24, <1>25, <1>26, <1>27

(* Every step keeps a cleared profile cleared.                              *)
LEMMA ClearedStep ==
  ASSUME ResetAssumption, IInv, [Next]_vars
  PROVE  ClearedInv'
<1> USE DefaultsType
    DEF ResetAssumption, IInv, ClearedInv, NobodyInFlight, ServiceInv, ResetKeepsScreen,
        WriteInv, S!ResetPending, TypeOK, S!TypeOK,
        service, stored, memory, coord, screen
<1>1. CASE Tick
  BY <1>1 DEF Tick, Refresh, PlanUnlock, Screen
<1>2. CASE Persist
  BY <1>2 DEF Persist
<1>3. CASE Relock
  BY <1>3 DEF Relock
<1>4. ASSUME NEW k \in Changeable, Change(k) PROVE ClearedInv'
  BY <1>4 DEF Change, Refresh, PlanUnlock
<1>5. CASE StartSetup
  BY <1>5 DEF StartSetup, S!StartSetup, S!ResetPending
<1>6. CASE LeaveSetup
  BY <1>6 DEF LeaveSetup, Refresh, PlanUnlock
<1>7. CASE SaveWifi
  BY <1>7 DEF SaveWifi
<1>8. CASE SaveForm
  BY <1>8 DEF SaveForm, S!SaveForm, S!Owners
<1>9. CASE ConfigureWifi
  BY <1>9 DEF ConfigureWifi
<1>10. CASE ClearProfile
  BY <1>10 DEF ClearProfile, S!ClearProfile, S!ResetAllowed, S!ResetPending
<1>11. CASE Initialize
  BY <1>11 DEF Initialize, S!Initialize, S!ResetPending
<1>12. CASE EndSetup /\ UNCHANGED <<stored, memory, coord, screen, fresh, torn, late>>
  BY <1>12 DEF EndSetup, S!EndSetup
<1>13. CASE BeginReset /\ UNCHANGED <<stored, memory, coord, screen, fresh, torn, late>>
  BY <1>13 DEF BeginReset, S!BeginReset
<1>14. CASE Wipe /\ UNCHANGED <<stored, memory, coord, screen, fresh, torn, late>>
  BY <1>14 DEF Wipe, S!Wipe
<1>15. CASE EndReset /\ UNCHANGED <<stored, memory, coord, screen, fresh, torn, late>>
  BY <1>15 DEF EndReset, S!EndReset
<1>16. CASE ReadOwner /\ UNCHANGED <<stored, memory, coord, screen, fresh, torn, late>>
  BY <1>16 DEF ReadOwner, S!ReadOwner
<1>17. CASE SavePhoto /\ UNCHANGED <<stored, memory, coord, screen, fresh, torn, late>>
  BY <1>17 DEF SavePhoto, S!SavePhoto
<1>18. CASE OpenReset
  BY <1>18 DEF OpenReset
<1>19. CASE CloseReset
  BY <1>19 DEF CloseReset, Closable
<1>20. CASE Confirm
  BY <1>20 DEF Confirm, Ignore, TakeUp, RetrySettings, S!RequestReset, S!ResetAllowed,
     S!ResetPending, Refresh, PlanUnlock
<1>21. CASE ReportFailure
  BY <1>21 DEF ReportFailure, ProfileKept, ProfileCleared, S!ResetPending,
     Refresh, PlanUnlock
<1>22. CASE BeginWrites
  BY <1>22 DEF BeginWrites, ProfileCleared
<1>23. CASE WriteDefault
  <2>1. late = "setup" \/ NobodyInFlight
    BY <1>23, DefaultsType DEF WriteDefault, Keys
  <2>2. fresh' => fresh
    BY <1>23, Zenon DEF WriteDefault, SettingsFail, Refresh
  <2>3. late' = "setup" \/ late # "setup"
    BY <1>23, Zenon DEF WriteDefault, SettingsFail
  <2>4. UNCHANGED <<who, snap>>
    BY <1>23, Zenon DEF WriteDefault, service
  <2> QED
    BY <2>1, <2>2, <2>3, <2>4
<1>24. CASE Commit
  <2>1. late = "setup" \/ NobodyInFlight
    BY <1>24, DefaultsType DEF Commit, Keys
  <2>2. fresh' => fresh
    BY <1>24, Zenon DEF Commit, SettingsFail, Refresh
  <2>3. late' = "setup" \/ late # "setup"
    BY <1>24, Zenon DEF Commit, SettingsFail
  <2>4. UNCHANGED <<who, snap>>
    BY <1>24, Zenon DEF Commit, service
  <2> QED
    BY <2>1, <2>2, <2>3, <2>4
<1>25. CASE Finish
  <2>1. late = "setup" \/ NobodyInFlight
    BY <1>25 DEF Finish
  <2>2. \/ ~resetNeedsPreferences' /\ (fresh' => late # "setup")
        \/ (late' = "setup" \/ late # "setup") /\ (fresh' => fresh)
    BY <1>25, Zenon DEF Finish, SettingsFail, Refresh
  <2>3. UNCHANGED <<who, snap>> /\ ~resetRequested'
    BY <1>25, Zenon DEF Finish, SettingsFail, service
  <2> QED
    BY <2>1, <2>2, <2>3
<1>26. CASE Restart
  BY <1>26 DEF Restart, S!Reboot, Loaded, Idle, Defaults
<1>27. CASE UNCHANGED vars
  BY <1>27 DEF vars
<1> QED
  BY Steps, Zenon, <1>1, <1>2, <1>3, <1>4, <1>5, <1>6, <1>7, <1>8, <1>9, <1>10,
     <1>11,
     <1>12, <1>13, <1>14, <1>15, <1>16, <1>17, <1>18, <1>19, <1>20, <1>21, <1>22,
     <1>23, <1>24, <1>25, <1>26, <1>27

(* Every step keeps what the writes before it did.                          *)
LEMMA WriteStep ==
  ASSUME ResetAssumption, IInv, [Next]_vars
  PROVE  WriteInv'
<1> USE DefaultsType
    DEF ResetAssumption, IInv, WriteInv, TypeOK, Keys,
        service, stored, memory, coord, screen
<1>1. CASE Tick
  BY <1>1 DEF Tick, Refresh, PlanUnlock, Screen
<1>2. CASE Persist
  BY <1>2 DEF Persist
<1>3. CASE Relock
  BY <1>3 DEF Relock
<1>4. ASSUME NEW k \in Changeable, Change(k) PROVE WriteInv'
  BY <1>4 DEF Change, Refresh, PlanUnlock
<1>5. CASE StartSetup
  BY <1>5 DEF StartSetup, S!StartSetup, S!ResetPending
<1>6. CASE LeaveSetup
  BY <1>6 DEF LeaveSetup, Refresh, PlanUnlock
<1>7. CASE SaveWifi
  BY <1>7 DEF SaveWifi
<1>8. CASE SaveForm
  BY <1>8 DEF SaveForm, S!SaveForm, S!Owners
<1>9. CASE ConfigureWifi
  BY <1>9 DEF ConfigureWifi
<1>10. CASE ClearProfile
  BY <1>10 DEF ClearProfile, S!ClearProfile, S!ResetAllowed, S!ResetPending
<1>11. CASE Initialize
  BY <1>11 DEF Initialize, S!Initialize, S!ResetPending
<1>12. CASE EndSetup /\ UNCHANGED <<stored, memory, coord, screen, fresh, torn, late>>
  BY <1>12 DEF EndSetup, S!EndSetup
<1>13. CASE BeginReset /\ UNCHANGED <<stored, memory, coord, screen, fresh, torn, late>>
  BY <1>13 DEF BeginReset, S!BeginReset
<1>14. CASE Wipe /\ UNCHANGED <<stored, memory, coord, screen, fresh, torn, late>>
  BY <1>14 DEF Wipe, S!Wipe
<1>15. CASE EndReset /\ UNCHANGED <<stored, memory, coord, screen, fresh, torn, late>>
  BY <1>15 DEF EndReset, S!EndReset
<1>16. CASE ReadOwner /\ UNCHANGED <<stored, memory, coord, screen, fresh, torn, late>>
  BY <1>16 DEF ReadOwner, S!ReadOwner
<1>17. CASE SavePhoto /\ UNCHANGED <<stored, memory, coord, screen, fresh, torn, late>>
  BY <1>17 DEF SavePhoto, S!SavePhoto
<1>18. CASE OpenReset
  BY <1>18 DEF OpenReset
<1>19. CASE CloseReset
  BY <1>19 DEF CloseReset, Closable
<1>20. CASE Confirm
  BY <1>20 DEF Confirm, Ignore, TakeUp, RetrySettings, S!RequestReset, S!ResetAllowed,
     S!ResetPending, Refresh, PlanUnlock
<1>21. CASE ReportFailure
  BY <1>21 DEF ReportFailure, ProfileKept, ProfileCleared, S!ResetPending,
     Refresh, PlanUnlock
<1>22. CASE BeginWrites
  BY <1>22 DEF BeginWrites, ProfileCleared
<1>23. CASE WriteDefault
  BY <1>23 DEF WriteDefault, SettingsFail, After, Refresh, PlanUnlock, Defaults
<1>24. CASE Commit
  BY <1>24 DEF Commit, SettingsFail, Refresh, PlanUnlock
<1>25. CASE Finish
  BY <1>25 DEF Finish, SettingsFail, Refresh, PlanUnlock, NothingPlanned,
     Defaults
<1>26. CASE Restart
  BY <1>26 DEF Restart, S!Reboot, Loaded, Idle, Defaults
<1>27. CASE UNCHANGED vars
  BY <1>27 DEF vars
<1> QED
  BY Steps, Zenon, <1>1, <1>2, <1>3, <1>4, <1>5, <1>6, <1>7, <1>8, <1>9, <1>10,
     <1>11,
     <1>12, <1>13, <1>14, <1>15, <1>16, <1>17, <1>18, <1>19, <1>20, <1>21, <1>22,
     <1>23, <1>24, <1>25, <1>26, <1>27

(* Every step keeps a completed reset, or is a change.                      *)
LEMMA FreshStep ==
  ASSUME ResetAssumption, IInv, [Next]_vars
  PROVE  FreshInv'
<1> USE DefaultsType
    DEF ResetAssumption, IInv, FreshInv, WriteInv, TypeOK, Keys, Defaults,
        service, stored, memory, coord, screen
<1>1. CASE Tick
  BY <1>1 DEF Tick, Refresh, PlanUnlock, Screen
<1>2. CASE Persist
  BY <1>2 DEF Persist
<1>3. CASE Relock
  BY <1>3 DEF Relock
<1>4. ASSUME NEW k \in Changeable, Change(k) PROVE FreshInv'
  BY <1>4 DEF Change, Refresh, PlanUnlock
<1>5. CASE StartSetup
  BY <1>5 DEF StartSetup, S!StartSetup, S!ResetPending
<1>6. CASE LeaveSetup
  BY <1>6 DEF LeaveSetup, Refresh, PlanUnlock
<1>7. CASE SaveWifi
  BY <1>7 DEF SaveWifi
<1>8. CASE SaveForm
  BY <1>8 DEF SaveForm, S!SaveForm, S!Owners
<1>9. CASE ConfigureWifi
  BY <1>9 DEF ConfigureWifi
<1>10. CASE ClearProfile
  BY <1>10 DEF ClearProfile, S!ClearProfile, S!ResetAllowed, S!ResetPending
<1>11. CASE Initialize
  BY <1>11 DEF Initialize, S!Initialize, S!ResetPending
<1>12. CASE EndSetup /\ UNCHANGED <<stored, memory, coord, screen, fresh, torn, late>>
  BY <1>12 DEF EndSetup, S!EndSetup
<1>13. CASE BeginReset /\ UNCHANGED <<stored, memory, coord, screen, fresh, torn, late>>
  BY <1>13 DEF BeginReset, S!BeginReset
<1>14. CASE Wipe /\ UNCHANGED <<stored, memory, coord, screen, fresh, torn, late>>
  BY <1>14 DEF Wipe, S!Wipe
<1>15. CASE EndReset /\ UNCHANGED <<stored, memory, coord, screen, fresh, torn, late>>
  BY <1>15 DEF EndReset, S!EndReset
<1>16. CASE ReadOwner /\ UNCHANGED <<stored, memory, coord, screen, fresh, torn, late>>
  BY <1>16 DEF ReadOwner, S!ReadOwner
<1>17. CASE SavePhoto /\ UNCHANGED <<stored, memory, coord, screen, fresh, torn, late>>
  BY <1>17 DEF SavePhoto, S!SavePhoto
<1>18. CASE OpenReset
  BY <1>18 DEF OpenReset
<1>19. CASE CloseReset
  BY <1>19 DEF CloseReset, Closable
<1>20. CASE Confirm
  BY <1>20 DEF Confirm, Ignore, TakeUp, RetrySettings, S!RequestReset, S!ResetAllowed,
     S!ResetPending, Refresh, PlanUnlock
<1>21. CASE ReportFailure
  BY <1>21 DEF ReportFailure, ProfileKept, ProfileCleared, S!ResetPending,
     Refresh, PlanUnlock
<1>22. CASE BeginWrites
  BY <1>22 DEF BeginWrites, ProfileCleared
<1>23. CASE WriteDefault
  <2>1. flash = Defaults => flash' = Defaults
    BY <1>23 DEF WriteDefault
  <2>2. /\ wifi' = wifi
        /\ fresh' => fresh /\ ram' = ram /\ pending' = pending
    BY <1>23 DEF WriteDefault, SettingsFail, Refresh
  <2> QED
    BY <2>1, <2>2, Zenon
<1>24. CASE Commit
  BY <1>24 DEF Commit, SettingsFail, Refresh, PlanUnlock
<1>25. CASE Finish
  BY <1>25 DEF Finish, SettingsFail, Refresh, PlanUnlock, NothingPlanned,
     Defaults
<1>26. CASE Restart
  BY <1>26 DEF Restart, S!Reboot, Loaded, Idle, Defaults
<1>27. CASE UNCHANGED vars
  BY <1>27 DEF vars
<1> QED
  BY Steps, Zenon, <1>1, <1>2, <1>3, <1>4, <1>5, <1>6, <1>7, <1>8, <1>9, <1>10,
     <1>11,
     <1>12, <1>13, <1>14, <1>15, <1>16, <1>17, <1>18, <1>19, <1>20, <1>21, <1>22,
     <1>23, <1>24, <1>25, <1>26, <1>27

(* Every step keeps memory and flash equal where nothing is planned.        *)
LEMMA MemoryStep ==
  ASSUME ResetAssumption, IInv, [Next]_vars
  PROVE  MemoryMatchesFlash'
<1> USE DefaultsType
    DEF ResetAssumption, IInv, MemoryMatchesFlash, WriteInv, TypeOK, Keys,
        service, stored, memory, coord, screen
<1>1. CASE Tick
  BY <1>1 DEF Tick, Refresh, PlanUnlock, Screen
<1>2. CASE Persist
  BY <1>2 DEF Persist
<1>3. CASE Relock
  BY <1>3 DEF Relock
<1>4. ASSUME NEW k \in Changeable, Change(k) PROVE MemoryMatchesFlash'
  BY <1>4 DEF Change, Refresh, PlanUnlock
<1>5. CASE StartSetup
  BY <1>5 DEF StartSetup, S!StartSetup, S!ResetPending
<1>6. CASE LeaveSetup
  BY <1>6 DEF LeaveSetup, Refresh, PlanUnlock
<1>7. CASE SaveWifi
  BY <1>7 DEF SaveWifi
<1>8. CASE SaveForm
  BY <1>8 DEF SaveForm, S!SaveForm, S!Owners
<1>9. CASE ConfigureWifi
  BY <1>9 DEF ConfigureWifi
<1>10. CASE ClearProfile
  BY <1>10 DEF ClearProfile, S!ClearProfile, S!ResetAllowed, S!ResetPending
<1>11. CASE Initialize
  BY <1>11 DEF Initialize, S!Initialize, S!ResetPending
<1>12. CASE EndSetup /\ UNCHANGED <<stored, memory, coord, screen, fresh, torn, late>>
  BY <1>12 DEF EndSetup, S!EndSetup
<1>13. CASE BeginReset /\ UNCHANGED <<stored, memory, coord, screen, fresh, torn, late>>
  BY <1>13 DEF BeginReset, S!BeginReset
<1>14. CASE Wipe /\ UNCHANGED <<stored, memory, coord, screen, fresh, torn, late>>
  BY <1>14 DEF Wipe, S!Wipe
<1>15. CASE EndReset /\ UNCHANGED <<stored, memory, coord, screen, fresh, torn, late>>
  BY <1>15 DEF EndReset, S!EndReset
<1>16. CASE ReadOwner /\ UNCHANGED <<stored, memory, coord, screen, fresh, torn, late>>
  BY <1>16 DEF ReadOwner, S!ReadOwner
<1>17. CASE SavePhoto /\ UNCHANGED <<stored, memory, coord, screen, fresh, torn, late>>
  BY <1>17 DEF SavePhoto, S!SavePhoto
<1>18. CASE OpenReset
  BY <1>18 DEF OpenReset
<1>19. CASE CloseReset
  BY <1>19 DEF CloseReset, Closable
<1>20. CASE Confirm
  BY <1>20 DEF Confirm, Ignore, TakeUp, RetrySettings, S!RequestReset, S!ResetAllowed,
     S!ResetPending, Refresh, PlanUnlock
<1>21. CASE ReportFailure
  BY <1>21 DEF ReportFailure, ProfileKept, ProfileCleared, S!ResetPending,
     Refresh, PlanUnlock
<1>22. CASE BeginWrites
  BY <1>22 DEF BeginWrites, ProfileCleared
<1>23. CASE WriteDefault
  <2>1. (pc' = After[pc] /\ pc \in Keys) \/ torn' = Keys
    BY <1>23, Zenon DEF WriteDefault, SettingsFail
  <2>2. pc' # "loop" \/ torn' = Keys
    BY <2>1 DEF After
  <2> QED
    BY <2>2
<1>24. CASE Commit
  BY <1>24 DEF Commit, SettingsFail, Refresh, PlanUnlock
<1>25. CASE Finish
  BY <1>25 DEF Finish, SettingsFail, Refresh, PlanUnlock, NothingPlanned,
     Defaults
<1>26. CASE Restart
  BY <1>26 DEF Restart, S!Reboot, Loaded, Idle, Defaults
<1>27. CASE UNCHANGED vars
  BY <1>27 DEF vars
<1> QED
  BY Steps, Zenon, <1>1, <1>2, <1>3, <1>4, <1>5, <1>6, <1>7, <1>8, <1>9, <1>10,
     <1>11,
     <1>12, <1>13, <1>14, <1>15, <1>16, <1>17, <1>18, <1>19, <1>20, <1>21, <1>22,
     <1>23, <1>24, <1>25, <1>26, <1>27

(* So every step keeps the invariant.                                       *)
LEMMA InvStep == ResetAssumption /\ IInv /\ [Next]_vars => IInv'
<1> SUFFICES ASSUME ResetAssumption, IInv, [Next]_vars PROVE IInv'
  OBVIOUS
<1>1. TypeOK'
  <2>1. FlagsOK' /\ ValuesOK'
    BY FlagsStep, ValuesStep
  <2> QED
    BY <2>1 DEF TypeOK, S!TypeOK, FlagsOK, ValuesOK
<1> QED
  BY <1>1, ServiceStepInv, ScreenStep, ClearedStep, WriteStep, FreshStep,
     MemoryStep DEF IInv

LEMMA Invariance == ASSUME ResetAssumption PROVE Spec => []IInv
<1>1. Init => IInv
  BY InitInv
<1>2. IInv /\ [Next]_vars => IInv'
  BY InvStep
<1> QED
  BY <1>1, <1>2, PTL DEF Spec
-----------------------------------------------------------------------------
(* Every reachable state has its types.                                     *)
THEOREM TypeCorrect == ASSUME ResetAssumption PROVE Spec => []TypeOK
<1>1. IInv => TypeOK
  BY DEF IInv
<1> QED
  BY <1>1, Invariance, PTL

(* Nothing is at work without a reset that says so, and its screen stays up *)
(* unless a late tap confirmed it; setup waits for the profile worker even   *)
(* then.                                                                    *)
THEOREM ScreenStays == ASSUME ResetAssumption PROVE Spec => []ResetKeepsScreen
<1>1. IInv => ResetKeepsScreen
  BY DEF IInv
<1> QED
  BY <1>1, Invariance, PTL

(* A completed reset holds until somebody changes something: through        *)
(* restarts, downloads and saves, for any accounts and values.              *)
THEOREM CompletedResetHolds == ASSUME ResetAssumption PROVE Spec => []ResetHolds
<1>1. IInv => ResetHolds
  BY DEF IInv, FreshInv, ClearedInv, NobodyInFlight, ResetHolds
<1> QED
  BY <1>1, Invariance, PTL

(* A preference with no save to come is on flash as it is in use.           *)
THEOREM RestartKeeps == ASSUME ResetAssumption PROVE Spec => []MemoryMatchesFlash
<1>1. IInv => MemoryMatchesFlash
  BY DEF IInv
<1> QED
  BY <1>1, Invariance, PTL

(* A step that ends the work does what it then says.                        *)
LEMMA TruthStep == ResetAssumption /\ IInv /\ [Next]_vars => Truthful
<1> SUFFICES ASSUME ResetAssumption, IInv, [Next]_vars, resetState = "Working",
                    late # "setup", resetState' \in {"Complete", "SettingsFailed"}
             PROVE  /\ resetState' = "Complete" =>
                         /\ who' = Nobody /\ flash' = Defaults
                         /\ wifi' = "none" /\ pending' \subseteq {"unlock"}
                    /\ who' = Nobody
  BY Zenon DEF Truthful
<1>1. resetRequested
  BY DEF IInv, ResetKeepsScreen
<1>2. \/ Finish
      \/ (WriteDefault \/ Commit) /\ resetState' = "SettingsFailed"
  <2>1. resetState' # resetState /\ ~(resetState' \in {"Failed", "Ready", "Working"})
    OBVIOUS
  <2>2. Confirm => resetState' = resetState
    BY <1>1, Zenon DEF Confirm, Ignore, TakeUp, coord
  <2> QED
    BY <2>1, <2>2, Steps DEF vars, coord, Tick, Persist, Relock,
       Change,
       StartSetup, LeaveSetup, SaveWifi, SaveForm, ConfigureWifi, ClearProfile,
       Initialize, OpenReset, CloseReset, ReportFailure, BeginWrites,
       WriteDefault, Commit, SettingsFail, Restart, Idle
<1>3. pc # "loop" /\ who' = who
  BY <1>2 DEF Finish, WriteDefault, Commit, service, Keys
<1>4. who' = Nobody
  BY <1>1, <1>3 DEF IInv, WriteInv, ClearedInv, NobodyInFlight
<1>5. CASE Finish
  <2>1. flash = Defaults
    BY <1>5, DefaultsType DEF Finish, IInv, TypeOK, WriteInv, Defaults, Keys
  <2>2. flash' = flash
    BY <1>5 DEF Finish
  <2>3. resetState' = "Complete" => wifi' = "none" /\ pending' \subseteq {"unlock"}
    BY <1>5 DEF Finish, SettingsFail, Refresh, PlanUnlock, NothingPlanned
  <2> QED
    BY <1>4, <2>1, <2>2, <2>3
<1> QED
  BY <1>2, <1>4, <1>5

(* What the reset screen says is so when it says it.                        *)
THEOREM TruthfulReset == ASSUME ResetAssumption PROVE Spec => ResetTruth
<1>1. IInv /\ [Next]_vars => Truthful
  BY TruthStep
<1>2. Truthful => [Truthful]_vars
  OBVIOUS
<1>3. Spec => [][Truthful]_vars
  BY <1>1, <1>2, Invariance, PTL DEF Spec
<1> QED
  BY <1>3 DEF ResetTruth
=============================================================================
