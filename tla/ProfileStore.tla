---------------------------- MODULE ProfileStore ----------------------------
(***************************************************************************)
(* The manual-profile record of firmware/factory_badge/main/services.cpp:   *)
(* read_record, save_record, services_init and                              *)
(* profile_initialize_for_conference, with the three tasks that call them,  *)
(* the write lock, every failure they handle, and power loss between any    *)
(* two steps.                                                               *)
(*                                                                          *)
(* A record is its profile and its photo; bytes, hashes and field lengths   *)
(* are abstracted to whether the reader accepts the file.                   *)
(***************************************************************************)
EXTENDS Naturals

CONSTANTS Tasks,       \* the tasks that save: main, HTTP, service
          MainTask,    \* the one that answers the USB initialization command
          NoTask,      \* nobody holds write_mutex
          Profiles,    \* profile texts a caller passes
          Empty,       \* the empty profile {} of a reset
          Photos,      \* decoded photos
          NoPhoto,
          NoFile,      \* a path with no file
          Damaged,     \* a file read_record refuses
          MaxRevision  \* bound: saves of one power-up

ASSUME StoreAssumption ==
  /\ MainTask \in Tasks /\ NoTask \notin Tasks
  /\ Empty \in Profiles
  /\ NoPhoto \notin Photos
  /\ MaxRevision \in Nat

Contents == [profile : Profiles, photo : Photos \cup {NoPhoto}]
Blank    == [profile |-> Empty, photo |-> NoPhoto]

ASSUME FileAssumption == {NoFile, Damaged} \cap Contents = {} /\ NoFile # Damaged

Files == Contents \cup {NoFile, Damaged}

\* The image argument of save_record: keep the photo (replace = false), drop
\* it (replace, no JPEG), replace it by a JPEG that decodes to a photo, or
\* pass a JPEG the decoder refuses.
Images == {"keep", "drop", "bad"} \cup Photos

VARIABLES
  record,    \* the file conference-manual-v1.bin
  temp,      \* the file conference-manual-v1.tmp
  mounted,   \* the file system is registered
  stored,    \* the profile and photo of `stored`, under data_mutex
  revision,  \* stored.revision
  ready,     \* stored.ready
  up,        \* services_init has run since the last power-up
  writer,    \* the holder of write_mutex
  pc,        \* where each task is in save_record or the initialization
  arg,       \* the profile and image each task passed
  previous,  \* the holder's snapshot of stored
  next,      \* the record the holder is writing
  result,    \* how each task's last call ended
  before     \* history: what the record showed when the holder took the lock

files == <<record, temp>>
ram   == <<stored, revision, ready>>
local == <<arg, previous, next>>
vars  == <<record, temp, mounted, stored, revision, ready, up, writer, pc,
           arg, previous, next, result, before>>

Steps == {"idle", "lock", "check", "open", "write", "verify", "rename",
          "publish", "mount", "format", "remount"}

TypeOK ==
  /\ record \in Files /\ temp \in Files
  /\ mounted \in BOOLEAN /\ ready \in BOOLEAN /\ up \in BOOLEAN
  /\ stored \in Contents
  /\ revision \in Nat
  /\ writer \in Tasks \cup {NoTask}
  /\ pc \in [Tasks -> Steps]
  /\ arg \in [Tasks -> [profile : Profiles, image : Images]]
  /\ previous \in Contents /\ next \in Contents /\ before \in Contents
  /\ result \in [Tasks -> {"none", "ok", "failed"}]

\* What loading a file shows: read_record accepts exactly the whole records.
Shown(f) == IF f \in Contents THEN f ELSE Blank

Init ==
  /\ record \in Files
  /\ temp \in Files
  /\ mounted = FALSE
  /\ stored = Blank /\ revision = 0 /\ ready = FALSE
  /\ up = FALSE
  /\ writer = NoTask
  /\ pc = [t \in Tasks |-> "idle"]
  /\ arg = [t \in Tasks |-> [profile |-> Empty, image |-> "keep"]]
  /\ previous = Blank /\ next = Blank /\ before = Blank
  /\ result = [t \in Tasks |-> "none"]

-----------------------------------------------------------------------------
(* Loading *)

\* Mutant: a whole temporary file is preferred to the record.
LoadNewest ==
  /\ ready' = TRUE
  /\ stored' = IF temp \in Contents THEN temp ELSE Shown(record)
  /\ revision' = 1

\* The part services_init and profile_initialize_for_conference share once
\* the file system is mounted: a missing or damaged record is a usable empty
\* store, and only a loaded record counts as revision 1.
Load ==
  /\ ready' = TRUE
  /\ stored' = Shown(record)
  /\ revision' = IF record \in Contents THEN 1 ELSE 0

\* services_init: the mount may fail, and so may inspecting the record.
Boot ==
  /\ ~up
  /\ up' = TRUE
  /\ \/ mounted' = FALSE /\ UNCHANGED ram
     \/ mounted' = TRUE /\ UNCHANGED ram
     \/ mounted' = TRUE /\ Load
  /\ UNCHANGED <<files, writer, pc, local, result, before>>

\* Power loss or esp_restart: RAM is gone, files stay.
PowerLoss ==
  /\ up
  /\ up' = FALSE
  /\ mounted' = FALSE
  /\ stored' = Blank /\ revision' = 0 /\ ready' = FALSE
  /\ writer' = NoTask
  /\ pc' = [t \in Tasks |-> "idle"]
  /\ arg' = [t \in Tasks |-> [profile |-> Empty, image |-> "keep"]]
  /\ previous' = Blank /\ next' = Blank /\ before' = Blank
  /\ result' = [t \in Tasks |-> "none"]
  /\ UNCHANGED files

-----------------------------------------------------------------------------
(* save_record *)

\* A caller enters save_record and waits for write_mutex.
Call(t) ==
  /\ up /\ pc[t] = "idle"
  /\ \E p \in Profiles, i \in Images :
       arg' = [arg EXCEPT ![t] = [profile |-> p, image |-> i]]
  /\ pc' = [pc EXCEPT ![t] = "lock"]
  /\ UNCHANGED <<files, mounted, ram, up, writer, previous, next, result, before>>

\* Mutant: no lock.
FreeAlways == TRUE

\* write_mutex can be taken.
Free == writer = NoTask

Lock(t) ==
  /\ pc[t] = "lock" /\ Free
  /\ writer' = t
  /\ previous' = stored
  /\ before' = Shown(record)
  /\ pc' = [pc EXCEPT ![t] = "check"]
  /\ UNCHANGED <<files, mounted, ram, up, arg, next, result>>

\* The lock is released and the caller told how the save ended.
Return(t, outcome) ==
  /\ writer' = NoTask
  /\ pc' = [pc EXCEPT ![t] = "idle"]
  /\ result' = [result EXCEPT ![t] = outcome]

\* The photo of the next record.
NextPhoto(i) == CASE i = "keep" -> previous.photo
                  [] i = "drop" -> NoPhoto
                  [] OTHER      -> i

\* The checks before storage is touched: readiness, the profile's validity
\* (a rejected profile is a failure here) and the JPEG.
Check(t) ==
  /\ pc[t] = "check"
  /\ \/ Return(t, "failed") /\ UNCHANGED next
     \/ /\ ready /\ arg[t].image # "bad" /\ revision < MaxRevision
        /\ next' = [profile |-> arg[t].profile, photo |-> NextPhoto(arg[t].image)]
        /\ pc' = [pc EXCEPT ![t] = "open"]
        /\ UNCHANGED <<writer, result>>
  /\ UNCHANGED <<files, mounted, ram, up, arg, previous, before>>

\* Opening the temporary file truncates it.
Open(t) ==
  /\ pc[t] = "open"
  /\ \/ Return(t, "failed") /\ UNCHANGED temp
     \/ /\ temp' = Damaged
        /\ pc' = [pc EXCEPT ![t] = "write"]
        /\ UNCHANGED <<writer, result>>
  /\ UNCHANGED <<record, mounted, ram, up, local, before>>

\* Header, metadata and pixels are written, flushed, synced and closed; a
\* short write leaves a file the reader refuses.
Write(t) ==
  /\ pc[t] = "write"
  /\ temp' \in {next, Damaged}
  /\ pc' = [pc EXCEPT ![t] = "verify"]
  /\ UNCHANGED <<record, mounted, ram, up, writer, local, result, before>>

\* unlink's own result is ignored: the file may stay behind.
Unlink == temp' \in {temp, NoFile}

\* Mutant: the temporary file is not read back.
VerifiedBlindly == TRUE

\* The temporary file is read back and its digest compared; a file that is
\* whole may still fail to be read.
Verified == temp = next

Verify(t) ==
  /\ pc[t] = "verify"
  /\ \/ Unlink /\ Return(t, "failed")
     \/ /\ Verified
        /\ pc' = [pc EXCEPT ![t] = "rename"]
        /\ UNCHANGED <<temp, writer, result>>
  /\ UNCHANGED <<record, mounted, ram, up, local, before>>

\* The atomic commit.
Rename(t) ==
  /\ pc[t] = "rename"
  /\ \/ Unlink /\ Return(t, "failed") /\ UNCHANGED record
     \/ /\ record' = temp /\ temp' = NoFile
        /\ pc' = [pc EXCEPT ![t] = "publish"]
        /\ UNCHANGED <<writer, result>>
  /\ UNCHANGED <<mounted, ram, up, local, before>>

\* Mutant: only the first save counts.
FirstRevision == IF revision = 0 THEN 1 ELSE revision

NextRevision == revision + 1

\* Readers see the new record only after the commit.
PublishSave(t) ==
  /\ pc[t] = "publish"
  /\ stored' = next /\ revision' = NextRevision
  /\ Return(t, "ok")
  /\ UNCHANGED <<files, mounted, ready, up, local, before>>

-----------------------------------------------------------------------------
(* profile_initialize_for_conference *)

\* Mutant: a readable store is initialized too.
UnreadableAlways == TRUE

Unreadable == ~ready

\* It holds the write lock throughout, leaves a readable store alone, and
\* first tries once more to mount.  (SetupServices has its other guards.)
Initialize(t) ==
  /\ t = MainTask
  /\ up /\ pc[t] = "idle" /\ Free
  /\ Unreadable
  /\ writer' = t
  /\ before' = Shown(record)
  /\ pc' = [pc EXCEPT ![t] = "mount"]
  /\ UNCHANGED <<files, mounted, ram, up, local, result>>

\* Loading succeeds, or inspecting the record fails and nothing changes.
LoadOrFail(t) ==
  \/ Load /\ Return(t, "ok")
  \/ UNCHANGED ram /\ Return(t, "failed")

Mount(t) ==
  /\ pc[t] = "mount"
  /\ \/ mounted' = TRUE /\ LoadOrFail(t)
     \/ /\ ~mounted
        /\ pc' = [pc EXCEPT ![t] = "format"]
        /\ UNCHANGED <<mounted, ram, writer, result>>
  /\ UNCHANGED <<files, up, local, before>>

\* Formatting may fail before it erases anything, or after.
Format(t) ==
  /\ pc[t] = "format"
  /\ \/ record' = NoFile /\ temp' = NoFile
        /\ pc' = [pc EXCEPT ![t] = "remount"]
        /\ UNCHANGED <<writer, result>>
     \/ /\ \/ record' = NoFile /\ temp' = NoFile
           \/ UNCHANGED files
        /\ Return(t, "failed")
  /\ UNCHANGED <<mounted, ram, up, local, before>>

Remount(t) ==
  /\ pc[t] = "remount"
  /\ \/ mounted' = TRUE /\ LoadOrFail(t)
     \/ UNCHANGED <<mounted, ram>> /\ Return(t, "failed")
  /\ UNCHANGED <<files, up, local, before>>

-----------------------------------------------------------------------------
Work(t) ==
  \/ Check(t) \/ Open(t) \/ Write(t) \/ Verify(t) \/ Rename(t)
  \/ PublishSave(t) \/ Mount(t) \/ Format(t) \/ Remount(t)

Next ==
  \/ Boot \/ PowerLoss
  \/ \E t \in Tasks : Call(t) \/ Lock(t) \/ Initialize(t) \/ Work(t)

Spec == Init /\ [][Next]_vars

-----------------------------------------------------------------------------
(* Properties *)

\* With no commit waiting to be published, readers see what flash holds.
RamFollowsFlash ==
  ready /\ (\A t \in Tasks : pc[t] # "publish") => stored = Shown(record)

\* A save that keeps the photo keeps the current one: the snapshot a save
\* starts from is still the record it replaces, whoever else is waiting.
SaveBuildsOnCurrent ==
  \A t \in Tasks : pc[t] \in {"open", "write", "verify", "rename"}
    => previous = Shown(record)

\* A save is all or nothing: told it failed ("previous badge kept"), the
\* caller finds what was there when the lock was taken; told it succeeded,
\* the record it asked for.
SaveAllOrNothing ==
  [][\A t \in Tasks :
       pc[t] \in {"check", "open", "write", "verify", "rename", "publish"}
         /\ pc'[t] = "idle" /\ up' =>
           \/ result'[t] = "failed" /\ Shown(record') = before
           \/ result'[t] = "ok" /\ record' = next /\ stored' = next]_vars

\* requestReset (main.cpp:432) takes an equal revision as proof that the
\* profile is the one it cleared: within a power-up, what readers see never
\* changes without the revision growing.
RevisionMarksChange ==
  [][up /\ up' => /\ revision' >= revision
                  /\ (stored' # stored => revision' > revision)]_vars

\* The files, the lock and the tasks together are one durable register: a
\* commit is atomic and starts from what readers see, and only the explicit
\* initialization of an unreadable store erases anything.
Register == INSTANCE ProfileRegister
  WITH value <- record, view <- stored, revision <- revision, ready <- ready

Implements == Register!Spec
=============================================================================
