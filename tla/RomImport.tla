------------------------------ MODULE RomImport ------------------------------
(***************************************************************************)
(* Replacing the ROM: SettingsActivity.importRom on a thread of its own,   *)
(* DoubleTalkEngine.open on the thread that wants to speak, and the files  *)
(* they share.  Names (the ROM file and its .tmp) refer to files as in a   *)
(* POSIX directory: renameTo moves a name, and a thread that still writes  *)
(* keeps writing the file it opened.                                       *)
(***************************************************************************)
EXTENDS Naturals, FiniteSets

CONSTANTS Rom,        \* images of the right size that boot
          Genuine,    \* those whose CRC32 and SHA-1 are the known dump's
          Part,       \* contents of a file still being written
          Mixed,      \* full-size contents written by two threads at once
          NoFile, NoRom,
          Original,   \* the file present when the app starts, if any
          Import,     \* the imports the user may start, a thread each
          MaxCrashes  \* bound: process deaths

ASSUME RomAssumption ==
  /\ Genuine \subseteq Rom /\ Rom # {}
  /\ Part \notin Rom /\ Mixed \notin Rom /\ NoRom \notin Rom /\ Part # Mixed
  /\ NoRom \notin {Part, Mixed}
  /\ Original \notin Import /\ NoFile \notin Import \cup {Original}
  /\ MaxCrashes \in Nat

VARIABLES dst, tmp,   \* the files the two names refer to, or NoFile
          data,       \* the contents of each file
          place,      \* where each import stands
          picked,     \* the image each import installs
          writing,    \* the file each import has open
          shared,     \* whether another import has opened it meanwhile
          opener,     \* where open() stands: it holds the lock unless "idle"
          image,      \* what open() has read
          booted,     \* the image the engine runs; NoRom: handle is 0
          verified,   \* the rom_verified preference
          crashes,
          overlapped, \* history: an import started while another was under way
          refused     \* history: renameTo failed although the .tmp file was there

files == <<dst, tmp, data>>
history == <<overlapped, refused>>
importing == <<place, picked, writing, shared, history>>
vars == <<files, importing, opener, image, booted, verified, crashes>>

File == Import \cup {Original}

Init ==
  /\ dst \in {Original, NoFile} /\ tmp = NoFile
  /\ picked \in [Import -> Rom]
  /\ \E r \in Rom : data = [f \in File |-> r] /\ verified = (dst = Original /\ r \in Genuine)
  /\ place = [i \in Import |-> "new"]
  /\ writing = [i \in Import |-> i]
  /\ shared = [i \in Import |-> FALSE]
  /\ opener = "idle" /\ image = Part /\ booted = NoRom
  /\ crashes = 0 /\ overlapped = FALSE /\ refused = FALSE

At(i, p) == place[i] = p
Goto(i, p) == place' = [place EXCEPT ![i] = p]
Unlocked == opener = "idle"

-----------------------------------------------------------------------------
(* The picked image was read, has the right size and boots in a throwaway  *)
(* instance; other picks return an error here and change nothing.          *)
Accept(i) ==
  /\ At(i, "new") /\ Goto(i, "write")
  /\ overlapped' = (overlapped \/ \E j \in Import : place[j] \notin {"new", "done"})
  /\ UNCHANGED <<picked, writing, shared, refused, files, opener, image, booted, verified, crashes>>

(* tmp.writeBytes: open the name, truncating what is there; write; close.  *)
OpenTmpIsDst(i) ==
  /\ At(i, "write") /\ Goto(i, "close")
  /\ dst' = IF dst = NoFile THEN i ELSE dst
  /\ writing' = [writing EXCEPT ![i] = dst']
  /\ data' = [data EXCEPT ![dst'] = Part]
  /\ UNCHANGED <<tmp, picked, shared, history, opener, image, booted, verified, crashes>>

OpenTmp(i) ==
  /\ At(i, "write") /\ Goto(i, "close")
  /\ tmp' = IF tmp = NoFile THEN i ELSE tmp
  /\ writing' = [writing EXCEPT ![i] = tmp']
  /\ data' = [data EXCEPT ![tmp'] = Part]
  /\ shared' = [j \in Import |-> IF At(j, "close") /\ writing[j] = tmp' THEN TRUE
                                 ELSE IF j = i THEN \E k \in Import : At(k, "close") /\ writing[k] = tmp'
                                 ELSE shared[j]]
  /\ UNCHANGED <<dst, picked, history, opener, image, booted, verified, crashes>>

CloseTmp(i) ==
  /\ At(i, "close") /\ Goto(i, "shutdown")
  /\ data' = [data EXCEPT ![writing[i]] = IF shared[i] THEN Mixed ELSE picked[i]]
  /\ UNCHANGED <<dst, tmp, picked, writing, shared, history, opener, image, booted, verified, crashes>>

WriteFails(i) ==  \* the exception handler's tmp.delete()
  /\ place[i] \in {"write", "close"} /\ Goto(i, "done")
  /\ tmp' = NoFile
  /\ UNCHANGED <<dst, data, picked, writing, shared, history, opener, image, booted, verified, crashes>>

Shutdown(i) ==
  /\ At(i, "shutdown") /\ Unlocked /\ Goto(i, "rename")
  /\ booted' = NoRom
  /\ UNCHANGED <<files, picked, writing, shared, history, opener, image, verified, crashes>>

(* renameTo: replaces the ROM file at once, or fails and leaves both.      *)
Moves(i, p) ==
  /\ tmp # NoFile
  /\ dst' = tmp /\ tmp' = NoFile
  /\ Goto(i, p) /\ UNCHANGED refused

Refuses(i, p) ==
  /\ refused' = (refused \/ tmp # NoFile)
  /\ UNCHANGED <<dst, tmp>>
  /\ Goto(i, p)

DeleteThenRename(i) ==
  /\ At(i, "rename") /\ Goto(i, "again")
  /\ dst' = NoFile
  /\ UNCHANGED <<tmp, data, picked, writing, shared, history, opener, image, booted, verified, crashes>>

Rename(i) ==
  /\ At(i, "rename")
  /\ Moves(i, "verify") \/ Refuses(i, "delete")
  /\ UNCHANGED <<data, picked, writing, shared, overlapped, opener, image, booted, verified, crashes>>

DeleteDst(i) ==
  /\ At(i, "delete") /\ Goto(i, "again")
  /\ dst' = NoFile
  /\ UNCHANGED <<tmp, data, picked, writing, shared, history, opener, image, booted, verified, crashes>>

RenameAgain(i) ==
  /\ At(i, "again")
  /\ Moves(i, "verify") \/ Refuses(i, "done")   \* "rename failed"
  /\ UNCHANGED <<data, picked, writing, shared, overlapped, opener, image, booted, verified, crashes>>

Verify(i) ==
  /\ At(i, "verify") /\ Goto(i, "done")
  /\ verified' = (picked[i] \in Genuine)
  /\ UNCHANGED <<picked, writing, shared, history, files, opener, image, booted, crashes>>

-----------------------------------------------------------------------------
(* open(), holding the lock from its first step to its last.               *)
OpenEnter ==
  /\ opener = "idle" /\ booted = NoRom
  /\ opener' = "check"
  /\ UNCHANGED <<files, importing, image, booted, verified, crashes>>

OpenCheck ==  \* f.isFile
  /\ opener = "check"
  /\ opener' = IF dst = NoFile THEN "idle" ELSE "read"
  /\ UNCHANGED <<files, importing, image, booted, verified, crashes>>

OpenRead ==   \* f.readBytes, which throws when the name is gone by now
  /\ opener = "read"
  /\ IF dst = NoFile
       THEN opener' = "idle" /\ UNCHANGED image
       ELSE opener' = "create" /\ image' = data[dst]
  /\ UNCHANGED <<files, importing, booted, verified, crashes>>

(* dtalk_create refuses an image of the wrong size; whether a mixture of   *)
(* two images boots depends on the images.                                 *)
Create ==
  /\ opener = "create" /\ opener' = "idle"
  /\ \/ image \in Rom \cup {Mixed} /\ booted' = image
     \/ image \in {Part, Mixed} /\ UNCHANGED booted
  /\ UNCHANGED <<files, importing, image, verified, crashes>>

-----------------------------------------------------------------------------
(* The process dies: threads and the instance are gone, files stay.        *)
Crash ==
  /\ crashes < MaxCrashes /\ crashes' = crashes + 1
  /\ place' = [i \in Import |-> IF At(i, "new") THEN "new" ELSE "done"]
  /\ opener' = "idle" /\ booted' = NoRom
  /\ UNCHANGED <<files, picked, writing, shared, history, image, verified>>

ImportStep(i) ==
  \/ Accept(i) \/ OpenTmp(i) \/ CloseTmp(i) \/ WriteFails(i) \/ Shutdown(i)
  \/ Rename(i) \/ DeleteDst(i) \/ RenameAgain(i) \/ Verify(i)

Opening == OpenEnter \/ OpenCheck \/ OpenRead \/ Create

Next == (\E i \in Import : ImportStep(i)) \/ Opening \/ Crash

Spec == Init /\ [][Next]_vars

-----------------------------------------------------------------------------
Idle == \A i \in Import : place[i] \in {"new", "done"}

(* Settings.kt:213-239, Engine.kt:100-108, dtalk.cpp:609-621.  Whatever    *)
(* the process dies in the middle of, and whatever renames are refused,    *)
(* imports one after another leave a ROM file that is absent or a whole    *)
(* image that passed the boot test; and however imports overlap, the       *)
(* engine runs no half a file.  With no import under way, no crash and no  *)
(* refused rename, rom_verified speaks about that image.                   *)
RomFileWhole ==
  /\ booted # Part
  /\ ~overlapped /\ dst # NoFile => data[dst] \in Rom
  /\ Idle /\ crashes = 0 /\ ~overlapped /\ ~refused =>
       verified = (dst # NoFile /\ data[dst] \in Genuine)

(* Settings.kt:224 "Atomic replace, then restart the engine on the new     *)
(* ROM": imports one after another never take the ROM file's name away,    *)
(* but when a rename is refused.                                           *)
AtomicReplace == [][~overlapped /\ ~refused /\ dst # NoFile => dst' # NoFile]_vars
=============================================================================
