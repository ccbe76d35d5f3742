--------------------------- MODULE RomImportProofs ---------------------------
(***************************************************************************)
(* Theorems about RomImport, for any images, any number of imports on      *)
(* their threads, refused renames and process deaths.                      *)
(***************************************************************************)
EXTENDS RomImport, TLAPS

USE RomAssumption

Places == {"new", "write", "close", "shutdown", "rename", "delete", "again", "verify", "done"}

RomTypeOK ==
  /\ dst \in File \cup {NoFile} /\ tmp \in File \cup {NoFile}
  /\ data \in [File -> Rom \cup {Part, Mixed}]
  /\ place \in [Import -> Places]
  /\ picked \in [Import -> Rom]
  /\ writing \in [Import -> File]
  /\ shared \in [Import -> BOOLEAN]
  /\ booted # Part
  /\ verified \in BOOLEAN /\ overlapped \in BOOLEAN /\ refused \in BOOLEAN
  /\ crashes \in Nat

(* The two names never refer to one file, and an import that has opened    *)
(* none has its own to come.                                               *)
Names ==
  /\ tmp # NoFile => tmp # dst
  /\ \A i \in Import : place[i] \in {"new", "write"} => i \notin {dst, tmp}

UnderWay(i) == place[i] \notin {"new", "done"}
Alone == \A i, j \in Import : UnderWay(i) /\ UnderWay(j) => i = j

Verified == verified = (dst # NoFile /\ data[dst] \in Genuine)

(* While imports keep to their turns, the one under way has the .tmp file  *)
(* to itself from its opening to its rename, and takes the ROM file's name *)
(* away only after one was refused.                                        *)
InTurn ==
  /\ Alone
  /\ dst # NoFile => data[dst] \in Rom
  /\ \A i \in Import :
       /\ At(i, "close") => tmp # NoFile /\ writing[i] = tmp /\ ~shared[i]
       /\ place[i] \in {"shutdown", "rename", "delete", "again"} =>
            tmp # NoFile /\ data[tmp] = picked[i]
       /\ place[i] \in {"delete", "again"} => refused
       /\ At(i, "verify") => dst # NoFile /\ data[dst] = picked[i]
  /\ crashes = 0 /\ ~refused => Verified \/ \E i \in Import : At(i, "verify")

RomInv == RomTypeOK /\ Names /\ (~overlapped => InTurn)

LEMMA RomInit == Init => RomInv
<1> SUFFICES ASSUME Init PROVE RomInv
  OBVIOUS
<1>1. /\ dst \in {Original, NoFile} /\ tmp = NoFile
      /\ picked \in [Import -> Rom]
      /\ \E r \in Rom : data = [f \in File |-> r] /\ verified = (dst = Original /\ r \in Genuine)
      /\ place = [i \in Import |-> "new"] /\ writing = [i \in Import |-> i]
      /\ shared = [i \in Import |-> FALSE] /\ booted = NoRom
      /\ crashes = 0 /\ overlapped = FALSE /\ refused = FALSE
  BY DEF Init
<1>2. RomTypeOK  BY <1>1 DEF RomTypeOK, File, Places
<1>3. Names  BY <1>1 DEF Names
<1>4. Verified  BY <1>1 DEF Verified, File
<1>5. InTurn  BY <1>1, <1>4 DEF InTurn, Alone, UnderWay, At, File
<1> QED  BY <1>2, <1>3, <1>5 DEF RomInv

-----------------------------------------------------------------------------
(* One lemma for each step of an import.                                   *)
LEMMA AcceptKeeps == ASSUME RomInv, NEW i \in Import, Accept(i) PROVE RomInv'
<1>1. /\ place[i] = "new" /\ place' = [place EXCEPT ![i] = "write"]
      /\ UNCHANGED <<dst, tmp, data, picked, writing, shared, refused, booted, verified, crashes>>
      /\ overlapped' = (overlapped \/ \E j \in Import : UnderWay(j))
  BY DEF Accept, At, Goto, files, UnderWay
<1>2. RomTypeOK'  BY <1>1 DEF RomInv, RomTypeOK, Places
<1>3. Names'  BY <1>1 DEF RomInv, Names, RomTypeOK
<1>4. ASSUME ~overlapped' PROVE InTurn'
  <2>1. InTurn /\ \A j \in Import : ~UnderWay(j)  BY <1>1, <1>4 DEF RomInv
  <2>2. \A j \in Import : UnderWay(j)' => j = i
    BY <1>1, <2>1 DEF RomInv, RomTypeOK, UnderWay
  <2>3. \A j \in Import : place'[j] \in {"new", "done", "write"}
    BY <1>1, <2>1 DEF RomInv, RomTypeOK, UnderWay
  <2>4. crashes = 0 /\ ~refused => Verified  BY <2>1 DEF InTurn, At, UnderWay
  <2> QED  BY <1>1, <2>1, <2>2, <2>3, <2>4 DEF InTurn, Alone, At, Verified
<1> QED  BY <1>2, <1>3, <1>4 DEF RomInv

LEMMA OpenTmpKeeps == ASSUME RomInv, NEW i \in Import, OpenTmp(i) PROVE RomInv'
<1>1. /\ place[i] = "write" /\ place' = [place EXCEPT ![i] = "close"]
      /\ tmp' = IF tmp = NoFile THEN i ELSE tmp
      /\ writing' = [writing EXCEPT ![i] = tmp']
      /\ data' = [data EXCEPT ![tmp'] = Part]
      /\ shared' = [j \in Import |->
                      IF At(j, "close") /\ writing[j] = tmp' THEN TRUE
                      ELSE IF j = i THEN \E k \in Import : At(k, "close") /\ writing[k] = tmp'
                      ELSE shared[j]]
      /\ UNCHANGED <<dst, picked, overlapped, refused, booted, verified, crashes>>
  BY DEF OpenTmp, At, Goto, history
<1>2. tmp' \in File /\ tmp' # NoFile /\ tmp' # dst
  BY <1>1 DEF RomInv, RomTypeOK, Names, File
<1>3. RomTypeOK'
  <2>1. shared' \in [Import -> BOOLEAN]  BY <1>1 DEF RomInv, RomTypeOK, At
  <2> QED  BY <1>1, <1>2, <2>1 DEF RomInv, RomTypeOK, Places
<1>4. Names'  BY <1>1, <1>2 DEF RomInv, Names, RomTypeOK
<1>5. ASSUME ~overlapped' PROVE InTurn'
  <2>1. InTurn  BY <1>1, <1>5 DEF RomInv
  <2>2. \A j \in Import : UnderWay(j) => j = i  BY <1>1, <2>1 DEF InTurn, Alone, UnderWay
  <2>3. \A j \in Import : j # i => place'[j] \in {"new", "done"}
    BY <1>1, <2>2 DEF RomInv, RomTypeOK, UnderWay
  <2>4. place'[i] = "close" /\ writing'[i] = tmp' /\ ~shared'[i]
    BY <1>1, <2>2 DEF RomInv, RomTypeOK, UnderWay, At
  <2>5. dst # NoFile => data'[dst] = data[dst]  BY <1>1, <1>2 DEF RomInv, RomTypeOK
  <2>6. crashes = 0 /\ ~refused => Verified  BY <1>1, <2>1, <2>2 DEF InTurn, At, UnderWay
  <2> QED
    BY <1>1, <1>2, <2>1, <2>3, <2>4, <2>5, <2>6 DEF InTurn, Alone, UnderWay, At, Verified
<1> QED  BY <1>3, <1>4, <1>5 DEF RomInv

LEMMA CloseTmpKeeps == ASSUME RomInv, NEW i \in Import, CloseTmp(i) PROVE RomInv'
<1>1. /\ place[i] = "close" /\ place' = [place EXCEPT ![i] = "shutdown"]
      /\ data' = [data EXCEPT ![writing[i]] = IF shared[i] THEN Mixed ELSE picked[i]]
      /\ UNCHANGED <<dst, tmp, picked, writing, shared, overlapped, refused, booted, verified, crashes>>
  BY DEF CloseTmp, At, Goto, history
<1>2. RomTypeOK'  BY <1>1 DEF RomInv, RomTypeOK, Places
<1>3. Names'  BY <1>1 DEF RomInv, Names, RomTypeOK
<1>4. ASSUME ~overlapped' PROVE InTurn'
  <2>1. InTurn  BY <1>1, <1>4 DEF RomInv
  <2>2. \A j \in Import : UnderWay(j) => j = i  BY <1>1, <2>1 DEF InTurn, Alone, UnderWay
  <2>3. \A j \in Import : j # i => place'[j] \in {"new", "done"}
    BY <1>1, <2>2 DEF RomInv, RomTypeOK, UnderWay
  <2>4. tmp # NoFile /\ tmp # dst /\ writing[i] = tmp /\ ~shared[i]
    BY <1>1, <2>1 DEF InTurn, At, RomInv, Names
  <2>5. data'[tmp] = picked[i] /\ (dst # NoFile => data'[dst] = data[dst])
    BY <1>1, <2>4 DEF RomInv, RomTypeOK
  <2>6. place'[i] = "shutdown"  BY <1>1 DEF RomInv, RomTypeOK
  <2>7. crashes = 0 /\ ~refused => Verified  BY <1>1, <2>1, <2>2 DEF InTurn, At, UnderWay
  <2> QED
    BY <1>1, <2>1, <2>3, <2>4, <2>5, <2>6, <2>7 DEF InTurn, Alone, UnderWay, At, Verified
<1> QED  BY <1>2, <1>3, <1>4 DEF RomInv

(* Every other step of an import leaves the files' contents alone, and     *)
(* goes from one place to another.                                         *)
Goes(i, p, q) ==
  /\ place[i] = p /\ place' = [place EXCEPT ![i] = q] /\ q \in Places
  /\ UNCHANGED <<data, picked, writing, shared, overlapped, crashes>>

LEMMA Elsewhere ==
  ASSUME RomInv, NEW i \in Import, NEW p \in Places \ {"new", "done"}, NEW q, Goes(i, p, q),
         ~overlapped'
  PROVE  /\ InTurn /\ place'[i] = q
         /\ \A j \in Import : j # i => place[j] \in {"new", "done"} /\ place'[j] = place[j]
         /\ Alone'
<1>1. InTurn  BY DEF RomInv, Goes
<1>2. \A j \in Import : UnderWay(j) => j = i  BY <1>1 DEF InTurn, Alone, UnderWay, Goes
<1>3. \A j \in Import : j # i => place[j] \in {"new", "done"} /\ place'[j] = place[j]
  BY <1>2 DEF RomInv, RomTypeOK, UnderWay, Goes
<1>4. place'[i] = q  BY DEF RomInv, RomTypeOK, Goes
<1> QED  BY <1>1, <1>3, <1>4 DEF Alone, UnderWay

LEMMA WriteFailsKeeps == ASSUME RomInv, NEW i \in Import, WriteFails(i) PROVE RomInv'
<1>1. PICK p \in {"write", "close"} : Goes(i, p, "done")
  BY DEF WriteFails, Goto, Goes, Places, history
<1>2. tmp' = NoFile /\ UNCHANGED <<dst, refused, booted, verified>>
  BY DEF WriteFails, history
<1>3. RomTypeOK'  BY <1>1, <1>2 DEF RomInv, RomTypeOK, Goes
<1>4. Names'  BY <1>1, <1>2 DEF RomInv, Names, RomTypeOK, Goes, File
<1>5. ASSUME ~overlapped' PROVE InTurn'
  <2>1. /\ InTurn /\ place'[i] = "done" /\ Alone'
        /\ \A j \in Import : j # i => place[j] \in {"new", "done"} /\ place'[j] = place[j]
    BY <1>1, <1>5, Elsewhere DEF Places
  <2> QED  BY <1>1, <1>2, <2>1 DEF InTurn, At, Verified, Goes
<1> QED  BY <1>3, <1>4, <1>5 DEF RomInv

LEMMA ShutdownKeeps == ASSUME RomInv, NEW i \in Import, Shutdown(i) PROVE RomInv'
<1>1. /\ Goes(i, "shutdown", "rename")
      /\ booted' = NoRom /\ UNCHANGED <<dst, tmp, refused, verified>>
  BY DEF Shutdown, At, Goto, Goes, Places, history, files
<1>2. RomTypeOK'  BY <1>1 DEF RomInv, RomTypeOK, Goes
<1>3. Names'  BY <1>1 DEF RomInv, Names, RomTypeOK, Goes
<1>4. ASSUME ~overlapped' PROVE InTurn'
  <2>1. /\ InTurn /\ place'[i] = "rename" /\ Alone'
        /\ \A j \in Import : j # i => place[j] \in {"new", "done"} /\ place'[j] = place[j]
    BY <1>1, <1>4, Elsewhere DEF Places
  <2> QED  BY <1>1, <2>1 DEF InTurn, At, Verified, Goes
<1> QED  BY <1>2, <1>3, <1>4 DEF RomInv

(* renameTo replaces the ROM file, or fails and says so.                   *)
LEMMA MovesKeeps ==
  ASSUME RomInv, NEW i \in Import, NEW p \in {"rename", "again"}, Goes(i, p, "verify"),
         tmp # NoFile, dst' = tmp, tmp' = NoFile, UNCHANGED <<refused, booted, verified>>
  PROVE  RomInv'
<1>1. RomTypeOK'  BY DEF RomInv, RomTypeOK, Goes
<1>2. Names'  BY DEF RomInv, Names, RomTypeOK, Goes, File
<1>3. ASSUME ~overlapped' PROVE InTurn'
  <2>1. /\ InTurn /\ place'[i] = "verify" /\ Alone'
        /\ \A j \in Import : j # i => place[j] \in {"new", "done"} /\ place'[j] = place[j]
    BY <1>3, Elsewhere DEF Places
  <2>2. data'[dst'] = picked[i] /\ picked[i] \in Rom
    BY <2>1 DEF InTurn, Goes, RomInv, RomTypeOK
  <2> QED  BY <2>1, <2>2 DEF InTurn, At, Goes
<1> QED  BY <1>1, <1>2, <1>3 DEF RomInv

LEMMA RefusesKeeps ==
  ASSUME RomInv, NEW i \in Import, NEW p \in {"rename", "again"}, NEW q \in {"delete", "done"},
         Goes(i, p, q), refused' = (refused \/ tmp # NoFile),
         UNCHANGED <<dst, tmp, booted, verified>>
  PROVE  RomInv'
<1>1. RomTypeOK'  BY DEF RomInv, RomTypeOK, Goes
<1>2. Names'  BY DEF RomInv, Names, RomTypeOK, Goes
<1>3. ASSUME ~overlapped' PROVE InTurn'
  <2>1. /\ InTurn /\ place'[i] = q /\ Alone'
        /\ \A j \in Import : j # i => place[j] \in {"new", "done"} /\ place'[j] = place[j]
    BY <1>3, Elsewhere DEF Places
  <2>2. tmp # NoFile /\ data[tmp] = picked[i] /\ refused'
    BY <2>1 DEF InTurn, Goes
  <2> QED  BY <2>1, <2>2 DEF InTurn, At, Goes
<1> QED  BY <1>1, <1>2, <1>3 DEF RomInv

LEMMA RenameKeeps == ASSUME RomInv, NEW i \in Import, Rename(i) \/ RenameAgain(i) PROVE RomInv'
<1>1. PICK p \in {"rename", "again"}, q \in {"delete", "done"} :
        /\ place[i] = p /\ (Moves(i, "verify") \/ Refuses(i, q))
        /\ UNCHANGED <<data, picked, writing, shared, overlapped, booted, verified, crashes>>
  <2>1. CASE Rename(i)  BY <2>1 DEF Rename, At
  <2>2. CASE RenameAgain(i)  BY <2>2 DEF RenameAgain, At
  <2> QED  BY <2>1, <2>2
<1>2. CASE Moves(i, "verify")
  BY <1>1, <1>2, MovesKeeps DEF Moves, Goto, Goes, Places
<1>3. CASE Refuses(i, q)
  BY <1>1, <1>3, RefusesKeeps DEF Refuses, Goto, Goes, Places
<1> QED  BY <1>1, <1>2, <1>3

LEMMA DeleteDstKeeps == ASSUME RomInv, NEW i \in Import, DeleteDst(i) PROVE RomInv'
<1>1. /\ Goes(i, "delete", "again")
      /\ dst' = NoFile /\ UNCHANGED <<tmp, refused, booted, verified>>
  BY DEF DeleteDst, At, Goto, Goes, Places, history
<1>2. RomTypeOK'  BY <1>1 DEF RomInv, RomTypeOK, Goes
<1>3. Names'  BY <1>1 DEF RomInv, Names, RomTypeOK, Goes, File
<1>4. ASSUME ~overlapped' PROVE InTurn'
  <2>1. /\ InTurn /\ place'[i] = "again" /\ Alone'
        /\ \A j \in Import : j # i => place[j] \in {"new", "done"} /\ place'[j] = place[j]
    BY <1>1, <1>4, Elsewhere DEF Places
  <2>2. refused  BY <1>1, <2>1 DEF InTurn, Goes
  <2> QED  BY <1>1, <2>1, <2>2 DEF InTurn, At, Goes
<1> QED  BY <1>2, <1>3, <1>4 DEF RomInv

LEMMA VerifyKeeps == ASSUME RomInv, NEW i \in Import, Verify(i) PROVE RomInv'
<1>1. /\ Goes(i, "verify", "done")
      /\ verified' = (picked[i] \in Genuine) /\ UNCHANGED <<dst, tmp, refused, booted>>
  BY DEF Verify, At, Goto, Goes, Places, history, files
<1>2. RomTypeOK'  BY <1>1 DEF RomInv, RomTypeOK, Goes
<1>3. Names'  BY <1>1 DEF RomInv, Names, RomTypeOK, Goes
<1>4. ASSUME ~overlapped' PROVE InTurn'
  <2>1. /\ InTurn /\ place'[i] = "done" /\ Alone'
        /\ \A j \in Import : j # i => place[j] \in {"new", "done"} /\ place'[j] = place[j]
    BY <1>1, <1>4, Elsewhere DEF Places
  <2>2. Verified'  BY <1>1, <2>1 DEF InTurn, At, Verified, Goes
  <2> QED  BY <1>1, <2>1, <2>2 DEF InTurn, At, Goes
<1> QED  BY <1>2, <1>3, <1>4 DEF RomInv

(* What neither reads nor writes the imports' state.                       *)
LEMMA OpeningKeeps == ASSUME RomInv, Opening \/ UNCHANGED vars PROVE RomInv'
<1>1. UNCHANGED <<dst, tmp, data, place, picked, writing, shared, overlapped, refused,
                  verified, crashes>>
  BY DEF Opening, OpenEnter, OpenCheck, OpenRead, Create, vars, files, importing, history
<1>2. booted' # Part
  BY DEF Opening, OpenEnter, OpenCheck, OpenRead, Create, vars, RomInv, RomTypeOK
<1>3. RomTypeOK'  BY <1>1, <1>2 DEF RomInv, RomTypeOK
<1>4. Names'  BY <1>1 DEF RomInv, Names
<1>5. InTurn => InTurn'  BY <1>1 DEF InTurn, Alone, UnderWay, At, Verified
<1> QED  BY <1>1, <1>3, <1>4, <1>5 DEF RomInv

LEMMA CrashKeeps == ASSUME RomInv, Crash PROVE RomInv'
<1>1. /\ place' = [i \in Import |-> IF place[i] = "new" THEN "new" ELSE "done"]
      /\ crashes' = crashes + 1 /\ booted' = NoRom
      /\ UNCHANGED <<dst, tmp, data, picked, writing, shared, overlapped, refused, verified>>
  BY DEF Crash, At, files, history
<1>2. RomTypeOK'  BY <1>1 DEF RomInv, RomTypeOK, Places
<1>3. Names'  BY <1>1 DEF RomInv, Names
<1>4. InTurn => InTurn'
  BY <1>1 DEF InTurn, Alone, UnderWay, At, RomInv, RomTypeOK
<1> QED  BY <1>1, <1>2, <1>3, <1>4 DEF RomInv

LEMMA RomStep == RomInv /\ [Next]_vars => RomInv'
<1> SUFFICES ASSUME RomInv, [Next]_vars PROVE RomInv'
  OBVIOUS
<1>1. ASSUME NEW i \in Import, ImportStep(i) PROVE RomInv'
  BY <1>1, AcceptKeeps, OpenTmpKeeps, CloseTmpKeeps, WriteFailsKeeps, ShutdownKeeps,
     RenameKeeps, DeleteDstKeeps, VerifyKeeps DEF ImportStep
<1> QED  BY <1>1, OpeningKeeps, CrashKeeps DEF Next

-----------------------------------------------------------------------------
LEMMA RomInvHolds == Spec => []RomInv
BY RomInit, RomStep, PTL DEF Spec

(* SettingsActivity.kt:213-239.  However many imports are started, killed  *)
(* and refused their renames, one after another they leave a whole image   *)
(* or none, which rom_verified speaks about if nothing was killed or       *)
(* refused; and however they overlap, the engine never runs half a file.   *)
THEOREM WholeFile == Spec => []RomFileWhole
<1>1. RomInv => RomFileWhole
  <2> SUFFICES ASSUME RomInv PROVE RomFileWhole
    OBVIOUS
  <2>1. booted # Part /\ (~overlapped => InTurn)  BY DEF RomInv, RomTypeOK
  <2> QED  BY <2>1 DEF RomFileWhole, InTurn, Idle, Verified, At
<1> QED  BY <1>1, RomInvHolds, PTL

(* SettingsActivity.kt:224.  The ROM file's name always has a file, once   *)
(* it has one, as long as imports keep to their turns and no rename is     *)
(* refused.                                                                *)
THEOREM Replaced == Spec => AtomicReplace
<1>1. ASSUME RomInv, [Next]_vars, ~overlapped, ~refused, dst # NoFile PROVE dst' # NoFile
  <2>1. ASSUME NEW i \in Import, ImportStep(i) PROVE dst' # NoFile
    <3>1. ~DeleteDst(i)  BY <1>1 DEF DeleteDst, RomInv, InTurn, At
    <3> QED
      BY <1>1, <2>1, <3>1 DEF ImportStep, Accept, OpenTmp, CloseTmp, WriteFails, Shutdown,
           Rename, RenameAgain, Moves, Refuses, Verify, files
  <2>2. CASE Opening \/ Crash \/ UNCHANGED vars
    BY <1>1, <2>2 DEF Opening, OpenEnter, OpenCheck, OpenRead, Create, Crash, vars, files
  <2> QED  BY <1>1, <2>1, <2>2 DEF Next
<1> QED  BY <1>1, RomInvHolds, PTL DEF Spec, AtomicReplace
=============================================================================
