--------------------------- MODULE InstallerProofs --------------------------
(***************************************************************************)
(* What is proved of setup.sh and install.sh for every host and any number *)
(* of failures.                                                            *)
(***************************************************************************)
EXTENDS Setup, TLAPS

-----------------------------------------------------------------------------
(* The files.                                                              *)

(* Old content of f is in place, in its backup, or there was none. *)
Safe(f) == before.files[f] \in {files[f], tx.backup[f], "absent"}

(* The backups of the listed destinations are the old contents. *)
BackupsGood ==
    \A m \in 1..Len(tx.changed) : tx.backup[tx.changed[m]] = before.files[tx.changed[m]]

(* A file that is not listed has not been touched. *)
UnlistedUntouched ==
    \A f \in Files :
        (\A m \in 1..Len(tx.changed) : tx.changed[m] # f) => files[f] = before.files[f]

(* Only files before position n of the order are listed. *)
ListedBelow(n) ==
    \A m \in 1..Len(tx.changed) : \E k \in 1..Len(InstallOrder) :
        k < n /\ tx.changed[m] = InstallOrder[k]

(* The listed files above position n are put back. *)
PutBackAbove(n) ==
    \A m \in 1..Len(tx.changed) : m > n => files[tx.changed[m]] = before.files[tx.changed[m]]

EarlyLabels == {"idle", "validate", "record", "directories"}
PlainLabels ==
    {"sync", "reload", "migrate", "activate", "start", "verify", "prepare", "ended", "killed"}
PutBackLabels == {"undo_database", "undo_directories", "undo_reload", "restore"}

(* What the script has done at each of its labels. *)
FilesAt ==
    /\ pc \in EarlyLabels => tx.changed = <<>>
    /\ pc = "backup" => ListedBelow(at)
    /\ pc = "replace" => ListedBelow(at + 1) /\ \E m \in 1..Len(tx.changed) :
                                                     tx.changed[m] = InstallOrder[at]
    /\ pc = "undo_file" /\ ~failed => PutBackAbove(at)
    /\ pc \in PutBackLabels => files = before.files
    /\ pc \notin {"ended", "killed"} => BackupsGood /\ UnlistedUntouched

FilesTyped ==
    /\ files \in [Files -> Contents] /\ before.files \in [Files -> Contents]
    /\ tx \in TxStates /\ at \in Nat /\ subshell \in BOOLEAN /\ failed \in BOOLEAN

(* The position is one of the order, or of the list. *)
PositionOK ==
    /\ pc \in {"backup", "replace"} => at \in 1..Len(InstallOrder)
    /\ pc = "undo_file" => at \in 0..Len(tx.changed)

FilesInv ==
    /\ FilesTyped /\ PositionOK
    /\ ~twice /\ ~tx.committed => FilesAt /\ \A f \in Files : Safe(f)

UnitsTyped == unit \in [Services -> UnitStates]

(* The order names no file twice. *)
LEMMA OrderInjective ==
    \A m, n \in 1..Len(InstallOrder) : InstallOrder[m] = InstallOrder[n] => m = n
BY DEF InstallOrder

LEMMA OrderFiles == \A n \in 1..Len(InstallOrder) : InstallOrder[n] \in Files
BY DEF Files

LEMMA OrderLength == Len(InstallOrder) = 15
BY DEF InstallOrder

LEMMA ChangedLength == ASSUME tx \in TxStates PROVE Len(tx.changed) \in Nat
<1>1. tx.changed \in Seq(Files)
  BY DEF TxStates
<1> QED
  BY <1>1

(* Before the first step nothing is listed. *)
LEMMA FilesInit == Init => FilesInv
<1> SUFFICES ASSUME Init PROVE FilesInv
  OBVIOUS
<1>1. before \in HostStates /\ files = before.files /\ tx = FreshTx /\ pc = "idle" /\ at = 0
      /\ subshell = FALSE /\ failed = FALSE
  BY HostsAssumption DEF Init, InstallerInit
<1>2. before.files \in [Files -> Contents]
  BY <1>1 DEF HostStates
<1>3. FreshTx \in TxStates /\ FreshTx.changed = <<>>
  BY DEF FreshTx, TxStates, NoService, Contents
<1>4. FilesTyped
  BY <1>1, <1>2, <1>3 DEF FilesTyped
<1>5. FilesAt
  BY <1>1, <1>3 DEF FilesAt, BackupsGood, UnlistedUntouched, PutBackLabels
<1> QED
  BY <1>1, <1>4, <1>5 DEF FilesInv, Safe, PositionOK

(* Steps that touch neither files nor their records. *)
SameFiles ==
    /\ UNCHANGED <<files, before, twice>>
    /\ tx' \in TxStates
    /\ tx'.changed = tx.changed /\ tx'.backup = tx.backup /\ tx'.committed = tx.committed
    /\ at' \in Nat /\ subshell' \in BOOLEAN /\ failed' \in BOOLEAN

(* They keep what does not depend on the label. *)
LEMMA SameFilesKeeps ==
    ASSUME FilesInv, SameFiles
    PROVE  /\ FilesTyped'
           /\ ~twice' /\ ~tx'.committed =>
                 /\ \A f \in Files : Safe(f)'
                 /\ BackupsGood => BackupsGood'
                 /\ UnlistedUntouched => UnlistedUntouched'
                 /\ \A n \in Nat : ListedBelow(n) => ListedBelow(n)'
                 /\ \A n \in Nat : PutBackAbove(n) => PutBackAbove(n)'
<1>1. FilesTyped'
  BY DEF FilesInv, FilesTyped, SameFiles
<1>2. ASSUME ~twice', ~tx'.committed
      PROVE  /\ \A f \in Files : Safe(f)'
             /\ BackupsGood => BackupsGood'
             /\ UnlistedUntouched => UnlistedUntouched'
             /\ \A n \in Nat : ListedBelow(n) => ListedBelow(n)'
             /\ \A n \in Nat : PutBackAbove(n) => PutBackAbove(n)'
  BY <1>2 DEF FilesInv, SameFiles, Safe, BackupsGood, UnlistedUntouched, ListedBelow, PutBackAbove
<1> QED
  BY <1>1, <1>2

(* A label at which nothing is said of the position. *)
LEMMA PlainLabel ==
    ASSUME FilesInv, SameFiles, pc \notin {"ended", "killed"},
           pc' \in PlainLabels
    PROVE  FilesInv'
<1>1. FilesTyped'
  BY SameFilesKeeps
<1>2. ASSUME ~twice', ~tx'.committed
      PROVE  FilesAt' /\ \A f \in Files : Safe(f)'
  <2>1. BackupsGood /\ UnlistedUntouched
    BY <1>2 DEF FilesInv, FilesAt, SameFiles
  <2>2. BackupsGood' /\ UnlistedUntouched' /\ \A f \in Files : Safe(f)'
    BY <1>2, <2>1, SameFilesKeeps
  <2> QED
    BY <2>2 DEF FilesAt, EarlyLabels, PlainLabels, PutBackLabels
<1>3. PositionOK'
  BY DEF PositionOK, PlainLabels
<1> QED
  BY <1>1, <1>2, <1>3 DEF FilesInv

(* Undoing starts above the last listed file. *)
LEMMA FromTheLast ==
    ASSUME FilesInv, SameFiles, pc \notin {"ended", "killed"},
           pc' = "undo_file", at' = Len(tx.changed)
    PROVE  FilesInv'
<1>1. FilesTyped'
  BY SameFilesKeeps
<1>2. ASSUME ~twice', ~tx'.committed
      PROVE  FilesAt' /\ \A f \in Files : Safe(f)'
  <2>1. BackupsGood /\ UnlistedUntouched
    BY <1>2 DEF FilesInv, FilesAt, SameFiles
  <2>2. BackupsGood' /\ UnlistedUntouched' /\ \A f \in Files : Safe(f)'
    BY <1>2, <2>1, SameFilesKeeps
  <2>3. tx.changed \in Seq(Files) /\ tx'.changed = tx.changed
    BY DEF FilesInv, FilesTyped, TxStates, SameFiles
  <2>4. PutBackAbove(at)'
    BY <2>3 DEF PutBackAbove
  <2> QED
    BY <2>2, <2>4 DEF FilesAt, EarlyLabels, PutBackLabels
<1>3. PositionOK'
  BY ChangedLength DEF PositionOK, SameFiles, FilesInv, FilesTyped
<1> QED
  BY <1>1, <1>2, <1>3 DEF FilesInv

(* The trap: the services first, or the files. *)
LEMMA UndoStarts ==
    ASSUME FilesInv, SameFiles, Undo, pc \notin {"ended", "killed"}
    PROVE  FilesInv'
<1>1. CASE pc' = "prepare"
  BY <1>1, PlainLabel DEF PlainLabels
<1>2. CASE pc' = "undo_file" /\ at' = Len(tx.changed)
  BY <1>2, FromTheLast
<1> QED
  BY <1>1, <1>2 DEF Undo, Goto

(* Between the labels at which every file is put back. *)
LEMMA StaysPutBack ==
    ASSUME FilesInv, SameFiles, pc \in PutBackLabels, pc' \in PutBackLabels
    PROVE  FilesInv'
<1>1. FilesTyped'
  BY SameFilesKeeps
<1>2. ASSUME ~twice', ~tx'.committed
      PROVE  FilesAt' /\ \A f \in Files : Safe(f)'
  <2>1. BackupsGood /\ UnlistedUntouched /\ files = before.files
    BY <1>2 DEF FilesInv, FilesAt, SameFiles, PutBackLabels
  <2>2. BackupsGood' /\ UnlistedUntouched' /\ \A f \in Files : Safe(f)'
    BY <1>2, <2>1, SameFilesKeeps
  <2>3. (files = before.files)'
    BY <2>1 DEF SameFiles
  <2> QED
    BY <2>2, <2>3 DEF FilesAt, EarlyLabels, PutBackLabels
<1>3. PositionOK'
  BY DEF PositionOK, PutBackLabels
<1> QED
  BY <1>1, <1>2, <1>3 DEF FilesInv

(* The backups are removed only where every file is put back. *)
LEMMA EndUndoKeeps ==
    ASSUME FilesInv, NEW verified \in BOOLEAN, EndUndo(verified), UNCHANGED files,
           pc \notin {"ended", "killed"}, verified => pc \in PutBackLabels
    PROVE  FilesInv'
<1>1. tx \in TxStates /\ files \in [Files -> Contents] /\ before.files \in [Files -> Contents]
      /\ subshell \in BOOLEAN /\ failed \in BOOLEAN
  BY DEF FilesInv, FilesTyped
<1>2. /\ FreshTx.backup = [f \in Files |-> "absent"]
      /\ [f \in Files |-> "absent"] \in [Files -> Contents]
  BY DEF Contents, FreshTx
<1>3. tx' \in TxStates /\ tx'.committed = tx.committed
  BY <1>1, <1>2 DEF EndUndo, TxStates
<1>4. at' \in Nat /\ subshell' \in BOOLEAN /\ failed' \in BOOLEAN
  <2>1. Len(tx.changed) \in Nat
    BY <1>1, ChangedLength
  <2>2. CASE subshell
    <3>1. Undo /\ subshell' = FALSE
      BY <2>2 DEF EndUndo
    <3>2. (at' = 1 \/ at' = Len(tx.changed)) /\ failed' = FALSE
      BY <3>1 DEF Undo, Goto
    <3>3. at' \in Nat
      BY <2>1, <3>2
    <3> QED
      BY <3>1, <3>2, <3>3
  <2>3. CASE ~subshell
    <3>1. at' = 0 /\ subshell' = subshell /\ failed' = failed
      BY <2>3 DEF EndUndo, Goto
    <3> QED
      BY <1>1, <3>1
  <2> QED
    BY <1>1, <2>2, <2>3
<1>5. FilesTyped'
  BY <1>1, <1>3, <1>4 DEF FilesTyped, EndUndo
<1>6. ASSUME ~twice', ~tx'.committed
      PROVE  FilesAt' /\ \A f \in Files : Safe(f)'
  <2>1. pc' = "ended" /\ ~twice /\ before' = before
    BY <1>6 DEF EndUndo, Goto
  <2>2. FilesAt'
    BY <2>1 DEF FilesAt, EarlyLabels, PutBackLabels
  <2>3. CASE verified
    <3>1. files = before.files
      BY <1>3, <1>6, <2>1, <2>3 DEF FilesInv, FilesAt
    <3> QED
      BY <2>1, <2>2, <3>1 DEF Safe
  <2>4. CASE ~verified
    <3>1. tx' = tx
      BY <2>4 DEF EndUndo
    <3> QED
      BY <1>3, <1>6, <2>1, <2>2, <3>1 DEF Safe, FilesInv
  <2> QED
    BY <2>3, <2>4
<1>7. PositionOK'
  <2>1. Len(tx.changed) \in Nat /\ tx'.changed = tx.changed
    BY <1>1, <1>2, ChangedLength DEF EndUndo, TxStates
  <2>2. pc' \in {"ended", "prepare"} \/ (pc' = "undo_file" /\ at' = Len(tx.changed))
    <3>1. CASE subshell
      BY <3>1 DEF EndUndo, Undo, Goto
    <3>2. CASE ~subshell
      BY <3>2 DEF EndUndo, Goto
    <3> QED
      BY <3>1, <3>2
  <2> QED
    BY <2>1, <2>2 DEF PositionOK
<1> QED
  BY <1>5, <1>6, <1>7 DEF FilesInv

(* What a step of the script leaves alone in its variables. *)
SameRecords ==
    /\ tx' \in TxStates
    /\ tx'.changed = tx.changed /\ tx'.backup = tx.backup /\ tx'.committed = tx.committed

(* A step on a file system that stays as it is goes forward or to the trap. *)
LEMMA PlainStep ==
    ASSUME FilesInv, UNCHANGED files, SameRecords, pc \notin {"ended", "killed"},
           \/ Forward /\ at' \in Nat /\ pc' \in PlainLabels
           \/ \E sub \in BOOLEAN : UndoIn(sub)
    PROVE  FilesInv'
<1>1. FilesTyped
  BY DEF FilesInv
<1>2. CASE Forward /\ at' \in Nat /\ pc' \in PlainLabels
  <2>1. UNCHANGED <<before, twice, subshell, failed>>
    BY <1>2 DEF Forward, history
  <2>2. SameFiles
    BY <1>1, <1>2, <2>1 DEF SameFiles, SameRecords, FilesTyped
  <2> QED
    BY <1>2, <2>2, PlainLabel
<1>3. ASSUME NEW sub \in BOOLEAN, UndoIn(sub)
      PROVE  FilesInv'
  <2>1. Undo /\ UNCHANGED <<before, twice>> /\ subshell' = sub
    BY <1>3 DEF UndoIn, history
  <2>2. Len(tx.changed) \in Nat
    BY <1>1, ChangedLength DEF FilesTyped
  <2>3. (at' = 1 \/ at' = Len(tx.changed)) /\ failed' = FALSE
    BY <2>1 DEF Undo, Goto
  <2>4. at' \in Nat
    BY <2>2, <2>3
  <2>5. SameFiles
    BY <2>1, <2>3, <2>4 DEF SameFiles, SameRecords
  <2> QED
    BY <2>1, <2>5, UndoStarts
<1> QED
  BY <1>2, <1>3

(* Before the first file is listed. *)
LEMMA EarlyStep ==
    ASSUME FilesInv, UNCHANGED files, SameRecords, Forward, at' \in Nat,
           pc \in EarlyLabels, pc' \in EarlyLabels \/ (pc' = "backup" /\ at' = 1)
    PROVE  FilesInv'
<1>1. SameFiles
  BY DEF FilesInv, FilesTyped, SameFiles, SameRecords, Forward, history
<1>2. FilesTyped'
  BY <1>1, SameFilesKeeps
<1>3. ASSUME ~twice', ~tx'.committed
      PROVE  FilesAt' /\ \A f \in Files : Safe(f)'
  <2>1. BackupsGood /\ UnlistedUntouched /\ tx.changed = <<>>
    BY <1>1, <1>3 DEF FilesInv, FilesAt, SameFiles, EarlyLabels
  <2>2. BackupsGood' /\ UnlistedUntouched' /\ \A f \in Files : Safe(f)'
    BY <1>1, <1>3, <2>1, SameFilesKeeps
  <2>3. tx'.changed = <<>>
    BY <2>1 DEF SameRecords
  <2>4. ListedBelow(at)'
    BY <2>3 DEF ListedBelow
  <2> QED
    BY <2>2, <2>3, <2>4 DEF FilesAt, EarlyLabels, PutBackLabels
<1>4. PositionOK'
  BY OrderLength DEF PositionOK, EarlyLabels
<1> QED
  BY <1>2, <1>3, <1>4 DEF FilesInv

LEMMA ListedFurther ==
    ASSUME NEW n \in 1..Len(InstallOrder), ListedBelow(n)
    PROVE  ListedBelow(n + 1)
<1>1. \A k \in 1..Len(InstallOrder) : k < n => k < n + 1
  BY OrderLength
<1> QED
  BY <1>1 DEF ListedBelow

(* After a file has been dealt with the next one is backed up, or all are. *)
LEMMA NextFileKeeps ==
    ASSUME FilesTyped', NextFile, at \in 1..Len(InstallOrder),
           ~twice' /\ ~tx'.committed =>
               /\ BackupsGood' /\ UnlistedUntouched' /\ \A f \in Files : Safe(f)'
               /\ \A m \in 1..Len(tx'.changed) : \E k \in 1..Len(InstallOrder) :
                      k < at + 1 /\ tx'.changed[m] = InstallOrder[k]
    PROVE  FilesInv'
<1>1. \/ pc' = "backup" /\ at' = at + 1 /\ at' \in 1..Len(InstallOrder)
      \/ pc' = "sync"
  BY OrderLength DEF NextFile, Goto
<1>2. PositionOK'
  BY <1>1 DEF PositionOK
<1>3. ASSUME ~twice', ~tx'.committed
      PROVE  FilesAt'
  <2>1. pc' = "backup" => ListedBelow(at)'
    BY <1>1, <1>3 DEF ListedBelow
  <2> QED
    BY <1>1, <1>3, <2>1 DEF FilesAt, EarlyLabels, PutBackLabels
<1> QED
  BY <1>2, <1>3 DEF FilesInv

(* What listing a file does to the records. *)
Listing(t, f, c) == [t EXCEPT !.changed = Append(@, f), !.backup[f] = c]

LEMMA ListingRecords ==
    ASSUME NEW t \in TxStates, NEW f \in Files, NEW c \in Contents
    PROVE  /\ Listing(t, f, c) \in TxStates
           /\ Listing(t, f, c).committed = t.committed
           /\ Listing(t, f, c).changed = Append(t.changed, f)
           /\ Listing(t, f, c).backup = [t.backup EXCEPT ![f] = c]
<1>1. t.changed \in Seq(Files) /\ t.backup \in [Files -> Contents]
  BY DEF TxStates
<1>2. Append(t.changed, f) \in Seq(Files) /\ [t.backup EXCEPT ![f] = c] \in [Files -> Contents]
  BY <1>1
<1>3. Listing(t, f, c)
          = [t EXCEPT !.changed = Append(t.changed, f), !.backup = [t.backup EXCEPT ![f] = c]]
  BY DEF TxStates, Listing
<1> QED
  BY <1>2, <1>3 DEF TxStates

(* A file is listed with the content it had. *)
LEMMA BackupFileKeeps ==
    ASSUME FilesInv, BackupFile
    PROVE  FilesInv'
<1> DEFINE f == InstallOrder[at]
<1>1. /\ tx \in TxStates /\ files \in [Files -> Contents] /\ before.files \in [Files -> Contents]
      /\ subshell \in BOOLEAN /\ failed \in BOOLEAN
      /\ pc = "backup" /\ at \in 1..Len(InstallOrder) /\ f \in Files
  BY OrderFiles DEF FilesInv, FilesTyped, PositionOK, BackupFile
<1>2. UNCHANGED <<subshell, failed, before, twice>>
  BY DEF BackupFile, Forward, history
<1>3. ~twice /\ ~tx.committed =>
          ListedBelow(at) /\ BackupsGood /\ UnlistedUntouched /\ \A g \in Files : Safe(g)
  BY <1>1 DEF FilesInv, FilesAt
<1>4. CASE KeepsFile(f)
  <2>1. NextFile /\ UNCHANGED <<files, tx>>
    BY <1>4 DEF BackupFile
  <2>2. at' \in Nat
    BY <1>1, <2>1, OrderLength DEF NextFile, Goto
  <2>3. FilesTyped'
    BY <1>1, <1>2, <2>1, <2>2 DEF FilesTyped
  <2>4. ASSUME ~twice', ~tx'.committed
        PROVE  /\ BackupsGood' /\ UnlistedUntouched' /\ \A g \in Files : Safe(g)'
               /\ \A m \in 1..Len(tx'.changed) : \E k \in 1..Len(InstallOrder) :
                      k < at + 1 /\ tx'.changed[m] = InstallOrder[k]
    <3>1. BackupsGood' /\ UnlistedUntouched' /\ \A g \in Files : Safe(g)'
      BY <1>2, <1>3, <2>1, <2>4 DEF BackupsGood, UnlistedUntouched, Safe
    <3>2. ListedBelow(at)
      BY <1>2, <1>3, <2>1, <2>4
    <3>3. ListedBelow(at + 1)
      BY <1>1, <3>2, ListedFurther
    <3> QED
      BY <2>1, <3>1, <3>3 DEF ListedBelow
  <2> QED
    BY <1>1, <2>1, <2>3, <2>4, NextFileKeeps
<1>5. CASE ~KeepsFile(f)
  <2>1. /\ pc' = "replace" /\ at' = at
        /\ tx' = Listing(tx, f, files[f])
        /\ files' = IF f \in Packages THEN [files EXCEPT ![f] = "absent"] ELSE files
    BY <1>5 DEF BackupFile, Goto, Listing
  <2>2. tx.changed \in Seq(Files) /\ tx.backup \in [Files -> Contents]
    BY <1>1 DEF TxStates
  <2>3. /\ tx' \in TxStates /\ tx'.committed = tx.committed
        /\ tx'.changed = Append(tx.changed, f)
        /\ tx'.backup = [tx.backup EXCEPT ![f] = files[f]]
    <3>1. files[f] \in Contents
      BY <1>1
    <3> QED
      BY <1>1, <2>1, <3>1, ListingRecords
  <2>4. /\ Len(tx'.changed) = Len(tx.changed) + 1 /\ Len(tx.changed) \in Nat
        /\ tx'.changed[Len(tx.changed) + 1] = f
        /\ \A m \in 1..Len(tx.changed) : tx'.changed[m] = tx.changed[m] /\ tx.changed[m] \in Files
    BY <1>1, <2>2, <2>3
  <2>5. files' \in [Files -> Contents] /\ \A g \in Files \ {f} : files'[g] = files[g]
    BY <1>1, <2>1 DEF Contents
  <2>6. FilesTyped' /\ PositionOK'
    BY <1>1, <1>2, <2>1, <2>3, <2>5 DEF FilesTyped, PositionOK
  <2>7. ASSUME ~twice', ~tx'.committed
        PROVE  FilesAt' /\ \A g \in Files : Safe(g)'
    <3>1. ListedBelow(at) /\ BackupsGood /\ UnlistedUntouched /\ \A g \in Files : Safe(g)
      BY <1>2, <1>3, <2>3, <2>7
    <3>2. \A m \in 1..Len(tx.changed) : tx.changed[m] # f
      BY <1>1, <3>1, OrderInjective DEF ListedBelow
    <3>3. files[f] = before.files[f]
      BY <1>1, <3>1, <3>2 DEF UnlistedUntouched
    <3>4. BackupsGood'
      BY <1>1, <1>2, <2>2, <2>3, <2>4, <3>1, <3>2, <3>3 DEF BackupsGood
    <3>5. UnlistedUntouched'
      <4>1. ASSUME NEW g \in Files, \A m \in 1..Len(tx'.changed) : tx'.changed[m] # g
            PROVE  files'[g] = before.files[g]
        <5>1. g # f
          BY <2>4, <4>1
        <5>2. ASSUME NEW m \in 1..Len(tx.changed) PROVE tx.changed[m] # g
          <6>1. m \in 1..Len(tx'.changed) /\ tx'.changed[m] = tx.changed[m]
            BY <2>4
          <6> QED
            BY <4>1, <6>1
        <5> QED
          BY <2>5, <3>1, <5>1, <5>2 DEF UnlistedUntouched
      <4> QED
        BY <1>2, <4>1 DEF UnlistedUntouched
    <3>6. \A g \in Files : Safe(g)'
      BY <1>1, <1>2, <2>2, <2>3, <2>5, <3>1, <3>3 DEF Safe
    <3>7. ListedBelow(at + 1)'
      <4>1. ASSUME NEW m \in 1..Len(tx'.changed)
            PROVE  \E k \in 1..Len(InstallOrder) : k < at + 1 /\ tx'.changed[m] = InstallOrder[k]
        <5>1. CASE m = Len(tx.changed) + 1
          <6>1. tx'.changed[m] = InstallOrder[at] /\ at < at + 1
            BY <1>1, <2>4, <5>1, OrderLength
          <6> QED
            BY <1>1, <6>1
        <5>2. CASE m \in 1..Len(tx.changed)
          <6>1. ListedBelow(at + 1)
            BY <1>1, <3>1, ListedFurther
          <6>2. PICK k \in 1..Len(InstallOrder) : k < at + 1 /\ tx.changed[m] = InstallOrder[k]
            BY <5>2, <6>1 DEF ListedBelow
          <6>3. tx'.changed[m] = tx.changed[m]
            BY <2>4, <5>2
          <6> QED
            BY <6>2, <6>3
        <5> QED
          BY <2>4, <5>1, <5>2
      <4> QED
        BY <2>1, <4>1 DEF ListedBelow
    <3>8. \E m \in 1..Len(tx'.changed) : tx'.changed[m] = InstallOrder[at']
      BY <2>1, <2>4
    <3> QED
      BY <2>1, <3>4, <3>5, <3>6, <3>7, <3>8 DEF FilesAt, EarlyLabels, PutBackLabels
  <2> QED
    BY <2>6, <2>7 DEF FilesInv
<1> QED
  BY <1>4, <1>5

(* A listed file may be overwritten. *)
LEMMA ListedFileChanges ==
    ASSUME FilesTyped, BackupsGood, UnlistedUntouched, \A g \in Files : Safe(g),
           NEW f \in Files, \E m \in 1..Len(tx.changed) : tx.changed[m] = f,
           \A g \in Files \ {f} : files'[g] = files[g],
           tx'.changed = tx.changed, tx'.backup = tx.backup, UNCHANGED before
    PROVE  BackupsGood' /\ UnlistedUntouched' /\ \A g \in Files : Safe(g)'
<1>1. tx.changed \in Seq(Files)
  BY DEF FilesTyped, TxStates
<1>2. BackupsGood'
  BY DEF BackupsGood
<1>3. UnlistedUntouched'
  BY DEF UnlistedUntouched
<1>4. tx.backup[f] = before.files[f]
  BY DEF BackupsGood
<1>5. \A g \in Files : Safe(g)'
  BY <1>4 DEF Safe
<1> QED
  BY <1>2, <1>3, <1>5

(* The candidate replaces a listed file. *)
LEMMA ReplaceFileKeeps ==
    ASSUME FilesInv, ReplaceFile
    PROVE  FilesInv'
<1> DEFINE f == InstallOrder[at]
<1>1. /\ tx \in TxStates /\ files \in [Files -> Contents] /\ before.files \in [Files -> Contents]
      /\ subshell \in BOOLEAN /\ failed \in BOOLEAN
      /\ pc = "replace" /\ at \in 1..Len(InstallOrder) /\ f \in Files
  BY OrderFiles DEF FilesInv, FilesTyped, PositionOK, ReplaceFile
<1>2. UNCHANGED <<subshell, failed, before, twice>>
  BY DEF ReplaceFile, Forward, history
<1>3. NextFile /\ files' = [files EXCEPT ![f] = "new"]
  BY DEF ReplaceFile
<1>4. SameRecords
  BY <1>1 DEF ReplaceFile, SameRecords, TxStates
<1>5. at' \in Nat
  BY <1>1, <1>3, OrderLength DEF NextFile, Goto
<1>6. files' \in [Files -> Contents] /\ \A g \in Files \ {f} : files'[g] = files[g]
  BY <1>1, <1>3 DEF Contents
<1>7. FilesTyped'
  BY <1>1, <1>2, <1>4, <1>5, <1>6 DEF FilesTyped, SameRecords
<1>8. ASSUME ~twice', ~tx'.committed
      PROVE  /\ BackupsGood' /\ UnlistedUntouched' /\ \A g \in Files : Safe(g)'
             /\ \A m \in 1..Len(tx'.changed) : \E k \in 1..Len(InstallOrder) :
                    k < at + 1 /\ tx'.changed[m] = InstallOrder[k]
  <2>1. /\ ListedBelow(at + 1) /\ BackupsGood /\ UnlistedUntouched /\ \A g \in Files : Safe(g)
        /\ \E m \in 1..Len(tx.changed) : tx.changed[m] = f
    BY <1>1, <1>2, <1>4, <1>8 DEF FilesInv, FilesAt, SameRecords
  <2>2. BackupsGood' /\ UnlistedUntouched' /\ \A g \in Files : Safe(g)'
    BY <1>1, <1>2, <1>4, <1>6, <2>1, ListedFileChanges DEF SameRecords, FilesInv
  <2> QED
    BY <1>4, <2>1, <2>2 DEF ListedBelow, SameRecords
<1> QED
  BY <1>1, <1>3, <1>7, <1>8, NextFileKeeps

(* A listed file is put back, or left to the rest of the undoing. *)
LEMMA RollbackFileKeeps ==
    ASSUME FilesInv, RollbackFile
    PROVE  FilesInv'
<1> DEFINE f == tx.changed[at]
<1>1. /\ tx \in TxStates /\ files \in [Files -> Contents] /\ before.files \in [Files -> Contents]
      /\ subshell \in BOOLEAN /\ failed \in BOOLEAN
      /\ pc = "undo_file" /\ at \in 1..Len(tx.changed)
  <2>1. at \in 0..Len(tx.changed) /\ at > 0 /\ tx \in TxStates
    BY DEF FilesInv, FilesTyped, PositionOK, RollbackFile
  <2>2. at \in 1..Len(tx.changed)
    BY <2>1, ChangedLength
  <2> QED
    BY <2>2 DEF FilesInv, FilesTyped, RollbackFile
<1>2. tx.changed \in Seq(Files) /\ tx.backup \in [Files -> Contents] /\ f \in Files
  BY <1>1 DEF TxStates
<1>3. UNCHANGED <<tx, subshell, before, twice>> /\ pc' = "undo_file" /\ at' = at - 1
  BY DEF RollbackFile, Goto
<1>4. /\ \E c \in Contents : files' = [files EXCEPT ![f] = c]
      /\ failed' \in BOOLEAN
      /\ ~failed' => ~failed /\ files' = [files EXCEPT ![f] = tx.backup[f]]
  <2>1. files[f] \in Contents /\ tx.backup[f] \in Contents /\ "absent" \in Contents
    BY <1>1, <1>2 DEF Contents
  <2>2. \/ files' = [files EXCEPT ![f] = tx.backup[f]] /\ failed' = failed
        \/ /\ \E c \in {files[f], tx.backup[f], "absent"} : files' = [files EXCEPT ![f] = c]
           /\ failed' = TRUE
    BY DEF RollbackFile, UndoneFile
  <2> QED
    BY <1>1, <2>1, <2>2
<1>5. files' \in [Files -> Contents] /\ \A g \in Files \ {f} : files'[g] = files[g]
  BY <1>1, <1>4
<1>6. FilesTyped' /\ PositionOK'
  BY <1>1, <1>3, <1>4, <1>5, ChangedLength DEF FilesTyped, PositionOK
<1>7. ASSUME ~twice', ~tx'.committed
      PROVE  FilesAt' /\ \A g \in Files : Safe(g)'
  <2>1. /\ BackupsGood /\ UnlistedUntouched /\ \A g \in Files : Safe(g)
        /\ ~failed => PutBackAbove(at)
    BY <1>1, <1>3, <1>7 DEF FilesInv, FilesAt
  <2>2. BackupsGood' /\ UnlistedUntouched' /\ \A g \in Files : Safe(g)'
    BY <1>1, <1>2, <1>3, <1>5, <2>1, ListedFileChanges DEF FilesInv
  <2>3. ASSUME ~failed'
        PROVE  PutBackAbove(at)'
    <3>1. files'[f] = before.files[f]
      BY <1>1, <1>2, <1>4, <2>1, <2>3 DEF BackupsGood
    <3>2. ASSUME NEW m \in 1..Len(tx.changed), m > at - 1
          PROVE  files'[tx.changed[m]] = before.files[tx.changed[m]]
      <4>1. CASE tx.changed[m] = f
        BY <3>1, <4>1
      <4>2. CASE tx.changed[m] # f
        <5>1. m > at
          BY <1>1, <3>2, <4>2
        <5>2. files[tx.changed[m]] = before.files[tx.changed[m]] /\ tx.changed[m] \in Files
          BY <1>2, <1>4, <2>1, <2>3, <5>1 DEF PutBackAbove
        <5> QED
          BY <1>5, <4>2, <5>2
      <4> QED
        BY <4>1, <4>2
    <3> QED
      BY <1>3, <3>2 DEF PutBackAbove
  <2> QED
    BY <1>3, <2>2, <2>3 DEF FilesAt, EarlyLabels, PutBackLabels
<1> QED
  BY <1>6, <1>7 DEF FilesInv

(* Nothing is listed until the directories are there. *)
LEMMA EarlyActions ==
    ASSUME FilesInv, UnitsTyped, Begin \/ Validate \/ RecordServiceState \/ EnsureDirectories
    PROVE  FilesInv'
<1>1. tx \in TxStates
  BY DEF FilesInv, FilesTyped
<1>2. CASE Begin
  <2>1. /\ UNCHANGED <<files, tx>> /\ Forward /\ pc \in EarlyLabels /\ pc' \in EarlyLabels
        /\ at' = 0
    BY <1>2 DEF Begin, Goto, host, EarlyLabels
  <2> QED
    BY <1>1, <2>1, EarlyStep DEF SameRecords
<1>3. CASE Validate
  <2>1. /\ UNCHANGED <<files, tx>> /\ Forward /\ pc \in EarlyLabels /\ pc' \in EarlyLabels
        /\ at' = 0
    BY <1>3 DEF Validate, Goto, host, EarlyLabels
  <2> QED
    BY <1>1, <2>1, EarlyStep DEF SameRecords
<1>4. CASE RecordServiceState
  <2>1. /\ UNCHANGED files /\ Forward /\ pc \in EarlyLabels /\ pc' \in EarlyLabels
        /\ at' = 0
    BY <1>4 DEF RecordServiceState, Goto, host, EarlyLabels
  <2>2. PICK p \in [Services -> [unit : BOOLEAN, enabled : BOOLEAN, active : BOOLEAN]] :
            tx' = [tx EXCEPT !.recorded = TRUE, !.prev = p]
    <3> DEFINE p == [s \in Services |-> [unit |-> files[UnitFile(s)] # "absent",
                                         enabled |-> unit[s].enabled,
                                         active |-> unit[s].active]]
    <3>1. p \in [Services -> [unit : BOOLEAN, enabled : BOOLEAN, active : BOOLEAN]]
      BY DEF UnitsTyped, UnitStates
    <3>2. tx' = [tx EXCEPT !.recorded = TRUE, !.prev = p]
      BY <1>4 DEF RecordServiceState
    <3> QED
      BY <3>1, <3>2
  <2>3. SameRecords
    BY <1>1, <2>2 DEF SameRecords, TxStates
  <2> QED
    BY <2>1, <2>3, EarlyStep
<1>5. CASE EnsureDirectories
  <2>1. PICK made \in SUBSET (Directories \ dirs) :
            /\ tx' = [tx EXCEPT !.dirsCreated = made]
            /\ \/ Goto("backup", 1) /\ Forward
               \/ \E sub \in BOOLEAN : UndoIn(sub)
    BY <1>5 DEF EnsureDirectories
  <2>2. SameRecords
    BY <1>1, <2>1 DEF SameRecords, TxStates
  <2>3. UNCHANGED files /\ pc = "directories"
    BY <1>5 DEF EnsureDirectories
  <2>4. CASE Goto("backup", 1) /\ Forward
    BY <2>2, <2>3, <2>4, EarlyStep DEF Goto, EarlyLabels
  <2>5. CASE \E sub \in BOOLEAN : UndoIn(sub)
    BY <2>2, <2>3, <2>5, PlainStep
  <2> QED
    BY <2>1, <2>4, <2>5
<1> QED
  BY <1>2, <1>3, <1>4, <1>5

(* The commands after the last file, and the failure of any command. *)
LEMMA PlainActions ==
    ASSUME FilesInv,
           \/ Sync \/ DaemonReload \/ Migrate \/ Activate \/ StartService
           \/ CommandFails \/ Killed
    PROVE  FilesInv'
<1>1. tx \in TxStates /\ at \in Nat /\ tx.dbCreated \in [Services -> BOOLEAN]
      /\ tx.enableAttempted \in [Services -> BOOLEAN] /\ tx.startAttempted \in [Services -> BOOLEAN]
  BY DEF FilesInv, FilesTyped, TxStates
<1>2. CASE Sync
  <2>1. UNCHANGED <<files, tx>> /\ Forward /\ pc = "sync" /\ pc' = "reload" /\ at' = 0
    BY <1>2 DEF Sync, Goto, host
  <2> QED
    BY <1>1, <2>1, PlainStep DEF SameRecords, PlainLabels
<1>3. CASE DaemonReload
  <2>1. UNCHANGED <<files, tx>> /\ Forward /\ pc = "reload" /\ pc' = "migrate" /\ at' = 1
    BY <1>3 DEF DaemonReload, Goto
  <2> QED
    BY <1>1, <2>1, PlainStep DEF SameRecords, PlainLabels
<1>4. CASE Migrate
  <2>1. /\ UNCHANGED files /\ pc = "migrate"
        /\ tx' = [tx EXCEPT !.dbCreated[Service[at]] = (db[Service[at]] = "absent")]
        /\ \/ Goto("activate", at) /\ Forward
           \/ \E sub \in BOOLEAN : UndoIn(sub)
    BY <1>4 DEF Migrate
  <2>2. SameRecords
    BY <1>1, <2>1 DEF SameRecords, TxStates
  <2> QED
    BY <1>1, <2>1, <2>2, PlainStep DEF PlainLabels, Goto
<1>5. CASE Activate
  <2>1. /\ UNCHANGED files /\ pc = "activate"
        /\ \/ tx' = [tx EXCEPT !.enableAttempted[Service[at]] = TRUE]
           \/ tx' = tx
        /\ \/ Goto("start", at) /\ Forward
           \/ NextService /\ Forward
           \/ \E sub \in BOOLEAN : UndoIn(sub)
    BY <1>5 DEF Activate, Command, host
  <2>2. SameRecords
    <3>1. CASE tx' = tx
      BY <1>1, <3>1 DEF SameRecords
    <3>2. CASE tx' = [tx EXCEPT !.enableAttempted[Service[at]] = TRUE]
      BY <1>1, <3>2 DEF SameRecords, TxStates
    <3> QED
      BY <2>1, <3>1, <3>2
  <2> QED
    BY <1>1, <2>1, <2>2, PlainStep DEF PlainLabels, Goto, NextService
<1>6. CASE StartService
  <2>1. /\ UNCHANGED files /\ pc = "start"
        /\ tx' = [tx EXCEPT !.startAttempted[Service[at]] = TRUE]
        /\ \/ NextService /\ Forward
           \/ \E sub \in BOOLEAN : UndoIn(sub)
    BY <1>6 DEF StartService, Command
  <2>2. SameRecords
    BY <1>1, <2>1 DEF SameRecords, TxStates
  <2> QED
    BY <1>1, <2>1, <2>2, PlainStep DEF PlainLabels, Goto, NextService
<1>7. CASE CommandFails
  <2>1. /\ UNCHANGED <<files, tx>> /\ pc \notin {"ended", "killed"}
        /\ \E sub \in BOOLEAN : UndoIn(sub)
    BY <1>7 DEF CommandFails, host
  <2> QED
    BY <1>1, <2>1, PlainStep DEF SameRecords
<1>8. CASE Killed
  <2>1. /\ UNCHANGED <<files, tx>> /\ Forward /\ at' = 0
        /\ pc \notin {"ended", "killed"} /\ pc' = "killed"
    BY <1>8 DEF Killed, Goto, host
  <2> QED
    BY <1>1, <2>1, PlainStep DEF SameRecords, PlainLabels
<1> QED
  BY <1>2, <1>3, <1>4, <1>5, <1>6, <1>7, <1>8

-----------------------------------------------------------------------------
(* The services.                                                           *)

LEMMA PackagesAreFiles ==
    ASSUME NEW s PROVE Package(s) \in Files /\ UnitFile(s) \in Files
<1>1. InstallOrder[5] \in Files /\ InstallOrder[9] \in Files /\ InstallOrder[13] \in Files
      /\ InstallOrder[15] \in Files
  BY OrderFiles, OrderLength
<1> QED
  BY <1>1 DEF Package, UnitFile, InstallOrder

(* What systemctl makes of a service is one. *)
LEMMA CommandsTyped ==
    ASSUME files \in [Files -> Contents], NEW u \in UnitStates, NEW s
    PROVE  /\ Enabled(u) \in UnitStates /\ Disabled(u) \in UnitStates
           /\ Stopped(u) \in UnitStates
           /\ Restarted(u, s) \in UnitStates /\ Started(u, s) \in UnitStates
<1>1. files[Package(s)] \in Contents /\ "absent" \in Contents
  BY PackagesAreFiles DEF Contents
<1> QED
  BY <1>1 DEF Enabled, Disabled, Stopped, Restarted, Started, UnitStates

LEMMA CommandKeeps ==
    ASSUME UnitsTyped, NEW s, NEW u, s \in Services => u \in UnitStates, Command(s, u)
    PROVE  UnitsTyped'
BY DEF Command, UnitsTyped

LEMMA ReloadKeeps ==
    ASSUME UnitsTyped, files \in [Files -> Contents]
    PROVE  Reloaded \in [Services -> UnitStates]
<1>1. \A s \in Services : files[UnitFile(s)] \in Contents
  BY PackagesAreFiles
<1> QED
  BY <1>1 DEF Reloaded, UnitsTyped, UnitStates

(* Every step of the installer leaves services. *)
LEMMA UnitsKept ==
    ASSUME FilesTyped, UnitsTyped, InstallStep \/ UndoStep \/ Begin \/ Killed
    PROVE  UnitsTyped'
<1>1. files \in [Files -> Contents]
  BY DEF FilesTyped
<1>2. CASE UNCHANGED unit
  BY <1>2 DEF UnitsTyped
<1>3. CASE DaemonReload
  BY <1>1, <1>3, ReloadKeeps DEF DaemonReload, UnitsTyped
<1>4. CASE UndoReload
  BY <1>1, <1>4, ReloadKeeps DEF UndoReload, UnitsTyped
<1>5. CASE Activate
  <2> DEFINE s == Service[at]
  <2>1. \/ unit' = unit
        \/ \E u \in {unit[s], Enabled(unit[s]), Stopped(unit[s]), Restarted(unit[s], s)} :
               Command(s, u)
    BY <1>5 DEF Activate, host
  <2>2. ASSUME NEW u \in {unit[s], Enabled(unit[s]), Stopped(unit[s]), Restarted(unit[s], s)},
               Command(s, u)
        PROVE  UnitsTyped'
    <3>1. s \in Services => u \in UnitStates
      BY <1>1, CommandsTyped DEF UnitsTyped
    <3> QED
      BY <2>2, <3>1, CommandKeeps
  <2> QED
    BY <1>2, <2>1, <2>2
<1>6. CASE StartService
  <2> DEFINE s == Service[at]
  <2>1. PICK u \in {unit[s], Started(unit[s], s)} : Command(s, u)
    BY <1>6 DEF StartService
  <2>2. s \in Services => u \in UnitStates
    BY <1>1, CommandsTyped DEF UnitsTyped
  <2> QED
    BY <2>1, <2>2, CommandKeeps
<1>7. CASE PrepareServiceRollback
  <2> DEFINE s == Service[at]
             first == IF PreparesStop(s) THEN Stopped(unit[s]) ELSE unit[s]
             second == IF PreparesDisable(s) THEN Disabled(first) ELSE first
  <2>1. PICK u \in {second, first, unit[s], [unit[s] EXCEPT !.enabled = second.enabled]} :
            Command(s, u)
    BY <1>7 DEF PrepareServiceRollback
  <2>2. s \in Services => first \in UnitStates
    BY <1>1, CommandsTyped DEF UnitsTyped
  <2>3. s \in Services => second \in UnitStates
    BY <1>1, <2>2, CommandsTyped
  <2>4. s \in Services => [unit[s] EXCEPT !.enabled = second.enabled] \in UnitStates
    <3> HIDE DEF second
    <3> QED
      BY <2>3 DEF UnitsTyped, UnitStates
  <2>5. s \in Services => u \in UnitStates
    <3> HIDE DEF first, second
    <3> QED
      BY <2>1, <2>2, <2>3, <2>4 DEF UnitsTyped
  <2> QED
    BY <2>1, <2>5, CommandKeeps
<1>8. CASE RestoreServiceState
  <2> DEFINE s == Service[at]
             wanted == IF tx.prev[s].unit THEN RestoredUnit(s) ELSE unit[s]
  <2>1. PICK u \in {wanted, [wanted EXCEPT !.enabled = unit[s].enabled],
                    [wanted EXCEPT !.active = unit[s].active, !.code = unit[s].code]} :
            Command(s, u)
    BY <1>8 DEF RestoreServiceState
  <2>2. s \in Services => wanted \in UnitStates
    <3>1. s \in Services => unit[s] \in UnitStates
      BY DEF UnitsTyped
    <3>2. s \in Services => RestoredUnit(s) \in UnitStates
      BY <1>1, <3>1, CommandsTyped DEF RestoredUnit
    <3> QED
      BY <3>1, <3>2
  <2>3. s \in Services => u \in UnitStates
    <3> HIDE DEF wanted
    <3> QED
      BY <2>1, <2>2 DEF UnitsTyped, UnitStates
  <2> QED
    BY <2>1, <2>3, CommandKeeps
<1> QED
  BY <1>2, <1>3, <1>4, <1>5, <1>6, <1>7, <1>8
     DEF InstallStep, UndoStep, Validate, RecordServiceState, EnsureDirectories, BackupFile,
         ReplaceFile, Sync, Migrate, VerifyInstalledRuntime, CleanUp, CommandFails,
         RollbackFile, RollbackFilesDone, RemoveCreatedDatabase, RemoveCreatedDirectories,
         Begin, Killed, host

-----------------------------------------------------------------------------
(* The undoing, and the theorem.                                           *)

(* A step of the undoing that goes on. *)
LEMMA UndoGoesOn ==
    ASSUME FilesInv, UNCHANGED <<files, tx>>, Undoing, at' \in Nat
    PROVE  SameFiles /\ SameRecords
BY DEF FilesInv, FilesTyped, SameFiles, SameRecords, Undoing

LEMMA UndoActions ==
    ASSUME FilesInv,
           \/ PrepareServiceRollback \/ RollbackFilesDone \/ RemoveCreatedDatabase
           \/ RemoveCreatedDirectories \/ UndoReload \/ RestoreServiceState
    PROVE  FilesInv'
<1>1. CASE PrepareServiceRollback
  <2>1. /\ UNCHANGED files /\ pc = "prepare"
        /\ \/ EndUndo(FALSE)
           \/ /\ UNCHANGED tx /\ Undoing
              /\ \/ pc' = "prepare" /\ at' = 2
                 \/ pc' = "undo_file" /\ at' = Len(tx.changed)
    BY <1>1 DEF PrepareServiceRollback, Command, Goto
  <2>2. CASE EndUndo(FALSE)
    BY <2>1, <2>2, EndUndoKeeps
  <2>3. CASE UNCHANGED tx /\ Undoing /\ pc' = "prepare" /\ at' = 2
    <3>1. SameFiles
      BY <2>1, <2>3, UndoGoesOn
    <3> QED
      BY <2>1, <2>3, <3>1, PlainLabel DEF PlainLabels
  <2>4. CASE UNCHANGED tx /\ Undoing /\ pc' = "undo_file" /\ at' = Len(tx.changed)
    <3>1. Len(tx.changed) \in Nat
      BY ChangedLength DEF FilesInv, FilesTyped
    <3>2. SameFiles
      BY <2>1, <2>4, <3>1, UndoGoesOn
    <3> QED
      BY <2>1, <2>4, <3>2, FromTheLast
  <2> QED
    BY <2>1, <2>2, <2>3, <2>4
<1>2. CASE RollbackFilesDone
  <2>1. /\ UNCHANGED files /\ pc = "undo_file" /\ at = 0
        /\ \/ EndUndo(FALSE)
           \/ ~failed /\ UNCHANGED tx /\ Undoing /\ pc' = "undo_database" /\ at' = 0
    BY <1>2 DEF RollbackFilesDone, Goto, host
  <2>2. CASE EndUndo(FALSE)
    BY <2>1, <2>2, EndUndoKeeps
  <2>3. CASE ~failed /\ UNCHANGED tx /\ Undoing /\ pc' = "undo_database" /\ at' = 0
    <3>1. SameFiles
      BY <2>1, <2>3, UndoGoesOn
    <3>2. FilesTyped' /\ PositionOK'
      BY <2>3, <3>1, SameFilesKeeps DEF PositionOK
    <3>3. ASSUME ~twice', ~tx'.committed
          PROVE  FilesAt' /\ \A f \in Files : Safe(f)'
      <4>1. BackupsGood /\ UnlistedUntouched /\ PutBackAbove(0)
        BY <2>1, <2>3, <3>1, <3>3 DEF FilesInv, FilesAt, SameFiles
      <4>2. BackupsGood' /\ UnlistedUntouched' /\ \A f \in Files : Safe(f)'
        BY <3>1, <3>3, <4>1, SameFilesKeeps
      <4>3. \A f \in Files : files[f] = before.files[f]
        BY <4>1 DEF UnlistedUntouched, PutBackAbove
      <4>4. files \in [Files -> Contents] /\ before.files \in [Files -> Contents]
        BY DEF FilesInv, FilesTyped
      <4>5. files = before.files
        BY <4>3, <4>4
      <4>6. (files = before.files)'
        BY <3>1, <4>5 DEF SameFiles
      <4> QED
        BY <2>3, <4>2, <4>6 DEF FilesAt, EarlyLabels, PutBackLabels
    <3> QED
      BY <3>2, <3>3 DEF FilesInv
  <2> QED
    BY <2>1, <2>2, <2>3
<1>3. CASE RemoveCreatedDatabase \/ RemoveCreatedDirectories \/ UndoReload \/ RestoreServiceState
  <2>1. /\ UNCHANGED files /\ pc \in PutBackLabels
        /\ \/ \E v \in BOOLEAN : EndUndo(v)
           \/ UNCHANGED tx /\ Undoing /\ pc' \in PutBackLabels /\ at' \in {0, 1, 2}
    <3>1. CASE RemoveCreatedDatabase
      BY <3>1 DEF RemoveCreatedDatabase, Goto, PutBackLabels
    <3>2. CASE RemoveCreatedDirectories
      BY <3>2 DEF RemoveCreatedDirectories, Goto, PutBackLabels
    <3>3. CASE UndoReload
      BY <3>3 DEF UndoReload, Goto, PutBackLabels
    <3>4. CASE RestoreServiceState
      BY <3>4 DEF RestoreServiceState, Command, Goto, PutBackLabels
    <3> QED
      BY <1>3, <3>1, <3>2, <3>3, <3>4
  <2>2. pc \notin {"ended", "killed"}
    BY <2>1 DEF PutBackLabels
  <2>3. CASE \E v \in BOOLEAN : EndUndo(v)
    BY <2>1, <2>2, <2>3, EndUndoKeeps
  <2>4. CASE UNCHANGED tx /\ Undoing /\ pc' \in PutBackLabels /\ at' \in {0, 1, 2}
    <3>1. SameFiles
      BY <2>1, <2>4, UndoGoesOn
    <3> QED
      BY <2>1, <2>4, <3>1, StaysPutBack
  <2> QED
    BY <2>1, <2>3, <2>4
<1> QED
  BY <1>1, <1>2, <1>3

(* After the commit the backups are no longer needed. *)
LEMMA CommitActions ==
    ASSUME FilesInv, VerifyInstalledRuntime \/ CleanUp, pc = "cleanup" => tx.committed
    PROVE  FilesInv'
<1>1. tx \in TxStates /\ subshell \in BOOLEAN /\ failed \in BOOLEAN
      /\ [f \in Files |-> "absent"] \in [Files -> Contents]
      /\ FreshTx.backup = [f \in Files |-> "absent"]
  BY DEF FilesInv, FilesTyped, FreshTx, Contents
<1>2. /\ UNCHANGED <<files, before, subshell, failed>> /\ at' = 0
      /\ pc' \in {"cleanup", "ended"}
  BY DEF VerifyInstalledRuntime, CleanUp, Goto, host, Forward, history
<1>3. tx' \in TxStates /\ tx'.committed
  <2>1. CASE VerifyInstalledRuntime
    BY <1>1, <2>1 DEF VerifyInstalledRuntime, TxStates
  <2>2. CASE CleanUp
    <3>1. tx.committed /\ (tx' = [tx EXCEPT !.backup = FreshTx.backup] \/ tx' = tx)
      BY <2>2 DEF CleanUp
    <3>2. CASE tx' = tx
      BY <1>1, <3>1, <3>2
    <3>3. CASE tx' = [tx EXCEPT !.backup = FreshTx.backup]
      BY <1>1, <3>1, <3>3 DEF TxStates
    <3> QED
      BY <3>1, <3>2, <3>3
  <2> QED
    BY <2>1, <2>2
<1>4. FilesTyped' /\ PositionOK'
  BY <1>1, <1>2, <1>3 DEF FilesInv, FilesTyped, PositionOK
<1> QED
  BY <1>3, <1>4 DEF FilesInv

(* The cleanup comes after the commit. *)
CleansUpCommitted == pc = "cleanup" => tx.committed

InstallerInv == FilesInv /\ UnitsTyped /\ CleansUpCommitted

LEMMA InstallerActions ==
    ASSUME InstallerInv, InstallStep \/ UndoStep \/ Begin \/ Killed
    PROVE  InstallerInv'
<1>1. FilesInv /\ UnitsTyped /\ CleansUpCommitted
  BY DEF InstallerInv
<1>2. FilesInv'
  BY <1>1, EarlyActions, PlainActions, BackupFileKeeps, ReplaceFileKeeps, RollbackFileKeeps,
     UndoActions, CommitActions DEF InstallStep, UndoStep, CleansUpCommitted
<1>3. UnitsTyped'
  BY <1>1, UnitsKept DEF FilesInv
<1>4. CleansUpCommitted'
  <2>1. CASE VerifyInstalledRuntime
    <3>1. tx \in TxStates
      BY <1>1 DEF FilesInv, FilesTyped
    <3> QED
      BY <2>1, <3>1 DEF VerifyInstalledRuntime, CleansUpCommitted, TxStates
  <2>2. CASE pc' # "cleanup"
    BY <2>2 DEF CleansUpCommitted
  <2>3. ASSUME ~VerifyInstalledRuntime
        PROVE  pc' # "cleanup"
    <3>1. ASSUME NEW v, EndUndo(v) PROVE pc' # "cleanup"
      BY <3>1 DEF EndUndo, Undo, Goto
    <3>2. ASSUME NEW sub, UndoIn(sub) PROVE pc' # "cleanup"
      BY <3>2 DEF UndoIn, Undo, Goto
    <3>3. CASE InstallStep
      BY <2>3, <3>2, <3>3
         DEF InstallStep, Validate, RecordServiceState, EnsureDirectories, BackupFile,
             ReplaceFile, NextFile, Sync, DaemonReload, Migrate, Activate, StartService,
             NextService, CleanUp, CommandFails, Goto
    <3>4. CASE UndoStep
      BY <3>1, <3>4
         DEF UndoStep, PrepareServiceRollback, RollbackFile, RollbackFilesDone,
             RemoveCreatedDatabase, RemoveCreatedDirectories, UndoReload, RestoreServiceState,
             Goto
    <3>5. CASE Begin \/ Killed
      BY <3>5 DEF Begin, Killed, Goto
    <3> QED
      BY <3>3, <3>4, <3>5
  <2> QED
    BY <2>1, <2>2, <2>3
<1> QED
  BY <1>2, <1>3, <1>4 DEF InstallerInv

(* The invariant the next two theorems rest on. *)
LEMMA InstallerInvariant == Spec => []InstallerInv
<1>1. Init => InstallerInv
  <2> SUFFICES ASSUME Init PROVE InstallerInv
    OBVIOUS
  <2>1. FilesInv
    BY FilesInit
  <2>2. UnitsTyped
    BY HostsAssumption DEF Init, InstallerInit, HostStates, UnitsTyped
  <2>3. CleansUpCommitted
    BY DEF Init, InstallerInit, CleansUpCommitted
  <2> QED
    BY <2>1, <2>2, <2>3 DEF InstallerInv
<1>2. InstallerInv /\ [Next]_vars => InstallerInv'
  <2> SUFFICES ASSUME InstallerInv, [Next]_vars PROVE InstallerInv'
    OBVIOUS
  <2>1. CASE UNCHANGED installerVars
    <3>1. UNCHANGED <<files, unit, pc, at, tx, subshell, failed, before, twice>>
      BY <2>1 DEF installerVars, host, history
    <3>2. FilesTyped' /\ PositionOK' /\ UnitsTyped' /\ CleansUpCommitted'
      BY <3>1 DEF InstallerInv, FilesInv, UnitsTyped, CleansUpCommitted, FilesTyped, PositionOK
    <3>3. FilesAt => FilesAt'
      BY <3>1 DEF FilesAt, BackupsGood, UnlistedUntouched, ListedBelow, PutBackAbove
    <3>4. \A f \in Files : Safe(f) => Safe(f)'
      BY <3>1 DEF Safe
    <3> QED
      BY <3>1, <3>2, <3>3, <3>4 DEF InstallerInv, FilesInv
  <2>2. CASE InstallStep \/ UndoStep \/ Begin \/ Killed
    BY <2>2, InstallerActions
  <2> QED
    BY <2>1, <2>2
       DEF Next, vars, InstallerIdle, PrepareSourceTree, BackUpSource, NoteBackup,
           ActivateSource, NoteActive, RunLocalInstaller, InstallerResult, VerifyAlignment,
           DropPriorBackup, SetupFails, Interrupt, InstallerKilled, Trap, RemoveNewSource,
           RestorePriorSource, Sweep, Done
<1> QED
  BY <1>1, <1>2, PTL DEF Spec

(* Every old file can be recovered until the commit (install_managed_file, *)
(* rollback_files, cleanup), on every host, wherever the installation      *)
(* fails or is killed and whatever fails of the undoing, as long as the    *)
(* transaction is not undone twice.                                        *)
THEOREM OldFilesAlwaysRecoverable == Spec => []OldFileRecoverable
<1>1. InstallerInv => OldFileRecoverable
  BY DEF InstallerInv, FilesInv, Safe, OldFileRecoverable
<1> QED
  BY <1>1, InstallerInvariant, PTL

-----------------------------------------------------------------------------
(* The databases.                                                          *)

(* A database that was there is there, and is not one to remove. *)
HistoryInv ==
    /\ DOMAIN db = Services
    /\ \A s \in Services : before.db[s] # "absent" => db[s] # "absent" /\ ~tx.dbCreated[s]

(* Only Migrate and RemoveCreatedDatabase concern the databases. *)
SameDatabases == UNCHANGED <<db, before>> /\ tx'.dbCreated = tx.dbCreated

LEMMA DatabasesAlone ==
    ASSUME FilesTyped, InstallStep \/ UndoStep \/ Begin \/ Killed,
           ~Migrate, ~RemoveCreatedDatabase
    PROVE  SameDatabases
<1>1. tx \in TxStates
  BY DEF FilesTyped
<1>2. ASSUME NEW v, EndUndo(v) PROVE before' = before /\ tx'.dbCreated = tx.dbCreated
  BY <1>1, <1>2 DEF EndUndo, TxStates
<1>3. ASSUME NEW sub, UndoIn(sub) PROVE before' = before
  BY <1>3 DEF UndoIn, history
<1>4. Forward \/ Undoing => before' = before
  BY DEF Forward, Undoing, history
<1>5. CASE Validate \/ Sync \/ CommandFails \/ Begin \/ Killed \/ DaemonReload
  BY <1>3, <1>4, <1>5
     DEF Validate, Sync, CommandFails, Begin, Killed, DaemonReload, SameDatabases, host
<1>6. CASE RecordServiceState
  BY <1>1, <1>4, <1>6 DEF RecordServiceState, SameDatabases, host, TxStates
<1>7. CASE EnsureDirectories
  BY <1>1, <1>3, <1>4, <1>7 DEF EnsureDirectories, SameDatabases, TxStates
<1>8. CASE BackupFile
  <2>1. UNCHANGED <<db, before>>
    BY <1>4, <1>8 DEF BackupFile
  <2>2. tx' = tx \/ tx' = Listing(tx, InstallOrder[at], files[InstallOrder[at]])
    BY <1>8 DEF BackupFile, Listing
  <2> QED
    BY <1>1, <2>1, <2>2 DEF SameDatabases, TxStates, Listing
<1>9. CASE ReplaceFile
  BY <1>1, <1>4, <1>9 DEF ReplaceFile, SameDatabases, TxStates
<1>10. CASE Activate
  <2>1. UNCHANGED <<db, before>>
    BY <1>3, <1>4, <1>10 DEF Activate, Command, host
  <2>2. tx' = tx \/ tx' = [tx EXCEPT !.enableAttempted[Service[at]] = TRUE]
    BY <1>10 DEF Activate
  <2> QED
    BY <1>1, <2>1, <2>2 DEF SameDatabases, TxStates
<1>11. CASE StartService
  BY <1>1, <1>3, <1>4, <1>11 DEF StartService, Command, SameDatabases, TxStates
<1>12. CASE VerifyInstalledRuntime
  BY <1>1, <1>4, <1>12 DEF VerifyInstalledRuntime, SameDatabases, TxStates, host
<1>13. CASE CleanUp
  BY <1>1, <1>13 DEF CleanUp, SameDatabases, TxStates, host, history
<1>14. CASE PrepareServiceRollback
  BY <1>2, <1>4, <1>14 DEF PrepareServiceRollback, Command, SameDatabases
<1>15. CASE RollbackFile \/ RollbackFilesDone
  BY <1>2, <1>4, <1>15 DEF RollbackFile, RollbackFilesDone, SameDatabases, host
<1>16. CASE RemoveCreatedDirectories \/ UndoReload
  BY <1>2, <1>4, <1>16 DEF RemoveCreatedDirectories, UndoReload, SameDatabases
<1>17. CASE RestoreServiceState
  BY <1>2, <1>4, <1>17 DEF RestoreServiceState, Command, SameDatabases
<1> QED
  BY <1>5, <1>6, <1>7, <1>8, <1>9, <1>10, <1>11, <1>12, <1>13, <1>14, <1>15, <1>16, <1>17
     DEF InstallStep, UndoStep

(* A database that was there is never removed (remove_created_database),   *)
(* on every host, whatever fails, and even when a transaction is undone    *)
(* twice.                                                                  *)
THEOREM HistoryAlwaysKept == Spec => []HistoryKept
<1>1. Init => HistoryInv
  BY HostsAssumption DEF Init, InstallerInit, HostStates, FreshTx, HistoryInv
<1>2. HistoryInv /\ InstallerInv /\ [Next]_vars => HistoryInv'
  <2> SUFFICES ASSUME HistoryInv, InstallerInv, [Next]_vars PROVE HistoryInv'
    OBVIOUS
  <2>1. FilesTyped /\ tx \in TxStates
    BY DEF InstallerInv, FilesInv, FilesTyped
  <2>2. CASE SameDatabases
    BY <2>2 DEF SameDatabases, HistoryInv
  <2>3. CASE Migrate
    <3> DEFINE s == Service[at]
    <3>1. /\ tx' = [tx EXCEPT !.dbCreated[s] = (db[s] = "absent")]
          /\ db' = db \/ db' = [db EXCEPT ![s] = "new"]
          /\ before' = before
      BY <2>3 DEF Migrate, Forward, UndoIn, history
    <3>2. tx'.dbCreated = [tx.dbCreated EXCEPT ![s] = (db[s] = "absent")]
      BY <2>1, <3>1 DEF TxStates
    <3>3. tx.dbCreated \in [Services -> BOOLEAN]
      BY <2>1 DEF TxStates
    <3> HIDE DEF s
    <3> QED
      BY <3>1, <3>2, <3>3 DEF HistoryInv
  <2>4. CASE RemoveCreatedDatabase
    <3>1. PICK gone \in SUBSET CreatedDatabases :
              db' = [s \in Services |-> IF s \in gone THEN "absent" ELSE db[s]]
      BY <2>4 DEF RemoveCreatedDatabase
    <3>2. before' = before /\ tx'.dbCreated = tx.dbCreated
      BY <2>1, <2>4 DEF RemoveCreatedDatabase, Undoing, EndUndo, TxStates
    <3> QED
      BY <3>1, <3>2 DEF HistoryInv, CreatedDatabases
  <2>5. CASE InstallStep \/ UndoStep \/ Begin \/ Killed
    BY <2>1, <2>2, <2>3, <2>4, <2>5, DatabasesAlone
  <2>6. CASE UNCHANGED installerVars
    BY <2>2, <2>6 DEF SameDatabases, installerVars, host, history
  <2> QED
    BY <2>5, <2>6
       DEF Next, vars, InstallerIdle, PrepareSourceTree, BackUpSource, NoteBackup,
           ActivateSource, NoteActive, RunLocalInstaller, InstallerResult, VerifyAlignment,
           DropPriorBackup, SetupFails, Interrupt, InstallerKilled, Trap, RemoveNewSource,
           RestorePriorSource, Sweep, Done
<1>3. HistoryInv => HistoryKept
  BY DEF HistoryInv, HistoryKept
<1> QED
  BY <1>1, <1>2, <1>3, InstallerInvariant, PTL DEF Spec

-----------------------------------------------------------------------------
(* The source tree.                                                        *)

EndSteps == {"trap", "remove", "move", "sweep", "done"}
PriorNoted == "PRIOR_SOURCE_BACKED_UP" \in flags
NewNoted == "NEW_SOURCE_ACTIVATED" \in flags
SetupCommitted == "SETUP_COMMITTED" \in flags

(* Where the prior tree is at each step: a noted backup is it, and the     *)
(* place of the tree is taken only once the backup is noted.               *)
SourceAt ==
    /\ step \in {"release", "backup"} => source = sourceWas /\ ~PriorNoted /\ ~NewNoted
    /\ step = "note_backup" => kept = sourceWas /\ ~NewNoted
    /\ PriorNoted => kept = sourceWas
    /\ ~PriorNoted /\ step # "note_backup" => sourceWas \in {source, "absent"}
    /\ step \in {"activate", "note_active"} \/ NewNoted => PriorNoted \/ sourceWas = "absent"
    /\ step = "move" => ~NewNoted

SourceInv ==
    /\ step = "drop" => SetupCommitted
    /\ cut = "note_backup" => step \in EndSteps
    /\ ~SetupCommitted /\ cut # "note_backup" => SourceAt

(* Until setup commits the prior source tree can be recovered              *)
(* (activate_source_tree, rollback_source_tree, cleanup), whichever        *)
(* command fails, unless a signal falls between its rename and the flag.   *)
THEOREM SourceAlwaysRecoverable == Spec => []SourceRecoverable
<1> USE DEF PriorNoted, NewNoted, SetupCommitted, EndSteps
<1>1. Init => SourceInv
  BY DEF Init, SourceInv, SourceAt
<1>2. SourceInv /\ [Next]_vars => SourceInv'
  <2> SUFFICES ASSUME SourceInv, [Next]_vars PROVE SourceInv'
    OBVIOUS
  <2> USE DEF SourceInv, SourceAt, Continue, Raise
  <2>1. CASE PrepareSourceTree
    BY <2>1 DEF PrepareSourceTree
  <2>2. CASE BackUpSource
    BY <2>2 DEF BackUpSource
  <2>3. CASE NoteBackup
    BY <2>3 DEF NoteBackup
  <2>4. CASE ActivateSource
    BY <2>4 DEF ActivateSource
  <2>5. CASE NoteActive
    BY <2>5 DEF NoteActive
  <2>6. CASE RunLocalInstaller
    BY <2>6 DEF RunLocalInstaller
  <2>7. CASE InstallerResult
    BY <2>7 DEF InstallerResult
  <2>8. CASE VerifyAlignment
    BY <2>8 DEF VerifyAlignment
  <2>9. CASE DropPriorBackup
    BY <2>9 DEF DropPriorBackup
  <2>10. CASE SetupFails
    BY <2>10 DEF SetupFails
  <2>11. CASE Interrupt
    BY <2>11 DEF Interrupt
  <2>12. CASE InstallerKilled
    BY <2>12 DEF InstallerKilled
  <2>13. CASE Trap
    BY <2>13 DEF Trap
  <2>14. CASE RemoveNewSource
    BY <2>14 DEF RemoveNewSource
  <2>15. CASE RestorePriorSource
    BY <2>15 DEF RestorePriorSource
  <2>16. CASE Sweep
    BY <2>16 DEF Sweep, SweepsBackup
  <2>17. CASE UNCHANGED vars
    BY <2>17 DEF vars, setupVars
  <2> QED
    BY <2>1, <2>2, <2>3, <2>4, <2>5, <2>6, <2>7, <2>8, <2>9, <2>10, <2>11, <2>12, <2>13,
       <2>14, <2>15, <2>16, <2>17 DEF Next, Done
<1>3. SourceInv => SourceRecoverable
  BY DEF SourceInv, SourceAt, SourceRecoverable
<1> QED
  BY <1>1, <1>2, <1>3, PTL DEF Spec

-----------------------------------------------------------------------------
(* The report of the installer.                                            *)

ServiceLabels == {"migrate", "activate", "start", "prepare", "restore"}

(* The state of the script, also when it undoes a second time: what its    *)
(* types do not say of list, position, commit and exit status.             *)
ShapeInv ==
    /\ InstallerTypeOK
    /\ Len(tx.changed) <= Len(InstallOrder)
    /\ pc \in EarlyLabels => tx.changed = <<>>
    /\ pc = "backup" => Len(tx.changed) < at
    /\ pc = "replace" => Len(tx.changed) <= at
    /\ pc \in ServiceLabels => at \in {1, 2}
    /\ pc = "ended" <=> status # Running
    /\ status = 0 => tx.committed
    /\ tx.committed => pc \in {"cleanup", "ended", "killed"}

Place(s) == IF s = "monitor" THEN 1 ELSE 2

(* Neither the databases nor the services are touched yet. *)
FileLabels == EarlyLabels \cup {"backup", "replace", "sync", "reload"}

(* The script has not come to the database of s. *)
DatabaseAhead(s) ==
    \/ pc \in FileLabels
    \/ pc \in {"migrate", "activate", "start"} /\ at < Place(s)
    \/ pc = "migrate" /\ at = Place(s)

(* The created directories and databases are those that were not there. *)
CreatedInv ==
    /\ pc \in EarlyLabels => dirs = before.dirs /\ tx.dirsCreated = {}
    /\ pc \in {"undo_reload", "restore"} => dirs = before.dirs
    /\ pc \notin {"undo_reload", "restore", "ended", "killed"} =>
          dirs \ tx.dirsCreated = before.dirs
    /\ \A s \in Services :
          /\ DatabaseAhead(s) => db[s] = before.db[s]
          /\ pc \in {"undo_directories", "undo_reload", "restore"} /\ before.db[s] = "absent" =>
                db[s] = "absent"
          /\ pc \notin {"ended", "killed"} /\ before.db[s] = "absent" =>
                db[s] = "absent" \/ tx.dbCreated[s]

(* What was recorded of the services. *)
RecordTrue ==
    \A s \in Services :
        tx.prev[s] = [unit |-> before.files[UnitFile(s)] # "absent",
                      enabled |-> before.unit[s].enabled,
                      active |-> before.unit[s].active]

UndoLabels == {"undo_file", "undo_database", "undo_directories", "undo_reload", "restore"}

(* The undoing has dealt with the service s. *)
Prepared(s) == pc \in UndoLabels \/ (pc = "prepare" /\ at > Place(s))

(* The process of s is the one found. *)
SameProcess(s) == unit[s].active = before.unit[s].active /\ unit[s].code = before.unit[s].code

ServiceInv ==
    /\ ~tx.recorded => unit = before.unit
    /\ pc \in {"idle", "validate", "record"} => ~tx.recorded
    /\ pc \notin {"idle", "validate", "record", "undo_file", "undo_database",
                  "undo_directories", "ended", "killed"} => tx.recorded
    /\ tx.recorded => RecordTrue
    /\ pc = "start" => ~tx.prev[Service[at]].unit
    /\ \A s \in Services :
          /\ ~unit[s].active => unit[s].code = "absent"
          /\ tx.recorded /\ ~Prepared(s) /\ tx.prev[s].unit
                /\ ~(tx.prev[s].active /\ tx.filesChanged[s]) => SameProcess(s)
          /\ tx.recorded /\ Prepared(s) /\ unit[s].active => SameProcess(s)
          /\ tx.recorded /\ Prepared(s) /\ ~tx.prev[s].unit =>
                ~unit[s].active /\ ~unit[s].enabled
          /\ pc = "restore" => unit[s].loaded = before.unit[s].loaded
          /\ pc = "restore" /\ at > Place(s) => unit[s] = before.unit[s]

(* What the exit status says. *)
ReportInv ==
    /\ before \in Hosts
    /\ failed => faults > 0 \/ twice
    /\ ~twice /\ ~tx.committed /\ pc \notin {"ended", "killed"} => CreatedInv /\ ServiceInv
    /\ status = 1 /\ ~tx.committed /\ ~twice => Restored
    /\ GivesUpForAReason

TInv == ShapeInv /\ ReportInv

(* How the trap begins, and how it ends, for list, position and status. *)
LEMMA TrapShape ==
    ASSUME ShapeInv
    PROVE  /\ Undo => /\ pc' \in {"prepare", "undo_file"} /\ at' \in 0..Len(InstallOrder)
                      /\ pc' = "prepare" => at' = 1 /\ tx.recorded
           /\ \A v : EndUndo(v) =>
                 /\ tx'.changed = tx.changed /\ tx'.committed = tx.committed
                 /\ pc' \in {"prepare", "undo_file", "ended"} /\ at' \in 0..Len(InstallOrder)
                 /\ pc' = "prepare" => at' = 1 /\ tx.recorded
                 /\ pc' = "ended" <=> ~subshell
                 /\ pc' # "ended" => status' = status
                 /\ pc' = "ended" => status' \in {1, 70} /\ twice' = twice
                 /\ twice' \in BOOLEAN /\ before' = before
<1>1. /\ tx \in TxStates /\ Len(tx.changed) \in 0..Len(InstallOrder) /\ twice \in BOOLEAN
      /\ subshell \in BOOLEAN /\ 1 \in 0..Len(InstallOrder)
  <2>1. tx \in TxStates /\ twice \in BOOLEAN /\ subshell \in BOOLEAN
    BY DEF ShapeInv, InstallerTypeOK
  <2>2. Len(tx.changed) \in Nat
    BY <2>1, ChangedLength
  <2>3. Len(tx.changed) <= Len(InstallOrder)
    BY DEF ShapeInv
  <2>4. Len(tx.changed) <= 15
    BY <2>3, OrderLength
  <2>5. Len(tx.changed) \in 0..15
    <3>1. \A m \in Nat : m <= 15 => m \in 0..15
      OBVIOUS
    <3> QED
      BY <2>2, <2>4, <3>1, Zenon
  <2>6. Len(tx.changed) \in 0..Len(InstallOrder)
    BY <2>5, OrderLength
  <2>7. 1 \in 0..Len(InstallOrder)
    BY OrderLength
  <2> QED
    BY <2>1, <2>6, <2>7
<1>2. ASSUME Undo
      PROVE  /\ pc' \in {"prepare", "undo_file"} /\ at' \in 0..Len(InstallOrder)
             /\ pc' = "prepare" => at' = 1 /\ tx.recorded
  <2>1. \/ tx.recorded /\ pc' = "prepare" /\ at' = 1
        \/ pc' = "undo_file" /\ at' = Len(tx.changed)
    BY <1>2 DEF Undo, Goto
  <2> QED
    BY <1>1, <2>1
<1>3. ASSUME NEW v, EndUndo(v)
      PROVE  /\ tx'.changed = tx.changed /\ tx'.committed = tx.committed
             /\ pc' \in {"prepare", "undo_file", "ended"} /\ at' \in 0..Len(InstallOrder)
             /\ pc' = "prepare" => at' = 1 /\ tx.recorded
             /\ pc' = "ended" <=> ~subshell
             /\ pc' # "ended" => status' = status
             /\ pc' = "ended" => status' \in {1, 70} /\ twice' = twice
             /\ twice' \in BOOLEAN /\ before' = before
  <2>1. tx'.changed = tx.changed /\ tx'.committed = tx.committed /\ before' = before
    BY <1>1, <1>3 DEF EndUndo, TxStates
  <2>2. CASE subshell
    BY <1>2, <1>3, <2>1, <2>2 DEF EndUndo
  <2>3. CASE ~subshell
    BY <1>1, <1>3, <2>1, <2>3, OrderLength DEF EndUndo, Goto
  <2> QED
    BY <1>1, <2>2, <2>3
<1> QED
  BY <1>2, <1>3

(* A step of the script as it is seen here: the list and the commit stay,  *)
(* and the script goes on, to its trap, or ends.                           *)
LEMMA ShapeStep ==
    ASSUME ShapeInv, InstallerInv', pc \notin {"ended", "killed", "cleanup"},
           dirs' \subseteq Directories, db' \in [Services -> Contents],
           faults' \in 0..MaxFaults, twice' \in BOOLEAN,
           tx'.changed = tx.changed, tx'.committed = tx.committed,
           at' \in 0..Len(InstallOrder),
           pc' \in {"sync", "reload", "migrate", "activate", "start", "verify", "prepare",
                    "undo_file", "undo_database", "undo_directories", "undo_reload", "restore",
                    "ended"},
           pc' \in ServiceLabels => at' \in {1, 2},
           pc' # "ended" => status' = status, pc' = "ended" => status' \in {1, 70}
    PROVE  ShapeInv'
<1>1. status = Running /\ ~tx'.committed
  BY DEF ShapeInv
<1>2. InstallerTypeOK'
  BY <1>1 DEF InstallerInv, FilesInv, FilesTyped, UnitsTyped, InstallerTypeOK, Statuses
<1> QED
  BY <1>1, <1>2 DEF ShapeInv, EarlyLabels, Running, Statuses

(* The steps before the first file is replaced. *)
LEMMA ShapeEarly ==
    ASSUME ShapeInv, InstallerInv',
           Begin \/ Validate \/ RecordServiceState \/ EnsureDirectories
    PROVE  ShapeInv'
<1>1. tx \in TxStates /\ tx.changed = <<>> /\ status = Running /\ ~tx.committed
  BY DEF ShapeInv, InstallerTypeOK, Begin, Validate, RecordServiceState, EnsureDirectories,
         EarlyLabels
<1>2. tx'.changed = tx.changed /\ tx'.committed = tx.committed
  <2>1. CASE RecordServiceState
    BY <1>1, <2>1 DEF RecordServiceState, TxStates
  <2>2. CASE EnsureDirectories
    BY <1>1, <2>2 DEF EnsureDirectories, TxStates
  <2> QED
    BY <2>1, <2>2 DEF Begin, Validate
<1>3. /\ dirs' \subseteq Directories /\ db' = db /\ faults' = faults /\ twice' = twice
      /\ status' = status
  BY DEF ShapeInv, InstallerTypeOK, Begin, Validate, RecordServiceState, EnsureDirectories,
         Forward, UndoIn, history, host
<1>4. CASE /\ pc' \in {"validate", "record", "directories", "backup"}
           /\ at' = IF pc' = "backup" THEN 1 ELSE 0
  <2>1. InstallerTypeOK'
    BY <1>1, <1>3, <1>4, OrderLength
    DEF InstallerInv, FilesInv, FilesTyped, UnitsTyped, InstallerTypeOK, ShapeInv
  <2> QED
    BY <1>1, <1>2, <1>3, <1>4, <2>1, OrderLength
    DEF ShapeInv, EarlyLabels, ServiceLabels, Running
<1>5. CASE EnsureDirectories /\ Undo
  <2>1. pc = "directories" /\ db' \in [Services -> Contents] /\ faults' \in 0..MaxFaults
        /\ twice' \in BOOLEAN
    BY <1>3, <1>5 DEF EnsureDirectories, ShapeInv, InstallerTypeOK
  <2> QED
    BY <1>2, <1>3, <1>5, <2>1, TrapShape, ShapeStep DEF ServiceLabels
<1> QED
  BY <1>4, <1>5 DEF Begin, Validate, RecordServiceState, EnsureDirectories, Goto, UndoIn

(* The files are listed one by one, each once. *)
LEMMA ShapeFiles ==
    ASSUME ShapeInv, InstallerInv', BackupFile \/ ReplaceFile
    PROVE  ShapeInv'
<1>1. /\ tx \in TxStates /\ tx.changed \in Seq(Files) /\ status = Running /\ ~tx.committed
      /\ at \in 0..Len(InstallOrder)
  BY DEF ShapeInv, InstallerTypeOK, BackupFile, ReplaceFile, TxStates
<1>2. /\ dirs' = dirs /\ db' = db /\ faults' = faults /\ twice' = twice /\ status' = status
      /\ tx'.committed = tx.committed
  <2>1. CASE BackupFile
    <3>1. tx' = tx \/ tx' = Listing(tx, InstallOrder[at], files[InstallOrder[at]])
      BY <2>1 DEF BackupFile, Listing
    <3> QED
      BY <1>1, <2>1, <3>1 DEF BackupFile, Forward, history, Listing, TxStates
  <2>2. CASE ReplaceFile
    BY <1>1, <2>2 DEF ReplaceFile, Forward, history, TxStates
  <2> QED
    BY <2>1, <2>2
<1>3. ASSUME pc' \in {"backup", "replace", "sync"}, at' \in 0..Len(InstallOrder),
             Len(tx'.changed) <= Len(InstallOrder),
             pc' = "backup" => Len(tx'.changed) < at',
             pc' = "replace" => Len(tx'.changed) <= at'
      PROVE  ShapeInv'
  <2>1. InstallerTypeOK'
    BY <1>1, <1>2, <1>3
    DEF InstallerInv, FilesInv, FilesTyped, UnitsTyped, InstallerTypeOK, ShapeInv
  <2> QED
    BY <1>1, <1>2, <1>3, <2>1 DEF ShapeInv, EarlyLabels, ServiceLabels, Running
<1>4. ASSUME NextFile, Len(tx'.changed) <= at, Len(tx'.changed) <= Len(InstallOrder)
      PROVE  ShapeInv'
  <2>1. Len(tx'.changed) \in Nat
    BY DEF InstallerInv, FilesInv, FilesTyped, TxStates
  <2>2. /\ pc' \in {"backup", "sync"}
        /\ pc' = "backup" => at < Len(InstallOrder) /\ at' = at + 1
        /\ pc' = "sync" => at' = 0
    BY <1>4 DEF NextFile, Goto
  <2>3. CASE pc' = "backup"
    <3>1. at \in Nat /\ at < Len(InstallOrder) /\ at' = at + 1
      BY <1>1, <2>2, <2>3, OrderLength
    <3>2. at' \in 0..Len(InstallOrder) /\ Len(tx'.changed) < at'
      BY <1>4, <2>1, <3>1, OrderLength
    <3> QED
      BY <1>3, <1>4, <2>3, <3>2
  <2>4. CASE pc' = "sync"
    <3>1. at' \in 0..Len(InstallOrder)
      BY <2>2, <2>4, OrderLength
    <3> QED
      BY <1>3, <1>4, <2>4, <3>1
  <2> QED
    BY <2>2, <2>3, <2>4
<1>5. CASE ReplaceFile
  <2>1. tx'.changed = tx.changed
    BY <1>1, <1>5 DEF ReplaceFile, TxStates
  <2> QED
    BY <1>4, <1>5, <2>1 DEF ReplaceFile, ShapeInv
<1>6. CASE BackupFile /\ NextFile /\ tx' = tx
  <2>1. Len(tx.changed) \in Nat
    BY <1>1
  <2> QED
    BY <1>1, <1>4, <1>6, <2>1, OrderLength DEF BackupFile, ShapeInv
<1>7. CASE /\ BackupFile /\ Goto("replace", at)
           /\ tx' = Listing(tx, InstallOrder[at], files[InstallOrder[at]])
  <2>1. tx'.changed = Append(tx.changed, InstallOrder[at])
    BY <1>1, <1>7 DEF Listing, TxStates
  <2>2. Len(tx'.changed) = Len(tx.changed) + 1 /\ Len(tx.changed) \in Nat
    BY <1>1, <2>1
  <2>3. Len(tx.changed) < at
    BY <1>7 DEF BackupFile, ShapeInv
  <2>4. Len(tx'.changed) <= at /\ Len(tx'.changed) <= Len(InstallOrder)
    BY <1>1, <2>2, <2>3, OrderLength
  <2> QED
    BY <1>1, <1>3, <1>7, <2>4 DEF Goto
<1> QED
  BY <1>5, <1>6, <1>7 DEF BackupFile, Listing

(* The middle part of the script, and a command that fails. *)
LEMMA ShapeMiddle ==
    ASSUME ShapeInv, InstallerInv',
           Sync \/ DaemonReload \/ Migrate \/ Activate \/ StartService \/ CommandFails
    PROVE  ShapeInv'
<1>1. /\ tx \in TxStates /\ at \in 0..Len(InstallOrder) /\ dirs \subseteq Directories
      /\ db \in [Services -> Contents] /\ faults \in 0..MaxFaults /\ twice \in BOOLEAN
      /\ pc \in ServiceLabels => at \in {1, 2}
      /\ {0, 1, 2} \subseteq 0..Len(InstallOrder)
  BY OrderLength DEF ShapeInv, InstallerTypeOK
<1>2. /\ pc \notin {"ended", "killed", "cleanup"} /\ dirs' = dirs
      /\ faults' = faults /\ twice' = twice /\ status' = status
  BY DEF Sync, DaemonReload, Migrate, Activate, StartService, CommandFails, Command, Forward,
         UndoIn, history, host
<1>3. tx'.changed = tx.changed /\ tx'.committed = tx.committed
  <2>1. CASE Migrate
    BY <1>1, <2>1 DEF Migrate, TxStates
  <2>2. CASE Activate
    BY <1>1, <2>2 DEF Activate, TxStates
  <2>3. CASE StartService
    BY <1>1, <2>3 DEF StartService, TxStates
  <2> QED
    BY <2>1, <2>2, <2>3 DEF Sync, DaemonReload, CommandFails
<1>4. db' \in [Services -> Contents]
  <2>1. CASE Migrate
    <3>1. db' = db \/ db' = [db EXCEPT ![Service[at]] = "new"]
      BY <2>1 DEF Migrate
    <3> QED
      BY <1>1, <3>1 DEF Contents
  <2> QED
    BY <1>1, <2>1 DEF Sync, DaemonReload, Activate, StartService, CommandFails, Command, host
<1>5. \/ Undo
      \/ /\ pc' \in {"reload", "migrate", "activate", "start", "verify"}
         /\ at' \in {0, 1, 2} /\ (pc' \in ServiceLabels => at' \in {1, 2})
  <2>1. CASE Sync \/ DaemonReload \/ CommandFails
    BY <2>1 DEF Sync, DaemonReload, CommandFails, UndoIn, Goto, ServiceLabels
  <2>2. CASE Migrate \/ Activate \/ StartService
    <3>1. at \in {1, 2}
      BY <1>1, <2>2 DEF Migrate, Activate, StartService, ServiceLabels
    <3>2. CASE Migrate
      BY <3>1, <3>2 DEF Migrate, UndoIn, Goto, ServiceLabels
    <3>3. CASE Activate
      BY <3>1, <3>3 DEF Activate, UndoIn, Goto, NextService, ServiceLabels
    <3>4. CASE StartService
      BY <3>1, <3>4 DEF StartService, UndoIn, Goto, NextService, ServiceLabels
    <3> QED
      BY <2>2, <3>2, <3>3, <3>4
  <2> QED
    BY <2>1, <2>2
<1>6. CASE Undo
  BY <1>1, <1>2, <1>3, <1>4, <1>6, TrapShape, ShapeStep DEF ServiceLabels
<1>7. CASE /\ pc' \in {"reload", "migrate", "activate", "start", "verify"}
           /\ at' \in {0, 1, 2} /\ (pc' \in ServiceLabels => at' \in {1, 2})
  BY <1>1, <1>2, <1>3, <1>4, <1>7, ShapeStep
<1> QED
  BY <1>5, <1>6, <1>7

(* A step of the undoing. *)
LEMMA ShapeUndo ==
    ASSUME ShapeInv, InstallerInv', UndoStep
    PROVE  ShapeInv'
<1>1. /\ tx \in TxStates /\ at \in 0..Len(InstallOrder) /\ dirs \subseteq Directories
      /\ db \in [Services -> Contents] /\ faults \in 0..MaxFaults /\ twice \in BOOLEAN
      /\ pc \in ServiceLabels => at \in {1, 2}
      /\ {0, 1, 2} \subseteq 0..Len(InstallOrder)
      /\ Len(tx.changed) \in 0..Len(InstallOrder)
  <2>1. tx \in TxStates /\ Len(tx.changed) <= Len(InstallOrder)
    BY DEF ShapeInv, InstallerTypeOK
  <2>2. Len(tx.changed) \in Nat
    BY <2>1, ChangedLength
  <2>3. Len(tx.changed) \in 0..Len(InstallOrder)
    <3>1. \A m \in Nat : m <= 15 => m \in 0..15
      OBVIOUS
    <3>2. Len(tx.changed) <= 15
      BY <2>1, OrderLength
    <3>3. Len(tx.changed) \in 0..15
      BY <2>2, <3>1, <3>2, Zenon
    <3> QED
      BY <3>3, OrderLength
  <2> QED
    BY <2>3, OrderLength DEF ShapeInv, InstallerTypeOK
<1>2. pc \in UndoLabels \cup {"prepare"} /\ dirs' \subseteq Directories
  BY <1>1 DEF UndoStep, PrepareServiceRollback, RollbackFile, RollbackFilesDone,
         RemoveCreatedDatabase, RemoveCreatedDirectories, UndoReload, RestoreServiceState,
         Command, host, UndoLabels
<1>3. db' \in [Services -> Contents]
  <2>1. CASE RemoveCreatedDatabase
    <3>1. PICK gone \in SUBSET CreatedDatabases :
              db' = [s \in Services |-> IF s \in gone THEN "absent" ELSE db[s]]
      BY <2>1 DEF RemoveCreatedDatabase
    <3> QED
      BY <1>1, <3>1 DEF Contents
  <2> QED
    BY <1>1, <2>1 DEF UndoStep, PrepareServiceRollback, RollbackFile, RollbackFilesDone,
         RemoveCreatedDirectories, UndoReload, RestoreServiceState, Command, host
<1>4. faults' \in 0..MaxFaults
  <2>1. NoFault \/ Fault
    BY DEF UndoStep, PrepareServiceRollback, RollbackFile, RollbackFilesDone,
           RemoveCreatedDatabase, RemoveCreatedDirectories, UndoReload, RestoreServiceState
  <2> QED
    BY <1>1, <2>1, MaxFaultsAssumption DEF NoFault, Fault
<1>5. \/ \E v \in BOOLEAN : EndUndo(v)
      \/ /\ tx' = tx /\ status' = status /\ twice' = twice
         /\ pc' \in UndoLabels \cup {"prepare"} /\ at' \in 0..Len(InstallOrder)
         /\ pc' \in ServiceLabels => at' \in {1, 2}
  <2>1. CASE PrepareServiceRollback
    BY <1>1, <2>1 DEF PrepareServiceRollback, Goto, Undoing, UndoLabels, ServiceLabels
  <2>2. CASE RollbackFile
    <3>1. /\ tx' = tx /\ status' = status /\ twice' = twice
          /\ pc' = "undo_file" /\ at' = at - 1 /\ at > 0
      BY <2>2 DEF RollbackFile, Goto
    <3>2. at' \in 0..Len(InstallOrder)
      BY <1>1, <3>1, OrderLength
    <3> QED
      BY <3>1, <3>2 DEF UndoLabels, ServiceLabels
  <2>3. CASE RollbackFilesDone
    BY <1>1, <2>3 DEF RollbackFilesDone, Goto, Undoing, UndoLabels, ServiceLabels
  <2>4. CASE RemoveCreatedDatabase
    BY <1>1, <2>4 DEF RemoveCreatedDatabase, Goto, Undoing, UndoLabels, ServiceLabels
  <2>5. CASE RemoveCreatedDirectories
    BY <1>1, <2>5 DEF RemoveCreatedDirectories, Goto, Undoing, UndoLabels, ServiceLabels
  <2>6. CASE UndoReload
    BY <1>1, <2>6 DEF UndoReload, Goto, Undoing, UndoLabels, ServiceLabels
  <2>7. CASE RestoreServiceState
    BY <1>1, <2>7 DEF RestoreServiceState, Goto, Undoing, UndoLabels, ServiceLabels
  <2> QED
    BY <2>1, <2>2, <2>3, <2>4, <2>5, <2>6, <2>7 DEF UndoStep
<1>6. CASE \E v \in BOOLEAN : EndUndo(v)
  <2>1. PICK v \in BOOLEAN : EndUndo(v)
    BY <1>6
  <2>2. /\ tx'.changed = tx.changed /\ tx'.committed = tx.committed
        /\ pc' \in {"prepare", "undo_file", "ended"} /\ at' \in 0..Len(InstallOrder)
        /\ pc' = "prepare" => at' = 1
        /\ pc' # "ended" => status' = status
        /\ pc' = "ended" => status' \in {1, 70}
        /\ twice' \in BOOLEAN
    BY <2>1, TrapShape
  <2> QED
    BY <1>2, <1>3, <1>4, <2>2, ShapeStep DEF UndoLabels, ServiceLabels
<1>7. CASE /\ tx' = tx /\ status' = status /\ twice' = twice
           /\ pc' \in UndoLabels \cup {"prepare"} /\ at' \in 0..Len(InstallOrder)
           /\ pc' \in ServiceLabels => at' \in {1, 2}
  BY <1>1, <1>2, <1>3, <1>4, <1>7, ShapeStep DEF UndoLabels
<1> QED
  BY <1>5, <1>6, <1>7

(* The commit, the end after it, and a signal. *)
LEMMA ShapeEnd ==
    ASSUME ShapeInv, InstallerInv, InstallerInv', VerifyInstalledRuntime \/ CleanUp \/ Killed
    PROVE  ShapeInv'
<1>1. /\ tx \in TxStates /\ dirs' = dirs /\ db' = db /\ faults' = faults /\ twice' = twice
      /\ at' = 0 /\ pc' \in {"cleanup", "ended", "killed"} /\ at' \in 0..Len(InstallOrder)
  BY OrderLength DEF ShapeInv, InstallerTypeOK, VerifyInstalledRuntime, CleanUp, Killed, host,
                     Forward, history, Goto
<1>2. tx'.changed = tx.changed
  <2>1. CASE VerifyInstalledRuntime
    BY <1>1, <2>1 DEF VerifyInstalledRuntime, TxStates
  <2>2. CASE CleanUp
    BY <1>1, <2>2 DEF CleanUp, TxStates
  <2> QED
    BY <2>1, <2>2 DEF Killed
<1>3. /\ status' \in Statuses /\ (pc' = "ended" <=> status' # Running)
      /\ (status' = 0 => tx'.committed)
  <2>1. CASE VerifyInstalledRuntime \/ Killed
    <3>1. status' = status /\ status = Running /\ pc' # "ended"
      BY <2>1 DEF VerifyInstalledRuntime, Killed, Forward, Goto, ShapeInv
    <3> QED
      BY <3>1 DEF Statuses, Running
  <2>2. CASE CleanUp
    <3>1. tx'.committed /\ status' \in {0, 1} /\ pc' = "ended"
      <4>1. tx.committed
        BY <2>2, <1>1 DEF CleanUp, InstallerInv, CleansUpCommitted, ShapeInv
      <4> QED
        BY <1>1, <2>2, <4>1 DEF CleanUp, TxStates, Goto
    <3> QED
      BY <3>1 DEF Statuses, Running
  <2> QED
    BY <2>1, <2>2
<1>4. InstallerTypeOK'
  BY <1>1, <1>3 DEF InstallerInv, FilesInv, FilesTyped, UnitsTyped, InstallerTypeOK, ShapeInv
<1> QED
  BY <1>1, <1>2, <1>3, <1>4 DEF ShapeInv, EarlyLabels, ServiceLabels

LEMMA ShapeActions ==
    ASSUME ShapeInv, InstallerInv, InstallerInv', InstallStep \/ UndoStep \/ Begin \/ Killed
    PROVE  ShapeInv'
BY ShapeEarly, ShapeFiles, ShapeMiddle, ShapeUndo, ShapeEnd DEF InstallStep

-----------------------------------------------------------------------------
(* Directories and databases.                                              *)

(* The service at a position. *)
LEMMA ServiceAt ==
    ASSUME at \in {1, 2}
    PROVE  /\ Service[at] \in Services /\ Place(Service[at]) = at
           /\ \A s \in Services : Place(s) \in {1, 2} /\ (Place(s) = at => s = Service[at])
BY DEF Service, Services, Place

(* A trap that is not run again ends the script, which stays ended. *)
LEMMA TrapEnds ==
    ASSUME NEW v, EndUndo(v), ~twice'
    PROVE  /\ pc' = "ended" /\ status' = IF v THEN 1 ELSE 70
           /\ UNCHANGED <<failed, twice, before>> /\ ~twice
BY DEF EndUndo, Undo, Goto

(* Where the trap begins. *)
LEMMA TrapBegins ==
    ASSUME NEW sub, UndoIn(sub)
    PROVE  /\ \/ tx.recorded /\ pc' = "prepare" /\ at' = 1
              \/ ~tx.recorded /\ pc' = "undo_file"
           /\ UNCHANGED <<status, before, faults, twice>> /\ failed' = FALSE
BY DEF UndoIn, Undo, Goto, history

(* A step that leaves directories and databases alone. *)
LEMMA CreatedStep ==
    ASSUME CreatedInv, before' = before, dirs' = dirs, db' = db,
           tx'.dirsCreated = tx.dirsCreated, tx'.dbCreated = tx.dbCreated,
           pc \notin {"ended", "killed"},
           pc' \in EarlyLabels => pc \in EarlyLabels,
           pc' \in {"undo_reload", "restore"} <=> pc \in {"undo_reload", "restore"},
           pc' = "undo_directories" => pc = "undo_directories",
           \A s \in Services : DatabaseAhead(s)' => DatabaseAhead(s)
    PROVE  CreatedInv'
<1>1. /\ (pc \in EarlyLabels => dirs = before.dirs /\ tx.dirsCreated = {})'
      /\ (pc \in {"undo_reload", "restore"} => dirs = before.dirs)'
      /\ (pc \notin {"undo_reload", "restore", "ended", "killed"} =>
          dirs \ tx.dirsCreated = before.dirs)'
  BY DEF CreatedInv
<1>2. ASSUME NEW s \in Services
      PROVE  /\ (DatabaseAhead(s) => db[s] = before.db[s])'
             /\ (pc \in {"undo_directories", "undo_reload", "restore"} /\ before.db[s] = "absent"
                  => db[s] = "absent")'
             /\ (pc \notin {"ended", "killed"} /\ before.db[s] = "absent" =>
                  db[s] = "absent" \/ tx.dbCreated[s])'
  BY DEF CreatedInv
<1> QED
  BY <1>1, <1>2 DEF CreatedInv

(* Before and while the files are replaced. *)
LEMMA CreatedForward ==
    ASSUME ShapeInv, CreatedInv,
           \/ Begin \/ Validate \/ RecordServiceState \/ BackupFile \/ ReplaceFile
           \/ Sync \/ DaemonReload \/ CommandFails
    PROVE  CreatedInv'
<1>1. tx \in TxStates
  BY DEF ShapeInv, InstallerTypeOK
<1>2. UNCHANGED <<dirs, db, before>>
  BY DEF Begin, Validate, RecordServiceState, BackupFile, ReplaceFile, Sync, DaemonReload,
         CommandFails, UndoIn, Forward, history, host
<1>3. tx'.dirsCreated = tx.dirsCreated /\ tx'.dbCreated = tx.dbCreated
  <2>1. CASE RecordServiceState
    BY <1>1, <2>1 DEF RecordServiceState, TxStates
  <2>2. CASE BackupFile
    <3>1. tx' = tx \/ tx' = Listing(tx, InstallOrder[at], files[InstallOrder[at]])
      BY <2>2 DEF BackupFile, Listing
    <3> QED
      BY <1>1, <3>1 DEF TxStates, Listing
  <2>3. CASE ReplaceFile
    BY <1>1, <2>3 DEF ReplaceFile, TxStates
  <2> QED
    BY <2>1, <2>2, <2>3 DEF Begin, Validate, Sync, DaemonReload, CommandFails
<1>4. /\ pc \in FileLabels \cup {"verify"}
      /\ \/ pc' \in FileLabels /\ pc \in FileLabels /\ (pc' \in EarlyLabels => pc \in EarlyLabels)
         \/ pc' = "migrate" /\ pc \in FileLabels
         \/ pc' \in {"prepare", "undo_file"}
  BY TrapBegins DEF Begin, Validate, RecordServiceState, BackupFile, ReplaceFile, Sync,
         DaemonReload, CommandFails, Goto, NextFile, FileLabels, EarlyLabels
<1>5. /\ pc \notin {"ended", "killed"}
      /\ pc' \in EarlyLabels => pc \in EarlyLabels
      /\ pc' \in {"undo_reload", "restore"} <=> pc \in {"undo_reload", "restore"}
      /\ pc' = "undo_directories" => pc = "undo_directories"
  BY <1>4 DEF FileLabels, EarlyLabels
<1>6. ASSUME NEW s \in Services PROVE DatabaseAhead(s)' => DatabaseAhead(s)
  BY <1>4 DEF DatabaseAhead, FileLabels, EarlyLabels
<1> QED
  BY <1>2, <1>3, <1>5, <1>6, CreatedStep

(* What is created is noted. *)
LEMMA CreatedDirectories ==
    ASSUME ShapeInv, CreatedInv, EnsureDirectories
    PROVE  CreatedInv'
<1>1. tx \in TxStates /\ pc = "directories" /\ dirs = before.dirs
  BY DEF ShapeInv, InstallerTypeOK, EnsureDirectories, CreatedInv, EarlyLabels
<1>2. PICK made \in SUBSET (Directories \ dirs) :
          /\ dirs' = dirs \cup made /\ tx' = [tx EXCEPT !.dirsCreated = made]
          /\ UNCHANGED <<db, before>>
          /\ pc' \in {"backup", "prepare", "undo_file"}
  BY TrapBegins DEF EnsureDirectories, Goto, Forward, history
<1>3. tx'.dirsCreated = made /\ tx'.dbCreated = tx.dbCreated
  BY <1>1, <1>2 DEF TxStates
<1>4. dirs' \ made = before'.dirs
  BY <1>1, <1>2
<1>5. ASSUME NEW s \in Services
      PROVE  db[s] = before.db[s]
  BY <1>1 DEF CreatedInv, DatabaseAhead, FileLabels, EarlyLabels
<1> QED
  BY <1>2, <1>3, <1>4, <1>5 DEF CreatedInv, EarlyLabels

(* A database that is created is noted. *)
LEMMA CreatedMigrate ==
    ASSUME ShapeInv, CreatedInv, Migrate
    PROVE  CreatedInv'
<1> DEFINE s == Service[at]
<1>1. tx \in TxStates /\ pc = "migrate" /\ at \in {1, 2} /\ db \in [Services -> Contents]
  BY DEF ShapeInv, InstallerTypeOK, Migrate, ServiceLabels
<1>2. /\ tx' = [tx EXCEPT !.dbCreated[s] = (db[s] = "absent")]
      /\ db' = db \/ db' = [db EXCEPT ![s] = "new"]
      /\ UNCHANGED <<dirs, before>>
      /\ (pc' = "activate" /\ at' = at) \/ pc' \in {"prepare", "undo_file"}
  BY TrapBegins DEF Migrate, Goto, Forward, history
<1>3. tx.dbCreated \in [Services -> BOOLEAN] /\ tx'.dirsCreated = tx.dirsCreated
      /\ tx'.dbCreated = [tx.dbCreated EXCEPT ![s] = (db[s] = "absent")]
  BY <1>1, <1>2 DEF TxStates
<1>4. s \in Services /\ Place(s) = at
  BY <1>1, ServiceAt
<1>5. db[s] = before.db[s]
  BY <1>1, <1>4 DEF CreatedInv, DatabaseAhead
<1>6. dirs \ tx.dirsCreated = before.dirs
  BY <1>1 DEF CreatedInv
<1> HIDE DEF s
<1>7. ASSUME NEW t \in Services
      PROVE  /\ DatabaseAhead(t)' => (db[t] = before.db[t])'
             /\ before'.db[t] = "absent" => db'[t] = "absent" \/ tx'.dbCreated[t]
  <2>1. DatabaseAhead(t)' => DatabaseAhead(t) /\ t # s
    BY <1>1, <1>2, <1>4 DEF DatabaseAhead, FileLabels, EarlyLabels
  <2>2. t # s => db'[t] = db[t] /\ tx'.dbCreated[t] = tx.dbCreated[t]
    BY <1>1, <1>2, <1>3
  <2>3. tx'.dbCreated[s] = (db[s] = "absent")
    BY <1>3, <1>4
  <2> QED
    BY <1>1, <1>2, <1>5, <2>1, <2>2, <2>3 DEF CreatedInv
<1>8. pc' \in {"activate", "prepare", "undo_file"} /\ (dirs \ tx.dirsCreated = before.dirs)'
  BY <1>2, <1>3, <1>6
<1> QED
  BY <1>7, <1>8 DEF CreatedInv, EarlyLabels

(* The services are enabled and started. *)
LEMMA CreatedServices ==
    ASSUME ShapeInv, CreatedInv, Activate \/ StartService
    PROVE  CreatedInv'
<1>1. tx \in TxStates /\ pc \in {"activate", "start"} /\ at \in {1, 2}
  BY DEF ShapeInv, InstallerTypeOK, Activate, StartService, ServiceLabels
<1>2. UNCHANGED <<dirs, db, before>>
  BY TrapBegins DEF Activate, StartService, Command, Forward, history, host
<1>3. tx'.dirsCreated = tx.dirsCreated /\ tx'.dbCreated = tx.dbCreated
  <2>1. CASE Activate
    BY <1>1, <2>1 DEF Activate, TxStates
  <2>2. CASE StartService
    BY <1>1, <2>2 DEF StartService, TxStates
  <2> QED
    BY <2>1, <2>2
<1>4. \/ pc' = "start" /\ at' = at
      \/ pc' = "migrate" /\ at' = 2 /\ at = 1
      \/ pc' \in {"verify", "prepare", "undo_file"}
  <2>1. CASE Activate
    BY <1>1, <2>1, TrapBegins DEF Activate, NextService, Goto
  <2>2. CASE StartService
    BY <1>1, <2>2, TrapBegins DEF StartService, NextService, Goto
  <2> QED
    BY <2>1, <2>2
<1>5. ASSUME NEW s \in Services PROVE DatabaseAhead(s)' => DatabaseAhead(s)
  BY <1>1, <1>4, ServiceAt DEF DatabaseAhead, FileLabels, EarlyLabels, Place
<1>6. /\ pc \notin {"ended", "killed"}
      /\ pc' \in EarlyLabels => pc \in EarlyLabels
      /\ pc' \in {"undo_reload", "restore"} <=> pc \in {"undo_reload", "restore"}
      /\ pc' = "undo_directories" => pc = "undo_directories"
  BY <1>1, <1>4 DEF EarlyLabels
<1> QED
  BY <1>2, <1>3, <1>5, <1>6, CreatedStep

(* The undoing removes what was created. *)
LEMMA CreatedUndo ==
    ASSUME ShapeInv, CreatedInv, UndoStep, ~twice', pc' # "ended"
    PROVE  CreatedInv'
<1>1. ASSUME NEW v, EndUndo(v) PROVE FALSE
  BY <1>1, TrapEnds
<1>2. CASE PrepareServiceRollback
  <2>1. /\ UNCHANGED <<dirs, db, before, tx>> /\ pc = "prepare" /\ pc' \in {"prepare", "undo_file"}
    BY <1>1, <1>2 DEF PrepareServiceRollback, Command, Goto, Undoing
  <2>2. ASSUME NEW s \in Services PROVE DatabaseAhead(s)' => DatabaseAhead(s)
    BY <2>1 DEF DatabaseAhead, FileLabels, EarlyLabels
  <2> QED
    BY <2>1, <2>2, CreatedStep DEF EarlyLabels
<1>3. CASE RollbackFile \/ RollbackFilesDone
  <2>1. /\ UNCHANGED <<dirs, db, before, tx>> /\ pc = "undo_file"
        /\ pc' \in {"undo_file", "undo_database"}
    BY <1>1, <1>3 DEF RollbackFile, RollbackFilesDone, Goto, Undoing, host
  <2>2. ASSUME NEW s \in Services PROVE DatabaseAhead(s)' => DatabaseAhead(s)
    BY <2>1 DEF DatabaseAhead, FileLabels, EarlyLabels
  <2> QED
    BY <2>1, <2>2, CreatedStep DEF EarlyLabels
<1>4. CASE RemoveCreatedDatabase
  <2>1. /\ db' = [s \in Services |-> IF s \in CreatedDatabases THEN "absent" ELSE db[s]]
        /\ pc = "undo_database" /\ pc' = "undo_directories" /\ UNCHANGED <<dirs, tx, before>>
    BY <1>1, <1>4 DEF RemoveCreatedDatabase, Goto, Undoing
  <2>2. ASSUME NEW s \in Services
        PROVE  ~DatabaseAhead(s)' /\ (before.db[s] = "absent" => db'[s] = "absent")
    BY <2>1 DEF CreatedInv, CreatedDatabases, DatabaseAhead, FileLabels, EarlyLabels
  <2>3. dirs \ tx.dirsCreated = before.dirs
    BY <2>1 DEF CreatedInv
  <2> QED
    BY <2>1, <2>2, <2>3 DEF CreatedInv, EarlyLabels
<1>5. CASE RemoveCreatedDirectories
  <2>1. /\ dirs' = dirs \ tx.dirsCreated /\ pc = "undo_directories" /\ pc' = "undo_reload"
        /\ UNCHANGED <<db, tx, before>>
    BY <1>1, <1>5 DEF RemoveCreatedDirectories, Goto, Undoing
  <2>2. ASSUME NEW s \in Services
        PROVE  ~DatabaseAhead(s)' /\ (before.db[s] = "absent" => db[s] = "absent")
    BY <2>1 DEF CreatedInv, DatabaseAhead, FileLabels, EarlyLabels
  <2>3. dirs \ tx.dirsCreated = before.dirs
    BY <2>1 DEF CreatedInv
  <2> QED
    BY <2>1, <2>2, <2>3 DEF CreatedInv, EarlyLabels
<1>6. CASE UndoReload \/ RestoreServiceState
  <2>1. /\ UNCHANGED <<dirs, db, before, tx>> /\ pc \in {"undo_reload", "restore"}
        /\ pc' = "restore"
    BY <1>1, <1>6 DEF UndoReload, RestoreServiceState, Command, Goto, Undoing
  <2>2. ASSUME NEW s \in Services PROVE DatabaseAhead(s)' => DatabaseAhead(s)
    BY <2>1 DEF DatabaseAhead, FileLabels, EarlyLabels
  <2> QED
    BY <2>1, <2>2, CreatedStep DEF EarlyLabels
<1> QED
  BY <1>2, <1>3, <1>4, <1>5, <1>6 DEF UndoStep

-----------------------------------------------------------------------------
(* The services.                                                           *)

UnrecordedLabels == {"idle", "validate", "record"}
MaybeLabels == {"undo_file", "undo_database", "undo_directories", "ended", "killed"}

(* A step that leaves the services alone. *)
LEMMA ServiceStep ==
    ASSUME ServiceInv, UNCHANGED <<unit, before>>,
           tx'.recorded = tx.recorded, tx'.prev = tx.prev,
           \A s \in Services : tx.filesChanged[s] => tx'.filesChanged[s],
           pc' \in UnrecordedLabels => ~tx.recorded,
           pc' \notin UnrecordedLabels \cup MaybeLabels => tx.recorded,
           tx.recorded => \A s \in Services : Prepared(s)' <=> Prepared(s),
           pc' \notin {"start", "restore"}
    PROVE  ServiceInv'
<1>1. /\ (~tx.recorded => unit = before.unit)'
      /\ (pc \in {"idle", "validate", "record"} => ~tx.recorded)'
      /\ (pc \notin {"idle", "validate", "record", "undo_file", "undo_database",
                    "undo_directories", "ended", "killed"} => tx.recorded)'
      /\ (tx.recorded => RecordTrue)'
      /\ (pc = "start" => ~tx.prev[Service[at]].unit)'
  BY DEF ServiceInv, RecordTrue, UnrecordedLabels, MaybeLabels
<1>2. ASSUME NEW s \in Services
      PROVE  /\ (~unit[s].active => unit[s].code = "absent")'
             /\ (tx.recorded /\ ~Prepared(s) /\ tx.prev[s].unit
                   /\ ~(tx.prev[s].active /\ tx.filesChanged[s]) => SameProcess(s))'
             /\ (tx.recorded /\ Prepared(s) /\ unit[s].active => SameProcess(s))'
             /\ (tx.recorded /\ Prepared(s) /\ ~tx.prev[s].unit =>
                   ~unit[s].active /\ ~unit[s].enabled)'
  <2>1. SameProcess(s)' <=> SameProcess(s)
    BY DEF SameProcess
  <2>2. tx.recorded => (Prepared(s)' <=> Prepared(s))
    OBVIOUS
  <2>3. tx.filesChanged[s] => tx'.filesChanged[s]
    OBVIOUS
  <2> QED
    BY <2>1, <2>2, <2>3 DEF ServiceInv
<1> QED
  BY <1>1, <1>2 DEF ServiceInv

(* The script up to the reload, and a command that fails. *)
LEMMA ServiceForward ==
    ASSUME ShapeInv, ServiceInv,
           \/ Begin \/ Validate \/ EnsureDirectories \/ BackupFile \/ ReplaceFile
           \/ Sync \/ Migrate \/ CommandFails
    PROVE  ServiceInv'
<1>1. tx \in TxStates /\ (pc \in ServiceLabels => at \in {1, 2})
  BY DEF ShapeInv, InstallerTypeOK
<1>2. UNCHANGED <<unit, before>>
  BY TrapBegins DEF Begin, Validate, EnsureDirectories, BackupFile, ReplaceFile, Sync, Migrate,
         CommandFails, Forward, history, host
<1>3. /\ tx'.recorded = tx.recorded /\ tx'.prev = tx.prev
      /\ \A s \in Services : tx.filesChanged[s] => tx'.filesChanged[s]
  <2>1. CASE EnsureDirectories
    BY <1>1, <2>1 DEF EnsureDirectories, TxStates
  <2>2. CASE BackupFile
    <3>1. tx' = tx \/ tx' = Listing(tx, InstallOrder[at], files[InstallOrder[at]])
      BY <2>2 DEF BackupFile, Listing
    <3> QED
      BY <1>1, <3>1 DEF TxStates, Listing
  <2>3. CASE ReplaceFile
    BY <1>1, <2>3 DEF ReplaceFile, TxStates
  <2>4. CASE Migrate
    BY <1>1, <2>4 DEF Migrate, TxStates
  <2> QED
    BY <2>1, <2>2, <2>3, <2>4 DEF Begin, Validate, Sync, CommandFails
<1>4. /\ pc \notin UndoLabels \cup {"prepare", "ended", "killed"}
      /\ \/ /\ pc' \notin UndoLabels \cup {"prepare", "start", "ended", "killed"}
            /\ pc' \in UnrecordedLabels <=> pc \in UnrecordedLabels
         \/ tx.recorded /\ pc' = "prepare" /\ at' = 1
         \/ ~tx.recorded /\ pc' = "undo_file"
  BY TrapBegins DEF Begin, Validate, EnsureDirectories, BackupFile, ReplaceFile, Sync, Migrate,
         CommandFails, NextFile, Goto, UndoLabels, UnrecordedLabels
<1>5. /\ pc' \in UnrecordedLabels => ~tx.recorded
      /\ pc' \notin UnrecordedLabels \cup MaybeLabels => tx.recorded
      /\ pc' \notin {"start", "restore"}
  BY <1>4 DEF ServiceInv, UnrecordedLabels, MaybeLabels, UndoLabels
<1>6. tx.recorded => \A s \in Services : Prepared(s)' <=> Prepared(s)
  BY <1>4 DEF Prepared, UndoLabels, Place
<1> QED
  BY <1>2, <1>3, <1>5, <1>6, ServiceStep

(* What is recorded is what was there. *)
LEMMA ServiceRecord ==
    ASSUME ShapeInv, InstallerInv, ServiceInv, RecordServiceState, ~twice
    PROVE  ServiceInv'
<1>1. tx \in TxStates /\ pc = "record" /\ tx.changed = <<>> /\ ~tx.committed
  BY DEF ShapeInv, InstallerTypeOK, RecordServiceState, EarlyLabels
<1>2. \A f \in Files : files[f] = before.files[f]
  BY <1>1 DEF InstallerInv, FilesInv, FilesAt, UnlistedUntouched
<1>3. unit = before.unit
  BY <1>1 DEF ServiceInv
<1>4. /\ tx' = [tx EXCEPT !.recorded = TRUE,
                !.prev = [s \in Services |-> [unit |-> files[UnitFile(s)] # "absent",
                                              enabled |-> unit[s].enabled,
                                              active |-> unit[s].active]]]
      /\ UNCHANGED <<unit, before>> /\ pc' = "directories"
  BY DEF RecordServiceState, Goto, host, Forward, history
<1>5. /\ tx'.recorded
      /\ tx'.prev = [s \in Services |-> [unit |-> files[UnitFile(s)] # "absent",
                                         enabled |-> unit[s].enabled,
                                         active |-> unit[s].active]]
  BY <1>1, <1>4 DEF TxStates
<1>6. \A s \in Services : UnitFile(s) \in Files
  BY PackagesAreFiles
<1>7. RecordTrue'
  BY <1>2, <1>3, <1>4, <1>5, <1>6 DEF RecordTrue
<1>8. \A s \in Services : ~Prepared(s)' /\ SameProcess(s)'
  BY <1>3, <1>4 DEF Prepared, UndoLabels, SameProcess
<1>9. \A s \in Services : ~unit[s].active => unit[s].code = "absent"
  BY DEF ServiceInv
<1> QED
  BY <1>4, <1>5, <1>7, <1>8, <1>9 DEF ServiceInv

(* A step of the forward part that changes units: what it does to each. *)
LEMMA UnitStep ==
    ASSUME ServiceInv, UNCHANGED before, tx.recorded,
           tx'.recorded = tx.recorded, tx'.prev = tx.prev, tx'.filesChanged = tx.filesChanged,
           pc' \notin UnrecordedLabels \cup MaybeLabels \cup UndoLabels,
           pc' = "prepare" => at' = 1,
           pc' = "start" => ~tx.prev[Service[at']].unit,
           \A s \in Services :
              /\ ~unit'[s].active => unit'[s].code = "absent"
              /\ tx.prev[s].unit /\ ~(tx.prev[s].active /\ tx.filesChanged[s]) =>
                    SameProcess(s)'
    PROVE  ServiceInv'
<1>1. \A s \in Services : ~Prepared(s)'
  BY DEF Prepared, Place
<1>2. RecordTrue'
  BY DEF ServiceInv, RecordTrue
<1>3. pc' # "restore" /\ (pc = "start" => ~tx.prev[Service[at]].unit)'
  BY DEF UndoLabels
<1> QED
  BY <1>1, <1>2, <1>3 DEF ServiceInv, UnrecordedLabels, MaybeLabels

(* What systemctl does to the parts of a service. *)
LEMMA CommandFields ==
    ASSUME NEW u \in UnitStates, NEW s
    PROVE  /\ /\ Enabled(u).enabled = TRUE /\ Enabled(u).active = u.active
              /\ Enabled(u).code = u.code /\ Enabled(u).loaded = u.loaded
           /\ /\ Disabled(u).enabled = FALSE /\ Disabled(u).active = u.active
              /\ Disabled(u).code = u.code /\ Disabled(u).loaded = u.loaded
           /\ /\ Stopped(u).enabled = u.enabled /\ Stopped(u).active = FALSE
              /\ Stopped(u).code = "absent" /\ Stopped(u).loaded = u.loaded
           /\ /\ Restarted(u, s).enabled = u.enabled /\ Restarted(u, s).active = TRUE
              /\ Restarted(u, s).code = files[Package(s)] /\ Restarted(u, s).loaded = u.loaded
           /\ /\ Started(u, s).enabled = u.enabled /\ Started(u, s).active = TRUE
              /\ Started(u, s).loaded = u.loaded
              /\ Started(u, s).code = IF u.active THEN u.code ELSE files[Package(s)]
BY DEF UnitStates, Enabled, Disabled, Stopped, Restarted, Started

(* A command concerns one service. *)
LEMMA CommandAt ==
    ASSUME unit \in [Services -> UnitStates], NEW s \in Services, NEW u, Command(s, u)
    PROVE  unit'[s] = u /\ \A t \in Services : t # s => unit'[t] = unit[t]
BY DEF Command

(* The parts of services after daemon-reload. *)
LEMMA ReloadFields ==
    ASSUME unit \in [Services -> UnitStates], NEW s \in Services
    PROVE  /\ Reloaded[s].enabled = unit[s].enabled /\ Reloaded[s].active = unit[s].active
           /\ Reloaded[s].code = unit[s].code /\ Reloaded[s].loaded = files[UnitFile(s)]
<1>1. unit[s] \in UnitStates /\ Reloaded[s] = [unit[s] EXCEPT !.loaded = files[UnitFile(s)]]
  BY DEF Reloaded
<1> QED
  BY <1>1 DEF UnitStates

(* Nothing of a process changes with the reload. *)
LEMMA ServiceReload ==
    ASSUME ShapeInv, ServiceInv, DaemonReload
    PROVE  ServiceInv'
<1>1. /\ unit \in [Services -> UnitStates] /\ pc = "reload" /\ pc' = "migrate"
      /\ UNCHANGED <<before, tx>> /\ unit' \in {unit, Reloaded}
  BY DEF ShapeInv, InstallerTypeOK, DaemonReload, Goto, Forward, history
<1>2. tx.recorded
  BY <1>1 DEF ServiceInv
<1>3. ASSUME NEW s \in Services
      PROVE  unit'[s].active = unit[s].active /\ unit'[s].code = unit[s].code
  BY <1>1, ReloadFields
<1>4. ASSUME NEW s \in Services
      PROVE  /\ ~unit'[s].active => unit'[s].code = "absent"
             /\ tx.prev[s].unit /\ ~(tx.prev[s].active /\ tx.filesChanged[s]) => SameProcess(s)'
  <2>1. ~Prepared(s)
    BY <1>1 DEF Prepared, UndoLabels
  <2> QED
    BY <1>1, <1>2, <1>3, <2>1 DEF ServiceInv, SameProcess
<1> QED
  BY <1>1, <1>2, <1>4, UnitStep DEF UnrecordedLabels, MaybeLabels, UndoLabels

(* A service without a unit before is not one to leave as it was, nor is   *)
(* an active one whose files have changed.                                 *)
LEMMA ServiceStarts ==
    ASSUME ShapeInv, ServiceInv, Activate \/ StartService
    PROVE  ServiceInv'
<1> DEFINE s == Service[at]
<1>1. /\ tx \in TxStates /\ unit \in [Services -> UnitStates] /\ at \in {1, 2}
      /\ pc \in {"activate", "start"}
  BY DEF ShapeInv, InstallerTypeOK, Activate, StartService, ServiceLabels
<1>2. tx.recorded /\ s \in Services
  BY <1>1, ServiceAt DEF ServiceInv
<1>3. before' = before /\ tx'.recorded = tx.recorded /\ tx'.prev = tx.prev
      /\ tx'.filesChanged = tx.filesChanged
  <2>1. CASE Activate
    <3>1. before' = before
      BY <2>1, TrapBegins DEF Activate, Forward, history
    <3>2. tx' = tx \/ tx' = [tx EXCEPT !.enableAttempted[s] = TRUE]
      BY <2>1 DEF Activate
    <3> QED
      BY <1>1, <3>1, <3>2 DEF TxStates
  <2>2. CASE StartService
    <3>1. before' = before
      BY <2>2, TrapBegins DEF StartService, Forward, history
    <3>2. tx' = [tx EXCEPT !.startAttempted[s] = TRUE]
      BY <2>2 DEF StartService
    <3> QED
      BY <1>1, <3>1, <3>2 DEF TxStates
  <2> QED
    BY <2>1, <2>2
<1>4. /\ pc' \in {"start", "migrate", "verify", "prepare"}
      /\ pc' = "prepare" => at' = 1
      /\ pc' = "start" => ~tx.prev[Service[at']].unit
  <2>1. CASE Activate
    BY <1>1, <1>2, <2>1, TrapBegins DEF Activate, NextService, Goto
  <2>2. CASE StartService
    BY <1>1, <1>2, <2>2, TrapBegins DEF StartService, NextService, Goto
  <2> QED
    BY <2>1, <2>2
<1>5. \/ unit' = unit
      \/ /\ ~tx.prev[s].unit \/ (tx.prev[s].active /\ tx.filesChanged[s])
         /\ \E u \in {unit[s], Enabled(unit[s]), Stopped(unit[s]), Restarted(unit[s], s),
                      Started(unit[s], s)} : Command(s, u)
  <2>1. CASE Activate
    BY <2>1 DEF Activate, host
  <2>2. CASE StartService
    BY <2>2 DEF StartService, ServiceInv
  <2> QED
    BY <2>1, <2>2
<1>6. \A t \in Services : ~Prepared(t)
  BY <1>1 DEF Prepared, UndoLabels
<1> HIDE DEF s
<1>7. CASE unit' = unit
  <2>1. ASSUME NEW t \in Services
        PROVE  /\ ~unit'[t].active => unit'[t].code = "absent"
               /\ tx.prev[t].unit /\ ~(tx.prev[t].active /\ tx.filesChanged[t]) => SameProcess(t)'
    BY <1>2, <1>3, <1>6, <1>7 DEF ServiceInv, SameProcess
  <2> QED
    BY <1>2, <1>3, <1>4, <2>1, UnitStep DEF UnrecordedLabels, MaybeLabels, UndoLabels
<1>8. ASSUME ~tx.prev[s].unit \/ (tx.prev[s].active /\ tx.filesChanged[s]),
             NEW u \in {unit[s], Enabled(unit[s]), Stopped(unit[s]), Restarted(unit[s], s),
                        Started(unit[s], s)}, Command(s, u)
      PROVE  ServiceInv'
  <2>1. unit'[s] = u /\ \A t \in Services : t # s => unit'[t] = unit[t]
    BY <1>1, <1>2, <1>8, CommandAt
  <2>2. ~u.active => u.code = "absent"
    <3>1. unit[s] \in UnitStates /\ (~unit[s].active => unit[s].code = "absent")
      BY <1>1, <1>2 DEF ServiceInv
    <3>2. CASE u = Enabled(unit[s])
      BY <3>1, <3>2, CommandFields
    <3>3. CASE u = Stopped(unit[s])
      BY <3>1, <3>3, CommandFields
    <3>4. CASE u = Restarted(unit[s], s)
      BY <3>1, <3>4, CommandFields
    <3>5. CASE u = Started(unit[s], s)
      BY <3>1, <3>5, CommandFields
    <3> QED
      BY <1>8, <3>1, <3>2, <3>3, <3>4, <3>5
  <2>3. ASSUME NEW t \in Services
        PROVE  /\ ~unit'[t].active => unit'[t].code = "absent"
               /\ tx.prev[t].unit /\ ~(tx.prev[t].active /\ tx.filesChanged[t]) => SameProcess(t)'
    <3>1. CASE t = s
      BY <1>8, <2>1, <2>2, <3>1
    <3>2. CASE t # s
      BY <1>2, <1>3, <1>6, <2>1, <3>2 DEF ServiceInv, SameProcess
    <3> QED
      BY <3>1, <3>2
  <2> QED
    BY <1>2, <1>3, <1>4, <2>3, UnitStep DEF UnrecordedLabels, MaybeLabels, UndoLabels
<1> QED
  BY <1>5, <1>7, <1>8

(* The choices of prepare_service_rollback for service s. *)
FirstUnit(s) == IF PreparesStop(s) THEN Stopped(unit[s]) ELSE unit[s]
SecondUnit(s) == IF PreparesDisable(s) THEN Disabled(FirstUnit(s)) ELSE FirstUnit(s)
PreparedUnits(s) == {SecondUnit(s), FirstUnit(s), unit[s],
                     [unit[s] EXCEPT !.enabled = SecondUnit(s).enabled]}
StillOn(s, u) ==
    (PreparesStop(s) /\ u.active) \/ (~tx.prev[s].unit /\ (u.active \/ u.enabled))

LEMMA PrepareUnfolds ==
    ASSUME PrepareServiceRollback
    PROVE  \E u \in PreparedUnits(Service[at]) :
              /\ IF u = SecondUnit(Service[at]) THEN NoFault ELSE Fault
              /\ Command(Service[at], u)
              /\ IF StillOn(Service[at], u) THEN EndUndo(FALSE)
                 ELSE /\ IF at = 1 THEN Goto("prepare", 2) ELSE Goto("undo_file", Len(tx.changed))
                      /\ UNCHANGED tx /\ Undoing
BY Zenon DEF PrepareServiceRollback, PreparedUnits, FirstUnit, SecondUnit, StillOn

(* A service that is not to be stopped is left as it was, and stop and     *)
(* disable do what they are for.                                           *)
LEMMA PreparedFields ==
    ASSUME NEW s \in Services, unit[s] \in UnitStates, tx.prev[s].unit \in BOOLEAN,
           ~unit[s].active => unit[s].code = "absent"
    PROVE  /\ ~StillOn(s, SecondUnit(s))
           /\ \A u \in PreparedUnits(s) :
                 /\ ~u.active => u.code = "absent"
                 /\ u.active => u.code = unit[s].code
                 /\ u.loaded = unit[s].loaded
                 /\ tx.prev[s].unit /\ ~PreparesStop(s) => u = unit[s]
<1>1. FirstUnit(s) \in UnitStates
  BY DEF FirstUnit, Stopped, UnitStates, Contents
<1>2. /\ FirstUnit(s).enabled = unit[s].enabled /\ FirstUnit(s).loaded = unit[s].loaded
      /\ ~FirstUnit(s).active => FirstUnit(s).code = "absent"
      /\ PreparesStop(s) => ~FirstUnit(s).active
      /\ ~PreparesStop(s) => FirstUnit(s) = unit[s]
  BY CommandFields, ZenonT(40) DEF FirstUnit
<1>3. /\ SecondUnit(s).active = FirstUnit(s).active /\ SecondUnit(s).code = FirstUnit(s).code
      /\ SecondUnit(s).loaded = FirstUnit(s).loaded
      /\ PreparesDisable(s) => ~SecondUnit(s).enabled
      /\ ~PreparesDisable(s) => SecondUnit(s) = FirstUnit(s)
  BY <1>1, CommandFields, ZenonT(40) DEF SecondUnit
<1>4. ~StillOn(s, SecondUnit(s))
  <2>1. ASSUME ~tx.prev[s].unit PROVE ~SecondUnit(s).active /\ ~SecondUnit(s).enabled
    BY <1>2, <1>3, <2>1 DEF PreparesStop, PreparesDisable
  <2> QED
    BY <1>2, <1>3, <2>1 DEF StillOn
<1>5. ASSUME NEW u \in PreparedUnits(s)
      PROVE  /\ ~u.active => u.code = "absent"
             /\ u.active => u.code = unit[s].code
             /\ u.loaded = unit[s].loaded
             /\ tx.prev[s].unit /\ ~PreparesStop(s) => u = unit[s]
  <2>1. tx.prev[s].unit => SecondUnit(s) = FirstUnit(s)
    BY <1>3 DEF PreparesDisable
  <2>2. CASE u = [unit[s] EXCEPT !.enabled = SecondUnit(s).enabled]
    <3>1. u.active = unit[s].active /\ u.code = unit[s].code /\ u.loaded = unit[s].loaded
      BY <2>2 DEF UnitStates
    <3>2. tx.prev[s].unit /\ ~PreparesStop(s) => u = unit[s]
      BY <1>2, <2>1, <2>2 DEF UnitStates
    <3> QED
      BY <3>1, <3>2
  <2>3. CASE u \in {SecondUnit(s), FirstUnit(s), unit[s]}
    BY <1>2, <1>3, <2>1, <2>3
  <2> QED
    BY <2>2, <2>3 DEF PreparedUnits
<1> QED
  BY <1>4, <1>5

(* A service that is not stopped when its files are put back is the old    *)
(* one.                                                                    *)
LEMMA ServicePrepare ==
    ASSUME ShapeInv, ServiceInv, PrepareServiceRollback, ~twice', pc' # "ended"
    PROVE  ServiceInv'
<1>1. /\ tx \in TxStates /\ unit \in [Services -> UnitStates] /\ at \in {1, 2} /\ pc = "prepare"
  BY DEF ShapeInv, InstallerTypeOK, PrepareServiceRollback, ServiceLabels
<1> PICK s \in Services : s = Service[at] /\ Place(s) = at
  BY <1>1, ServiceAt
<1>2. tx.recorded /\ s \in Services /\ s = Service[at] /\ Place(s) = at
  BY <1>1 DEF ServiceInv
<1>3. PICK u \in PreparedUnits(s) :
          /\ Command(s, u) /\ ~StillOn(s, u) /\ UNCHANGED <<tx, before>>
          /\ IF at = 1 THEN pc' = "prepare" /\ at' = 2 ELSE pc' = "undo_file"
  BY <1>2, PrepareUnfolds, TrapEnds DEF Undoing, Goto
<1>4. unit'[s] = u /\ \A t \in Services : t # s => unit'[t] = unit[t]
  BY <1>1, <1>2, <1>3, CommandAt
<1>5. /\ tx.prev[s].unit \in BOOLEAN /\ tx.prev[s].active \in BOOLEAN
      /\ tx.filesChanged[s] \in BOOLEAN /\ unit[s] \in UnitStates
  BY <1>1, <1>2 DEF TxStates
<1>6. /\ ~u.active => u.code = "absent"
      /\ tx.prev[s].unit /\ ~PreparesStop(s) => u = unit[s]
  BY <1>2, <1>3, <1>5, PreparedFields DEF ServiceInv
<1>7. ~Prepared(s)
  BY <1>1, <1>2 DEF Prepared, UndoLabels
<1>8. ASSUME u.active PROVE SameProcess(s)'
  <2>1. tx.prev[s].unit /\ ~PreparesStop(s)
    BY <1>3, <1>8 DEF StillOn
  <2>2. SameProcess(s)
    BY <1>2, <1>7, <2>1 DEF ServiceInv, PreparesStop
  <2> QED
    BY <1>3, <1>4, <1>6, <2>1, <2>2 DEF SameProcess
<1>9. ~tx.prev[s].unit => ~u.active /\ ~u.enabled
  BY <1>3 DEF StillOn
<1>10. Prepared(s)' /\ \A t \in Services : t # s => (Prepared(t)' <=> Prepared(t))
  BY <1>1, <1>2, <1>3, ServiceAt DEF Prepared, UndoLabels, Place, Services
<1>11. ASSUME NEW t \in Services
       PROVE  /\ (~unit[t].active => unit[t].code = "absent")'
              /\ (tx.recorded /\ ~Prepared(t) /\ tx.prev[t].unit
                   /\ ~(tx.prev[t].active /\ tx.filesChanged[t]) => SameProcess(t))'
              /\ (tx.recorded /\ Prepared(t) /\ unit[t].active => SameProcess(t))'
              /\ (tx.recorded /\ Prepared(t) /\ ~tx.prev[t].unit =>
                   ~unit[t].active /\ ~unit[t].enabled)'
  <2>1. CASE t = s
    BY <1>3, <1>4, <1>6, <1>8, <1>9, <1>10, <2>1
  <2>2. CASE t # s
    <3>1. unit'[t] = unit[t] /\ (SameProcess(t)' <=> SameProcess(t))
      BY <1>3, <1>4, <2>2 DEF SameProcess
    <3> QED
      BY <1>3, <1>10, <2>2, <3>1 DEF ServiceInv
  <2> QED
    BY <2>1, <2>2
<1>12. RecordTrue'
  BY <1>2, <1>3 DEF ServiceInv, RecordTrue
<1> QED
  BY <1>2, <1>3, <1>11, <1>12 DEF ServiceInv

(* Files, databases and directories are put back beside them. *)
LEMMA ServiceUndo ==
    ASSUME ShapeInv, ServiceInv, ~twice', pc' # "ended",
           \/ RollbackFile \/ RollbackFilesDone \/ RemoveCreatedDatabase
           \/ RemoveCreatedDirectories
    PROVE  ServiceInv'
<1>1. ASSUME NEW v, EndUndo(v) PROVE FALSE
  BY <1>1, TrapEnds
<1>2. /\ UNCHANGED <<unit, before, tx>>
      /\ pc \in {"undo_file", "undo_database", "undo_directories"}
      /\ \/ pc' \in {"undo_file", "undo_database", "undo_directories"}
         \/ pc' = "undo_reload" /\ tx.recorded
  BY <1>1 DEF RollbackFile, RollbackFilesDone, RemoveCreatedDatabase, RemoveCreatedDirectories,
              Undoing, Goto, host
<1>3. \A s \in Services : Prepared(s)' /\ Prepared(s)
  BY <1>2 DEF Prepared, UndoLabels
<1> QED
  BY <1>2, <1>3, ServiceStep DEF UnrecordedLabels, MaybeLabels

(* What the host was. *)
LEMMA HostBefore ==
    ASSUME before \in Hosts, NEW s \in Services
    PROVE  /\ before.unit \in [Services -> UnitStates] /\ before.unit[s] \in UnitStates
           /\ before.unit[s].loaded = before.files[UnitFile(s)]
           /\ before.files[UnitFile(s)] = "absent" =>
                 ~before.unit[s].enabled /\ ~before.unit[s].active
           /\ before.unit[s].code =
                 IF before.unit[s].active THEN before.files[Package(s)] ELSE "absent"
<1>1. before \in HostStates /\ SettledHost(before)
  BY HostsAssumption
<1> QED
  BY <1>1 DEF HostStates, SettledHost

(* When the units are read again the files are the old ones. *)
LEMMA FilesPutBack ==
    ASSUME ShapeInv, InstallerInv, pc \in PutBackLabels, ~twice
    PROVE  files = before.files
BY DEF InstallerInv, FilesInv, FilesAt, ShapeInv, PutBackLabels

LEMMA ServiceUndoReload ==
    ASSUME ShapeInv, InstallerInv, ServiceInv, before \in Hosts, UndoReload, ~twice,
           ~twice', pc' # "ended"
    PROVE  ServiceInv'
<1>1. /\ unit \in [Services -> UnitStates] /\ pc = "undo_reload" /\ pc' = "restore" /\ at' = 1
      /\ UNCHANGED <<before, tx>> /\ unit' = Reloaded
  BY TrapEnds DEF ShapeInv, InstallerTypeOK, UndoReload, Goto, Undoing
<1>2. tx.recorded /\ files = before.files
  BY <1>1, FilesPutBack DEF ServiceInv, PutBackLabels
<1>3. ASSUME NEW s \in Services
      PROVE  /\ unit'[s].active = unit[s].active /\ unit'[s].code = unit[s].code
             /\ unit'[s].enabled = unit[s].enabled /\ unit'[s].loaded = before.unit[s].loaded
             /\ SameProcess(s)' <=> SameProcess(s)
  BY <1>1, <1>2, ReloadFields, HostBefore DEF SameProcess
<1>4. ASSUME NEW s \in Services
      PROVE  Prepared(s) /\ Prepared(s)' /\ ~(at' > Place(s))
  BY <1>1 DEF Prepared, UndoLabels, Place
<1>5. ASSUME NEW s \in Services
      PROVE  /\ (~unit[s].active => unit[s].code = "absent")'
             /\ (tx.recorded /\ Prepared(s) /\ unit[s].active => SameProcess(s))'
             /\ (tx.recorded /\ Prepared(s) /\ ~tx.prev[s].unit =>
                   ~unit[s].active /\ ~unit[s].enabled)'
  BY <1>1, <1>2, <1>3, <1>4 DEF ServiceInv
<1>6. RecordTrue'
  BY <1>1, <1>2 DEF ServiceInv, RecordTrue
<1> QED
  BY <1>1, <1>2, <1>3, <1>4, <1>5, <1>6 DEF ServiceInv

(* The choices of the restoration of service s. *)
WantedUnit(s) == IF tx.prev[s].unit THEN RestoredUnit(s) ELSE unit[s]
RestoredUnits(s) ==
    {WantedUnit(s), [WantedUnit(s) EXCEPT !.enabled = unit[s].enabled],
     [WantedUnit(s) EXCEPT !.active = unit[s].active, !.code = unit[s].code]}

LEMMA RestoreUnfolds ==
    ASSUME RestoreServiceState
    PROVE  \E u \in RestoredUnits(Service[at]) :
              /\ IF u = WantedUnit(Service[at]) THEN NoFault ELSE Fault
              /\ Command(Service[at], u)
              /\ IF ~VerifiedUnit(Service[at], u) THEN EndUndo(FALSE)
                 ELSE IF at = 1 THEN Goto("restore", 2) /\ UNCHANGED tx /\ Undoing
                 ELSE EndUndo(TRUE)
BY Zenon DEF RestoreServiceState, RestoredUnits, WantedUnit

(* What was recorded of a service. *)
LEMMA RecordFields ==
    ASSUME RecordTrue, NEW s \in Services
    PROVE  /\ tx.prev[s].unit <=> before.files[UnitFile(s)] # "absent"
           /\ tx.prev[s].unit \in BOOLEAN
           /\ tx.prev[s].enabled = before.unit[s].enabled
           /\ tx.prev[s].active = before.unit[s].active
<1> DEFINE there == before.files[UnitFile(s)] # "absent"
<1>1. tx.prev[s] = [unit |-> there,
                    enabled |-> before.unit[s].enabled,
                    active |-> before.unit[s].active]
  BY Zenon DEF RecordTrue
<1>2. there \in BOOLEAN
  OBVIOUS
<1> HIDE DEF there
<1>3. /\ tx.prev[s].unit = there /\ tx.prev[s].enabled = before.unit[s].enabled
      /\ tx.prev[s].active = before.unit[s].active
  BY <1>1
<1>4. there <=> before.files[UnitFile(s)] # "absent"
  BY DEF there
<1> QED
  BY <1>2, <1>3, <1>4, Zenon

(* The restoration, when nothing fails, is verified, and what is verified  *)
(* is the service as it was, down to the code its process runs.            *)
LEMMA RestoredFields ==
    ASSUME before \in Hosts, files = before.files, RecordTrue, NEW s \in Services,
           unit[s] \in UnitStates, unit[s].loaded = before.unit[s].loaded,
           ~unit[s].active => unit[s].code = "absent",
           unit[s].active => SameProcess(s),
           ~tx.prev[s].unit => ~unit[s].active /\ ~unit[s].enabled
    PROVE  /\ VerifiedUnit(s, WantedUnit(s))
           /\ \A u \in RestoredUnits(s) : /\ u.loaded = unit[s].loaded
                                          /\ VerifiedUnit(s, u) => u = before.unit[s]
<1> DEFINE w == WantedUnit(s)
<1>1. /\ before.unit[s] \in UnitStates
      /\ before.unit[s].loaded = before.files[UnitFile(s)]
      /\ before.files[UnitFile(s)] = "absent" =>
            ~before.unit[s].enabled /\ ~before.unit[s].active
      /\ before.unit[s].code =
            IF before.unit[s].active THEN before.files[Package(s)] ELSE "absent"
  BY HostBefore
<1>2. /\ tx.prev[s].unit <=> before.files[UnitFile(s)] # "absent"
      /\ tx.prev[s].unit \in BOOLEAN
      /\ tx.prev[s].enabled = before.unit[s].enabled
      /\ tx.prev[s].active = before.unit[s].active
  BY RecordFields
<1>3. /\ before.unit[s].enabled \in BOOLEAN /\ before.unit[s].active \in BOOLEAN
  BY <1>1 DEF UnitStates
<1>4. /\ w \in UnitStates /\ w.loaded = unit[s].loaded
      /\ w.enabled = before.unit[s].enabled /\ w.active = before.unit[s].active
      /\ w.code = before.unit[s].code
  <2>1. CASE ~tx.prev[s].unit
    BY <1>1, <1>2, <1>3, <2>1 DEF WantedUnit, UnitStates
  <2>2. CASE tx.prev[s].unit
    <3> DEFINE first == IF tx.prev[s].enabled THEN Enabled(unit[s]) ELSE Disabled(unit[s])
    <3>1. w = IF tx.prev[s].active THEN Started(first, s) ELSE Stopped(first)
      BY <2>2 DEF WantedUnit, RestoredUnit
    <3>2. /\ first \in UnitStates /\ first.enabled = before.unit[s].enabled
          /\ first.active = unit[s].active /\ first.code = unit[s].code
          /\ first.loaded = unit[s].loaded
      <4>1. first \in UnitStates
        BY DEF Enabled, Disabled, UnitStates
      <4>2. CASE tx.prev[s].enabled
        <5>1. first = Enabled(unit[s])
          BY <4>2
        <5> HIDE DEF first
        <5> QED
          BY <1>2, <1>3, <4>1, <4>2, <5>1, CommandFields
      <4>3. CASE ~tx.prev[s].enabled
        <5>1. first = Disabled(unit[s])
          BY <4>3
        <5> HIDE DEF first
        <5> QED
          BY <1>2, <1>3, <4>1, <4>3, <5>1, CommandFields
      <4> QED
        BY <4>2, <4>3
    <3> HIDE DEF first
    <3>3. CASE tx.prev[s].active
      <4>1. /\ w.enabled = before.unit[s].enabled /\ w.active = TRUE /\ w.loaded = unit[s].loaded
            /\ w.code = IF first.active THEN first.code ELSE files[Package(s)]
        <5>1. w = Started(first, s)
          BY <3>1, <3>3
        <5> HIDE DEF w
        <5>2. /\ Started(first, s).enabled = first.enabled /\ Started(first, s).active = TRUE
              /\ Started(first, s).loaded = first.loaded
              /\ Started(first, s).code = IF first.active THEN first.code ELSE files[Package(s)]
          BY <3>2 DEF Started, Restarted, UnitStates
        <5> QED
          BY <3>2, <5>1, <5>2
      <4>2. w.code = before.unit[s].code
        BY <1>1, <1>2, <3>2, <3>3, <4>1 DEF SameProcess
      <4>3. w \in UnitStates
        <5>1. files[Package(s)] \in Contents
          BY <1>1, <1>2, <3>3 DEF UnitStates
        <5> QED
          BY <3>1, <3>2, <3>3, <5>1 DEF Started, Restarted, UnitStates
      <4> QED
        BY <1>2, <3>3, <4>1, <4>2, <4>3
    <3>4. CASE ~tx.prev[s].active
      <4>1. /\ w.enabled = before.unit[s].enabled /\ w.active = FALSE
            /\ w.loaded = unit[s].loaded /\ w.code = "absent"
        <5>1. w = Stopped(first)
          BY <3>1, <3>4
        <5> HIDE DEF w
        <5>2. /\ Stopped(first).enabled = first.enabled /\ Stopped(first).active = FALSE
              /\ Stopped(first).loaded = first.loaded /\ Stopped(first).code = "absent"
          BY <3>2, CommandFields
        <5> QED
          BY <3>2, <5>1, <5>2
      <4>2. w \in UnitStates
        BY <3>1, <3>2, <3>4 DEF Stopped, UnitStates, Contents
      <4> QED
        BY <1>1, <1>2, <1>3, <3>4, <4>1, <4>2
    <3> QED
      BY <3>3, <3>4
  <2> QED
    BY <2>1, <2>2
<1>5. VerifiedUnit(s, w)
  BY <1>1, <1>2, <1>4 DEF VerifiedUnit
<1>6. ASSUME NEW u \in UnitStates, u.loaded = before.unit[s].loaded,
             u.enabled = before.unit[s].enabled, u.active = before.unit[s].active,
             u.code = before.unit[s].code
      PROVE  u = before.unit[s]
  BY <1>1, <1>6 DEF UnitStates
<1> HIDE DEF w
<1>7. ASSUME NEW u \in {w, [w EXCEPT !.enabled = unit[s].enabled],
                        [w EXCEPT !.active = unit[s].active, !.code = unit[s].code]}
      PROVE  /\ u.loaded = unit[s].loaded
             /\ VerifiedUnit(s, u) => u = before.unit[s]
  <2>1. /\ u \in UnitStates /\ u.loaded = unit[s].loaded
        /\ u.code = w.code \/ (u.active = unit[s].active /\ u.code = unit[s].code)
    BY <1>4, <1>7 DEF UnitStates
  <2>2. ASSUME VerifiedUnit(s, u)
        PROVE  u.code = before.unit[s].code
    <3>1. u.active = before.unit[s].active
      BY <1>2, <2>2 DEF VerifiedUnit
    <3> QED
      BY <1>1, <1>3, <1>4, <2>1, <3>1 DEF SameProcess, UnitStates
  <2> QED
    BY <1>2, <1>6, <2>1, <2>2 DEF VerifiedUnit
<1> QED
  BY <1>5, <1>7 DEF RestoredUnits, w

(* A restoration and what it leaves, while the transaction is undone once. *)
LEMMA RestoreStep ==
    ASSUME ShapeInv, InstallerInv, ServiceInv, before \in Hosts, RestoreServiceState, ~twice,
           NEW s \in Services, s = Service[at]
    PROVE  \E u \in RestoredUnits(s) :
              /\ unit' = [unit EXCEPT ![s] = u] /\ u.loaded = before.unit[s].loaded
              /\ UNCHANGED <<files, dirs, db, before>>
              /\ \/ /\ u = before.unit[s]
                    /\ \/ at = 1 /\ pc' = "restore" /\ at' = 2 /\ UNCHANGED tx /\ Undoing
                       \/ at = 2 /\ EndUndo(TRUE)
                 \/ Fault /\ EndUndo(FALSE)
<1>1. /\ pc = "restore" /\ at \in {1, 2} /\ unit[s] \in UnitStates /\ files = before.files
      /\ tx.prev[s].unit \in BOOLEAN
  BY FilesPutBack DEF ShapeInv, InstallerTypeOK, RestoreServiceState, ServiceLabels,
                      PutBackLabels, TxStates
<1>2. /\ tx.recorded /\ RecordTrue /\ Prepared(s)
      /\ unit[s].loaded = before.unit[s].loaded
  BY <1>1 DEF ServiceInv, Prepared, UndoLabels
<1>3. /\ ~unit[s].active => unit[s].code = "absent"
      /\ unit[s].active => SameProcess(s)
      /\ ~tx.prev[s].unit => ~unit[s].active /\ ~unit[s].enabled
  BY <1>2 DEF ServiceInv
<1>4. /\ VerifiedUnit(s, WantedUnit(s))
      /\ \A u \in RestoredUnits(s) : /\ u.loaded = unit[s].loaded
                                     /\ VerifiedUnit(s, u) => u = before.unit[s]
  BY <1>1, <1>2, <1>3, RestoredFields
<1>5. PICK u \in RestoredUnits(s) :
              /\ IF u = WantedUnit(s) THEN NoFault ELSE Fault
              /\ Command(s, u)
              /\ IF ~VerifiedUnit(s, u) THEN EndUndo(FALSE)
                 ELSE IF at = 1 THEN Goto("restore", 2) /\ UNCHANGED tx /\ Undoing
                 ELSE EndUndo(TRUE)
  BY RestoreUnfolds
<1>6. unit' = [unit EXCEPT ![s] = u] /\ UNCHANGED <<files, dirs, db>>
  BY <1>5 DEF Command
<1>7. before' = before
  BY <1>5 DEF EndUndo, Undoing
<1>8. u.loaded = before.unit[s].loaded
  BY <1>2, <1>4
<1>9. CASE VerifiedUnit(s, u)
  <2>1. u = before.unit[s]
    BY <1>4, <1>9
  <2>2. \/ at = 1 /\ pc' = "restore" /\ at' = 2 /\ UNCHANGED tx /\ Undoing
        \/ at = 2 /\ EndUndo(TRUE)
    BY <1>1, <1>5, <1>9 DEF Goto
  <2> QED
    BY <1>6, <1>7, <1>8, <2>1, <2>2
<1>10. CASE ~VerifiedUnit(s, u)
  <2>1. Fault /\ EndUndo(FALSE)
    BY <1>4, <1>5, <1>10
  <2> QED
    BY <1>6, <1>7, <1>8, <2>1
<1> QED
  BY <1>9, <1>10

LEMMA ServiceRestore ==
    ASSUME ShapeInv, InstallerInv, ServiceInv, before \in Hosts, RestoreServiceState, ~twice,
           ~twice', pc' # "ended"
    PROVE  ServiceInv'
<1>1. /\ pc = "restore" /\ at \in {1, 2} /\ unit \in [Services -> UnitStates]
  BY DEF ShapeInv, InstallerTypeOK, RestoreServiceState, ServiceLabels
<1>2. PICK s \in Services : s = Service[at] /\ Place(s) = at
  BY <1>1, ServiceAt
<1>3. ASSUME NEW v, EndUndo(v) PROVE FALSE
  BY <1>3, TrapEnds
<1>4. /\ unit' = [unit EXCEPT ![s] = before.unit[s]] /\ UNCHANGED <<before, tx>>
      /\ at = 1 /\ pc' = "restore" /\ at' = 2
  BY <1>2, <1>3, RestoreStep
<1>5. unit'[s] = before.unit[s] /\ \A t \in Services : t # s => unit'[t] = unit[t]
  BY <1>1, <1>4
<1>6. tx.recorded /\ RecordTrue'
  BY <1>1, <1>4 DEF ServiceInv, RecordTrue
<1>7. /\ before.unit[s].loaded = before.files[UnitFile(s)]
      /\ before.files[UnitFile(s)] = "absent" =>
            ~before.unit[s].enabled /\ ~before.unit[s].active
      /\ ~before.unit[s].active => before.unit[s].code = "absent"
  BY HostBefore
<1>8. ~tx.prev[s].unit => before.files[UnitFile(s)] = "absent"
  <2>1. RecordTrue
    BY <1>1 DEF ServiceInv
  <2> QED
    BY <2>1, RecordFields
<1>9. ASSUME NEW t \in Services
      PROVE  /\ (~unit[t].active => unit[t].code = "absent")'
             /\ (tx.recorded /\ ~Prepared(t) /\ tx.prev[t].unit
                   /\ ~(tx.prev[t].active /\ tx.filesChanged[t]) => SameProcess(t))'
             /\ (tx.recorded /\ Prepared(t) /\ unit[t].active => SameProcess(t))'
             /\ (tx.recorded /\ Prepared(t) /\ ~tx.prev[t].unit =>
                   ~unit[t].active /\ ~unit[t].enabled)'
             /\ (pc = "restore" => unit[t].loaded = before.unit[t].loaded)'
             /\ (pc = "restore" /\ at > Place(t) => unit[t] = before.unit[t])'
  <2>1. Prepared(t) /\ Prepared(t)'
    BY <1>1, <1>4 DEF Prepared, UndoLabels
  <2>2. CASE t = s
    BY <1>4, <1>5, <1>7, <1>8, <2>1, <2>2 DEF SameProcess
  <2>3. CASE t # s
    <3>1. ~(at' > Place(t))
      BY <1>2, <1>4, <2>3 DEF Place, Services
    <3> QED
      BY <1>1, <1>4, <1>5, <1>6, <2>1, <2>3, <3>1 DEF ServiceInv, SameProcess
  <2> QED
    BY <2>2, <2>3
<1> QED
  BY <1>4, <1>6, <1>9 DEF ServiceInv

(* The host is as it was when an undoing ends with a verified restoration, *)
(* and one that cannot be verified has met a failure.                      *)
LEMMA UndoneIsRestored ==
    ASSUME ShapeInv, InstallerInv, CreatedInv, ServiceInv, before \in Hosts,
           failed => faults > 0, UndoStep, ~twice, NEW v \in BOOLEAN, EndUndo(v), ~twice'
    PROVE  /\ v => Restored'
           /\ ~v => faults' > 0
<1>1. /\ tx \in TxStates /\ unit \in [Services -> UnitStates] /\ faults \in Nat
      /\ pc \in ServiceLabels => at \in {1, 2}
  BY MaxFaultsAssumption DEF ShapeInv, InstallerTypeOK
<1>2. /\ pc' = "ended" /\ before' = before
      /\ status' = IF v THEN 1 ELSE 70
  BY TrapEnds
<1>3. Fault => faults' > 0
  BY <1>1 DEF Fault
<1>4. ASSUME NEW w \in BOOLEAN, EndUndo(w) PROVE w = v
  BY <1>2, <1>4, TrapEnds
<1>5. CASE PrepareServiceRollback
  <2>1. pc = "prepare" /\ at \in {1, 2}
    BY <1>1, <1>5 DEF PrepareServiceRollback, ServiceLabels
  <2>2. PICK s \in Services : s = Service[at]
    BY <2>1, ServiceAt
  <2>3. unit[s] \in UnitStates /\ tx.prev[s].unit \in BOOLEAN
        /\ (~unit[s].active => unit[s].code = "absent")
    BY <1>1 DEF ServiceInv, TxStates
  <2>4. ~StillOn(s, SecondUnit(s))
    BY <2>3, PreparedFields
  <2>5. Fault /\ EndUndo(FALSE)
    BY <1>2, <1>5, <2>2, <2>4, PrepareUnfolds DEF Goto
  <2> QED
    BY <1>3, <1>4, <2>5
<1>6. CASE RollbackFile
  BY <1>2, <1>6 DEF RollbackFile, Goto
<1>7. CASE RollbackFilesDone
  <2>1. failed /\ EndUndo(FALSE) /\ faults' = faults
    BY <1>2, <1>7 DEF RollbackFilesDone, Goto, NoFault
  <2> QED
    BY <1>4, <2>1
<1>8. CASE RemoveCreatedDatabase \/ UndoReload
  <2>1. Fault /\ EndUndo(FALSE)
    BY <1>2, <1>8 DEF RemoveCreatedDatabase, UndoReload, Goto
  <2> QED
    BY <1>3, <1>4, <2>1
<1>9. CASE RemoveCreatedDirectories
  <2>1. \/ Fault /\ EndUndo(FALSE)
        \/ ~tx.recorded /\ dirs' = dirs \ tx.dirsCreated /\ EndUndo(TRUE)
    BY <1>2, <1>9 DEF RemoveCreatedDirectories, Goto
  <2>2. CASE Fault /\ EndUndo(FALSE)
    BY <1>3, <1>4, <2>2
  <2>3. CASE ~tx.recorded /\ dirs' = dirs \ tx.dirsCreated /\ EndUndo(TRUE)
    <3>1. pc = "undo_directories" /\ UNCHANGED <<files, db, unit>>
      BY <1>9 DEF RemoveCreatedDirectories
    <3>2. files = before.files /\ unit = before.unit
      BY <2>3, <3>1, FilesPutBack DEF PutBackLabels, ServiceInv
    <3>3. /\ dirs \ tx.dirsCreated = before.dirs
          /\ \A s \in Services : before.db[s] = "absent" => db[s] = "absent"
      BY <3>1 DEF CreatedInv
    <3>4. Restored'
      BY <1>2, <2>3, <3>1, <3>2, <3>3 DEF Restored
    <3> QED
      BY <1>4, <2>3, <3>4
  <2> QED
    BY <2>1, <2>2, <2>3
<1>10. CASE RestoreServiceState
  <2>1. pc = "restore" /\ at \in {1, 2}
    BY <1>1, <1>10 DEF RestoreServiceState, ServiceLabels
  <2>2. PICK s \in Services : s = Service[at] /\ Place(s) = at
    BY <2>1, ServiceAt
  <2>3. PICK u \in RestoredUnits(s) :
              /\ unit' = [unit EXCEPT ![s] = u] /\ UNCHANGED <<files, dirs, db, before>>
              /\ \/ /\ u = before.unit[s]
                    /\ \/ at = 1 /\ pc' = "restore" /\ at' = 2 /\ UNCHANGED tx /\ Undoing
                       \/ at = 2 /\ EndUndo(TRUE)
                 \/ Fault /\ EndUndo(FALSE)
    BY <1>10, <2>2, RestoreStep
  <2>4. CASE Fault /\ EndUndo(FALSE)
    BY <1>3, <1>4, <2>4
  <2>5. CASE u = before.unit[s] /\ at = 2 /\ EndUndo(TRUE)
    <3>1. /\ files = before.files /\ dirs = before.dirs
          /\ \A t \in Services : before.db[t] = "absent" => db[t] = "absent"
      BY <2>1, FilesPutBack DEF PutBackLabels, CreatedInv
    <3>2. \A t \in Services : t # s => unit[t] = before.unit[t]
      BY <2>1, <2>2, <2>5 DEF ServiceInv, Place, Services
    <3>3. before.unit \in [Services -> UnitStates]
      BY HostBefore
    <3>4. unit' \in [Services -> UnitStates]
      BY <1>1, <2>3, <2>5, <3>3
    <3>5. unit' = before.unit
      BY <1>1, <2>3, <2>5, <3>2, <3>3, <3>4
    <3>6. Restored'
      BY <2>3, <3>1, <3>5 DEF Restored
    <3> QED
      BY <1>4, <2>5, <3>6
  <2> QED
    BY <1>2, <2>3, <2>4, <2>5
<1> QED
  BY <1>5, <1>6, <1>7, <1>8, <1>9, <1>10 DEF UndoStep

-----------------------------------------------------------------------------
(* The invariant of the installer's report.                                *)

(* The script going forward counts no failures of an undoing. *)
LEMMA ForwardFrame ==
    ASSUME InstallStep \/ Begin \/ Killed
    PROVE  /\ UNCHANGED <<before, faults, twice>> /\ failed' \in {failed, FALSE}
           /\ status' = status \/ CleanUp
BY TrapBegins DEF InstallStep, Begin, Killed, Validate, RecordServiceState, EnsureDirectories,
       BackupFile, ReplaceFile, Sync, DaemonReload, Migrate, Activate, StartService,
       VerifyInstalledRuntime, CleanUp, CommandFails, Forward, history

(* The undoing counts every failure of rollback_files, and goes on or ends. *)
LEMMA UndoFrame ==
    ASSUME UndoStep, faults \in Nat
    PROVE  /\ before' = before /\ faults' \in Nat /\ faults' >= faults
           /\ failed' => failed \/ faults' > 0
           /\ \/ \E v \in BOOLEAN : EndUndo(v)
              \/ UNCHANGED <<status, twice, tx>> /\ pc' # "ended"
<1>1. ASSUME NEW v, EndUndo(v) PROVE before' = before /\ (failed' => failed)
  BY <1>1 DEF EndUndo, Undo
<1>2. (NoFault \/ Fault) => faults' \in Nat /\ faults' >= faults
  BY DEF NoFault, Fault
<1>3. Fault => faults' > 0
  BY DEF Fault
<1>4. CASE RollbackFile
  <2>1. (NoFault /\ failed' = failed) \/ Fault
    BY <1>4 DEF RollbackFile
  <2> QED
    BY <1>2, <1>3, <1>4, <2>1 DEF RollbackFile, Goto
<1>5. CASE ~RollbackFile
  <2>1. /\ NoFault \/ Fault
        /\ \/ \E v \in BOOLEAN : EndUndo(v)
           \/ UNCHANGED tx /\ Undoing /\ pc' # "ended"
    <3>1. CASE PrepareServiceRollback
      BY <3>1 DEF PrepareServiceRollback, Goto
    <3>2. CASE RollbackFilesDone
      BY <3>2 DEF RollbackFilesDone, Goto
    <3>3. CASE RemoveCreatedDatabase
      BY <3>3 DEF RemoveCreatedDatabase, Goto
    <3>4. CASE RemoveCreatedDirectories
      BY <3>4 DEF RemoveCreatedDirectories, Goto
    <3>5. CASE UndoReload
      BY <3>5 DEF UndoReload, Goto
    <3>6. CASE RestoreServiceState
      BY <3>6 DEF RestoreServiceState, Goto
    <3> QED
      BY <1>5, <3>1, <3>2, <3>3, <3>4, <3>5, <3>6 DEF UndoStep
  <2>2. CASE \E v \in BOOLEAN : EndUndo(v)
    BY <1>1, <1>2, <2>1, <2>2
  <2>3. CASE UNCHANGED tx /\ Undoing /\ pc' # "ended"
    BY <1>2, <2>1, <2>3 DEF Undoing
  <2> QED
    BY <2>1, <2>2, <2>3
<1> QED
  BY <1>4, <1>5

(* Every step of the installer. *)
LEMMA ReportActions ==
    ASSUME TInv, InstallerInv, InstallStep \/ UndoStep \/ Begin \/ Killed
    PROVE  ReportInv'
<1>1. ShapeInv /\ before \in Hosts /\ faults \in Nat /\ twice \in BOOLEAN /\ tx \in TxStates
  BY MaxFaultsAssumption DEF TInv, ReportInv, ShapeInv, InstallerTypeOK
<1>2. ASSUME InstallStep \/ Begin \/ Killed PROVE ReportInv'
  <2>1. /\ UNCHANGED <<before, faults, twice>> /\ failed' \in {failed, FALSE}
        /\ status' = status \/ CleanUp
    BY <1>2, ForwardFrame
  <2>2. pc \notin {"ended", "killed"} /\ status = Running
    BY <1>1, <1>2 DEF ShapeInv, InstallStep, Begin, Killed, Validate, RecordServiceState,
       EnsureDirectories, BackupFile, ReplaceFile, Sync, DaemonReload, Migrate, Activate,
       StartService, VerifyInstalledRuntime, CleanUp, CommandFails
  <2>3. ASSUME CleanUp \/ VerifyInstalledRuntime PROVE tx'.committed
    <3>1. CASE CleanUp
      BY <1>1, <3>1 DEF InstallerInv, CleansUpCommitted, CleanUp, TxStates
    <3>2. CASE VerifyInstalledRuntime
      BY <1>1, <3>2 DEF VerifyInstalledRuntime, TxStates
    <3> QED
      BY <2>3, <3>1, <3>2
  <2>4. status' \notin {1, 70} \/ (status' # 70 /\ tx'.committed)
    <3>1. CASE CleanUp
      BY <2>3, <3>1 DEF CleanUp
    <3>2. CASE status' = status
      BY <2>2, <3>2 DEF Running
    <3> QED
      BY <2>1, <3>1, <3>2
  <2>5. ASSUME ~twice, ~tx'.committed, pc' # "killed"
        PROVE  CreatedInv' /\ ServiceInv'
    <3>1. ~CleanUp /\ ~VerifyInstalledRuntime /\ ~Killed
      BY <2>3, <2>5 DEF Killed, Goto
    <3>2. ~tx.committed
      BY <1>1, <2>2, <3>1, <1>2 DEF ShapeInv, InstallStep, Begin, Validate, RecordServiceState,
         EnsureDirectories, BackupFile, ReplaceFile, Sync, DaemonReload, Migrate, Activate,
         StartService, CommandFails
    <3>3. CreatedInv /\ ServiceInv
      BY <2>2, <2>5, <3>2 DEF TInv, ReportInv
    <3>4. CreatedInv'
      BY <1>1, <1>2, <3>1, <3>3, CreatedForward, CreatedDirectories, CreatedMigrate,
         CreatedServices DEF InstallStep
    <3>5. ServiceInv'
      BY <1>1, <1>2, <2>5, <3>1, <3>3, ServiceForward, ServiceRecord, ServiceReload,
         ServiceStarts DEF InstallStep
    <3> QED
      BY <3>4, <3>5
  <2>6. (failed => faults > 0 \/ twice)'
    BY <2>1 DEF TInv, ReportInv
  <2> QED
    BY <1>1, <2>1, <2>4, <2>5, <2>6 DEF ReportInv, GivesUpForAReason
<1>3. ASSUME UndoStep PROVE ReportInv'
  <2>1. /\ before' = before /\ faults' \in Nat /\ faults' >= faults
        /\ failed' => failed \/ faults' > 0
        /\ \/ \E v \in BOOLEAN : EndUndo(v)
           \/ UNCHANGED <<status, twice, tx>> /\ pc' # "ended"
    BY <1>1, <1>3, UndoFrame
  <2>2. /\ pc \notin {"idle", "ended", "killed", "cleanup"} /\ status = Running /\ ~tx.committed
    BY <1>1, <1>3 DEF ShapeInv, UndoStep, PrepareServiceRollback, RollbackFile,
       RollbackFilesDone, RemoveCreatedDatabase, RemoveCreatedDirectories, UndoReload,
       RestoreServiceState
  <2>3. twice => twice'
    BY <2>1, <1>1 DEF EndUndo
  <2>4. (failed => faults > 0 \/ twice)'
    BY <1>1, <2>1, <2>3 DEF TInv, ReportInv
  <2>5. CASE twice'
    <3>1. before' \in Hosts
      BY <1>1, <2>1
    <3> QED
      BY <2>4, <2>5, <3>1 DEF ReportInv, GivesUpForAReason
  <2>6. CASE ~twice'
    <3>1. ~twice /\ CreatedInv /\ ServiceInv /\ (failed => faults > 0)
      BY <2>2, <2>3, <2>6 DEF TInv, ReportInv
    <3>2. CASE \E v \in BOOLEAN : EndUndo(v)
      <4>1. PICK v \in BOOLEAN : EndUndo(v)
        BY <3>2
      <4>2. /\ pc' = "ended"
            /\ status' = IF v THEN 1 ELSE 70
        BY <2>6, <4>1, TrapEnds
      <4>3. /\ v => Restored'
            /\ ~v => faults' > 0
        BY <1>1, <1>3, <2>6, <3>1, <4>1, UndoneIsRestored
      <4> QED
        BY <1>1, <2>1, <2>4, <4>2, <4>3 DEF ReportInv, GivesUpForAReason
    <3>3. CASE UNCHANGED <<status, twice, tx>> /\ pc' # "ended"
      <4>1. CreatedInv'
        BY <1>1, <1>3, <2>6, <3>1, <3>3, CreatedUndo
      <4>2. ServiceInv'
        BY <1>1, <1>3, <2>6, <3>1, <3>3, ServicePrepare, ServiceUndo, ServiceUndoReload,
           ServiceRestore DEF UndoStep
      <4>3. status' \notin {1, 70}
        BY <2>2, <3>3 DEF Running
      <4> QED
        BY <1>1, <2>1, <2>4, <4>1, <4>2, <4>3 DEF ReportInv, GivesUpForAReason
    <3> QED
      BY <2>1, <3>2, <3>3
  <2> QED
    BY <2>5, <2>6
<1> QED
  BY <1>2, <1>3

(* The types of the variables of setup.sh. *)
SetupTyped ==
    /\ step \in Steps /\ flags \subseteq Flags /\ candidate \in BOOLEAN
    /\ source \in Contents /\ kept \in Contents /\ sourceWas \in Contents
    /\ exit \in {"none", "ok", "error"} /\ cut \in Steps \cup {"none"}

LEMMA SetupTypes == SetupTyped /\ [Next]_vars => SetupTyped'
<1> SUFFICES ASSUME SetupTyped, [Next]_vars PROVE SetupTyped'
  OBVIOUS
<1> USE DEF SetupTyped, Steps, Flags, Contents, Continue, Raise
<1>1. CASE PrepareSourceTree
  BY <1>1 DEF PrepareSourceTree
<1>2. CASE BackUpSource
  BY <1>2 DEF BackUpSource
<1>3. CASE NoteBackup
  BY <1>3 DEF NoteBackup
<1>4. CASE ActivateSource
  BY <1>4 DEF ActivateSource
<1>5. CASE NoteActive
  BY <1>5 DEF NoteActive
<1>6. CASE RunLocalInstaller
  BY <1>6 DEF RunLocalInstaller
<1>7. CASE InstallerResult
  <2>1. /\ step' \in {"align", "trap"}
        /\ UNCHANGED <<source, kept, candidate, exit, sourceWas, cut>>
        /\ \/ flags' = flags \cup {"LOCAL_INSTALL_SUCCEEDED"}
           \/ flags' = flags \cup {"LOCAL_INSTALL_ROLLBACK_UNVERIFIED"}
           \/ flags' = flags
    BY <1>7 DEF InstallerResult
  <2>2. flags' \subseteq Flags
    BY <2>1
  <2> QED
    BY <2>1, <2>2
<1>8. CASE VerifyAlignment
  BY <1>8 DEF VerifyAlignment
<1>9. CASE DropPriorBackup
  BY <1>9 DEF DropPriorBackup
<1>10. CASE SetupFails
  BY <1>10 DEF SetupFails
<1>11. CASE Interrupt
  BY <1>11 DEF Interrupt
<1>12. CASE InstallerKilled
  BY <1>12 DEF InstallerKilled
<1>13. CASE Trap
  BY <1>13 DEF Trap
<1>14. CASE RemoveNewSource
  BY <1>14 DEF RemoveNewSource
<1>15. CASE RestorePriorSource
  BY <1>15, ZenonT(40) DEF RestorePriorSource
<1>16. CASE Sweep
  BY <1>16 DEF Sweep
<1>17. CASE UNCHANGED vars
  BY <1>17 DEF vars, setupVars
<1> QED
  BY <1>1, <1>2, <1>3, <1>4, <1>5, <1>6, <1>7, <1>8, <1>9, <1>10, <1>11, <1>12, <1>13, <1>14,
     <1>15, <1>16, <1>17 DEF Next, Done

(* A step of setup is one of the installer or leaves it alone. *)
LEMMA InstallerSteps ==
    [Next]_vars => \/ InstallStep \/ UndoStep \/ Begin \/ Killed
                   \/ UNCHANGED installerVars
BY DEF Next, vars, InstallerIdle, PrepareSourceTree, BackUpSource, NoteBackup, ActivateSource,
       NoteActive, RunLocalInstaller, InstallerResult, VerifyAlignment, DropPriorBackup,
       SetupFails, Interrupt, InstallerKilled, Trap, RemoveNewSource, RestorePriorSource, Sweep,
       Done

LEMMA ReportStart == Init => TInv /\ SetupTyped
<1> SUFFICES ASSUME Init PROVE TInv /\ SetupTyped
  OBVIOUS
<1>1. /\ before \in Hosts /\ before \in HostStates
      /\ files = before.files /\ dirs = before.dirs
      /\ db = before.db /\ unit = before.unit
      /\ pc = "idle" /\ at = 0
      /\ tx = FreshTx /\ subshell = FALSE /\ failed = FALSE
      /\ status = Running /\ faults = 0 /\ twice = FALSE
  BY HostsAssumption DEF Init, InstallerInit
<1>2. /\ FreshTx \in TxStates /\ FreshTx.changed = <<>> /\ Len(FreshTx.changed) = 0
      /\ FreshTx.recorded = FALSE /\ FreshTx.dirsCreated = {} /\ FreshTx.committed = FALSE
  BY DEF FreshTx, TxStates, NoService, Contents
<1>3. InstallerTypeOK
  <2>1. /\ files \in [Files -> Contents] /\ dirs \subseteq Directories
        /\ db \in [Services -> Contents] /\ unit \in [Services -> UnitStates]
    BY <1>1 DEF HostStates
  <2>2. at \in 0..Len(InstallOrder) /\ faults \in 0..MaxFaults /\ status \in Statuses
    BY <1>1, MaxFaultsAssumption, OrderLength DEF Statuses
  <2> QED
    BY <1>1, <1>2, <2>1, <2>2 DEF InstallerTypeOK
<1>4. ShapeInv
  BY <1>1, <1>2, <1>3, OrderLength DEF ShapeInv, EarlyLabels, ServiceLabels, Running
<1>5. CreatedInv
  BY <1>1, <1>2 DEF CreatedInv, EarlyLabels
<1>6. \A s \in Services : ~unit[s].active => unit[s].code = "absent"
  BY <1>1, HostBefore
<1>7. ServiceInv
  BY <1>1, <1>2, <1>6 DEF ServiceInv
<1>8. ReportInv
  BY <1>1, <1>5, <1>7 DEF ReportInv, GivesUpForAReason, Running
<1>9. SetupTyped
  BY DEF Init, SetupTyped, Steps, Contents
<1> QED
  BY <1>4, <1>8, <1>9 DEF TInv

(* The invariant the following theorems rest on. *)
LEMMA ReportInvariant == Spec => [](TInv /\ SetupTyped /\ InstallerInv)
<1>1. Init => TInv /\ SetupTyped
  BY ReportStart
<1>2. TInv /\ SetupTyped /\ InstallerInv /\ InstallerInv' /\ [Next]_vars => (TInv /\ SetupTyped)'
  <2> SUFFICES ASSUME TInv, SetupTyped, InstallerInv, InstallerInv', [Next]_vars
               PROVE  (TInv /\ SetupTyped)'
    OBVIOUS
  <2>1. SetupTyped'
    BY SetupTypes
  <2>2. CASE InstallStep \/ UndoStep \/ Begin \/ Killed
    <3>1. ShapeInv'
      BY <2>2, ShapeActions DEF TInv
    <3>2. ReportInv'
      BY <2>2, ReportActions
    <3> QED
      BY <2>1, <3>1, <3>2 DEF TInv
  <2>3. CASE UNCHANGED installerVars
    <3>1. UNCHANGED <<files, dirs, db, unit, pc, at, tx, subshell, failed, status, before, faults,
                      twice>>
      BY <2>3 DEF installerVars, host, history
    <3>2. ShapeInv'
      BY <3>1 DEF TInv, ShapeInv, InstallerTypeOK
    <3>3. CreatedInv => CreatedInv'
      BY <3>1 DEF CreatedInv, DatabaseAhead
    <3>4. ServiceInv => ServiceInv'
      BY <3>1 DEF ServiceInv, RecordTrue, Prepared, SameProcess
    <3>5. ReportInv'
      BY <3>1, <3>3, <3>4 DEF TInv, ReportInv, GivesUpForAReason, Restored
    <3> QED
      BY <2>1, <3>2, <3>5 DEF TInv
  <2> QED
    BY <2>2, <2>3, InstallerSteps
<1> QED
  BY <1>1, <1>2, InstallerInvariant, PTL DEF Spec

(* What the exit status of the installer says is so (on_error,             *)
(* rollback_transaction): on every host, wherever the installation failed  *)
(* and whatever failed of the undoing, "rolled back" means that files,     *)
(* directories, databases and services are as they were, down to the code  *)
(* each process runs, and a manual recovery is asked for only after a      *)
(* failure of the undoing; both as long as it is undone once.              *)
THEOREM ReportsAlwaysTrue == Spec => []InstallReportTrue
<1>1. TInv /\ SetupTyped => InstallReportTrue
  BY DEF TInv, ShapeInv, ReportInv, SetupTyped, InstallReportTrue, TypeOK,
         UndoneOnceMeansRestored
<1> QED
  BY <1>1, ReportInvariant, PTL

-----------------------------------------------------------------------------
(* Source tree and runtime.                                                *)

(* Where the installer stands at each step of setup, and what the flags    *)
(* that keep the new tree say of it.                                       *)
AlignInv ==
    /\ exit = "none" <=> step # "done"
    /\ step \in {"release", "backup", "note_backup", "activate", "note_active"} => pc = "idle"
    /\ step = "install" => pc \notin {"idle", "ended", "killed"}
    /\ step \in {"result", "align", "drop"} => pc = "ended"
    /\ step \in EndSteps => pc \in {"idle", "ended", "killed"}
    /\ step \in {"note_active", "install", "result", "align", "drop"} => source = "new"
    /\ step \in {"align", "drop"} => status = 0
    /\ step \in {"remove", "move"} => RollsSourceBack
    /\ ~RollsSourceBack => source = "new" /\ step \in {"align", "drop", "trap", "sweep", "done"}
    /\ step \in EndSteps /\ status = 70 /\ cut # "result" => ~RollsSourceBack
    /\ exit = "ok" => source = "new" /\ status = 0 /\ kept = "absent"

(* The installer neither goes back to its beginning nor is killed. *)
LEMMA InstallerGoesOn ==
    ASSUME InstallStep \/ UndoStep
    PROVE  pc' \notin {"idle", "killed"}
<1>1. ASSUME NEW v, EndUndo(v) PROVE pc' \notin {"idle", "killed"}
  BY <1>1 DEF EndUndo, Undo, Goto
<1>2. ASSUME NEW sub, UndoIn(sub) PROVE pc' \notin {"idle", "killed"}
  BY <1>2 DEF UndoIn, Undo, Goto
<1>3. CASE InstallStep
  BY <1>2, <1>3
     DEF InstallStep, Validate, RecordServiceState, EnsureDirectories, BackupFile,
         ReplaceFile, NextFile, Sync, DaemonReload, Migrate, Activate, StartService,
         NextService, VerifyInstalledRuntime, CleanUp, CommandFails, Goto
<1>4. CASE UndoStep
  BY <1>1, <1>4
     DEF UndoStep, PrepareServiceRollback, RollbackFile, RollbackFilesDone,
         RemoveCreatedDatabase, RemoveCreatedDirectories, UndoReload, RestoreServiceState, Goto
<1> QED
  BY <1>3, <1>4

(* The exit status is there when the installer has ended. *)
StatusInv == /\ pc = "ended" <=> status # Running
             /\ status \in Statuses

LEMMA AlignStep ==
    ASSUME AlignInv, StatusInv, StatusInv', [Next]_vars
    PROVE  AlignInv'
<1> USE DEF AlignInv, Continue, EndSteps
<1>1. InstallerIdle => UNCHANGED <<pc, status>>
  BY DEF InstallerIdle, installerVars
<1>2. CASE PrepareSourceTree
  BY <1>1, <1>2 DEF PrepareSourceTree, RollsSourceBack
<1>3. CASE BackUpSource
  BY <1>1, <1>3 DEF BackUpSource, RollsSourceBack
<1>4. CASE NoteBackup
  BY <1>1, <1>4 DEF NoteBackup, Raise, RollsSourceBack
<1>5. CASE ActivateSource
  BY <1>1, <1>5 DEF ActivateSource, RollsSourceBack
<1>6. CASE NoteActive
  <2>1. pc' = "validate" /\ RollsSourceBack
    BY <1>6 DEF NoteActive, Begin, Goto
  <2> QED
    BY <1>6, <2>1 DEF NoteActive, Raise, RollsSourceBack
<1>7. CASE RunLocalInstaller
  <2>1. pc' \notin {"idle", "killed"} /\ RollsSourceBack
    BY <1>7, InstallerGoesOn DEF RunLocalInstaller
  <2> QED
    BY <1>7, <2>1 DEF RunLocalInstaller, RollsSourceBack
<1>8. CASE InstallerResult
  <2>1. /\ UNCHANGED <<pc, status, source, exit, cut>> /\ pc = "ended" /\ source = "new"
        /\ exit = "none" /\ RollsSourceBack
    BY <1>1, <1>8 DEF InstallerResult
  <2>2. CASE status = 0
    <3>1. step' = "align" /\ ~RollsSourceBack'
      BY <1>8, <2>2 DEF InstallerResult, Raise, RollsSourceBack
    <3> QED
      BY <2>1, <2>2, <3>1
  <2>3. CASE status # 0
    <3>1. step' = "trap" /\ (status = 70 => ~RollsSourceBack')
      BY <1>8, <2>3 DEF InstallerResult, Raise, RollsSourceBack
    <3> QED
      BY <2>1, <2>3, <3>1
  <2> QED
    BY <2>2, <2>3
<1>9. CASE VerifyAlignment
  <2>1. ~RollsSourceBack'
    BY <1>9 DEF VerifyAlignment, Raise, RollsSourceBack
  <2> QED
    BY <1>1, <1>9, <2>1 DEF VerifyAlignment
<1>10. CASE DropPriorBackup
  <2>1. RollsSourceBack' <=> RollsSourceBack
    BY <1>10 DEF DropPriorBackup, RollsSourceBack
  <2> QED
    BY <1>1, <1>10, <2>1 DEF DropPriorBackup
<1>11. CASE SetupFails
  <2>1. RollsSourceBack' <=> RollsSourceBack
    BY <1>11 DEF SetupFails, RollsSourceBack
  <2>2. status # 70
    BY <1>11 DEF SetupFails, StatusInv, Running
  <2> QED
    BY <1>1, <1>11, <2>1, <2>2 DEF SetupFails
<1>12. CASE Interrupt
  <2>1. RollsSourceBack' <=> RollsSourceBack
    BY <1>12 DEF Interrupt, RollsSourceBack
  <2>2. status # 70 \/ step = "result"
    BY <1>12 DEF Interrupt, StatusInv, Running
  <2> QED
    BY <1>1, <1>12, <2>1, <2>2 DEF Interrupt
<1>13. CASE InstallerKilled
  <2>1. pc' = "killed" /\ (RollsSourceBack' <=> RollsSourceBack)
    BY <1>13 DEF InstallerKilled, Killed, Goto, RollsSourceBack
  <2>2. status' # 70
    BY <2>1 DEF StatusInv, Running
  <2> QED
    BY <1>13, <2>1, <2>2 DEF InstallerKilled
<1>14. CASE Trap
  <2>1. RollsSourceBack' <=> RollsSourceBack
    BY <1>14 DEF Trap, RollsSourceBack
  <2> QED
    BY <1>1, <1>14, <2>1 DEF Trap
<1>15. CASE RemoveNewSource
  <2>1. RollsSourceBack' /\ RollsSourceBack
    BY <1>15 DEF RemoveNewSource, RollsSourceBack
  <2> QED
    BY <1>1, <1>15, <2>1 DEF RemoveNewSource
<1>16. CASE RestorePriorSource
  <2>1. RollsSourceBack' /\ RollsSourceBack
    BY <1>16 DEF RestorePriorSource, RollsSourceBack
  <2> QED
    BY <1>1, <1>16, <2>1 DEF RestorePriorSource
<1>17. CASE Sweep
  <2>1. RollsSourceBack' <=> RollsSourceBack
    BY <1>17 DEF Sweep, RollsSourceBack
  <2> QED
    BY <1>1, <1>17, <2>1 DEF Sweep
<1>18. CASE UNCHANGED vars
  BY <1>18 DEF vars, setupVars, installerVars, RollsSourceBack
<1> QED
  BY <1>2, <1>3, <1>4, <1>5, <1>6, <1>7, <1>8, <1>9, <1>10, <1>11, <1>12, <1>13, <1>14, <1>15,
     <1>16, <1>17, <1>18 DEF Next, Done

(* cleanup keeps source tree and runtime aligned, on every host and        *)
(* whichever commands fail: setup that succeeds leaves both new, and when  *)
(* it leaves another tree nothing of the runtime is replaced, up to the    *)
(* cases AlignedUnlessCut exempts.                                         *)
THEOREM SourceAlwaysAligned == Spec => []AlignedUnlessCut
<1>1. Init => AlignInv
  BY DEF Init, InstallerInit, AlignInv, RollsSourceBack, EndSteps, Running
<1>2. TInv => StatusInv
  BY DEF TInv, ShapeInv, InstallerTypeOK, StatusInv
<1>3. AlignInv /\ StatusInv /\ StatusInv' /\ [Next]_vars => AlignInv'
  BY AlignStep
<1>4. AlignInv /\ TInv /\ InstallerInv => AlignedUnlessCut
  <2> SUFFICES ASSUME AlignInv, TInv, InstallerInv, step = "done" PROVE AlignedUnlessCut
    BY DEF AlignedUnlessCut
  <2>1. /\ exit = "ok" => source = "new" /\ status = 0 /\ kept = "absent"
        /\ pc \in {"idle", "ended", "killed"}
        /\ status = 70 /\ cut # "result" => source = "new"
    BY DEF AlignInv, EndSteps
  <2>2. /\ status = 0 => tx.committed
        /\ pc = "ended" => status \in {0, 1, 70}
        /\ pc = "idle" => tx.changed = <<>>
        /\ status = 1 /\ ~tx.committed /\ ~twice => Restored
    BY DEF TInv, ShapeInv, InstallerTypeOK, ReportInv, Statuses, EarlyLabels
  <2>3. ASSUME source # "new", pc # "killed", cut # "result", ~tx.committed, ~twice
        PROVE  RuntimeAsBefore
    <3>1. CASE pc = "idle"
      BY <2>2, <2>3, <3>1
      DEF InstallerInv, FilesInv, FilesAt, UnlistedUntouched, RuntimeAsBefore
    <3>2. CASE pc = "ended"
      BY <2>1, <2>2, <2>3, <3>2 DEF Restored, RuntimeAsBefore
    <3> QED
      BY <2>1, <2>3, <3>1, <3>2
  <2> QED
    BY <2>1, <2>2, <2>3 DEF AlignedUnlessCut
<1> QED
  BY <1>1, <1>2, <1>3, <1>4, ReportInvariant, PTL DEF Spec

-----------------------------------------------------------------------------
(* The processes that are started.                                         *)

StartLabels == {"migrate", "activate", "start"}

(* The files before position n of the order are those of the release, an   *)
(* operator's configuration excepted.                                      *)
Filled(fs, n) ==
    \A k \in 1..Len(InstallOrder) :
        k < n /\ InstallOrder[k] \notin Configs => fs[InstallOrder[k]] = "new"

(* systemd has the units that are on disk. *)
UnitsLoaded == \A s \in Services : unit[s].loaded = files[UnitFile(s)]

ForwardInv ==
    ~twice =>
        /\ pc \in {"backup", "replace"} => Filled(files, at)
        /\ pc \in {"sync", "reload"} \cup StartLabels => Filled(files, Len(InstallOrder) + 1)
        /\ pc \in FileLabels => tx.unitChanged \/ UnitsLoaded
        /\ pc \in StartLabels => UnitsLoaded

(* What is done to the file at a position leaves the files before it. *)
LEMMA FilledBelow ==
    ASSUME files \in [Files -> Contents], at \in 1..Len(InstallOrder), Filled(files, at), NEW c
    PROVE  Filled([files EXCEPT ![InstallOrder[at]] = c], at)
<1> SUFFICES ASSUME NEW k \in 1..Len(InstallOrder), k < at, InstallOrder[k] \notin Configs
             PROVE  [files EXCEPT ![InstallOrder[at]] = c][InstallOrder[k]] = "new"
  BY DEF Filled
<1>1. InstallOrder[k] # InstallOrder[at]
  <2>1. k # at
    BY OrderLength
  <2> QED
    BY <2>1, OrderInjective
<1>2. InstallOrder[k] \in Files
  BY OrderFiles
<1>3. files[InstallOrder[k]] = "new"
  BY DEF Filled
<1> QED
  BY <1>1, <1>2, <1>3

LEMMA FilledUpTo ==
    ASSUME NEW fs, NEW n \in 1..Len(InstallOrder), Filled(fs, n),
           InstallOrder[n] \in Configs \/ fs[InstallOrder[n]] = "new"
    PROVE  Filled(fs, n + 1)
<1> SUFFICES ASSUME NEW k \in 1..Len(InstallOrder), k < n + 1, InstallOrder[k] \notin Configs
             PROVE  fs[InstallOrder[k]] = "new"
  BY DEF Filled
<1>1. k < n \/ k = n
  BY OrderLength
<1> QED
  BY <1>1 DEF Filled

(* The next file, or all of them done. *)
LEMMA FilledNext ==
    ASSUME NextFile, at \in 1..Len(InstallOrder), Filled(files', at + 1)
    PROVE  /\ pc' \in {"backup", "sync"}
           /\ pc' = "backup" => Filled(files', at')
           /\ pc' = "sync" => Filled(files', Len(InstallOrder) + 1)
<1>1. CASE at < Len(InstallOrder)
  BY <1>1 DEF NextFile, Goto
<1>2. CASE ~(at < Len(InstallOrder))
  <2>1. at = Len(InstallOrder) /\ pc' = "sync"
    BY <1>2, OrderLength DEF NextFile, Goto
  <2> QED
    BY <2>1
<1> QED
  BY <1>1, <1>2

(* The files are replaced. *)
LEMMA ForwardFiles ==
    ASSUME ShapeInv, InstallerInv, ForwardInv, BackupFile \/ ReplaceFile, ~twice
    PROVE  ForwardInv'
<1> DEFINE f == InstallOrder[at]
<1>1. /\ files \in [Files -> Contents] /\ tx \in TxStates /\ at \in 1..Len(InstallOrder)
      /\ pc \in {"backup", "replace"} /\ f \in Files
  BY OrderFiles DEF InstallerInv, FilesInv, FilesTyped, PositionOK, BackupFile, ReplaceFile
<1>2. Filled(files, at) /\ (tx.unitChanged \/ UnitsLoaded)
  BY <1>1 DEF ForwardInv, FileLabels
<1>3. unit' = unit /\ twice' = twice
  BY DEF BackupFile, ReplaceFile, Forward, history
<1>4. ASSUME NEW s \in Services
      PROVE  /\ UnitFile(s) \in Files /\ UnitFile(s) \in Units /\ UnitFile(s) \notin Packages
  BY PackagesAreFiles DEF UnitFile, Units, Packages
<1>5. CASE BackupFile /\ KeepsFile(f)
  <2>1. UNCHANGED <<files, tx>> /\ NextFile
    BY <1>5 DEF BackupFile
  <2>2. Filled(files', at + 1)
    BY <1>1, <1>2, <1>5, <2>1, FilledUpTo DEF KeepsFile
  <2>3. UnitsLoaded' <=> UnitsLoaded
    BY <1>3, <2>1 DEF UnitsLoaded
  <2> QED
    BY <1>1, <1>2, <2>1, <2>2, <2>3, FilledNext DEF ForwardInv, StartLabels
<1>6. CASE BackupFile /\ ~KeepsFile(f)
  <2>1. /\ pc' = "replace" /\ at' = at /\ tx' = Listing(tx, f, files[f])
        /\ \/ files' = files
           \/ files' = [files EXCEPT ![f] = "absent"] /\ f \in Packages
    BY <1>6 DEF BackupFile, Goto, Listing
  <2>2. Filled(files', at')
    BY <1>1, <1>2, <2>1, FilledBelow
  <2>3. tx'.unitChanged = tx.unitChanged
    BY <1>1, <2>1 DEF Listing, TxStates
  <2>4. \A s \in Services : files'[UnitFile(s)] = files[UnitFile(s)]
    BY <1>1, <1>4, <2>1
  <2>5. UnitsLoaded' <=> UnitsLoaded
    BY <1>3, <2>4 DEF UnitsLoaded
  <2> QED
    BY <1>2, <2>1, <2>2, <2>3, <2>5 DEF ForwardInv, StartLabels
<1>7. CASE ReplaceFile
  <2>1. files' = [files EXCEPT ![f] = "new"] /\ NextFile
    BY <1>7 DEF ReplaceFile
  <2>2. tx'.unitChanged = (tx.unitChanged \/ f \in Units)
    BY <1>1, <1>7 DEF ReplaceFile, TxStates
  <2>3. Filled(files', at) /\ files'[f] = "new"
    BY <1>1, <1>2, <2>1, FilledBelow
  <2>4. Filled(files', at + 1)
    BY <1>1, <2>3, FilledUpTo
  <2>5. ASSUME f \notin Units PROVE UnitsLoaded' <=> UnitsLoaded
    <3>1. \A s \in Services : files'[UnitFile(s)] = files[UnitFile(s)]
      BY <1>1, <1>4, <2>1, <2>5
    <3> QED
      BY <1>3, <3>1 DEF UnitsLoaded
  <2>6. tx'.unitChanged \/ UnitsLoaded'
    BY <1>2, <2>2, <2>5
  <2> QED
    BY <1>1, <2>1, <2>4, <2>6, FilledNext DEF ForwardInv, StartLabels
<1> QED
  BY <1>5, <1>6, <1>7

(* Enabling, starting and restarting leave the unit systemd has. *)
LEMMA LoadedKept ==
    ASSUME unit \in [Services -> UnitStates], pc \in ServiceLabels => at \in {1, 2},
           Migrate \/ Activate \/ StartService, NEW s \in Services
    PROVE  unit'[s].loaded = unit[s].loaded
<1>1. CASE unit' = unit
  BY <1>1
<1>2. CASE Activate \/ StartService
  <2>1. at \in {1, 2}
    BY <1>2 DEF Activate, StartService, ServiceLabels
  <2>2. PICK t \in Services : t = Service[at]
    BY <2>1, ServiceAt
  <2>3. \/ unit' = unit
        \/ \E u \in {unit[t], Enabled(unit[t]), Stopped(unit[t]), Restarted(unit[t], t),
                      Started(unit[t], t)} : Command(t, u)
    BY <1>2, <2>2 DEF Activate, StartService, host
  <2>4. ASSUME NEW u \in {unit[t], Enabled(unit[t]), Stopped(unit[t]), Restarted(unit[t], t),
                          Started(unit[t], t)}, Command(t, u)
        PROVE  unit'[s].loaded = unit[s].loaded
    <3>1. unit'[t] = u /\ (s # t => unit'[s] = unit[s])
      BY <2>4, CommandAt
    <3>2. u.loaded = unit[t].loaded
      <4>1. unit[t] \in UnitStates
        OBVIOUS
      <4>2. CASE u = Enabled(unit[t])
        BY <4>1, <4>2, CommandFields
      <4>3. CASE u = Stopped(unit[t])
        BY <4>1, <4>3, CommandFields
      <4>4. CASE u = Restarted(unit[t], t)
        BY <4>1, <4>4, CommandFields
      <4>5. CASE u = Started(unit[t], t)
        BY <4>1, <4>5, CommandFields
      <4> QED
        BY <2>4, <4>2, <4>3, <4>4, <4>5
    <3> QED
      BY <3>1, <3>2
  <2> QED
    BY <1>1, <2>3, <2>4
<1> QED
  BY <1>1, <1>2 DEF Migrate

(* The other steps. *)
LEMMA ForwardSteps ==
    ASSUME ShapeInv, InstallerInv, ForwardInv, ~twice', twice => twice',
           InstallStep \/ UndoStep \/ Begin \/ Killed, ~BackupFile, ~ReplaceFile
    PROVE  ForwardInv'
<1>1. /\ files \in [Files -> Contents] /\ tx \in TxStates /\ unit \in [Services -> UnitStates]
      /\ pc \in ServiceLabels => at \in {1, 2}
  BY DEF ShapeInv, InstallerTypeOK
<1>2. ASSUME pc' \notin FileLabels \cup StartLabels PROVE ForwardInv'
  BY <1>2 DEF ForwardInv, FileLabels, StartLabels
<1>3. CASE UndoStep
  <2>1. ASSUME NEW v, EndUndo(v) PROVE pc' = "ended"
    BY <2>1, TrapEnds
  <2>2. pc' \in {"prepare", "undo_file", "undo_database", "undo_directories", "undo_reload",
                 "restore", "ended"}
    BY <1>3, <2>1
       DEF UndoStep, PrepareServiceRollback, RollbackFile, RollbackFilesDone,
           RemoveCreatedDatabase, RemoveCreatedDirectories, UndoReload, RestoreServiceState, Goto
  <2> QED
    BY <1>2, <2>2 DEF FileLabels, EarlyLabels, StartLabels
<1>4. ASSUME NEW sub, UndoIn(sub) PROVE ForwardInv'
  <2>1. pc' \in {"prepare", "undo_file"}
    BY <1>4, TrapBegins
  <2> QED
    BY <1>2, <2>1 DEF FileLabels, EarlyLabels, StartLabels
<1>5. CASE VerifyInstalledRuntime \/ CleanUp \/ Killed \/ CommandFails
  <2>1. pc' \in {"cleanup", "ended", "killed"} \/ \E sub : UndoIn(sub)
    BY <1>5 DEF VerifyInstalledRuntime, CleanUp, Killed, CommandFails, Goto
  <2> QED
    BY <1>2, <1>4, <2>1 DEF FileLabels, EarlyLabels, StartLabels
<1>6. CASE Begin \/ Validate \/ RecordServiceState \/ EnsureDirectories
  <2>1. /\ UNCHANGED <<files, unit>> /\ tx'.unitChanged = tx.unitChanged /\ pc \in EarlyLabels
    <3>1. CASE Begin \/ Validate
      BY <3>1 DEF Begin, Validate, host, EarlyLabels
    <3>2. CASE RecordServiceState
      BY <1>1, <3>2 DEF RecordServiceState, host, TxStates, EarlyLabels
    <3>3. CASE EnsureDirectories
      BY <1>1, <3>3 DEF EnsureDirectories, TxStates, EarlyLabels
    <3> QED
      BY <1>6, <3>1, <3>2, <3>3
  <2>2. tx'.unitChanged \/ UnitsLoaded'
    BY <2>1 DEF ForwardInv, FileLabels, UnitsLoaded
  <2>3. \/ \E sub : UndoIn(sub)
        \/ pc' \in EarlyLabels
        \/ pc' = "backup" /\ at' = 1
    BY <1>6 DEF Begin, Validate, RecordServiceState, EnsureDirectories, Goto, EarlyLabels
  <2>4. Filled(files', 1)
    BY OrderLength DEF Filled
  <2> QED
    BY <1>4, <2>2, <2>3, <2>4 DEF ForwardInv, EarlyLabels, StartLabels
<1>7. CASE Sync
  <2>1. UNCHANGED <<files, unit, tx>> /\ pc = "sync" /\ pc' = "reload"
    BY <1>7 DEF Sync, host, Goto
  <2>2. UnitsLoaded' <=> UnitsLoaded
    BY <2>1 DEF UnitsLoaded
  <2> QED
    BY <2>1, <2>2 DEF ForwardInv, FileLabels, StartLabels
<1>8. CASE DaemonReload
  <2>1. /\ UNCHANGED <<files, tx>> /\ pc = "reload" /\ pc' = "migrate"
        /\ unit' = IF tx.unitChanged THEN Reloaded ELSE unit
    BY <1>8 DEF DaemonReload, Goto
  <2>2. CASE tx.unitChanged
    <3>1. UnitsLoaded'
      BY <1>1, <2>1, <2>2, ReloadFields DEF UnitsLoaded
    <3> QED
      BY <2>1, <3>1 DEF ForwardInv, FileLabels, EarlyLabels, StartLabels
  <2>3. CASE ~tx.unitChanged
    <3>1. UnitsLoaded'
      BY <2>1, <2>3 DEF ForwardInv, FileLabels, UnitsLoaded
    <3> QED
      BY <2>1, <3>1 DEF ForwardInv, FileLabels, EarlyLabels, StartLabels
  <2> QED
    BY <2>2, <2>3
<1>9. CASE Migrate \/ Activate \/ StartService
  <2>1. files' = files /\ pc \in StartLabels
    BY <1>9 DEF Migrate, Activate, StartService, Command, host, StartLabels
  <2>2. \/ \E sub : UndoIn(sub)
        \/ pc' \in StartLabels \cup {"verify"}
    BY <1>9 DEF Migrate, Activate, StartService, NextService, Goto, StartLabels
  <2>3. ASSUME NEW s \in Services PROVE unit'[s].loaded = unit[s].loaded
    BY <1>1, <1>9, LoadedKept
  <2>4. UnitsLoaded'
    BY <2>1, <2>3 DEF ForwardInv, UnitsLoaded
  <2> QED
    BY <1>4, <2>1, <2>2, <2>4 DEF ForwardInv, FileLabels, EarlyLabels, StartLabels
<1> QED
  BY <1>3, <1>5, <1>6, <1>7, <1>8, <1>9 DEF InstallStep

(* twice is set once and for all. *)
LEMMA TwiceStays ==
    ASSUME InstallStep \/ UndoStep \/ Begin \/ Killed, faults \in Nat
    PROVE  twice => twice'
<1>1. CASE InstallStep \/ Begin \/ Killed
  BY <1>1, ForwardFrame
<1>2. CASE UndoStep
  BY <1>2, UndoFrame DEF EndUndo
<1> QED
  BY <1>1, <1>2

(* What a process is made of is not configuration. *)
LEMMA RuntimeFilled ==
    ASSUME NEW s \in Services, Filled(files, Len(InstallOrder) + 1)
    PROVE  \A f \in RuntimeOf(s) : files[f] = "new"
<1>1. \A k \in 1..15 : InstallOrder[k] \notin Configs => files[InstallOrder[k]] = "new"
  BY OrderLength DEF Filled
<1>2. \A k \in {5, 8, 9, 10, 13, 15} : files[InstallOrder[k]] = "new"
  <2>1. \A k \in {5, 8, 9, 10, 13, 15} : k \in 1..15 /\ InstallOrder[k] \notin Configs
    BY DEF InstallOrder, Configs
  <2> QED
    BY <1>1, <2>1
<1>3. /\ files["monitoring"] = "new" /\ files["gost-monitor-collector"] = "new"
      /\ files["gost-monitor-collector.service"] = "new" /\ files["gost_watchdog"] = "new"
      /\ files["gost-upstream-watchdog"] = "new"
      /\ files["gost-upstream-watchdog.service"] = "new"
  BY <1>2 DEF InstallOrder
<1> QED
  BY <1>3 DEF RuntimeOf

(* What is started is complete, and one release. *)
LEMMA StartStep ==
    ASSUME TInv, InstallerInv, ForwardInv, InstallStep \/ UndoStep \/ Begin \/ Killed, ~twice,
           NEW s \in Services, unit'[s].active, unit'[s].code # unit[s].code
    PROVE  /\ \/ \A f \in RuntimeOf(s) : files'[f] = "new"
              \/ \A f \in RuntimeOf(s) : files'[f] = before.files[f]
           /\ unit'[s].loaded = files'[UnitFile(s)]
<1>1. /\ ShapeInv /\ unit \in [Services -> UnitStates] /\ before \in Hosts /\ tx \in TxStates
      /\ pc \in ServiceLabels => at \in {1, 2}
  BY DEF TInv, ReportInv, ShapeInv, InstallerTypeOK
<1>2. \/ Activate \/ StartService \/ PrepareServiceRollback \/ RestoreServiceState
      \/ DaemonReload \/ UndoReload \/ unit' = unit
  BY DEF InstallStep, UndoStep, Begin, Killed, Validate, RecordServiceState, EnsureDirectories,
         BackupFile, ReplaceFile, Sync, Migrate, VerifyInstalledRuntime, CleanUp, CommandFails,
         RollbackFile, RollbackFilesDone, RemoveCreatedDatabase, RemoveCreatedDirectories, host
<1>3. ~DaemonReload /\ ~UndoReload
  <2>1. ASSUME DaemonReload \/ UndoReload PROVE unit'[s].code = unit[s].code
    BY <1>1, <2>1, ReloadFields DEF DaemonReload, UndoReload
  <2> QED
    BY <2>1
<1>4. CASE Activate \/ StartService
  <2>1. files' = files /\ pc \in StartLabels
    BY <1>4 DEF Activate, StartService, Command, host, StartLabels
  <2>2. Filled(files, Len(InstallOrder) + 1) /\ UnitsLoaded
    BY <2>1 DEF ForwardInv
  <2>3. unit'[s].loaded = unit[s].loaded
    BY <1>1, <1>4, LoadedKept
  <2>4. \A f \in RuntimeOf(s) : files[f] = "new"
    BY <2>2, RuntimeFilled
  <2> QED
    BY <2>1, <2>2, <2>3, <2>4 DEF UnitsLoaded
<1>5. ASSUME PrepareServiceRollback \/ RestoreServiceState
      PROVE  ServiceInv /\ at \in {1, 2}
  <2>1. pc \in {"prepare", "restore"}
    BY <1>5 DEF PrepareServiceRollback, RestoreServiceState
  <2>2. ~tx.committed /\ at \in {1, 2}
    BY <1>1, <2>1 DEF ShapeInv, ServiceLabels
  <2> QED
    BY <2>1, <2>2 DEF TInv, ReportInv
<1>6. ~PrepareServiceRollback
  <2> SUFFICES ASSUME PrepareServiceRollback PROVE FALSE
    OBVIOUS
  <2>1. ServiceInv /\ at \in {1, 2}
    BY <1>5
  <2>2. PICK t \in Services : t = Service[at]
    BY <2>1, ServiceAt
  <2>3. PICK u \in PreparedUnits(t) : Command(t, u)
    BY <2>2, PrepareUnfolds
  <2>4. unit'[t] = u /\ (s # t => unit'[s] = unit[s])
    BY <1>1, <2>3, CommandAt
  <2>5. unit[t] \in UnitStates /\ tx.prev[t].unit \in BOOLEAN
        /\ (~unit[t].active => unit[t].code = "absent")
    BY <1>1, <2>1 DEF ServiceInv, TxStates
  <2>6. u.active => u.code = unit[t].code
    BY <2>5, PreparedFields
  <2> QED
    BY <2>4, <2>6
<1>7. CASE RestoreServiceState
  <2>1. ServiceInv /\ at \in {1, 2}
    BY <1>5, <1>7
  <2>2. PICK t \in Services : t = Service[at]
    BY <2>1, ServiceAt
  <2>3. PICK u \in RestoredUnits(t) :
            /\ unit' = [unit EXCEPT ![t] = u] /\ u.loaded = before.unit[t].loaded
            /\ UNCHANGED <<files, before>>
    BY <1>1, <1>7, <2>1, <2>2, RestoreStep
  <2>4. s = t /\ unit'[s] = u
    BY <1>1, <2>3
  <2>5. files = before.files
    BY <1>1, <1>7, FilesPutBack DEF RestoreServiceState, PutBackLabels
  <2>6. before.unit[s].loaded = before.files[UnitFile(s)]
    BY <1>1, HostBefore
  <2> QED
    BY <2>3, <2>4, <2>5, <2>6
<1> QED
  BY <1>2, <1>3, <1>4, <1>6, <1>7

(* A process is started only from a complete runtime of one release, all   *)
(* new or all old, under the unit that is on disk (activate_collector,     *)
(* rollback_transaction), on every host and whatever fails, as long as the *)
(* transaction is undone once.                                             *)
THEOREM StartsAlwaysConsistent == Spec => StartsConsistent
<1> DEFINE Consistent ==
        ~twice => \A s \in Services :
           unit'[s].active /\ unit'[s].code # unit[s].code =>
               /\ \/ \A f \in RuntimeOf(s) : files'[f] = "new"
                  \/ \A f \in RuntimeOf(s) : files'[f] = before.files[f]
               /\ unit'[s].loaded = files'[UnitFile(s)]
<1>1. Init => ForwardInv
  <2> SUFFICES ASSUME Init PROVE ForwardInv
    OBVIOUS
  <2>1. before \in Hosts /\ files = before.files /\ unit = before.unit /\ pc = "idle"
    BY DEF Init, InstallerInit
  <2>2. UnitsLoaded
    BY <2>1, HostBefore DEF UnitsLoaded
  <2> QED
    BY <2>1, <2>2 DEF ForwardInv, StartLabels
<1>2. TInv /\ InstallerInv /\ ForwardInv /\ [Next]_vars => ForwardInv'
  <2> SUFFICES ASSUME TInv, InstallerInv, ForwardInv, [Next]_vars PROVE ForwardInv'
    OBVIOUS
  <2>1. ShapeInv /\ faults \in Nat
    BY MaxFaultsAssumption DEF TInv, ShapeInv, InstallerTypeOK
  <2>2. CASE InstallStep \/ UndoStep \/ Begin \/ Killed
    <3>1. CASE twice'
      BY <3>1 DEF ForwardInv
    <3>2. CASE ~twice'
      BY <2>1, <2>2, <3>2, TwiceStays, ForwardFiles, ForwardSteps
    <3> QED
      BY <3>1, <3>2
  <2>3. CASE UNCHANGED installerVars
    <3>1. UNCHANGED <<files, unit, pc, at, tx, twice>>
      BY <2>3 DEF installerVars, host, history
    <3> QED
      BY <3>1 DEF ForwardInv, UnitsLoaded, Filled
  <2> QED
    BY <2>2, <2>3, InstallerSteps
<1>3. TInv /\ InstallerInv /\ ForwardInv /\ [Next]_vars => [Consistent]_installerVars
  <2> SUFFICES ASSUME TInv, InstallerInv, ForwardInv, [Next]_vars, ~UNCHANGED installerVars
               PROVE  Consistent
    OBVIOUS
  <2>1. InstallStep \/ UndoStep \/ Begin \/ Killed
    BY InstallerSteps
  <2> QED
    BY <2>1, StartStep
<1>4. Spec => [](TInv /\ InstallerInv)
  BY ReportInvariant, PTL
<1> QED
  BY <1>1, <1>2, <1>3, <1>4, PTL DEF Spec, StartsConsistent
============================================================================
