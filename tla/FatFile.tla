------------------------------- MODULE FatFile -------------------------------
(***************************************************************************)
(* The log file on the SD card: loggerManager::handler, fatFSHandler, and  *)
(* what ff.c does of f_open, f_write and f_close, request by request.      *)
(*                                                                         *)
(* The disk is one the driver's promise allows (module BlockDevice): a     *)
(* request changes no sector but its own, and an error may come before or  *)
(* after the sector was written; but no block is changed on its way, which *)
(* the driver would not notice.  The power may be lost between any two     *)
(* requests.  A cluster is one sector, a line is shorter than one, and no  *)
(* entry straddles two sectors: neither that of the log file in the        *)
(* directory, nor one of the FAT, which has 16 or 32 bits an entry (with   *)
(* the 12 of a card below 4085 clusters get_fat and put_fat may need two). *)
(***************************************************************************)
EXTENDS Integers, Sequences

CONSTANTS
  SectorSize,  \* SS(fs)
  LineLength,  \* strlen(_pDataBuff)
  Clusters,    \* clusters of the volume, numbered from 2
  PerSector,   \* entries of the FAT in one of its sectors
  MaxRecords,  \* bound of the model
  Faults       \* disk requests that may fail: "read", "write", "sync"

ASSUME VolumeAssumption ==
  /\ LineLength \in Nat \ {0} /\ SectorSize \in Nat /\ LineLength < SectorSize
  /\ Clusters \in Nat \ {0}
  /\ PerSector \in Nat \ {0}
  /\ MaxRecords \in Nat
  /\ Faults \subseteq {"read", "write", "sync"}

VARIABLES
  disk,     \* the directory sector, with the entry of the file, and the FAT's
  data,     \* the sectors of the clusters
  fs,       \* FATFS: mounted, its window on the disk, last_clst
  lock,     \* Files[] holds the log file
  fp,       \* FIL
  step,     \* where the call is
  mode,     \* what the file is opened for
  left,     \* bytes left to seek, then to write
  scan,     \* create_chain: scl and ncl
  rec,      \* the record being logged
  trouble   \* history: the disk failed, or the power, since rec was handed over

calls == <<step, mode, left, scan>>
vars  == <<disk, data, fs, lock, fp, calls, rec, trouble>>

n_fatent == Clusters + 2
ClusterSet == 2 .. n_fatent - 1
Free == 0
EOC  == n_fatent

NoSector     == -1
DirSector    == 0
FatSector(c) == 1 + c \div PerSector  \* fatbase is 1
Sectors      == {DirSector} \cup {FatSector(c) : c \in ClusterSet}

NoByte == <<0, 0>>
Bytes  == {NoByte} \cup (1 .. MaxRecords) \X (1 .. LineLength)
Block  == [1 .. SectorSize -> Bytes]
Blank  == [i \in 1 .. SectorSize |-> NoByte]
Line   == [i \in 1 .. LineLength |-> <<rec, i>>]

NoEntry == [exists |-> FALSE, sclust |-> 0, size |-> 0]
Sizes   == 0 .. Clusters * SectorSize

\* What a sector of the directory or of the FAT holds.
Contents(s) ==
  IF s = DirSector
  THEN [exists : BOOLEAN, sclust : {0} \cup ClusterSet, size : Sizes]
  ELSE [{c \in ClusterSet : FatSector(c) = s} -> {Free, EOC} \cup ClusterSet]

FatOf(c) == disk[FatSector(c)][c]

NotMounted == [mounted |-> FALSE, winsect |-> NoSector, win |-> NoEntry,
               wflag |-> FALSE, last_clst |-> 1]
NoFile == [sclust |-> 0, objsize |-> 0, fptr |-> 0, clust |-> 0, sect |-> 0,
           buf |-> Blank, dirty |-> FALSE, modified |-> FALSE]
NoScan == [scl |-> 0, ncl |-> 0]

OpenSteps  == {"mount", "find", "seek", "fill"}
WriteSteps == {"write", "chain", "advance", "probe", "link", "place"}
CloseSteps == {"close", "entry", "sync"}
Steps      == {"idle"} \cup OpenSteps \cup WriteSteps \cup CloseSteps

Init ==
  /\ disk = [s \in Sectors |->
               IF s = DirSector THEN NoEntry
               ELSE [c \in {c \in ClusterSet : FatSector(c) = s} |-> Free]]
  /\ data = [c \in ClusterSet |-> Blank]
  /\ fs = NotMounted /\ lock = FALSE /\ fp = NoFile
  /\ step = "idle" /\ mode = "append" /\ left = 0 /\ scan = NoScan
  /\ rec = 0 /\ trouble = FALSE

-----------------------------------------------------------------------------
(* How a call goes on.                                                     *)

GoTo(s) == step' = s /\ UNCHANGED mode

\* Nothing of the call is read again: f_open fills the FIL anew.
Return == GoTo("idle") /\ fp' = NoFile /\ left' = 0 /\ scan' = NoScan

\* open returned false: the handler tries to create the file, once.
OpenFails ==
  IF mode = "append"
  THEN /\ step' = "mount" /\ mode' = "create"
       /\ fp' = NoFile /\ left' = 0 /\ UNCHANGED scan
  ELSE Return

\* ABORT: the handler goes on to close the file.
WriteFails == GoTo("close") /\ scan' = NoScan /\ UNCHANGED <<fp, left>>

\* What becomes of the call after a disk error.  An open that fails this late,
\* and a close that fails, leave the lock as it is.
Fails ==
  CASE step \in OpenSteps  -> OpenFails
    [] step \in WriteSteps -> WriteFails
    [] step \in CloseSteps -> Return

DiskError == Fails /\ trouble' = TRUE /\ UNCHANGED <<lock, rec>>

-----------------------------------------------------------------------------
(* move_window: the call needs a sector other than the one in the window.  *)

\* The sector of the directory or of the FAT the step needs.
Needed ==
  CASE step \in {"find", "entry"}         -> DirSector
    [] step \in {"seek", "chain", "link"} -> FatSector(fp.clust)
    [] step = "probe"                     -> FatSector(scan.ncl)
    [] OTHER                              -> fs.winsect

InWindow == Needed = fs.winsect

Written == [disk EXCEPT ![fs.winsect] = fs.win]

\* sync_window
FlushWindow ==
  /\ ~InWindow \/ step = "sync"
  /\ fs.wflag
  /\ \/ /\ disk' = Written
        /\ fs' = [fs EXCEPT !.wflag = FALSE]
        /\ UNCHANGED <<data, lock, fp, calls, rec, trouble>>
     \/ /\ "write" \in Faults
        /\ disk' \in {disk, Written}
        /\ DiskError
        /\ UNCHANGED <<data, fs>>

LoadWindow ==
  /\ ~InWindow /\ ~fs.wflag
  /\ fs' = [fs EXCEPT !.winsect = Needed, !.win = disk[Needed]]
  /\ UNCHANGED <<disk, data, lock, fp, calls, rec, trouble>>

\* Mutant: a window that could not be read counts as the one asked for.
LoadFailsKeeping ==
  /\ ~InWindow /\ ~fs.wflag /\ "read" \in Faults
  /\ fs' = [fs EXCEPT !.winsect = Needed]
  /\ DiskError
  /\ UNCHANGED <<disk, data>>

\* "Invalidate window if data is not reliable."
LoadFails ==
  /\ ~InWindow /\ ~fs.wflag /\ "read" \in Faults
  /\ fs' = [fs EXCEPT !.winsect = NoSector, !.win = NoEntry]
  /\ DiskError
  /\ UNCHANGED <<disk, data>>

PutFat(c, value) == [fs EXCEPT !.win[c] = value, !.wflag = TRUE]

-----------------------------------------------------------------------------
(* loggerManager::handler, and f_open of fatFSHandler::open.               *)

\* The append comes first.
NewRecord ==
  /\ step = "idle" /\ rec < MaxRecords
  /\ rec' = rec + 1 /\ trouble' = FALSE
  /\ step' = "mount" /\ mode' = "append"
  /\ UNCHANGED <<disk, data, fs, lock, fp, left, scan>>

\* find_volume reads the volume's parameters at the first use; where FSInfo
\* exists it suggests any cluster, and an impossible one counts as 1.
FindVolume ==
  /\ step = "mount"
  /\ \/ /\ fs.mounted /\ GoTo("find")
        /\ UNCHANGED <<fs, lock, fp, left, scan, rec, trouble>>
     \/ /\ ~fs.mounted /\ GoTo("find")
        /\ \E c \in {1} \cup ClusterSet :
             fs' = [NotMounted EXCEPT !.mounted = TRUE, !.last_clst = c]
        /\ lock' = FALSE
        /\ UNCHANGED <<fp, left, scan, rec, trouble>>
     \/ /\ ~fs.mounted /\ "read" \in Faults
        /\ DiskError
        /\ UNCHANGED fs
  /\ UNCHANGED <<disk, data>>

\* chk_lock finds the file open; or FA_CREATE_NEW, and it exists.
OpenRefused ==
  /\ step = "find" /\ InWindow
  /\ fs.win.exists
  /\ lock \/ mode = "create"
  /\ OpenFails
  /\ UNCHANGED <<disk, data, fs, lock, rec, trouble>>

\* Where f_open goes on with ofs bytes left to the end of the file.
SeekFrom(ofs) ==
  IF ofs > SectorSize THEN GoTo("seek") /\ left' = ofs
  ELSE IF ofs % SectorSize # 0 THEN GoTo("fill") /\ left' = ofs
  ELSE GoTo("write") /\ left' = LineLength

\* The file is locked before its end is looked for.
OpenAppend ==
  /\ step = "find" /\ InWindow
  /\ fs.win.exists /\ ~lock /\ mode = "append"
  /\ lock' = TRUE
  /\ fp' = [NoFile EXCEPT !.sclust = fs.win.sclust, !.objsize = fs.win.size,
                          !.fptr = fs.win.size, !.clust = fs.win.sclust]
  /\ SeekFrom(fs.win.size)
  /\ UNCHANGED <<disk, data, fs, scan, rec, trouble>>

\* dir_register: FA_OPEN_APPEND creates a missing file, and so does
\* FA_CREATE_NEW; its entry is in the window only.
Register ==
  /\ step = "find" /\ InWindow
  /\ ~fs.win.exists
  /\ lock' = TRUE
  /\ fs' = [fs EXCEPT !.win = [NoEntry EXCEPT !.exists = TRUE], !.wflag = TRUE]
  /\ fp' = [NoFile EXCEPT !.modified = TRUE]
  /\ GoTo("write") /\ left' = LineLength
  /\ UNCHANGED <<disk, data, scan, rec, trouble>>

\* FA_SEEKEND: one link of the chain.  A chain that ends too early, which
\* AppendLogSpec excludes, fails here.
Seek ==
  /\ step = "seek" /\ InWindow
  /\ IF fs.win[fp.clust] \in ClusterSet
     THEN /\ fp' = [fp EXCEPT !.clust = fs.win[fp.clust]]
          /\ SeekFrom(left - SectorSize)
          /\ UNCHANGED scan
     ELSE OpenFails
  /\ UNCHANGED <<disk, data, fs, lock, rec, trouble>>

\* The sector the file ends in is read into the buffer.
Fill ==
  /\ step = "fill"
  /\ \/ /\ fp' = [fp EXCEPT !.sect = fp.clust, !.buf = data[fp.clust]]
        /\ GoTo("write") /\ left' = LineLength
        /\ UNCHANGED <<scan, lock, rec, trouble>>
     \/ /\ "read" \in Faults
        /\ DiskError
  /\ UNCHANGED <<disk, data, fs>>

-----------------------------------------------------------------------------
(* f_write, with create_chain.                                             *)

Boundary == fp.fptr % SectorSize = 0

\* Into the buffer, as much as the sector takes.
Copy(sect) ==
  LET ofs   == fp.fptr % SectorSize
      wcnt  == IF left < SectorSize - ofs THEN left ELSE SectorSize - ofs
      done  == LineLength - left
      fptr  == fp.fptr + wcnt
  IN /\ fp' = [fp EXCEPT
                !.sect = sect, !.dirty = TRUE, !.fptr = fptr,
                !.objsize = IF fptr > fp.objsize THEN fptr ELSE fp.objsize,
                !.buf = [i \in 1 .. SectorSize |->
                           IF i - ofs \in 1 .. wcnt THEN Line[done + i - ofs]
                           ELSE fp.buf[i]]]
     /\ left' = left - wcnt
     /\ GoTo("write")

\* All is written, or the volume is full: f_write succeeds either way, and the
\* handler closes the file.
EndWrite == GoTo("close") /\ fp' = [fp EXCEPT !.modified = TRUE]

WriteOn ==
  /\ step = "write"
  /\ \/ left = 0 /\ EndWrite /\ UNCHANGED <<left, scan>>
     \/ left > 0 /\ ~Boundary /\ Copy(fp.sect) /\ UNCHANGED scan
     \/ \* the first cluster of an empty file
        /\ left > 0 /\ fp.fptr = 0 /\ fp.sclust = 0
        /\ scan' = [scl |-> fs.last_clst, ncl |-> fs.last_clst]
        /\ GoTo("advance") /\ UNCHANGED <<fp, left>>
     \/ /\ left > 0 /\ fp.fptr = 0 /\ fp.sclust # 0
        /\ fp' = [fp EXCEPT !.clust = fp.sclust]
        /\ GoTo("place") /\ UNCHANGED <<left, scan>>
     \/ /\ left > 0 /\ Boundary /\ fp.fptr > 0
        /\ GoTo("chain") /\ UNCHANGED <<fp, left, scan>>
  /\ UNCHANGED <<disk, data, fs, lock, rec, trouble>>

\* The chain may go on already: a power loss after the FAT was written.
Chain ==
  /\ step = "chain" /\ InWindow
  /\ LET cs == fs.win[fp.clust]
     IN \/ /\ cs \in ClusterSet
           /\ fp' = [fp EXCEPT !.clust = cs]
           /\ GoTo("place") /\ UNCHANGED <<left, scan>>
        \/ /\ cs = EOC
           /\ scan' = [scl |-> fp.clust, ncl |-> fp.clust]
           /\ GoTo("advance") /\ UNCHANGED <<fp, left>>
        \/ cs = Free /\ WriteFails
  /\ UNCHANGED <<disk, data, fs, lock, rec, trouble>>

VolumeFull == EndWrite /\ scan' = NoScan

\* Mutant: the search for a free cluster does not start over at the front.
AdvanceNoWrap ==
  /\ step = "advance"
  /\ IF scan.ncl + 1 < n_fatent
     THEN scan' = [scan EXCEPT !.ncl = @ + 1] /\ GoTo("probe") /\ UNCHANGED fp
     ELSE VolumeFull
  /\ UNCHANGED <<disk, data, fs, lock, left, rec, trouble>>

\* Mutant: a search that began in front of the first cluster never ends.
AdvanceForEver ==
  /\ step = "advance"
  /\ scan' = [scan EXCEPT !.ncl = IF @ + 1 < n_fatent THEN @ + 1 ELSE 2]
  /\ GoTo("probe")
  /\ UNCHANGED <<disk, data, fs, lock, fp, left, rec, trouble>>

\* ncl++, around the end of the volume.
Advance ==
  /\ step = "advance"
  /\ IF scan.ncl + 1 < n_fatent
     THEN scan' = [scan EXCEPT !.ncl = @ + 1] /\ GoTo("probe") /\ UNCHANGED fp
     ELSE IF 2 > scan.scl THEN VolumeFull
     ELSE scan' = [scan EXCEPT !.ncl = 2] /\ GoTo("probe") /\ UNCHANGED fp
  /\ UNCHANGED <<disk, data, fs, lock, left, rec, trouble>>

\* The cluster is the file's: fp->clust, and sclust of an empty one.
Allocated(clst) ==
  /\ fp' = [fp EXCEPT !.clust = clst, !.sclust = IF @ = 0 THEN clst ELSE @]
  /\ scan' = NoScan
  /\ GoTo("place")

Probe ==
  /\ step = "probe" /\ InWindow
  /\ \/ /\ fs.win[scan.ncl] # Free
        /\ IF scan.ncl = scan.scl THEN VolumeFull
           ELSE GoTo("advance") /\ UNCHANGED <<fp, scan>>
        /\ UNCHANGED fs
     \/ /\ fs.win[scan.ncl] = Free
        /\ fp.sclust = 0
        /\ fs' = [PutFat(scan.ncl, EOC) EXCEPT !.last_clst = scan.ncl]
        /\ Allocated(scan.ncl)
     \/ /\ fs.win[scan.ncl] = Free
        /\ fp.sclust # 0
        /\ fs' = PutFat(scan.ncl, EOC)
        /\ GoTo("link") /\ UNCHANGED <<fp, scan>>
  /\ UNCHANGED <<disk, data, lock, left, rec, trouble>>

Link ==
  /\ step = "link" /\ InWindow
  /\ fs' = [PutFat(fp.clust, scan.ncl) EXCEPT !.last_clst = scan.ncl]
  /\ Allocated(scan.ncl)
  /\ UNCHANGED <<disk, data, lock, left, rec, trouble>>

BufferWritten == [data EXCEPT ![fp.sect] = fp.buf]

\* The dirty buffer is written back, then starts the new sector.
Place ==
  /\ step = "place"
  /\ \/ /\ ~fp.dirty /\ Copy(fp.clust)
        /\ UNCHANGED <<data, lock, scan, rec, trouble>>
     \/ /\ fp.dirty
        /\ data' = BufferWritten
        /\ fp' = [fp EXCEPT !.dirty = FALSE]
        /\ UNCHANGED <<calls, lock, rec, trouble>>
     \/ /\ fp.dirty /\ "write" \in Faults
        /\ data' \in {data, BufferWritten}
        /\ DiskError
  /\ UNCHANGED <<disk, fs>>

-----------------------------------------------------------------------------
(* f_close, with f_sync; fatFSHandler::close drops its result.             *)

Unlock == lock' = FALSE /\ Return

\* Mutant: the directory is brought up to date before the data is.
CloseEntryFirst ==
  /\ step = "close"
  /\ IF fp.modified
     THEN GoTo("entry") /\ UNCHANGED <<fp, left, scan, lock>>
     ELSE Unlock
  /\ UNCHANGED <<disk, data, fs, rec, trouble>>

\* A file f_write gave up on before it changed it is not written.
Close ==
  /\ step = "close"
  /\ \/ /\ ~fp.modified /\ Unlock
        /\ UNCHANGED <<data, rec, trouble>>
     \/ /\ fp.modified /\ ~fp.dirty
        /\ GoTo("entry")
        /\ UNCHANGED <<data, fp, left, scan, lock, rec, trouble>>
     \/ /\ fp.modified /\ fp.dirty
        /\ data' = BufferWritten
        /\ fp' = [fp EXCEPT !.dirty = FALSE]
        /\ UNCHANGED <<calls, lock, rec, trouble>>
     \/ /\ fp.modified /\ fp.dirty /\ "write" \in Faults
        /\ data' \in {data, BufferWritten}
        /\ DiskError
  /\ UNCHANGED <<disk, fs>>

\* move_window has written what the window held of the FAT.
UpdateEntry ==
  /\ step = "entry" /\ InWindow
  /\ fs' = [fs EXCEPT !.win.sclust = fp.sclust, !.win.size = fp.objsize,
                      !.wflag = TRUE]
  /\ GoTo("sync")
  /\ UNCHANGED <<disk, data, lock, fp, left, scan, rec, trouble>>

\* sync_fs: FSInfo, where there is one, goes through the window; CTRL_SYNC.
Sync ==
  /\ step = "sync" /\ ~fs.wflag
  /\ fs' \in {fs, [fs EXCEPT !.winsect = NoSector, !.win = NoEntry]}
  /\ \/ Unlock /\ UNCHANGED <<rec, trouble>>
     \/ "sync" \in Faults /\ DiskError
  /\ UNCHANGED <<disk, data>>

-----------------------------------------------------------------------------

\* All but the disk is lost; the record is, too.
PowerLoss ==
  /\ fs' = NotMounted /\ lock' = FALSE
  /\ Return
  /\ trouble' = TRUE
  /\ UNCHANGED <<disk, data, rec>>

Handler ==
  \/ FlushWindow \/ LoadWindow \/ LoadFails
  \/ FindVolume \/ OpenRefused \/ OpenAppend \/ Register \/ Seek \/ Fill
  \/ WriteOn \/ Chain \/ Advance \/ Probe \/ Link \/ Place
  \/ Close \/ UpdateEntry \/ Sync

Next == NewRecord \/ Handler \/ PowerLoss

Spec == Init /\ [][Next]_vars

\* loggerTask is synchronous: the handler goes on until it returns.
FairSpec == Spec /\ WF_vars(Handler)

(* Properties.                                                             *)

FilRange ==
  [sclust : {0} \cup ClusterSet, objsize : Sizes, fptr : Sizes,
   clust : {0} \cup ClusterSet, sect : {0} \cup ClusterSet,
   buf : Block, dirty : BOOLEAN, modified : BOOLEAN]

\* The types; the window holds what belongs to the sector it claims to be.
TypeOK ==
  /\ DOMAIN disk = Sectors /\ \A s \in Sectors : disk[s] \in Contents(s)
  /\ data \in [ClusterSet -> Block]
  /\ fs.winsect \in Sectors \cup {NoSector}
  /\ fs.winsect \in Sectors => fs.win \in Contents(fs.winsect)
  /\ fs.mounted \in BOOLEAN /\ fs.wflag \in BOOLEAN
  /\ fs.last_clst \in {1} \cup ClusterSet
  /\ lock \in BOOLEAN /\ trouble \in BOOLEAN
  /\ fp \in FilRange
  /\ step \in Steps /\ mode \in {"append", "create"} /\ left \in Sizes
  /\ scan \in [scl : 0 .. n_fatent, ncl : 0 .. n_fatent]
  /\ rec \in 0 .. MaxRecords

Entry == disk[DirSector]

\* The cluster of the n-th sector of the file, as the FAT on the disk has it.
ClusterAt[n \in Nat] ==
  IF n = 0 THEN Entry.sclust
  ELSE IF ClusterAt[n - 1] \in ClusterSet THEN FatOf(ClusterAt[n - 1]) ELSE Free

ByteAt(k) ==
  LET c == ClusterAt[(k - 1) \div SectorSize]
  IN IF c \in ClusterSet THEN data[c][((k - 1) % SectorSize) + 1] ELSE NoByte

\* The file, for whoever reads the card now.
File == [k \in 1 .. Entry.size |-> ByteAt(k)]

Log == INSTANCE AppendLog WITH content <- File

\* Whatever fails, and whenever the power is lost, the file on the disk only
\* grows, by the beginning of the line of the record being logged, once: the
\* order in which f_write and f_sync bring data, FAT and directory to the disk.
AppendLogSpec == Log!Spec

Whole ==
  /\ Entry.size >= LineLength
  /\ SubSeq(File, Entry.size - LineLength + 1, Entry.size) = Line
VolumeIsFull == \A c \in ClusterSet : FatOf(c) # Free

\* When the handler has returned, no request to the disk failed meanwhile, and
\* no earlier call left the file locked, the line is whole at the end of the
\* file, unless every cluster is taken: the handler looks at no result but
\* open's, and create_chain must find the last free cluster wherever it is.
KeptUnlessLocked ==
  step = "idle" /\ rec > 0 /\ ~trouble /\ ~lock => Whole \/ VolumeIsFull

\* "If the logger manager has new data available, this function calls its
\* handler to write the data to storage" (loggerTask): a record is on the card
\* when the handler has returned and no request to the disk failed meanwhile.
NoErrorNoLoss ==
  step = "idle" /\ rec > 0 /\ ~trouble => Whole \/ VolumeIsFull

\* The handler returns, on a full volume and on a disk that fails too.
HandlerEnds == [](step # "idle" => <>(step = "idle"))

=============================================================================
